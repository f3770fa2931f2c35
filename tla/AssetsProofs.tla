---- MODULE AssetsProofs ----
(***************************************************************************)
(* Facts that more than one part rests on: induction over the numbers, and *)
(* rows in an order.  Then the invariants of the parts that keep files,    *)
(* reviews and invoices over the assets and the attachments of a work      *)
(* request, and of the walks through the feed and the lists.  Each part    *)
(* has the same three facts: its invariant holds at first, every step of   *)
(* the part keeps it, and it shows what is asked of the part.              *)
(* RecordsProofs draws the theorems from them.                             *)
(***************************************************************************)
EXTENDS Reviews, Invoices, Attachments, Lists, Integers, FiniteSetTheorems, SequenceTheorems,
        WellFoundedInduction, TLAPS

----
(* Induction over the numbers. *)

\* A set of numbers that is not empty has a least element.
LEMMA LeastNumber ==
  ASSUME NEW T \in SUBSET Nat, T # {}
  PROVE  \E n \in T : \A m \in T : n <= m
<1> DEFINE R == OpToRel(<, Nat)
<1>1. IsWellFoundedOn(R, Nat)
  BY NatLessThanWellFounded, Zenon
<1>2. \A y, x \in Nat : y < x => <<y, x>> \in R
  BY DEF OpToRel
<1> HIDE DEF R
<1>3. PICK x \in T : \A y \in T : ~(<<y, x>> \in R)
  BY <1>1, WFMin
<1>4. x \in Nat /\ \A y \in T : y \in Nat /\ ~(y < x)
  BY <1>2, <1>3
<1>5. \A y \in T : x <= y
  BY <1>4
<1> QED BY <1>5

\* Induction over the numbers, for a set in place of a predicate.
LEMMA SetInduction ==
  ASSUME NEW S, 0 \in S, \A n \in Nat : n \in S => n + 1 \in S
  PROVE  Nat \subseteq S
<1> DEFINE T == Nat \ S
<1>1. SUFFICES ASSUME T # {} PROVE FALSE
  OBVIOUS
<1>2. PICK n \in T : \A m \in T : n <= m
  BY <1>1, LeastNumber
<1>3. n # 0 /\ n - 1 \in Nat /\ n - 1 \notin T
  BY <1>2
<1> QED BY <1>2, <1>3

\* Induction up to a number.
LEMMA InductionTo ==
  ASSUME NEW N \in Nat, NEW T, 0 \in T, \A i \in 1..N : i - 1 \in T => i \in T
  PROVE  \A i \in 0..N : i \in T
<1> DEFINE S == {i \in Nat : i <= N => i \in T}
<1>1. 0 \in S
  OBVIOUS
<1>2. ASSUME NEW i \in Nat, i \in S PROVE i + 1 \in S
  <2>1. CASE i + 1 <= N
    <3>1. i + 1 \in 1..N /\ (i + 1) - 1 = i /\ i \in T
      BY <1>2, <2>1
    <3>2. i + 1 \in T
      BY <3>1
    <3> QED BY <3>2
  <2>2. CASE ~(i + 1 <= N)
    BY <2>2
  <2> QED BY <2>1, <2>2
<1>3. Nat \subseteq S
  <2> HIDE DEF S
  <2> QED BY <1>1, <1>2, SetInduction
<1>4. \A i \in 0..N : i \in Nat /\ i <= N
  OBVIOUS
<1> QED BY <1>3, <1>4

\* Places up to n that are not none have a last.
LEMMA LastPlace ==
  ASSUME NEW n \in Nat, NEW T \in SUBSET (1..n), T # {}
  PROVE  \E j \in T : \A k \in T : k <= j
<1> DEFINE U == {n - k : k \in T}
<1>1. U \in SUBSET Nat /\ U # {}
  <2>1. \A k \in T : n - k \in Nat
    OBVIOUS
  <2>2. PICK k : k \in T
    OBVIOUS
  <2>3. n - k \in U
    BY <2>2
  <2> QED BY <2>1, <2>3
<1>2. PICK m \in U : \A x \in U : m <= x
  <2> HIDE DEF U
  <2> QED BY <1>1, LeastNumber
<1>3. PICK j \in T : m = n - j
  OBVIOUS
<1>4. ASSUME NEW k \in T PROVE k <= j
  <2>1. n - k \in U
    OBVIOUS
  <2>2. m <= n - k
    <3> HIDE DEF U
    <3> QED BY <1>2, <2>1
  <2>3. k \in Int /\ j \in Int /\ n \in Int
    OBVIOUS
  <2> QED BY <1>3, <2>2, <2>3
<1> QED BY <1>3, <1>4

\* f is defined by recursion from 0 to N, its step is a function too.
Recursive(f, N, S, base, step) ==
  /\ f \in [0..N -> S] /\ f[0] = base
  /\ \A n \in 1..N : f[n] = step[<<n, f[n - 1]>>]

\* There is such a function.
LEMMA RecursionTo ==
  ASSUME NEW N \in Nat, NEW S, NEW base \in S, NEW step \in [(Nat \X S) -> S]
  PROVE  \E f : Recursive(f, N, S, base, step)
<1> DEFINE T == {M \in Nat : \E f \in [0..M -> S] : /\ f[0] = base
                               /\ \A n \in 1..M : f[n] = step[<<n, f[n - 1]>>]}
<1>1. 0 \in T
  <2> PICK f : f = [n \in 0..0 |-> base]
    OBVIOUS
  <2>1. f \in [0..0 -> S] /\ f[0] = base /\ \A n \in 1..0 : f[n] = step[<<n, f[n - 1]>>]
    OBVIOUS
  <2> QED BY <2>1
<1>2. ASSUME NEW M \in Nat, M \in T PROVE M + 1 \in T
  <2>1. PICK f \in [0..M -> S] : /\ f[0] = base
                                 /\ \A n \in 1..M : f[n] = step[<<n, f[n - 1]>>]
    BY <1>2
  <2> PICK last : last = step[<<M + 1, f[M]>>]
    OBVIOUS
  <2>2. last \in S
    <3>1. f[M] \in S /\ M + 1 \in Nat
      OBVIOUS
    <3> QED BY <3>1
  <2> PICK g : g = [n \in 0..(M + 1) |-> IF n = M + 1 THEN last ELSE f[n]]
    OBVIOUS
  <2>3. \A n \in 0..(M + 1) : n # M + 1 => n \in 0..M
    OBVIOUS
  <2>4. g \in [0..(M + 1) -> S] /\ g[M + 1] = last /\ \A n \in 0..M : g[n] = f[n]
    BY <2>2, <2>3
  <2>5. g[0] = base
    BY <2>1, <2>4
  <2>6. ASSUME NEW n \in 1..(M + 1) PROVE g[n] = step[<<n, g[n - 1]>>]
    <3>1. n - 1 \in 0..M /\ (n = M + 1 \/ n \in 1..M)
      OBVIOUS
    <3>2. g[n - 1] = f[n - 1]
      BY <2>4, <3>1
    <3>3. n = M + 1 => n - 1 = M
      OBVIOUS
    <3>4. CASE n = M + 1
      <4>1. g[n] = step[<<M + 1, f[M]>>] /\ g[n - 1] = f[M]
        BY <2>4, <3>2, <3>3, <3>4
      <4> QED BY <3>4, <4>1
    <3>5. CASE n \in 1..M
      <4>1. n \in 0..M /\ g[n] = f[n]
        BY <2>4, <3>5
      <4>2. f[n] = step[<<n, f[n - 1]>>]
        BY <2>1, <3>5
      <4> QED BY <3>2, <4>1, <4>2
    <3> QED BY <3>1, <3>4, <3>5
  <2>7. M + 1 \in Nat
    OBVIOUS
  <2> QED BY <2>4, <2>5, <2>6, <2>7
<1>3. N \in T
  <2> HIDE DEF T
  <2> QED BY <1>1, <1>2, SetInduction
<1> QED BY <1>3 DEF Recursive

----
(* Rows in an order. *)

\* ahead[p] are the elements before p, in an order of all of S.
Orders(ahead, S) ==
  /\ ahead \in [S -> SUBSET S]
  /\ \A p \in S : p \notin ahead[p]
  /\ \A p, q \in S : p \in ahead[q] => ahead[p] \subseteq ahead[q]
  /\ \A p, q \in S : p = q \/ p \in ahead[q] \/ q \in ahead[p]

\* In a finite set with an order each place is taken by one element.
LEMMA Ranking ==
  ASSUME NEW S, IsFiniteSet(S), NEW ahead, Orders(ahead, S)
  PROVE  /\ Cardinality(S) \in Nat
         /\ \A p \in S : Cardinality(ahead[p]) \in 0..(Cardinality(S) - 1)
         /\ \A p, q \in S : p \in ahead[q] => Cardinality(ahead[p]) < Cardinality(ahead[q])
         /\ \A p, q \in S : Cardinality(ahead[p]) = Cardinality(ahead[q]) => p = q
         /\ \A i \in 1..Cardinality(S) : \E p \in S : Cardinality(ahead[p]) = i - 1
<1>1. Cardinality(S) \in Nat
  BY FS_CardinalityType
<1>2. \A p \in S : ahead[p] \in SUBSET S /\ p \notin ahead[p]
  BY DEF Orders
<1>3. ASSUME NEW p \in S
      PROVE  IsFiniteSet(ahead[p]) /\ Cardinality(ahead[p]) \in 0..(Cardinality(S) - 1)
  <2>1. IsFiniteSet(ahead[p]) /\ Cardinality(ahead[p]) <= Cardinality(S)
          /\ (Cardinality(S) = Cardinality(ahead[p]) => S = ahead[p])
    BY <1>2, FS_Subset
  <2>2. Cardinality(ahead[p]) \in Nat
    BY <2>1, FS_CardinalityType
  <2>3. S # ahead[p]
    BY <1>2
  <2> QED BY <1>1, <2>1, <2>2, <2>3
<1>4. ASSUME NEW p \in S, NEW q \in S, p \in ahead[q]
      PROVE  Cardinality(ahead[p]) < Cardinality(ahead[q])
  <2>1. ahead[p] \in SUBSET ahead[q] /\ ahead[p] # ahead[q]
    BY <1>2, <1>4 DEF Orders
  <2>2. Cardinality(ahead[p]) <= Cardinality(ahead[q])
          /\ (Cardinality(ahead[q]) = Cardinality(ahead[p]) => ahead[q] = ahead[p])
    BY <1>3, <2>1, FS_Subset
  <2>3. Cardinality(ahead[p]) \in Int /\ Cardinality(ahead[q]) \in Int
    BY <1>1, <1>3
  <2> QED BY <2>1, <2>2, <2>3
<1>5. ASSUME NEW p \in S, NEW q \in S, Cardinality(ahead[p]) = Cardinality(ahead[q])
      PROVE  p = q
  <2>1. Cardinality(ahead[p]) \in Int /\ Cardinality(ahead[q]) \in Int
    BY <1>1, <1>3
  <2>2. p \notin ahead[q] /\ q \notin ahead[p]
    BY <1>4, <1>5, <2>1
  <2> QED BY <2>2 DEF Orders
<1>6. \A i \in 1..Cardinality(S) : \E p \in S : Cardinality(ahead[p]) = i - 1
  <2> DEFINE T == 0..(Cardinality(S) - 1)
             f == [p \in S |-> Cardinality(ahead[p])]
  <2>1. IsFiniteSet(T) /\ Cardinality(T) = Cardinality(S)
    BY <1>1, FS_Interval
  <2>2. f \in [S -> T] /\ \A p \in S : f[p] = Cardinality(ahead[p])
    BY <1>3
  <2>3. \A p, q \in S : f[p] = f[q] => p = q
    BY <1>5, <2>2
  <2>4. f \in Injection(S, T)
    BY <2>2, <2>3 DEF Injection, IsInjective
  <2>5. f \in Surjection(S, T)
    <3> HIDE DEF f, T
    <3> QED BY <2>1, <2>4, FS_Injection
  <2>6. \A n \in T : \E p \in S : f[p] = n
    BY <2>5 DEF Surjection
  <2>7. \A i \in 1..Cardinality(S) : i - 1 \in T
    BY <1>1
  <2> QED BY <2>2, <2>6, <2>7
<1> QED BY <1>1, <1>3, <1>4, <1>5, <1>6

\* The first n of a sequence.
LEMMA FirstOfSeq ==
  ASSUME NEW S, NEW all \in Seq(S), NEW n \in Nat
  PROVE  LET rows == FirstOf(n, all) IN
         /\ rows \in Seq(S) /\ Len(rows) \in Nat /\ DOMAIN rows = 1..Len(rows)
         /\ Len(rows) <= n /\ Len(rows) <= Len(all)
         /\ Len(rows) = n \/ Len(rows) = Len(all)
         /\ \A i \in 1..Len(rows) : i \in 1..Len(all) /\ rows[i] = all[i]
<1>1. Len(all) \in Nat /\ DOMAIN all = 1..Len(all)
  OBVIOUS
<1>2. CASE Len(all) > n
  <2>1. \A i \in 1..n : all[i] \in S
    BY <1>1, <1>2
  <2>2. /\ SubSeq(all, 1, n) \in Seq(S)
        /\ Len(SubSeq(all, 1, n)) = IF 1 <= n THEN n - 1 + 1 ELSE 0
        /\ \A i \in 1..(n - 1 + 1) : SubSeq(all, 1, n)[i] = all[1 + i - 1]
    BY <2>1, SubSeqProperties
  <2> PICK rows : rows = SubSeq(all, 1, n)
    OBVIOUS
  <2>3. rows \in Seq(S) /\ Len(rows) = n /\ \A i \in 1..n : rows[i] = all[i]
    BY <2>2
  <2>4. FirstOf(n, all) = rows
    BY <1>2 DEF FirstOf
  <2>5. DOMAIN rows = 1..n
    BY <2>3
  <2> QED BY <1>1, <1>2, <2>3, <2>4, <2>5
<1>3. CASE ~(Len(all) > n)
  <2>1. FirstOf(n, all) = all
    BY <1>3 DEF FirstOf
  <2> QED BY <1>1, <1>3, <2>1
<1> QED BY <1>2, <1>3

\* A finite set in its order, as InOrder gives it.
LEMMA InOrderPlaces ==
  ASSUME NEW S, IsFiniteSet(S), NEW ahead, Orders(ahead, S)
  PROVE  LET all == InOrder(S, ahead) IN
         /\ all \in Seq(S) /\ Len(all) \in Nat
         /\ \A i, j \in 1..Len(all) : i < j => all[i] \in ahead[all[j]]
         /\ \A p \in S : \E k \in 1..Len(all) : all[k] = p
<1> DEFINE size == Cardinality(S)
           rank == [p \in S |-> Cardinality(ahead[p])]
           all == [i \in 1..size |-> CHOOSE p \in S : rank[p] = i - 1]
<1>1. /\ size \in Nat /\ rank \in [S -> Nat] /\ \A p \in S : rank[p] < size
      /\ \A p, q \in S : p \in ahead[q] => rank[p] < rank[q]
      /\ \A p, q \in S : rank[p] = rank[q] => p = q
      /\ \A i \in 1..size : \E p \in S : rank[p] = i - 1
  <2>1. size \in Nat
    BY Ranking
  <2>2. \A p \in S : Cardinality(ahead[p]) \in 0..(size - 1)
    BY Ranking
  <2>3. \A p \in S : Cardinality(ahead[p]) \in Nat /\ Cardinality(ahead[p]) < size
    <3> HIDE DEF size
    <3> QED BY <2>1, <2>2
  <2>4. \A p \in S : rank[p] = Cardinality(ahead[p])
    OBVIOUS
  <2> HIDE DEF rank, size
  <2>5. \A i \in 1..size : \E p \in S : rank[p] = i - 1
    BY <2>4, Ranking DEF size
  <2>6. \A p, q \in S : rank[p] = rank[q] => p = q
    BY <2>4, Ranking
  <2>7. \A p, q \in S : p \in ahead[q] => rank[p] < rank[q]
    BY <2>4, Ranking
  <2>8. rank \in [S -> Nat]
    BY <2>3 DEF rank
  <2> QED BY <2>1, <2>3, <2>4, <2>5, <2>6, <2>7, <2>8
<1>2. all = InOrder(S, ahead)
  <2>1. \A i : (CHOOSE p \in S : rank[p] = i - 1) = CHOOSE p \in S : Cardinality(ahead[p]) = i - 1
    OBVIOUS
  <2> QED BY <2>1 DEF InOrder
<1> HIDE DEF size, rank
<1>3. \A i \in 1..size : all[i] \in S /\ rank[all[i]] = i - 1
  BY <1>1
<1>4. all \in [1..size -> S]
  BY <1>3
<1> HIDE DEF all
<1>5. ASSUME NEW i \in 1..size, NEW j \in 1..size, i < j
      PROVE  all[i] \in ahead[all[j]]
  <2>1. /\ all[i] \in S /\ rank[all[i]] = i - 1
        /\ all[j] \in S /\ rank[all[j]] = j - 1
    BY <1>3
  <2>2. ~(rank[all[j]] < rank[all[i]]) /\ rank[all[i]] # rank[all[j]]
    BY <1>1, <1>5, <2>1
  <2>3. all[j] \notin ahead[all[i]] /\ all[i] # all[j]
    BY <1>1, <2>1, <2>2
  <2> QED BY <2>1, <2>3 DEF Orders
<1>6. ASSUME NEW p \in S PROVE \E k \in 1..size : all[k] = p
  <2> PICK k : k = rank[p] + 1
    OBVIOUS
  <2>1. rank[p] \in Nat /\ rank[p] < size
    BY <1>1
  <2>2. k \in 1..size /\ rank[p] = k - 1
    BY <1>1, <2>1
  <2>3. all[k] \in S /\ rank[all[k]] = k - 1
    BY <1>3, <2>2
  <2>4. all[k] = p
    BY <1>1, <2>2, <2>3
  <2> QED BY <2>2, <2>4
<1>7. all \in Seq(S) /\ Len(all) = size
  BY <1>1, <1>4
<1> QED BY <1>1, <1>2, <1>5, <1>6, <1>7

\* What a query returns: rows are the first n of S in their order.
Firsts(rows, n, S, ahead) ==
  /\ rows \in Seq(S) /\ Len(rows) \in Nat /\ DOMAIN rows = 1..Len(rows) /\ Len(rows) <= n
  /\ \A i \in DOMAIN rows : rows[i] \in S
  /\ \A i, j \in DOMAIN rows : i < j => rows[i] \in ahead[rows[j]]
  /\ \A p \in S : \/ \E i \in DOMAIN rows : rows[i] = p
                  \/ Len(rows) = n /\ \A i \in DOMAIN rows : rows[i] \in ahead[p]

\* The first n rows, as FirstOf and InOrder give them.
LEMMA FirstRows ==
  ASSUME NEW S, IsFiniteSet(S), NEW ahead, Orders(ahead, S), NEW n \in Nat
  PROVE  Firsts(FirstOf(n, InOrder(S, ahead)), n, S, ahead)
<1> PICK all : all = InOrder(S, ahead)
  OBVIOUS
<1>1. /\ all \in Seq(S) /\ Len(all) \in Nat
      /\ \A i, j \in 1..Len(all) : i < j => all[i] \in ahead[all[j]]
      /\ \A p \in S : \E k \in 1..Len(all) : all[k] = p
  BY InOrderPlaces
<1> PICK rows : rows = FirstOf(n, all)
  OBVIOUS
<1> PICK size \in Nat : size = Len(all)
  BY <1>1
<1>2. /\ rows \in Seq(S) /\ Len(rows) \in Nat /\ DOMAIN rows = 1..Len(rows)
      /\ Len(rows) <= n /\ (Len(rows) = n \/ Len(rows) = size)
      /\ \A i \in 1..Len(rows) : i \in 1..size /\ rows[i] = all[i]
  BY <1>1, FirstOfSeq
<1> PICK m \in Nat : m = Len(rows) /\ DOMAIN rows = 1..m
  BY <1>2
<1>3. ASSUME NEW p \in S
      PROVE  \/ \E i \in 1..m : rows[i] = p
             \/ m = n /\ \A i \in 1..m : rows[i] \in ahead[p]
  <2> PICK k \in 1..size : all[k] = p
    BY <1>1
  <2>1. CASE k <= m
    <3>1. k \in 1..m
      BY <2>1
    <3> QED BY <1>2, <3>1
  <2>2. CASE ~(k <= m)
    <3>1. m = n
      BY <1>2, <2>2
    <3>2. \A i \in 1..m : i \in 1..size /\ i < k
      BY <1>2, <2>2
    <3> QED BY <1>1, <1>2, <3>1, <3>2
  <2> QED BY <2>1, <2>2
<1>4. \A i, j \in 1..m : i < j => rows[i] \in ahead[rows[j]]
  BY <1>1, <1>2
<1>5. \A i \in 1..m : rows[i] \in S
  BY <1>2
<1> QED BY <1>2, <1>3, <1>4, <1>5 DEF Firsts

----
(* Reviews: any number of submits at once. *)

\* What a call in flight carries: a completion of an upload, or a submit.
Completion == [step : {"complete"}, asset : Assets, verdict : {"ready", "failed"}]
SubmitCall == [step : {"insert", "answer", "raced"}, who : Parties, content : Content,
               asOf : Nat, blind : BOOLEAN]

\* What holds of a call, given the files and the reviews there are: a verdict of "ready" saw
\* the file, a submit on its way to the insert is blind, and one past it knows the row of its
\* author.
ReviewCallOK(k, files, rows) ==
  \/ k = Idle
  \/ k \in Completion /\ (k.verdict = "ready" => files[k.asset] = "good")
  \/ /\ k \in SubmitCall
     /\ k.step = "insert" => k.blind
     /\ k.step = "answer" => rows[k.who] = k.content
     /\ k.step = "raced" => rows[k.who] # None

ReviewCallsOK ==
  /\ call = [c \in Calls |-> call[c]]
  /\ \A c \in Calls : ReviewCallOK(call[c], stored, review)

\* Types, without the bound of the clock.
ReviewsTyped ==
  /\ asset \in [Assets -> AssetStatus] /\ stored \in [Assets -> {"nothing", "good", "bad"}]
  /\ clock \in Nat /\ closesAt \in Nat \cup {None}
  /\ review \in [Parties -> Content \cup {None}]
  /\ seen \subseteq Parties
  /\ accepted \in [Parties -> SUBSET Content]
  /\ blind \in [Parties -> BOOLEAN]

\* Who has seen the other's review has written, or can no longer.
SeenTooLate ==
  \A u \in seen : review[u] # None \/ (closesAt # None /\ clock >= closesAt)

ReviewsInv ==
  ReviewsTyped /\ ReviewCallsOK /\ SeenTooLate /\ AcceptedReviewStands /\ DoubleBlind
    /\ ReadyWasStored

----
\* Each party is the other's other.
LEMMA OtherParty == \A u \in Parties : Other(u) \in Parties /\ Other(Other(u)) = u
BY ReviewsAssumption DEF Parties, Other

\* No content is the absence of a review.
LEMMA ContentIsSome == None \notin Content
BY ReviewsAssumption DEF Content

\* The kinds of calls are told apart by their steps.
LEMMA ReviewCallKinds ==
  ASSUME NEW k, NEW files, NEW rows, ReviewCallOK(k, files, rows)
  PROVE  /\ k.step = "complete" => k \in Completion /\ (k.verdict = "ready" =>
              files[k.asset] = "good")
         /\ k.step \in {"insert", "answer", "raced"} => k \in SubmitCall
         /\ k.step = "insert" => k.blind
         /\ k.step = "answer" => rows[k.who] = k.content
         /\ k.step = "raced" => rows[k.who] # None
BY DEF ReviewCallOK, Idle, Completion, SubmitCall

\* Files and reviews that are there stay there; so what a call knows remains so.
LEMMA ReviewCallStays ==
  ASSUME ReviewsTyped, NEW k, ReviewCallOK(k, stored, review),
         \A a \in Assets : stored[a] # "nothing" => stored'[a] = stored[a],
         \A u \in Parties : review[u] # None => review'[u] = review[u]
  PROVE  ReviewCallOK(k, stored', review')
<1>1. CASE k = Idle
  BY <1>1 DEF ReviewCallOK
<1>2. CASE k \in Completion
  BY <1>2, ReviewCallKinds DEF ReviewCallOK, Completion, Idle
<1>3. CASE k \in SubmitCall
  <2>1. k.who \in Parties /\ k.content \in Content
    BY <1>3 DEF SubmitCall
  <2>2. /\ k.step = "insert" => k.blind
        /\ k.step = "answer" => review[k.who] = k.content
        /\ k.step = "raced" => review[k.who] # None
    BY ReviewCallKinds
  <2> QED BY <1>3, <2>1, <2>2, ContentIsSome DEF ReviewCallOK
<1> QED BY <1>1, <1>2, <1>3 DEF ReviewCallOK

\* One slot changes, or none, while files and reviews stay.
LEMMA ReviewSlotChanges ==
  ASSUME ReviewsTyped, ReviewCallsOK, NEW c \in Calls, NEW k, call' = [call EXCEPT ![c] = k],
         ReviewCallOK(k, stored', review'),
         \A a \in Assets : stored[a] # "nothing" => stored'[a] = stored[a],
         \A u \in Parties : review[u] # None => review'[u] = review[u]
  PROVE  ReviewCallsOK'
<1>1. \A d \in Calls : call'[d] = IF d = c THEN k ELSE call[d]
  BY DEF ReviewCallsOK
<1>2. call' = [d \in Calls |-> call'[d]]
  BY DEF ReviewCallsOK
<1>3. \A d \in Calls : ReviewCallOK(call[d], stored', review')
  BY ReviewCallStays DEF ReviewCallsOK
<1>4. \A d \in Calls : ReviewCallOK(call'[d], stored', review')
  BY <1>1, <1>3
<1> QED BY <1>2, <1>4 DEF ReviewCallsOK

\* A step that leaves calls, files and reviews alone leaves the calls good.
LEMMA ReviewSlotsStay ==
  ASSUME ReviewsTyped, ReviewCallsOK, UNCHANGED call,
         \A a \in Assets : stored[a] # "nothing" => stored'[a] = stored[a],
         \A u \in Parties : review[u] # None => review'[u] = review[u]
  PROVE  ReviewCallsOK'
<1>1. \A d \in Calls : ReviewCallOK(call[d], stored', review')
  BY ReviewCallStays DEF ReviewCallsOK
<1> QED BY <1>1 DEF ReviewCallsOK

----
\* Nobody has written or seen anything at first.
LEMMA ReviewsStart == SlotsInit /\ MediaInit /\ ReviewsInit => ReviewsInv
BY DEF SlotsInit, MediaInit, ReviewsInit, ReviewsInv, ReviewsTyped, ReviewCallsOK, ReviewCallOK,
   SeenTooLate,
       AcceptedReviewStands, DoubleBlind, ReadyWasStored, AssetStatus

\* The steps of the assets: files stay as they were put, and "ready" is said of good ones.
LEMMA MediaKeeps ==
  ASSUME ReviewsInv, MediaNext, UNCHANGED reviewing
  PROVE  ReviewsInv'
<1> USE DEF ReviewsInv
<1>0. /\ \A u \in Parties : review[u] # None => review'[u] = review[u]
      /\ SeenTooLate' /\ AcceptedReviewStands' /\ DoubleBlind'
  BY DEF reviewing, SeenTooLate, AcceptedReviewStands, DoubleBlind
<1>1. ASSUME NEW a \in Assets, CreateUploadSession(a) PROVE ReviewsInv'
  <2>1. ReviewsTyped'
    BY <1>1 DEF CreateUploadSession, SetAsset, ReviewsTyped, AssetStatus, reviewing
  <2>2. ReadyWasStored'
    BY <1>1 DEF CreateUploadSession, SetAsset, ReviewsTyped, ReadyWasStored
  <2>3. ReviewCallsOK'
    BY <1>0, <1>1, ReviewSlotsStay DEF CreateUploadSession
  <2> QED BY <1>0, <2>1, <2>2, <2>3
<1>2. ASSUME NEW a \in Assets, NEW w \in {"good", "bad"}, PutObject(a, w) PROVE ReviewsInv'
  <2>1. ReviewsTyped'
    BY <1>2 DEF PutObject, ReviewsTyped, reviewing
  <2>2. \A b \in Assets : stored[b] # "nothing" => stored'[b] = stored[b]
    BY <1>2 DEF PutObject, ReviewsTyped
  <2>3. ReadyWasStored'
    BY <1>2, <2>2 DEF PutObject, ReadyWasStored
  <2>4. ReviewCallsOK'
    BY <1>0, <1>2, <2>2, ReviewSlotsStay DEF PutObject
  <2> QED BY <1>0, <2>1, <2>3, <2>4
<1>3. ASSUME NEW c \in Calls, NEW a \in Assets, CompleteUpload(c, a) PROVE ReviewsInv'
  <2> DEFINE k == [step |-> "complete", asset |-> a, verdict |-> Verdict(stored[a])]
  <2>1. call' = [call EXCEPT ![c] = k] /\ UNCHANGED media
    BY <1>3 DEF CompleteUpload, Begin
  <2>2. ReviewCallOK(k, stored', review')
    BY <2>1 DEF ReviewCallOK, Completion, Verdict, media
  <2>3. ReviewCallsOK'
    <3> HIDE DEF k
    <3> QED BY <1>0, <2>1, <2>2, ReviewSlotChanges DEF media
  <2> QED BY <1>0, <2>1, <2>3 DEF media, reviewing, ReviewsTyped, ReadyWasStored
<1>4. ASSUME NEW c \in Calls, MarkAsset(c) PROVE ReviewsInv'
  <2>1. /\ call[c].asset \in Assets /\ call[c].verdict \in {"ready", "failed"}
        /\ call[c].verdict = "ready" => stored[call[c].asset] = "good"
    BY <1>4, ReviewCallKinds DEF MarkAsset, At, ReviewCallsOK, Completion
  <2>2. asset' = [asset EXCEPT ![call[c].asset] = call[c].verdict] /\ UNCHANGED stored
    BY <1>4 DEF MarkAsset, SetAsset
  <2>3. ReviewsTyped' /\ ReadyWasStored'
    BY <2>1, <2>2 DEF ReviewsTyped, ReadyWasStored, AssetStatus, reviewing
  <2>4. ReviewCallsOK'
    BY <1>0, <1>4, <2>2, ReviewSlotChanges DEF MarkAsset, Finish, ReviewCallOK
  <2> QED BY <1>0, <2>3, <2>4
<1> QED BY <1>1, <1>2, <1>3, <1>4 DEF MediaNext

\* The steps around the submits: the clock, the completion of the engagement, and reading.
LEMMA OthersKeep ==
  ASSUME ReviewsInv, CompleteEngagement \/ Tick \/ \E u \in Parties : ReadReviews(u)
  PROVE  ReviewsInv'
<1> USE DEF ReviewsInv
<1>0. /\ UNCHANGED <<review, accepted, blind, media, call>>
      /\ \A u \in Parties : review[u] # None => review'[u] = review[u]
      /\ \A a \in Assets : stored[a] # "nothing" => stored'[a] = stored[a]
  BY DEF CompleteEngagement, Tick, ReadReviews, media
<1>1. ReviewCallsOK' /\ AcceptedReviewStands' /\ DoubleBlind' /\ ReadyWasStored'
  BY <1>0, ReviewSlotsStay DEF AcceptedReviewStands, DoubleBlind, ReadyWasStored, media
<1>2. CASE CompleteEngagement
  BY <1>0, <1>1, <1>2, ReviewsAssumption DEF CompleteEngagement, ReviewsTyped, SeenTooLate, media
<1>3. CASE Tick
  BY <1>0, <1>1, <1>3 DEF Tick, ReviewsTyped, SeenTooLate, media
<1>4. ASSUME NEW u \in Parties, ReadReviews(u) PROVE ReviewsInv'
  <2>1. review[u] # None \/ (closesAt # None /\ clock >= closesAt)
    BY <1>4, OtherParty DEF ReadReviews, BuildReviewState, OtherPublic, IsReviewPublic,
                        PublishedReviewSql
  <2>2. UNCHANGED <<clock, closesAt>> /\ seen' = seen \cup {u}
    BY <1>4 DEF ReadReviews
  <2> QED BY <1>0, <1>1, <2>1, <2>2 DEF ReviewsTyped, SeenTooLate, media
<1> QED BY <1>2, <1>3, <1>4

\* An answer with success is given to the author of the review that stands.
LEMMA AnswerKeeps ==
  ASSUME ReviewsInv, NEW c \in Calls, NEW u \in Parties, NEW content \in Content,
         review[u] = content, FinishSubmit(c, u, content),
         UNCHANGED <<clock, closesAt, review, blind, media>>, ReviewCallsOK'
  PROVE  ReviewsInv'
<1>1. accepted' = [accepted EXCEPT ![u] = @ \cup {content}] /\ seen' \subseteq seen \cup {u}
  BY DEF FinishSubmit
<1>2. ReviewsTyped'
  BY <1>1 DEF ReviewsInv, ReviewsTyped, media
<1>3. SeenTooLate'
  BY <1>1, ContentIsSome DEF ReviewsInv, SeenTooLate
<1>4. AcceptedReviewStands'
  BY <1>1 DEF ReviewsInv, ReviewsTyped, AcceptedReviewStands
<1>5. DoubleBlind' /\ ReadyWasStored'
  BY DEF ReviewsInv, DoubleBlind, ReadyWasStored, media
<1> QED BY <1>2, <1>3, <1>4, <1>5 DEF ReviewsInv

\* A submit: answered from the review it repeats, or sent before anything was seen, since
\* in time and without a review nothing can have been.
LEMMA SubmitKeeps ==
  ASSUME ReviewsInv, NEW c \in Calls, NEW u \in Parties, NEW content \in Content,
         Submit(c, u, content)
  PROVE  ReviewsInv'
<1>0. UNCHANGED <<clock, closesAt, review, blind, media>> /\ UNCHANGED <<asset, stored>>
  BY DEF Submit, media
<1>1. CASE review[u] = content /\ UNCHANGED call /\ FinishSubmit(c, u, content)
  <2>1. ReviewCallsOK'
    BY <1>0, <1>1, ReviewSlotsStay DEF ReviewsInv
  <2> QED BY <1>0, <1>1, <2>1, AnswerKeeps
<1>2. CASE ~(review[u] = content /\ UNCHANGED call /\ FinishSubmit(c, u, content))
  <2> DEFINE k == [step |-> "insert", who |-> u, content |-> content, asOf |-> clock,
                   blind |-> u \notin seen]
  <2>1. /\ review[u] = None /\ InTime(clock) /\ call' = [call EXCEPT ![c] = k]
        /\ UNCHANGED <<seen, accepted>>
    BY <1>2 DEF Submit, Begin
  <2>2. u \notin seen
    BY <2>1 DEF ReviewsInv, ReviewsTyped, SeenTooLate, InTime
  <2>3. ReviewCallOK(k, stored', review')
    <3>1. k \in SubmitCall
      BY DEF SubmitCall, ReviewsInv, ReviewsTyped
    <3> QED BY <2>2, <3>1 DEF ReviewCallOK
  <2>4. ReviewCallsOK'
    <3> HIDE DEF k
    <3> QED BY <1>0, <2>1, <2>3, ReviewSlotChanges DEF ReviewsInv
  <2> QED BY <1>0, <2>1, <2>4 DEF ReviewsInv, ReviewsTyped, SeenTooLate, AcceptedReviewStands,
        DoubleBlind,
                                 ReadyWasStored
<1> QED BY <1>1, <1>2

\* Going on keeps what a submit carries.
LEMMA SubmitGoesOn ==
  ASSUME NEW c \in Calls, call[c] \in SubmitCall, NEW step \in {"answer", "raced"}, Goto(c, step)
  PROVE  LET k == [call[c] EXCEPT !.step = step] IN
         /\ call' = [call EXCEPT ![c] = k] /\ k \in SubmitCall /\ k.step = step
         /\ k.who = call[c].who /\ k.content = call[c].content
BY DEF Goto, SubmitCall

\* The insert stores what was sent blind, or finds the row of its author.
LEMMA InsertKeeps ==
  ASSUME ReviewsInv, NEW c \in Calls, InsertReview(c)
  PROVE  ReviewsInv'
<1> DEFINE k == call[c]
           u == k.who
<1>0. UNCHANGED <<clock, closesAt, seen, accepted, media>> /\ UNCHANGED <<asset, stored>>
  BY DEF InsertReview, media
<1>1. k \in SubmitCall /\ k.blind /\ u \in Parties /\ k.content \in Content
  BY ReviewCallKinds DEF InsertReview, At, ReviewsInv, ReviewCallsOK, SubmitCall
<1>2. CASE review[u] = None
  <2>1. /\ review' = [review EXCEPT ![u] = k.content]
        /\ blind' = [blind EXCEPT ![u] = k.blind] /\ Goto(c, "answer")
    BY <1>2 DEF InsertReview
  <2>2. \A p \in Parties : review[p] # None => review'[p] = review[p]
    BY <1>2, <2>1 DEF ReviewsInv, ReviewsTyped
  <2>3. review'[u] = k.content
    BY <1>1, <2>1 DEF ReviewsInv, ReviewsTyped
  <2>4. ReviewCallsOK'
    <3> DEFINE n == [k EXCEPT !.step = "answer"]
    <3>1. call' = [call EXCEPT ![c] = n] /\ n \in SubmitCall /\ n.step = "answer"
          /\ n.who = u /\ n.content = k.content
      BY <1>1, <2>1, SubmitGoesOn
    <3>2. ReviewCallOK(n, stored', review')
      BY <2>3, <3>1 DEF ReviewCallOK
    <3> HIDE DEF n
    <3> QED BY <1>0, <2>2, <3>1, <3>2, ReviewSlotChanges DEF ReviewsInv
  <2>5. ReviewsTyped'
    BY <1>0, <1>1, <2>1 DEF ReviewsInv, ReviewsTyped
  <2>6. SeenTooLate' /\ ReadyWasStored'
    BY <1>0, <2>2 DEF ReviewsInv, ReviewsTyped, SeenTooLate, ReadyWasStored
  <2>7. AcceptedReviewStands'
    BY <1>0, <2>2, ContentIsSome DEF ReviewsInv, ReviewsTyped, AcceptedReviewStands
  <2>8. DoubleBlind'
    BY <1>1, <2>1 DEF ReviewsInv, ReviewsTyped, DoubleBlind
  <2> QED BY <2>4, <2>5, <2>6, <2>7, <2>8 DEF ReviewsInv
<1>3. CASE review[u] # None
  <2>1. Goto(c, "raced") /\ UNCHANGED <<review, blind>>
    BY <1>3 DEF InsertReview
  <2>2. ReviewCallsOK'
    <3> DEFINE n == [k EXCEPT !.step = "raced"]
    <3>1. call' = [call EXCEPT ![c] = n] /\ n \in SubmitCall /\ n.step = "raced" /\ n.who = u
      BY <1>1, <2>1, SubmitGoesOn
    <3>2. ReviewCallOK(n, stored', review')
      BY <1>3, <2>1, <3>1 DEF ReviewCallOK
    <3> HIDE DEF n
    <3> QED BY <1>0, <2>1, <3>1, <3>2, ReviewSlotChanges DEF ReviewsInv
  <2> QED BY <1>0, <2>1, <2>2 DEF ReviewsInv, ReviewsTyped, SeenTooLate, AcceptedReviewStands,
        DoubleBlind,
                                 ReadyWasStored
<1> QED BY <1>2, <1>3

\* An accepted answer names the review that stands.
LEMMA AnswerSubmitKeeps ==
  ASSUME ReviewsInv, NEW c \in Calls, AnswerSubmit(c)
  PROVE  ReviewsInv'
<1> DEFINE k == call[c]
<1>0. UNCHANGED <<clock, closesAt, review, blind, media>> /\ UNCHANGED <<asset, stored>>
  BY DEF AnswerSubmit, media
<1>1. k.who \in Parties /\ k.content \in Content /\ (k.step = "answer" => review[k.who] = k.content)
  BY ReviewCallKinds DEF AnswerSubmit, At, ReviewsInv, ReviewCallsOK, SubmitCall
<1>2. ReviewCallsOK'
  BY <1>0, ReviewSlotChanges DEF AnswerSubmit, Finish, ReviewCallOK, ReviewsInv
<1>3. CASE review[k.who] = k.content /\ FinishSubmit(c, k.who, k.content)
  BY <1>0, <1>1, <1>2, <1>3, AnswerKeeps
<1>4. CASE ~(review[k.who] = k.content /\ FinishSubmit(c, k.who, k.content))
  <2>1. UNCHANGED <<seen, accepted>>
    BY <1>1, <1>4 DEF AnswerSubmit, At, RepeatOfWinner
  <2> QED BY <1>0, <1>2, <2>1 DEF ReviewsInv, ReviewsTyped, SeenTooLate, AcceptedReviewStands,
        DoubleBlind,
                                 ReadyWasStored
<1> QED BY <1>3, <1>4

\* Every step of the reviews and their assets keeps the invariant.
LEMMA ReviewsKept == ReviewsInv /\ [ReviewsStep]_<<media, reviewing, call>> => ReviewsInv'
<1>1. ReviewsInv /\ ReviewsStep => ReviewsInv'
  BY MediaKeeps, OthersKeep, SubmitKeeps, InsertKeeps, AnswerSubmitKeeps
  DEF ReviewsStep, ReviewsNext
<1>2. ReviewsInv /\ UNCHANGED <<media, reviewing, call>> => ReviewsInv'
  BY DEF ReviewsInv, ReviewsTyped, ReviewCallsOK, SeenTooLate, AcceptedReviewStands, DoubleBlind,
     ReadyWasStored,
         media, reviewing
<1> QED BY <1>1, <1>2

----
\* Where reviews are public is the same for the state of an engagement and for the lists, at
\* every instant, and a party who is shown the other's review is not offered to write.
LEMMA Agreement == PublicationAgrees
<1> SUFFICES ASSUME NEW u \in Parties, NEW asOf \in 0..MaxTime
    PROVE LET state == BuildReviewState(u, asOf) IN
          /\ state.counterpart # None <=> PublishedReviewSql(Other(u), asOf)
          /\ state.published <=> \E p \in Parties : PublishedReviewSql(p, asOf)
          /\ state.canSubmit => state.counterpart = None
  BY DEF PublicationAgrees
<1>1. Parties = {u, Other(u)}
  BY DEF Parties, Other
<1>2. /\ OtherPublic(u, asOf) <=> PublishedReviewSql(Other(u), asOf)
      /\ MinePublic(u, asOf) <=> PublishedReviewSql(u, asOf)
  BY OtherParty DEF OtherPublic, MinePublic, PublishedReviewSql, IsReviewPublic
<1>3. OtherPublic(u, asOf) => review[Other(u)] # None
  BY DEF OtherPublic
<1>4. closesAt # None /\ review[u] = None /\ ~WindowClosed(asOf) => ~OtherPublic(u, asOf)
  BY DEF OtherPublic, WindowClosed, IsReviewPublic
<1> QED BY <1>1, <1>2, <1>3, <1>4 DEF BuildReviewState

\* What was accepted stands, nobody wrote after having read, and a ready asset has its file.
LEMMA ReviewsShow ==
  ReviewsInv => AcceptedReviewStands /\ BlindUntilPublished /\ ReadyWasStored
BY Agreement DEF ReviewsInv, BlindUntilPublished

----
(* Invoices: any number of generations at once, wherever they fail. *)

InvoiceSteps == {"number", "reread", "reset", "provider", "upload", "ready", "generated",
                 "failDocument", "failInvoice"}

\* Steps at which a generation holds a document that no invoice has yet.
Holding == {"upload", "ready", "generated", "failDocument"}

Generation == [step : InvoiceSteps, payment : Payments, attempt : Nat,
               document : Documents \cup {None}]

\* What holds of a call, given the assets and the invoices there are.  It is idle or a
\* generation; one that holds a document holds a taken one, filed nowhere, and a ready one
\* where it is about to be filed; past the insert there is an invoice.
GenerationOK(k, assets, rows) ==
  /\ k \in Generation
  /\ k.step \in Holding => /\ k.document \in Documents /\ assets[k.document] # "none"
                           /\ \A p \in Payments : rows[p].document # k.document
  /\ k.step = "generated" => assets[k.document] = "ready"
  /\ k.step \notin {"number", "reread"} => rows[k.payment].status # "none"

InvoiceCallOK(k, assets, rows) == k = Idle \/ GenerationOK(k, assets, rows)

InvoiceCallsOK ==
  /\ call = [c \in Calls |-> call[c]]
  /\ \A c \in Calls : InvoiceCallOK(call[c], asset, invoice)

\* No two generations hold the same document.
OwnDocuments ==
  \A c, d \in Calls :
    c # d /\ call[c].step \in Holding /\ call[d].step \in Holding
      => call[c].document # call[d].document

InvoicesTyped ==
  /\ asset \in [Assets -> AssetStatus] /\ InvoicesTypeOK
  /\ issued \in [Payments -> SUBSET Numbers]

\* Where there is no invoice there is no number; a document once filed is ready, and a
\* generated invoice has one.
InvoiceRows ==
  \A p \in Payments :
    /\ invoice[p].status = "none" <=> invoice[p].number = None
    /\ invoice[p].document # None => asset[invoice[p].document] = "ready"
    /\ invoice[p].status = "generated" => invoice[p].document # None

InvoicesInv == InvoicesTyped /\ InvoiceCallsOK /\ OwnDocuments /\ InvoiceRows /\ OneNumberPerPayment

----
\* The kinds of calls are told apart by their steps.
LEMMA InvoiceCallKinds ==
  ASSUME NEW k, NEW assets, NEW rows, InvoiceCallOK(k, assets, rows), k.step # "idle"
  PROVE  GenerationOK(k, assets, rows)
BY DEF InvoiceCallOK, Idle

\* A step of one call: statuses are not taken back, and what the others hold is left alone.
LEMMA GenerationMoves ==
  ASSUME InvoicesInv, NEW c \in Calls, NEW k, call' = [call EXCEPT ![c] = k],
         InvoiceCallOK(k, asset', invoice'),
         \A p \in Payments : invoice[p].status # "none" => invoice'[p].status # "none",
         \A d \in Calls \ {c} : call[d].step \in Holding =>
           /\ asset'[call[d].document] = asset[call[d].document]
           /\ k.step \in Holding => k.document # call[d].document
           /\ \A p \in Payments : invoice'[p].document # call[d].document
  PROVE  InvoiceCallsOK' /\ OwnDocuments'
<1>1. \A d \in Calls : call'[d] = IF d = c THEN k ELSE call[d]
  BY DEF InvoicesInv, InvoiceCallsOK
<1>2. call' = [d \in Calls |-> call'[d]]
  BY DEF InvoicesInv, InvoiceCallsOK
<1>3. ASSUME NEW d \in Calls \ {c} PROVE InvoiceCallOK(call[d], asset', invoice')
  <2>1. CASE call[d] = Idle
    BY <2>1 DEF InvoiceCallOK
  <2>2. CASE call[d] # Idle
    <3>1. GenerationOK(call[d], asset, invoice)
      BY <2>2 DEF InvoicesInv, InvoiceCallsOK, InvoiceCallOK
    <3>2. call[d].payment \in Payments
      BY <3>1 DEF GenerationOK, Generation
    <3>3. GenerationOK(call[d], asset', invoice')
      BY <3>1, <3>2 DEF GenerationOK, Holding
    <3> QED BY <3>3 DEF InvoiceCallOK
  <2> QED BY <2>1, <2>2
<1>4. InvoiceCallsOK'
  BY <1>1, <1>2, <1>3 DEF InvoiceCallsOK
<1>5. OwnDocuments'
  BY <1>1 DEF InvoicesInv, OwnDocuments
<1> QED BY <1>4, <1>5

\* A step that leaves assets and filed documents alone.
LEMMA GenerationMovesQuietly ==
  ASSUME InvoicesInv, NEW c \in Calls, NEW k, call' = [call EXCEPT ![c] = k],
         InvoiceCallOK(k, asset', invoice'), UNCHANGED asset,
         \A p \in Payments : /\ invoice[p].status # "none" => invoice'[p].status # "none"
                             /\ invoice'[p].document = invoice[p].document,
         k.step \in Holding => call[c].step \in Holding /\ k.document = call[c].document
  PROVE  InvoiceCallsOK' /\ OwnDocuments'
<1>1. ASSUME NEW d \in Calls \ {c}, call[d].step \in Holding
      PROVE  /\ k.step \in Holding => k.document # call[d].document
             /\ \A p \in Payments : invoice'[p].document # call[d].document
  <2>1. GenerationOK(call[d], asset, invoice)
    BY <1>1, InvoiceCallKinds DEF InvoicesInv, InvoiceCallsOK, Holding
  <2> QED BY <1>1, <2>1 DEF GenerationOK, InvoicesInv, OwnDocuments
<1> QED BY <1>1, GenerationMoves

\* Going on keeps what a generation carries.
LEMMA GenerationGoto ==
  ASSUME NEW c \in Calls, call[c] \in Generation, NEW step \in InvoiceSteps, Goto(c, step)
  PROVE  LET k == [call[c] EXCEPT !.step = step] IN
         /\ call' = [call EXCEPT ![c] = k] /\ k \in Generation /\ k.step = step
         /\ k.payment = call[c].payment /\ k.document = call[c].document
BY DEF Goto, Generation

\* A step of one generation from "at" to "to", with neither document nor rows.
LEMMA GenerationGoesOn ==
  ASSUME InvoicesInv, NEW c \in Calls, NEW step \in InvoiceSteps, call[c].step # "idle", Goto(c,
           step),
         UNCHANGED asset,
         \A p \in Payments : /\ invoice[p].status # "none" => invoice'[p].status # "none"
                             /\ invoice'[p].document = invoice[p].document,
         step \in Holding => call[c].step \in Holding,
         step = "generated" => asset[call[c].document] = "ready",
         step \notin {"number", "reread"} => invoice'[call[c].payment].status # "none"
  PROVE  InvoiceCallsOK' /\ OwnDocuments'
<1> DEFINE k == [call[c] EXCEPT !.step = step]
<1>1. GenerationOK(call[c], asset, invoice)
  BY InvoiceCallKinds DEF InvoicesInv, InvoiceCallsOK
<1>2. /\ call' = [call EXCEPT ![c] = k] /\ k \in Generation /\ k.step = step
      /\ k.payment = call[c].payment /\ k.document = call[c].document
  BY <1>1, GenerationGoto DEF GenerationOK
<1> HIDE DEF k
<1>3. InvoiceCallOK(k, asset', invoice')
  BY <1>1, <1>2 DEF InvoiceCallOK, GenerationOK
<1> QED BY <1>2, <1>3, GenerationMovesQuietly

\* A generation that ends leaves the others good.
LEMMA GenerationEnds ==
  ASSUME InvoicesInv, NEW c \in Calls, Finish(c), UNCHANGED asset,
         \A p \in Payments : /\ invoice[p].status # "none" => invoice'[p].status # "none"
                             /\ invoice'[p].document = invoice[p].document
  PROVE  InvoiceCallsOK' /\ OwnDocuments'
<1>1. call' = [call EXCEPT ![c] = Idle] /\ InvoiceCallOK(Idle, asset', invoice')
      /\ Idle.step \notin Holding
  BY DEF Finish, InvoiceCallOK, Idle, Holding
<1> QED BY <1>1, GenerationMovesQuietly

\* A status written over the one of an existing invoice.
LEMMA StatusWritten ==
  ASSUME InvoicesInv, NEW p \in Payments, invoice[p].status # "none",
         NEW status \in {"pending", "failed"}, SetInvoice(p, status), UNCHANGED <<issued, asset>>
  PROVE  /\ InvoicesTyped' /\ InvoiceRows' /\ OneNumberPerPayment'
         /\ \A q \in Payments : /\ invoice[q].status # "none" => invoice'[q].status # "none"
                                /\ invoice'[q].document = invoice[q].document
<1>1. /\ \A q \in Payments : /\ invoice'[q].number = invoice[q].number
                             /\ invoice'[q].document = invoice[q].document
                             /\ invoice'[q].status = IF q = p THEN status ELSE invoice[q].status
      /\ InvoicesTypeOK'
  BY DEF SetInvoice, InvoicesInv, InvoicesTyped, InvoicesTypeOK
<1> QED BY <1>1 DEF InvoicesInv, InvoicesTyped, InvoiceRows, OneNumberPerPayment

----
\* There is no invoice at first.
LEMMA InvoicesStart == SlotsInit /\ MediaInit /\ InvoicesInit => InvoicesInv
<1> SUFFICES ASSUME SlotsInit, MediaInit, InvoicesInit PROVE InvoicesInv OBVIOUS
<1>1. InvoiceCallsOK /\ OwnDocuments
  BY DEF SlotsInit, InvoiceCallsOK, InvoiceCallOK, OwnDocuments, Idle, Holding
<1>2. /\ invoice \in [Payments -> [status : {"none", "pending", "generated", "failed"},
                                 number : Numbers \cup {None}, document : Documents \cup {None}]]
      /\ \A p \in Payments : /\ invoice[p].status = "none" /\ invoice[p].number = None
                              /\ invoice[p].document = None
  BY DEF InvoicesInit, NoInvoice
<1>3. InvoicesTyped
  BY <1>2 DEF MediaInit, InvoicesInit, InvoicesTyped, InvoicesTypeOK, AssetStatus
<1>4. InvoiceRows
  BY <1>2 DEF InvoiceRows
<1>5. OneNumberPerPayment
  BY <1>2 DEF InvoicesInit, OneNumberPerPayment
<1> QED BY <1>1, <1>3, <1>4, <1>5 DEF InvoicesInv

\* A generation begins, with no document.
LEMMA GenerateKeeps ==
  ASSUME InvoicesInv, NEW c \in Calls, NEW p \in Payments, GenerateForPayment(c, p)
  PROVE  InvoicesInv'
<1> DEFINE k == CallFor(p, IF invoice[p].status = "none" THEN "number" ELSE "reset")
<1>1. call' = [call EXCEPT ![c] = k] /\ UNCHANGED <<invoice, issued, asset>>
  BY DEF GenerateForPayment, Begin, invoicing, media
<1>2. InvoiceCallOK(k, asset', invoice') /\ k.step \notin Holding
  BY <1>1 DEF InvoiceCallOK, GenerationOK, CallFor, Generation, InvoiceSteps, Holding
<1> HIDE DEF k
<1>3. InvoiceCallsOK' /\ OwnDocuments'
  BY <1>1, <1>2, GenerationMovesQuietly
<1> QED BY <1>1, <1>3 DEF InvoicesInv, InvoicesTyped, InvoicesTypeOK, InvoiceRows,
      OneNumberPerPayment

\* An insert takes a number no other invoice has.
LEMMA CreateKeeps ==
  ASSUME InvoicesInv, NEW c \in Calls, CreatePending(c)
  PROVE  InvoicesInv'
<1> DEFINE p == call[c].payment
<1>1. call[c].step = "number" /\ p \in Payments /\ UNCHANGED asset
  BY InvoiceCallKinds DEF CreatePending, At, InvoicesInv, InvoiceCallsOK, GenerationOK,
     Generation, media
<1>2. PICK n \in Numbers :
        IF Taken(p, n)
        THEN Goto(c, "reread") /\ UNCHANGED invoicing
        ELSE /\ invoice' = [invoice EXCEPT ![p] =
                             [status |-> "pending", number |-> n, document |-> None]]
             /\ issued' = [issued EXCEPT ![p] = @ \cup {n}]
             /\ Goto(c, "provider")
  BY DEF CreatePending
<1>3. CASE Taken(p, n)
  <2>1. Goto(c, "reread") /\ UNCHANGED <<invoice, issued>>
    BY <1>2, <1>3 DEF invoicing
  <2>2. InvoiceCallsOK' /\ OwnDocuments'
    BY <1>1, <2>1, GenerationGoesOn DEF InvoiceSteps, Holding
  <2> QED BY <1>1, <2>1, <2>2 DEF InvoicesInv, InvoicesTyped, InvoicesTypeOK, InvoiceRows,
        OneNumberPerPayment
<1>4. CASE ~Taken(p, n)
  <2>1. /\ invoice' = [invoice EXCEPT ![p] =
                        [status |-> "pending", number |-> n, document |-> None]]
        /\ issued' = [issued EXCEPT ![p] = @ \cup {n}] /\ Goto(c, "provider")
    BY <1>2, <1>4
  <2>2. /\ invoice[p].status = "none" /\ \A q \in Payments : invoice[q].number # n
    BY <1>4 DEF Taken
  <2>3. /\ \A q \in Payments : q # p => invoice'[q] = invoice[q] /\ issued'[q] = issued[q]
        /\ invoice'[p].status = "pending" /\ invoice'[p].number = n
        /\ invoice'[p].document = None
    BY <1>1, <2>1 DEF InvoicesInv, InvoicesTyped, InvoicesTypeOK
  <2>4. invoice[p].number = None /\ issued[p] = {} /\ n # None
    BY <1>1, <2>2, InvoicesAssumption DEF InvoicesInv, InvoiceRows, OneNumberPerPayment
  <2>5. InvoicesTyped'
    BY <1>1, <2>1 DEF InvoicesInv, InvoicesTyped, InvoicesTypeOK
  <2>6. OneNumberPerPayment'
    <3>1. issued'[p] = {n}
      BY <1>1, <2>1, <2>4 DEF InvoicesInv, InvoicesTyped
    <3>2. \A q \in Payments :
            q # p => issued'[q] = {invoice'[q].number} \ {None} /\ n \notin issued'[q]
      BY <2>2, <2>3 DEF InvoicesInv, OneNumberPerPayment
    <3>3. \A q, r \in Payments : q # r /\ q # p /\ r # p => issued'[q] \cap issued'[r] = {}
      BY <2>3 DEF InvoicesInv, OneNumberPerPayment
    <3>4. \A q, r \in Payments : q # r => issued'[q] \cap issued'[r] = {}
      BY <3>1, <3>2, <3>3
    <3>5. \A q \in Payments : issued'[q] = {invoice'[q].number} \ {None}
      BY <2>3, <2>4, <3>1, <3>2
    <3> QED BY <3>4, <3>5 DEF OneNumberPerPayment
  <2>7. InvoiceRows'
    BY <1>1, <2>3, <2>4 DEF InvoicesInv, InvoiceRows
  <2>8. InvoiceCallsOK' /\ OwnDocuments'
    <3> DEFINE k == [call[c] EXCEPT !.step = "provider"]
    <3>1. /\ call' = [call EXCEPT ![c] = k] /\ k \in Generation /\ k.step = "provider"
          /\ k.payment = p
      BY <1>1, <2>1, InvoiceCallKinds, GenerationGoto DEF InvoicesInv, InvoiceCallsOK,
         GenerationOK, InvoiceSteps
    <3> HIDE DEF k
    <3>2. InvoiceCallOK(k, asset', invoice') /\ k.step \notin Holding
      BY <2>3, <3>1 DEF InvoiceCallOK, GenerationOK, Holding
    <3>3. ASSUME NEW d \in Calls \ {c}, call[d].step \in Holding
          PROVE  \A q \in Payments : invoice'[q].document # call[d].document
      <4>1. GenerationOK(call[d], asset, invoice)
        BY <3>3, InvoiceCallKinds DEF InvoicesInv, InvoiceCallsOK, Holding
      <4>2. call[d].document # None
        BY <3>3, <4>1, MediaAssumption DEF GenerationOK, Documents
      <4> QED BY <2>3, <3>3, <4>1, <4>2 DEF GenerationOK
    <3>4. \A q \in Payments : invoice[q].status # "none" => invoice'[q].status # "none"
      BY <2>3
    <3> QED BY <1>1, <3>1, <3>2, <3>3, <3>4, GenerationMoves
  <2> QED BY <2>5, <2>6, <2>7, <2>8 DEF InvoicesInv
<1> QED BY <1>3, <1>4

\* A refused insert finds the payment's invoice or tries again.
LEMMA RereadKeeps ==
  ASSUME InvoicesInv, NEW c \in Calls, Reread(c)
  PROVE  InvoicesInv'
<1>0. UNCHANGED <<invoice, issued, asset>>
  BY DEF Reread, invoicing, media
<1>1. call[c].step = "reread" /\ call[c] \in Generation
  BY InvoiceCallKinds DEF Reread, At, InvoicesInv, InvoiceCallsOK, GenerationOK
<1>2. CASE invoice[call[c].payment].status # "none"
  <2>1. Goto(c, "provider")
    BY <1>2 DEF Reread
  <2> QED BY <1>0, <1>1, <1>2, <2>1, GenerationGoesOn DEF InvoiceSteps, Holding, InvoicesInv,
        InvoicesTyped, InvoicesTypeOK, InvoiceRows,
                                              OneNumberPerPayment
<1>3. CASE invoice[call[c].payment].status = "none"
  <2>1. CASE Finish(c)
    BY <1>0, <2>1, GenerationEnds DEF InvoicesInv, InvoicesTyped, InvoicesTypeOK, InvoiceRows,
       OneNumberPerPayment
  <2>2. CASE call' = [call EXCEPT ![c].step = "number", ![c].attempt = @ + 1]
    <3> DEFINE n == call[c].attempt + 1
               k == [call[c] EXCEPT !.step = "number", !.attempt = n]
    <3>1. call' = [call EXCEPT ![c] = k]
      BY <2>2 DEF InvoicesInv, InvoiceCallsOK
    <3>2. k \in Generation /\ k.step = "number"
      <4>1. n \in Nat
        BY <1>1 DEF Generation
      <4> HIDE DEF n
      <4> QED BY <1>1, <4>1 DEF Generation, InvoiceSteps
    <3> HIDE DEF k
    <3>3. InvoiceCallOK(k, asset', invoice') /\ k.step \notin Holding
      BY <3>2 DEF InvoiceCallOK, GenerationOK, Holding
    <3>4. InvoiceCallsOK' /\ OwnDocuments'
      BY <1>0, <3>1, <3>3, GenerationMovesQuietly
    <3> QED BY <1>0, <3>4 DEF InvoicesInv, InvoicesTyped, InvoicesTypeOK, InvoiceRows,
          OneNumberPerPayment
  <2> QED BY <1>3, <2>1, <2>2 DEF Reread
<1> QED BY <1>2, <1>3

\* Setting an invoice back keeps its document and its number.
LEMMA MarkPendingKeeps ==
  ASSUME InvoicesInv, NEW c \in Calls, MarkPending(c)
  PROVE  InvoicesInv'
<1>1. /\ call[c].step = "reset" /\ call[c].payment \in Payments
      /\ invoice[call[c].payment].status # "none"
  BY InvoiceCallKinds DEF MarkPending, At, InvoicesInv, InvoiceCallsOK, GenerationOK, Generation
<1>2. SetInvoice(call[c].payment, "pending") /\ Goto(c, "provider") /\ UNCHANGED <<issued, asset>>
  BY DEF MarkPending, media
<1>3. /\ InvoicesTyped' /\ InvoiceRows' /\ OneNumberPerPayment'
      /\ \A q \in Payments : /\ invoice[q].status # "none" => invoice'[q].status # "none"
                             /\ invoice'[q].document = invoice[q].document
  BY <1>1, <1>2, StatusWritten
<1>4. InvoiceCallsOK' /\ OwnDocuments'
  BY <1>1, <1>2, <1>3, GenerationGoesOn DEF InvoiceSteps, Holding
<1> QED BY <1>3, <1>4 DEF InvoicesInv

\* The document is a fresh one: nobody holds it and no invoice has it.
LEMMA CreateDocumentKeeps ==
  ASSUME InvoicesInv, NEW c \in Calls, CreateDocument(c)
  PROVE  InvoicesInv'
<1>1. /\ call[c].step = "provider" /\ call[c] \in Generation
      /\ invoice[call[c].payment].status # "none"
  BY InvoiceCallKinds DEF CreateDocument, At, InvoicesInv, InvoiceCallsOK, GenerationOK
<1>2. UNCHANGED <<invoice, issued>>
  BY DEF CreateDocument, invoicing
<1>3. CASE Goto(c, "failInvoice") /\ UNCHANGED asset
  <2>1. InvoiceCallsOK' /\ OwnDocuments'
    BY <1>1, <1>2, <1>3, GenerationGoesOn DEF InvoiceSteps, Holding
  <2> QED BY <1>2, <1>3, <2>1 DEF InvoicesInv, InvoicesTyped, InvoicesTypeOK, InvoiceRows,
        OneNumberPerPayment
<1>4. CASE ~(Goto(c, "failInvoice") /\ UNCHANGED asset)
  <2>1. PICK fresh \in FreshDocuments :
          /\ SetAsset(fresh, "pending")
          /\ call' = [call EXCEPT ![c].step = "upload", ![c].document = fresh]
    BY <1>4 DEF CreateDocument
  <2>2. fresh \in Documents /\ fresh \in Assets /\ asset[fresh] = "none"
    BY DEF FreshDocuments, Documents
  <2>3. \A a \in Assets : asset'[a] = IF a = fresh THEN "pending" ELSE asset[a]
    BY <2>1 DEF SetAsset, InvoicesInv, InvoicesTyped
  <2>4. \A p \in Payments : invoice[p].document # fresh
    BY <2>2, MediaAssumption DEF InvoicesInv, InvoiceRows
  <2>5. InvoicesTyped' /\ InvoiceRows' /\ OneNumberPerPayment'
    <3>1. InvoicesTyped'
      BY <1>2, <2>1, <2>2 DEF InvoicesInv, InvoicesTyped, InvoicesTypeOK, SetAsset, AssetStatus
    <3>2. \A p \in Payments : invoice[p].document \in Assets \cup {None}
      BY DEF InvoicesInv, InvoicesTyped, InvoicesTypeOK, Documents
    <3>3. InvoiceRows'
      BY <1>2, <2>3, <2>4, <3>2 DEF InvoicesInv, InvoiceRows
    <3> QED BY <1>2, <3>1, <3>3 DEF InvoicesInv, OneNumberPerPayment
  <2>6. InvoiceCallsOK' /\ OwnDocuments'
    <3> DEFINE k == [call[c] EXCEPT !.step = "upload", !.document = fresh]
    <3>1. call' = [call EXCEPT ![c] = k]
      BY <2>1 DEF InvoicesInv, InvoiceCallsOK
    <3>2. /\ k \in Generation /\ k.step = "upload" /\ k.document = fresh
          /\ k.payment = call[c].payment
      BY <1>1, <2>2 DEF Generation, InvoiceSteps
    <3> HIDE DEF k
    <3>3. InvoiceCallOK(k, asset', invoice')
      BY <1>1, <1>2, <2>2, <2>3, <2>4, <3>2 DEF InvoiceCallOK, GenerationOK
    <3>4. ASSUME NEW d \in Calls \ {c}, call[d].step \in Holding
          PROVE  /\ asset'[call[d].document] = asset[call[d].document]
                 /\ call[d].document # fresh
                 /\ \A p \in Payments : invoice'[p].document # call[d].document
      <4>1. GenerationOK(call[d], asset, invoice)
        BY <3>4, InvoiceCallKinds DEF InvoicesInv, InvoiceCallsOK, Holding
      <4> QED BY <1>2, <2>2, <2>3, <3>4, <4>1 DEF GenerationOK, Documents
    <3> QED BY <1>2, <3>1, <3>2, <3>3, <3>4, GenerationMoves
  <2> QED BY <2>5, <2>6 DEF InvoicesInv
<1> QED BY <1>3, <1>4

\* An upload writes the document of its own generation.
LEMMA UploadKeeps ==
  ASSUME InvoicesInv, NEW c \in Calls, UploadDocument(c)
  PROVE  InvoicesInv'
<1>0. call[c].step = "upload"
  BY DEF UploadDocument, At
<1>1. invoice[call[c].payment].status # "none"
  BY <1>0, InvoiceCallKinds DEF InvoicesInv, InvoiceCallsOK, GenerationOK
<1>2. UNCHANGED <<invoice, issued, asset>> /\ (Goto(c, "failDocument") \/ Goto(c, "ready"))
  BY DEF UploadDocument, invoicing
<1>3. InvoiceCallsOK' /\ OwnDocuments'
  BY <1>0, <1>1, <1>2, GenerationGoesOn DEF InvoiceSteps, Holding
<1> QED BY <1>2, <1>3 DEF InvoicesInv, InvoicesTyped, InvoicesTypeOK, InvoiceRows,
      OneNumberPerPayment

\* A status written to the document one holds touches no filed one and no other's.
LEMMA DocumentWritten ==
  ASSUME InvoicesInv, NEW c \in Calls, call[c].step \in Holding, NEW status \in {"ready", "failed"},
         NEW step \in InvoiceSteps, Goto(c, step), UNCHANGED <<invoice, issued>>,
         asset' = [asset EXCEPT ![call[c].document] = status],
         step = "generated" => status = "ready"
  PROVE  InvoicesInv'
<1> DEFINE a == call[c].document
<1>1. GenerationOK(call[c], asset, invoice)
  BY InvoiceCallKinds DEF InvoicesInv, InvoiceCallsOK, Holding
<1>2. a \in Documents /\ a \in Assets /\ \A p \in Payments : invoice[p].document # a
  BY <1>1 DEF GenerationOK, Documents
<1>3. \A b \in Assets : asset'[b] = IF b = a THEN status ELSE asset[b]
  BY DEF InvoicesInv, InvoicesTyped
<1>4. InvoicesTyped'
  BY <1>2 DEF InvoicesInv, InvoicesTyped, InvoicesTypeOK, AssetStatus
<1>5. InvoiceRows'
  <2>1. \A p \in Payments : invoice[p].document \in Assets \cup {None}
    BY DEF InvoicesInv, InvoicesTyped, InvoicesTypeOK, Documents
  <2> QED BY <1>2, <1>3, <2>1 DEF InvoicesInv, InvoiceRows
<1>6. InvoiceCallsOK' /\ OwnDocuments'
  <2> DEFINE k == [call[c] EXCEPT !.step = step]
  <2>1. /\ call' = [call EXCEPT ![c] = k] /\ k \in Generation /\ k.step = step
        /\ k.payment = call[c].payment /\ k.document = a
    BY <1>1, GenerationGoto DEF GenerationOK
  <2> HIDE DEF k
  <2>2. InvoiceCallOK(k, asset', invoice')
    <3>1. call[c].step \notin {"number", "reread"}
      BY DEF Holding
    <3> QED BY <1>1, <1>2, <1>3, <2>1, <3>1 DEF InvoiceCallOK, GenerationOK
  <2>3. ASSUME NEW d \in Calls \ {c}, call[d].step \in Holding
        PROVE  /\ asset'[call[d].document] = asset[call[d].document]
               /\ call[d].document # a
               /\ \A p \in Payments : invoice'[p].document # call[d].document
    <3>1. GenerationOK(call[d], asset, invoice)
      BY <2>3, InvoiceCallKinds DEF InvoicesInv, InvoiceCallsOK, Holding
    <3>2. call[d].document # a
      BY <2>3 DEF InvoicesInv, OwnDocuments
    <3> QED BY <1>3, <2>3, <3>1, <3>2 DEF GenerationOK, Documents
  <2>4. \A p \in Payments : invoice[p].status # "none" => invoice'[p].status # "none"
    OBVIOUS
  <2>5. k.step \in Holding => \A d \in Calls \ {c} :
          call[d].step \in Holding => k.document # call[d].document
    BY <2>1, <2>3
  <2> HIDE DEF a
  <2> QED BY <2>1, <2>2, <2>3, <2>4, <2>5, GenerationMoves
<1> QED BY <1>4, <1>5, <1>6 DEF InvoicesInv, OneNumberPerPayment

\* The document made ready is that of the generation.
LEMMA MarkReadyKeeps ==
  ASSUME InvoicesInv, NEW c \in Calls, MarkReady(c)
  PROVE  InvoicesInv'
BY DocumentWritten DEF MarkReady, At, SetAsset, Holding, InvoiceSteps, invoicing

\* The document given up is not that of an invoice.
LEMMA FailDocumentKeeps ==
  ASSUME InvoicesInv, NEW c \in Calls, FailDocument(c)
  PROVE  InvoicesInv'
<1>0. call[c].step = "failDocument" /\ GenerationOK(call[c], asset, invoice)
      /\ Goto(c, "failInvoice") /\ UNCHANGED <<invoice, issued>>
  BY InvoiceCallKinds DEF FailDocument, At, InvoicesInv, InvoiceCallsOK, invoicing
<1>1. CASE UNCHANGED asset
  <2>1. InvoiceCallsOK' /\ OwnDocuments'
    BY <1>0, <1>1, GenerationGoesOn DEF InvoiceSteps, Holding, GenerationOK
  <2> QED BY <1>0, <1>1, <2>1 DEF InvoicesInv, InvoicesTyped, InvoicesTypeOK, InvoiceRows,
        OneNumberPerPayment
<1>2. CASE ~UNCHANGED asset
  <2>1. asset' = [a \in Assets |-> IF a = call[c].document THEN "failed" ELSE asset[a]]
    BY <1>2 DEF FailDocument, GivenUp
  <2>2. asset' = [asset EXCEPT ![call[c].document] = "failed"]
    BY <2>1 DEF InvoicesInv, InvoicesTyped
  <2> QED BY <1>0, <2>2, DocumentWritten DEF InvoiceSteps, Holding
<1> QED BY <1>1, <1>2

\* The document is filed: it is ready, and nobody else holds it.
LEMMA MarkGeneratedKeeps ==
  ASSUME InvoicesInv, NEW c \in Calls, MarkGenerated(c)
  PROVE  InvoicesInv'
<1> DEFINE p == call[c].payment
           a == call[c].document
<1>0. call[c].step = "generated" /\ GenerationOK(call[c], asset, invoice)
      /\ UNCHANGED <<issued, asset>>
  BY InvoiceCallKinds DEF MarkGenerated, At, InvoicesInv, InvoiceCallsOK, media
<1>1. /\ p \in Payments /\ a \in Documents /\ asset[a] = "ready" /\ a # None
      /\ invoice[p].status # "none"
  BY <1>0, MediaAssumption DEF GenerationOK, Generation, Holding, Documents
<1>2. CASE Goto(c, "failDocument") /\ UNCHANGED invoice
  <2>1. InvoiceCallsOK' /\ OwnDocuments'
    BY <1>0, <1>1, <1>2, GenerationGoesOn DEF InvoiceSteps, Holding
  <2> QED BY <1>0, <1>2, <2>1 DEF InvoicesInv, InvoicesTyped, InvoicesTypeOK, InvoiceRows,
        OneNumberPerPayment
<1>3. CASE ~(Goto(c, "failDocument") /\ UNCHANGED invoice)
  <2>1. /\ invoice' = [invoice EXCEPT ![p].status = "generated", ![p].document = a]
        /\ Finish(c)
    BY <1>3 DEF MarkGenerated
  <2>2. /\ \A q \in Payments :
             /\ invoice'[q].number = invoice[q].number
             /\ invoice'[q].document = IF q = p THEN a ELSE invoice[q].document
             /\ invoice'[q].status = IF q = p THEN "generated" ELSE invoice[q].status
        /\ InvoicesTypeOK'
    BY <1>1, <2>1 DEF InvoicesInv, InvoicesTyped, InvoicesTypeOK
  <2>3. InvoicesTyped' /\ InvoiceRows' /\ OneNumberPerPayment'
    BY <1>0, <1>1, <2>2 DEF InvoicesInv, InvoicesTyped, InvoiceRows, OneNumberPerPayment
  <2>4. InvoiceCallsOK' /\ OwnDocuments'
    <3>1. call' = [call EXCEPT ![c] = Idle] /\ InvoiceCallOK(Idle, asset', invoice')
          /\ Idle.step \notin Holding
      BY <2>1 DEF Finish, InvoiceCallOK, Idle, Holding
    <3>2. ASSUME NEW d \in Calls \ {c}, call[d].step \in Holding
          PROVE  \A q \in Payments : invoice'[q].document # call[d].document
      <4>1. GenerationOK(call[d], asset, invoice) /\ call[d].document # a
        BY <1>0, <3>2, InvoiceCallKinds DEF InvoicesInv, InvoiceCallsOK, OwnDocuments, Holding
      <4> QED BY <2>2, <3>2, <4>1 DEF GenerationOK
    <3>3. \A q \in Payments : invoice[q].status # "none" => invoice'[q].status # "none"
      BY <2>2
    <3> QED BY <1>0, <3>1, <3>2, <3>3, GenerationMoves
  <2> QED BY <2>3, <2>4 DEF InvoicesInv
<1> QED BY <1>2, <1>3

\* The status of a failed generation keeps document and number.
LEMMA FailInvoiceKeeps ==
  ASSUME InvoicesInv, NEW c \in Calls, FailInvoice(c)
  PROVE  InvoicesInv'
<1>0. At(c, "failInvoice") /\ Finish(c) /\ UNCHANGED <<issued, asset>>
  BY DEF FailInvoice, media
<1>1. call[c].payment \in Payments /\ invoice[call[c].payment].status # "none"
  <2>1. call[c].step = "failInvoice"
    BY <1>0 DEF At
  <2>2. GenerationOK(call[c], asset, invoice)
    BY <2>1, InvoiceCallKinds DEF InvoicesInv, InvoiceCallsOK
  <2> QED BY <2>1, <2>2 DEF GenerationOK, Generation
<1>2. CASE SetInvoice(call[c].payment, "failed")
  <2>1. /\ InvoicesTyped' /\ InvoiceRows' /\ OneNumberPerPayment'
        /\ \A q \in Payments : /\ invoice[q].status # "none" => invoice'[q].status # "none"
                               /\ invoice'[q].document = invoice[q].document
    BY <1>0, <1>1, <1>2, StatusWritten
  <2>2. InvoiceCallsOK' /\ OwnDocuments'
    BY <1>0, <2>1, GenerationEnds
  <2> QED BY <2>1, <2>2 DEF InvoicesInv
<1>3. CASE UNCHANGED invoice
  BY <1>0, <1>3, GenerationEnds DEF InvoicesInv, InvoicesTyped, InvoicesTypeOK, InvoiceRows,
     OneNumberPerPayment
<1> QED BY <1>2, <1>3 DEF FailInvoice

\* Every step of a generation keeps the invariant.
LEMMA InvoicesKept == InvoicesInv /\ [InvoicesNext]_<<media, invoicing, call>> => InvoicesInv'
<1>1. InvoicesInv /\ InvoicesNext => InvoicesInv'
  BY GenerateKeeps, CreateKeeps, RereadKeeps, MarkPendingKeeps, CreateDocumentKeeps, UploadKeeps,
     MarkReadyKeeps, MarkGeneratedKeeps, FailDocumentKeeps, FailInvoiceKeeps DEF InvoicesNext
<1>2. InvoicesInv /\ UNCHANGED <<media, invoicing, call>> => InvoicesInv'
  BY DEF InvoicesInv, InvoicesTyped, InvoicesTypeOK, InvoiceCallsOK, OwnDocuments, InvoiceRows,
     OneNumberPerPayment, media,
         invoicing
<1> QED BY <1>1, <1>2

\* The invariant holds what is asked of the invoices.
LEMMA InvoicesShow == InvoicesInv => InvoicesStand
BY DEF InvoicesInv, InvoiceRows, InvoicesStand, GeneratedHasDocument, HasDocument, HasUrl

\* A document that is about to be made ready, or was, is in storage.
DocumentsStored ==
  /\ stored \in [Assets -> {"nothing", "good", "bad"}] /\ ReadyWasStored
  /\ \A c \in Calls : At(c, "ready") => stored[call[c].document] = "good"

\* The upload of a document comes before the write that makes it ready.
LEMMA DocumentsStayStored ==
  ASSUME InvoicesInv, DocumentsStored, [InvoicesNext]_<<media, invoicing, call>>
  PROVE  DocumentsStored'
<1>1. /\ call = [c \in Calls |-> call[c]] /\ asset \in [Assets -> AssetStatus]
      /\ stored \in [Assets -> {"nothing", "good", "bad"}] /\ Documents \subseteq Assets
      /\ \A c \in Calls : At(c, "ready") => stored[call[c].document] = "good"
  BY DEF InvoicesInv, InvoiceCallsOK, InvoicesTyped, DocumentsStored, Documents
<1>2. ASSUME NEW c \in Calls, call[c].step # "idle"
      PROVE  call[c] \in Generation
  BY <1>2, InvoiceCallKinds DEF InvoicesInv, InvoiceCallsOK, GenerationOK
\* A step that neither uploads nor makes ready.
<1>3. ASSUME NEW c \in Calls, NEW k, call' = [call EXCEPT ![c] = k], k.step # "ready",
             UNCHANGED stored, \A a \in Assets : asset'[a] = "ready" => asset[a] = "ready"
      PROVE  DocumentsStored'
  <2>1. \A d \in Calls : At(d, "ready")' => At(d, "ready") /\ call'[d] = call[d]
    BY <1>1, <1>3 DEF At
  <2> QED BY <1>1, <1>3, <2>1 DEF DocumentsStored, ReadyWasStored
<1>4. ASSUME NEW c \in Calls, call[c].step # "idle", NEW step \in InvoiceSteps \ {"ready"},
             Goto(c, step), UNCHANGED stored,
             \A a \in Assets : asset'[a] = "ready" => asset[a] = "ready"
      PROVE  DocumentsStored'
  <2> PICK k : k = [call[c] EXCEPT !.step = step]
    OBVIOUS
  <2>1. call' = [call EXCEPT ![c] = k] /\ k.step = step
    BY <1>2, <1>4, GenerationGoto
  <2> QED BY <1>3, <1>4, <2>1
<1>5. ASSUME NEW c \in Calls, NEW p \in Payments, GenerateForPayment(c, p) PROVE DocumentsStored'
  <2> PICK k : k = CallFor(p, IF invoice[p].status = "none" THEN "number" ELSE "reset")
    OBVIOUS
  <2>1. call' = [call EXCEPT ![c] = k] /\ k.step # "ready" /\ UNCHANGED <<asset, stored>>
    BY <1>5 DEF GenerateForPayment, Begin, media, CallFor
  <2> QED BY <1>3, <2>1
<1>6. ASSUME NEW c \in Calls, CreatePending(c) PROVE DocumentsStored'
  <2>1. call[c].step # "idle" /\ UNCHANGED <<asset, stored>>
    BY <1>6 DEF CreatePending, At, media
  <2>2. Goto(c, "reread") \/ Goto(c, "provider")
    BY <1>6 DEF CreatePending
  <2> QED BY <1>4, <2>1, <2>2 DEF InvoiceSteps
<1>7. ASSUME NEW c \in Calls, Finish(c), UNCHANGED <<asset, stored>> PROVE DocumentsStored'
  <2>1. call' = [call EXCEPT ![c] = Idle] /\ Idle.step # "ready"
    BY <1>7 DEF Finish, Idle
  <2> QED BY <1>3, <1>7, <2>1
<1>8. ASSUME NEW c \in Calls, Reread(c) PROVE DocumentsStored'
  <2>1. call[c].step # "idle" /\ UNCHANGED <<asset, stored>>
    BY <1>8 DEF Reread, At, media
  <2>2. CASE Goto(c, "provider") \/ Finish(c)
    BY <1>4, <1>7, <2>1, <2>2 DEF InvoiceSteps
  <2>3. CASE call' = [call EXCEPT ![c].step = "number", ![c].attempt = @ + 1]
    <3>1. call' = [call EXCEPT ![c] = [call[c] EXCEPT !.step = "number", !.attempt = @ + 1]]
      BY <1>1, <2>3
    <3>2. [call[c] EXCEPT !.step = "number", !.attempt = @ + 1].step = "number"
      BY <1>2, <2>1 DEF Generation
    <3> QED BY <1>3, <2>1, <3>1, <3>2
  <2> QED BY <1>8, <2>2, <2>3 DEF Reread
<1>9. ASSUME NEW c \in Calls, MarkPending(c) PROVE DocumentsStored'
  <2>1. call[c].step # "idle" /\ UNCHANGED <<asset, stored>> /\ Goto(c, "provider")
    BY <1>9 DEF MarkPending, At, media
  <2> QED BY <1>4, <2>1 DEF InvoiceSteps
<1>10. ASSUME NEW c \in Calls, CreateDocument(c) PROVE DocumentsStored'
  <2>1. call[c].step # "idle" /\ UNCHANGED stored
    BY <1>10 DEF CreateDocument, At
  <2>2. CASE Goto(c, "failInvoice") /\ UNCHANGED asset
    BY <1>4, <2>1, <2>2 DEF InvoiceSteps
  <2>3. CASE \E a : /\ asset' = [asset EXCEPT ![a] = "pending"]
                    /\ call' = [call EXCEPT ![c].step = "upload", ![c].document = a]
    <3>1. PICK a : /\ asset' = [asset EXCEPT ![a] = "pending"]
                   /\ call' = [call EXCEPT ![c].step = "upload", ![c].document = a]
      BY <2>3
    <3>2. call' = [call EXCEPT ![c] = [call[c] EXCEPT !.step = "upload", !.document = a]]
      BY <1>1, <3>1
    <3>3. [call[c] EXCEPT !.step = "upload", !.document = a].step = "upload"
      BY <1>2, <2>1 DEF Generation
    <3>4. \A b \in Assets : asset'[b] = "ready" => asset[b] = "ready"
      BY <1>1, <3>1
    <3> QED BY <1>3, <2>1, <3>2, <3>3, <3>4
  <2> QED BY <1>10, <2>2, <2>3 DEF CreateDocument, SetAsset
<1>11. ASSUME NEW c \in Calls, UploadDocument(c) PROVE DocumentsStored'
  <2>1. call[c].step = "upload" /\ UNCHANGED asset /\ call[c] \in Generation
    BY <1>2, <1>11 DEF UploadDocument, At
  <2>2. CASE Goto(c, "failDocument") /\ UNCHANGED stored
    BY <1>4, <2>1, <2>2 DEF InvoiceSteps
  <2>3. CASE stored' = [stored EXCEPT ![call[c].document] = "good"] /\ Goto(c, "ready")
    <3> PICK k : k = [call[c] EXCEPT !.step = "ready"]
      OBVIOUS
    <3>1. call' = [call EXCEPT ![c] = k] /\ k.document = call[c].document
      BY <2>1, <2>3, GenerationGoto DEF InvoiceSteps
    <3>2. call[c].document \in Documents
      BY <2>1, InvoiceCallKinds DEF InvoicesInv, InvoiceCallsOK, GenerationOK, Holding
    <3>3. /\ stored' \in [Assets -> {"nothing", "good", "bad"}]
          /\ stored'[call[c].document] = "good"
          /\ \A a \in Assets : stored[a] = "good" => stored'[a] = "good"
      BY <1>1, <2>3, <3>2
    <3>4. ASSUME NEW d \in Calls, At(d, "ready")' PROVE stored'[call'[d].document] = "good"
      <4>1. CASE d = c
        BY <1>1, <3>1, <3>3, <4>1
      <4>2. CASE d # c
        <5>1. call'[d] = call[d] /\ call[d].step = "ready"
          BY <1>1, <3>1, <3>4, <4>2 DEF At
        <5>2. call[d].document \in Documents
          BY <5>1, InvoiceCallKinds DEF InvoicesInv, InvoiceCallsOK, GenerationOK, Holding
        <5> QED BY <1>1, <3>3, <5>1, <5>2 DEF At
      <4> QED BY <4>1, <4>2
    <3> QED BY <1>1, <2>1, <3>3, <3>4 DEF DocumentsStored, ReadyWasStored
  <2> QED BY <1>11, <2>2, <2>3 DEF UploadDocument
<1>12. ASSUME NEW c \in Calls, MarkReady(c) PROVE DocumentsStored'
  <2>1. /\ call[c].step = "ready" /\ UNCHANGED stored /\ Goto(c, "generated")
        /\ asset' = [asset EXCEPT ![call[c].document] = "ready"]
    BY <1>12 DEF MarkReady, At, SetAsset
  <2>2. stored[call[c].document] = "good"
    BY <1>1, <2>1 DEF At
  <2> PICK k : k = [call[c] EXCEPT !.step = "generated"]
    OBVIOUS
  <2>3. call' = [call EXCEPT ![c] = k] /\ k.step = "generated"
    BY <1>2, <2>1, GenerationGoto DEF InvoiceSteps
  <2>4. \A d \in Calls : At(d, "ready")' => At(d, "ready") /\ call'[d] = call[d]
    BY <1>1, <2>3 DEF At
  <2>5. ReadyWasStored'
    BY <1>1, <2>1, <2>2 DEF DocumentsStored, ReadyWasStored
  <2> QED BY <1>1, <2>1, <2>4, <2>5 DEF DocumentsStored
<1>13. ASSUME NEW c \in Calls, MarkGenerated(c) PROVE DocumentsStored'
  <2>1. call[c].step # "idle" /\ UNCHANGED <<asset, stored>>
    BY <1>13 DEF MarkGenerated, At, media
  <2>2. Goto(c, "failDocument") \/ Finish(c)
    BY <1>13 DEF MarkGenerated
  <2> QED BY <1>4, <1>7, <2>1, <2>2 DEF InvoiceSteps
<1>14. ASSUME NEW c \in Calls, FailDocument(c) PROVE DocumentsStored'
  <2>1. call[c].step # "idle" /\ UNCHANGED stored /\ Goto(c, "failInvoice")
    BY <1>14 DEF FailDocument, At
  <2>2. \A a \in Assets : asset'[a] = "ready" => asset[a] = "ready"
    BY <1>14 DEF FailDocument
  <2> QED BY <1>4, <2>1, <2>2 DEF InvoiceSteps
<1>15. ASSUME NEW c \in Calls, FailInvoice(c) PROVE DocumentsStored'
  BY <1>7, <1>15 DEF FailInvoice, media
<1>16. CASE UNCHANGED <<media, invoicing, call>>
  BY <1>1, <1>16 DEF media, DocumentsStored, ReadyWasStored, At
<1> QED BY <1>5, <1>6, <1>8, <1>9, <1>10, <1>11, <1>12, <1>13, <1>14, <1>15, <1>16
        DEF InvoicesNext

----
(* Attachments: any number of calls that count before they write. *)

FileCall == [step : {"readFiles", "attach", "detach"}, file : Files]
FilingTyped ==
  /\ stage \in {"open", "agreed", "delivered", "closed"}
  /\ attached \in [Files -> {"none", "live", "removed"}]
  /\ evidence \in [files : SUBSET Files, calls : Nat]
  /\ call \in [Calls -> {Idle} \cup FileCall]
  /\ IsFiniteSet(LiveFiles) /\ IsFiniteSet(evidence.files)

\* Each call that passed the count still has its one file to add.
Attaching == {c \in Calls : At(c, "attach")}
RoomForAttaching ==
  Cardinality(LiveFiles) + Cardinality(Attaching) <= MaxAttachments + Cardinality(Calls) - 1

\* What a call under way at the delivery did not change yet, it may still change.
Differing == (LiveFiles \ evidence.files) \cup (evidence.files \ LiveFiles)
OneChangePerCall ==
  stage = "delivered" => Cardinality(Differing) + Cardinality(Writing) <= evidence.calls

FilingInv == FilingTyped /\ RoomForAttaching /\ OneChangePerCall

\* All the sets that are counted are finite.
LEMMA FilingFinite ==
  ASSUME FilingTyped
  PROVE  /\ IsFiniteSet(Attaching) /\ IsFiniteSet(Writing) /\ IsFiniteSet(Differing)
         /\ Cardinality(Attaching) \in Nat /\ Cardinality(Writing) \in Nat
         /\ Cardinality(Differing) \in Nat /\ Cardinality(LiveFiles) \in Nat
         /\ Cardinality(Calls) \in Nat /\ MaxAttachments \in Nat
<1>1. Attaching \subseteq Calls /\ Writing \subseteq Calls
  BY DEF Attaching, Writing
<1>2. IsFiniteSet(Attaching) /\ IsFiniteSet(Writing)
  BY <1>1, CallsAssumption, FS_Subset
<1>3. IsFiniteSet(LiveFiles) /\ IsFiniteSet(evidence.files)
  BY DEF FilingTyped
<1>4. IsFiniteSet(LiveFiles \ evidence.files) /\ IsFiniteSet(evidence.files \ LiveFiles)
  BY <1>3, FS_Difference
<1>5. IsFiniteSet(Differing)
  BY <1>4, FS_Union DEF Differing
<1> QED BY <1>2, <1>3, <1>5, CallsAssumption, AttachmentsAssumption, FS_CardinalityType

\* The invariant holds what is asked of the files of a request.
LEMMA FilingShows == FilingInv => AttachmentsHold
<1> SUFFICES ASSUME FilingInv PROVE AttachmentsHold
  OBVIOUS
<1>1. Cardinality(Attaching) \in Nat /\ Cardinality(Writing) \in Nat
        /\ Cardinality(Differing) \in Nat /\ Cardinality(LiveFiles) \in Nat
        /\ Cardinality(Calls) \in Nat /\ MaxAttachments \in Nat
  BY FilingFinite DEF FilingInv
<1>2. LimitHoldsUpToOverlap
  BY <1>1 DEF FilingInv, RoomForAttaching, LimitHoldsUpToOverlap
<1>3. stage = "delivered" => Cardinality(Differing) <= evidence.calls
  BY <1>1 DEF FilingInv, FilingTyped, OneChangePerCall
<1> QED BY <1>2, <1>3 DEF AttachmentsHold, EvidenceStands, Differing

\* Before the first request there is nothing to count.
LEMMA FilingStart == AttachmentsInit /\ SlotsInit => FilingInv
<1> SUFFICES ASSUME AttachmentsInit, SlotsInit PROVE FilingInv
  OBVIOUS
<1>1. LiveFiles = {} /\ Attaching = {} /\ evidence.files = {}
  BY DEF AttachmentsInit, SlotsInit, LiveFiles, Attaching, At, Idle
<1>2. IsFiniteSet({}) /\ Cardinality({}) = 0
  BY FS_EmptySet
<1>3. FilingTyped
  BY <1>1, <1>2 DEF AttachmentsInit, SlotsInit, FilingTyped
<1>4. Cardinality(LiveFiles) = 0 /\ Cardinality(Attaching) = 0
  BY <1>1, <1>2
<1>5. Cardinality(Calls) \in Nat /\ MaxAttachments \in Nat \ {0}
  BY CallsAssumption, AttachmentsAssumption, FS_CardinalityType
<1>6. RoomForAttaching
  BY <1>4, <1>5 DEF RoomForAttaching
<1> QED BY <1>3, <1>6 DEF FilingInv, OneChangePerCall, AttachmentsInit

\* A set that gains at most one element.
LEMMA GrowsByOne ==
  ASSUME NEW S, NEW T, NEW x, IsFiniteSet(S), T \subseteq S \cup {x}
  PROVE  /\ IsFiniteSet(T) /\ Cardinality(T) \in Nat /\ Cardinality(S) \in Nat
         /\ Cardinality(T) <= Cardinality(S) + 1
         /\ T \subseteq S => Cardinality(T) <= Cardinality(S)
<1>1. IsFiniteSet(S \cup {x}) /\ Cardinality(S \cup {x}) <= Cardinality(S) + 1
        /\ Cardinality(S \cup {x}) \in Nat /\ Cardinality(S) \in Nat
  BY FS_AddElement, FS_CardinalityType
<1>2. IsFiniteSet(T) /\ Cardinality(T) \in Nat /\ Cardinality(T) <= Cardinality(S \cup {x})
  BY <1>1, FS_Subset, FS_CardinalityType
<1>3. T \subseteq S => Cardinality(T) <= Cardinality(S)
  BY FS_Subset
<1> QED BY <1>1, <1>2, <1>3

\* A call that was under way ends, having changed at most one file.
LEMMA CallEnds ==
  ASSUME FilingInv, NEW c \in Calls, call' = [call EXCEPT ![c] = Idle], call[c] # Idle,
         UNCHANGED <<stage, evidence>>, attached' \in [Files -> {"none", "live", "removed"}],
         NEW f \in Files, \A g \in Files \ {f} : attached'[g] = attached[g],
         LiveFiles' \subseteq LiveFiles \/ At(c, "attach")
  PROVE  FilingInv'
<1>1. FilingTyped /\ RoomForAttaching /\ OneChangePerCall
  BY DEF FilingInv
<1>2. call' \in [Calls -> {Idle} \cup FileCall]
  BY <1>1 DEF FilingTyped
<1>3. LiveFiles' \subseteq LiveFiles \cup {f}
  BY DEF LiveFiles
<1>4. /\ IsFiniteSet(LiveFiles') /\ Cardinality(LiveFiles') \in Nat
      /\ Cardinality(LiveFiles') <= Cardinality(LiveFiles) + 1
      /\ LiveFiles' \subseteq LiveFiles => Cardinality(LiveFiles') <= Cardinality(LiveFiles)
  BY <1>1, <1>3, GrowsByOne DEF FilingTyped
<1>5. FilingTyped'
  <2>1. IsFiniteSet(LiveFiles)' /\ IsFiniteSet(evidence.files)'
    BY <1>1, <1>4 DEF FilingTyped
  <2>2. stage' = stage /\ evidence' = evidence
    OBVIOUS
  <2> QED BY <1>1, <1>2, <2>1, <2>2 DEF FilingTyped
<1>6. call[c] \in FileCall /\ c \in Writing /\ Writing' = Writing \ {c}
  BY <1>1 DEF FilingTyped, FileCall, Writing, Idle
<1>7. Attaching' = Attaching \ {c} /\ (At(c, "attach") <=> c \in Attaching)
  BY <1>1 DEF FilingTyped, Attaching, At, Idle
<1>8. Cardinality(Writing') = Cardinality(Writing) - 1
  BY <1>1, <1>6, FilingFinite, FS_RemoveElement
<1>9. Cardinality(Attaching') = IF At(c, "attach") THEN Cardinality(Attaching) - 1
                                ELSE Cardinality(Attaching)
  BY <1>1, <1>7, FilingFinite, FS_RemoveElement
<1>10. RoomForAttaching'
  <2>1. Cardinality(LiveFiles') + Cardinality(Attaching') <=
          Cardinality(LiveFiles) + Cardinality(Attaching)
    <3>1. Cardinality(LiveFiles) \in Nat /\ Cardinality(Attaching) \in Nat
      BY <1>1, FilingFinite
    <3>2. CASE At(c, "attach")
      BY <1>4, <1>9, <3>1, <3>2
    <3>3. CASE ~At(c, "attach")
      BY <1>4, <1>9, <3>1, <3>3
    <3> QED BY <3>2, <3>3
  <2>2. Cardinality(LiveFiles) \in Nat /\ Cardinality(Attaching) \in Nat
          /\ Cardinality(Calls) \in Nat /\ MaxAttachments \in Nat
          /\ Cardinality(Attaching') \in Int
    BY <1>1, <1>9, FilingFinite
  <2> QED BY <1>1, <1>4, <2>1, <2>2 DEF RoomForAttaching
<1>11. OneChangePerCall'
  <2>1. Differing' \subseteq Differing \cup {f}
    BY DEF Differing, LiveFiles
  <2>2. Cardinality(Differing') \in Nat /\ Cardinality(Differing') <= Cardinality(Differing) + 1
    BY <1>1, <2>1, FilingFinite, GrowsByOne
  <2>3. evidence.calls \in Nat
    BY <1>1 DEF FilingTyped
  <2> QED BY <1>1, <1>8, <2>2, <2>3, FilingFinite DEF OneChangePerCall
<1> QED BY <1>5, <1>10, <1>11 DEF FilingInv

\* Every step keeps the counts of files and of calls under way together.
LEMMA FilingKept ==
  ASSUME FilingInv, [AttachmentsNext]_<<filing, call>>
  PROVE  FilingInv'
<1>1. FilingTyped /\ RoomForAttaching /\ OneChangePerCall
  BY DEF FilingInv
<1>2. ASSUME MoveStage PROVE FilingInv'
  <2>1. UNCHANGED <<attached, call>> /\ stage' \in {"open", "agreed", "delivered", "closed"}
    BY <1>1, <1>2 DEF MoveStage, NextStages, FilingTyped
  <2>2. LiveFiles' = LiveFiles /\ Writing' = Writing /\ Attaching' = Attaching
    BY <2>1 DEF LiveFiles, Writing, Attaching, At
  <2>3. CASE stage' = "delivered"
    <3>1. evidence' = [files |-> LiveFiles, calls |-> Cardinality(Writing)]
      BY <1>2, <2>3 DEF MoveStage
    <3>2. LiveFiles \in SUBSET Files /\ Cardinality(Writing) \in Nat /\ IsFiniteSet(LiveFiles)
      BY <1>1, FilingFinite DEF LiveFiles, FilingTyped
    <3>3. FilingTyped'
      BY <1>1, <2>1, <2>2, <3>1, <3>2 DEF FilingTyped
    <3>4. Differing' = {} /\ Cardinality({}) = 0
      BY <2>2, <3>1, FS_EmptySet DEF Differing
    <3>5. OneChangePerCall'
      BY <2>2, <3>1, <3>2, <3>4 DEF OneChangePerCall
    <3> QED BY <1>1, <2>2, <3>3, <3>5 DEF FilingInv, RoomForAttaching
  <2>4. CASE stage' # "delivered"
    BY <1>1, <1>2, <2>1, <2>2, <2>4 DEF MoveStage, FilingInv, FilingTyped, OneChangePerCall,
       RoomForAttaching
  <2> QED BY <2>3, <2>4
<1>3. ASSUME NEW c \in Calls, NEW f \in Files, NEW step \in {"readFiles", "detach"},
             AttachmentsMutable, Begin(c, [step |-> step, file |-> f]), UNCHANGED filing
      PROVE  FilingInv'
  <2> PICK k : k = [step |-> step, file |-> f]
    OBVIOUS
  <2>1. k \in FileCall /\ call' = [call EXCEPT ![c] = k] /\ call[c] = Idle /\ k.step # "attach"
    BY <1>3 DEF FileCall, Begin
  <2>2. LiveFiles' = LiveFiles /\ Attaching' = Attaching
    BY <1>1, <1>3, <2>1 DEF filing, LiveFiles, Attaching, At, FilingTyped, Idle
  <2>3. FilingTyped'
    BY <1>1, <1>3, <2>1, <2>2 DEF FilingTyped, filing
  <2>4. stage' # "delivered"
    BY <1>3 DEF AttachmentsMutable, filing
  <2> QED BY <1>1, <2>2, <2>3, <2>4 DEF FilingInv, RoomForAttaching, OneChangePerCall
<1>4. ASSUME NEW c \in Calls, ListForLimit(c) PROVE FilingInv'
  <2> PICK k : k = call[c]
    OBVIOUS
  <2>1. k \in FileCall /\ k.step = "readFiles" /\ k.file \in Files /\ k # Idle /\ UNCHANGED filing
    BY <1>1, <1>4 DEF ListForLimit, At, FilingTyped, FileCall, Idle
  <2>2. CASE Finish(c)
    BY <1>1, <2>1, <2>2, CallEnds DEF Finish, filing, FilingTyped, LiveFiles
  <2>3. CASE Cardinality(LiveFiles) < MaxAttachments /\ Goto(c, "attach")
    <3> PICK z : z = [k EXCEPT !.step = "attach"]
      OBVIOUS
    <3>1. z \in FileCall /\ z.step = "attach" /\ call' = [call EXCEPT ![c] = z]
      BY <1>1, <2>1, <2>3 DEF FileCall, Goto, FilingTyped
    <3>2. LiveFiles' = LiveFiles /\ Differing' = Differing
      BY <2>1 DEF filing, LiveFiles, Differing
    <3>3. Writing' = Writing
      BY <1>1, <2>1, <3>1 DEF FilingTyped, Writing
    <3>4. Attaching' \subseteq Calls
      BY DEF Attaching
    <3>5. FilingTyped'
      BY <1>1, <2>1, <3>1, <3>2 DEF FilingTyped, filing
    <3>6. Cardinality(Attaching') \in Nat /\ Cardinality(Attaching') <= Cardinality(Calls)
      BY <3>4, CallsAssumption, FS_Subset, FS_CardinalityType
    <3>7. RoomForAttaching'
      BY <1>1, <2>3, <3>2, <3>6, FilingFinite DEF RoomForAttaching
    <3>8. OneChangePerCall'
      BY <1>1, <2>1, <3>2, <3>3 DEF OneChangePerCall, filing
    <3> QED BY <3>5, <3>7, <3>8 DEF FilingInv
  <2> QED BY <1>4, <2>2, <2>3 DEF ListForLimit, Counted
<1>5. ASSUME NEW c \in Calls, CreateAttachment(c) PROVE FilingInv'
  <2> PICK k : k = call[c]
    OBVIOUS
  <2>1. k.file \in Files /\ k # Idle /\ At(c, "attach") /\ UNCHANGED <<stage, evidence>>
          /\ call' = [call EXCEPT ![c] = Idle]
    BY <1>1, <1>5 DEF CreateAttachment, At, FilingTyped, FileCall, Idle, Finish
  <2>2. attached' \in [Files -> {"none", "live", "removed"}]
          /\ \A g \in Files \ {k.file} : attached'[g] = attached[g]
    BY <1>1, <1>5, <2>1 DEF CreateAttachment, FilingTyped
  <2> QED BY <2>1, <2>2, CallEnds
<1>6. ASSUME NEW c \in Calls, SoftDeleteAttachment(c) PROVE FilingInv'
  <2> PICK k : k = call[c]
    OBVIOUS
  <2>1. k.file \in Files /\ k # Idle /\ UNCHANGED <<stage, evidence>>
          /\ call' = [call EXCEPT ![c] = Idle]
    BY <1>1, <1>6 DEF SoftDeleteAttachment, At, FilingTyped, FileCall, Idle, Finish
  <2>2. attached' \in [Files -> {"none", "live", "removed"}]
          /\ (\A g \in Files \ {k.file} : attached'[g] = attached[g])
               /\ attached'[k.file] = "removed"
    BY <1>1, <1>6, <2>1 DEF SoftDeleteAttachment, FilingTyped
  <2>3. LiveFiles' \subseteq LiveFiles
    BY <2>2 DEF LiveFiles
  <2> QED BY <2>1, <2>2, <2>3, CallEnds
<1>7. CASE UNCHANGED <<filing, call>>
  <2>1. LiveFiles' = LiveFiles /\ Writing' = Writing /\ Attaching' = Attaching
          /\ Differing' = Differing
    BY <1>7 DEF filing, LiveFiles, Writing, Attaching, At, Differing
  <2> QED BY <1>1, <1>7, <2>1 DEF filing, FilingInv, FilingTyped, OneChangePerCall, RoomForAttaching
<1>8. ASSUME NEW c \in Calls, NEW f \in Files, AddAttachment(c, f) PROVE FilingInv'
  BY <1>3, <1>8 DEF AddAttachment
<1>9. ASSUME NEW c \in Calls, NEW f \in Files, NEW u \in FileParties, RemoveAttachment(c, u, f)
      PROVE  FilingInv'
  BY <1>3, <1>9 DEF RemoveAttachment
<1> QED BY <1>2, <1>4, <1>5, <1>6, <1>7, <1>8, <1>9 DEF AttachmentsNext

----
(* The feed: a page is mixed slot by slot. *)

\* How far a page has come: rows taken from each pool, and the page.
Mixed(social, discovery) ==
  [social : 0..Len(social), discovery : 0..Len(discovery), page : Seq(FeedRow)]

\* From m to n a row was taken from one pool or the other, or both are at their end.
Takes(social, discovery, m, n) ==
  \/ /\ m.discovery < Len(discovery) /\ n.discovery = m.discovery + 1
     /\ n.social = m.social /\ n.page = Append(m.page, discovery[m.discovery + 1])
  \/ /\ m.social < Len(social) /\ n.social = m.social + 1
     /\ n.discovery = m.discovery /\ n.page = Append(m.page, social[m.social + 1])
  \/ n = m /\ m.social = Len(social) /\ m.discovery = Len(discovery)

\* A slot.
LEMMA SlotTakes ==
  ASSUME NEW social \in Seq(FeedRow), NEW discovery \in Seq(FeedRow),
         NEW m \in Mixed(social, discovery), NEW slot \in Nat
  PROVE  /\ Pick(social, discovery, m, slot) \in Mixed(social, discovery)
         /\ Takes(social, discovery, m, Pick(social, discovery, m, slot))
<1> DEFINE s == m.social
           d == m.discovery
           mayS == MayTake(s, SocialTarget, social, d, DiscoveryTarget, discovery)
           mayD == MayTake(d, DiscoveryTarget, discovery, s, SocialTarget, social)
           n == Pick(social, discovery, m, slot)
<1>1. /\ s \in 0..Len(social) /\ d \in 0..Len(discovery) /\ m.page \in Seq(FeedRow)
      /\ Len(social) \in Nat /\ Len(discovery) \in Nat
      /\ m = [social |-> s, discovery |-> d, page |-> m.page]
  BY DEF Mixed
<1>2. SocialTarget \in Int /\ DiscoveryTarget \in Int
  BY FeedAssumption DEF SocialTarget, DiscoveryTarget, CeilTenths
<1>3. /\ mayS => s < Len(social)
      /\ mayD => d < Len(discovery)
      /\ mayS \/ mayD \/ (s = Len(social) /\ d = Len(discovery))
  BY <1>1, <1>2 DEF MayTake
<1>4. CASE mayD /\ (slot % 4 = 0 \/ ~mayS)
  <2>1. n = [m EXCEPT !.discovery = d + 1, !.page = Append(m.page, discovery[d + 1])]
    BY <1>4 DEF Pick
  <2>2. d + 1 \in 0..Len(discovery) /\ discovery[d + 1] \in FeedRow
    BY <1>1, <1>3, <1>4
  <2>3. Append(m.page, discovery[d + 1]) \in Seq(FeedRow)
    BY <1>1, <2>2
  <2> QED BY <1>1, <1>3, <1>4, <2>1, <2>2, <2>3 DEF Mixed, Takes
<1>5. CASE ~(mayD /\ (slot % 4 = 0 \/ ~mayS)) /\ mayS
  <2>1. n = [m EXCEPT !.social = s + 1, !.page = Append(m.page, social[s + 1])]
    BY <1>5 DEF Pick
  <2>2. s + 1 \in 0..Len(social) /\ social[s + 1] \in FeedRow
    BY <1>1, <1>3, <1>5
  <2>3. Append(m.page, social[s + 1]) \in Seq(FeedRow)
    BY <1>1, <2>2
  <2> QED BY <1>1, <1>3, <1>5, <2>1, <2>2, <2>3 DEF Mixed, Takes
<1>6. CASE ~mayD /\ ~mayS
  <2>1. n = m
    BY <1>6 DEF Pick
  <2> QED BY <1>1, <1>3, <1>6, <2>1 DEF Takes
<1> QED BY <1>4, <1>5, <1>6

\* The mixing as a function of the slots.
LEMMA MixSteps ==
  ASSUME NEW social \in Seq(FeedRow), NEW discovery \in Seq(FeedRow)
  PROVE  \E f \in [0..Limit -> Mixed(social, discovery)] :
           /\ f[0] = [social |-> 0, discovery |-> 0, page |-> <<>>]
           /\ \A n \in 1..Limit : f[n] = Pick(social, discovery, f[n - 1], n)
           /\ Mix(social, discovery) = f[Limit]
<1> DEFINE S == Mixed(social, discovery)
           base == [social |-> 0, discovery |-> 0, page |-> <<>>]
           step == [x \in Nat \X S |-> Pick(social, discovery, x[2], x[1])]
<1>1. base \in S
  BY DEF Mixed
<1>2. step \in [(Nat \X S) -> S]
  <2>1. \A x \in Nat \X S : Pick(social, discovery, x[2], x[1]) \in S
    <3> HIDE DEF S
    <3> QED BY SlotTakes DEF S
  <2> HIDE DEF S
  <2> QED BY <2>1
<1> HIDE DEF S, base, step
<1>3. /\ Limit \in Nat
      /\ \A n \in 1..Limit : n \in Nat /\ n \in 0..Limit /\ n - 1 \in 0..Limit /\ n # 0
  BY FeedAssumption
<1>f. PICK f : Recursive(f, Limit, S, base, step)
  BY <1>1, <1>2, <1>3, RecursionTo
<1>4. /\ f \in [0..Limit -> S] /\ f[0] = base
      /\ \A n \in 1..Limit : f[n] = step[<<n, f[n - 1]>>]
  BY <1>f DEF Recursive
<1>5. \A n \in 1..Limit : f[n] = Pick(social, discovery, f[n - 1], n)
  BY <1>3, <1>4 DEF step
<1>6. \E g : g = [n \in 0..Limit |-> IF n = 0 THEN base ELSE Pick(social, discovery, g[n - 1], n)]
  <2>1. \A n \in 0..Limit : n # 0 => n \in 1..Limit
    BY <1>3
  <2>2. f = [n \in 0..Limit |-> IF n = 0 THEN base ELSE Pick(social, discovery, f[n - 1], n)]
    BY <1>4, <1>5, <2>1
  <2> QED BY <2>2
<1> DEFINE mixed[n \in 0..Limit] ==
             IF n = 0 THEN base ELSE Pick(social, discovery, mixed[n - 1], n)
<1>7. mixed = [n \in 0..Limit |-> IF n = 0 THEN base ELSE Pick(social, discovery, mixed[n - 1], n)]
  BY <1>6
<1>8. Mix(social, discovery) = mixed[Limit]
  BY DEF Mix, base
<1> HIDE DEF mixed
<1>9. /\ mixed[0] = base /\ DOMAIN mixed = 0..Limit
      /\ \A n \in 1..Limit : mixed[n] = Pick(social, discovery, mixed[n - 1], n)
  BY <1>3, <1>7
<1>10. \A n \in 0..Limit : mixed[n] \in S
  <2> DEFINE T == {n \in Nat : n <= Limit => mixed[n] \in S}
  <2>1. 0 \in T
    BY <1>1, <1>9
  <2>2. ASSUME NEW n \in Nat, n \in T PROVE n + 1 \in T
    <3>1. CASE n + 1 <= Limit
      <4>1. n + 1 \in 1..Limit /\ mixed[n] \in S /\ (n + 1) - 1 = n /\ n + 1 \in Nat
        BY <1>3, <2>2, <3>1
      <4>2. mixed[n + 1] = Pick(social, discovery, mixed[n], n + 1)
        BY <1>9, <4>1
      <4> QED BY <4>1, <4>2, SlotTakes DEF S
    <3>2. CASE ~(n + 1 <= Limit)
      BY <3>2
    <3> QED BY <3>1, <3>2
  <2>3. Nat \subseteq T
    <3> HIDE DEF T
    <3> QED BY <2>1, <2>2, SetInduction
  <2> QED BY <1>3, <2>3
<1>11. mixed \in [0..Limit -> S]
  BY <1>7, <1>10
<1> QED BY <1>8, <1>9, <1>11 DEF S, base

\* What is in a sequence, what is in its first n places, and that nothing is twice in it.
Elements(s) == {s[i] : i \in DOMAIN s}
Foremost(s, n) == {s[i] : i \in 1..n}
Once(s) == \A i, j \in DOMAIN s : s[i] = s[j] => i = j

\* An element more at the end.
LEMMA AppendOnce ==
  ASSUME NEW S, NEW s \in Seq(S), NEW x \in S
  PROVE  /\ Append(s, x) \in Seq(S) /\ Len(Append(s, x)) = Len(s) + 1
         /\ Elements(Append(s, x)) = Elements(s) \cup {x}
         /\ Once(s) /\ x \notin Elements(s) => Once(Append(s, x))
<1>1. PICK n \in Nat, t \in Seq(S) : n = Len(s) /\ t = Append(s, x)
  <2>1. Len(s) \in Nat /\ Append(s, x) \in Seq(S)
    OBVIOUS
  <2> QED BY <2>1
<1>2. /\ Len(t) = n + 1 /\ DOMAIN s = 1..n /\ DOMAIN t = 1..(n + 1) /\ t[n + 1] = x
      /\ \A i \in 1..n : t[i] = s[i]
  BY <1>1
<1>3. /\ \A i \in 1..(n + 1) : i \in 1..n \/ i = n + 1
      /\ \A i \in 1..n : i \in 1..(n + 1)
      /\ n + 1 \in 1..(n + 1)
  OBVIOUS
<1>4. Elements(t) = Elements(s) \cup {x}
  BY <1>2, <1>3 DEF Elements
<1>5. Once(s) /\ x \notin Elements(s) => Once(t)
  BY <1>2, <1>3 DEF Elements, Once
<1>6. t \in Seq(S) /\ Len(t) = Len(s) + 1
  BY <1>1, <1>2
<1>7. t = Append(s, x)
  BY <1>1
<1> HIDE <1>1
<1> QED BY <1>4, <1>5, <1>6, <1>7

\* One more of the foremost elements.
LEMMA OneMore ==
  ASSUME NEW S, NEW s \in Seq(S), NEW n \in Nat, n < Len(s)
  PROVE  /\ n + 1 \in 0..Len(s) /\ s[n + 1] \in S
         /\ Foremost(s, n + 1) = Foremost(s, n) \cup {s[n + 1]}
         /\ Foremost(s, n + 1) \subseteq Elements(s)
         /\ Once(s) => s[n + 1] \notin Foremost(s, n)
<1>1. PICK m \in Nat : m = Len(s) /\ DOMAIN s = 1..m
  OBVIOUS
<1>2. /\ \A i \in 1..(n + 1) : i \in 1..m /\ (i \in 1..n \/ i = n + 1)
      /\ \A i \in 1..n : i \in 1..(n + 1) /\ i # n + 1
      /\ n + 1 \in 1..(n + 1) /\ n + 1 \in 1..m /\ n + 1 \in 0..m
  BY <1>1
<1>3. Foremost(s, n + 1) = Foremost(s, n) \cup {s[n + 1]}
  BY <1>2 DEF Foremost
<1>4. Foremost(s, n + 1) \subseteq Elements(s)
  BY <1>1, <1>2 DEF Foremost, Elements
<1>5. Once(s) => s[n + 1] \notin Foremost(s, n)
  BY <1>1, <1>2 DEF Foremost, Once
<1>6. n + 1 \in 0..Len(s) /\ s[n + 1] \in S
  BY <1>1, <1>2
<1> QED BY <1>3, <1>4, <1>5, <1>6

\* One sequence after another.
LEMMA JoinOnce ==
  ASSUME NEW S, NEW s \in Seq(S), NEW t \in Seq(S)
  PROVE  /\ s \o t \in Seq(S) /\ Elements(s \o t) = Elements(s) \cup Elements(t)
         /\ Once(s) /\ Once(t) /\ Elements(s) \cap Elements(t) = {} => Once(s \o t)
<1>1. PICK m \in Nat, n \in Nat, r \in Seq(S) : m = Len(s) /\ n = Len(t) /\ r = s \o t
  <2>1. Len(s) \in Nat /\ Len(t) \in Nat /\ s \o t \in Seq(S)
    OBVIOUS
  <2> QED BY <2>1
<1>2. /\ DOMAIN s = 1..m /\ DOMAIN t = 1..n /\ DOMAIN r = 1..(m + n)
      /\ \A i \in 1..m : r[i] = s[i]
      /\ \A j \in 1..n : r[m + j] = t[j]
  BY <1>1
<1>3. ASSUME NEW i \in 1..(m + n), i \notin 1..m
      PROVE  \E j \in 1..n : i = m + j /\ r[i] = t[j]
  <2> PICK j : j = i - m
    OBVIOUS
  <2>1. j \in 1..n /\ i = m + j
    BY <1>3
  <2> QED BY <1>2, <2>1
<1>4. /\ \A i \in 1..m : i \in 1..(m + n)
      /\ \A j \in 1..n : m + j \in 1..(m + n)
  OBVIOUS
<1>5. Elements(r) = Elements(s) \cup Elements(t)
  <2>1. ASSUME NEW i \in 1..(m + n) PROVE r[i] \in Elements(s) \cup Elements(t)
    BY <1>2, <1>3 DEF Elements
  <2>2. ASSUME NEW i \in 1..m PROVE s[i] \in Elements(r)
    <3>1. i \in DOMAIN r /\ r[i] = s[i]
      BY <1>2, <1>4
    <3> QED BY <3>1 DEF Elements
  <2>3. ASSUME NEW j \in 1..n PROVE t[j] \in Elements(r)
    <3>1. m + j \in DOMAIN r /\ r[m + j] = t[j]
      BY <1>2, <1>4
    <3> QED BY <3>1 DEF Elements
  <2>4. Elements(r) \subseteq Elements(s) \cup Elements(t)
    BY <1>2, <2>1 DEF Elements
  <2>5. Elements(s) \subseteq Elements(r) /\ Elements(t) \subseteq Elements(r)
    BY <1>2, <2>2, <2>3 DEF Elements
  <2> QED BY <2>4, <2>5
<1>6. ASSUME Once(s), Once(t), Elements(s) \cap Elements(t) = {},
             NEW i \in 1..(m + n), NEW j \in 1..(m + n), r[i] = r[j]
      PROVE  i = j
  <2>1. CASE i \in 1..m /\ j \in 1..m
    BY <1>2, <1>6, <2>1 DEF Once
  <2>2. CASE i \notin 1..m /\ j \notin 1..m
    <3>1. PICK x \in 1..n : i = m + x /\ r[i] = t[x]
      BY <1>3, <2>2
    <3>2. PICK y \in 1..n : j = m + y /\ r[j] = t[y]
      BY <1>3, <2>2
    <3>3. x = y
      BY <1>2, <1>6, <3>1, <3>2 DEF Once
    <3> QED BY <3>1, <3>2, <3>3
  <2>3. CASE i \in 1..m /\ j \notin 1..m
    <3>1. PICK y \in 1..n : r[j] = t[y]
      BY <1>3, <2>3
    <3>2. r[i] \in Elements(s) /\ r[j] \in Elements(t)
      BY <1>2, <2>3, <3>1 DEF Elements
    <3> QED BY <1>6, <3>2
  <2>4. CASE i \notin 1..m /\ j \in 1..m
    <3>1. PICK y \in 1..n : r[i] = t[y]
      BY <1>3, <2>4
    <3>2. r[j] \in Elements(s) /\ r[i] \in Elements(t)
      BY <1>2, <2>4, <3>1 DEF Elements
    <3> QED BY <1>6, <3>2
  <2> QED BY <2>1, <2>2, <2>3, <2>4
<1>7. Once(s) /\ Once(t) /\ Elements(s) \cap Elements(t) = {} => Once(r)
  BY <1>2, <1>6 DEF Once
<1> QED BY <1>1, <1>5, <1>7

\* The shape of a page after k slots: what was taken from each pool, each row once, and
\* shorter than its slots only when both pools are at their end.
PageShape(social, discovery, m, k) ==
  /\ Len(m.page) = m.social + m.discovery /\ Len(m.page) <= k
  /\ Len(m.page) = k \/ (m.social = Len(social) /\ m.discovery = Len(discovery))
  /\ Elements(m.page) = Foremost(social, m.social) \cup Foremost(discovery, m.discovery)
  /\ Foremost(social, m.social) \subseteq Elements(social)
  /\ Foremost(discovery, m.discovery) \subseteq Elements(discovery)
  /\ Once(m.page)

\* No row is twice in the pools.
Disjoint(social, discovery) ==
  /\ Once(social) /\ Once(discovery) /\ Elements(social) \cap Elements(discovery) = {}

\* A slot more.
LEMMA ShapeKept ==
  ASSUME NEW social \in Seq(FeedRow), NEW discovery \in Seq(FeedRow),
         Disjoint(social, discovery), NEW m \in Mixed(social, discovery), NEW k \in Nat,
         PageShape(social, discovery, m, k)
  PROVE  PageShape(social, discovery, Pick(social, discovery, m, k + 1), k + 1)
<1>n. PICK n : n = Pick(social, discovery, m, k + 1)
  OBVIOUS
<1>1. PICK a \in Nat, b \in Nat, page \in Seq(FeedRow) :
        a = m.social /\ b = m.discovery /\ page = m.page
  BY DEF Mixed
<1>2. PICK c \in Nat, e \in Nat, l \in Nat :
        c = Len(social) /\ e = Len(discovery) /\ l = Len(page)
  OBVIOUS
<1>3. \/ b < e /\ n.discovery = b + 1 /\ n.social = a /\ n.page = Append(page, discovery[b + 1])
      \/ a < c /\ n.social = a + 1 /\ n.discovery = b /\ n.page = Append(page, social[a + 1])
      \/ n = m /\ a = c /\ b = e
  <2>1. k + 1 \in Nat
    OBVIOUS
  <2>2. Takes(social, discovery, m, n)
    BY <1>n, <2>1, SlotTakes
  <2> QED BY <1>1, <1>2, <2>2 DEF Takes
<1>4. /\ l = a + b /\ l <= k /\ (l = k \/ (a = c /\ b = e))
      /\ Elements(page) = Foremost(social, a) \cup Foremost(discovery, b)
      /\ Foremost(social, a) \subseteq Elements(social)
      /\ Foremost(discovery, b) \subseteq Elements(discovery)
      /\ Once(page)
  BY <1>1, <1>2 DEF PageShape
<1>5. Once(social) /\ Once(discovery) /\ Elements(social) \cap Elements(discovery) = {}
  BY DEF Disjoint
<1>6. CASE b < e /\ n.discovery = b + 1 /\ n.social = a /\ n.page = Append(page, discovery[b + 1])
  <2>x. PICK x : x = discovery[b + 1]
    OBVIOUS
  <2>1. /\ x \in FeedRow /\ Foremost(discovery, b + 1) = Foremost(discovery, b) \cup {x}
        /\ Foremost(discovery, b + 1) \subseteq Elements(discovery)
        /\ x \notin Foremost(discovery, b)
    BY <1>2, <1>5, <1>6, <2>x, OneMore
  <2>2. x \notin Elements(page)
    BY <1>4, <1>5, <2>1
  <2>3. /\ Len(n.page) = l + 1 /\ Elements(n.page) = Elements(page) \cup {x} /\ Once(n.page)
    <3> PICK new : new = Append(page, x)
      OBVIOUS
    <3>1. Len(new) = Len(page) + 1 /\ Elements(new) = Elements(page) \cup {x} /\ Once(new)
      BY <1>4, <2>1, <2>2, AppendOnce
    <3> QED BY <1>2, <1>6, <2>x, <3>1
  <2>4. l + 1 = a + (b + 1) /\ l + 1 = k + 1 /\ l + 1 <= k + 1
    BY <1>4, <1>6
  <2>5. Elements(n.page) = Foremost(social, a) \cup Foremost(discovery, b + 1)
    BY <1>4, <2>1, <2>3
  <2> QED BY <1>4, <1>6, <1>n, <2>1, <2>3, <2>4, <2>5 DEF PageShape
<1>7. CASE a < c /\ n.social = a + 1 /\ n.discovery = b /\ n.page = Append(page, social[a + 1])
  <2>x. PICK x : x = social[a + 1]
    OBVIOUS
  <2>1. /\ x \in FeedRow /\ Foremost(social, a + 1) = Foremost(social, a) \cup {x}
        /\ Foremost(social, a + 1) \subseteq Elements(social)
        /\ x \notin Foremost(social, a)
    BY <1>2, <1>5, <1>7, <2>x, OneMore
  <2>2. x \notin Elements(page)
    BY <1>4, <1>5, <2>1
  <2>3. /\ Len(n.page) = l + 1 /\ Elements(n.page) = Elements(page) \cup {x} /\ Once(n.page)
    <3> PICK new : new = Append(page, x)
      OBVIOUS
    <3>1. Len(new) = Len(page) + 1 /\ Elements(new) = Elements(page) \cup {x} /\ Once(new)
      BY <1>4, <2>1, <2>2, AppendOnce
    <3> QED BY <1>2, <1>7, <2>x, <3>1
  <2>4. l + 1 = (a + 1) + b /\ l + 1 = k + 1 /\ l + 1 <= k + 1
    BY <1>4, <1>7
  <2>5. Elements(n.page) = Foremost(social, a + 1) \cup Foremost(discovery, b)
    BY <1>4, <2>1, <2>3
  <2> QED BY <1>4, <1>7, <1>n, <2>1, <2>3, <2>4, <2>5 DEF PageShape
<1>8. CASE n = m /\ a = c /\ b = e
  <2>1. l <= k + 1
    BY <1>4
  <2> QED BY <1>n, <1>1, <1>2, <1>4, <1>8, <2>1 DEF PageShape
<1> QED BY <1>3, <1>6, <1>7, <1>8

\* A page of Limit slots.
LEMMA MixedPage ==
  ASSUME NEW social \in Seq(FeedRow), NEW discovery \in Seq(FeedRow),
         Disjoint(social, discovery)
  PROVE  /\ Mix(social, discovery) \in Mixed(social, discovery)
         /\ PageShape(social, discovery, Mix(social, discovery), Limit)
<1>1. PICK f \in [0..Limit -> Mixed(social, discovery)] :
        /\ f[0] = [social |-> 0, discovery |-> 0, page |-> <<>>]
        /\ \A n \in 1..Limit : f[n] = Pick(social, discovery, f[n - 1], n)
        /\ Mix(social, discovery) = f[Limit]
  BY MixSteps
<1>2. Limit \in Nat
  BY FeedAssumption
<1> DEFINE T == {k \in Nat : k <= Limit => PageShape(social, discovery, f[k], k)}
<1>3. 0 \in T
  <2>1. /\ DOMAIN <<>> = {} /\ Len(<<>>) = 0
        /\ \A s : Foremost(s, 0) = {}
    BY DEF Foremost
  <2>2. PageShape(social, discovery, f[0], 0)
    BY <1>1, <2>1 DEF PageShape, Elements, Once
  <2> QED BY <2>2
<1>4. ASSUME NEW k \in Nat, k \in T PROVE k + 1 \in T
  <2>1. CASE k + 1 <= Limit
    <3>1. k + 1 \in 1..Limit /\ k \in 0..Limit /\ k <= Limit /\ (k + 1) - 1 = k
      BY <1>2, <2>1
    <3>2. PageShape(social, discovery, f[k], k) /\ f[k] \in Mixed(social, discovery)
      BY <1>1, <1>4, <3>1
    <3>3. f[k + 1] = Pick(social, discovery, f[k], k + 1)
      BY <1>1, <3>1
    <3> QED BY <3>2, <3>3, ShapeKept
  <2>2. CASE ~(k + 1 <= Limit)
    BY <2>2
  <2> QED BY <2>1, <2>2
<1>5. Nat \subseteq T
  <2> HIDE DEF T
  <2> QED BY <1>3, <1>4, SetInduction
<1> QED BY <1>1, <1>2, <1>5

----
(* The feed: a walk through any number of posts, pages and changes in between. *)

FeedCursor == [at : Nat, id : Nat]

\* A post is at a cursor or before it, and the walk has come by.
Reached(cursor, p) ==
  cursor # NoCursor /\ (Precedes(p, cursor) \/ (p.at = cursor.at /\ p.id = cursor.id))

\* No two posts have the same id.
UniqueIn(posts) == \A p, q \in posts : p.id = q.id => p = q

\* The order by time and id is total.
LEMMA PrecedesIsTotal ==
  ASSUME NEW p, NEW q, NEW r, p.at \in Nat, p.id \in Nat, q.at \in Nat, q.id \in Nat,
         r.at \in Nat, r.id \in Nat
  PROVE  /\ ~Precedes(p, p)
         /\ Precedes(p, q) /\ Precedes(q, r) => Precedes(p, r)
         /\ ~(Precedes(p, q) /\ Precedes(q, p))
         /\ (p.at = q.at /\ p.id = q.id) \/ Precedes(p, q) \/ Precedes(q, p)
BY DEF Precedes

\* Rows have numbers, and their ids are not that of no cursor.
LEMMA PostNumbers == \A p \in FeedRow : p.at \in Nat /\ p.id \in Nat /\ p.id # 0
BY FeedAssumption DEF FeedRow

\* The rows of a pool: the first after the cursor.
LEMMA PoolRows ==
  ASSUME NEW pool \in SUBSET FeedRow, IsFiniteSet(pool), UniqueIn(pool), NEW cursor, NEW rows,
         rows = ListPool(pool, cursor)
  PROVE  /\ rows \in Seq(pool) /\ Len(rows) \in Nat /\ DOMAIN rows = 1..Len(rows)
         /\ \A p \in Elements(rows) : p \in pool /\ After(cursor, p)
         /\ \A i, j \in DOMAIN rows : i < j => Precedes(rows[i], rows[j])
         /\ Once(rows)
         /\ \A p \in pool : After(cursor, p) =>
              \/ p \in Elements(rows)
              \/ /\ Len(rows) = Limit + Slack
                 /\ \A i \in DOMAIN rows : Precedes(rows[i], p)
<1> DEFINE S == {p \in pool : After(cursor, p)}
           ahead == Ahead(S)
<1>1. IsFiniteSet(S)
  BY FS_Subset
<1>2. S \subseteq FeedRow /\ \A p, q \in S : p.id = q.id => p = q
  BY DEF UniqueIn
<1>3. Orders(ahead, S)
  <2>1. ahead \in [S -> SUBSET S] /\ \A p \in S : ahead[p] = {q \in S : Precedes(q, p)}
    <3> HIDE DEF S
    <3> QED BY DEF Ahead
  <2> HIDE DEF S, ahead
  <2>2. \A p \in S : p.at \in Nat /\ p.id \in Nat
    BY <1>2, PostNumbers
  <2>3. \A p \in S : p \notin ahead[p]
    BY <2>1, <2>2, PrecedesIsTotal
  <2>4. \A p, q \in S : p \in ahead[q] => ahead[p] \subseteq ahead[q]
    BY <2>1, <2>2, PrecedesIsTotal
  <2>5. \A p, q \in S : p = q \/ p \in ahead[q] \/ q \in ahead[p]
    BY <1>2, <2>1, <2>2, PrecedesIsTotal
  <2> QED BY <2>1, <2>3, <2>4, <2>5 DEF Orders
<1>n. PICK n \in Nat : n = Limit + Slack
  BY FeedAssumption
<1>4. rows = FirstOf(n, InOrder(S, ahead))
  BY <1>n DEF ListPool
<1>5. /\ \A p \in S : \A q \in ahead[p] : Precedes(q, p)
      /\ \A p \in S : p \in pool /\ After(cursor, p)
      /\ \A p \in pool : After(cursor, p) => p \in S
  BY DEF Ahead
<1> HIDE DEF S, ahead
<1>6. /\ rows \in Seq(S) /\ Len(rows) \in Nat /\ DOMAIN rows = 1..Len(rows)
      /\ \A i, j \in DOMAIN rows : i < j => rows[i] \in ahead[rows[j]]
      /\ \A p \in S : \/ \E i \in DOMAIN rows : rows[i] = p
                      \/ Len(rows) = n /\ \A i \in DOMAIN rows : rows[i] \in ahead[p]
      /\ \A i \in DOMAIN rows : rows[i] \in S
  <2>1. Firsts(rows, n, S, ahead)
    BY <1>1, <1>3, <1>4, FirstRows
  <2> QED BY <2>1 DEF Firsts
<1>7. \A i \in DOMAIN rows : /\ i \in Nat /\ rows[i] \in S /\ rows[i].at \in Nat
                             /\ rows[i].id \in Nat
  <2>1. \A p \in S : p.at \in Nat /\ p.id \in Nat
    BY <1>2, PostNumbers
  <2>2. \A i \in 1..Len(rows) : i \in Nat
    OBVIOUS
  <2>3. \A i \in DOMAIN rows : i \in Nat /\ rows[i] \in S
    BY <1>6, <2>2
  <2> QED BY <2>1, <2>3
<1>8. \A i, j \in DOMAIN rows : i < j => Precedes(rows[i], rows[j])
  BY <1>5, <1>6, <1>7
<1>9. Once(rows)
  <2>1. ASSUME NEW i \in DOMAIN rows, NEW j \in DOMAIN rows, rows[i] = rows[j]
        PROVE  i = j
    <3>1. i \in Nat /\ j \in Nat /\ rows[i].at \in Nat /\ rows[i].id \in Nat
      BY <1>7
    <3>2. ~Precedes(rows[i], rows[j]) /\ ~Precedes(rows[j], rows[i])
      BY <2>1, <3>1, PrecedesIsTotal
    <3>3. ~(i < j) /\ ~(j < i)
      BY <1>8, <3>2
    <3> QED BY <3>1, <3>3
  <2> QED BY <2>1 DEF Once
<1>10. \A p \in Elements(rows) : p \in pool /\ After(cursor, p)
  BY <1>5, <1>7 DEF Elements
<1>11. rows \in Seq(pool)
  <2>1. S \subseteq pool
    BY <1>5
  <2>2. rows \in Seq(S)
    BY <1>6
  <2> QED BY <2>1, <2>2
<1>12. ASSUME NEW p \in pool, After(cursor, p)
       PROVE  \/ p \in Elements(rows)
              \/ Len(rows) = n /\ \A i \in DOMAIN rows : Precedes(rows[i], p)
  BY <1>5, <1>6, <1>12 DEF Elements
<1> QED BY <1>n, <1>6, <1>8, <1>9, <1>10, <1>11, <1>12

\* A walk takes the first rows of a pool: its cursor has come by these and by what it had
\* come by before, and everything else is still after it.
LEMMA PoolAdvances ==
  ASSUME NEW pool \in SUBSET FeedRow, IsFiniteSet(pool), UniqueIn(pool),
         NEW cursor \in FeedCursor, NEW rows, rows = ListPool(pool, cursor),
         NEW t \in Nat, t <= Len(rows), NEW new, new = Cursor(rows, t, cursor)
  PROVE  /\ new \in FeedCursor
         /\ \A p \in Foremost(rows, t) : p \in pool /\ Reached(new, p)
         /\ \A p \in FeedRow : Reached(cursor, p) =>
              Reached(new, p) /\ p \notin Foremost(rows, t)
         /\ \A p \in pool : After(cursor, p) /\ p \notin Foremost(rows, t) =>
              After(new, p) /\ (t = Len(rows) => Len(rows) = Limit + Slack)
<1>r. /\ rows \in Seq(pool) /\ Len(rows) \in Nat /\ DOMAIN rows = 1..Len(rows)
      /\ \A p \in Elements(rows) : p \in pool /\ After(cursor, p)
      /\ \A i, j \in DOMAIN rows : i < j => Precedes(rows[i], rows[j])
      /\ \A p \in pool : After(cursor, p) =>
           \/ p \in Elements(rows)
           \/ /\ Len(rows) = Limit + Slack
              /\ \A i \in DOMAIN rows : Precedes(rows[i], p)
  BY PoolRows
<1>l. PICK l \in Nat : l = Len(rows)
  BY <1>r
<1>1. /\ t <= l /\ \A i \in 1..t : i \in 1..l /\ (i < t \/ i = t)
      /\ \A i \in 1..l : i \in 1..t \/ t < l
      /\ \A i \in 1..l : i \in 1..t \/ t < i
      /\ t # 0 => t \in 1..t /\ t \in 1..l
      /\ t = 0 => 1..t = {}
  BY <1>l
<1>2. /\ \A i \in 1..l : rows[i] \in pool /\ After(cursor, rows[i]) /\ rows[i] \in FeedRow
      /\ \A i, j \in 1..l : i < j => Precedes(rows[i], rows[j])
      /\ \A p \in pool : After(cursor, p) =>
           \/ \E i \in 1..l : p = rows[i]
           \/ /\ l = Limit + Slack
              /\ \A i \in 1..l : Precedes(rows[i], p)
  BY <1>l, <1>r DEF Elements
<1>3. CASE t = 0
  <2>1. new = cursor /\ Foremost(rows, t) = {}
    BY <1>1, <1>3 DEF Cursor, Foremost
  <2>2. ASSUME t = l, NEW p \in pool, After(cursor, p)
        PROVE  l = Limit + Slack
    <3>1. 1..l = {}
      BY <1>3, <2>2
    <3> QED BY <1>2, <2>2, <3>1
  <2> QED BY <1>l, <2>1, <2>2
<1>4. CASE t # 0
  <2>1. PICK last \in FeedRow : last = rows[t] /\ After(cursor, last)
    BY <1>1, <1>2, <1>4
  <2>2. /\ new = [at |-> last.at, id |-> last.id] /\ new # NoCursor /\ new \in FeedCursor
        /\ new.at = last.at /\ new.id = last.id /\ new.at \in Nat /\ new.id \in Nat
    BY <1>4, <2>1, PostNumbers DEF Cursor, NoCursor, FeedCursor
  <2>3. /\ \A p : Precedes(p, new) <=> Precedes(p, last)
        /\ \A p : Precedes(new, p) <=> Precedes(last, p)
    BY <2>2 DEF Precedes
  <2>4. ASSUME NEW i \in 1..t
        PROVE  rows[i] \in pool /\ Reached(new, rows[i])
    <3>1. i = t \/ Precedes(rows[i], last)
      BY <1>1, <1>2, <1>4, <2>1
    <3> QED BY <1>1, <1>2, <2>1, <2>2, <2>3, <3>1 DEF Reached
  <2>5. ASSUME NEW p \in FeedRow, Reached(cursor, p)
        PROVE  Reached(new, p) /\ \A i \in 1..t : p # rows[i]
    <3>1. /\ cursor.at \in Nat /\ cursor.id \in Nat /\ p.at \in Nat /\ p.id \in Nat
          /\ last.at \in Nat /\ last.id \in Nat /\ cursor # NoCursor
          /\ Precedes(p, cursor) \/ (p.at = cursor.at /\ p.id = cursor.id)
      BY <2>5, PostNumbers DEF FeedCursor, Reached
    <3>2. ASSUME NEW q, After(cursor, q), q.at \in Nat, q.id \in Nat
          PROVE  Precedes(p, q)
      BY <3>1, <3>2 DEF After, Precedes
    <3>3. Precedes(p, last)
      BY <2>1, <3>1, <3>2
    <3>4. ASSUME NEW i \in 1..t PROVE p # rows[i]
      <4>1. Precedes(p, rows[i])
        BY <1>1, <1>2, <3>2, PostNumbers
      <4> QED BY <3>1, <4>1, PrecedesIsTotal
    <3> QED BY <2>2, <2>3, <3>3, <3>4 DEF Reached
  <2>6. ASSUME NEW p \in pool, After(cursor, p), \A i \in 1..t : p # rows[i]
        PROVE  After(new, p) /\ (t = l => l = Limit + Slack)
    <3>1. CASE \E i \in 1..l : p = rows[i]
      <4>1. PICK i \in 1..l : p = rows[i]
        BY <3>1
      <4>2. t < i /\ t < l
        BY <1>1, <2>6, <4>1
      <4>3. Precedes(last, p)
        BY <1>1, <1>2, <1>4, <2>1, <4>1, <4>2
      <4> QED BY <2>3, <4>2, <4>3 DEF After
    <3>2. CASE l = Limit + Slack /\ \A i \in 1..l : Precedes(rows[i], p)
      <4>1. Precedes(last, p)
        BY <1>1, <1>4, <2>1, <3>2
      <4> QED BY <2>3, <3>2, <4>1 DEF After
    <3> QED BY <1>2, <2>6, <3>1, <3>2
  <2> QED BY <1>l, <2>2, <2>4, <2>5, <2>6 DEF Foremost
<1> QED BY <1>3, <1>4

----
FeedWalk == [on : BOOLEAN, ended : BOOLEAN, social : FeedCursor, discovery : FeedCursor,
             shown : Seq(FeedRow), had : SUBSET FeedRow, fresh : SUBSET NewIds,
             moved : SUBSET FeedAuthors, changes : Nat]
CursorOf(w, pool) == IF pool = "social" THEN w.social ELSE w.discovery

\* Types; before the walk nothing has happened.
FeedTyped ==
  /\ wall \subseteq FeedPost /\ IsFiniteSet(wall) /\ walk \in FeedWalk
  /\ ~walk.on => walk = NoWalk
\* Ids are used once, and a post keeps its time.
IdsAreUnique ==
  /\ UniqueIn(wall)
  /\ \A p, q \in wall \cup Elements(walk.shown) : p.id = q.id => p.at = q.at
  /\ \A p \in wall \cup Elements(walk.shown) : p.id \notin walk.fresh
\* What was shown, once, is where the cursor of its pool has come by.  Unless its author has
\* moved it is still in that pool, and what was there at the start and was not shown is still
\* to come.
StillInPool(p) == AuthorOf[p.id] \notin walk.moved => (p.pool = "social" <=> FromCircle(p.id))
IsToCome(p) == ~walk.ended /\ p \in FeedRows /\ Visible(p) /\ After(CursorOf(walk, p.pool), p)
WalkIsKept ==
  /\ Once(walk.shown)
  /\ \A p \in Elements(walk.shown) :
       Visible(p) /\ Reached(CursorOf(walk, p.pool), p) /\ StillInPool(p)
  /\ \A p \in walk.had \ Elements(walk.shown) : AuthorOf[p.id] \notin walk.moved => IsToCome(p)

FeedInv == FeedTyped /\ IdsAreUnique /\ WalkIsKept

\* A row is its post, in the pool of the moment.
LEMMA RowsOfPosts ==
  ASSUME wall \subseteq FeedPost, IsFiniteSet(wall)
  PROVE  /\ FeedRows \subseteq FeedRow /\ IsFiniteSet(FeedRows)
         /\ \A p \in FeedRows : p.pool = "social" <=> FromCircle(p.id)
         /\ \A p \in FeedRows : \E x \in wall : x.id = p.id /\ x.at = p.at
         /\ UniqueIn(wall) => UniqueIn(FeedRows)
<1>1. ASSUME NEW x \in wall
      PROVE  /\ FeedRowOf(x) \in FeedRow /\ FeedRowOf(x).id = x.id /\ FeedRowOf(x).at = x.at
             /\ FeedRowOf(x).pool = "social" <=> FromCircle(x.id)
  <2>1. x \in FeedPost
    OBVIOUS
  <2>2. PoolOf(x) \in Pools /\ (PoolOf(x) = "social" <=> FromCircle(x.id))
    BY DEF PoolOf, Pools
  <2> QED BY <2>1, <2>2 DEF FeedRowOf, FeedRow, FeedPost
<1>2. \A p \in FeedRows : \E x \in wall : p = FeedRowOf(x)
  BY DEF FeedRows
<1>3. IsFiniteSet(FeedRows)
  <2>1. PICK f : f = [x \in wall |-> FeedRowOf(x)]
    OBVIOUS
  <2>2. f \in Surjection(wall, FeedRows)
    <3>1. f \in [wall -> FeedRows]
      BY <2>1 DEF FeedRows
    <3>2. \A p \in FeedRows : \E x \in wall : f[x] = p
      BY <1>2, <2>1
    <3> QED BY <3>1, <3>2 DEF Surjection
  <2> QED BY <2>2, FS_Surjection
<1>4. ASSUME UniqueIn(wall) PROVE UniqueIn(FeedRows)
  <2> SUFFICES ASSUME NEW p \in FeedRows, NEW q \in FeedRows, p.id = q.id PROVE p = q
    BY DEF UniqueIn
  <2>1. PICK x \in wall : p = FeedRowOf(x)
    BY <1>2
  <2>2. PICK y \in wall : q = FeedRowOf(y)
    BY <1>2
  <2>3. x = y
    BY <1>1, <1>4, <2>1, <2>2 DEF UniqueIn
  <2> QED BY <2>1, <2>2, <2>3
<1> QED BY <1>1, <1>2, <1>3, <1>4

\* The rows stay, but for those of posts that came or went and of authors who moved.
LEMMA PoolsStay ==
  ASSUME NEW x \in wall, x \in wall', FromCircle(x.id)' = FromCircle(x.id)
  PROVE  FeedRowOf(x) \in FeedRows'
<1>1. FeedRowOf(x)' = FeedRowOf(x)
  BY DEF FeedRowOf, PoolOf
<1> QED BY <1>1 DEF FeedRows

\* Before the walk.
LEMMA FeedStart == FeedInit => FeedInv
<1> SUFFICES ASSUME FeedInit PROVE FeedInv
  OBVIOUS
<1>1. wall = {} /\ walk = NoWalk /\ IsFiniteSet(wall)
  BY FS_EmptySet DEF FeedInit
<1>2. <<>> \in Seq(FeedRow) /\ Elements(<<>>) = {} /\ Once(<<>>)
  BY DEF Elements, Once
<1>3. NoCursor \in FeedCursor
  BY DEF NoCursor, FeedCursor
<1>4. walk \in FeedWalk /\ walk.shown = <<>> /\ walk.had = {}
  BY <1>1, <1>2, <1>3 DEF NoWalk, FeedWalk
<1> QED BY <1>1, <1>2, <1>4 DEF FeedInv, FeedTyped, IdsAreUnique, WalkIsKept, UniqueIn

\* A page more.
LEMMA ListFeedKeeps == FeedInv /\ ListFeed => FeedInv'
<1> SUFFICES ASSUME FeedInv, ListFeed PROVE FeedInv'
  OBVIOUS
<1>1. /\ wall \subseteq FeedPost /\ IsFiniteSet(wall) /\ walk \in FeedWalk
      /\ ~walk.on => walk = NoWalk
  BY DEF FeedInv, FeedTyped
<1>r. /\ FeedRows \subseteq FeedRow /\ IsFiniteSet(FeedRows) /\ UniqueIn(FeedRows)
      /\ \A p \in FeedRows : p.pool = "social" <=> FromCircle(p.id)
      /\ \A p \in FeedRows : \E x \in wall : x.id = p.id /\ x.at = p.at
  BY <1>1, RowsOfPosts DEF FeedInv, IdsAreUnique
<1>i. IdsAreUnique /\ WalkIsKept
  BY DEF FeedInv
<1>2. PICK poolS, poolD : /\ poolS = {p \in FeedRows : p.pool = "social"}
                          /\ poolD = {p \in FeedRows : p.pool = "discovery"}
  OBVIOUS
<1>3. PICK social, discovery, m : /\ social = ListPool(poolS, walk.social)
                                  /\ discovery = ListPool(poolD, walk.discovery)
                                  /\ m = Mix(social, discovery)
  OBVIOUS
<1>4. PICK ended, cs, cd, shown, had :
        /\ ended = ~(/\ Len(m.page) >= Limit
                     /\ \/ m.social < Len(social) \/ m.discovery < Len(discovery)
                        \/ Len(social) = Limit + Slack \/ Len(discovery) = Limit + Slack)
        /\ cs = Cursor(social, m.social, walk.social)
        /\ cd = Cursor(discovery, m.discovery, walk.discovery)
        /\ shown = walk.shown \o m.page
        /\ had = (IF walk.on THEN walk.had ELSE {p \in FeedRows : Visible(p)})
  OBVIOUS
<1>5. /\ ~walk.ended /\ wall' = wall /\ peerIds' = peerIds
      /\ walk' = [walk EXCEPT !.on = TRUE, !.ended = ended, !.social = cs, !.discovery = cd,
                              !.shown = shown, !.had = had]
  BY <1>2, <1>3, <1>4 DEF ListFeed, SocialRows, DiscoveryRows
<1>6. /\ walk.social \in FeedCursor /\ walk.discovery \in FeedCursor
      /\ walk.shown \in Seq(FeedRow) /\ walk.had \subseteq FeedRow
      /\ walk'.on = TRUE /\ walk'.ended = ended /\ walk'.social = cs /\ walk'.discovery = cd
      /\ walk'.shown = shown /\ walk'.had = had /\ walk'.fresh = walk.fresh
      /\ walk'.moved = walk.moved
  BY <1>1, <1>5 DEF FeedWalk
<1>s. FeedRows' = FeedRows /\ \A id : FromCircle(id)' = FromCircle(id)
  BY <1>5 DEF FeedRows, FeedRowOf, PoolOf, FromCircle
\* The pools, and what is read of them.
<1>7. /\ poolS \in SUBSET FeedRow /\ IsFiniteSet(poolS) /\ UniqueIn(poolS)
      /\ poolD \in SUBSET FeedRow /\ IsFiniteSet(poolD) /\ UniqueIn(poolD)
      /\ poolS \cap poolD = {} /\ poolS \subseteq FeedRows /\ poolD \subseteq FeedRows
  <2>1. poolS \subseteq FeedRows /\ poolD \subseteq FeedRows /\ poolS \cap poolD = {}
    BY <1>2
  <2>2. IsFiniteSet(poolS) /\ IsFiniteSet(poolD)
    BY <1>r, <2>1, FS_Subset
  <2>3. UniqueIn(poolS) /\ UniqueIn(poolD)
    BY <1>r, <2>1 DEF UniqueIn
  <2> QED BY <1>r, <2>1, <2>2, <2>3
<1>8. /\ social \in Seq(poolS) /\ Once(social) /\ Elements(social) \subseteq poolS
      /\ discovery \in Seq(poolD) /\ Once(discovery) /\ Elements(discovery) \subseteq poolD
      /\ Len(social) \in Nat /\ Len(discovery) \in Nat
  <2>1. social \in Seq(poolS) /\ Once(social) /\ Len(social) \in Nat
        /\ \A p \in Elements(social) : p \in poolS
    BY <1>3, <1>7, PoolRows
  <2>2. discovery \in Seq(poolD) /\ Once(discovery) /\ Len(discovery) \in Nat
        /\ \A p \in Elements(discovery) : p \in poolD
    BY <1>3, <1>7, PoolRows
  <2> QED BY <2>1, <2>2
<1>9. social \in Seq(FeedRow) /\ discovery \in Seq(FeedRow) /\ Disjoint(social, discovery)
  <2>1. social \in Seq(FeedRow)
    BY <1>7, <1>8
  <2>2. discovery \in Seq(FeedRow)
    BY <1>7, <1>8
  <2> QED BY <1>7, <1>8, <2>1, <2>2 DEF Disjoint
<1>10. m \in Mixed(social, discovery) /\ PageShape(social, discovery, m, Limit)
  BY <1>3, <1>9, MixedPage
<1>11. PICK s \in Nat, d \in Nat, page \in Seq(FeedRow) :
         /\ s = m.social /\ d = m.discovery /\ page = m.page
         /\ s <= Len(social) /\ d <= Len(discovery)
  <2>1. /\ m.social \in 0..Len(social) /\ m.discovery \in 0..Len(discovery)
        /\ m.page \in Seq(FeedRow)
    BY <1>10 DEF Mixed
  <2>2. /\ \A x \in 0..Len(social) : x \in Nat /\ x <= Len(social)
        /\ \A x \in 0..Len(discovery) : x \in Nat /\ x <= Len(discovery)
    BY <1>8
  <2> QED BY <2>1, <2>2
<1>12. PICK takenS, takenD : takenS = Foremost(social, s) /\ takenD = Foremost(discovery, d)
  OBVIOUS
<1>13. /\ Elements(page) = takenS \cup takenD /\ Once(page)
       /\ takenS \subseteq poolS /\ takenD \subseteq poolD
  BY <1>8, <1>10, <1>11, <1>12 DEF PageShape
\* The cursors.
<1>14. /\ cs \in FeedCursor
       /\ \A p \in takenS : Reached(cs, p)
       /\ \A p \in FeedRow : Reached(walk.social, p) => Reached(cs, p) /\ p \notin takenS
       /\ \A p \in poolS : After(walk.social, p) /\ p \notin takenS =>
            After(cs, p) /\ (s = Len(social) => Len(social) = Limit + Slack)
  BY <1>3, <1>4, <1>6, <1>7, <1>11, <1>12, PoolAdvances
<1>15. /\ cd \in FeedCursor
       /\ \A p \in takenD : Reached(cd, p)
       /\ \A p \in FeedRow : Reached(walk.discovery, p) => Reached(cd, p) /\ p \notin takenD
       /\ \A p \in poolD : After(walk.discovery, p) /\ p \notin takenD =>
            After(cd, p) /\ (d = Len(discovery) => Len(discovery) = Limit + Slack)
  BY <1>3, <1>4, <1>6, <1>7, <1>11, <1>12, PoolAdvances
<1>16. ended => /\ s = Len(social) /\ d = Len(discovery)
                /\ Len(social) # Limit + Slack /\ Len(discovery) # Limit + Slack
  <2>1. PICK l \in Nat, a \in Nat, b \in Nat, limit \in Nat, slack \in Nat :
          /\ l = Len(page) /\ a = Len(social) /\ b = Len(discovery) /\ limit = Limit
          /\ slack = Slack /\ slack > 0
    <3>1. Len(page) \in Nat
      OBVIOUS
    <3> QED BY <1>8, <3>1, FeedAssumption
  <2>2. ended = ~(l >= limit /\ (s < a \/ d < b \/ a = limit + slack \/ b = limit + slack))
    BY <1>4, <1>11, <2>1
  <2>3. l = s + d /\ l <= limit /\ (l = limit \/ (s = a /\ d = b)) /\ s <= a /\ d <= b
    BY <1>10, <1>11, <2>1 DEF PageShape
  <2>4. ended => ~(l >= limit /\ (s < a \/ d < b \/ a = limit + slack \/ b = limit + slack))
    BY <2>2
  <2>5. ASSUME ~(l >= limit /\ (s < a \/ d < b \/ a = limit + slack \/ b = limit + slack))
        PROVE  s = a /\ d = b /\ a # limit + slack /\ b # limit + slack
    <3>1. slack > 0
      BY <2>1
    <3> QED BY <2>3, <2>5, <3>1
  <2> QED BY <2>1, <2>4, <2>5
\* What was shown before is not in the page.
<1>17. PICK old \in Seq(FeedRow) : old = walk.shown
  BY <1>6
<1>18. /\ Once(old) /\ Elements(old) \subseteq FeedRow
       /\ \A p \in Elements(old) :
            Visible(p) /\ Reached(CursorOf(walk, p.pool), p) /\ StillInPool(p)
       /\ \A p \in walk.had \ Elements(old) : AuthorOf[p.id] \notin walk.moved => IsToCome(p)
  <2>1. \A i \in DOMAIN old : old[i] \in FeedRow
    OBVIOUS
  <2>2. Elements(old) \subseteq FeedRow
    BY <2>1 DEF Elements
  <2> QED BY <1>i, <1>17, <2>2 DEF WalkIsKept
<1>19. \A p \in Elements(old) :
         p \notin takenS /\ p \notin takenD /\ Reached(CursorOf(walk', p.pool), p)
  <2>1. ASSUME NEW p \in Elements(old)
        PROVE  p \notin takenS /\ p \notin takenD /\ Reached(CursorOf(walk', p.pool), p)
    <3>1. p \in FeedRow /\ Visible(p) /\ Reached(CursorOf(walk, p.pool), p)
      BY <1>18
    <3>2. p.pool = "social" \/ p.pool = "discovery"
      BY <3>1 DEF FeedRow, Pools, Visible
    <3>3. \A q \in poolS : q.pool = "social"
      BY <1>2
    <3>4. \A q \in poolD : q.pool = "discovery"
      BY <1>2
    <3>5. CASE p.pool = "social"
      <4>1. Reached(cs, p) /\ p \notin takenS
        BY <1>14, <3>1, <3>5 DEF CursorOf
      <4> QED BY <1>6, <1>13, <3>4, <3>5, <4>1 DEF CursorOf
    <3>6. CASE p.pool = "discovery"
      <4>1. Reached(cd, p) /\ p \notin takenD
        BY <1>15, <3>1, <3>6 DEF CursorOf
      <4> QED BY <1>6, <1>13, <3>3, <3>6, <4>1 DEF CursorOf
    <3> QED BY <3>2, <3>5, <3>6
  <2> QED BY <2>1
<1>20. /\ shown \in Seq(FeedRow) /\ Elements(shown) = Elements(old) \cup takenS \cup takenD
       /\ Once(shown)
  <2>1. Elements(old) \cap Elements(page) = {}
    BY <1>13, <1>19
  <2>2. shown = old \o page
    BY <1>4, <1>11, <1>17
  <2>3. /\ old \o page \in Seq(FeedRow)
        /\ Elements(old \o page) = Elements(old) \cup Elements(page)
        /\ Once(old \o page)
    BY <1>13, <1>18, <2>1, JoinOnce
  <2> QED BY <1>13, <2>2, <2>3
<1>21. FeedTyped'
  <2>1. had \in SUBSET FeedRow /\ ended \in BOOLEAN
    BY <1>r, <1>4, <1>6
  <2>2. walk' \in FeedWalk
    BY <1>1, <1>5, <1>14, <1>15, <1>20, <2>1 DEF FeedWalk
  <2> QED BY <1>1, <1>5, <1>6, <2>2 DEF FeedTyped
<1>22. IdsAreUnique'
  <2>1. ASSUME NEW p \in wall' \cup Elements(walk'.shown)
        PROVE  \E x \in wall \cup Elements(walk.shown) : x.id = p.id /\ x.at = p.at
    <3>1. p \in wall \cup Elements(walk.shown) \/ p \in FeedRows
      BY <1>5, <1>6, <1>7, <1>13, <1>17, <1>20
    <3> QED BY <1>r, <3>1
  <2>2. ASSUME NEW p \in wall' \cup Elements(walk'.shown),
               NEW q \in wall' \cup Elements(walk'.shown), p.id = q.id
        PROVE  p.at = q.at
    <3>1. PICK x \in wall \cup Elements(walk.shown) : x.id = p.id /\ x.at = p.at
      BY <2>1
    <3>2. PICK y \in wall \cup Elements(walk.shown) : y.id = q.id /\ y.at = q.at
      BY <2>1
    <3> QED BY <1>i, <2>2, <3>1, <3>2 DEF IdsAreUnique
  <2>3. \A p \in wall' \cup Elements(walk'.shown) : p.id \notin walk'.fresh
    BY <1>6, <1>i, <2>1 DEF IdsAreUnique
  <2>4. UniqueIn(wall')
    BY <1>5, <1>i DEF IdsAreUnique
  <2> QED BY <2>2, <2>3, <2>4 DEF IdsAreUnique
<1>22a. \A p \in Elements(shown) : StillInPool(p)'
  <2>1. \A p \in takenS \cup takenD : p \in FeedRows
    BY <1>7, <1>13
  <2>2. \A p : StillInPool(p)' = StillInPool(p)
    BY <1>6, <1>s DEF StillInPool
  <2> QED BY <1>r, <1>18, <1>20, <2>1, <2>2 DEF StillInPool
<1>23. \A p \in Elements(shown) : Visible(p) /\ Reached(CursorOf(walk', p.pool), p)
  <2>1. \A p \in takenS : Visible(p) /\ Reached(CursorOf(walk', p.pool), p)
    BY <1>2, <1>6, <1>13, <1>14 DEF CursorOf, Visible
  <2>2. \A p \in takenD : Visible(p) /\ Reached(CursorOf(walk', p.pool), p)
    BY <1>2, <1>6, <1>13, <1>15 DEF CursorOf, Visible
  <2> QED BY <1>18, <1>19, <1>20, <2>1, <2>2
<1>24. ASSUME NEW p \in had, p \notin Elements(shown), AuthorOf[p.id] \notin walk.moved
       PROVE  ~ended /\ p \in FeedRows /\ Visible(p) /\ After(CursorOf(walk', p.pool), p)
  <2>1. p \in FeedRows /\ Visible(p) /\ After(CursorOf(walk, p.pool), p)
    <3>1. CASE walk.on
      BY <1>4, <1>18, <1>20, <1>24, <3>1 DEF IsToCome
    <3>2. CASE ~walk.on
      <4>1. walk.social = NoCursor /\ walk.discovery = NoCursor
        BY <1>1, <3>2 DEF NoWalk
      <4> QED BY <1>4, <1>24, <3>2, <4>1 DEF After, CursorOf
    <3> QED BY <3>1, <3>2
  <2>2. p.pool = "social" \/ p.pool = "discovery"
    BY <1>r, <2>1 DEF FeedRow, Pools, Visible
  <2>3. CASE p.pool = "social"
    <3>1. p \in poolS /\ p \notin takenS /\ After(walk.social, p)
      BY <1>2, <1>20, <1>24, <2>1, <2>3 DEF CursorOf
    <3>2. After(cs, p) /\ (s = Len(social) => Len(social) = Limit + Slack)
      BY <1>14, <3>1
    <3> QED BY <1>6, <1>16, <2>1, <2>3, <3>2 DEF CursorOf
  <2>4. CASE p.pool = "discovery"
    <3>1. p \in poolD /\ p \notin takenD /\ After(walk.discovery, p)
      BY <1>2, <1>20, <1>24, <2>1, <2>4 DEF CursorOf
    <3>2. After(cd, p) /\ (d = Len(discovery) => Len(discovery) = Limit + Slack)
      BY <1>15, <3>1
    <3> QED BY <1>6, <1>16, <2>1, <2>4, <3>2 DEF CursorOf
  <2> QED BY <2>2, <2>3, <2>4
<1>25. WalkIsKept'
  <2>1. \A p \in had \ Elements(shown) : AuthorOf[p.id] \notin walk.moved => IsToCome(p)'
    BY <1>6, <1>s, <1>24 DEF IsToCome
  <2> QED BY <1>6, <1>20, <1>22a, <1>23, <2>1 DEF WalkIsKept
<1> QED BY <1>21, <1>22, <1>25 DEF FeedInv

\* Posts before the walk.
LEMMA PublishPostsKeeps == FeedInv /\ PublishPosts => FeedInv'
<1> SUFFICES ASSUME FeedInv, PublishPosts PROVE FeedInv'
  OBVIOUS
<1>1. /\ walk = NoWalk /\ walk' = walk /\ walk \in FeedWalk
  BY DEF FeedInv, FeedTyped, PublishPosts
<1>2. PICK at \in [PostIds \ NewIds -> Times],
           to \in [PostIds \ NewIds -> {"public", "connections"}] :
        wall' = {[id |-> i, at |-> at[i], to |-> to[i]] : i \in PostIds \ NewIds}
  BY DEF PublishPosts
<1>3. wall' \subseteq FeedPost
  BY <1>2 DEF FeedPost
<1>4. IsFiniteSet(wall')
  <2> DEFINE ids == PostIds \ NewIds
             post == [i \in ids |-> [id |-> i, at |-> at[i], to |-> to[i]]]
  <2>1. IsFiniteSet(ids)
    BY FS_Subset, FeedAssumption
  <2>2. post \in Surjection(ids, wall')
    BY <1>2 DEF Surjection
  <2> QED BY <2>1, <2>2, FS_Surjection
<1>5. /\ walk.on = FALSE /\ walk.shown = <<>> /\ walk.had = {} /\ walk.fresh = NewIds
      /\ Elements(<<>>) = {} /\ Once(<<>>)
  BY <1>1 DEF NoWalk, Elements, Once
<1>6. UniqueIn(wall') /\ \A p \in wall' : p.id \notin NewIds
  BY <1>2 DEF UniqueIn
<1>7. FeedTyped'
  BY <1>1, <1>3, <1>4, <1>5 DEF FeedTyped
<1>8. IdsAreUnique'
  <2>1. wall' \cup Elements(walk'.shown) = wall'
    BY <1>1, <1>5
  <2> QED BY <1>1, <1>5, <1>6, <2>1 DEF IdsAreUnique, UniqueIn
<1>9. WalkIsKept'
  BY <1>1, <1>5 DEF WalkIsKept
<1> QED BY <1>7, <1>8, <1>9 DEF FeedInv

\* A change between two pages keeps what the walk has come by, if it leaves alone where authors
\* who have not moved belong, and the rows that are still to come.
LEMMA ChangeKeeps ==
  ASSUME WalkIsKept, walk \in FeedWalk, walk' \in FeedWalk,
         walk'.shown = walk.shown, walk'.ended = walk.ended, walk'.social = walk.social,
         walk'.discovery = walk.discovery, walk.moved \subseteq walk'.moved,
         walk'.had \subseteq walk.had,
         \A id \in PostIds : AuthorOf[id] \notin walk'.moved => FromCircle(id)' = FromCircle(id),
         \A p \in walk'.had \cap FeedRows : AuthorOf[p.id] \notin walk'.moved => p \in FeedRows'
  PROVE  WalkIsKept'
<1>1. \A pool : CursorOf(walk', pool) = CursorOf(walk, pool)
  BY DEF CursorOf
<1>2. \A p \in Elements(walk.shown) : p.id \in PostIds
  <2>1. \A i \in DOMAIN walk.shown : walk.shown[i] \in FeedRow
    BY DEF FeedWalk
  <2> QED BY <2>1 DEF Elements, FeedRow
<1>3. ASSUME NEW p \in Elements(walk'.shown)
      PROVE  Visible(p) /\ Reached(CursorOf(walk', p.pool), p) /\ StillInPool(p)'
  <2>1. Visible(p) /\ Reached(CursorOf(walk, p.pool), p) /\ StillInPool(p)
    BY DEF WalkIsKept
  <2>2. StillInPool(p)'
    BY <1>2, <2>1 DEF StillInPool
  <2> QED BY <1>1, <2>1, <2>2
<1>4. ASSUME NEW p \in walk'.had \ Elements(walk'.shown), AuthorOf[p.id] \notin walk'.moved
      PROVE  IsToCome(p)'
  <2>1. IsToCome(p)
    BY <1>4 DEF WalkIsKept
  <2>2. p \in FeedRows'
    BY <1>4, <2>1 DEF IsToCome
  <2> QED BY <1>1, <2>1, <2>2 DEF IsToCome
<1> QED BY <1>3, <1>4 DEF WalkIsKept

\* A post deleted between two pages.
LEMMA RemovePostKeeps == FeedInv /\ RemovePost => FeedInv'
<1> SUFFICES ASSUME FeedInv, RemovePost PROVE FeedInv'
  OBVIOUS
<1>1. FeedTyped /\ IdsAreUnique /\ WalkIsKept /\ walk.on /\ peerIds' = peerIds
  BY DEF FeedInv, RemovePost, FeedChanging
<1>2. PICK p \in wall :
        /\ wall' = wall \ {p}
        /\ walk' = [walk EXCEPT !.changes = @ + 1, !.had = {q \in @ : q.id # p.id}]
  BY DEF RemovePost
<1>a. PICK had : had = {q \in walk.had : q.id # p.id}
  OBVIOUS
<1>3. /\ walk'.had = had /\ walk'.shown = walk.shown /\ walk'.on = walk.on
      /\ walk'.ended = walk.ended /\ walk'.social = walk.social /\ walk'.moved = walk.moved
      /\ walk'.discovery = walk.discovery /\ walk'.fresh = walk.fresh
      /\ had \subseteq walk.had /\ \A q \in had : q.id # p.id
  BY <1>1, <1>2, <1>a DEF FeedTyped, FeedWalk
<1>4. walk \in FeedWalk /\ walk' \in FeedWalk
  <2>1. walk \in FeedWalk
    BY <1>1 DEF FeedTyped
  <2>2. walk.changes + 1 \in Nat /\ had \in SUBSET FeedRow
    BY <1>3, <2>1 DEF FeedWalk
  <2>3. walk' = [walk EXCEPT !.changes = @ + 1, !.had = had]
    BY <1>2, <1>a, <2>1 DEF FeedWalk
  <2> QED BY <2>1, <2>2, <2>3 DEF FeedWalk
<1>5. FeedTyped'
  <2>1. IsFiniteSet(wall')
    BY <1>1, <1>2, FS_Subset DEF FeedTyped
  <2> QED BY <1>1, <1>2, <1>3, <1>4, <2>1 DEF FeedTyped
<1>6. IdsAreUnique'
  BY <1>1, <1>2, <1>3 DEF IdsAreUnique, UniqueIn
<1>7. \A id : FromCircle(id)' = FromCircle(id)
  BY <1>1 DEF FromCircle
<1>8. ASSUME NEW q \in had \cap FeedRows PROVE q \in FeedRows'
  <2>1. PICK x \in wall : q = FeedRowOf(x)
    BY DEF FeedRows
  <2>2. x # p
    BY <1>3, <2>1 DEF FeedRowOf
  <2> QED BY <1>2, <1>7, <2>1, <2>2, PoolsStay
<1>9. WalkIsKept'
  BY <1>1, <1>3, <1>4, <1>7, <1>8, ChangeKeeps
<1> QED BY <1>5, <1>6, <1>9 DEF FeedInv

\* A post published between two pages.
LEMMA PublishPostKeeps == FeedInv /\ PublishPost => FeedInv'
<1> SUFFICES ASSUME FeedInv, PublishPost PROVE FeedInv'
  OBVIOUS
<1>1. FeedTyped /\ IdsAreUnique /\ WalkIsKept /\ walk.on /\ peerIds' = peerIds
  BY DEF FeedInv, PublishPost, FeedChanging
<1>2. PICK p \in FeedPost :
        /\ p.id \in walk.fresh /\ wall' = wall \cup {p}
        /\ walk' = [walk EXCEPT !.changes = @ + 1, !.fresh = @ \ {p.id}]
  BY DEF PublishPost
<1>3. /\ walk'.had = walk.had /\ walk'.shown = walk.shown /\ walk'.on = walk.on
      /\ walk'.ended = walk.ended /\ walk'.social = walk.social /\ walk'.moved = walk.moved
      /\ walk'.discovery = walk.discovery /\ walk'.fresh = walk.fresh \ {p.id}
  BY <1>1, <1>2 DEF FeedTyped, FeedWalk
<1>4. walk \in FeedWalk /\ walk' \in FeedWalk
  <2>1. walk \in FeedWalk
    BY <1>1 DEF FeedTyped
  <2>2. walk.changes + 1 \in Nat /\ walk.fresh \ {p.id} \in SUBSET NewIds
    BY <2>1 DEF FeedWalk
  <2> QED BY <1>2, <2>1, <2>2 DEF FeedWalk
<1>5. FeedTyped'
  <2>1. IsFiniteSet(wall')
    BY <1>1, <1>2, FS_AddElement DEF FeedTyped
  <2> QED BY <1>1, <1>2, <1>3, <1>4, <2>1 DEF FeedTyped
<1>6. IdsAreUnique'
  BY <1>1, <1>2, <1>3 DEF IdsAreUnique, UniqueIn
<1>7. \A id : FromCircle(id)' = FromCircle(id)
  BY <1>1 DEF FromCircle
<1>8. ASSUME NEW q \in walk.had \cap FeedRows PROVE q \in FeedRows'
  <2>1. PICK x \in wall : q = FeedRowOf(x)
    BY DEF FeedRows
  <2> QED BY <1>2, <1>7, <2>1, PoolsStay
<1>9. WalkIsKept'
  BY <1>1, <1>3, <1>4, <1>7, <1>8, ChangeKeeps
<1> QED BY <1>5, <1>6, <1>9 DEF FeedInv

\* An author connected or disconnected between two pages.
LEMMA ReconnectKeeps == FeedInv /\ Reconnect => FeedInv'
<1> SUFFICES ASSUME FeedInv, Reconnect PROVE FeedInv'
  OBVIOUS
<1>1. FeedTyped /\ IdsAreUnique /\ WalkIsKept /\ walk.on /\ wall' = wall
  BY DEF FeedInv, Reconnect, FeedChanging
<1>2. PICK a \in FeedAuthors :
        /\ peerIds' = IF a \in peerIds THEN peerIds \ {a} ELSE peerIds \cup {a}
        /\ walk' = [walk EXCEPT !.changes = @ + 1, !.moved = @ \cup {a}]
  BY DEF Reconnect
<1>3. /\ walk'.had = walk.had /\ walk'.shown = walk.shown /\ walk'.on = walk.on
      /\ walk'.ended = walk.ended /\ walk'.social = walk.social
      /\ walk'.moved = walk.moved \cup {a}
      /\ walk'.discovery = walk.discovery /\ walk'.fresh = walk.fresh
  BY <1>1, <1>2 DEF FeedTyped, FeedWalk
<1>4. walk \in FeedWalk /\ walk' \in FeedWalk
  <2>1. walk \in FeedWalk
    BY <1>1 DEF FeedTyped
  <2>2. walk.changes + 1 \in Nat /\ walk.moved \cup {a} \in SUBSET FeedAuthors
    BY <2>1 DEF FeedWalk
  <2> QED BY <1>2, <2>1, <2>2 DEF FeedWalk
<1>5. FeedTyped' /\ IdsAreUnique'
  BY <1>1, <1>3, <1>4 DEF FeedTyped, IdsAreUnique
<1>6. \A id : AuthorOf[id] # a => FromCircle(id)' = FromCircle(id)
  BY <1>2 DEF FromCircle
<1>7. ASSUME NEW q \in walk.had \cap FeedRows, AuthorOf[q.id] \notin walk'.moved
      PROVE  q \in FeedRows'
  <2>1. PICK x \in wall : q = FeedRowOf(x)
    BY DEF FeedRows
  <2>2. q.id = x.id
    BY <2>1 DEF FeedRowOf
  <2>3. AuthorOf[x.id] # a
    BY <1>3, <1>7, <2>2
  <2> QED BY <1>1, <1>6, <2>1, <2>3, PoolsStay
<1>8. \A id \in PostIds : AuthorOf[id] \notin walk'.moved => FromCircle(id)' = FromCircle(id)
  BY <1>3, <1>6
<1>9. WalkIsKept'
  BY <1>1, <1>3, <1>4, <1>7, <1>8, ChangeKeeps
<1> QED BY <1>5, <1>9 DEF FeedInv

\* Every step of the feed.
LEMMA FeedKept == FeedInv /\ [FeedNext]_feeding => FeedInv'
<1>1. FeedInv /\ UNCHANGED feeding => FeedInv'
  BY DEF feeding, FeedInv, FeedTyped, IdsAreUnique, WalkIsKept, CursorOf, StillInPool, IsToCome,
         FeedRows, FeedRowOf, PoolOf, FromCircle
<1> QED BY <1>1, ListFeedKeeps, PublishPostsKeeps, RemovePostKeeps, PublishPostKeeps,
           ReconnectKeeps DEF FeedNext

\* What was shown once is met once from each pool, and from one pool only unless its author has
\* moved; what was to come when the walk ended was shown.
LEMMA FeedShows == FeedInv => FeedMissesNothing
<1> SUFFICES ASSUME FeedInv PROVE FeedMissesNothing
  OBVIOUS
<1>1. FeedTyped /\ IdsAreUnique /\ WalkIsKept
  BY DEF FeedInv
<1>2. \A i \in DOMAIN walk.shown :
        walk.shown[i] \in Elements(walk.shown) /\ walk.shown[i] \in FeedRow
  BY <1>1 DEF Elements, FeedTyped, FeedWalk
<1>3. ASSUME NEW i \in DOMAIN walk.shown, NEW j \in DOMAIN walk.shown,
             walk.shown[i].id = walk.shown[j].id, i # j
      PROVE  /\ walk.shown[i].pool # walk.shown[j].pool
             /\ AuthorOf[walk.shown[i].id] \in walk.moved
  <2>1. PICK p \in FeedRow : p = walk.shown[i]
    BY <1>2
  <2>2. PICK q \in FeedRow : q = walk.shown[j]
    BY <1>2
  <2>3. /\ p # q /\ p.id = q.id /\ p.at = q.at
        /\ Visible(p) /\ Visible(q) /\ StillInPool(p) /\ StillInPool(q)
    BY <1>1, <1>2, <1>3, <2>1, <2>2 DEF IdsAreUnique, WalkIsKept, Once
  <2>4. p.pool # q.pool
    BY <2>3 DEF FeedRow
  <2>5. AuthorOf[p.id] \in walk.moved
    BY <2>3, <2>4 DEF StillInPool, FeedRow, Pools, Visible
  <2> QED BY <2>1, <2>2, <2>4, <2>5
<1>4. walk.ended =>
        {p \in walk.had : AuthorOf[p.id] \notin walk.moved} \subseteq Elements(walk.shown)
  BY <1>1 DEF WalkIsKept, IsToCome
<1> QED BY <1>3, <1>4 DEF FeedMissesNothing, Elements

----
(* Lists: a walk through any number of rows, pages and changes in between. *)

ListRow == [id : RowIds, at : Times]
ListReader == [on : BOOLEAN, ended : BOOLEAN, changes : Nat, cursor : ListRow \cup {NoCursor},
               shown : Seq(ListRow), had : SUBSET ListRow]
ListTyped ==
  /\ list \in [kind : Kinds \cup {"none"}, rows : SUBSET ListRow]
  /\ reader \in ListReader
  /\ (reader.on => list.kind # "none") /\ IsFiniteSet(list.rows)

\* The cursor is the last row shown, all the others were shown before it in their order.
CursorIsLast ==
  /\ ~reader.on => reader.shown = <<>> /\ reader.had = {} /\ ~reader.ended
  /\ reader.on /\ ~reader.ended => reader.cursor \in ListRow
  /\ \A i \in DOMAIN reader.shown :
       reader.shown[i] = reader.cursor \/ Follows(list.kind, reader.shown[i], reader.cursor)
ShownInOrder ==
  \A i, j \in DOMAIN reader.shown :
    i < j => Follows(list.kind, reader.shown[i], reader.shown[j])
\* What was there at the start and not shown is still to come.
HadIsToCome ==
  \A p \in reader.had : (\A i \in DOMAIN reader.shown : reader.shown[i] # p) =>
    ~reader.ended /\ p \in list.rows /\ Follows(list.kind, reader.cursor, p)

ListInv == ListTyped /\ CursorIsLast /\ ShownInOrder /\ HadIsToCome

\* The order is total.
LEMMA FollowsIsTotal ==
  ASSUME NEW kind, NEW p \in ListRow, NEW q \in ListRow, NEW r \in ListRow
  PROVE  /\ ~Follows(kind, p, p)
         /\ Follows(kind, p, q) /\ Follows(kind, q, r) => Follows(kind, p, r)
         /\ p = q \/ Follows(kind, p, q) \/ Follows(kind, q, p)
<1>1. /\ p.id \in Nat /\ p.at \in Nat /\ q.id \in Nat /\ q.at \in Nat /\ r.id \in Nat
      /\ r.at \in Nat
  BY FeedAssumption, ListsAssumption DEF ListRow
<1>2. p.id = q.id /\ p.at = q.at => p = q
  BY DEF ListRow
<1>3. CASE kind = "comments"
  BY <1>1, <1>2, <1>3 DEF Follows, OldestFirst
<1>4. CASE kind # "comments"
  BY <1>1, <1>2, <1>4 DEF Follows, NewestFirst
<1> QED BY <1>3, <1>4

\* Before the walk nothing was shown.
LEMMA ListsStart == ListsInit => ListInv
<1> SUFFICES ASSUME ListsInit PROVE ListInv
  OBVIOUS
<1>1. /\ list = [kind |-> "none", rows |-> {}] /\ IsFiniteSet(list.rows)
      /\ reader = [on |-> FALSE, ended |-> FALSE, changes |-> 0, cursor |-> NoCursor,
                   shown |-> <<>>, had |-> {}]
  BY FS_EmptySet DEF ListsInit, NoReader
<1>2. <<>> \in Seq(ListRow) /\ DOMAIN <<>> = {}
  OBVIOUS
<1>3. ListTyped
  BY <1>1, <1>2 DEF ListTyped, ListReader
<1> QED BY <1>1, <1>2, <1>3 DEF ListInv, CursorIsLast, ShownInOrder, HadIsToCome

\* The rows of a query: the first after the cursor.
LEMMA QueryRows ==
  ASSUME list.rows \subseteq ListRow, IsFiniteSet(list.rows)
  PROVE  /\ Query \in Seq(list.rows) /\ Len(Query) \in Nat /\ DOMAIN Query = 1..Len(Query)
         /\ \A i \in DOMAIN Query : AfterCursor(Query[i])
         /\ \A i, j \in DOMAIN Query : i < j => Follows(list.kind, Query[i], Query[j])
         /\ \A p \in list.rows : AfterCursor(p) =>
              \/ \E i \in DOMAIN Query : Query[i] = p
              \/ /\ Len(Query) = RowsToTake
                 /\ \A i \in DOMAIN Query : Follows(list.kind, Query[i], p)
<1> DEFINE S == {p \in list.rows : AfterCursor(p)}
           ahead == Preceding(S)
<1>1. IsFiniteSet(S)
  BY FS_Subset
<1>2. Orders(ahead, S)
  <2>1. \A p \in S : ahead[p] = {q \in S : Follows(list.kind, q, p)}
    BY DEF Preceding
  <2>2. S \subseteq ListRow
    OBVIOUS
  <2>3. ahead \in [S -> SUBSET S]
    BY DEF Preceding
  <2> HIDE DEF S, ahead
  <2> QED BY <2>1, <2>2, <2>3, FollowsIsTotal DEF Orders
<1> HIDE DEF S, ahead
<1>5. Query = FirstOf(RowsToTake, InOrder(S, ahead)) /\ RowsToTake \in Nat
  BY ListsAssumption DEF Query, ahead, S, RowsToTake
<1>6. /\ Query \in Seq(S) /\ Len(Query) \in Nat /\ DOMAIN Query = 1..Len(Query)
      /\ Len(Query) <= RowsToTake
      /\ \A i, j \in DOMAIN Query : i < j => Query[i] \in ahead[Query[j]]
      /\ \A p \in S : \/ \E i \in DOMAIN Query : Query[i] = p
                      \/ /\ Len(Query) = RowsToTake
                         /\ \A i \in DOMAIN Query : Query[i] \in ahead[p]
  <2> PICK n \in Nat : n = RowsToTake
    BY <1>5
  <2>1. Query = FirstOf(n, InOrder(S, ahead))
    BY <1>5
  <2>2. Firsts(Query, n, S, ahead)
    BY <1>1, <1>2, <2>1, FirstRows
  <2> QED BY <2>2 DEF Firsts
<1>7. \A p \in S : \A q \in ahead[p] : Follows(list.kind, q, p)
  BY DEF ahead, Preceding
<1>8. \A i \in DOMAIN Query : Query[i] \in S
  BY <1>6
<1>9. Query \in Seq(list.rows) /\ \A p \in list.rows : p \in S <=> AfterCursor(p)
  BY <1>6 DEF S
<1> QED BY <1>6, <1>7, <1>8, <1>9 DEF S

\* r is s, of length n, and then t.
Joined(r, s, n, t) ==
  /\ DOMAIN s = 1..n /\ DOMAIN r \subseteq Nat
  /\ \A i \in DOMAIN s : i \in DOMAIN r /\ r[i] = s[i]
  /\ \A j \in DOMAIN t : j \in Nat /\ n + j \in DOMAIN r /\ r[n + j] = t[j]
  /\ \A i \in DOMAIN r : i \in DOMAIN s \/ \E j \in DOMAIN t : i = n + j
  /\ \A i \in DOMAIN s, j \in DOMAIN t : i < n + j

\* Two sequences one after the other.
LEMMA Appended ==
  ASSUME NEW S, NEW s \in Seq(S), NEW t \in Seq(S), NEW r, r = s \o t
  PROVE  r \in Seq(S) /\ \E n \in Nat : Joined(r, s, n, t)
<1>1. PICK m \in Nat, n \in Nat : m = Len(s) /\ n = Len(t)
  OBVIOUS
<1>2. DOMAIN s = 1..m /\ DOMAIN t = 1..n
  BY <1>1
<1>3. r \in Seq(S) /\ Len(r) = m + n
  BY <1>1
<1>4. DOMAIN r = 1..(m + n)
  BY <1>3
<1>5. \A i \in 1..m : r[i] = s[i]
  BY <1>1, <1>2
<1>6. \A j \in 1..n : r[m + j] = t[j]
  BY <1>1
<1>7. ASSUME NEW i \in 1..(m + n), i \notin 1..m PROVE \E j \in 1..n : i = m + j
  <2>1. i - m \in 1..n /\ i = m + (i - m)
    BY <1>7
  <2> QED BY <2>1
<1>8. /\ \A i \in 1..m : i \in 1..(m + n)
      /\ \A j \in 1..n : j \in Nat /\ m + j \in 1..(m + n)
      /\ \A i \in 1..m, j \in 1..n : i < m + j
  OBVIOUS
<1>9. 1..(m + n) \subseteq Nat
  OBVIOUS
<1>10. Joined(r, s, m, t)
  BY <1>2, <1>4, <1>5, <1>6, <1>7, <1>8, <1>9 DEF Joined
<1> QED BY <1>3, <1>10

\* The page: the rows of the query but for the additional one, which follows them.
LEMMA PageOfQuery ==
  ASSUME list.rows \subseteq ListRow, IsFiniteSet(list.rows), NEW page,
         page = FirstOf(PageLimit, Query)
  PROVE  /\ page \in Seq(ListRow) /\ Len(page) \in Nat /\ DOMAIN page = 1..Len(page)
         /\ \A i \in DOMAIN page : page[i] \in list.rows /\ AfterCursor(page[i])
         /\ \A i, j \in DOMAIN page : i < j => Follows(list.kind, page[i], page[j])
         /\ Len(Query) > PageLimit => Len(page) > 0
         /\ \A p \in list.rows : AfterCursor(p) =>
              \/ \E i \in DOMAIN page : page[i] = p
              \/ /\ Len(Query) > PageLimit
                 /\ \A i \in DOMAIN page : Follows(list.kind, page[i], p)
<1> PICK rows : rows = Query
  OBVIOUS
<1> PICK limit \in Nat : limit = PageLimit /\ limit > 0 /\ RowsToTake = limit + 1
  BY ListsAssumption DEF RowsToTake
<1>1. /\ rows \in Seq(list.rows) /\ Len(rows) \in Nat /\ DOMAIN rows = 1..Len(rows)
      /\ \A i \in DOMAIN rows : AfterCursor(rows[i])
      /\ \A i, j \in DOMAIN rows : i < j => Follows(list.kind, rows[i], rows[j])
      /\ \A p \in list.rows : AfterCursor(p) =>
           \/ \E i \in DOMAIN rows : rows[i] = p
           \/ /\ Len(rows) = limit + 1
              /\ \A i \in DOMAIN rows : Follows(list.kind, rows[i], p)
  BY QueryRows
<1>2. /\ page \in Seq(list.rows) /\ Len(page) \in Nat /\ DOMAIN page = 1..Len(page)
      /\ Len(page) <= limit /\ Len(page) <= Len(rows)
      /\ Len(page) = limit \/ Len(page) = Len(rows)
      /\ \A i \in 1..Len(page) : i \in 1..Len(rows) /\ page[i] = rows[i]
  BY <1>1, FirstOfSeq
<1> PICK m \in Nat, n \in Nat : m = Len(page) /\ n = Len(rows)
  BY <1>1, <1>2
<1>3. m <= limit /\ m <= n /\ (m = limit \/ m = n)
  BY <1>2
<1>4. \A i \in 1..m : i \in 1..n /\ page[i] = rows[i]
  BY <1>2
<1>5. ASSUME NEW p \in list.rows, AfterCursor(p)
      PROVE  \/ \E i \in 1..m : page[i] = p
             \/ n > limit /\ \A i \in 1..m : Follows(list.kind, page[i], p)
  <2>1. CASE \E k \in 1..n : rows[k] = p
    <3> PICK k \in 1..n : rows[k] = p
      BY <2>1
    <3>1. CASE k <= m
      <4>1. k \in 1..m
        BY <3>1
      <4> QED BY <1>4, <4>1
    <3>2. CASE ~(k <= m)
      <4>1. n > limit /\ \A i \in 1..m : i < k
        BY <1>3, <3>2
      <4> QED BY <1>1, <1>4, <4>1
    <3> QED BY <3>1, <3>2
  <2>2. CASE n = limit + 1 /\ \A i \in 1..n : Follows(list.kind, rows[i], p)
    BY <1>4, <2>2
  <2> QED BY <1>1, <1>5, <2>1, <2>2
<1>6. \A i \in 1..m : page[i] \in list.rows /\ AfterCursor(page[i])
  BY <1>1, <1>2, <1>4
<1>7. \A i, j \in 1..m : i < j => Follows(list.kind, page[i], page[j])
  BY <1>1, <1>4
<1>8. n > limit => m > 0
  BY <1>3
<1>9. page \in Seq(ListRow)
  BY <1>2
<1> QED BY <1>2, <1>5, <1>6, <1>7, <1>8, <1>9

\* One page more keeps the order, and leaves nothing behind.
LEMMA NextPageKeeps ==
  ASSUME ListInv, NEW kind \in Kinds, NextPage(kind)
  PROVE  ListInv'
<1>p. PICK page, more, shown, cursor, had :
        /\ page = FirstOf(PageLimit, Query) /\ more = (Len(Query) > PageLimit)
        /\ shown = reader.shown \o page
        /\ cursor = (IF page = <<>> THEN reader.cursor ELSE page[Len(page)])
        /\ had = (IF reader.on THEN reader.had ELSE list.rows)
  OBVIOUS
<1>1. ListTyped /\ CursorIsLast /\ ShownInOrder /\ HadIsToCome
  BY DEF ListInv
<1>2. ~reader.ended /\ list.kind = kind /\ list' = list
  BY DEF NextPage
<1>3. reader' = [reader EXCEPT !.on = TRUE, !.ended = ~more, !.shown = shown,
                               !.cursor = cursor, !.had = had]
  BY <1>1, <1>p DEF NextPage, ListTyped
<1>4. /\ reader'.on /\ reader'.ended = ~more /\ reader'.shown = shown /\ reader'.had = had
      /\ reader'.cursor = cursor
  BY <1>1, <1>3 DEF ListTyped, ListReader
<1>5. /\ page \in Seq(ListRow) /\ Len(page) \in Nat /\ DOMAIN page = 1..Len(page)
      /\ \A i \in DOMAIN page : page[i] \in list.rows /\ AfterCursor(page[i])
      /\ \A i, j \in DOMAIN page : i < j => Follows(kind, page[i], page[j])
      /\ more => Len(page) > 0
      /\ \A p \in list.rows : AfterCursor(p) =>
           \/ \E i \in DOMAIN page : page[i] = p
           \/ more /\ \A i \in DOMAIN page : Follows(kind, page[i], p)
  <2>1. list.rows \subseteq ListRow /\ IsFiniteSet(list.rows)
    BY <1>1 DEF ListTyped, ListReader
  <2> QED BY <1>2, <1>p, <2>1, PageOfQuery
<1>6. \A p : AfterCursor(p) <=> (reader.on => Follows(kind, reader.cursor, p))
  BY <1>2 DEF AfterCursor
<1>o. PICK old \in Seq(ListRow) : old = reader.shown
  BY <1>1 DEF ListTyped, ListReader
<1>s. shown \in Seq(ListRow) /\ \E n \in Nat : Joined(shown, old, n, page)
  <2>1. shown = old \o page
    BY <1>o, <1>p
  <2> QED BY <1>5, <2>1, Appended
<1> PICK n \in Nat : Joined(shown, old, n, page)
  BY <1>s
<1>7. /\ DOMAIN old = 1..n /\ DOMAIN shown \subseteq Nat
      /\ \A i \in DOMAIN old : i \in DOMAIN shown /\ shown[i] = old[i]
      /\ \A j \in DOMAIN page : j \in Nat /\ n + j \in DOMAIN shown /\ shown[n + j] = page[j]
      /\ \A i \in DOMAIN shown : i \in DOMAIN old \/ \E j \in DOMAIN page : i = n + j
      /\ \A i \in DOMAIN old, j \in DOMAIN page : i < n + j
  BY DEF Joined
<1>8. /\ cursor \in ListRow \cup {NoCursor} /\ (more => cursor \in ListRow)
      /\ \A j \in DOMAIN page : page[j] = cursor \/ Follows(kind, page[j], cursor)
      /\ DOMAIN page = {} => cursor = reader.cursor
      /\ DOMAIN page # {} => \E j \in DOMAIN page : cursor = page[j]
  <2>1. CASE page = <<>>
    <3>1. DOMAIN page = {} /\ cursor = reader.cursor /\ ~more
      BY <1>5, <1>p, <2>1
    <3> QED BY <1>1, <3>1 DEF ListTyped, ListReader
  <2>2. CASE page # <<>>
    <3> PICK last \in Nat : last = Len(page)
      BY <1>5
    <3>1. last \in DOMAIN page /\ cursor = page[last] /\ page[last] \in ListRow
      BY <1>5, <1>p, <2>2
    <3>2. \A j \in DOMAIN page : j = last \/ j < last
      BY <1>5
    <3> QED BY <1>5, <3>1, <3>2
  <2> QED BY <2>1, <2>2
<1>9. had \in SUBSET ListRow /\ more \in BOOLEAN /\ kind # "none"
  <2>1. had \in SUBSET ListRow /\ more \in BOOLEAN
    BY <1>1, <1>p DEF ListTyped, ListReader
  <2>2. kind # "none"
    BY DEF Kinds
  <2> QED BY <2>1, <2>2
<1>10. ListTyped'
  <2>1. reader' \in ListReader
    <3>1. reader \in ListReader /\ shown \in Seq(ListRow) /\ cursor \in ListRow \cup {NoCursor}
      BY <1>1, <1>s, <1>8 DEF ListTyped
    <3> QED BY <1>3, <1>9, <3>1 DEF ListReader
  <2> QED BY <1>1, <1>2, <1>9, <2>1 DEF ListTyped, ListReader
\* Where an earlier row stands to the page and to the new cursor.
<1>11. ASSUME NEW i \in DOMAIN old
       PROVE  /\ \A j \in DOMAIN page : Follows(kind, old[i], page[j])
              /\ old[i] = cursor \/ Follows(kind, old[i], cursor)
  <2>1. old[i] \in ListRow /\ reader.on
        /\ (old[i] = reader.cursor \/ Follows(kind, old[i], reader.cursor))
    BY <1>1, <1>2, <1>o DEF CursorIsLast
  <2>2. reader.cursor \in ListRow
    BY <1>1, <1>2, <2>1 DEF CursorIsLast
  <2>3. \A j \in DOMAIN page : Follows(kind, reader.cursor, page[j]) /\ page[j] \in ListRow
    BY <1>5, <1>6, <2>1
  <2>4. \A j \in DOMAIN page : Follows(kind, old[i], page[j])
    BY <2>1, <2>2, <2>3, FollowsIsTotal
  <2> QED BY <1>8, <2>1, <2>4
<1>12. CursorIsLast'
  <2>1. \A i \in DOMAIN shown : shown[i] = cursor \/ Follows(kind, shown[i], cursor)
    <3>1. \A i \in DOMAIN old : shown[i] = cursor \/ Follows(kind, shown[i], cursor)
      BY <1>7, <1>11
    <3>2. \A j \in DOMAIN page :
            shown[n + j] = cursor \/ Follows(kind, shown[n + j], cursor)
      BY <1>7, <1>8
    <3>3. ASSUME NEW i \in DOMAIN shown
          PROVE  i \in DOMAIN old \/ \E j \in DOMAIN page : i = n + j
      BY <1>7
    <3> QED BY <3>1, <3>2, <3>3
  <2> QED BY <1>2, <1>4, <1>8, <2>1 DEF CursorIsLast
<1>13. ShownInOrder'
  <2>1. ASSUME NEW i \in DOMAIN shown, NEW j \in DOMAIN shown, i < j
        PROVE  Follows(kind, shown[i], shown[j])
    <3>1. CASE i \in DOMAIN old /\ j \in DOMAIN old
      BY <1>1, <1>2, <1>7, <1>o, <2>1, <3>1 DEF ShownInOrder
    <3>2. ASSUME i \in DOMAIN old, NEW k \in DOMAIN page, j = n + k
          PROVE  Follows(kind, shown[i], shown[j])
      BY <1>7, <1>11, <3>2
    <3>3. ASSUME NEW m \in DOMAIN page, NEW k \in DOMAIN page, i = n + m,
                 j = n + k
          PROVE  Follows(kind, shown[i], shown[j])
      <4>1. m < k
        BY <1>7, <2>1, <3>3
      <4> QED BY <1>5, <1>7, <3>3, <4>1
    <3>4. ASSUME j \in DOMAIN old, NEW m \in DOMAIN page, i = n + m
          PROVE  FALSE
      <4>1. j < i /\ i \in Nat /\ j \in Nat
        BY <1>7, <3>4
      <4> QED BY <2>1, <4>1
    <3> QED BY <1>7, <3>1, <3>2, <3>3, <3>4
  <2> QED BY <1>2, <1>4, <2>1 DEF ShownInOrder
<1>14. HadIsToCome'
  <2>1. ASSUME NEW p \in had, \A i \in DOMAIN shown : shown[i] # p
        PROVE  more /\ p \in list.rows /\ Follows(kind, cursor, p)
    <3>1. \A i \in DOMAIN old : old[i] # p
      BY <1>7, <2>1
    <3>2. p \in list.rows /\ AfterCursor(p)
      BY <1>1, <1>2, <1>6, <1>o, <1>p, <2>1, <3>1 DEF HadIsToCome
    <3>3. \A j \in DOMAIN page : page[j] # p
      BY <1>7, <2>1
    <3>4. more /\ \A j \in DOMAIN page : Follows(kind, page[j], p)
      BY <1>5, <3>2, <3>3
    <3>5. DOMAIN page # {}
      BY <1>5, <3>4
    <3> QED BY <1>8, <3>2, <3>4, <3>5
  <2> QED BY <1>2, <1>4, <2>1 DEF HadIsToCome
<1> QED BY <1>10, <1>12, <1>13, <1>14 DEF ListInv

\* Pages, and rows that disappear and appear.
LEMMA ListsKept == ListInv /\ [ListsNext]_walking => ListInv'
<1> SUFFICES ASSUME ListInv, [ListsNext]_walking PROVE ListInv'
  OBVIOUS
<1>1. ListTyped /\ CursorIsLast /\ ShownInOrder /\ HadIsToCome
  BY DEF ListInv
<1>2. CASE FillList
  <2>1. PICK kind \in Kinds, ids \in SUBSET RowIds : \E at \in [ids -> Times] :
          list' = [kind |-> kind, rows |-> {[id |-> i, at |-> at[i]] : i \in ids}]
    BY <1>2 DEF FillList
  <2>2. list' \in [kind : Kinds \cup {"none"}, rows : SUBSET ListRow] /\ reader' = reader
    BY <1>2, <2>1 DEF FillList, ListRow
  <2>4. IsFiniteSet(list'.rows)
    <3>1. PICK at \in [ids -> Times] : list'.rows = {[id |-> i, at |-> at[i]] : i \in ids}
      BY <2>1
    <3>2. IsFiniteSet(ids)
      BY ListsAssumption, FS_Subset
    <3> DEFINE row == [i \in ids |-> [id |-> i, at |-> at[i]]]
    <3>3. row \in Surjection(ids, list'.rows)
      BY <3>1 DEF Surjection
    <3> QED BY <3>2, <3>3, FS_Surjection
  <2>3. ~reader.on
    BY <1>1, <1>2 DEF FillList, ListTyped
  <2> QED BY <1>1, <2>2, <2>3, <2>4
        DEF ListInv, ListTyped, ListReader, CursorIsLast, ShownInOrder, HadIsToCome
<1>3. CASE RemoveRow
  <2>1. PICK p \in list.rows :
          /\ list' = [list EXCEPT !.rows = @ \ {p}]
          /\ reader' = [reader EXCEPT !.changes = @ + 1, !.had = @ \ {p}]
    BY <1>3 DEF RemoveRow
  <2>2. /\ list'.kind = list.kind /\ list'.rows = list.rows \ {p}
        /\ reader'.had = reader.had \ {p} /\ reader'.shown = reader.shown
        /\ reader'.cursor = reader.cursor /\ reader'.on = reader.on
        /\ reader'.ended = reader.ended
    BY <1>1, <2>1 DEF ListTyped, ListReader
  <2>3. ListTyped'
    <3>1. reader' \in ListReader
      <4>1. reader \in ListReader
        BY <1>1 DEF ListTyped
      <4>2. reader.changes + 1 \in Nat /\ reader.had \ {p} \in SUBSET ListRow
        BY <4>1 DEF ListReader
      <4> QED BY <2>1, <4>1, <4>2 DEF ListReader
    <3>2. list' \in [kind : Kinds \cup {"none"}, rows : SUBSET ListRow]
      BY <1>1, <2>1 DEF ListTyped, ListReader
    <3>3. IsFiniteSet(list'.rows)
      BY <1>1, <2>2, FS_RemoveElement DEF ListTyped, ListReader
    <3> QED BY <1>1, <2>2, <3>1, <3>2, <3>3 DEF ListTyped, ListReader
  <2> QED BY <1>1, <2>2, <2>3 DEF ListInv, CursorIsLast, ShownInOrder, HadIsToCome
<1>4. CASE AddRow
  <2>1. PICK i \in RowIds, at \in Times :
          /\ list' = [list EXCEPT !.rows = @ \cup {[id |-> i, at |-> at]}]
          /\ reader' = [reader EXCEPT !.changes = @ + 1]
    BY <1>4 DEF AddRow
  <2>2. /\ list'.kind = list.kind /\ list'.rows = list.rows \cup {[id |-> i, at |-> at]}
        /\ reader'.had = reader.had /\ reader'.shown = reader.shown
        /\ reader'.cursor = reader.cursor /\ reader'.on = reader.on
        /\ reader'.ended = reader.ended
    BY <1>1, <2>1 DEF ListTyped, ListReader
  <2>3. [id |-> i, at |-> at] \in ListRow
    BY DEF ListRow
  <2>4. ListTyped'
    <3>1. reader' \in ListReader
      <4>1. reader \in ListReader
        BY <1>1 DEF ListTyped
      <4> QED BY <2>1, <4>1 DEF ListReader
    <3>2. list' \in [kind : Kinds \cup {"none"}, rows : SUBSET ListRow]
      BY <1>1, <2>1, <2>3 DEF ListTyped, ListReader
    <3>3. IsFiniteSet(list'.rows)
      <4>r. PICK rows, row : rows = list.rows /\ row = [id |-> i, at |-> at]
        OBVIOUS
      <4>1. IsFiniteSet(rows) /\ list'.rows = rows \cup {row}
        BY <1>1, <2>2, <4>r DEF ListTyped
      <4> QED BY <4>1, FS_AddElement
    <3> QED BY <1>1, <2>2, <3>1, <3>2, <3>3 DEF ListTyped, ListReader
  <2> QED BY <1>1, <2>2, <2>4 DEF ListInv, CursorIsLast, ShownInOrder, HadIsToCome
<1>5. ASSUME NEW kind \in Kinds, NextPage(kind) PROVE ListInv'
  BY <1>5, NextPageKeeps
<1>6. CASE UNCHANGED walking
  BY <1>1, <1>6 DEF walking, ListInv, ListTyped, CursorIsLast, ShownInOrder, HadIsToCome
<1> QED BY <1>2, <1>3, <1>4, <1>5, <1>6
        DEF ListsNext, Kinds, ListLikes, ListComments, ListUserPosts, ListSavedServices,
            ListAccountActions, SearchUsers, ListDisputes

\* What is in order is not shown twice.
LEMMA ListsShow == ListInv => ListsMissNothing
<1> SUFFICES ASSUME ListInv PROVE ListsMissNothing
  OBVIOUS
<1>1. reader.shown \in Seq(ListRow) /\ ShownInOrder /\ HadIsToCome
  BY DEF ListInv, ListTyped, ListReader
<1>2. ASSUME NEW i \in DOMAIN reader.shown, NEW j \in DOMAIN reader.shown,
             reader.shown[i] = reader.shown[j]
      PROVE  i = j
  <2>1. i \in Nat /\ j \in Nat /\ reader.shown[i] \in ListRow
    BY <1>1
  <2>2. ~(i < j) /\ ~(j < i)
    BY <1>1, <1>2, <2>1, FollowsIsTotal DEF ShownInOrder
  <2> QED BY <2>1, <2>2
<1>3. reader.ended => reader.had \subseteq {reader.shown[i] : i \in DOMAIN reader.shown}
  BY <1>1 DEF HadIsToCome
<1> QED BY <1>2, <1>3 DEF ListsMissNothing
====
