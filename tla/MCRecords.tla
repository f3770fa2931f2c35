---- MODULE MCRecords ----
(***************************************************************************)
(* Instances of Records for TLC.  The calls are interchangeable, and so    *)
(* are the invoice numbers.  There is one image of the client's, of        *)
(* purpose review, and three invoice documents.  The ticks of the signing  *)
(* keys are minutes.  The dates lie around the ends of months, of a leap   *)
(* year and of a year.                                                     *)
(***************************************************************************)
EXTENDS Records, TLC

CONSTANTS u1, u2, m1, d1, d2, d3, c1, c2, p1, p2, n1, n2, x, y, s1, s2, t1, t2, t3, f1, f2, f3

MCOwner == (m1 :> u1) @@ (d1 :> u1) @@ (d2 :> u1) @@ (d3 :> u1)
MCPurpose == (m1 :> "review") @@ (d1 :> "invoice") @@ (d2 :> "invoice")
             @@ (d3 :> "invoice")
MCBackoff == <<1, 1, 2, 5>>
MCDates == {<<2027, 12, 31>>, <<2028, 1, 31>>, <<2028, 2, 29>>}

MCAuthorOf == <<"a", "b", "b", "a", "self", "b">>

MCSkillKeys == <<s1, s2>>
InRelease(name, alias, active) == [name |-> name, alias |-> alias, active |-> active]
MCReleases == {
  (s1 :> InRelease(t1, None, TRUE)) @@ (s2 :> InRelease(t2, None, TRUE)),
  (s1 :> InRelease(t3, t1, TRUE)) @@ (s2 :> InRelease(t2, None, TRUE)),
  (s1 :> InRelease(t3, None, TRUE)) @@ (s2 :> InRelease(t1, t2, TRUE)),
  (s1 :> InRelease(t1, t3, TRUE)) @@ (s2 :> InRelease(t2, None, FALSE)),
  (s1 :> None) @@ (s2 :> InRelease(t2, None, TRUE)),
  (s1 :> InRelease(t2, None, TRUE)) @@ (s2 :> InRelease(t3, None, TRUE))}
\* t1 is a part of t2, t3 a prefix of it.
MCTier == (t1 :> ((t1 :> 0) @@ (t2 :> 3) @@ (t3 :> 3)))
       @@ (t2 :> ((t1 :> 2) @@ (t2 :> 0) @@ (t3 :> 1)))
       @@ (t3 :> ((t1 :> 3) @@ (t2 :> 3) @@ (t3 :> 0)))
MCApproved == (t1 :> s1) @@ (t2 :> s2) @@ (t3 :> s2)
MCFileOwner == (f1 :> u1) @@ (f2 :> u1) @@ (f3 :> u2)
Symmetry == Permutations({c1, c2}) \cup Permutations({n1, n2})
====
