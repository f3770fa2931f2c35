---- MODULE Skills ----
(***************************************************************************)
(* The skill catalog and the skills of one profile: the reference-data     *)
(* upsert of prisma/seed/taxonomy.ts, suggestions of taxonomy.service.ts,  *)
(* profile-skills.ts and the one-time backfill of profile-skill-backfill.  *)
(*                                                                         *)
(* SkillNames are normalized terms (normalize-skill-term.ts: spelling that *)
(* differs in case or spaces is one term), so length and shape limits are  *)
(* left out.  A category is folded into its skills: one is active when     *)
(* both are.  Slugs are taken for the keys.                                *)
(***************************************************************************)
EXTENDS Naturals, SequencesExt, Slots

CONSTANTS
  SkillKeys,    \* sequence of the keys of skills, in catalog order
  SkillNames,   \* normalized terms
  Tier,         \* Tier[term][query]: 0 exact, 1 prefix, 2 contains, 3 no match
  Releases,     \* catalogs that are released, see Release
  Approved,     \* APPROVED_PROFILE_SKILL_MAP: from a term to a key or None
  SuggestCap,   \* EXPLORE_SEARCH_SKILL_CAP, the default limit of suggestions
  MaxSkills     \* SKILL_LIST_MAX

VARIABLES
  skillRows,    \* skills
  termRows,     \* skill_terms, by id
  profile       \* user_skills in order: text and the skill linked, or None

skilled == <<skillRows, termRows, profile>>

Keys == Range(SkillKeys)
TermIds == Keys \X {"canonical", "alias"}
\* A release has for each key nothing or a name, an alias and the active flag.
Release ==
  [Keys -> {None} \cup [name : SkillNames, alias : SkillNames \cup {None}, active : BOOLEAN]]

\* What a release says the rows of terms are.
TermOf(r, id) ==
  IF r[id[1]] = None THEN None
  ELSE IF id[2] = "canonical" THEN r[id[1]].name ELSE r[id[1]].alias

\* assertBootstrapTaxonomy: a term belongs to one skill, once.
WellFormed(r) ==
  \A i, j \in TermIds : TermOf(r, i) # None /\ TermOf(r, i) = TermOf(r, j) => i = j

Skill == [name : SkillNames, active : BOOLEAN]

ASSUME SkillsAssumption ==
  /\ SkillKeys \in Seq(Keys) /\ None \notin Keys \cup SkillNames \cup Skill
  /\ Releases \subseteq Release /\ \A r \in Releases : WellFormed(r)
  /\ \A t, q \in SkillNames : Tier[t][q] \in 0..3 /\ (Tier[t][q] = 0) = (t = q)
  /\ Approved \in [SkillNames -> Keys \cup {None}]
  /\ SuggestCap \in Nat \ {0} /\ MaxSkills \in Nat

SkillsInit ==
  /\ skillRows = [s \in Keys |-> None] /\ termRows = [id \in TermIds |-> None] /\ profile = <<>>

There(s) == skillRows[s] # None
Active(s) == There(s) /\ skillRows[s].active

----
(* The catalog. *)

\* writeTaxonomy: aliases removed from a seeded skill are deleted before any term is written;
\* then the terms are upserted in the order of the plan, each after a look for its text, which
\* may be nobody else's.
PlanOrder == [i \in 1..(2 * Len(SkillKeys)) |->
                <<SkillKeys[(i + 1) \div 2], IF i % 2 = 1 THEN "canonical" ELSE "alias">>]
Pruned(r) ==
  [id \in TermIds |-> IF r[id[1]] # None /\ TermOf(r, id) = None THEN None ELSE termRows[id]]

UpsertOnce(rows, id, t) == IF rows[id] = None THEN [rows EXCEPT ![id] = t] ELSE rows
Upsert(rows, id, t) == [rows EXCEPT ![id] = t]
WriteTerm(rows, id, t) ==
  IF t = None \/ rows = None THEN rows
  ELSE IF \E other \in TermIds \ {id} : rows[other] = t THEN None
  ELSE Upsert(rows, id, t)
TermsWritten(r) ==
  LET rows[i \in 0..Len(PlanOrder)] ==
        IF i = 0 THEN Pruned(r)
        ELSE WriteTerm(rows[i - 1], PlanOrder[i], TermOf(r, PlanOrder[i]))
  IN rows[Len(PlanOrder)]

\* seedTaxonomy is one transaction, and nothing when a term is taken.  A skill that a release
\* leaves out stays as it is.
SeedTaxonomy(r) ==
  /\ TermsWritten(r) # None
  /\ termRows' = TermsWritten(r)
  /\ skillRows' = [s \in Keys |-> IF r[s] = None THEN skillRows[s]
                                  ELSE [name |-> r[s].name, active |-> r[s].active]]
  /\ UNCHANGED <<profile, call>>

\* matchTerms and rankSkillSuggestions: a skill goes by its best term; skills are ranked by
\* tier and then by their order in the catalog, and the first few are taken.
TermsOf(s) == {termRows[id] : id \in {i \in TermIds : i[1] = s}} \ {None}
Matching(q) == {s \in Keys : Active(s) /\ \E t \in TermsOf(s) : Tier[t][q] < 3}
BestTier(s, q) == CHOOSE n \in {Tier[t][q] : t \in TermsOf(s)} :
                    \A t \in TermsOf(s) : n <= Tier[t][q]
Position(s) == CHOOSE i \in 1..Len(SkillKeys) : SkillKeys[i] = s
RanksBefore(s, z, q) ==
  \/ BestTier(s, q) < BestTier(z, q)
  \/ BestTier(s, q) = BestTier(z, q) /\ Position(s) < Position(z)
Suggested(q) ==
  {s \in Matching(q) : Cardinality({z \in Matching(q) : RanksBefore(z, s, q)}) < SuggestCap}

----
(* Saving the skills of the profile. *)

SkillRow(text, s) == [text |-> text, id |-> s]
Linked(rows) == {row.id : row \in Range(rows)} \ {None}
Customs(rows) == {row.text : row \in {z \in Range(rows) : z.id = None}}

\* collapse: one row for a skill, which takes the place of a custom row of the same text; no
\* custom row of a text that is there.
CollapseBeside(kept, d) ==
  IF d.id # None THEN IF d.id \in Linked(kept) THEN kept ELSE Append(kept, d)
  ELSE IF \E row \in Range(kept) : row.text = d.text THEN kept ELSE Append(kept, d)
Collapse(kept, d) ==
  LET same == {i \in 1..Len(kept) : kept[i].id = None /\ kept[i].text = d.text} IN
  IF d.id # None
  THEN IF d.id \in Linked(kept) THEN kept
       ELSE IF same # {} THEN [kept EXCEPT ![CHOOSE i \in same : TRUE] = d]
       ELSE Append(kept, d)
  ELSE IF \E row \in Range(kept) : row.text = d.text THEN kept ELSE Append(kept, d)
Collapsed(drafts) ==
  LET rows[i \in 0..Len(drafts)] == IF i = 0 THEN <<>> ELSE Collapse(rows[i - 1], drafts[i])
  IN rows[Len(drafts)]

\* The text of a canonical row: the skill's name, or what is stored once it is inactive.
Stored(s) == profile[CHOOSE i \in 1..Len(profile) : profile[i].id = s]
Canonical(s) ==
  SkillRow(IF Active(s) THEN skillRows[s].name
      ELSE IF s \in Linked(profile) THEN Stored(s).text ELSE skillRows[s].name, s)

\* linkedByText: of the linked rows with that text, or whose skill now has that name, the last.
LinkedByText(t) ==
  {i \in 1..Len(profile) :
     profile[i].id # None /\ (profile[i].text = t \/ skillRows[profile[i].id].name = t)}
ResolveLegacy(texts) ==
  Collapsed([i \in 1..Len(texts) |->
    IF LinkedByText(texts[i]) = {} THEN SkillRow(texts[i], None)
    ELSE LET last == CHOOSE j \in LinkedByText(texts[i]) : \A k \in LinkedByText(texts[i]) : k <= j
         IN Canonical(profile[last].id)])

\* A selection is a row with a skill or with a text.  What is refused: a skill that is unknown,
\* or inactive and new; a new text that is a term of an active skill.
MatchesTerm(t) == \E s \in Keys : Active(s) /\ t \in TermsOf(s)
RefusedText(t) == MatchesTerm(t)
RefusedNewText(t) == t \notin Customs(profile) /\ MatchesTerm(t)
Refused(sel) ==
  IF sel.id # None THEN ~There(sel.id) \/ (~Active(sel.id) /\ sel.id \notin Linked(profile))
  ELSE RefusedNewText(sel.text)
ResolveSelections(chosen) ==
  Collapsed([i \in 1..Len(chosen) |->
    IF chosen[i].id # None THEN Canonical(chosen[i].id) ELSE chosen[i]])

\* updateOwn writes the rows again under the lock of the user; (user, text) and (user, skill)
\* are unique, or "Those skills conflict", and there are at most so many.
Distinct(rows) ==
  \A i, j \in 1..Len(rows) :
    rows[i].text = rows[j].text \/ (rows[i].id # None /\ rows[i].id = rows[j].id) => i = j
Savable(rows) == Len(rows) <= MaxSkills /\ Distinct(rows)
Rewrite(rows) == Savable(rows) /\ profile' = rows /\ UNCHANGED <<skillRows, termRows, call>>
SaveLegacy == \E texts \in BoundedSeq(SkillNames, MaxSkills) : Rewrite(ResolveLegacy(texts))
Selections == {SkillRow(None, s) : s \in Keys} \cup {SkillRow(t, None) : t \in SkillNames}
SaveSelections ==
  \E chosen \in BoundedSeq(Selections, MaxSkills) :
    (\A sel \in Range(chosen) : ~Refused(sel)) /\ Rewrite(ResolveSelections(chosen))

----
(* The backfill, a script run once: a plan from one read, then a transaction for the user. *)

\* decideProfileSkillBackfill goes through the custom rows in order.
Decide(plan, row) ==
  LET s == Approved[row.text] IN
  IF row.id # None \/ s = None \/ s \in plan.claimed THEN plan
  ELSE IF ~Active(s) \/ (skillRows[s].name # row.text /\ skillRows[s].name \in plan.texts) THEN plan
  ELSE [links |-> Append(plan.links, [text |-> row.text, next |-> skillRows[s].name, id |-> s]),
        claimed |-> plan.claimed \cup {s}, texts |-> plan.texts \cup {skillRows[s].name}]
NoLinks == [links |-> <<>>, claimed |-> Linked(profile),
            texts |-> {row.text : row \in Range(profile)}]
Plan ==
  LET plan[i \in 0..Len(profile)] == IF i = 0 THEN NoLinks ELSE Decide(plan[i - 1], profile[i])
  IN plan[Len(profile)]
PlanBackfill(c) ==
  /\ Plan.links # <<>> /\ (\A other \in Calls : call[other] = Idle)
  /\ Begin(c, [step |-> "backfill", links |-> Plan.links])
  /\ UNCHANGED skilled

\* Each link updates the row of that text, whatever it has become; none there, or a row that is
\* not unique any more, undoes the user's links.
Relink(rows, link) ==
  LET at == {i \in 1..Len(rows) : rows[i].text = link.text} IN
  IF at = {} THEN <<>> ELSE [rows EXCEPT ![CHOOSE i \in at : TRUE] = SkillRow(link.next, link.id)]
Relinked(links) ==
  LET rows[i \in 0..Len(links)] == IF i = 0 THEN profile ELSE Relink(rows[i - 1], links[i])
  IN rows[Len(links)]
ApplyBackfill(c) ==
  /\ At(c, "backfill")
  /\ LET rows == Relinked(call[c].links) IN
     profile' = IF rows # <<>> /\ Distinct(rows) THEN rows ELSE profile
  /\ Finish(c) /\ UNCHANGED <<skillRows, termRows>>

SkillsNext ==
  \/ \E r \in Releases : SeedTaxonomy(r)
  \/ SaveLegacy \/ SaveSelections
  \/ \E c \in Calls : PlanBackfill(c) \/ ApplyBackfill(c)

----
\* A skill that is offered is found under the name it has now, before others that only contain
\* it, after any sequence of releases that rename skills and move aliases between them.
SkillsAreFoundByName == \A s \in Keys : Active(s) => s \in Suggested(skillRows[s].name)

\* An active skill of the profile has got the name that is stored for an inactive one.
NamesCollide ==
  \E i, j \in 1..Len(profile) :
    /\ profile[i].id # None /\ Active(profile[i].id)
    /\ profile[j].id # None /\ ~Active(profile[j].id)
    /\ skillRows[profile[i].id].name = profile[j].text

\* Whatever the catalog did to the names in between, a profile sent back as it was shown keeps
\* all its links and custom rows ("An existing custom row stays custom even if a later alias
\* would match it"), none of its selections is refused, and it is saved, but for one case: a
\* skill renamed to the text that is stored for an inactive skill of the same profile gives two
\* rows of one text, and the save is answered "Those skills conflict" until one of them is
\* dropped.  A list of texts "never creates a new canonical link".
SavedSkillsAreKept ==
  LET shown == [i \in 1..Len(profile) |->
                  IF profile[i].id # None THEN SkillRow(None, profile[i].id) ELSE profile[i]]
      kept == ResolveSelections(shown) IN
  /\ \A sel \in Range(shown) : ~Refused(sel)
  /\ Savable(kept) <=> ~NamesCollide
  /\ Linked(kept) = Linked(profile)
  /\ \A t \in Customs(profile) : \E row \in Range(kept) : row.text = t
  /\ \A texts \in BoundedSeq(SkillNames, MaxSkills) :
       Linked(ResolveLegacy(texts)) \subseteq Linked(profile)

\* What is offered is found under its name of today, and what a profile has saved survives
\* every release of the catalogue and can be saved again, but for names that collide.
SkillsHold == SkillsAreFoundByName /\ SavedSkillsAreKept
====
