---- MODULE Labels ----
(***************************************************************************)
(* The category of one job listing (a service is written the same way):    *)
(* custom-category.ts, canonical-taxonomy.ts, taxonomy.service.ts and the  *)
(* backfill of listings from before there was a catalog.                   *)
(*                                                                         *)
(* Edits lock the row and read the catalog in their transaction: one step. *)
(* Of the catalog (Skills) only what is active and the categories' names   *)
(* count here.  Positions, the limit of ten skills and new names of        *)
(* categories are left out.                                                *)
(***************************************************************************)
EXTENDS FiniteSets, Slots

CONSTANTS
  Categories, OtherCategory,   \* categories, and the one with OTHER_CATEGORY_ID
  Design,              \* the category that the backfill looks for, and its name
  Words,               \* texts: names of categories and what users write
  TagSkills,           \* skills, which SAFE_JOB_SKILL_NAMES allows
  Omitted              \* a field that an edit does not send

ASSUME LabelsAssumption ==
  /\ {OtherCategory, Design} \subseteq Categories /\ OtherCategory # Design
  /\ Categories \subseteq Words /\ {None, Omitted} \cap Words = {} /\ None # Omitted
  /\ \A s \in SUBSET TagSkills : s # Omitted

VARIABLES
  offered,   \* active categories
  inUse,     \* active skills
  tagged     \* the listing: category, custom text, label (explore_tag) and skills

labelling == <<offered, inUse, tagged>>

\* A category goes by its own name; a listing without a category is an old one, whose label
\* and skills are whatever was typed: here those that the backfill knows.
Old == [category |-> None, custom |-> None, label |-> Design, skills |-> {}]
LabelsInit ==
  /\ offered = Categories /\ inUse = TagSkills /\ tagged = Old

CatalogSwitch ==
  /\ offered' \in {cs \in SUBSET Categories : OtherCategory \in cs}
  /\ inUse' \in SUBSET TagSkills
  /\ offered' # offered \/ inUse' # inUse
  /\ UNCHANGED <<tagged, call>>

\* What an edit sends; of the custom text also null, None.
Edit == [category : Categories \cup {Omitted}, custom : Words \cup {None, Omitted},
         skills : (SUBSET TagSkills) \cup {Omitted}]
Resulting(k) == IF k.category = Omitted THEN tagged.category ELSE k.category

\* resolveCanonicalTaxonomy: what is linked already may stay though it is inactive.
CategoryAccepted(k) == k.category \in offered \cup {tagged.category, Omitted}
SkillsAccepted(k) == k.skills # Omitted => k.skills \subseteq inUse \cup tagged.skills

\* decideCustomCategory: a text is for Other alone, and not the name of a category on offer;
\* Other needs one.  Refused, or what is then stored.
CustomAccepted(k) ==
  LET other == Resulting(k) = OtherCategory IN
  \/ k.custom \in Words /\ other /\ k.custom \notin offered
  \/ k.custom = None /\ ~other
  \/ k.custom = Omitted /\ (other => tagged.custom # None)
KeptWhenOmitted(k) == IF k.custom = Omitted THEN tagged.custom ELSE k.custom
Custom(k) ==
  IF k.custom # Omitted THEN k.custom
  ELSE IF Resulting(k) = OtherCategory THEN tagged.custom ELSE None

\* taxonomyColumnPatch: the label follows the category sent, or a text sent alone.
Label(k) ==
  IF k.category = Omitted THEN IF k.custom \in Words THEN k.custom ELSE tagged.label
  ELSE IF k.category = OtherCategory THEN Custom(k) ELSE k.category

Accepted(k) == CategoryAccepted(k) /\ SkillsAccepted(k) /\ CustomAccepted(k)
UpdateTags ==
  /\ \E k \in Edit :
       /\ Accepted(k)
       /\ tagged' = [category |-> Resulting(k), custom |-> Custom(k), label |-> Label(k),
                     skills |-> IF k.skills = Omitted THEN tagged.skills ELSE k.skills]
  /\ UNCHANGED <<offered, inUse, call>>

\* planServiceJobBackfill, of a script run once, for this listing with the names of skills it
\* was typed with.
PlanTags(c) ==
  /\ tagged.category = None /\ tagged.label = Design
  /\ \A other \in Calls : call[other] = Idle
  /\ \E typed \in SUBSET TagSkills :
       LET links == IF tagged.skills = {} THEN typed \cap inUse ELSE {} IN
       /\ Design \in offered \/ links # {}
       /\ Begin(c, [step |-> "tag", category |-> IF Design \in offered THEN Design ELSE None,
                    links |-> links])
  /\ UNCHANGED labelling

\* The script's transaction looks at the category again, and at the number of skills.
Planned(k) == k.category # None
StillUnlabelled(k) == k.category # None /\ tagged.category = None /\ tagged.label = Design
ApplyTags(c) ==
  /\ At(c, "tag")
  /\ tagged' = [tagged EXCEPT
       !.category = IF StillUnlabelled(call[c]) THEN call[c].category ELSE @,
       !.skills = IF @ = {} THEN call[c].links ELSE @]
  /\ Finish(c) /\ UNCHANGED <<offered, inUse>>

LabelsNext ==
  \/ CatalogSwitch \/ UpdateTags
  \/ \E c \in Calls : PlanTags(c) \/ ApplyTags(c)

----
\* However edits that send some of the fields and the backfill follow each other, Other has a
\* description and no other category one, and the label in the lists is that of the category;
\* and the owner can always send the listing back as it is, or choose anything on offer.
LabelsAgree ==
  /\ tagged.category = OtherCategory <=> tagged.custom # None
  /\ tagged.category = OtherCategory => tagged.label = tagged.custom
  /\ tagged.category \in Categories \ {OtherCategory} => tagged.label = tagged.category
  /\ tagged.category # None =>
       Accepted([category |-> tagged.category, custom |-> Omitted, skills |-> tagged.skills])
  /\ \A g \in offered \ {OtherCategory} :
       Accepted([category |-> g, custom |-> Omitted, skills |-> inUse])
====
