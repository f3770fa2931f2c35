---- MODULE Attachments ----
(***************************************************************************)
(* The files of one work request: marketplace.service.ts over              *)
(* prisma-marketplace.repository.ts.  Both parties add files and remove    *)
(* their own; each call reads the request, then the files, then writes,    *)
(* while the request goes on.  The request's own handlers are the module   *)
(* WorkRequests; here only what they mean for its files is told apart.     *)
(***************************************************************************)
EXTENDS Naturals, FiniteSets, Slots

CONSTANTS
  Files,            \* assets of purpose work_request, ready
  FileOwner,        \* the party that uploaded each
  MaxAttachments    \* MAX_WORK_REQUEST_ATTACHMENTS

ASSUME AttachmentsAssumption == DOMAIN FileOwner = Files /\ MaxAttachments \in Nat \ {0}

VARIABLES
  stage,       \* what the request and its engagement allow
  attached,    \* the row of each file: none, live, or removed (deleted_at)
  evidence     \* history: the files at the last delivery, and the calls then under way

filing == <<stage, attached, evidence>>

FileParties == {FileOwner[f] : f \in Files}
LiveFiles == {f \in Files : attached[f] = "live"}
Writing == {c \in Calls : call[c].step \in {"readFiles", "attach", "detach"}}

AttachmentsInit ==
  /\ stage = "open"
  /\ attached = [f \in Files |-> "none"]
  /\ evidence = [files |-> {}, calls |-> 0]

\* The request is accepted, paid, delivered, returned for revision, or ends without a deal.
NextStages ==
  [open |-> {"agreed", "closed"}, agreed |-> {"delivered", "closed"},
   delivered |-> {"agreed"}, closed |-> {}]
MoveStage ==
  /\ stage' \in NextStages[stage]
  /\ evidence' = IF stage' = "delivered"
                 THEN [files |-> LiveFiles, calls |-> Cardinality(Writing)] ELSE evidence
  /\ UNCHANGED <<attached, call>>

\* assertAttachmentsMutable: not once delivered, not when the request was rejected or withdrawn.
AttachmentsMutableUntilClosed == stage # "closed"
AttachmentsMutable == stage \in {"open", "agreed"}

\* addWorkRequestAttachment: the request and the asset, which must be the caller's; then the
\* files there are; then the insert, which the unique key refuses for a removed file too.
AddAttachment(c, f) ==
  /\ AttachmentsMutable
  /\ Begin(c, [step |-> "readFiles", file |-> f]) /\ UNCHANGED filing

CountedOwn(f) == {g \in LiveFiles : FileOwner[g] = FileOwner[f]}
Counted(f) == LiveFiles
ListForLimit(c) ==
  LET f == call[c].file IN
  /\ At(c, "readFiles")
  /\ IF Cardinality(Counted(f)) < MaxAttachments /\ f \notin LiveFiles
     THEN Goto(c, "attach") ELSE Finish(c)
  /\ UNCHANGED filing

CreateAttachment(c) ==
  /\ At(c, "attach")
  /\ attached' = [attached EXCEPT ![call[c].file] = IF @ = "none" THEN "live" ELSE @]
  /\ Finish(c) /\ UNCHANGED <<stage, evidence>>

\* removeWorkRequestAttachment, by the party that added the file.
RemoveAttachment(c, u, f) ==
  /\ AttachmentsMutable /\ f \in LiveFiles /\ FileOwner[f] = u
  /\ Begin(c, [step |-> "detach", file |-> f]) /\ UNCHANGED filing
SoftDeleteAttachment(c) ==
  /\ At(c, "detach")
  /\ attached' = [attached EXCEPT ![call[c].file] = "removed"]
  /\ Finish(c) /\ UNCHANGED <<stage, evidence>>

AttachmentsNext ==
  \/ MoveStage
  \/ \E c \in Calls :
       \/ ListForLimit(c) \/ CreateAttachment(c) \/ SoftDeleteAttachment(c)
       \/ \E f \in Files :
            \/ AddAttachment(c, f) \/ \E u \in FileParties : RemoveAttachment(c, u, f)

----
\* The limit holds but for the calls that counted at once: each adds one file at most, however
\* often files are removed and added meanwhile (the count is read before the insert).
LimitHoldsUpToOverlap == Cardinality(LiveFiles) <= MaxAttachments + Cardinality(Calls) - 1

\* What was delivered is evidence: the files of a delivered request differ from those at the
\* delivery in no more places than calls were under way then (assertAttachmentsMutable reads
\* the status before the write).
EvidenceStands ==
  stage = "delivered" =>
    Cardinality((LiveFiles \ evidence.files) \cup (evidence.files \ LiveFiles)) <= evidence.calls

\* The files of a request keep to its limit but for overlapping counts, and stand as evidence
\* once delivered but for the calls then under way.
AttachmentsHold == LimitHoldsUpToOverlap /\ EvidenceStands
====
