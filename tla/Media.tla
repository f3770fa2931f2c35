---- MODULE Media ----
(***************************************************************************)
(* Media assets (media.service.ts over prisma-media-asset.repository.ts)   *)
(* and the storage they point at (supabase.service.ts): a session, one     *)
(* upload the server does not see, and the completion that compares what   *)
(* was stored with what was promised.  Reviews and Invoices extend this    *)
(* module: they use the same assets.                                       *)
(***************************************************************************)
EXTENDS Naturals, FiniteSets, Slots

CONSTANTS
  Assets,     \* media assets
  Owner,      \* the owner of an asset, when it is opened
  Purpose     \* its purpose: review, other, or invoice, which only the server creates

ASSUME MediaAssumption ==
  /\ DOMAIN Owner = Assets /\ Purpose \in [Assets -> {"review", "other", "invoice"}]
  /\ None \notin Assets

VARIABLES
  asset,   \* status of each asset, none before its session
  stored   \* what storage holds under its key: nothing, or a file as declared (good) or not

media == <<asset, stored>>

AssetStatus == {"none", "pending", "ready", "failed"}

MediaInit ==
  /\ asset = [a \in Assets |-> "none"]
  /\ stored = [a \in Assets |-> "nothing"]

SetAsset(a, status) == asset' = [asset EXCEPT ![a] = status]

----
\* createUploadSession: the row, before the signed upload, which may still fail; the server's
\* own purposes, types and sizes are refused (an asset here stands for an accepted one).
CreateUploadSession(a) ==
  /\ Purpose[a] # "invoice" /\ asset[a] = "none"
  /\ SetAsset(a, "pending")
  /\ UNCHANGED <<stored, call>>

\* The client puts a file under the signed key, once (upsert: false), of the declared size
\* and type or not.
PutObject(a, what) ==
  /\ Purpose[a] # "invoice" /\ asset[a] # "none" /\ stored[a] = "nothing"
  /\ stored' = [stored EXCEPT ![a] = what]
  /\ UNCHANGED <<asset, call>>

\* The verdict of completeUpload on what getStoredObjectMeta found.
VerdictUnchecked(what) == IF what = "nothing" THEN "failed" ELSE "ready"
Verdict(what) == IF what = "good" THEN "ready" ELSE "failed"

\* completeUpload up to the answer of storage; a ready asset is answered as it is, and
\* nothing is decided when storage cannot be read.
CompleteUpload(c, a) ==
  /\ Purpose[a] # "invoice" /\ asset[a] \in {"pending", "failed"}
  /\ Begin(c, [step |-> "complete", asset |-> a, verdict |-> Verdict(stored[a])])
  /\ UNCHANGED media

\* markReady or markFailed, whatever the asset has become meanwhile.
MarkAsset(c) ==
  /\ At(c, "complete")
  /\ SetAsset(call[c].asset, call[c].verdict)
  /\ Finish(c)
  /\ UNCHANGED stored

MediaNext ==
  \/ \E a \in Assets : CreateUploadSession(a) \/ \E w \in {"good", "bad"} : PutObject(a, w)
  \/ \E c \in Calls : MarkAsset(c) \/ \E a \in Assets : CompleteUpload(c, a)

----
\* requireReadyOwnedAssets.
ReadyOwned(u, S) == \A a \in S : asset[a] = "ready" /\ Owner[a] = u

\* getSignedUrlForAsset, resolveUrlForAsset: a URL for ready assets only.
HasUrl(a) == asset[a] = "ready"

MediaTypeOK ==
  /\ asset \in [Assets -> AssetStatus]
  /\ stored \in [Assets -> {"nothing", "good", "bad"}]

\* An asset is offered for use only when storage holds the file its session promised, though
\* completions overlap with the upload and with one another (completeUpload).
ReadyWasStored == \A a \in Assets : asset[a] = "ready" => stored[a] = "good"
====
