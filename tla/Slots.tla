---- MODULE Slots ----
(***************************************************************************)
(* The API calls in flight, shared by the modules composed in Records.  A  *)
(* call is a record with the step it is at and what it carries; it starts  *)
(* in a free slot, goes from database call to database call and ends.  No  *)
(* step is ever forced: a call lost in a crash is one that stays where it  *)
(* is.                                                                     *)
(***************************************************************************)
EXTENDS FiniteSets

CONSTANTS Calls, None

ASSUME CallsAssumption == IsFiniteSet(Calls)

VARIABLE call

Idle == [step |-> "idle"]
SlotsInit == call = [c \in Calls |-> Idle]

Begin(c, k) == call[c] = Idle /\ call' = [call EXCEPT ![c] = k]
Goto(c, step) == call' = [call EXCEPT ![c].step = step]
Finish(c) == call' = [call EXCEPT ![c] = Idle]
At(c, step) == call[c].step = step
====
