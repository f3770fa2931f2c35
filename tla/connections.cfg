\* Two users, two calls at a time, any of them lost anywhere.
SPECIFICATION Spec
CONSTANTS
  None = None
  Low = Low
  High = High
  c1 = c1
  c2 = c2
  Calls = {c1, c2}
INVARIANTS
  OneRelationship
PROPERTIES
  RelationshipSpec
  ActivationIsNotifiedOnce
  EveryCallIsAnswered
