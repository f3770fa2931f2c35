\* Two members, one of them linked to the account, two commands or requests at a time.
SPECIFICATION Spec
CONSTANTS
  None = None
  s1 = s1
  s2 = s2
  c1 = c1
  c2 = c2
  Members = {s1, s2}
  Linked = {s2}
  Calls = {c1, c2}
SYMMETRY Symmetry
PROPERTIES
  OperatorsRemain
  OnlyActiveOperatorsAct
  NoAccountChangeOnStaleView
CHECK_DEADLOCK FALSE
