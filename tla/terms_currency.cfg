\* One price, one add-on, one day: proposing no price drops the currency of the request.
SPECIFICATION Spec
CONSTANTS
  Nothing = Nothing
  Absent = Absent
  Amounts = {5}
  AddonAmounts = {3}
  Dates <- MCDates
  Durations = {1}
  MaxDuration = 1
  MaxRange = 31
INVARIANTS CurrencyFrozen
CHECK_DEADLOCK FALSE
