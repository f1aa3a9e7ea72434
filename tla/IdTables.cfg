SPECIFICATION Spec
CONSTANTS
  a = a
  b = b
  c = c
  d = d
  v = v
  Keys = {a, b, c, d}
  Values = {v}
  NoKey = NoKey
  NoValue = NoValue
  Hashes = {1, 7}
  InitialCapacity = 2
  Lists <- MCLists
  MaxFailures = 1
INVARIANTS TypeOK LookupFinds LookupEnds OneSlotPerKey
PROPERTIES IsDictionary OperationEnds
CHECK_DEADLOCK FALSE
