CONSTANT Pids = {7, 9}
SPECIFICATION Spec
INVARIANTS
  TypeOK
  NothingLost
  SortedByPidAfterPass
  OutputsWhole
