CONSTANTS
  Callers = {c1, c2}
  Binaries = {"good", "bad"}
  Valid = {"good"}
  Pids = {1, 2}
  MaxCalls = 3
  MaxCrashes = 1

SPECIFICATION ValidatorSpec

INVARIANTS
  NothingLeftBehind

PROPERTIES
  AcceptedIsValid
  OnlyOwnFiles
  CallReturns

CHECK_DEADLOCK FALSE
