SPECIFICATION Spec
CONSTANTS
  Calls = {"Create"}
  MaxCalls = 1
  MaxConnects = 1
  MaxCallbacks = 1
  FederateCallbacks = {1}
  MaxSwitches = 0
INVARIANT NoUnexpectedMessage
CHECK_DEADLOCK FALSE
