SPECIFICATION FairSpec
CONSTANTS
  Calls = {"Create", "Join", "Resign", "Handles"}
  MaxCalls = 2
  MaxConnects = 2
  MaxCallbacks = 2
  FederateCallbacks = {1}
  MaxSwitches = 1
INVARIANT NoCallbackWhenDisconnected
PROPERTY CallbacksDelivered
PROPERTY DisconnectReturns
\* A federate need not call, and the server need not send anything.
CHECK_DEADLOCK FALSE
