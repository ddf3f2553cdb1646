\* The result of an action reaches the screen behind the error of a later event.
\* The instance stops at MaxRevision.
SPECIFICATION ScreenSpec
CONSTANTS
  Updaters = {run}
  Subscribers = {forwarder}
  Buffer = 2
  MaxRevision = 4
  Loop = run
  Forwarder = forwarder
  Dispatches = {d1}
  Errors = {e1}
  NoError = NoError
  NoOne = NoOne
INVARIANT SessionErrorVisible
CHECK_DEADLOCK FALSE
