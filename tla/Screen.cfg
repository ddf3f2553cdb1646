\* The loop and one background goroutine, one slot in the channel, one action at
\* a time; the fourth revision can only be the last.
\* The program ends; the instance stops at MaxRevision.
SPECIFICATION FairScreenSpec
CONSTANTS
  Updaters = {run, media}
  Subscribers = {fwd}
  Buffer = 1
  MaxRevision = 4
  Loop = run
  Forwarder = fwd
  Dispatches = {d1}
  Errors = {e1}
  NoError = NoError
  NoOne = NoOne
INVARIANTS ResendHasRoom NoSendAfterCancel NewestUnlessOvertaken DraftKept ClosingIsExplained
PROPERTIES SessionEndQuits MainReturns
CHECK_DEADLOCK FALSE
