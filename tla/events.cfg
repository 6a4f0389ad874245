\* Two set-ups, two contracts, two listeners, one of them perhaps registered twice.
SPECIFICATION Spec
CONSTANTS
  Hash = {before, after}
  Stream = {first, second}
  Listener = {f, g}
  None = none
  MaxDeploys = 1
  MaxListeners = 2
INVARIANTS TypeOK LatestStreamDelivers DueIsOnItsWay
PROPERTIES SetupsSettle DueEventsAreHeard
CHECK_DEADLOCK FALSE
