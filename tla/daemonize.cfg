\* Two tools start, stop and signal daemons side by side; init runs one more.
SPECIFICATION FairSpec
CONSTANTS
  Launch = {l1, l2, l3}
  Orphan = {l3}
  Nobody = Nobody
  Tool = {t1, t2}
  Kinds = {"start", "stop", "signal"}
  MaxCommands = 3
INVARIANTS TypeOK OneDaemon SuccessExplained
PROPERTIES LaunchEnds
CHECK_DEADLOCK FALSE
