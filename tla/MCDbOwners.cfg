CONSTANTS
  Epochs = {e1, e2}
  Runs = {r1}
  Pushes = {}
  Pools = {"app", "signal"}
  Nobody = nobody
  Activators = {startup, resume}
  ResumeTask = resume
  MaxReports = 2
  MaxResets = 0
SPECIFICATION Spec
INVARIANTS TypeOK NativeOwnsUnderPermit ReadyOwnsPools ClosedIsReleased
PROPERTIES KeepsPromise
CHECK_DEADLOCK FALSE
SYMMETRY EpochSymmetry
