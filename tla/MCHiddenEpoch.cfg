CONSTANTS
  Epochs = {e1, e2}
  Runs = {}
  Pushes = {}
  Pools = {"app", "signal"}
  Nobody = nobody
  Activators = {resume}
  ResumeTask = resume
  MaxReports = 2
  MaxResets = 0
SPECIFICATION Spec
INVARIANTS HiddenIsCancelled
CHECK_DEADLOCK FALSE
