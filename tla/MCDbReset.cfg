CONSTANTS
  Epochs = {e1, e2}
  Runs = {}
  Pushes = {p1}
  Pools = {"app"}
  Nobody = nobody
  Activators = {resume}
  ResumeTask = resume
  MaxReports = 0
  MaxResets = 1
SPECIFICATION FairSpec
PROPERTIES KeepsPromise ResetEnds
CHECK_DEADLOCK FALSE
