CONSTANTS
  Epochs = {e1, e2}
  Runs = {}
  Pushes = {p1}
  Pools = {"app"}
  Nobody = nobody
  Activators = {resume}
  ResumeTask = resume
  MaxReports = 1
  MaxResets = 0
SPECIFICATION FairSpec
PROPERTIES JobsEnd CancelledEpochCloses ActivationReturns
CHECK_DEADLOCK FALSE
