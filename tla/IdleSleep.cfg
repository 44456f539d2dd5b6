\* The decorator where the code has it.
SPECIFICATION Spec
CONSTANTS
  Scheduled = "runningStreamIds"
  IdleMins = 3
  MaxViewers = 2
PROPERTY IdleStreamSleeps
