SPECIFICATION Spec
CONSTANTS
  MidiPorts = {"rx"}
  MaxCount = 2
  MaxErrors = 1
  MaxResets = 1
INVARIANTS StreamsMatchUse DeadIsAborted
PROPERTIES SuccessRuns
