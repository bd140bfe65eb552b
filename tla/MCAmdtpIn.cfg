SPECIFICATION Spec
CONSTANTS
  Modes <- MCModes
INVARIANTS LossIsNoticed MidiPortIsRight PointersAreRight
