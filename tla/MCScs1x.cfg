SPECIFICATION ScsSpec
CONSTANTS
  MaxPacket = 5
  Prefix <- MCPrefix
  MidiBytes <- MCMidiBytes
  DevicePackets <- MCDevicePackets
  MaxQueued = 2
VIEW MCView
INVARIANTS OneCommandPerPacket EscapeRoundTrip
PROPERTIES WaitMeansSent WaitsReturn
CHECK_DEADLOCK FALSE
