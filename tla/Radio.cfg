SPECIFICATION FairSpec
CONSTANTS
  S = S
  R = R
  MaxFrames = 3
  MaxFaults = 2
INVARIANTS
  TypeOK
  ModeTracksChip
  AcksAreEarned
  NoFrameUnnoticed
PROPERTIES
  SpiExclusive
  KeepsListening
\* The sender has no more frames to send, and its peer may be starved.
CHECK_DEADLOCK FALSE
