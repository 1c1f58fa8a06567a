\* Two writes and one lost or late reply.
SPECIFICATION LiveSpec
CONSTANTS
  MaxWrites = 2
  MaxFaults = 1
INVARIANTS WriteCovered FramesAccepted OutcomeHonest
PROPERTY CustodyEnds
