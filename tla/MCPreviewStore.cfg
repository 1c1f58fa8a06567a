\* Two places, one of them with a second generation; a quota of two objects;
\* a crash or a damaged file.
SPECIFICATION StoreLiveSpec
CONSTANTS
  Slots = 2
  Objects = 3
  Roots = {home, other}
  Home = home
  Budget = 2
  MaxFaults = 1
INVARIANTS ReadyReadable ObjectsTracked
PROPERTIES ThumbnailsKept RelocationEnds
CHECK_DEADLOCK FALSE
