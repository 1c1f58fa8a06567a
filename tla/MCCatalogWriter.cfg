\* Three threads, four tickets per class, with an external grant.
SPECIFICATION Spec
CONSTANTS
  t1 = t1
  t2 = t2
  t3 = t3
  Threads = {t1, t2, t3}
  NoThread = NoThread
  MaxTicket = 4
  HasExternal = TRUE
SYMMETRY Symmetry
INVARIANTS TypeOK SingleWriter TicketsAccounted RangesBounded
PROPERTIES OrderedAdmission ImplementsQueue
