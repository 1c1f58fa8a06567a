\* Notifications alone serve every waiter: no fairness on the poll timeout.
SPECIFICATION LiveSpec
CONSTANTS
  t1 = t1
  t2 = t2
  t3 = t3
  Threads = {t1, t2, t3}
  NoThread = NoThread
  MaxTicket = 2
  HasExternal = FALSE
PROPERTY WaitersServed
CHECK_DEADLOCK FALSE
