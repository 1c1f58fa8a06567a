---------------------------- MODULE WriterQueue ----------------------------
(***************************************************************************)
(* What writer admission promises, without tickets, ranges or wakeups: two *)
(* FIFO queues and at most one holder.  A queued thread may abandon its    *)
(* place from any position; the head of the foreground queue is granted    *)
(* the catalog first, the head of the background queue only when the       *)
(* foreground queue is empty.                                              *)
(***************************************************************************)
EXTENDS Naturals, Sequences

CONSTANTS Threads, NoThread, Classes, Foreground

VARIABLES
  holder,   \* the thread writing to the catalog, or NoThread
  queue     \* the threads of each class that wait, oldest first

vars == <<holder, queue>>

Queued(t) == \E c \in Classes : \E i \in DOMAIN queue[c] : queue[c][i] = t

\* q without its i-th element.
Without(q, i) == [j \in 1 .. Len(q) - 1 |-> IF j < i THEN q[j] ELSE q[j + 1]]

Init ==
  /\ holder = NoThread
  /\ queue = [c \in Classes |-> << >>]

Join(t, c) ==
  /\ t # holder
  /\ ~Queued(t)
  /\ queue' = [queue EXCEPT ![c] = Append(@, t)]
  /\ UNCHANGED holder

Abandon(t, c) ==
  /\ \E i \in DOMAIN queue[c] :
       /\ queue[c][i] = t
       /\ queue' = [queue EXCEPT ![c] = Without(@, i)]
  /\ UNCHANGED holder

Grant(t, c) ==
  /\ holder = NoThread
  /\ queue[c] # << >>
  /\ t = Head(queue[c])
  /\ c = Foreground \/ queue[Foreground] = << >>
  /\ holder' = t
  /\ queue' = [queue EXCEPT ![c] = Tail(@)]

Free(t) ==
  /\ holder = t
  /\ holder' = NoThread
  /\ UNCHANGED queue

Next ==
  \E t \in Threads :
    \/ \E c \in Classes : Join(t, c) \/ Abandon(t, c) \/ Grant(t, c)
    \/ Free(t)

Spec == Init /\ [][Next]_vars

=============================================================================
