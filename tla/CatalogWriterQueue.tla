------------------------- MODULE CatalogWriterQueue -------------------------
(***************************************************************************)
(* CatalogWriter implements WriterQueue: the ticket numbers of the threads *)
(* that wait order the queues.                                             *)
(***************************************************************************)
EXTENDS CatalogWriter

\* The threads of W as a sequence, by their tickets in T.
InOrder(W, T) ==
  CHOOSE q \in [1 .. Cardinality(W) -> W] :
    \A i, j \in DOMAIN q : i < j => T[q[i]] < T[q[j]]

\* The queue each class's tickets stand for: its waiting threads by ticket.
WaitingIn(c) == {t \in Threads : Waiting(t) /\ class[t] = c}
QueueOf(c) == InOrder(WaitingIn(c), ticket)

Abstract == INSTANCE WriterQueue WITH
  holder <- owner,
  queue <- [c \in Classes |-> QueueOf(c)]

\* Tickets, ranges, passes of the loop and the two-step departure implement
\* two FIFO queues with a single holder.
ImplementsQueue == Abstract!Spec

=============================================================================
