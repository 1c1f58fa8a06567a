--------------------------- MODULE CatalogWriter ---------------------------
(***************************************************************************)
(* In-process admission to a catalog's SQLite writer (src/catalog_writer). *)
(*                                                                         *)
(* Threads draw a ticket in one of two classes and wait on one condition   *)
(* variable.  The head of the foreground class is admitted first; the      *)
(* head of the background class only when no foreground ticket is          *)
(* outstanding.  A waiter that was canceled or whose deadline passed       *)
(* retires its ticket from wherever it stands in the queue; retired        *)
(* tickets are kept as coalesced inclusive ranges and skipped when the     *)
(* serving counter reaches them.                                           *)
(*                                                                         *)
(* `lock' is the mutex around State.  A thread keeps it from drawing its   *)
(* ticket through its first pass of the admission loop, and gives it up    *)
(* when it blocks, fails or is admitted.                                   *)
(***************************************************************************)
EXTENDS Integers, FiniteSets

CONSTANTS
  Threads,      \* threads that write to one catalog
  NoThread,     \* the None of State.owner
  MaxTicket,    \* u64::MAX: the ticket that is never handed out
  HasExternal   \* whether Writers was built by with_external

ASSUME ThreadsAssumption == IsFiniteSet(Threads) /\ NoThread \notin Threads
ASSUME TicketAssumption  == MaxTicket \in Nat
ASSUME ExternalAssumption == HasExternal \in BOOLEAN

VARIABLES
  lock,      \* holder of the mutex between two steps of one critical section
  owner,     \* State.owner
  next,      \* State.next: the next ticket of each class
  serving,   \* State.serving: the ticket of each class to admit next
  retired,   \* State.retired: the inclusive ranges of abandoned tickets
  pc,        \* where each thread is in enter_checked / Permit::drop
  class,     \* class of the thread's current request
  ticket,    \* WaitingTicket.ticket of the thread's current request
  polls,     \* the request has a cancel flag or deadline: wait_timeout
  leases     \* threads whose Permit holds an ExternalLease

vars == <<lock, owner, next, serving, retired, pc, class, ticket, polls, leases>>

Foreground == 0
Background == 1
Classes == {Foreground, Background}

TicketRange == [first : Nat, last : Nat]

(***************************************************************************)
(* Thread states.  asleep: in Condvar::wait; woken: about to run a pass of *)
(* the loop; leaving: a check failed, State unlocked, WaitingTicket::drop  *)
(* not yet run; admitted: owner set, external grant not yet obtained;      *)
(* holding: the Permit is with the caller; closing: Permit::drop released  *)
(* the external lease and has not yet cleared the owner.                   *)
(***************************************************************************)
ThreadStates == {"idle", "asleep", "woken", "leaving", "admitted", "holding", "closing"}

Waiting(t) == pc[t] \in {"asleep", "woken", "leaving"}
Admitted(t) == pc[t] \in {"admitted", "holding", "closing"}

\* Disjoint ranges of tickets in low .. high - 1 with a gap between any two.
WellFormed(R, low, high) ==
  /\ \A r \in R : low <= r.first /\ r.first <= r.last /\ r.last < high
  /\ \A r, q \in R : r # q => r.last + 1 < q.first \/ q.last + 1 < r.first

-----------------------------------------------------------------------------
(* State::advance_retired and State::retire, on one class's counters.      *)

Covered(R) == UNION {r.first .. r.last : r \in R}

\* The ranges the loop of advance_retired removes: those reachable from the
\* serving counter through retired tickets only.
Passed(s, R) == {r \in R : \A k \in s .. r.last : k \in Covered(R)}

AdvancedServing(s, R) ==
  IF Passed(s, R) = {} THEN s
  ELSE 1 + (CHOOSE r \in Passed(s, R) : \A q \in Passed(s, R) : q.last <= r.last).last

AdvancedRetired(s, R) == R \ Passed(s, R)

\* Mutant: retire records the ticket without joining its neighbours.
JoinedApart(R, k) == R \cup {[first |-> k, last |-> k]}

\* The range map after retire(ticket = k) joined k with its neighbours.
Joined(R, k) ==
  LET below == {r \in R : r.last + 1 = k}
      above == {r \in R : r.first = k + 1}
      start == IF below = {} THEN k ELSE (CHOOSE r \in below : TRUE).first
      end   == IF above = {} THEN k ELSE (CHOOSE r \in above : TRUE).last
  IN  (R \ (below \cup above)) \cup {[first |-> start, last |-> end]}

\* State::retire: nothing to do for a ticket already inside a range.
RetiredServing(s, R, k) ==
  IF k \in Covered(R) THEN s ELSE AdvancedServing(s, Joined(R, k))
RetiredRanges(s, R, k) ==
  IF k \in Covered(R) THEN R ELSE AdvancedRetired(s, Joined(R, k))

-----------------------------------------------------------------------------
Init ==
  /\ lock = NoThread
  /\ owner = NoThread
  /\ next = [c \in Classes |-> 0]
  /\ serving = [c \in Classes |-> 0]
  /\ retired = [c \in Classes |-> {}]
  /\ pc = [t \in Threads |-> "idle"]
  /\ class = [t \in Threads |-> Foreground]
  /\ ticket = [t \in Threads |-> 0]
  /\ polls = [t \in Threads |-> FALSE]
  /\ leases = {}

\* Mutant: only the thread itself moves, nobody is woken.
NotifyNobody(t, to) == [pc EXCEPT ![t] = to]

\* pc once thread t moved to `to' and Condvar::notify_all woke the sleepers.
NotifyAll(t, to) ==
  [u \in Threads |-> IF u = t THEN to ELSE IF pc[u] = "asleep" THEN "woken" ELSE pc[u]]

\* Mutant: the last ticket is handed out too.
EnterUnchecked(t, c, polling) ==
  /\ lock = NoThread
  /\ pc[t] = "idle"
  /\ owner # t
  /\ next[c] <= MaxTicket
  /\ lock' = t
  /\ next' = [next EXCEPT ![c] = @ + 1]
  /\ ticket' = [ticket EXCEPT ![t] = next[c]]
  /\ class' = [class EXCEPT ![t] = c]
  /\ polls' = [polls EXCEPT ![t] = polling]
  /\ pc' = NotifyAll(t, "woken")
  /\ UNCHANGED <<owner, serving, retired, leases>>

\* enter_checked up to the loop: draw a ticket, wake everyone, keep the mutex.
\* A request already canceled, past its deadline, recursive, or finding the
\* tickets exhausted returns an error and changes nothing.
Enter(t, c, polling) ==
  /\ lock = NoThread
  /\ pc[t] = "idle"
  /\ owner # t
  /\ next[c] < MaxTicket
  /\ lock' = t
  /\ next' = [next EXCEPT ![c] = @ + 1]
  /\ ticket' = [ticket EXCEPT ![t] = next[c]]
  /\ class' = [class EXCEPT ![t] = c]
  /\ polls' = [polls EXCEPT ![t] = polling]
  /\ pc' = NotifyAll(t, "woken")
  /\ UNCHANGED <<owner, serving, retired, leases>>

\* The thread runs a pass of the loop: it has the mutex or can take it.
InLoop(t) == pc[t] = "woken" /\ lock \in {NoThread, t}

\* The serving counters and ranges a pass works with: both classes advanced.
Serving == [c \in Classes |-> AdvancedServing(serving[c], retired[c])]
Ranges  == [c \in Classes |-> AdvancedRetired(serving[c], retired[c])]

\* Mutants: the loop ends without looking at the owner; at the foreground
\* queue; at the ticket's turn.
MayEnterOwned(t) ==
  /\ Serving[class[t]] = ticket[t]
  /\ class[t] = Foreground \/ next[Foreground] = Serving[Foreground]
MayEnterPastForeground(t) ==
  /\ owner = NoThread
  /\ Serving[class[t]] = ticket[t]
MayEnterOutOfTurn(t) ==
  /\ owner = NoThread
  /\ class[t] = Foreground \/ next[Foreground] = Serving[Foreground]

\* The condition that ends the loop.
MayEnter(t) ==
  /\ owner = NoThread
  /\ Serving[class[t]] = ticket[t]
  /\ class[t] = Foreground \/ next[Foreground] = Serving[Foreground]

\* The loop breaks: the thread becomes the owner, and its Permit is complete
\* unless an external grant has to be obtained first.
Admit(t) ==
  /\ InLoop(t)
  /\ MayEnter(t)
  /\ serving' = [Serving EXCEPT ![class[t]] = @ + 1]
  /\ retired' = Ranges
  /\ owner' = t
  /\ pc' = [pc EXCEPT ![t] = IF HasExternal THEN "admitted" ELSE "holding"]
  /\ lock' = NoThread
  /\ UNCHANGED <<next, class, ticket, polls, leases>>

\* The loop goes round: block on the condition variable, releasing the mutex.
Sleep(t) ==
  /\ InLoop(t)
  /\ ~MayEnter(t)
  /\ serving' = Serving
  /\ retired' = Ranges
  /\ pc' = [pc EXCEPT ![t] = "asleep"]
  /\ lock' = NoThread
  /\ UNCHANGED <<owner, next, class, ticket, polls, leases>>

\* A pass finds the cancel flag set or the deadline passed.
GiveUp(t) ==
  /\ InLoop(t)
  /\ polls[t]
  /\ pc' = [pc EXCEPT ![t] = "leaving"]
  /\ lock' = NoThread
  /\ UNCHANGED <<owner, next, serving, retired, class, ticket, polls, leases>>

\* Mutant: the waiter goes without retiring its ticket.
LeaveSilently(t) ==
  /\ pc[t] = "leaving"
  /\ lock = NoThread
  /\ pc' = NotifyAll(t, "idle")
  /\ UNCHANGED <<lock, owner, next, serving, retired, class, ticket, polls, leases>>

\* WaitingTicket::drop: retire the ticket, then wake everyone.
Leave(t) ==
  /\ pc[t] = "leaving"
  /\ lock = NoThread
  /\ LET c == class[t] IN
       /\ serving' = [serving EXCEPT ![c] = RetiredServing(@, retired[c], ticket[t])]
       /\ retired' = [retired EXCEPT ![c] = RetiredRanges(serving[c], @, ticket[t])]
  /\ pc' = NotifyAll(t, "idle")
  /\ UNCHANGED <<lock, owner, next, class, ticket, polls, leases>>

\* wait_timeout returns after at most 50 ms.
Timeout(t) ==
  /\ pc[t] = "asleep"
  /\ polls[t]
  /\ pc' = [pc EXCEPT ![t] = "woken"]
  /\ UNCHANGED <<lock, owner, next, serving, retired, class, ticket, polls, leases>>

\* ExternalAdmission::acquire returned a lease.
Grant(t) ==
  /\ pc[t] = "admitted"
  /\ pc' = [pc EXCEPT ![t] = "holding"]
  /\ leases' = leases \cup {t}
  /\ UNCHANGED <<lock, owner, next, serving, retired, class, ticket, polls>>

\* ExternalAdmission::acquire failed: the Permit without a lease is dropped.
Refuse(t) ==
  /\ pc[t] = "admitted"
  /\ lock = NoThread
  /\ owner' = NoThread
  /\ pc' = NotifyAll(t, "idle")
  /\ UNCHANGED <<lock, next, serving, retired, class, ticket, polls, leases>>

\* Permit::drop, first half: give the external lease back.
Close(t) ==
  /\ pc[t] = "holding"
  /\ pc' = [pc EXCEPT ![t] = "closing"]
  /\ leases' = leases \ {t}
  /\ UNCHANGED <<lock, owner, next, serving, retired, class, ticket, polls>>

\* Permit::drop, second half: clear the owner, wake everyone.
Release(t) ==
  /\ pc[t] = "closing"
  /\ lock = NoThread
  /\ owner' = NoThread
  /\ pc' = NotifyAll(t, "idle")
  /\ UNCHANGED <<lock, next, serving, retired, class, ticket, polls, leases>>

\* Writers::wake_waiters: called, without the mutex, by whoever cancels.
WakeWaiters ==
  /\ pc' = [u \in Threads |-> IF pc[u] = "asleep" THEN "woken" ELSE pc[u]]
  /\ UNCHANGED <<lock, owner, next, serving, retired, class, ticket, polls, leases>>

Next ==
  \/ WakeWaiters
  \/ \E t \in Threads :
       \/ \E c \in Classes, polling \in BOOLEAN : Enter(t, c, polling)
       \/ Admit(t)
       \/ Sleep(t)
       \/ GiveUp(t)
       \/ Leave(t)
       \/ Timeout(t)
       \/ Grant(t)
       \/ Refuse(t)
       \/ Close(t)
       \/ Release(t)

\* A thread that can run keeps running, blocked waiters run only when woken,
\* and a caller eventually drops its Permit.  Nothing forces a request to be
\* made, a cancellation to happen or an external grant to fail.
Fairness ==
  \A t \in Threads :
    WF_vars(Admit(t) \/ Sleep(t) \/ Leave(t) \/ Grant(t) \/ Close(t) \/ Release(t))

Spec == Init /\ [][Next]_vars
LiveSpec == Spec /\ Fairness

-----------------------------------------------------------------------------
\* The shapes of the admission state; no counter passes u64::MAX, so neither
\* `serving + 1' nor `end + 1' can overflow.
TypeOK ==
  /\ lock \in Threads \cup {NoThread}
  /\ owner \in Threads \cup {NoThread}
  /\ next \in [Classes -> Nat]
  /\ \A c \in Classes : next[c] <= MaxTicket
  /\ serving \in [Classes -> Nat]
  /\ retired \in [Classes -> SUBSET TicketRange]
  /\ pc \in [Threads -> ThreadStates]
  /\ class \in [Threads -> Classes]
  /\ ticket \in [Threads -> Nat]
  /\ polls \in [Threads -> BOOLEAN]
  /\ leases \in SUBSET Threads

\* At most one thread is past admission, it is the recorded owner, and an
\* external lease is held only under that ownership: the local permit covers
\* the parent's grant from before it is acquired until after it is released.
SingleWriter ==
  /\ \A t \in Threads : Admitted(t) <=> owner = t
  /\ \A t \in leases : owner = t /\ pc[t] = "holding"

\* No ticket is ever lost: each one that was drawn and not yet served belongs
\* to exactly one waiting thread or lies in a retired range, and not both.  A
\* ticket that is neither would block its class, and behind it every
\* background writer, for good.
TicketsAccounted ==
  \A c \in Classes :
    /\ serving[c] <= next[c]
    /\ \A k \in serving[c] .. (next[c] - 1) :
         \/ k \in Covered(retired[c])
         \/ \E t \in Threads : Waiting(t) /\ class[t] = c /\ ticket[t] = k
    /\ \A t \in Threads :
         Waiting(t) /\ class[t] = c =>
           /\ ticket[t] \in serving[c] .. (next[c] - 1)
           /\ ticket[t] \notin Covered(retired[c])
           /\ \A u \in Threads :
                Waiting(u) /\ class[u] = c /\ ticket[u] = ticket[t] => u = t

\* The range map is a set of disjoint, maximal runs of retired tickets among
\* those not yet served.
RangesWellFormed ==
  \A c \in Classes : WellFormed(retired[c], serving[c], next[c])

\* The range map stays proportional to the live waiters however many requests
\* are canceled ("repeated canceled requests behind one live waiter occupy
\* only one range"): at most one range behind each waiter of the class, and
\* one at its head after an admission that has not been advanced yet.
RangesBounded ==
  \A c \in Classes :
    Cardinality(retired[c]) <= 1 + Cardinality({t \in Threads : Waiting(t) /\ class[t] = c})

\* Admission order: whoever becomes the owner was the oldest waiter of its
\* class, and a background writer is admitted only when no foreground request
\* is waiting.
OrderedAdmission ==
  [][\A t \in Threads :
       owner' = t /\ owner # t =>
         \A u \in Threads \ {t} :
           Waiting(u) =>
             \/ class[u] = class[t] /\ ticket[t] < ticket[u]
             \/ class[u] # class[t] /\ class[t] = Foreground]_vars

\* No lost wakeup: a request that waits is eventually admitted or gives up,
\* even one that never polls and runs only when it is notified.
WaitersServed == \A t \in Threads : Waiting(t) ~> ~Waiting(t)

=============================================================================
