-------------------------- MODULE MigrationGrants --------------------------
(***************************************************************************)
(* One Lightroom migration, between three processes.  The helper (LM) runs *)
(* the migration and asks for the right to write, transaction by           *)
(* transaction; the desktop's supervisor (G) relays the request to the     *)
(* catalog process (C), in which a thread of its own waits for the         *)
(* catalog's writer and holds it until the release.  The helper may crash  *)
(* or hang at any place, the user may stop the job, the deadline may pass, *)
(* the catalog may be asked to close, and replies of C may be lost: the    *)
(* writer has to stay with C while a transaction of the helper can still   *)
(* be open, and has to come back in every case.                            *)
(*                                                                         *)
(* C's writer is WriterQueue, what CatalogWriter is shown to implement,    *)
(* shared with one foreground writer of the application.  The model begins *)
(* when the target was acquired.  Bootstrap and catalog writes follow the  *)
(* same protocol and are not told apart; lock frames, memory and result    *)
(* grants, progress and the source broker are left out, except that they   *)
(* may end the operation (SupervisorFails).                                *)
(***************************************************************************)
EXTENDS Naturals, Sequences

CONSTANTS
  MaxWrites,   \* write requests of the helper
  MaxFaults    \* lost or late replies of the catalog process

ASSUME BoundsAssumption == MaxWrites \in Nat /\ MaxFaults \in Nat

Permit == "permit"        \* C's thread migration-catalog-permit
Other  == "other"         \* a foreground writer of the application
Foreground == "foreground"
Background == "background"
NoThread == "nobody"

VARIABLES
  \* the helper
  lm,         \* where its work stands
  sequence,   \* Controls::sequence, the last write it asked for
  granted,    \* Waiting::granted
  canceled,   \* Audit: canceled or poisoned
  wrote,      \* history: a transaction of the helper was committed
  \* the pipes between helper and supervisor
  toG, toLM,
  \* the supervisor
  g,          \* running, draining, target or done
  admitted, terminal, nextWrite, attempted, releasing,
  control,    \* Running::control, a frame not sent yet
  reaped,     \* Owned::lm_drained
  failure,    \* none, known or unknown: Failure and its outcome_unknown
  retryFailed,\* DrainPending::last_retry_failed
  waiter,     \* the thread migration-admission
  \* the relay to the catalog process
  submission, \* Acquisition::state
  lane,       \* the request on the authority lane
  \* the catalog process
  target,     \* Admission::target is there
  closing,    \* Target::canceled
  attempt,    \* Target::attempt with its permit owner
  holder, queue,  \* the catalog's writer
  \* the surroundings
  stop, expired, refused, faults

helperVars == <<lm, sequence, granted, canceled, wrote>>
pipeVars   == <<toG, toLM>>
stateVars  == <<admitted, terminal, nextWrite, attempted, releasing>>
superVars  == <<g, stateVars, control, reaped, failure, retryFailed>>
relayVars  == <<submission, lane>>
catalogVars == <<target, closing, attempt>>
writerVars == <<holder, queue>>
envVars    == <<stop, expired, refused, faults>>
vars == <<helperVars, pipeVars, superVars, waiter, relayVars, catalogVars,
          writerVars, envVars>>

Writer == INSTANCE WriterQueue
            WITH Threads <- {Permit, Other}, Classes <- {Foreground, Background}

Empty == [at |-> "empty"]
NoAttempt == [sequence |-> 0, owner |-> "none", release |-> FALSE, cancel |-> FALSE]
Frame(kind, n) == [kind |-> kind, sequence |-> n]

(* execute_operation_with_result_budget after the target was acquired      *)
Init ==
  /\ lm = "starting" /\ sequence = 0 /\ granted = FALSE
  /\ canceled = FALSE /\ wrote = FALSE
  /\ toG = << >> /\ toLM = << >>
  /\ g = "running" /\ admitted = FALSE /\ terminal = "none" /\ nextWrite = 1
  /\ attempted = 0 /\ releasing = FALSE /\ control = Empty /\ reaped = FALSE
  /\ failure = "none" /\ retryFailed = FALSE /\ waiter = "none"
  /\ submission = "never" /\ lane = Empty
  /\ target = TRUE /\ closing = FALSE /\ attempt = NoAttempt
  /\ Writer!Init
  /\ stop = FALSE /\ expired = FALSE /\ refused = FALSE /\ faults = 0

---------------------------------------------------------------------------
(* The helper: serve, Grants::acquire, Lease::release, Controls::accept.   *)

Exited == lm \in {"ended", "crashed"}

(* A step of the helper's work: its next place and the frame it publishes  *)
Publishes(next, frame) ==
  /\ lm' = next
  /\ toG' = Append(toG, frame)

LmRest == UNCHANGED <<toLM, superVars, waiter, relayVars, catalogVars,
                      writerVars, envVars>>

LmAdmits ==
  /\ lm = "starting"
  /\ Publishes("working", Frame("Admitted", 0))
  /\ UNCHANGED <<sequence, granted, canceled, wrote>>
  /\ LmRest

NeedWrite ==
  /\ lm = "working" /\ ~canceled /\ sequence < MaxWrites
  /\ sequence' = sequence + 1
  /\ granted' = FALSE
  /\ Publishes("waiting", Frame("NeedWrite", sequence + 1))
  /\ UNCHANGED <<canceled, wrote>>
  /\ LmRest

Enters ==
  /\ lm = "waiting" /\ granted /\ ~canceled
  /\ lm' = "writing"
  /\ UNCHANGED <<sequence, granted, canceled, wrote, toG>>
  /\ LmRest

(* Cancellation, or a destination that does not verify after the grant     *)
GivesUp ==
  /\ lm = "waiting"
  /\ granted \/ canceled
  /\ canceled' = TRUE
  /\ Publishes("closing", Frame("Failed", 0))
  /\ UNCHANGED <<sequence, granted, wrote>>
  /\ LmRest

Commits ==
  /\ lm = "writing" /\ ~wrote
  /\ wrote' = TRUE
  /\ UNCHANGED <<lm, sequence, granted, canceled, toG>>
  /\ LmRest

ReleaseWrite ==
  /\ lm = "writing"
  /\ Publishes("working", Frame("ReleaseWrite", sequence))
  /\ granted' = FALSE
  /\ UNCHANGED <<sequence, canceled, wrote>>
  /\ LmRest

Finishes ==
  /\ lm = "working" /\ ~canceled
  /\ Publishes("closing", Frame("Finished", 0))
  /\ UNCHANGED <<sequence, granted, canceled, wrote>>
  /\ LmRest

(* publish_failure, also of inputs that were not admitted                  *)
Fails ==
  /\ lm \in {"starting", "working"}
  /\ Publishes("closing", Frame("Failed", 0))
  /\ UNCHANGED <<sequence, granted, canceled, wrote>>
  /\ LmRest

Exits ==
  /\ lm = "closing"
  /\ lm' = "ended"
  /\ UNCHANGED <<sequence, granted, canceled, wrote, toG>>
  /\ LmRest

LmCrash ==
  /\ ~Exited
  /\ lm' = "crashed"
  /\ UNCHANGED <<sequence, granted, canceled, wrote, toG>>
  /\ LmRest

(* Only a grant for exactly the write that waits is accepted; any other    *)
(* poisons the helper.                                                     *)
Solicited(frame) ==
  lm = "waiting" /\ frame.sequence = sequence /\ ~granted

Listens ==
  /\ ~Exited /\ toLM # << >>
  /\ toLM' = Tail(toLM)
  /\ LET frame == Head(toLM)
         accepted == frame.kind = "Grant" /\ ~canceled /\ Solicited(frame)
     IN  /\ granted' = (granted \/ accepted)
         /\ canceled' = (canceled \/ ~accepted)
         /\ refused' = (refused \/ (frame.kind = "Grant" /\ ~canceled /\ ~accepted))
  /\ UNCHANGED <<lm, sequence, wrote, toG, superVars, waiter, relayVars,
                 catalogVars, writerVars, stop, expired, faults>>

LmNext ==
  \/ LmAdmits \/ NeedWrite \/ Enters \/ GivesUp \/ Commits \/ ReleaseWrite
  \/ Finishes \/ Fails \/ Exits \/ LmCrash \/ Listens

---------------------------------------------------------------------------
(* The catalog process: one actor, which takes recovery requests first,    *)
(* and the permit thread.                                                  *)

(* Phase of Target::snapshot as Proxy::acquire reads it                    *)
Phase == IF attempt.owner \in {"queued", "verifying"} THEN "attempted" ELSE attempt.owner

Joined(owner) == owner \in {"none", "released", "failed"}

(* AcquireWrite is refused before it is recorded when the target is        *)
(* canceled or gone or the permit before it was not released.              *)
Acquirable(n) ==
  /\ target /\ ~closing
  /\ attempt.sequence < n
  /\ attempt.owner \in {"none", "released"}

Replied(reply) == lane' = [lane EXCEPT !.at = "replied", !.reply = reply]

(* A reply that does not fit is replaced by an error after the action      *)
Answers(reply) ==
  \/ Replied(reply) /\ UNCHANGED faults
  \/ /\ faults < MaxFaults
     /\ Replied("error")
     /\ faults' = faults + 1

CatalogRest ==
  UNCHANGED <<helperVars, pipeVars, superVars, waiter, submission, stop,
              expired, refused>>

Acquires ==
  /\ lane.at = "queued" /\ lane.kind = "acquire"
  /\ ~lane.cancel /\ Acquirable(lane.sequence)
  /\ \/ /\ attempt' = [sequence |-> lane.sequence, owner |-> "queued",
                       release |-> FALSE, cancel |-> FALSE]
        /\ Writer!Join(Permit, Background)
        /\ Answers("attempted")
     \/ /\ attempt' = [sequence |-> lane.sequence, owner |-> "failed",
                       release |-> FALSE, cancel |-> FALSE]
        /\ Answers("failed")
        /\ UNCHANGED writerVars
  /\ UNCHANGED <<target, closing>>
  /\ CatalogRest

(* Also one that was canceled or grew too old in the actor's queue         *)
RefusesAcquire ==
  /\ lane.at = "queued" /\ lane.kind = "acquire"
  /\ Replied("refused")
  /\ UNCHANGED <<catalogVars, writerVars, faults>>
  /\ CatalogRest

Recovers ==
  /\ lane.at = "queued" /\ lane.kind = "recover"
  /\ IF target /\ attempt.sequence = lane.sequence
     THEN Answers(Phase)
     ELSE Replied("refused") /\ UNCHANGED faults
  /\ UNCHANGED <<catalogVars, writerVars>>
  /\ CatalogRest

(* Close while the migration holds the target                              *)
CatalogCloses ==
  /\ target /\ ~closing
  /\ closing' = TRUE
  /\ attempt' = [attempt EXCEPT !.cancel = TRUE]
  /\ UNCHANGED <<target, lane, writerVars, faults>>
  /\ CatalogRest

PermitRest == UNCHANGED <<target, closing, lane, faults>> /\ CatalogRest

PermitEnters ==
  /\ attempt.owner = "queued"
  /\ Writer!Grant(Permit, Background)
  /\ attempt' = [attempt EXCEPT !.owner = "verifying"]
  /\ PermitRest

PermitAbandons ==
  /\ attempt.owner = "queued" /\ attempt.cancel
  /\ Writer!Abandon(Permit, Background)
  /\ attempt' = [attempt EXCEPT !.owner = "failed"]
  /\ PermitRest

PermitHolds ==
  /\ attempt.owner = "verifying"
  /\ attempt' = [attempt EXCEPT !.owner = "held"]
  /\ UNCHANGED writerVars
  /\ PermitRest

PermitUnverified ==
  /\ attempt.owner = "verifying"
  /\ attempt' = [attempt EXCEPT !.owner = "failed"]
  /\ Writer!Free(Permit)
  /\ PermitRest

(* Cancellation does not release a held permit, only release does          *)
PermitReleases ==
  /\ attempt.owner = "held" /\ attempt.release
  /\ attempt' = [attempt EXCEPT !.owner = "released"]
  /\ Writer!Free(Permit)
  /\ PermitRest

OtherEnters == \/ Writer!Join(Other, Foreground)
               \/ Writer!Grant(Other, Foreground)
OtherLeaves == Writer!Free(Other)

OtherRest == UNCHANGED catalogVars /\ UNCHANGED <<lane, faults>> /\ CatalogRest

CatalogNext ==
  \/ Acquires \/ RefusesAcquire \/ Recovers \/ CatalogCloses
  \/ PermitEnters \/ PermitAbandons \/ PermitHolds \/ PermitUnverified
  \/ PermitReleases
  \/ (OtherEnters \/ OtherLeaves) /\ OtherRest

---------------------------------------------------------------------------
(* The supervisor's admission thread: CatalogAdmission::writer,            *)
(* Writers::enter_cancellable with WriterProxy, Proxy::acquire.            *)

Waiting == waiter \in {"submitting", "awaiting", "polling"}
Ready   == waiter \in {"granted", "denied"}

WaiterRest ==
  UNCHANGED <<helperVars, pipeVars, superVars, catalogVars, writerVars, stop,
              expired, refused>>

Submits ==
  /\ waiter = "submitting" /\ ~stop
  /\ lane' = [at |-> "queued", kind |-> "acquire", sequence |-> attempted,
              first |-> TRUE, cancel |-> FALSE, reply |-> "none"]
  /\ submission' = "submitted"
  /\ waiter' = "awaiting"
  /\ UNCHANGED faults
  /\ WaiterRest

(* record_reply: only the refusal of a first submission proves that C has  *)
(* no such attempt.                                                        *)
Recorded ==
  CASE lane.reply \in {"attempted", "held", "released", "failed"} -> "acknowledged"
    [] lane.reply = "refused" /\ lane.first -> "refused"
    [] OTHER -> "submitted"

Received(phase) ==
  CASE phase = "held" -> "granted"
    [] phase = "attempted" -> "polling"
    [] OTHER -> "denied"

AwaitedReply ==
  /\ waiter = "awaiting" /\ lane.at = "replied"
  /\ submission' = Recorded
  /\ waiter' = Received(lane.reply)
  /\ lane' = Empty
  /\ UNCHANGED faults
  /\ WaiterRest

(* Status, with a reply that may be lost                                   *)
PollsStatus ==
  /\ waiter = "polling"
  /\ \/ /\ Received(Phase) # waiter
        /\ waiter' = Received(Phase)
        /\ UNCHANGED faults
     \/ /\ faults < MaxFaults
        /\ waiter' = "denied"
        /\ faults' = faults + 1
  /\ UNCHANGED relayVars
  /\ WaiterRest

(* Stop or deadline; a request on the lane stays there, canceled by Stop.  *)
(* Before the request nothing reaches C, also when the relay is closed.    *)
WaiterGivesUp ==
  /\ Waiting
  /\ stop \/ expired \/ waiter = "submitting"
  /\ waiter' = "denied"
  /\ lane' = IF waiter = "awaiting" /\ stop THEN [lane EXCEPT !.cancel = TRUE] ELSE lane
  /\ UNCHANGED <<submission, faults>>
  /\ WaiterRest

WaiterNext == Submits \/ AwaitedReply \/ PollsStatus \/ WaiterGivesUp

---------------------------------------------------------------------------
(* The supervisor: Running::poll and State::accept.                        *)

(* Mutant: asks only whether a write is held *)
FailureWhileHeld ==
  IF waiter = "holding" /\ terminal = "none" THEN "unknown" ELSE "known"

(* failure_for_owner: what an admitted helper did is unknown without its   *)
(* terminal frame.                                                         *)
FailureForOwner ==
  IF admitted /\ terminal = "none" THEN "unknown" ELSE "known"

Breaks == g' = "draining" /\ failure' = FailureForOwner

SuperRest ==
  UNCHANGED <<helperVars, catalogVars, writerVars, expired>>

SupervisorFails ==
  /\ g = "running"
  /\ Breaks
  /\ UNCHANGED <<stateVars, control, reaped, retryFailed, waiter, pipeVars,
                 relayVars, stop, refused, faults>>
  /\ SuperRest

(* Mutant: reads on while a release is pending *)
PollingAnyway == g = "running"

(* The early return of poll while a release is not confirmed               *)
Polling == g = "running" /\ ~releasing

SendsControl ==
  /\ Polling /\ control # Empty
  /\ toLM' = Append(toLM, control)
  /\ control' = Empty
  /\ UNCHANGED <<g, stateVars, reaped, failure, retryFailed, waiter, toG,
                 relayVars, stop, refused, faults>>
  /\ SuperRest

PollAdmission ==
  /\ Polling /\ control = Empty /\ Ready
  /\ \/ /\ waiter = "granted"
        /\ waiter' = "holding"
        /\ nextWrite' = nextWrite + 1
        /\ control' = Frame("Grant", attempted)
        /\ UNCHANGED <<g, failure>>
     \/ /\ waiter = "denied"
        /\ waiter' = "none"
        /\ Breaks
        /\ UNCHANGED <<nextWrite, control>>
  /\ UNCHANGED <<admitted, terminal, attempted, releasing, reaped, retryFailed,
                 pipeVars, relayVars, stop, refused, faults>>
  /\ SuperRest

(* The checks of State::accept                                             *)
Acceptable(frame) ==
  /\ terminal = "none"
  /\ ~releasing
  /\ CASE frame.kind = "Admitted" -> ~admitted
       [] frame.kind = "Failed" -> TRUE
       [] frame.kind = "NeedWrite" ->
            admitted /\ frame.sequence = nextWrite /\ waiter = "none" /\ attempted = 0
       [] frame.kind = "ReleaseWrite" ->
            admitted /\ waiter = "holding" /\ frame.sequence = attempted
       [] frame.kind = "Finished" -> admitted /\ waiter = "none" /\ attempted = 0

Accepts(frame) ==
  /\ admitted' = (admitted \/ frame.kind = "Admitted")
  /\ terminal' = CASE frame.kind = "Finished" -> "ok"
                   [] frame.kind = "Failed" -> "failed"
                   [] OTHER -> terminal
  /\ releasing' = (frame.kind = "ReleaseWrite")
  /\ IF frame.kind = "NeedWrite"
     THEN attempted' = frame.sequence /\ waiter' = "submitting" /\ submission' = "never"
     ELSE UNCHANGED <<attempted, waiter, submission>>
  /\ UNCHANGED <<g, failure, nextWrite, refused>>

Receives ==
  /\ Polling /\ control = Empty /\ toG # << >>
  /\ toG' = Tail(toG)
  /\ \/ Acceptable(Head(toG)) /\ Accepts(Head(toG))
     \/ /\ ~Acceptable(Head(toG))
        /\ Breaks
        /\ refused' = TRUE
        /\ UNCHANGED <<stateVars, waiter, submission>>
  /\ UNCHANGED <<control, reaped, retryFailed, toLM, lane, stop, faults>>
  /\ SuperRest

(* The end of the pipe and try_reap                                        *)
HelperEnded ==
  /\ Polling /\ control = Empty /\ toG = << >> /\ Exited
  /\ g' = "draining"
  /\ failure' = IF lm = "ended" /\ terminal = "ok" THEN "none" ELSE FailureForOwner
  /\ UNCHANGED <<stateVars, control, reaped, retryFailed, waiter, pipeVars,
                 relayVars, stop, refused, faults>>
  /\ SuperRest

---------------------------------------------------------------------------
(* Custody: State::retry_release, Owned::retry_drain, Proxy::absent and    *)
(* CatalogAdmission::poll_release.                                         *)

(* Mutant: releases before the helper is reaped *)
RetiresEarly ==
  \/ g = "running" /\ releasing
  \/ g = "draining" /\ ~retryFailed

(* A running supervisor releases a write the helper ended; a draining one  *)
(* whatever was attempted, after the helper was reaped.                    *)
Retires ==
  \/ g = "running" /\ releasing
  \/ g = "draining" /\ reaped /\ ~retryFailed

(* revoke_all: Cancel, stop of the waiting thread, kill                    *)
Revokes ==
  /\ g = "draining" /\ ~reaped /\ ~Exited
  /\ \/ /\ \A i \in DOMAIN toLM : toLM[i].kind # "Cancel"
        /\ ~canceled
        /\ toLM' = Append(toLM, Frame("Cancel", 0))
        /\ UNCHANGED lm
     \/ lm' = "crashed" /\ UNCHANGED toLM
  /\ stop' = (stop \/ Waiting \/ Ready)
  /\ UNCHANGED <<sequence, granted, canceled, wrote, toG, superVars, waiter,
                 relayVars, catalogVars, writerVars, expired, refused, faults>>

Reaps ==
  /\ g = "draining" /\ ~reaped /\ Exited
  /\ reaped' = TRUE
  /\ stop' = (stop \/ Waiting \/ Ready)
  /\ UNCHANGED <<g, stateVars, control, failure, retryFailed, waiter, pipeVars,
                 relayVars, refused, faults>>
  /\ SuperRest

(* The admission thread ends once it is ready: its token holds nothing.    *)
(* The error of a denied one is kept for the rest of the call.             *)
RetiresWaiter ==
  /\ Retires /\ waiter \in {"granted", "denied", "holding"}
  /\ waiter' = IF waiter = "denied" THEN "erred" ELSE "none"
  /\ UNCHANGED <<superVars, pipeVars, relayVars, stop, refused, faults>>
  /\ SuperRest

Settling == Retires /\ waiter \in {"none", "erred"} /\ attempted # 0

(* The waiter's error is then a drain fault, which leaves the outcome known*)
Settled ==
  /\ attempted' = 0
  /\ releasing' = FALSE
  /\ waiter' = "none"
  /\ UNCHANGED <<g, failure, retryFailed>>

(* An error leaves the running state, or waits for a retry of the drain    *)
NotSettled ==
  /\ IF g = "running"
     THEN Breaks /\ UNCHANGED retryFailed
     ELSE retryFailed' = TRUE /\ failure' = "unknown" /\ UNCHANGED g
  /\ waiter' = "none"
  /\ UNCHANGED <<attempted, releasing>>

(* The call goes on, or ends with Ok(false) and is made again              *)
StillSettling == UNCHANGED <<g, attempted, releasing, failure, retryFailed, waiter>>

SettleRest ==
  /\ UNCHANGED <<helperVars, pipeVars, admitted, terminal, nextWrite, control,
                 reaped, target, closing, writerVars, stop, expired, refused>>

(* Nothing was submitted or C refused it                                   *)
Absent == submission \in {"never", "refused"}

SettlesAbsent ==
  /\ Settling /\ Absent
  /\ Settled
  /\ UNCHANGED <<relayVars, attempt, faults>>
  /\ SettleRest

(* RecoverWrite asks for the attempt, and can never make one               *)
AsksRecovery ==
  /\ Settling /\ submission = "submitted" /\ lane = Empty
  /\ lane' = [at |-> "queued", kind |-> "recover", sequence |-> attempted,
              first |-> FALSE, cancel |-> FALSE, reply |-> "none"]
  /\ StillSettling
  /\ UNCHANGED <<submission, attempt, faults>>
  /\ SettleRest

CancelsAcquire ==
  /\ Settling /\ submission = "submitted"
  /\ lane.at = "queued" /\ lane.first /\ ~lane.cancel
  /\ lane' = [lane EXCEPT !.cancel = TRUE]
  /\ StillSettling
  /\ UNCHANGED <<submission, attempt, faults>>
  /\ SettleRest

RecoveredReply ==
  /\ Settling /\ submission = "submitted" /\ lane.at = "replied"
  /\ submission' = Recorded
  /\ lane' = Empty
  /\ IF Recorded = "submitted" THEN NotSettled ELSE StillSettling
  /\ UNCHANGED <<attempt, faults>>
  /\ SettleRest

(* No answer within 100 ms                                                 *)
SettlesLate ==
  /\ Settling /\ ~Absent /\ faults < MaxFaults
  /\ NotSettled
  /\ faults' = faults + 1
  /\ UNCHANGED <<relayVars, attempt>>
  /\ SettleRest

(* Mutant: a permit that still waits is not canceled *)
ReleaseWithoutCancel == [attempt EXCEPT !.release = TRUE]

(* PermitOwner::release                                                    *)
ReleasePermit == [attempt EXCEPT !.release = TRUE, !.cancel = TRUE]

(* ReleaseWrite: only a joined permit thread counts as released.  Pending  *)
(* ends the call with the error of the waiter, when there was one.         *)
CallsRelease ==
  /\ Settling /\ submission = "acknowledged"
  /\ attempt' = ReleasePermit
  /\ \/ /\ Joined(attempt.owner)
        /\ Settled
        /\ UNCHANGED faults
     \/ /\ ~Joined(attempt.owner)
        /\ IF waiter = "erred" THEN NotSettled ELSE attempt' # attempt /\ StillSettling
        /\ UNCHANGED faults
     \/ /\ faults < MaxFaults
        /\ NotSettled
        /\ faults' = faults + 1
  /\ UNCHANGED relayVars
  /\ SettleRest

(* The user retries the drain, or the desktop stops                        *)
RetriesDrain ==
  /\ retryFailed
  /\ retryFailed' = FALSE
  /\ UNCHANGED <<g, stateVars, control, reaped, failure, waiter, pipeVars,
                 relayVars, stop, refused, faults>>
  /\ SuperRest

Drained ==
  /\ g = "draining" /\ reaped /\ ~retryFailed
  /\ waiter = "none" /\ attempted = 0
  /\ g' = "target"
  /\ UNCHANGED <<stateVars, control, reaped, failure, retryFailed, waiter,
                 pipeVars, relayVars, stop, refused, faults>>
  /\ SuperRest

(* DrainOperation, repeated until C confirms; its reply may be lost        *)
DrainsTarget ==
  /\ g = "target"
  /\ closing' = TRUE
  /\ attempt' = ReleasePermit
  /\ target' = (target /\ ~Joined(attempt.owner))
  /\ \/ /\ g' = IF target' THEN "target" ELSE "done"
        /\ g' = "done" \/ attempt' # attempt
        /\ UNCHANGED faults
     \/ /\ faults < MaxFaults
        /\ faults' = faults + 1
        /\ UNCHANGED g
  /\ UNCHANGED <<helperVars, pipeVars, stateVars, control, reaped, failure,
                 retryFailed, waiter, relayVars, writerVars, stop, expired,
                 refused>>

SuperProgress ==
  \/ SendsControl \/ PollAdmission \/ Receives \/ HelperEnded
  \/ Revokes \/ Reaps \/ RetiresWaiter \/ SettlesAbsent \/ AsksRecovery
  \/ CancelsAcquire \/ RecoveredReply \/ SettlesLate \/ CallsRelease
  \/ Drained \/ DrainsTarget

SuperNext == SupervisorFails \/ SuperProgress \/ RetriesDrain

EnvRest == UNCHANGED <<helperVars, pipeVars, superVars, waiter, relayVars,
                       catalogVars, writerVars, refused, faults>>

Stop     == ~stop /\ stop' = TRUE /\ UNCHANGED expired /\ EnvRest
Deadline == ~expired /\ expired' = TRUE /\ UNCHANGED stop /\ EnvRest

Next == LmNext \/ CatalogNext \/ WaiterNext \/ SuperNext \/ Stop \/ Deadline

Spec == Init /\ [][Next]_vars

(* Nothing is assumed of the helper: it may hang at any place, with a      *)
(* transaction open.  The deadline passes, a kill ends the process, the    *)
(* supervisor's loop and its thread run, the actor takes requests, a       *)
(* waiting writer notices, and a foreground writer ends.  Nothing is       *)
(* assumed of the retry of a failed drain: it is the user's.               *)
Fairness ==
  /\ WF_vars(Deadline)
  /\ WF_vars(SupervisorFails /\ expired)
  /\ WF_vars(Revokes /\ lm' = "crashed")
  /\ WF_vars(SuperProgress)
  /\ WF_vars(Waiting /\ WaiterNext)
  /\ WF_vars(Acquires \/ RefusesAcquire \/ Recovers)
  /\ WF_vars(PermitEnters \/ PermitAbandons)
  /\ WF_vars(PermitHolds \/ PermitUnverified \/ PermitReleases)
  /\ WF_vars(Writer!Grant(Other, Foreground) /\ OtherRest)
  /\ WF_vars(OtherLeaves /\ OtherRest)

LiveSpec == Spec /\ Fairness

---------------------------------------------------------------------------
(* While the helper can have a transaction open, C's permit for exactly    *)
(* that write holds the catalog's writer: whatever crashed, was stopped,   *)
(* expired or was lost, no other writer gets in between.                   *)
WriteCovered ==
  lm = "writing" =>
    /\ holder = Permit
    /\ attempt.owner = "held" /\ attempt.sequence = sequence

(* No side takes an honest frame of the other for a violation: State::     *)
(* accept refuses no frame of the helper, and Controls::accept no grant of *)
(* the supervisor to a helper that was not canceled.                       *)
FramesAccepted == ~refused

(* A reported result is true: Complete only when the helper finished and   *)
(* exited, and a failure whose outcome is called known, without a terminal *)
(* frame of the helper, only when the helper committed nothing.            *)
OutcomeHonest ==
  g \in {"target", "done"} =>
    /\ failure = "none" => lm = "ended" /\ terminal = "ok"
    /\ failure = "known" /\ terminal = "none" => ~wrote

(* A migration whose failed drains are retried ends with C's permit given  *)
(* back and its thread joined.  A foreground writer that waits meanwhile   *)
(* is served without any retry, unless a reply of C was lost, although the *)
(* helper may hang in a transaction and other writers keep coming.         *)
CustodyEnds ==
  /\ []<>~retryFailed =>
       <>(g = "done" /\ ~target /\ holder # Permit /\ queue[Background] = << >>)
  /\ (queue[Foreground] # << >>) ~> (holder = Other \/ (retryFailed /\ faults > 0))

=============================================================================
