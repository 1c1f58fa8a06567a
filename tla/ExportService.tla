---------------------------- MODULE ExportService ----------------------------
(***************************************************************************)
(* The export executor (src/export_service.rs, src/export_worker.rs) over  *)
(* the rows and files of PhotoExports: the process that holds              *)
(* photo-export.lock, recovers what an earlier one left, and renders one   *)
(* item at a time in a child process while the previews are paused         *)
(* (src/cli_exports.rs, src/application/exports/worker.rs).                *)
(*                                                                         *)
(* A transport is the staging directory of one attempt; the child holds    *)
(* its lease while it lives, also after the executor died.  A directory    *)
(* without a request.json belongs to nobody and is never retired.          *)
(***************************************************************************)
EXTENDS PhotoExports

CONSTANTS
  Executor,    \* the handle of the executor
  MaxFaults    \* bound of the model: crashes, yields, retries, cancel requests

ASSUME ExecutorAssumption == Executor \in Handles
ASSUME FaultsAssumption == MaxFaults \in Nat

VARIABLES
  mode,         \* closed, opened, intents (recovery publishes), ready (a run
                \* ticks), parked (recovered and open, between two runs)
  active,       \* the attempt whose child the executor owns, or None
  permit,       \* it holds the permit to launch native work
  transports,   \* staging directories, each with the state of its child
  intents,      \* items whose stored intents the recovery still has to settle
  duty,         \* what the current tick has left to do, and for which attempt
  asked,        \* the cancellation token of the run is set
  faults        \* faults so far

serviceVars == <<mode, active, permit, transports, intents, duty, asked, faults>>
allVars == <<vars, serviceVars>>

Works == [item : Items, attempt : 0..MaxAttempts]
None == [item |-> 1, attempt |-> 0]

\* partial: no request yet; failed: a request without a living child or an output.
Children == {"partial", "running", "done", "failed"}
Duties == {"none", "spawn", "staging", "starting", "reject", "accept", "accepting", "publish",
           "publishing", "linked"}

Work(i, a) == [item |-> i, attempt |-> a]
ChildOf(work, child) == [item |-> work.item, attempt |-> work.attempt, child |-> child]
Duty(to, work) == duty' = [do |-> to, work |-> work]
Rest == Duty("none", None)
Idle == mode = "ready" /\ duty.do = "none" /\ call[Executor].at = "idle"

ServiceInit ==
  /\ Init
  /\ mode = "closed"
  /\ active = None
  /\ permit = FALSE
  /\ transports = {}
  /\ intents = {}
  /\ duty = [do |-> "none", work |-> None]
  /\ asked = FALSE
  /\ faults = 0

Fault == faults < MaxFaults /\ faults' = faults + 1

-----------------------------------------------------------------------------
(* Opening and recovery: recover_cancellable.                              *)

\* A service is opened, or an open one is asked to recover again.
Open ==
  /\ mode \in {"closed", "parked"}
  /\ mode' = "opened"
  /\ UNCHANGED <<vars, active, permit, transports, intents, duty, asked, faults>>

\* Mutant: a busy transport does not block the recovery.
NeverRetained == {}

\* fence_transport: a child that lives holds the lease of its transport, and a
\* partial spawn has unknown owners.  Either blocks the recovery.
Retained == {t \in transports : t.child \in {"running", "partial"}}

Retirable == {t \in transports : t.child \in {"done", "failed"}}

\* Nothing is retained; a retired transport gives its item back.
FenceTransport ==
  /\ mode = "opened"
  /\ Retained = {}
  /\ \E t \in Retirable :
       /\ transports' = transports \ {t}
       /\ Requeue(t.item, t.attempt) \/ (~Owned(t.item, t.attempt) /\ UNCHANGED vars)
  /\ UNCHANGED <<mode, active, permit, intents, duty, asked, faults>>

\* Every retired transport was discarded and none is retained.
Fenced == Retained = {} /\ Retirable = {}

\* A row claimed before its transport was made, or after it was retired.
FenceRow ==
  /\ mode = "opened" /\ Fenced
  /\ \E i \in Items : Requeue(i, attempt[i])
  /\ UNCHANGED serviceVars

\* Mutant: rows without a transport stay as they are.
FenceTransportsOnly ==
  /\ mode = "opened" /\ Fenced
  /\ intents' = {i \in Items : state[i] = "sealed" /\ intent[i]}
  /\ mode' = "intents"
  /\ UNCHANGED <<vars, active, permit, transports, duty, asked, faults>>

\* Mutant: stored intents are left to the next tick.
IntentsForgotten ==
  /\ mode = "opened" /\ Fenced /\ \A i \in Items : state[i] # "rendering"
  /\ intents' = {}
  /\ mode' = "intents"
  /\ UNCHANGED <<vars, active, permit, transports, duty, asked, faults>>

\* photo_export_publication_intents
ReadIntents ==
  /\ mode = "opened" /\ Fenced /\ \A i \in Items : state[i] # "rendering"
  /\ intents' = {i \in Items : state[i] = "sealed" /\ intent[i]}
  /\ mode' = "intents"
  /\ UNCHANGED <<vars, active, permit, transports, duty, asked, faults>>

SettleIntent ==
  /\ mode = "intents" /\ duty.do = "none"
  /\ \E i \in intents : /\ Duty("publish", Work(i, 0))
                        /\ intents' = intents \ {i}
  /\ UNCHANGED <<vars, mode, active, permit, transports, asked, faults>>

Recovered ==
  /\ mode = "intents" /\ duty.do = "none" /\ intents = {}
  /\ mode' = "ready"
  /\ UNCHANGED <<vars, active, permit, transports, intents, duty, asked, faults>>

-----------------------------------------------------------------------------
(* A tick without an active child: tick_detached.                          *)

\* The service of the command line ends with its run; the application keeps
\* its own, recovered, for the next run.
RunEnds == mode' \in {"closed", "parked"}

\* The canceled run cancels its job, unless that is complete.
CancelUnlessComplete == IF job.state # "complete" THEN Cancel ELSE UNCHANGED vars

TickCanceled ==
  /\ Idle /\ active = None /\ asked
  /\ CancelUnlessComplete
  /\ permit' = FALSE /\ asked' = FALSE /\ RunEnds
  /\ UNCHANGED <<active, transports, intents, duty, faults>>

Sealed == {i \in Items : state[i] = "sealed"}

\* Nothing to do: the permit is given back and the run ends.
TickIdle ==
  /\ Idle /\ active = None /\ ~asked
  /\ \/ job.state # "queued"
     \/ Sealed = {} /\ permit /\ \A i \in Items : state[i] # "pending"
  /\ permit' = FALSE /\ RunEnds
  /\ UNCHANGED <<vars, active, transports, intents, duty, asked, faults>>

\* The next run of the application; it does not recover.
RunAgain ==
  /\ mode = "parked"
  /\ mode' = "ready"
  /\ UNCHANGED <<vars, active, permit, transports, intents, duty, asked, faults>>

\* next_sealed_photo_export comes before any new rendering.
TickSealed ==
  /\ Idle /\ active = None /\ ~asked /\ job.state = "queued"
  /\ \E i \in Sealed : /\ \A j \in Sealed : i <= j
                       /\ Duty("publish", Work(i, 0))
  /\ UNCHANGED <<vars, mode, active, permit, transports, intents, asked, faults>>

\* The previews are paused and drained, and the permit is transferred.
AdmitNative ==
  /\ Idle /\ active = None /\ ~permit /\ ~asked /\ job.state = "queued" /\ Sealed = {}
  /\ permit' = TRUE
  /\ UNCHANGED <<vars, mode, active, transports, intents, duty, asked, faults>>

TickClaim ==
  /\ Idle /\ active = None /\ permit /\ ~asked /\ Sealed = {}
  /\ Claim
  /\ \E i \in Items : /\ attempt'[i] # attempt[i]
                      /\ Duty("spawn", Work(i, attempt'[i]))
  /\ UNCHANGED <<mode, active, permit, transports, intents, asked, faults>>

\* ExportWorkerProcess::spawn keeps the staging directory before anything is
\* in it; it is partial until active.lock and request.json are written.
SpawnDirectory ==
  /\ duty.do = "spawn"
  /\ transports' = transports \cup {ChildOf(duty.work, "partial")}
  /\ Duty("staging", duty.work)
  /\ UNCHANGED <<vars, mode, active, permit, intents, asked, faults>>

SpawnRequest ==
  /\ duty.do = "staging"
  /\ transports' = (transports \ {ChildOf(duty.work, "partial")})
                     \cup {ChildOf(duty.work, "failed")}
  /\ Duty("starting", duty.work)
  /\ UNCHANGED <<vars, mode, active, permit, intents, asked, faults>>

Spawn ==
  /\ duty.do = "starting"
  /\ active' = duty.work
  /\ transports' = (transports \ {ChildOf(duty.work, "failed")})
                     \cup {ChildOf(duty.work, "running")}
  /\ Rest
  /\ UNCHANGED <<vars, mode, permit, intents, asked, faults>>

\* An error leaves the directory as far as it came.
SpawnFails ==
  /\ duty.do \in {"spawn", "staging", "starting"}
  /\ permit' = FALSE
  /\ Duty("reject", duty.work)
  /\ UNCHANGED <<vars, mode, active, transports, intents, asked, faults>>

-----------------------------------------------------------------------------
(* A tick with an active child.                                            *)

Stopped(work) == {t \in transports : t.item = work.item /\ t.attempt = work.attempt}

\* A child ends, with an output or without; nobody needs to watch.
ChildEnds ==
  /\ \E t \in transports : \E end \in {"done", "failed"} :
       /\ t.child = "running"
       /\ transports' = (transports \ {t}) \cup {[t EXCEPT !.child = end]}
  /\ UNCHANGED <<vars, mode, active, permit, intents, duty, asked, faults>>

\* photo_export_work_current
WorkCurrent == /\ Owned(active.item, active.attempt)
               /\ job.state = "queued" /\ active.item \notin stale

\* complete_rendering: the output of a child that is done is sealed.
PollSeals ==
  /\ Idle /\ active # None /\ ~asked /\ WorkCurrent
  /\ ChildOf(active, "done") \in transports
  /\ SealDirectory(active.item)
  /\ UNCHANGED serviceVars

\* The child is reaped before the permit goes; the transport is retired, or is
\* left for the recovery when that fails.
Reap(next) ==
  /\ active' = None
  /\ permit' = FALSE
  /\ \/ transports' = transports \ Stopped(active)
     \/ transports' = (transports \ Stopped(active)) \cup {ChildOf(active, "failed")}
  /\ Duty(next, active)
  /\ UNCHANGED <<mode, intents, asked, faults>>

PollDone ==
  /\ Idle /\ active # None /\ ~asked /\ WorkCurrent
  /\ ChildOf(active, "done") \in transports /\ directory[active.item] = "good"
  /\ Reap("accept")
  /\ UNCHANGED vars

\* The child failed, its output cannot be sealed, or the work is not current.
PollFails ==
  /\ Idle /\ active # None /\ ~asked
  /\ \/ ChildOf(active, "failed") \in transports
     \/ ChildOf(active, "done") \in transports
     \/ ~WorkCurrent
  /\ Reap("reject")
  /\ UNCHANGED vars

\* A canceled run cancels the job, and then the poll stops the child.
PollCanceled ==
  /\ Idle /\ active # None /\ asked
  /\ job.state # "complete" /\ Cancel
  /\ Reap("reject")

\* fail_photo_export, after the cancellation of the run was applied.
Reject ==
  /\ duty.do = "reject"
  /\ \/ ~asked \/ job.state = "canceled"
  /\ FailRender(duty.work.item, duty.work.attempt)
  /\ Rest
  /\ UNCHANGED <<mode, active, permit, transports, intents, asked, faults>>

RejectCancels ==
  /\ duty.do = "reject" /\ asked /\ job.state \notin {"complete", "canceled"}
  /\ Cancel
  /\ UNCHANGED serviceVars

-----------------------------------------------------------------------------
(* Accepting and publishing, within the tick.                              *)

StartAccept ==
  /\ duty.do = "accept"
  /\ \/ AcceptPrepare(Executor, duty.work.item, duty.work.attempt)
     \/ UNCHANGED vars
  /\ Duty("accepting", duty.work)
  /\ UNCHANGED <<mode, active, permit, transports, intents, asked, faults>>

\* An accepted item is published at once; another one is rejected.
Accepted ==
  /\ duty.do = "accepting" /\ call[Executor].at = "idle"
  /\ Duty(IF Owned(duty.work.item, duty.work.attempt) THEN "reject" ELSE "publish", duty.work)
  /\ UNCHANGED <<vars, mode, active, permit, transports, intents, asked, faults>>

StartPublish ==
  /\ duty.do = "publish"
  /\ PublishRead(Executor, duty.work.item) \/ UNCHANGED vars
  /\ Duty("publishing", duty.work)
  /\ UNCHANGED <<mode, active, permit, transports, intents, asked, faults>>

\* A call of the executor goes on; ExportControl::linked is set by the link.
CallStep ==
  /\ duty.do \in {"accepting", "publishing", "linked"}
  /\ call[Executor].at # "idle"
  /\ AcceptCommit(Executor) \/ Publishing(Executor) \/ Stop(Executor)
  /\ Duty(IF call'[Executor].at = "installed" THEN "linked" ELSE duty.do, duty.work)
  /\ UNCHANGED <<mode, active, permit, transports, intents, asked, faults>>

\* Mutant: an error of the publication is only reported.
PublishedAnyhow ==
  /\ duty.do \in {"publishing", "linked"} /\ call[Executor].at = "idle"
  /\ UNCHANGED vars /\ Rest /\ mode' = mode
  /\ UNCHANGED <<active, permit, transports, intents, asked, faults>>

\* The call ended.  An item that is still sealed met an error: a canceled run
\* cancels the job and leaves it, any other one fails it; a recovery that is
\* canceled stops there.
Published ==
  /\ duty.do \in {"publishing", "linked"} /\ call[Executor].at = "idle"
  /\ LET i == duty.work.item
         canceled == asked /\ duty.do = "publishing"
     IN  \/ state[i] # "sealed" /\ UNCHANGED vars /\ Rest /\ mode' = mode
         \/ /\ state[i] = "sealed" /\ mode = "ready" /\ canceled
            /\ CancelUnlessComplete /\ Rest /\ mode' = mode
         \/ /\ state[i] = "sealed" /\ mode = "intents" /\ asked
            /\ UNCHANGED vars /\ Rest /\ mode' = "opened"
         \/ /\ state[i] = "sealed" /\ IF mode = "ready" THEN ~canceled ELSE ~asked
            /\ FailSealed(i) /\ Rest /\ mode' = mode
  /\ asked' = IF mode = "intents" THEN FALSE ELSE asked
  /\ UNCHANGED <<active, permit, transports, intents, faults>>

-----------------------------------------------------------------------------
(* Faults, other windows and other programs.                               *)

\* The token of a run is set by a request of the application.
AskCancel ==
  /\ Fault /\ mode \in {"intents", "ready"} /\ ~asked
  /\ asked' = TRUE
  /\ UNCHANGED <<vars, mode, active, permit, transports, intents, duty>>

\* Mutant: the item is pending again although its job was canceled.
YieldPending ==
  /\ Fault /\ Idle /\ active # None
  /\ state' = [state EXCEPT ![active.item] = "pending"]
  /\ attempt' = [attempt EXCEPT ![active.item] = 0]
  /\ active' = None /\ permit' = FALSE
  /\ transports' = transports \ Stopped(active)
  /\ UNCHANGED <<job, seal, intent, tokens, expected, diskVars, stale, call, outside>>
  /\ UNCHANGED <<mode, intents, duty, asked>>

\* yield_to_previews: reap, fence the token, give the permit back; the run goes
\* on, or its slice is over.
Yield ==
  /\ Fault /\ Idle /\ active # None
  /\ Requeue(active.item, active.attempt)
  /\ active' = None /\ permit' = FALSE
  /\ transports' = transports \ Stopped(active)
  /\ mode' \in {"ready", "parked"}
  /\ UNCHANGED <<intents, duty, asked>>

\* drain_native and close: the rows are left to the next recovery.
Close ==
  /\ Fault /\ Idle /\ active # None
  /\ active' = None /\ permit' = FALSE /\ mode' = "closed" /\ asked' = FALSE
  /\ transports' = (transports \ Stopped(active)) \cup {ChildOf(active, "failed")}
  /\ UNCHANGED <<vars, intents, duty>>

\* The executor dies, or a tick returns an error; a child may live on.
Crash ==
  /\ Fault /\ mode # "closed"
  /\ mode' = "closed" /\ active' = None /\ permit' = FALSE /\ asked' = FALSE
  /\ intents' = {} /\ Rest
  /\ Stop(Executor) \/ (call[Executor].at = "idle" /\ UNCHANGED vars)
  /\ UNCHANGED transports

\* Cancel, retry and restore from another window or the command line.
Others ==
  \/ (Append \/ SealJob) /\ UNCHANGED serviceVars
  \/ /\ Fault
     /\ Cancel \/ \E i \in Items : RetrySealed(i)
     /\ UNCHANGED <<mode, active, permit, transports, intents, duty, asked>>
  \/ /\ \E h \in Handles \ {Executor} : Restoring(h) \/ Stop(h)
     /\ UNCHANGED serviceVars
  \/ World /\ UNCHANGED serviceVars

-----------------------------------------------------------------------------
Recovering == FenceTransport \/ FenceRow \/ ReadIntents \/ SettleIntent \/ Recovered

Ticking ==
  \/ TickCanceled \/ TickIdle \/ TickSealed \/ TickClaim
  \/ SpawnDirectory \/ SpawnRequest \/ Spawn \/ SpawnFails
  \/ PollSeals \/ PollDone \/ PollFails \/ PollCanceled \/ Reject \/ RejectCancels
  \/ StartAccept \/ Accepted \/ StartPublish \/ CallStep \/ Published

ServiceNext ==
  \/ Open \/ RunAgain \/ Recovering \/ Ticking \/ AdmitNative \/ ChildEnds
  \/ AskCancel \/ Yield \/ Close \/ Crash \/ Others

ServiceSpec == ServiceInit /\ [][ServiceNext]_allVars

(***************************************************************************)
(* A recovery that was asked for and a run that was started go on: the     *)
(* run ticks until it is idle, its calls end, the previews drain           *)
(* (PreviewService) and a child ends.  Opening, recovering again and the   *)
(* next run are requests of a user, and no fairness is assumed of them.    *)
(***************************************************************************)
Fairness ==
  /\ WF_allVars(Recovering) /\ WF_allVars(Ticking)
  /\ WF_allVars(AdmitNative) /\ WF_allVars(ChildEnds)

FairSpec == ServiceSpec /\ Fairness

-----------------------------------------------------------------------------
(* Properties.                                                             *)

\* Every variable of the executor has its type.
ExecutorTypeOK ==
  /\ mode \in {"closed", "opened", "intents", "ready", "parked"}
  /\ active \in Works /\ permit \in BOOLEAN
  /\ transports \subseteq [item : Items, attempt : 1..MaxAttempts, child : Children]
  /\ intents \subseteq Items
  /\ duty \in [do : Duties, work : Works]
  /\ asked \in BOOLEAN /\ faults \in 0..MaxFaults

\* At most one child renders, orphans of a dead executor included, and one that
\* the executor owns renders only while the previews are paused.
OneRenderer ==
  /\ Cardinality({t \in transports : t.child = "running"}) <= 1
  /\ active # None => permit /\ \E t \in transports : t \in Stopped(active)

\* Between ticks of a recovered executor every row in rendering belongs to the
\* attempt it owns: recovery leaves no row behind that nobody will finish.
RenderingOwned ==
  Idle => \A i \in Items : state[i] = "rendering" => active = Work(i, attempt[i])

\* The executor changes rows and files only as PhotoExports says.
ImplementsPhotoExports == Spec

\* A spawn broke off, by an error or a crash, before its request was written.
Orphaned ==
  \E t \in transports :
    t.child = "partial" /\ ~(duty.do = "staging" /\ duty.work = Work(t.item, t.attempt))

\* As long as exports are requested again and again, a queued job does not stay
\* queued: it is completed or canceled, whatever crashed, failed or was
\* preempted on the way.  Only a spawn that broke off before its request was
\* written stops it, since every later recovery refuses that directory.
JobsEnd ==
  []<>(mode \notin {"closed", "parked"})
    => (job.state = "queued" ~> (job.state # "queued" \/ Orphaned))

\* As long as recoveries are requested again and again, a stored publication
\* intent is settled, also when the job was canceled meanwhile and no run looks
\* at it any more; again unless a spawn broke off before its request.
IntentsSettled ==
  []<>(mode = "opened")
    => \A i \in Items :
         (state[i] = "sealed" /\ intent[i]) ~> (state[i] # "sealed" \/ Orphaned)
==============================================================================
