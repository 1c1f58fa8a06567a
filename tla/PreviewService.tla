--------------------------- MODULE PreviewService ---------------------------
(***************************************************************************)
(* The preview service actor (src/preview/service.rs) over its scheduler,  *)
(* its render workers, the durable job journal and manifest of the preview *)
(* store, and the catalog whose import rows it makes ready.                *)
(*                                                                         *)
(* One actor runs submit, cancel, tick, resume and take_completion to the  *)
(* end; `at' is the place inside a tick.  Workers, other catalog writers   *)
(* and a crash move at any time.  Preview store and catalog are two        *)
(* databases: what is on disk after a crash is `journal', `attached',      *)
(* `ready' and `stale'; everything else is gone.                           *)
(***************************************************************************)
EXTENDS PreviewScheduler

CONSTANTS
  ImportKeys,   \* keys whose render completes the import of a pending asset
  Transports,   \* the kinds of workers to consider: TRUE, behind the filesystem
                \* worker's transport, or FALSE, local child processes
  Faulty,       \* reads of the catalog and writes of the journal may fail
  MaxCrashes    \* bound of the model: crashes of the process

ASSUME ImportAssumption == ImportKeys \subseteq Keys
ASSUME TransportsAssumption == Transports \subseteq BOOLEAN /\ Transports # {}
ASSUME FaultyAssumption == Faulty \in BOOLEAN
ASSUME CrashAssumption == MaxCrashes \in Nat

VARIABLES
  at,         \* idle, or the place in tick, resume or shutdown
  todo,       \* leases the reaping loop of this tick has not visited
  cur,        \* lease being published, completed or launched
  verdict,    \* ServiceCompletion decided for cur
  resumed,    \* consumers the current call of resume has admitted
  stopping,   \* PreviewService.stopping: shutdown has begun
  saved,      \* PreviewService.jobs: keys with a descriptor in memory
  active,     \* PreviewService.active: lease -> key
  child,      \* lease -> state of the worker behind it
  handles,    \* PreviewService.consumers: consumer -> key
  completed,  \* PreviewService.completed: consumer -> completion
  journal,    \* render_jobs table: key -> queued or blocked
  attached,   \* keys whose object the manifest holds
  ready,      \* import keys whose asset the catalog made ready
  asked,      \* import keys that were ever submitted
  managed,    \* the workers run behind the transport
  crashes     \* crashes so far

schedulerVars == <<next, jobs, keys, consumers, reserved, external, workers, joined>>
callVars == <<resumed, stopping>>
actorVars == <<at, todo, cur, verdict, callVars>>
memoryVars == <<saved, active, child, handles, completed>>
runVars == <<managed, crashes>>
diskVars == <<journal, attached, ready, asked, runVars>>
serviceVars == <<vars, actorVars, memoryVars, diskVars>>

(***************************************************************************)
(* A worker computes, ends with a batch or fails.  Behind the transport a  *)
(* failed one is drained by a second task before it is gone.               *)
(***************************************************************************)
ChildStates == {"working", "batch", "failed", "draining", "gone"}
Busy(l) == child[l] \in {"working", "draining"}

Completions == {"ready", "stale", "canceled", "failed"}

\* SavedJob::current: the catalog still shows the pixels the job was for.
Current(k) == k \notin stale /\ k \notin ready

ServiceInit ==
  /\ Init
  /\ at = "idle" /\ todo = {} /\ cur = NoLease /\ verdict = "ready"
  /\ resumed = {} /\ stopping = FALSE
  /\ saved = {} /\ active = Empty /\ child = Empty
  /\ handles = Empty /\ completed = Empty
  /\ journal = Empty /\ attached = {} /\ ready = {} /\ asked = {}
  /\ managed \in Transports /\ crashes = 0

-----------------------------------------------------------------------------
(* Calls of the owner between two ticks.                                   *)

Slots == Requests - Cardinality(DOMAIN handles)

\* save_job: a new row only while the journal is below its limit.
Journaled(k) == k \in DOMAIN journal \/ Cardinality(DOMAIN journal) < Requests

\* Mutant: only imports are journaled.
RowForImports(k) == IF k \in ImportKeys THEN Insert(journal, k, "queued") ELSE journal

QueuedRow(k) == Insert(journal, k, "queued")

\* submit: the catalog admits the identity, the journal row commits, then the
\* scheduler takes the request; what the scheduler refuses keeps its row.
Accept(k, p) ==
  /\ ~stopping
  /\ Slots > 0 /\ Current(k) /\ Journaled(k)
  /\ journal' = QueuedRow(k)
  /\ asked' = asked \cup ({k} \cap ImportKeys)
  /\ \E cost \in Costs : Request(k, cost, p)
  /\ IF next \in DOMAIN consumers'
       THEN handles' = Insert(handles, next, k) /\ saved' = saved \cup {k}
       ELSE UNCHANGED <<handles, saved>>
  /\ UNCHANGED <<todo, cur, verdict, stopping, active, child, completed, attached, ready,
                 runVars>>

\* submit_import asks in the background, a view in either class.
Submit(k, p) ==
  /\ at = "idle"
  /\ k \in ImportKeys => p = Background
  /\ Accept(k, p)
  /\ UNCHANGED <<at, resumed>>

\* Mutant: canceling the last consumer of an import forgets the import.
ForgetsAny(k) == TRUE

\* A canceled job leaves the journal, except an import.
Forgets(k) == k \notin ImportKeys

\* What may be left of a row that is to be removed: the write may fail, after
\* everything else was done.
RowsAfter(rows) == {rows} \cup IF Faulty THEN {journal} ELSE {}

\* cancel: of a running, queued or completed consumer.
CancelConsumer(c) ==
  /\ at = "idle"
  /\ c \in DOMAIN handles
  /\ \/ Cancel(c)
     \/ c \notin DOMAIN consumers /\ UNCHANGED vars
  /\ completed' = Remove(completed, c)
  /\ handles' = Remove(handles, c)
  /\ LET k == handles[c]
         last == /\ \A d \in DOMAIN handles \ {c} : handles[d] # k
                 /\ \A l \in DOMAIN active : active[l] # k
                 /\ k \in saved
     IN  /\ saved' = IF last THEN saved \ {k} ELSE saved
         /\ journal' \in RowsAfter(IF last /\ Forgets(k) THEN Remove(journal, k) ELSE journal)
  /\ UNCHANGED <<actorVars, active, child, attached, ready, asked, runVars>>

TakeCompletion(c) ==
  /\ at = "idle"
  /\ c \in DOMAIN completed
  /\ completed' = Remove(completed, c)
  /\ handles' = Remove(handles, c)
  /\ UNCHANGED <<vars, actorVars, saved, active, child, diskVars>>

\* Mutant: recovery completes what was not attached.
RecoversUnattached(k) == k \in ImportKeys

\* Crash after the attach and before the catalog's commit.
Recovers(k) == k \in ImportKeys /\ k \in attached

\* resume works through the rows of the journal that have no descriptor in
\* memory.  The import it finds done, or completes from the attached object,
\* and the row whose pixels are past, are removed.  (Rows of an older version,
\* whose keys carry no pixel generation, and keys that resume makes anew are
\* not modelled: every row here has the key it is resumed with.)
ResumeDone(k) ==
  /\ at \in {"idle", "resume"}
  /\ k \in DOMAIN journal \ saved
  /\ \/ ~Current(k) /\ UNCHANGED ready
     \/ Current(k) /\ Recovers(k) /\ ready' = ready \cup {k}
  /\ journal' \in RowsAfter(Remove(journal, k))
  /\ UNCHANGED <<vars, actorVars, memoryVars, attached, asked, runVars>>

\* Any other row is submitted again; when that is refused resume has failed.
Resume(k, retryBlocked) ==
  /\ at \in {"idle", "resume"}
  /\ k \in DOMAIN journal \ saved
  /\ ~Recovers(k)
  /\ journal[k] = "queued" \/ retryBlocked
  /\ Accept(k, Background)
  /\ \/ /\ next \in DOMAIN consumers'
        /\ at' = "resume" /\ resumed' = resumed \cup {next}
     \/ /\ next \notin DOMAIN consumers'
        /\ at' = IF resumed = {} THEN "idle" ELSE "rollback"
        /\ UNCHANGED resumed

\* The page is done and the caller gets its consumers.
ResumeReturns ==
  /\ at = "resume"
  /\ at' = "idle" /\ resumed' = {}
  /\ UNCHANGED <<vars, todo, cur, verdict, stopping, memoryVars, diskVars>>

\* A later row of the page cannot be read or admitted.
ResumeFails ==
  /\ at = "resume"
  /\ at' = "rollback"
  /\ UNCHANGED <<vars, todo, cur, verdict, callVars, memoryVars, diskVars>>

\* The descriptors once the handle of c is gone: its own goes unless another
\* handle or an active lease needs it.
Described(c) ==
  IF \/ \E d \in DOMAIN handles \ {c} : handles[d] = handles[c]
     \/ \E l \in DOMAIN active : active[l] = handles[c]
    THEN saved ELSE saved \ {handles[c]}

\* Only what this call admitted is given up; the rows stay.
RollBack(c) ==
  /\ at = "rollback"
  /\ c \in resumed
  /\ Cancel(c)
  /\ handles' = Remove(handles, c)
  /\ saved' = Described(c)
  /\ resumed' = resumed \ {c}
  /\ at' = IF resumed' = {} THEN "idle" ELSE "rollback"
  /\ UNCHANGED <<todo, cur, verdict, stopping, active, child, completed, diskVars>>

-----------------------------------------------------------------------------
(* Shutdown.                                                               *)

\* signal_shutdown: nothing is accepted any more and every token is set.
SignalShutdown ==
  /\ at = "idle"
  /\ stopping' = TRUE
  /\ jobs' = [id \in DOMAIN jobs |->
                IF jobs[id].lease \in DOMAIN active
                  THEN [jobs[id] EXCEPT !.canceled = TRUE] ELSE jobs[id]]
  /\ UNCHANGED <<next, keys, consumers, reserved, external, workers, joined, stale,
                 todo, cur, verdict, resumed, memoryVars, diskVars>>

\* try_shutdown: when every worker was stopped and waited for, the leases are
\* released one by one; until then nothing is.
TryShutdown ==
  /\ SignalShutdown
  /\ at' \in {"idle", "shutdown"}

ShutdownReap ==
  /\ at = "shutdown"
  /\ \/ /\ active = Empty
        /\ at' = "idle"
        /\ UNCHANGED <<vars, active, child>>
     \/ \E l \in DOMAIN active :
          /\ Finished(l)
          /\ active' = Remove(active, l)
          /\ child' = Remove(child, l)
          /\ UNCHANGED at
  /\ UNCHANGED <<todo, cur, verdict, callVars, saved, handles, completed, diskVars>>

-----------------------------------------------------------------------------
(* tick.  Transport progress is collected first.                           *)

TickBegin ==
  /\ at = "idle" /\ ~stopping
  /\ at' = "tick"
  /\ child' = [l \in DOMAIN child |->
                 IF managed /\ child[l] = "failed" THEN "draining" ELSE child[l]]
  /\ UNCHANGED <<vars, todo, cur, verdict, callVars, saved, active, handles, completed, diskVars>>

\* Behind the transport nothing is published while any task runs; a tick then
\* only launches.
TickChoose ==
  /\ at = "tick"
  /\ IF managed /\ \E l \in DOMAIN active : Busy(l)
       THEN at' = "dispatch" /\ UNCHANGED todo
       ELSE at' = "reap" /\ todo' = DOMAIN active
  /\ UNCHANGED <<vars, cur, verdict, callVars, memoryVars, diskVars>>

\* A native read or a delivery holds the transport: only launch.
TickYield ==
  /\ managed
  /\ at = "tick"
  /\ at' = "dispatch"
  /\ UNCHANGED <<vars, todo, cur, verdict, callVars, memoryVars, diskVars>>

TokenSet(l) == \E id \in LeaseOwner(l) : jobs[id].canceled
Stopped(l) == TokenSet(l) \/ ~Current(active[l])

\* The token of a lease whose pixels are past is set before its worker is
\* polled.
SetToken(l) ==
  jobs' = [id \in DOMAIN jobs |->
             IF id \in LeaseOwner(l) /\ ~Current(active[l])
               THEN [jobs[id] EXCEPT !.canceled = TRUE] ELSE jobs[id]]

\* The descriptor of an active lease is missing, or its identity cannot be
\* read: tick fails before the poll, and again at the next call.
TickFails(l) ==
  /\ at = "reap" /\ l \in todo
  /\ active[l] \notin saved \/ Faulty
  /\ at' = "idle" /\ todo' = {}
  /\ UNCHANGED <<vars, cur, verdict, callVars, memoryVars, diskVars>>

\* poll: no result.  Behind the transport the failure found only now starts
\* its drain and ends the loop; a local worker that is not told to stop is
\* left for the next tick.
PollPending(l) ==
  /\ at = "reap" /\ l \in todo
  /\ active[l] \in saved
  /\ SetToken(l)
  /\ \/ /\ managed /\ child[l] = "failed"
        /\ child' = [child EXCEPT ![l] = "draining"]
        /\ at' = "dispatch" /\ todo' = {}
     \/ /\ ~managed /\ child[l] = "working" /\ ~Stopped(l)
        /\ todo' = todo \ {l}
        /\ UNCHANGED <<at, child>>
  /\ UNCHANGED <<next, keys, consumers, reserved, external, workers, joined, stale,
                 cur, verdict, callVars, saved, active, handles, completed, diskVars>>

\* poll: a result, or a local worker that is killed and waited for.  The
\* worker is stopped and a batch that is still wanted goes to publication.
PollEnded(l) ==
  /\ at = "reap" /\ l \in todo
  /\ active[l] \in saved
  /\ IF managed THEN child[l] \in {"batch", "gone"} ELSE child[l] # "working" \/ Stopped(l)
  /\ SetToken(l)
  /\ todo' = todo \ {l}
  /\ cur' = l
  /\ IF ~Current(active[l]) THEN at' = "complete" /\ verdict' = "stale"
     ELSE IF TokenSet(l) THEN at' = "complete" /\ verdict' = "canceled"
     ELSE IF child[l] # "batch" THEN at' = "complete" /\ verdict' = "failed"
     ELSE at' = "publish" /\ UNCHANGED verdict
  /\ UNCHANGED <<next, keys, consumers, reserved, external, workers, joined, stale,
                 callVars, memoryVars, diskVars>>

\* publish_batch: under the catalog's writer the identity is checked again and
\* the object attached to the manifest, which commits at once.
Attach ==
  /\ at = "publish"
  /\ \/ /\ Current(active[cur])
        /\ attached' = attached \cup {active[cur]}
        /\ IF active[cur] \in ImportKeys
             THEN at' = "attached" /\ UNCHANGED verdict
             ELSE at' = "complete" /\ verdict' \in {"ready", "failed"}
     \/ /\ ~Current(active[cur])
        /\ at' = "complete" /\ verdict' = "stale"
        /\ UNCHANGED attached
     \/ /\ at' = "complete" /\ verdict' = "failed"
        /\ UNCHANGED attached
  /\ UNCHANGED <<vars, todo, cur, callVars, memoryVars, journal, ready, asked, runVars>>

\* The catalog transaction of an import commits, or fails after the attach.
CommitImport ==
  /\ at = "attached"
  /\ at' = "complete"
  /\ \/ ready' = ready \cup {active[cur]} /\ verdict' = "ready"
     \/ verdict' = "failed" /\ UNCHANGED ready
  /\ UNCHANGED <<vars, todo, cur, callVars, memoryVars, journal, attached, asked, runVars>>

LeaseJob(l) == CHOOSE id \in LeaseOwner(l) : TRUE

\* The row of a job that ended: kept as blocked for a retry, or removed.
JournalAfter(k, v) ==
  IF v = "failed" THEN Insert(journal, k, "blocked")
  ELSE IF v = "canceled" /\ ~Forgets(k) THEN journal
  ELSE Remove(journal, k)

\* Mutant: consumers have to ask again.
AnswerNobody(id, v) == UNCHANGED completed

\* Every consumer the scheduler releases learns the completion.
Answer(id, v) ==
  completed' = [c \in DOMAIN completed \cup DOMAIN jobs[id].consumers |->
                  IF c \in DOMAIN jobs[id].consumers THEN v ELSE completed[c]]

\* The reservation is released; a requeued or superseded lease leaves journal,
\* descriptor and consumers to the job that goes on.
Complete ==
  /\ at = "complete"
  /\ at' = "reap"
  /\ Finished(cur)
  /\ active' = Remove(active, cur)
  /\ child' = Remove(child, cur)
  /\ LET id == LeaseJob(cur)
         k == active[cur]
     IN  IF Requeues(id) \/ Superseded(id)
           THEN UNCHANGED <<journal, saved, completed>>
           ELSE /\ journal' = JournalAfter(k, verdict)
                /\ saved' = saved \ {k}
                /\ Answer(id, verdict)
  /\ UNCHANGED <<todo, cur, verdict, callVars, handles, attached, ready, asked, runVars>>

\* The lease is released and then the journal cannot be written: tick fails.
CompleteFails ==
  /\ Faulty
  /\ at = "complete"
  /\ ~Requeues(LeaseJob(cur)) /\ ~Superseded(LeaseJob(cur))
  /\ verdict = "canceled" => Forgets(active[cur])
  /\ at' = "idle" /\ todo' = {}
  /\ Finished(cur)
  /\ active' = Remove(active, cur)
  /\ child' = Remove(child, cur)
  /\ UNCHANGED <<cur, verdict, callVars, saved, handles, completed, diskVars>>

ReapDone ==
  /\ at = "reap" /\ todo = {}
  /\ at' = "dispatch"
  /\ UNCHANGED <<vars, todo, cur, verdict, callVars, memoryVars, diskVars>>

-----------------------------------------------------------------------------
(* dispatch_ready.                                                         *)

\* Relocation, a native pause or the encoded budget ends the loop.
DispatchHeld ==
  /\ at = "dispatch"
  /\ at' = "idle"
  /\ UNCHANGED <<vars, todo, cur, verdict, callVars, memoryVars, diskVars>>

Dispatch ==
  /\ at = "dispatch"
  /\ NextReady
  /\ IF next' = next THEN at' = "idle" /\ UNCHANGED cur
     ELSE at' = "launch" /\ cur' = next
  /\ UNCHANGED <<todo, verdict, callVars, memoryVars, diskVars>>

LaunchedKey == jobs[LeaseJob(cur)].key

Launch ==
  /\ at = "launch"
  /\ LaunchedKey \in saved /\ Current(LaunchedKey)
  /\ at' = "dispatch"
  /\ active' = Insert(active, cur, LaunchedKey)
  /\ child' = Insert(child, cur, "working")
  /\ UNCHANGED <<vars, todo, cur, verdict, callVars, saved, handles, completed, diskVars>>

\* Mutant: the loop goes on without reporting the lease it could not use.
LaunchRefusedLeaking ==
  /\ at = "launch"
  /\ at' = "dispatch"
  /\ UNCHANGED <<vars, todo, cur, verdict, callVars, memoryVars, diskVars>>

\* The pixels are past, or the worker cannot be started: the lease ends here.
LaunchRefused ==
  /\ at = "launch"
  /\ LaunchedKey \in saved
  /\ at' = "dispatch"
  /\ Finished(cur)
  /\ saved' = saved \ {LaunchedKey}
  /\ LET v == IF Current(LaunchedKey) THEN "failed" ELSE "stale"
     IN  /\ journal' = JournalAfter(LaunchedKey, v)
         /\ Answer(LeaseJob(cur), v)
  /\ UNCHANGED <<todo, cur, verdict, callVars, active, child, handles, attached, ready, asked, runVars>>

\* No descriptor, or an identity that cannot be read: dispatch_ready fails with
\* the lease still reserved.
LaunchFails ==
  /\ at = "launch"
  /\ LaunchedKey \notin saved \/ Faulty
  /\ at' = "idle"
  /\ UNCHANGED <<vars, todo, cur, verdict, callVars, memoryVars, diskVars>>

\* The lease ends and then the journal cannot be written.
LaunchRefusedFails ==
  /\ Faulty
  /\ at = "launch"
  /\ LaunchedKey \in saved
  /\ at' = "idle"
  /\ Finished(cur)
  /\ UNCHANGED <<todo, cur, verdict, callVars, memoryVars, diskVars>>

-----------------------------------------------------------------------------
(* Around the actor.                                                       *)

\* A worker, or the transport task in front of it, moves on.
ChildMoves(l) ==
  /\ l \in DOMAIN child
  /\ \/ child[l] = "working" /\ \E end \in {"batch", "failed"} : child' = [child EXCEPT ![l] = end]
     \/ child[l] = "draining" /\ child' = [child EXCEPT ![l] = "gone"]
  /\ UNCHANGED <<vars, actorVars, saved, active, handles, completed, diskVars>>

\* Another writer changes the pixels, never inside the import's transaction.
CatalogMoves(k) ==
  /\ at # "attached"
  /\ Outdate(k)
  /\ UNCHANGED <<actorVars, memoryVars, diskVars>>

\* The process ends anywhere and is started again over what is on disk.
Crash ==
  /\ crashes < MaxCrashes
  /\ crashes' = crashes + 1
  /\ next' = 1 /\ jobs' = Empty /\ keys' = Empty /\ consumers' = Empty /\ reserved' = 0
  /\ external' = Empty /\ workers' = Empty /\ joined' = {}
  /\ at' = "idle" /\ todo' = {} /\ cur' = NoLease /\ verdict' = "ready"
  /\ resumed' = {} /\ stopping' = FALSE
  /\ saved' = {} /\ active' = Empty /\ child' = Empty
  /\ handles' = Empty /\ completed' = Empty
  /\ UNCHANGED <<stale, journal, attached, ready, asked, managed>>

ServiceNext ==
  \/ \E k \in Keys, p \in Priorities : Submit(k, p)
  \/ \E c \in DOMAIN handles : CancelConsumer(c) \/ TakeCompletion(c)
  \/ \E k \in Keys : ResumeDone(k) \/ (\E retry \in BOOLEAN : Resume(k, retry)) \/ CatalogMoves(k)
  \/ ResumeReturns \/ ResumeFails
  \/ \E c \in resumed : RollBack(c)
  \/ TryShutdown \/ ShutdownReap
  \/ TickBegin \/ TickChoose \/ TickYield
  \/ \E l \in todo : TickFails(l) \/ PollPending(l) \/ PollEnded(l)
  \/ Attach \/ CommitImport \/ Complete \/ CompleteFails \/ ReapDone
  \/ DispatchHeld \/ Dispatch \/ Launch \/ LaunchRefused \/ LaunchFails \/ LaunchRefusedFails
  \/ \E l \in DOMAIN child : ChildMoves(l)
  \/ Crash

ServiceSpec == ServiceInit /\ [][ServiceNext]_serviceVars

(***************************************************************************)
(* Fairness: the owner keeps ticking, a tick runs to its end, workers and  *)
(* drains end.  Pauses, relocations and other users of the transport come  *)
(* and go, so a tick that is again and again able to reap or to launch     *)
(* finally does.                                                           *)
(***************************************************************************)
ServiceFairness ==
  /\ WF_serviceVars(TickBegin)
  /\ SF_serviceVars(TickChoose)
  /\ WF_serviceVars(ResumeReturns \/ \E c \in resumed : RollBack(c))
  /\ WF_serviceVars(\E l \in todo : PollPending(l) \/ PollEnded(l))
  /\ WF_serviceVars(Attach \/ CommitImport \/ Complete \/ ReapDone \/ Launch \/ LaunchRefused)
  /\ SF_serviceVars(Dispatch)
  /\ WF_serviceVars(\E l \in DOMAIN child : ChildMoves(l))

ServiceLiveSpec == ServiceSpec /\ ServiceFairness

-----------------------------------------------------------------------------
(***************************************************************************)
(* Types of the service's own state.                                       *)
(***************************************************************************)
ServiceTypeOK ==
  /\ at \in {"idle", "resume", "rollback", "shutdown", "tick", "reap", "publish", "attached",
             "complete", "dispatch", "launch"}
  /\ todo \subseteq DOMAIN active
  /\ cur \in 0 .. MaxSerial - 1
  /\ verdict \in Completions
  /\ stopping \in BOOLEAN
  /\ resumed \subseteq DOMAIN handles /\ (resumed # {} => at \in {"resume", "rollback"})
  /\ saved \subseteq Keys
  /\ DOMAIN active \subseteq Ids /\ \A l \in DOMAIN active : active[l] \in Keys
  /\ DOMAIN child = DOMAIN active /\ \A l \in DOMAIN child : child[l] \in ChildStates
  /\ DOMAIN handles \subseteq Ids /\ \A c \in DOMAIN handles : handles[c] \in Keys
  /\ DOMAIN completed \subseteq Ids /\ \A c \in DOMAIN completed : completed[c] \in Completions
  /\ DOMAIN journal \subseteq Keys /\ \A k \in DOMAIN journal : journal[k] \in {"queued", "blocked"}
  /\ attached \subseteq Keys /\ ready \subseteq ImportKeys /\ asked \subseteq ImportKeys
  /\ managed \in Transports /\ crashes \in 0 .. MaxCrashes

(***************************************************************************)
(* A descriptor stays in memory as long as a scheduled job or an active    *)
(* lease needs it: tick's "active job missing" and "queued preview job     *)
(* missing" never occur.                                                   *)
(***************************************************************************)
JobsDescribed ==
  /\ \A l \in DOMAIN active : active[l] \in saved
  /\ \A id \in DOMAIN jobs : jobs[id].key \in saved

(***************************************************************************)
(* An import that was submitted is never lost, over cancellation, failure, *)
(* preemption and crashes between the two databases: its asset is ready,   *)
(* its pixels are past, or its row is in the journal.                      *)
(***************************************************************************)
ImportsRemembered == asked \subseteq ready \cup stale \cup DOMAIN journal

(***************************************************************************)
(* The catalog never shows an asset as ready whose object the manifest     *)
(* does not hold, whichever commit a crash or a failure separates.         *)
(***************************************************************************)
ReadyIsAttached == ready \subseteq attached

(***************************************************************************)
(* Work in memory is work on disk: every descriptor has a journal row, so  *)
(* a crash loses no accepted request.                                      *)
(***************************************************************************)
WorkJournaled == saved \subseteq DOMAIN journal

(***************************************************************************)
(* Between ticks the leases the scheduler holds bytes for are exactly the  *)
(* workers the service owns: no reservation outlives its worker.           *)
(***************************************************************************)
LeasesRegistered == at = "idle" => DOMAIN workers = DOMAIN active

(***************************************************************************)
(* Once clients stop asking, every handle is answered or canceled unless   *)
(* the service is shut down: no result waits for ever behind a busy        *)
(* transport, a preemption, a failed drain or a replaced job.              *)
(***************************************************************************)
Owed == DOMAIN handles \ DOMAIN completed
HandlesServed == Owed # {} ~> Owed = {} \/ stopping

=============================================================================
