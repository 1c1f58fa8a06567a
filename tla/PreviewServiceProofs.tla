------------------------ MODULE PreviewServiceProofs ------------------------
(***************************************************************************)
(* Proofs about PreviewService: what the two databases say of each other   *)
(* after every step, failure and crash, for every set of keys, all limits  *)
(* and both kinds of workers; and, for one worker without failing reads    *)
(* and writes, that the descriptors and leases the service keeps in memory *)
(* are those its scheduler needs.                                          *)
(***************************************************************************)
EXTENDS PreviewService, PreviewSchedulerProofs

(* What the actor knows of the job it is about to complete: an import that *)
(* will be reported ready is ready in the catalog, and one that will be    *)
(* reported stale is done or past.                                         *)
CompletionFits ==
  /\ at = "attached" => active[cur] \in attached
  /\ at = "complete" /\ verdict = "stale" => active[cur] \in ready \cup stale
  /\ at = "complete" /\ verdict = "ready" /\ active[cur] \in ImportKeys => active[cur] \in ready

DiskInv ==
  /\ ReadyIsAttached
  /\ WorkJournaled
  /\ asked \subseteq ImportKeys /\ ImportsRemembered
  /\ CompletionFits

-----------------------------------------------------------------------------
(* Rows of the journal.                                                    *)

(* Which keys a map has after an insert and a remove.                      *)
LEMMA RowFacts ==
  ASSUME NEW f, NEW x, NEW v
  PROVE  DOMAIN Insert(f, x, v) = DOMAIN f \cup {x} /\ DOMAIN Remove(f, x) = DOMAIN f \ {x}
BY DEF Insert, Remove

(* Nothing is forgotten while no row goes, and a row may go when its       *)
(* descriptor does and its import, if it is one, is done or past.          *)
LEMMA RowsKept ==
  ASSUME DiskInv, NEW k,
         DOMAIN journal \ {k} \subseteq DOMAIN journal',
         k \notin DOMAIN journal' =>
           k \notin saved' /\ (k \in ImportKeys => k \in ready' \cup stale'),
         saved' \subseteq saved,
         asked' = asked, ready \subseteq ready', stale \subseteq stale'
  PROVE  WorkJournaled' /\ asked' \subseteq ImportKeys /\ ImportsRemembered'
BY DEF DiskInv, WorkJournaled, ImportsRemembered

(* A call that leaves the disk alone.                                      *)
LEMMA DiskStays ==
  ASSUME DiskInv, UNCHANGED <<journal, attached, ready, asked>>,
         saved' \subseteq saved, stale \subseteq stale', CompletionFits'
  PROVE  DiskInv'
BY DEF DiskInv, ReadyIsAttached, WorkJournaled, ImportsRemembered

(* submit and resume commit the row before anything else.                  *)
LEMMA AcceptKeeps ==
  ASSUME DiskInv, NEW k \in Keys, NEW p, Accept(k, p), at' \notin {"attached", "complete"}
  PROVE  DiskInv'
<1>1. /\ journal' = Insert(journal, k, "queued")
      /\ asked' = asked \cup ({k} \cap ImportKeys)
      /\ saved' \subseteq saved \cup {k}
      /\ UNCHANGED <<attached, ready, stale>>
  BY DEF Accept, QueuedRow, Request
<1>2. DOMAIN journal' = DOMAIN journal \cup {k}
  BY <1>1, RowFacts
<1>3. QED
  BY <1>1, <1>2 DEF DiskInv, ReadyIsAttached, WorkJournaled, ImportsRemembered, CompletionFits

(* Both callers of it keep the disk as it should be.                       *)
LEMMA CallsKeep ==
  ASSUME DiskInv,
         \/ \E k \in Keys, p \in Priorities : Submit(k, p)
         \/ \E k \in Keys, retry \in BOOLEAN : Resume(k, retry)
  PROVE  DiskInv'
<1>1. CASE \E k \in Keys, p \in Priorities : Submit(k, p)
  BY <1>1, AcceptKeeps DEF Submit
<1>2. CASE \E k \in Keys, retry \in BOOLEAN : Resume(k, retry)
  BY <1>2, AcceptKeeps DEF Resume
<1>3. QED
  BY <1>1, <1>2

(* cancel removes a row only with the descriptor, never an import's.       *)
LEMMA CancelConsumerKeeps ==
  ASSUME DiskInv, NEW c \in DOMAIN handles, CancelConsumer(c)
  PROVE  DiskInv'
<1> DEFINE k == handles[c]
<1>1. /\ at = "idle" /\ UNCHANGED <<at, cur, verdict, active, attached, ready, asked, stale>>
      /\ saved' \subseteq saved
      /\ journal' = journal \/ (journal' = Remove(journal, k) /\ k \notin ImportKeys
                                  /\ k \notin saved')
  <2>1. stale' = stale
    BY DEF CancelConsumer, Cancel, vars
  <2>2. QED
    BY <2>1 DEF CancelConsumer, RowsAfter, Forgets, actorVars
<1>2. DOMAIN Remove(journal, k) = DOMAIN journal \ {k}
  BY RowFacts
<1> HIDE DEF k
<1>3. WorkJournaled' /\ asked' \subseteq ImportKeys /\ ImportsRemembered'
  <2>1. CASE journal' = journal
    BY <1>1, <2>1 DEF DiskInv, WorkJournaled, ImportsRemembered
  <2>2. CASE journal' = Remove(journal, k) /\ k \notin ImportKeys /\ k \notin saved'
    <3>1. DOMAIN journal' = DOMAIN journal \ {k}
      BY <1>2, <2>2
    <3>2. QED
      BY <1>1, <2>2, <3>1 DEF DiskInv, WorkJournaled, ImportsRemembered
  <2>3. QED
    BY <1>1, <2>1, <2>2
<1>4. QED
  BY <1>1, <1>3 DEF DiskInv, ReadyIsAttached, CompletionFits

(* resume removes the row of an import that is done or past.               *)
LEMMA ResumeDoneKeeps ==
  ASSUME DiskInv, NEW k \in Keys, ResumeDone(k)
  PROVE  DiskInv'
<1>1. /\ at \in {"idle", "resume"} /\ k \notin saved
      /\ UNCHANGED <<at, cur, verdict, active, saved, attached, asked, stale>>
      /\ journal' \in {journal, Remove(journal, k)}
      /\ \/ k \in stale \cup ready /\ UNCHANGED ready
         \/ k \in attached /\ ready' = ready \cup {k}
  BY DEF ResumeDone, Current, Recovers, RowsAfter, actorVars, memoryVars, vars
<1>2. DOMAIN Remove(journal, k) = DOMAIN journal \ {k}
  BY RowFacts
<1>3. WorkJournaled' /\ asked' \subseteq ImportKeys /\ ImportsRemembered'
  BY <1>1, <1>2, RowsKept
<1>4. QED
  BY <1>1, <1>3 DEF DiskInv, ReadyIsAttached, CompletionFits

(* finished leaves the keys alone that are past.                           *)
LEMMA ReleaseStale ==
  ASSUME NEW l, Finished(l)
  PROVE  stale' = stale
BY DEF Finished

(* Steps between two places of the actor that touch neither database       *)
LEMMA QuietKeeps ==
  ASSUME DiskInv,
         \/ \E c \in DOMAIN handles : TakeCompletion(c)
         \/ ResumeReturns \/ ResumeFails
         \/ \E c \in resumed : RollBack(c)
         \/ TryShutdown \/ ShutdownReap
         \/ TickBegin \/ TickChoose \/ TickYield
         \/ \E l \in todo : TickFails(l) \/ PollPending(l)
         \/ CompleteFails \/ ReapDone
         \/ DispatchHeld \/ Dispatch \/ Launch \/ LaunchFails \/ LaunchRefusedFails
         \/ \E l \in DOMAIN child : ChildMoves(l)
         \/ Crash
  PROVE  DiskInv'
<1>1. /\ UNCHANGED <<journal, attached, ready, asked, stale>>
      /\ saved' \subseteq saved
      /\ at' \notin {"attached", "complete"} \/ UNCHANGED <<at, cur, verdict, active>>
  <2>1. CASE \/ \E c \in DOMAIN handles : TakeCompletion(c)
             \/ ResumeReturns \/ ResumeFails
             \/ TickBegin \/ TickChoose \/ TickYield
             \/ \E l \in todo : TickFails(l) \/ PollPending(l)
    BY <2>1 DEF TakeCompletion, ResumeReturns, ResumeFails, TickBegin, TickChoose, TickYield,
                TickFails, PollPending, vars, diskVars, memoryVars, actorVars
  <2>2. CASE \E c \in resumed : RollBack(c)
    BY <2>2 DEF RollBack, Cancel, Described, diskVars
  <2>3. CASE TryShutdown \/ ShutdownReap
    BY <2>3 DEF TryShutdown, SignalShutdown, ShutdownReap, Finished, vars, diskVars, memoryVars
  <2>4. CASE CompleteFails \/ ReapDone \/ LaunchFails \/ LaunchRefusedFails
    BY <2>4 DEF CompleteFails, ReapDone, LaunchFails, LaunchRefusedFails, Finished, vars, diskVars,
                memoryVars
  <2>5. CASE DispatchHeld \/ Dispatch \/ Launch
    BY <2>5 DEF DispatchHeld, Dispatch, Launch, NextReady, vars, diskVars, memoryVars
  <2>6. CASE (\E l \in DOMAIN child : ChildMoves(l)) \/ Crash
    BY <2>6 DEF ChildMoves, Crash, vars, diskVars, actorVars
  <2>7. QED
    BY <2>1, <2>2, <2>3, <2>4, <2>5, <2>6
<1>2. CompletionFits'
  BY <1>1 DEF DiskInv, CompletionFits
<1>3. QED
  BY <1>1, <1>2, DiskStays

(* Other writers of the catalog only add to what is past.                  *)
LEMMA OutdateKeeps ==
  ASSUME DiskInv, NEW k \in Keys, CatalogMoves(k)
  PROVE  DiskInv'
<1>1. /\ UNCHANGED <<journal, attached, ready, asked, saved, at, cur, verdict, active>>
      /\ stale \subseteq stale'
  BY DEF CatalogMoves, Outdate, actorVars, memoryVars, diskVars
<1>2. CompletionFits'
  BY <1>1 DEF DiskInv, CompletionFits
<1>3. QED
  BY <1>1, <1>2, DiskStays

(* From the worker's result to the verdict                                 *)
LEMMA VerdictKeeps ==
  ASSUME DiskInv, (\E l \in todo : PollEnded(l)) \/ Attach \/ CommitImport
  PROVE  DiskInv'
<1> USE DEF Current
<1>1. CASE \E l \in todo : PollEnded(l)
  <2>1. /\ UNCHANGED <<journal, attached, ready, asked, saved, stale, active>>
        /\ \/ at' = "publish"
           \/ at' = "complete" /\ verdict' \in {"canceled", "failed"}
           \/ at' = "complete" /\ verdict' = "stale" /\ active[cur'] \in stale \cup ready
    BY <1>1 DEF PollEnded, memoryVars, diskVars
  <2>2. CompletionFits'
    BY <2>1 DEF CompletionFits
  <2>3. QED
    BY <2>1, <2>2, DiskStays
<1>2. CASE Attach
  <2>1. /\ UNCHANGED <<journal, ready, asked, saved, stale, active, cur>>
        /\ \/ at' = "attached" /\ attached' = attached \cup {active[cur]}
           \/ /\ at' = "complete" /\ verdict' \in {"ready", "failed"}
              /\ active[cur] \notin ImportKeys /\ attached' = attached \cup {active[cur]}
           \/ /\ at' = "complete" /\ verdict' = "stale" /\ active[cur] \in stale \cup ready
              /\ UNCHANGED attached
           \/ at' = "complete" /\ verdict' = "failed" /\ UNCHANGED attached
    BY <1>2 DEF Attach, memoryVars, vars
  <2>2. CompletionFits'
    BY <2>1 DEF CompletionFits
  <2>3. ReadyIsAttached' /\ WorkJournaled' /\ asked' \subseteq ImportKeys /\ ImportsRemembered'
    BY <2>1 DEF DiskInv, ReadyIsAttached, WorkJournaled, ImportsRemembered
  <2>4. QED
    BY <2>2, <2>3 DEF DiskInv
<1>3. CASE CommitImport
  <2>1. /\ UNCHANGED <<journal, attached, asked, saved, stale, active, cur>>
        /\ at = "attached" /\ at' = "complete"
        /\ \/ ready' = ready \cup {active[cur]} /\ verdict' = "ready"
           \/ verdict' = "failed" /\ UNCHANGED ready
    BY <1>3 DEF CommitImport, memoryVars, vars
  <2>2. CompletionFits'
    BY <2>1 DEF CompletionFits
  <2>3. ReadyIsAttached' /\ WorkJournaled' /\ asked' \subseteq ImportKeys /\ ImportsRemembered'
    BY <2>1 DEF DiskInv, ReadyIsAttached, WorkJournaled, ImportsRemembered, CompletionFits
  <2>4. QED
    BY <2>2, <2>3 DEF DiskInv
<1>4. QED
  BY <1>1, <1>2, <1>3

(* The row of a job that ended.                                            *)
LEMMA EndedRow ==
  ASSUME DiskInv, NEW k, NEW v, journal' = JournalAfter(k, v), saved' = saved \ {k},
         v = "stale" => k \in ready \cup stale,
         v = "ready" /\ k \in ImportKeys => k \in ready,
         v \in Completions,
         UNCHANGED <<attached, ready, asked, stale>>, at' \notin {"attached", "complete"}
  PROVE  DiskInv'
<1>1. \/ DOMAIN journal' = DOMAIN journal \cup {k}
      \/ journal' = journal
      \/ DOMAIN journal' = DOMAIN journal \ {k} /\ (k \in ImportKeys => k \in ready \cup stale)
  BY RowFacts DEF JournalAfter, Forgets, Completions
<1>2. WorkJournaled' /\ asked' \subseteq ImportKeys /\ ImportsRemembered'
  BY <1>1 DEF DiskInv, WorkJournaled, ImportsRemembered
<1>3. QED
  BY <1>2 DEF DiskInv, ReadyIsAttached, CompletionFits

(* The end of a lease, and of a launch that is refused.                    *)
LEMMA CompleteKeeps ==
  ASSUME DiskInv, verdict \in Completions, Complete \/ LaunchRefused
  PROVE  DiskInv'
<1>1. CASE Complete
  <2>1. /\ at = "complete" /\ at' = "reap" /\ UNCHANGED <<attached, ready, asked, stale>>
        /\ \/ UNCHANGED <<journal, saved>>
           \/ /\ journal' = JournalAfter(active[cur], verdict)
              /\ saved' = saved \ {active[cur]}
    BY <1>1, ReleaseStale DEF Complete
  <2>2. CASE UNCHANGED <<journal, saved>>
    BY <2>1, <2>2, DiskStays DEF CompletionFits
  <2>3. CASE /\ journal' = JournalAfter(active[cur], verdict)
             /\ saved' = saved \ {active[cur]}
    BY <2>1, <2>3, EndedRow DEF DiskInv, CompletionFits
  <2>4. QED
    BY <2>1, <2>2, <2>3
<1>2. CASE LaunchRefused
  <2> DEFINE v == IF Current(LaunchedKey) THEN "failed" ELSE "stale"
  <2>1. /\ at' = "dispatch" /\ UNCHANGED <<attached, ready, asked, stale>>
        /\ journal' = JournalAfter(LaunchedKey, v) /\ saved' = saved \ {LaunchedKey}
    BY <1>2, ReleaseStale DEF LaunchRefused
  <2>2. v = "stale" => LaunchedKey \in ready \cup stale
    BY DEF Current
  <2>3. v \in Completions /\ v # "ready"
    BY DEF Completions
  <2> HIDE DEF v
  <2>4. QED
    BY <2>1, <2>2, <2>3, EndedRow
<1>3. QED
  BY <1>1, <1>2
(* Verdicts: only a poll, a publication and a crash decide one.            *)
LEMMA VerdictTyped ==
  ASSUME verdict \in Completions, [ServiceNext]_serviceVars
  PROVE  verdict' \in Completions
<1> USE DEF Completions
<1>1. CASE ServiceNext
  <2>1. CASE \/ \E k \in Keys, p \in Priorities : Submit(k, p)
             \/ \E k \in Keys : ResumeDone(k) \/ (\E retry \in BOOLEAN : Resume(k, retry))
                                \/ CatalogMoves(k)
             \/ ResumeReturns \/ ResumeFails
    BY <2>1 DEF Submit, Accept, ResumeDone, Resume, CatalogMoves, ResumeReturns, ResumeFails,
                actorVars
  <2>2. CASE \/ \E c \in DOMAIN handles : CancelConsumer(c) \/ TakeCompletion(c)
             \/ \E c \in resumed : RollBack(c)
             \/ TryShutdown \/ ShutdownReap
    BY <2>2 DEF CancelConsumer, TakeCompletion, RollBack, TryShutdown, SignalShutdown,
                ShutdownReap, actorVars
  <2>3. CASE \/ TickBegin \/ TickChoose \/ TickYield
             \/ \E l \in todo : TickFails(l) \/ PollPending(l) \/ PollEnded(l)
    BY <2>3 DEF TickBegin, TickChoose, TickYield, TickFails, PollPending, PollEnded
  <2>4. CASE Attach \/ CommitImport \/ Complete \/ CompleteFails \/ ReapDone
    BY <2>4 DEF Attach, CommitImport, Complete, CompleteFails, ReapDone
  <2>5. CASE \/ DispatchHeld \/ Dispatch \/ Launch \/ LaunchRefused \/ LaunchFails
             \/ LaunchRefusedFails
             \/ (\E l \in DOMAIN child : ChildMoves(l)) \/ Crash
    BY <2>5 DEF DispatchHeld, Dispatch, Launch, LaunchRefused, LaunchFails, LaunchRefusedFails,
                ChildMoves, Crash, actorVars
  <2>6. QED
    BY <1>1, <2>1, <2>2, <2>3, <2>4, <2>5 DEF ServiceNext
<1>2. CASE UNCHANGED serviceVars
  BY <1>2 DEF serviceVars, actorVars
<1>3. QED
  BY <1>1, <1>2

(* One case for every action.                                              *)
LEMMA DiskStep ==
  ASSUME DiskInv, verdict \in Completions, [ServiceNext]_serviceVars
  PROVE  DiskInv'
<1>1. CASE ServiceNext
  <2>1. CASE \/ \E k \in Keys, p \in Priorities : Submit(k, p)
             \/ \E k \in Keys, retry \in BOOLEAN : Resume(k, retry)
    BY <2>1, CallsKeep
  <2>2. CASE \E c \in DOMAIN handles : CancelConsumer(c)
    BY <2>2, CancelConsumerKeeps
  <2>3. CASE \E k \in Keys : ResumeDone(k)
    BY <2>3, ResumeDoneKeeps
  <2>4. CASE \E k \in Keys : CatalogMoves(k)
    BY <2>4, OutdateKeeps
  <2>5. CASE (\E l \in todo : PollEnded(l)) \/ Attach \/ CommitImport
    BY <2>5, VerdictKeeps
  <2>6. CASE Complete \/ LaunchRefused
    BY <2>6, CompleteKeeps
  <2>7. CASE \/ \E c \in DOMAIN handles : TakeCompletion(c)
             \/ ResumeReturns \/ ResumeFails
             \/ \E c \in resumed : RollBack(c)
             \/ TryShutdown \/ ShutdownReap
             \/ TickBegin \/ TickChoose \/ TickYield
             \/ \E l \in todo : TickFails(l) \/ PollPending(l)
             \/ CompleteFails \/ ReapDone
             \/ DispatchHeld \/ Dispatch \/ Launch \/ LaunchFails \/ LaunchRefusedFails
             \/ \E l \in DOMAIN child : ChildMoves(l)
             \/ Crash
    BY <2>7, QuietKeeps
  <2>8. QED
    BY <1>1, <2>1, <2>2, <2>3, <2>4, <2>5, <2>6, <2>7, Zenon DEF ServiceNext
<1>2. CASE UNCHANGED serviceVars
  <2>1. UNCHANGED <<journal, attached, ready, asked, saved, stale, at, cur, verdict, active>>
    BY <1>2 DEF serviceVars, vars, actorVars, memoryVars, diskVars
  <2>2. CompletionFits'
    BY <2>1 DEF DiskInv, CompletionFits
  <2>3. QED
    BY <2>1, <2>2, DiskStays
<1>3. QED
  BY <1>1, <1>2

-----------------------------------------------------------------------------
(***************************************************************************)
(* What holds of the journal, the manifest and the catalog together holds  *)
(* from the first start of the process on, over every failure and crash.   *)
(***************************************************************************)
THEOREM DiskInductive == ServiceSpec => [](DiskInv /\ verdict \in Completions)
<1>1. ServiceInit => DiskInv /\ verdict \in Completions
  BY DEF ServiceInit, DiskInv, ReadyIsAttached, WorkJournaled, ImportsRemembered, CompletionFits,
         Completions
<1>2. DiskInv /\ verdict \in Completions /\ [ServiceNext]_serviceVars
        => (DiskInv /\ verdict \in Completions)'
  BY DiskStep, VerdictTyped
<1>3. QED
  BY <1>1, <1>2, PTL DEF ServiceSpec

(***************************************************************************)
(* No submitted import is lost: not by the cancellation of its last        *)
(* consumer, a failed render, a failed write, or a crash between the two   *)
(* databases.                                                              *)
(***************************************************************************)
THEOREM NoImportLost == ServiceSpec => []ImportsRemembered
<1>1. DiskInv /\ verdict \in Completions => ImportsRemembered
  BY DEF DiskInv
<1>2. QED
  BY <1>1, DiskInductive, PTL

(***************************************************************************)
(* The catalog shows an asset as ready only when the manifest holds its    *)
(* object: publish_batch attaches first, and resume completes only what    *)
(* was attached.                                                           *)
(***************************************************************************)
THEOREM ReadyHasObject == ServiceSpec => []ReadyIsAttached
<1>1. DiskInv /\ verdict \in Completions => ReadyIsAttached
  BY DEF DiskInv
<1>2. QED
  BY <1>1, DiskInductive, PTL

(***************************************************************************)
(* Every descriptor the service keeps in memory has its journal row:       *)
(* save_job commits before the scheduler is asked, and a row is removed    *)
(* only with the descriptor.                                               *)
(***************************************************************************)
THEOREM AcceptedIsJournaled == ServiceSpec => []WorkJournaled
<1>1. DiskInv /\ verdict \in Completions => WorkJournaled
  BY DEF DiskInv
<1>2. QED
  BY <1>1, DiskInductive, PTL

-----------------------------------------------------------------------------
(* One worker whose reads and writes do not fail.                          *)

OneWorker == Workers = 1 /\ ~Faulty

(* Keys nobody asks for again: their pixels are past, or the service       *)
(* accepts nothing any more.                                               *)
Past == {k \in Keys : ~Current(k) \/ stopping}

(* The lease that dispatch_ready has drawn and not handed to a worker yet. *)
Launching == IF at = "launch" THEN {cur} ELSE {}

(* One job runs; the others are wanted and were not told to stop.          *)
Tame(J) ==
  /\ \A i, j \in Running(J) : i = j
  /\ \A id \in DOMAIN J : ~J[id].running =>
       DOMAIN J[id].consumers # {} /\ ~J[id].canceled /\ ~J[id].preempted

(* A consumer of the scheduler has a handle for its job's key, unanswered. *)
Handled(J, C, H, X) ==
  \A c \in DOMAIN C : c \in DOMAIN H /\ H[c] = J[C[c]].key /\ c \notin DOMAIN X

(* The service knows the keys of the leases, and has their descriptors.    *)
Named(J, A) == \A id \in DOMAIN J : J[id].lease \in DOMAIN A => A[J[id].lease] = J[id].key
DescribedIn(J, T) == \A id \in DOMAIN J : J[id].key \in T

(* The job about to be launched is wanted and was not preempted.           *)
LaunchFits ==
  at = "launch" =>
    /\ cur \in DOMAIN workers
    /\ \A id \in DOMAIN jobs : jobs[id].lease = cur =>
         DOMAIN jobs[id].consumers # {} /\ ~jobs[id].preempted

MemoryInv ==
  /\ OneWorker
  /\ NowFor(Past)
  /\ DOMAIN external = {}
  /\ Tame(jobs)
  /\ Handled(jobs, consumers, handles, completed)
  /\ DOMAIN completed \subseteq 1 .. next - 1
  /\ DOMAIN active = DOMAIN workers \ Launching
  /\ Named(jobs, active)
  /\ LaunchFits
  /\ DescribedIn(jobs, saved)
  /\ NoLease \notin todo

(* The next state, put together from its parts.                            *)
LEMMA Assemble ==
  ASSUME OneWorker, NEW S, Then(S), S \subseteq Past', DOMAIN external' = {}, Tame(jobs'),
         Handled(jobs', consumers', handles', completed'),
         DOMAIN completed' \subseteq 1 .. next' - 1,
         DOMAIN active' = DOMAIN workers' \ Launching', Named(jobs', active'), LaunchFits',
         DescribedIn(jobs', saved'), NoLease \notin todo'
  PROVE  MemoryInv'
<1>1. Past' \subseteq Keys
  BY DEF Past
<1>2. GoodFlags(jobs', Past') /\ GoodRest(next', keys', consumers', workers', joined', Past')
  BY <1>1 DEF Then, Good, GoodFlags, GoodRest
<1>3. NowFor(Past)'
  BY <1>2 DEF NowFor, Then, Good
<1>4. OneWorker'
  BY DEF OneWorker
<1>5. QED
  BY <1>3, <1>4 DEF MemoryInv

(* The one job behind a live process.                                      *)
LEMMA OwnerOf ==
  ASSUME MemoryInv, NEW l \in DOMAIN workers
  PROVE  /\ LeaseOwner(l) = {LeaseJob(l)}
         /\ LeaseJob(l) \in DOMAIN jobs /\ jobs[LeaseJob(l)].lease = l
         /\ jobs[LeaseJob(l)].running
<1>1. \E h \in HoldersOf(jobs, external, l) : HoldersOf(jobs, external, l) = {h}
  BY DEF MemoryInv, NowFor, Good, GoodLeases
<1>2. HoldersOf(jobs, external, l) = LeaseOwner(l)
  BY DEF HoldersOf, LeaseOwner, MemoryInv
<1>3. LeaseOwner(l) = {LeaseJob(l)}
  BY <1>1, <1>2 DEF LeaseJob
<1>4. LeaseJob(l) \in DOMAIN jobs /\ jobs[LeaseJob(l)].lease = l
  BY <1>3 DEF LeaseOwner
<1>5. l # NoLease
  BY DEF MemoryInv, NowFor, Good, GoodRest, NoLease
<1>6. QED
  BY <1>3, <1>4, <1>5 DEF MemoryInv, NowFor, Good, GoodLeases

(* What the invariant is for.                                              *)
LEMMA MemoryMeans ==
  ASSUME MemoryInv PROVE JobsDescribed /\ LeasesRegistered
<1>1. ASSUME NEW l \in DOMAIN active PROVE active[l] \in saved
  <2>1. l \in DOMAIN workers
    BY DEF MemoryInv
  <2>2. LeaseJob(l) \in DOMAIN jobs /\ jobs[LeaseJob(l)].lease = l
    BY <2>1, OwnerOf
  <2>3. QED
    BY <2>2 DEF MemoryInv, Named, DescribedIn
<1>2. QED
  BY <1>1 DEF JobsDescribed, LeasesRegistered, MemoryInv, DescribedIn, Launching

(* P differs from J in the stop flags of running jobs.                     *)
Alike(J, P) ==
  /\ DOMAIN P = DOMAIN J
  /\ \A id \in DOMAIN J :
       /\ P[id].key = J[id].key /\ P[id].consumers = J[id].consumers
       /\ P[id].running = J[id].running /\ P[id].lease = J[id].lease
       /\ ~J[id].running => P[id] = J[id]

(* What the service knows does not depend on those flags.                  *)
LEMMA AlikeFits ==
  ASSUME NEW J, NEW P, Alike(J, P), NEW C, NEW H, NEW X, NEW A, NEW T,
         \A c \in DOMAIN C : C[c] \in DOMAIN J,
         Tame(J), Handled(J, C, H, X), Named(J, A), DescribedIn(J, T)
  PROVE  Tame(P) /\ Handled(P, C, H, X) /\ Named(P, A) /\ DescribedIn(P, T)
<1>1. Tame(P)
  BY DEF Alike, Tame, Running
<1>2. Handled(P, C, H, X)
  BY DEF Alike, Handled
<1>3. Named(P, A) /\ DescribedIn(P, T)
  BY DEF Alike, Named, DescribedIn
<1>4. QED
  BY <1>1, <1>2, <1>3

(* preempt_background, without native reads.                               *)
LEMMA PreemptAlike ==
  ASSUME NEW n \in Nat, NEW J, NEW E, GoodJobs(n, J), DOMAIN E = {}, NEW bytes
  PROVE  /\ Alike(J, PreemptedJobs(J, Victims(J, E, bytes)))
         /\ DOMAIN PreemptedReads(E, Victims(J, E, bytes)) = {}
<1> DEFINE V == Victims(J, E, bytes)
<1>1. V \subseteq Running(J)
  BY VictimsBusy DEF Leased
<1>2. GoodReads(n, J, E)
  BY DEF GoodReads
<1>3. SameUpToFlags(n, J, E, PreemptedJobs(J, V), PreemptedReads(E, V))
  BY <1>2, PreemptFacts
<1> HIDE DEF V
<1>4. \A id \in DOMAIN J : ~J[id].running => PreemptedJobs(J, V)[id] = J[id]
  BY <1>1 DEF PreemptedJobs, Running
<1>5. QED
  BY <1>3, <1>4 DEF Alike, SameUpToFlags, V

(* Setting tokens of jobs that nobody asks for again.                      *)
LEMMA TokensKeep ==
  ASSUME NEW n \in Nat, NEW J, NEW K, NEW C, NEW E, NEW W, NEW D, NEW S,
         Good(n, J, K, C, E, W, D, S), NEW B, \A id \in DOMAIN J : id \in B => J[id].key \in S,
         NEW P, P = [id \in DOMAIN J |-> IF id \in B THEN [J[id] EXCEPT !.canceled = TRUE]
                                         ELSE J[id]]
  PROVE  /\ Good(n, P, K, C, E, W, D, S)
         /\ (\A id \in DOMAIN J : id \in B => J[id].running) => Alike(J, P)
<1>1. /\ DOMAIN P = DOMAIN J
      /\ \A x \in DOMAIN J : /\ P[x] \in JobType(n, P[x].consumers)
                             /\ P[x].key = J[x].key /\ P[x].cost = J[x].cost
                             /\ P[x].consumers = J[x].consumers
                             /\ P[x].running = J[x].running /\ P[x].lease = J[x].lease
                             /\ x \notin B => P[x] = J[x]
  BY DEF Good, GoodJobs, JobType
<1>2. GoodJobs(n, P)
  BY <1>1 DEF Good, GoodJobs
<1>3. GoodReads(n, P, E)
  BY <1>1 DEF Good, GoodReads
<1>4. GoodConsumers(P, K, C)
  BY <1>1 DEF Good, GoodConsumers
<1>5. \A l : HoldersOf(P, E, l) = HoldersOf(J, E, l)
  BY <1>1 DEF HoldersOf
<1>6. GoodLeases(P, E, W, D)
  BY <1>1, <1>5 DEF Good, GoodLeases
<1>7. GoodFlags(P, S)
  BY <1>1 DEF Good, GoodFlags
<1>8. QED
  BY <1>1, <1>2, <1>3, <1>4, <1>6, <1>7 DEF Good, Alike

(* A key without handle and active lease has no job.                       *)
LEMMA Unneeded ==
  ASSUME NEW n, NEW J, NEW K, NEW C, NEW E, NEW W, NEW D, NEW S, NEW H, NEW X, NEW A, NEW k,
         Good(n, J, K, C, E, W, D, S), Tame(J), Handled(J, C, H, X), Named(J, A),
         DOMAIN A = DOMAIN W,
         \A d \in DOMAIN H : H[d] # k, \A l \in DOMAIN A : A[l] # k
  PROVE  \A id \in DOMAIN J : J[id].key # k
<1> SUFFICES ASSUME NEW id \in DOMAIN J, J[id].key = k PROVE FALSE
  OBVIOUS
<1>1. CASE J[id].running
  BY <1>1 DEF Good, GoodLeases, Named
<1>2. CASE ~J[id].running
  <2>1. PICK d : d \in DOMAIN J[id].consumers
    BY <1>2 DEF Tame
  <2>2. d \in DOMAIN C /\ C[d] = id
    BY <2>1 DEF Good, GoodConsumers
  <2>3. QED
    BY <2>2 DEF Handled
<1>3. QED
  BY <1>1, <1>2

(* Steps that leave the scheduler, the leases and the descriptors alone.   *)
LEMMA StillKeeps ==
  ASSUME MemoryInv,
         UNCHANGED <<next, jobs, keys, consumers, external, workers, joined, saved, active>>,
         Past \subseteq Past', Launching' = Launching, at' = "launch" => at = "launch" /\ cur' = cur,
         \A c \in DOMAIN consumers : c \in DOMAIN handles' /\ handles'[c] = handles[c],
         DOMAIN completed' \subseteq DOMAIN completed, NoLease \notin todo'
  PROVE  MemoryInv'
<1>1. Then(Past)
  BY DEF MemoryInv, NowFor, Then
<1>2. Handled(jobs', consumers', handles', completed')
  BY DEF MemoryInv, Handled
<1>3. LaunchFits'
  BY DEF MemoryInv, LaunchFits
<1>4. /\ OneWorker /\ DOMAIN external' = {} /\ Tame(jobs') /\ Named(jobs', active')
      /\ DOMAIN completed' \subseteq 1 .. next' - 1
      /\ DOMAIN active' = DOMAIN workers' \ Launching' /\ DescribedIn(jobs', saved')
  BY DEF MemoryInv
<1>5. QED
  BY <1>1, <1>2, <1>3, <1>4, Assemble

(* Every place but one holds the leases the scheduler does.                *)
LEMMA NotLaunching ==
  ASSUME at # "launch", at' # "launch"
  PROVE  Launching = {} /\ Launching' = {} /\ LaunchFits'
BY DEF Launching, LaunchFits

(* Every step that touches neither scheduler nor descriptors.              *)
LEMMA QuietMemory ==
  ASSUME MemoryInv,
         \/ \E c \in DOMAIN handles : TakeCompletion(c)
         \/ \E k \in Keys : ResumeDone(k) \/ CatalogMoves(k)
         \/ ResumeReturns \/ ResumeFails
         \/ TickBegin \/ TickChoose \/ TickYield
         \/ \E l \in todo : TickFails(l)
         \/ Attach \/ CommitImport \/ ReapDone \/ DispatchHeld
         \/ \E l \in DOMAIN child : ChildMoves(l)
         \/ UNCHANGED serviceVars
  PROVE  MemoryInv'
<1> DEFINE Still == /\ UNCHANGED <<next, jobs, keys, consumers, external, workers, joined,
                                   saved, active>>
                    /\ stale \subseteq stale' /\ ready \subseteq ready' /\ stopping' = stopping
                    /\ (at # "launch" /\ at' # "launch") \/ UNCHANGED <<at, cur>>
                    /\ todo' \subseteq todo \cup DOMAIN active
<1>1. ASSUME Still, \A c \in DOMAIN consumers : c \in DOMAIN handles' /\ handles'[c] = handles[c],
             DOMAIN completed' \subseteq DOMAIN completed
      PROVE  MemoryInv'
  <2>1. Past \subseteq Past'
    BY <1>1 DEF Past, Current
  <2>2. Launching' = Launching /\ (at' = "launch" => at = "launch" /\ cur' = cur)
    BY <1>1 DEF Launching
  <2>3. NoLease \notin todo'
    BY <1>1 DEF MemoryInv, NowFor, Good, GoodRest, NoLease
  <2>4. QED
    BY <1>1, <2>1, <2>2, <2>3, StillKeeps
<1>2. \A c \in DOMAIN consumers : c \in DOMAIN handles /\ c \notin DOMAIN completed
  BY DEF MemoryInv, Handled
<1>3. ASSUME NEW c \in DOMAIN handles, TakeCompletion(c) PROVE MemoryInv'
  <2>1. Still
    BY <1>3 DEF TakeCompletion, vars, actorVars, callVars, diskVars, runVars
  <2>2. /\ c \in DOMAIN completed
        /\ DOMAIN completed' \subseteq DOMAIN completed
        /\ \A d \in DOMAIN handles \ {c} : d \in DOMAIN handles' /\ handles'[d] = handles[d]
    BY <1>3 DEF TakeCompletion, Remove
  <2> HIDE DEF Still
  <2>3. QED
    BY <1>1, <1>2, <2>1, <2>2
<1>4. ASSUME Still, UNCHANGED <<handles, completed>> PROVE MemoryInv'
  BY <1>1, <1>2, <1>4
<1>5. CASE (\E k \in Keys : ResumeDone(k) \/ CatalogMoves(k)) \/ ResumeReturns \/ ResumeFails
  <2>1. Still /\ UNCHANGED <<handles, completed>>
    BY <1>5 DEF ResumeDone, CatalogMoves, Outdate, ResumeReturns, ResumeFails, vars, actorVars,
                callVars, memoryVars, diskVars
  <2>2. QED
    BY <1>4, <2>1
<1>6. CASE \/ TickBegin \/ TickChoose \/ TickYield \/ (\E l \in todo : TickFails(l))
           \/ ReapDone \/ DispatchHeld
  <2>1. Still /\ UNCHANGED <<handles, completed>>
    BY <1>6 DEF TickBegin, TickChoose, TickYield, TickFails, ReapDone, DispatchHeld, vars,
                actorVars, callVars, memoryVars, diskVars
  <2>2. QED
    BY <1>4, <2>1
<1>7. CASE \/ Attach \/ CommitImport \/ (\E l \in DOMAIN child : ChildMoves(l))
           \/ UNCHANGED serviceVars
  <2>1. Still /\ UNCHANGED <<handles, completed>>
    BY <1>7 DEF Attach, CommitImport, ChildMoves, serviceVars, vars, actorVars, callVars,
                memoryVars, diskVars
  <2>2. QED
    BY <1>4, <2>1
<1> HIDE DEF Still
<1>8. QED
  BY <1>3, <1>5, <1>6, <1>7

(* What the scheduler's consumers point to.                                *)
LEMMA ConsumersPoint ==
  ASSUME MemoryInv
  PROVE  /\ next \in Nat /\ GoodJobs(next, jobs)
         /\ \A c \in DOMAIN consumers : consumers[c] \in DOMAIN jobs /\ c \in 1 .. next - 1
BY ForFacts DEF MemoryInv, NowFor, Good, GoodConsumers, GoodRest

(* Steps that set stop flags of running jobs.                              *)
LEMMA AlikeKeeps ==
  ASSUME MemoryInv, Alike(jobs, jobs'), NEW S, Then(S), S \subseteq Past',
         UNCHANGED <<next, consumers, external, workers, saved, active, handles, completed>>,
         at # "launch", at' # "launch", NoLease \notin todo'
  PROVE  MemoryInv'
<1>1. /\ OneWorker /\ DOMAIN external = {} /\ Tame(jobs) /\ Named(jobs, active)
      /\ Handled(jobs, consumers, handles, completed)
      /\ DOMAIN completed \subseteq 1 .. next - 1
      /\ DOMAIN active = DOMAIN workers \ Launching /\ DescribedIn(jobs, saved)
  BY DEF MemoryInv
<1>2. /\ Tame(jobs') /\ Handled(jobs', consumers, handles, completed) /\ Named(jobs', active)
      /\ DescribedIn(jobs', saved)
  BY <1>1, ConsumersPoint, AlikeFits
<1>3. QED
  BY <1>1, <1>2, NotLaunching, Assemble

(* poll sets the token of a lease whose pixels are past.                   *)
LEMMA PollMemory ==
  ASSUME MemoryInv, NEW l \in todo, PollPending(l) \/ PollEnded(l)
  PROVE  MemoryInv'
<1> DEFINE B == {id \in LeaseOwner(l) : ~Current(active[l])}
<1>1. /\ SetToken(l) /\ at = "reap" /\ at' # "launch"
      /\ UNCHANGED <<next, keys, consumers, external, workers, joined, stale, ready, stopping,
                     saved, active, handles, completed>>
      /\ todo' \subseteq todo
  BY DEF PollPending, PollEnded, callVars, memoryVars, diskVars
<1>2. l # NoLease /\ DOMAIN active = DOMAIN workers
  BY <1>1 DEF MemoryInv, Launching
<1>3. ASSUME NEW id \in DOMAIN jobs, id \in B PROVE jobs[id].running /\ jobs[id].key \in Past
  <2>1. jobs[id].lease = l /\ ~Current(active[l])
    BY <1>3 DEF LeaseOwner
  <2>2. jobs[id].running /\ l \in DOMAIN workers
    BY <1>2, <2>1 DEF MemoryInv, NowFor, Good, GoodLeases
  <2>3. jobs[id].key = active[l] /\ jobs[id].key \in Keys
    BY <1>2, <2>1, <2>2 DEF MemoryInv, Named, NowFor, Good, GoodJobs, JobType
  <2>4. QED
    BY <2>1, <2>2, <2>3 DEF Past
<1>4. jobs' = [id \in DOMAIN jobs |-> IF id \in B THEN [jobs[id] EXCEPT !.canceled = TRUE]
                                      ELSE jobs[id]]
  BY <1>1 DEF SetToken
<1>5. Good(next, jobs, keys, consumers, external, workers, joined, Past) /\ next \in Nat
  BY ConsumersPoint DEF MemoryInv, NowFor
<1> HIDE DEF B
<1>6. Good(next, jobs', keys, consumers, external, workers, joined, Past) /\ Alike(jobs, jobs')
  BY <1>3, <1>4, <1>5, TokensKeep
<1>7. Then(Past)
  BY <1>1, <1>6 DEF Then
<1>8. Past' = Past /\ NoLease \notin todo'
  BY <1>1 DEF Past, Current, MemoryInv
<1>9. QED
  BY <1>1, <1>6, <1>7, <1>8, AlikeKeeps

(* signal_shutdown sets every token and accepts nothing any more.          *)
LEMMA ShutdownMemory == ASSUME MemoryInv, TryShutdown PROVE MemoryInv'
<1> DEFINE B == {id \in DOMAIN jobs : jobs[id].lease \in DOMAIN active}
<1>1. /\ at = "idle" /\ at' # "launch" /\ stopping'
      /\ UNCHANGED <<next, keys, consumers, external, workers, joined, saved, active, handles,
                     completed, todo>>
      /\ jobs' = [id \in DOMAIN jobs |-> IF id \in B THEN [jobs[id] EXCEPT !.canceled = TRUE]
                                         ELSE jobs[id]]
  BY DEF TryShutdown, SignalShutdown, memoryVars
<1>2. Past' = Keys
  BY <1>1 DEF Past
<1>3. \A id \in DOMAIN jobs : jobs[id].key \in Keys
  BY DEF MemoryInv, NowFor, Good, GoodJobs, JobType
<1>4. \A id \in DOMAIN jobs : id \in B => jobs[id].running
  BY <1>1 DEF MemoryInv, NowFor, Good, GoodLeases, GoodRest, NoLease
<1>5. Good(next, jobs, keys, consumers, external, workers, joined, Keys) /\ next \in Nat
  BY <1>3, ConsumersPoint DEF MemoryInv, NowFor, Good, GoodFlags, GoodRest
<1> HIDE DEF B
<1>6. Good(next, jobs', keys, consumers, external, workers, joined, Keys) /\ Alike(jobs, jobs')
  BY <1>1, <1>3, <1>4, <1>5, TokensKeep
<1>7. Then(Keys)
  BY <1>1, <1>6 DEF Then
<1>8. NoLease \notin todo'
  BY <1>1 DEF MemoryInv
<1>9. QED
  BY <1>1, <1>2, <1>6, <1>7, <1>8, AlikeKeeps

(* A call of the owner that changes the jobs to J and then lets            *)
(* preempt_background run.                                                 *)
LEMMA CallFits ==
  ASSUME MemoryInv, Then(Past), Past' = Past, next \in Nat, next' \in Nat, next <= next',
         NEW J, NEW n \in Nat, NEW bytes, GoodJobs(n, J),
         Preempt(J, external, bytes) \/ (jobs' = J /\ external' = external),
         Tame(J), Handled(J, consumers', handles', completed), Named(J, active),
         DescribedIn(J, saved'), UNCHANGED <<workers, active, completed, todo>>,
         at # "launch", at' # "launch"
  PROVE  MemoryInv'
<1>1. Alike(J, jobs') /\ DOMAIN external' = {}
  <2>1. DOMAIN external = {}
    BY DEF MemoryInv
  <2>2. CASE Preempt(J, external, bytes)
    BY <2>1, <2>2, PreemptAlike DEF Preempt
  <2>3. CASE jobs' = J /\ external' = external
    BY <2>1, <2>3 DEF Alike
  <2>4. QED
    BY <2>2, <2>3
<1>2. \A c \in DOMAIN consumers' : consumers'[c] \in DOMAIN J
  BY <1>1 DEF Then, Good, GoodConsumers, Alike
<1>3. /\ Tame(jobs') /\ Handled(jobs', consumers', handles', completed) /\ Named(jobs', active)
      /\ DescribedIn(jobs', saved')
  BY <1>1, <1>2, AlikeFits
<1>4. DOMAIN completed \subseteq 1 .. next' - 1
  BY DEF MemoryInv
<1>5. OneWorker /\ DOMAIN active = DOMAIN workers \ Launching /\ NoLease \notin todo
  BY DEF MemoryInv
<1>6. QED
  BY <1>1, <1>3, <1>4, <1>5, NotLaunching, Assemble

(* submit and resume.                                                      *)
LEMMA AcceptMemory ==
  ASSUME MemoryInv, NEW k \in Keys, NEW p \in Priorities, Accept(k, p),
         at # "launch", at' # "launch"
  PROVE  MemoryInv'
<1>1. PICK cost \in Costs : Request(k, cost, p)
  BY DEF Accept
<1>2. /\ ~stopping /\ Current(k)
      /\ IF next \in DOMAIN consumers'
           THEN handles' = Insert(handles, next, k) /\ saved' = saved \cup {k}
           ELSE UNCHANGED <<handles, saved>>
      /\ UNCHANGED <<workers, joined, stale, active, completed, todo, ready, stopping>>
  BY <1>1 DEF Accept, Request
<1>3. k \notin Past /\ Past' = Past
  BY <1>2 DEF Past, Current
<1>4. NowFor(Past) /\ Then(Past)
  BY <1>1, <1>3, RequestGood DEF MemoryInv
<1>5. next \in Nat /\ next < MaxSerial /\ MaxSerial \in Nat /\ cost \in Nat
  BY <1>1, <1>4, ForFacts DEF Request
<1>6. /\ DOMAIN jobs \subseteq 1 .. next - 1 /\ DOMAIN consumers \subseteq 1 .. next - 1
      /\ DOMAIN active \subseteq 1 .. next - 1 /\ DOMAIN completed \subseteq 1 .. next - 1
  BY <1>4 DEF NowFor, Good, GoodJobs, GoodRest, MemoryInv
<1>7. /\ next \notin DOMAIN consumers /\ next \notin DOMAIN completed
      /\ next + 1 \notin DOMAIN jobs /\ NoLease \notin DOMAIN active
  BY <1>5, <1>6 DEF NoLease
<1>8. /\ Tame(jobs) /\ Handled(jobs, consumers, handles, completed) /\ Named(jobs, active)
      /\ DescribedIn(jobs, saved)
  BY DEF MemoryInv
<1>9. \A c \in DOMAIN consumers : consumers[c] \in DOMAIN jobs
  BY ConsumersPoint
<1>10. ASSUME NEW id \in Joinable(k), Join(k, cost, p, id) PROVE MemoryInv'
  <2> DEFINE J == [jobs EXCEPT ![id].consumers = Insert(jobs[id].consumers, next, p)]
  <2>1. /\ id \in DOMAIN jobs /\ jobs[id].key = k /\ k \in DOMAIN keys /\ keys[k] = id
        /\ ~jobs[id].canceled \/ jobs[id].preempted
    BY <1>4, <1>10 DEF Joinable, NowFor, Good, GoodConsumers
  <2>2. /\ next' = next + 1 /\ consumers' = Insert(consumers, next, id)
        /\ Preempt(J, external, reserved) \/ (jobs' = J /\ external' = external)
    BY <1>10 DEF Join
  <2>3. GoodJobs(next + 1, J)
    BY <1>4, <1>5, <2>1, JoinKeeps DEF NowFor, Good
  <2>4. handles' = Insert(handles, next, k) /\ saved' = saved \cup {k}
    BY <1>2, <2>2 DEF Insert
  <2>5. /\ DOMAIN J = DOMAIN jobs
        /\ \A x \in DOMAIN jobs :
             /\ J[x].key = jobs[x].key /\ J[x].lease = jobs[x].lease
             /\ J[x].running = jobs[x].running /\ J[x].canceled = jobs[x].canceled
             /\ J[x].preempted = jobs[x].preempted
             /\ DOMAIN jobs[x].consumers \subseteq DOMAIN J[x].consumers
    <3>1. \A x \in DOMAIN jobs : jobs[x] \in JobType(next, jobs[x].consumers)
      BY <1>4 DEF NowFor, Good, GoodJobs
    <3>2. DOMAIN jobs[id].consumers \subseteq DOMAIN Insert(jobs[id].consumers, next, p)
      BY DEF Insert
    <3>3. QED
      BY <2>1, <3>1, <3>2 DEF JobType
  <2> HIDE DEF J
  <2>6. Tame(J)
    BY <1>8, <2>5 DEF Tame, Running
  <2>7. Handled(J, consumers', handles', completed)
    BY <1>7, <1>8, <1>9, <2>1, <2>2, <2>4, <2>5 DEF Handled, Insert
  <2>8. Named(J, active) /\ DescribedIn(J, saved')
    BY <1>8, <2>4, <2>5 DEF Named, DescribedIn
  <2>9. next' \in Nat /\ next <= next' /\ next + 1 \in Nat
    BY <1>5, <2>2
  <2>10. QED
    BY <1>2, <1>3, <1>4, <1>5, <2>2, <2>3, <2>6, <2>7, <2>8, <2>9, CallFits
<1>11. ASSUME Joinable(k) = {}, Start(k, cost, p) PROVE MemoryInv'
  <2> DEFINE J == Insert(jobs, next + 1, NewJob(k, cost, next, p))
  <2>1. k \in DOMAIN keys => jobs[keys[k]].canceled /\ ~jobs[keys[k]].preempted
    BY <1>4, <1>11 DEF Joinable, NowFor, Good, GoodConsumers
  <2>2. /\ next' = next + 2 /\ consumers' = Insert(consumers, next, next + 1)
        /\ next + 1 < MaxSerial
        /\ Preempt(J, external, reserved) \/ (jobs' = J /\ external' = external)
    BY <1>11 DEF Start
  <2>3. GoodJobs(next + 2, J)
    BY <1>3, <1>4, <1>5, <2>1, <2>2, StartKeeps DEF NowFor, Good
  <2>4. handles' = Insert(handles, next, k) /\ saved' = saved \cup {k}
    BY <1>2, <2>2 DEF Insert
  <2>5. /\ DOMAIN J = DOMAIN jobs \cup {next + 1}
        /\ \A x \in DOMAIN jobs : J[x] = jobs[x]
        /\ J[next + 1].key = k /\ J[next + 1].lease = NoLease /\ J[next + 1].running = FALSE
        /\ J[next + 1].canceled = FALSE /\ J[next + 1].preempted = FALSE
        /\ DOMAIN J[next + 1].consumers = {next}
    BY <1>7 DEF Insert, NewJob
  <2> HIDE DEF J
  <2>6. Tame(J)
    BY <1>8, <2>5 DEF Tame, Running
  <2>7. Handled(J, consumers', handles', completed)
    BY <1>7, <1>8, <1>9, <2>2, <2>4, <2>5 DEF Handled, Insert
  <2>8. Named(J, active) /\ DescribedIn(J, saved')
    BY <1>7, <1>8, <2>4, <2>5 DEF Named, DescribedIn
  <2>9. next' \in Nat /\ next <= next' /\ next + 2 \in Nat
    BY <1>5, <2>2
  <2>10. QED
    BY <1>2, <1>3, <1>4, <1>5, <2>2, <2>3, <2>6, <2>7, <2>8, <2>9, CallFits
<1>12. ASSUME (\E id \in Joinable(k) : Conflict(cost, id)) \/ StartRefused PROVE MemoryInv'
  <2>1. next' = next + 1 /\ UNCHANGED <<jobs, consumers, external>>
    BY <1>12 DEF Conflict, StartRefused
  <2>2. UNCHANGED <<handles, saved>>
    BY <1>2, <1>7, <2>1
  <2>3. GoodJobs(next, jobs)
    BY ConsumersPoint
  <2>4. next' \in Nat /\ next <= next'
    BY <1>5, <2>1
  <2>5. Handled(jobs, consumers', handles', completed) /\ DescribedIn(jobs, saved')
    BY <1>8, <2>1, <2>2
  <2>6. QED
    BY <1>2, <1>3, <1>4, <1>5, <1>8, <2>1, <2>3, <2>4, <2>5, CallFits
<1>13. \/ \E id \in Joinable(k) : Join(k, cost, p, id) \/ Conflict(cost, id)
       \/ Joinable(k) = {} /\ (Start(k, cost, p) \/ StartRefused)
  BY <1>1 DEF Request
<1>14. QED
  BY <1>10, <1>11, <1>12, <1>13

(* The descriptor of key k is given up only when nothing needs it.         *)
GivesUp(k) ==
  /\ saved' = saved \ {k}
  /\ \A d \in DOMAIN handles' : handles'[d] # k
  /\ \A l \in DOMAIN active : active[l] # k

(* cancel and the rollback of resume.                                      *)
LEMMA CancelMemory ==
  ASSUME MemoryInv, NEW c, Cancel(c) \/ (c \notin DOMAIN consumers /\ UNCHANGED vars),
         handles' = Remove(handles, c), DOMAIN completed' \subseteq DOMAIN completed,
         saved' = saved \/ GivesUp(handles[c]),
         UNCHANGED <<active, ready, stopping, todo>>, at # "launch", at' # "launch"
  PROVE  MemoryInv'
<1>1. /\ NowFor(Past) /\ next \in Nat /\ next <= MaxSerial /\ MaxSerial \in Nat
      /\ DOMAIN consumers \subseteq 1 .. next - 1
  BY ForFacts DEF MemoryInv, NowFor, Good, GoodRest
<1>2. UNCHANGED <<next, external, workers, joined, stale>>
  BY DEF Cancel, vars
<1>3. Past' = Past
  BY <1>2 DEF Past, Current
<1>4. Then(Past)
  <2>1. CASE Cancel(c)
    <3>1. c \in Ids
      BY <1>1, <2>1 DEF Cancel, Ids
    <3>2. QED
      BY <1>1, <2>1, <3>1, CancelGood
  <2>2. CASE UNCHANGED vars
    BY <1>1, <2>2 DEF NowFor, Then, vars
  <2>3. QED
    BY <2>1, <2>2
<1>5. /\ DOMAIN consumers' = DOMAIN consumers \ {c}
      /\ \A d \in DOMAIN consumers' : consumers'[d] = consumers[d]
  BY DEF Cancel, vars, Remove
<1>6. Tame(jobs) /\ Handled(jobs, consumers, handles, completed) /\ Named(jobs, active)
  BY DEF MemoryInv
<1>7. /\ DOMAIN jobs' \subseteq DOMAIN jobs
      /\ \A x \in DOMAIN jobs' :
           /\ jobs'[x].key = jobs[x].key /\ jobs'[x].lease = jobs[x].lease
           /\ jobs'[x].running = jobs[x].running
           /\ ~jobs[x].running =>
                /\ DOMAIN jobs'[x].consumers # {}
                /\ jobs'[x].canceled = jobs[x].canceled /\ jobs'[x].preempted = jobs[x].preempted
  <2>1. CASE UNCHANGED vars
    BY <1>6, <2>1 DEF vars, Tame
  <2>2. CASE Cancel(c)
    <3> DEFINE id == consumers[c]
               left == Remove(jobs[id].consumers, c)
               J == [jobs EXCEPT ![id].consumers = left]
    <3>1. id \in DOMAIN jobs
      BY <2>2, ConsumersPoint DEF Cancel
    <3>2. \A x \in DOMAIN jobs : jobs[x] \in JobType(next, jobs[x].consumers)
      BY <1>1 DEF NowFor, Good, GoodJobs
    <3>3. \/ DOMAIN left # {} /\ jobs' = J
          \/ jobs[id].running /\ jobs' = [J EXCEPT ![id].canceled = TRUE]
          \/ jobs' = Remove(jobs, id)
      BY <2>2 DEF Cancel
    <3>4. /\ DOMAIN J = DOMAIN jobs
          /\ \A x \in DOMAIN jobs \ {id} : J[x] = jobs[x]
          /\ J[id] = [jobs[id] EXCEPT !.consumers = left]
      BY <3>1
    <3>5. /\ J[id].key = jobs[id].key /\ J[id].lease = jobs[id].lease
          /\ J[id].running = jobs[id].running /\ J[id].canceled = jobs[id].canceled
          /\ J[id].preempted = jobs[id].preempted /\ J[id].consumers = left
          /\ J[id] \in JobType(next, left)
      BY <3>1, <3>2, <3>4 DEF JobType
    <3> HIDE DEF J, left, id
    <3>6. CASE DOMAIN left # {} /\ jobs' = J
      BY <1>6, <3>4, <3>5, <3>6 DEF Tame
    <3>7. CASE jobs[id].running /\ jobs' = [J EXCEPT ![id].canceled = TRUE]
      <4>1. /\ DOMAIN jobs' = DOMAIN J /\ \A x \in DOMAIN J \ {id} : jobs'[x] = J[x]
            /\ jobs'[id] = [J[id] EXCEPT !.canceled = TRUE]
        BY <3>1, <3>4, <3>7
      <4>2. /\ jobs'[id].key = J[id].key /\ jobs'[id].lease = J[id].lease
            /\ jobs'[id].running = J[id].running
        BY <3>5, <4>1 DEF JobType
      <4>3. \A x \in DOMAIN jobs \ {id} : jobs'[x] = jobs[x]
        BY <3>4, <4>1
      <4>4. /\ jobs'[id].key = jobs[id].key /\ jobs'[id].lease = jobs[id].lease
            /\ jobs'[id].running = jobs[id].running
        BY <3>5, <4>2
      <4>5. DOMAIN jobs' = DOMAIN jobs
        BY <3>4, <4>1
      <4>6. QED
        BY <1>6, <3>7, <4>3, <4>4, <4>5 DEF Tame
    <3>8. CASE jobs' = Remove(jobs, id)
      BY <1>6, <3>8 DEF Remove, Tame
    <3>9. QED
      BY <3>3, <3>6, <3>7, <3>8
  <2>3. QED
    BY <2>1, <2>2
<1>8. Tame(jobs')
  BY <1>6, <1>7 DEF Tame, Running
<1>9. Named(jobs', active)
  BY <1>6, <1>7 DEF Named
<1>10. Handled(jobs', consumers', handles', completed')
  <2>1. \A d \in DOMAIN consumers' : consumers'[d] \in DOMAIN jobs'
    BY <1>4 DEF Then, Good, GoodConsumers
  <2>2. QED
    BY <1>5, <1>6, <1>7, <2>1 DEF Handled, Remove
<1>11. DOMAIN active = DOMAIN workers' /\ OneWorker /\ DOMAIN external' = {}
       /\ NoLease \notin todo' /\ DOMAIN completed' \subseteq 1 .. next' - 1
  BY <1>2 DEF MemoryInv, Launching
<1>12. DescribedIn(jobs', saved')
  <2>1. CASE saved' = saved
    BY <1>7, <2>1 DEF MemoryInv, DescribedIn
  <2>2. CASE GivesUp(handles[c])
    <3>1. Good(next', jobs', keys', consumers', external', workers', joined', Past)
      BY <1>4 DEF Then
    <3>2. PICK k : k = handles[c]
      OBVIOUS
    <3>3. /\ saved' = saved \ {k}
          /\ \A d \in DOMAIN handles' : handles'[d] # k
          /\ \A l \in DOMAIN active : active[l] # k
      BY <2>2, <3>2 DEF GivesUp
    <3>4. PICK J, C, H, X, W : J = jobs' /\ C = consumers' /\ H = handles' /\ X = completed'
                               /\ W = workers'
      OBVIOUS
    <3>5. /\ Good(next', J, keys', C, external', W, joined', Past)
          /\ Tame(J) /\ Handled(J, C, H, X) /\ Named(J, active) /\ DOMAIN active = DOMAIN W
          /\ \A d \in DOMAIN H : H[d] # k
      BY <1>8, <1>9, <1>10, <1>11, <3>1, <3>3, <3>4
    <3>6. \A id \in DOMAIN J : J[id].key # k
      BY <3>3, <3>5, Unneeded
    <3>7. QED
      BY <1>7, <3>3, <3>4, <3>6 DEF MemoryInv, DescribedIn, GivesUp
  <2>3. QED
    BY <2>1, <2>2
<1>13. QED
  BY <1>3, <1>4, <1>8, <1>9, <1>10, <1>11, <1>12, NotLaunching, Assemble

(* What finished leaves of the jobs and consumers.                         *)
LEMMA FinishedFits ==
  ASSUME MemoryInv, NEW l, Finished(l), NEW id, id = LeaseJob(l)
  PROVE  /\ id \in DOMAIN jobs /\ jobs[id].lease = l /\ jobs[id].running
         /\ DOMAIN jobs' \subseteq DOMAIN jobs /\ Tame(jobs')
         /\ \A x \in DOMAIN jobs' :
              /\ jobs'[x].key = jobs[x].key
              /\ jobs'[x].lease = jobs[x].lease \/ jobs'[x].lease = NoLease
         /\ DOMAIN consumers' \subseteq DOMAIN consumers
         /\ \A c \in DOMAIN consumers' : consumers'[c] = consumers[c]
         /\ ~Requeues(id) => /\ DOMAIN jobs' = DOMAIN jobs \ {id}
                             /\ DOMAIN consumers' \cap DOMAIN jobs[id].consumers = {}
<1>1. l \in DOMAIN workers
  BY DEF Finished
<1>2. /\ LeaseOwner(l) = {id} /\ id \in DOMAIN jobs /\ jobs[id].lease = l /\ jobs[id].running
  BY <1>1, OwnerOf
<1>3. Reap(id)
  BY <1>2 DEF Finished, FinishedCall
<1>4. Tame(jobs)
  BY DEF MemoryInv
<1>5. CASE Requeues(id)
  <2>1. /\ jobs' = [jobs EXCEPT ![id].lease = NoLease, ![id].running = FALSE,
                                ![id].preempted = FALSE, ![id].canceled = FALSE]
        /\ consumers' = consumers /\ DOMAIN jobs[id].consumers # {}
    BY <1>3, <1>5 DEF Reap, Requeues
  <2>2. DOMAIN jobs' = DOMAIN jobs /\ \A x \in DOMAIN jobs : x # id => jobs'[x] = jobs[x]
    BY <2>1
  <2> DEFINE old == jobs[id]
             new == [old EXCEPT !.lease = NoLease, !.running = FALSE,
                                !.preempted = FALSE, !.canceled = FALSE]
  <2>3. jobs'[id] = new
    BY <1>2, <2>1, Zenon
  <2>4. old \in JobType(next, old.consumers)
    BY <1>2 DEF MemoryInv, NowFor, Good, GoodJobs
  <2> HIDE DEF old
  <2>5. /\ new.key = old.key /\ new.consumers = old.consumers /\ new.lease = NoLease
        /\ new.running = FALSE /\ new.preempted = FALSE /\ new.canceled = FALSE
    BY <2>4 DEF JobType
  <2> HIDE DEF new
  <2>6. /\ jobs'[id].key = jobs[id].key /\ jobs'[id].consumers = jobs[id].consumers
        /\ jobs'[id].lease = NoLease
        /\ ~jobs'[id].running /\ ~jobs'[id].preempted /\ ~jobs'[id].canceled
    BY <2>3, <2>5 DEF old
  <2>7. Tame(jobs')
    <3>1. DOMAIN jobs'[id].consumers # {}
      BY <2>1, <2>6
    <3>2. QED
      BY <1>4, <2>2, <2>6, <3>1 DEF Tame, Running
  <2>8. QED
    BY <1>2, <1>5, <2>1, <2>2, <2>6, <2>7
<1>6. CASE ~Requeues(id)
  <2>1. /\ jobs' = Remove(jobs, id)
        /\ consumers' = [c \in DOMAIN consumers \ DOMAIN jobs[id].consumers |-> consumers[c]]
    BY <1>3, <1>6 DEF Reap
  <2>2. DOMAIN jobs' = DOMAIN jobs \ {id} /\ \A x \in DOMAIN jobs' : jobs'[x] = jobs[x]
    BY <2>1 DEF Remove
  <2>3. Tame(jobs')
    BY <1>4, <2>2 DEF Tame, Running
  <2>4. QED
    BY <1>2, <2>1, <2>2, <2>3
<1>7. QED
  BY <1>5, <1>6

(* A lease ends: its descriptor is given up when the job leaves and no     *)
(* other job has its key.                                                  *)
LEMMA EndMemory ==
  ASSUME MemoryInv, NEW l, Finished(l), NEW id, id = LeaseJob(l), NEW v,
         DOMAIN active' = DOMAIN workers \ {l}, DOMAIN active' \subseteq DOMAIN active,
         \A x \in DOMAIN active' : active'[x] = active[x],
         \/ UNCHANGED <<saved, completed>>
         \/ /\ ~Requeues(id) /\ ~Superseded(id)
            /\ saved' = saved \ {jobs[id].key} /\ Answer(id, v),
         UNCHANGED <<handles, ready, stopping, todo>>, at' # "launch"
  PROVE  MemoryInv'
<1>1. /\ workers' = Remove(workers, l) /\ UNCHANGED <<next, external, stale>>
  BY DEF Finished
<1>2. NowFor(Past) /\ Then(Past) /\ Past' = Past
  BY <1>1, FinishedGood DEF MemoryInv, Past, Current
<1>3. /\ id \in DOMAIN jobs /\ jobs[id].lease = l /\ jobs[id].running
      /\ DOMAIN jobs' \subseteq DOMAIN jobs /\ Tame(jobs')
      /\ \A x \in DOMAIN jobs' :
           /\ jobs'[x].key = jobs[x].key
           /\ jobs'[x].lease = jobs[x].lease \/ jobs'[x].lease = NoLease
      /\ DOMAIN consumers' \subseteq DOMAIN consumers
      /\ \A c \in DOMAIN consumers' : consumers'[c] = consumers[c]
      /\ ~Requeues(id) => /\ DOMAIN jobs' = DOMAIN jobs \ {id}
                          /\ DOMAIN consumers' \cap DOMAIN jobs[id].consumers = {}
  BY FinishedFits
<1>4. /\ OneWorker /\ Tame(jobs) /\ Handled(jobs, consumers, handles, completed)
      /\ Named(jobs, active) /\ DescribedIn(jobs, saved)
      /\ DOMAIN completed \subseteq 1 .. next - 1 /\ NoLease \notin todo
      /\ DOMAIN external = {}
  BY DEF MemoryInv
<1>5. DOMAIN active' = DOMAIN workers' \ Launching' /\ LaunchFits'
  BY <1>1 DEF Remove, Launching, LaunchFits
<1>6. Named(jobs', active')
  <2>1. NoLease \notin DOMAIN active'
    BY <1>2 DEF NowFor, Good, GoodRest, NoLease
  <2>2. QED
    BY <1>3, <1>4, <2>1 DEF Named
<1>7. \A c \in DOMAIN consumers' : consumers'[c] \in DOMAIN jobs'
  BY <1>2 DEF Then, Good, GoodConsumers
<1>8. CASE UNCHANGED <<saved, completed>>
  <2>1. Handled(jobs', consumers', handles', completed') /\ DescribedIn(jobs', saved')
    BY <1>3, <1>4, <1>7, <1>8 DEF Handled, DescribedIn
  <2>2. DOMAIN external' = {} /\ DOMAIN completed' \subseteq 1 .. next' - 1 /\ NoLease \notin todo'
    BY <1>1, <1>4, <1>8
  <2>3. QED
    BY <1>2, <1>3, <1>4, <1>5, <1>6, <2>1, <2>2, Assemble
<1>9. CASE /\ ~Requeues(id) /\ ~Superseded(id)
           /\ saved' = saved \ {jobs[id].key} /\ Answer(id, v)
  <2>1. DOMAIN completed' = DOMAIN completed \cup DOMAIN jobs[id].consumers
    BY <1>9 DEF Answer
  <2>2. DOMAIN jobs[id].consumers \subseteq 1 .. next - 1
    BY <1>2, <1>3 DEF NowFor, Good, GoodJobs
  <2>3. Handled(jobs', consumers', handles', completed')
    BY <1>3, <1>4, <1>7, <1>9, <2>1 DEF Handled
  <2>4. ASSUME NEW x \in DOMAIN jobs, x # id PROVE jobs[x].key # jobs[id].key
    <3> SUFFICES ASSUME jobs[x].key = jobs[id].key PROVE FALSE
      OBVIOUS
    <3>1. ~jobs[x].running
      BY <1>3, <1>4, <2>4 DEF Tame, Running
    <3>2. PICK c : c \in DOMAIN jobs[x].consumers
      BY <1>4, <3>1 DEF Tame
    <3>3. jobs[x].key \in DOMAIN keys /\ keys[jobs[x].key] = x
      BY <1>2, <3>2 DEF NowFor, Good, GoodConsumers
    <3>4. QED
      BY <1>9, <2>4, <3>3 DEF Superseded
  <2>5. DescribedIn(jobs', saved')
    BY <1>3, <1>4, <1>9, <2>4 DEF DescribedIn
  <2>6. DOMAIN external' = {} /\ DOMAIN completed' \subseteq 1 .. next' - 1 /\ NoLease \notin todo'
    BY <1>1, <1>4, <2>1, <2>2
  <2>7. QED
    BY <1>2, <1>3, <1>4, <1>5, <1>6, <2>3, <2>5, <2>6, Assemble
<1>10. QED
  BY <1>8, <1>9

(* The three places that report a lease.                                   *)
LEMMA ReportMemory ==
  ASSUME MemoryInv, ShutdownReap \/ Complete \/ LaunchRefused
  PROVE  MemoryInv'
<1>1. CASE ShutdownReap
  <2>1. /\ at = "shutdown" /\ at' # "launch"
        /\ UNCHANGED <<saved, completed, handles, ready, stopping, todo, cur>>
    BY <1>1 DEF ShutdownReap, callVars, diskVars
  <2>2. CASE UNCHANGED <<vars, active, child>>
    <3>1. /\ UNCHANGED <<next, jobs, keys, consumers, external, workers, joined, saved, active>>
          /\ Past' = Past
      BY <2>1, <2>2 DEF vars, Past, Current
    <3>2. /\ Launching' = Launching /\ NoLease \notin todo'
          /\ \A c \in DOMAIN consumers : c \in DOMAIN handles' /\ handles'[c] = handles[c]
          /\ DOMAIN completed' \subseteq DOMAIN completed
      BY <2>1 DEF Launching, MemoryInv, Handled
    <3>3. QED
      BY <2>1, <3>1, <3>2, StillKeeps
  <2>3. ASSUME NEW l \in DOMAIN active, Finished(l), active' = Remove(active, l)
        PROVE  MemoryInv'
    <3>1. DOMAIN active = DOMAIN workers
      BY <2>1 DEF MemoryInv, Launching
    <3>2. /\ DOMAIN active' = DOMAIN workers \ {l} /\ DOMAIN active' \subseteq DOMAIN active
          /\ \A x \in DOMAIN active' : active'[x] = active[x]
      BY <2>3, <3>1 DEF Remove
    <3>3. PICK id : id = LeaseJob(l)
      OBVIOUS
    <3>4. QED
      BY <2>1, <2>3, <3>2, <3>3, EndMemory
  <2>4. QED
    BY <1>1, <2>2, <2>3 DEF ShutdownReap
<1>2. CASE Complete
  <2>1. /\ at = "complete" /\ at' # "launch" /\ Finished(cur) /\ active' = Remove(active, cur)
        /\ UNCHANGED <<handles, ready, stopping, todo>>
    BY <1>2 DEF Complete, callVars
  <2>2. DOMAIN active = DOMAIN workers /\ cur \in DOMAIN workers
    BY <2>1 DEF MemoryInv, Launching, Finished
  <2>3. /\ DOMAIN active' = DOMAIN workers \ {cur} /\ DOMAIN active' \subseteq DOMAIN active
        /\ \A x \in DOMAIN active' : active'[x] = active[x]
    BY <2>1, <2>2 DEF Remove
  <2>4. PICK id, l, v : id = LeaseJob(cur) /\ l = cur /\ v = verdict
    OBVIOUS
  <2>5. id \in DOMAIN jobs /\ jobs[id].lease = cur
    BY <2>2, <2>4, OwnerOf
  <2>6. active[cur] = jobs[id].key
    BY <2>2, <2>5 DEF MemoryInv, Named
  <2>7. \/ UNCHANGED <<saved, completed>>
        \/ /\ ~Requeues(id) /\ ~Superseded(id)
           /\ saved' = saved \ {jobs[id].key} /\ Answer(id, v)
    BY <1>2, <2>4, <2>6 DEF Complete
  <2>8. /\ Finished(l) /\ id = LeaseJob(l) /\ DOMAIN active' = DOMAIN workers \ {l}
    BY <2>1, <2>3, <2>4
  <2>9. QED
    BY <2>1, <2>3, <2>7, <2>8, EndMemory
<1>3. CASE LaunchRefused
  <2>1. /\ at = "launch" /\ at' # "launch" /\ Finished(cur) /\ active' = active
        /\ UNCHANGED <<handles, ready, stopping, todo>>
        /\ saved' = saved \ {LaunchedKey}
    BY <1>3 DEF LaunchRefused, callVars
  <2>2. DOMAIN active = DOMAIN workers \ {cur} /\ cur \in DOMAIN workers
    BY <2>1 DEF MemoryInv, Launching, Finished
  <2>3. PICK id, l, v : /\ id = LeaseJob(cur) /\ l = cur
                        /\ v = IF Current(LaunchedKey) THEN "failed" ELSE "stale"
    OBVIOUS
  <2>4. id \in DOMAIN jobs /\ jobs[id].lease = cur
    BY <2>2, <2>3, OwnerOf
  <2>5. DOMAIN jobs[id].consumers # {} /\ ~jobs[id].preempted
    BY <2>1, <2>4 DEF MemoryInv, LaunchFits
  <2>6. ~Requeues(id)
    BY <2>5 DEF Requeues
  <2>7. ~Superseded(id)
    <3>1. PICK c : c \in DOMAIN jobs[id].consumers
      BY <2>5
    <3>2. keys[jobs[id].key] = id
      BY <2>4, <3>1 DEF MemoryInv, NowFor, Good, GoodConsumers
    <3>3. QED
      BY <3>2 DEF Superseded
  <2>8. saved' = saved \ {jobs[id].key} /\ Answer(id, v)
    BY <1>3, <2>1, <2>3 DEF LaunchRefused, LaunchedKey
  <2>9. /\ Finished(l) /\ id = LeaseJob(l) /\ DOMAIN active' = DOMAIN workers \ {l}
        /\ DOMAIN active' \subseteq DOMAIN active /\ \A x \in DOMAIN active' : active'[x] = active[x]
    BY <2>1, <2>2, <2>3
  <2>10. QED
    BY <2>1, <2>6, <2>7, <2>8, <2>9, EndMemory
<1>4. QED
  BY <1>1, <1>2, <1>3

(* With one worker a job is started only when none runs.                   *)
LEMMA NoneRuns ==
  ASSUME NEW n \in Nat, NEW J, NEW E, GoodJobs(n, J), DOMAIN E = {}, Active(J, E) < 1
  PROVE  Running(J) = {}
<1>1. IsFiniteSet(Running(J))
  <2>1. IsFiniteSet(1 .. n - 1) /\ Running(J) \subseteq 1 .. n - 1
    BY FS_Interval DEF GoodJobs, Running
  <2>2. QED
    BY <2>1, FS_Subset
<1>2. Leased(E) = {}
  BY DEF Leased
<1>3. Cardinality(Running(J)) \in Nat /\ Cardinality(Leased(E)) = 0
  BY <1>1, <1>2, FS_CardinalityType, FS_EmptySet
<1>4. Cardinality(Running(J)) = 0
  BY <1>3 DEF Active
<1>5. QED
  BY <1>1, <1>4, FS_EmptySet

(* dispatch_ready draws the next lease.                                    *)
LEMMA DispatchMemory == ASSUME MemoryInv, Dispatch PROVE MemoryInv'
<1> DEFINE J == PreemptedJobs(jobs, Victims(jobs, external, reserved))
           E == PreemptedReads(external, Victims(jobs, external, reserved))
<1>1. /\ at = "dispatch" /\ NextReady
      /\ UNCHANGED <<todo, active, saved, handles, completed, ready, stopping>>
      /\ IF next' = next THEN at' = "idle" /\ UNCHANGED cur ELSE at' = "launch" /\ cur' = next
  BY DEF Dispatch, callVars, memoryVars, diskVars
<1>2. /\ NowFor(Past) /\ next \in Nat /\ GoodJobs(next, jobs) /\ DOMAIN external = {}
      /\ \A c \in DOMAIN consumers : consumers[c] \in DOMAIN jobs
  BY ConsumersPoint DEF MemoryInv
<1>3. Then(Past)
  BY <1>1, <1>2, NextReadyGood
<1>4. Past' = Past
  BY <1>1 DEF NextReady, Past, Current
<1>5. Alike(jobs, J) /\ DOMAIN E = {}
  BY <1>2, PreemptAlike
<1>6. GoodJobs(next, J)
  <2>1. GoodReads(next, jobs, external)
    BY <1>2 DEF GoodReads
  <2>2. SameUpToFlags(next, jobs, external, J, E)
    BY <1>2, <2>1, PreemptFacts
  <2> HIDE DEF J, E
  <2>3. QED
    BY <1>2, <2>2 DEF SameUpToFlags, GoodJobs
<1>7. /\ UNCHANGED consumers /\ external' = E
      /\ \/ jobs' = J /\ UNCHANGED <<next, workers>>
         \/ /\ next' = next + 1
            /\ \E id \in Startable(J, E) :
                 /\ jobs' = [J EXCEPT ![id].running = TRUE, ![id].lease = next]
                 /\ workers' = Insert(workers, next, J[id].cost)
  BY <1>1 DEF NextReady
<1> HIDE DEF J, E
<1>8. /\ OneWorker /\ Tame(jobs) /\ Handled(jobs, consumers, handles, completed)
      /\ Named(jobs, active) /\ DescribedIn(jobs, saved)
      /\ DOMAIN completed \subseteq 1 .. next - 1 /\ NoLease \notin todo
      /\ DOMAIN active = DOMAIN workers
  BY <1>1 DEF MemoryInv, Launching
<1>9. /\ Tame(J) /\ Handled(J, consumers, handles, completed) /\ Named(J, active)
      /\ DescribedIn(J, saved)
  BY <1>2, <1>5, <1>8, AlikeFits
<1>10. CASE jobs' = J /\ UNCHANGED <<next, workers>>
  <2>1. at' # "launch" /\ at # "launch" /\ DOMAIN active' = DOMAIN workers'
    BY <1>1, <1>8, <1>10
  <2>2. /\ Tame(jobs') /\ Handled(jobs', consumers', handles', completed')
        /\ Named(jobs', active') /\ DescribedIn(jobs', saved') /\ DOMAIN external' = {}
        /\ DOMAIN completed' \subseteq 1 .. next' - 1 /\ NoLease \notin todo'
    BY <1>1, <1>5, <1>7, <1>8, <1>9, <1>10
  <2>3. QED
    BY <1>3, <1>4, <1>8, <2>1, <2>2, NotLaunching, Assemble
<1>11. ASSUME next' = next + 1, NEW id \in Startable(J, E),
              jobs' = [J EXCEPT ![id].running = TRUE, ![id].lease = next],
              workers' = Insert(workers, next, J[id].cost)
       PROVE  MemoryInv'
  <2>1. id \in DOMAIN J /\ id \in Queued(J, E) /\ Active(J, E) < 1
    BY <1>8, <1>11 DEF Startable, Front, Oldest, OneWorker
  <2>2. Running(J) = {} /\ ~J[id].running
    BY <1>2, <1>5, <1>6, <2>1, NoneRuns DEF Running
  <2>3. DOMAIN J[id].consumers # {} /\ ~J[id].canceled /\ ~J[id].preempted
    BY <1>9, <2>1, <2>2 DEF Tame
  <2>4. DOMAIN jobs' = DOMAIN J /\ \A x \in DOMAIN J : x # id => jobs'[x] = J[x]
    BY <1>11
  <2>5. /\ jobs'[id].key = J[id].key /\ jobs'[id].consumers = J[id].consumers
        /\ jobs'[id].preempted = J[id].preempted
        /\ jobs'[id].running = TRUE /\ jobs'[id].lease = next
    <3> DEFINE old == J[id]
               new == [old EXCEPT !.running = TRUE, !.lease = next]
    <3>1. jobs'[id] = new
      BY <1>11, <2>1, Zenon
    <3>2. old \in JobType(next, old.consumers)
      BY <1>6, <2>1 DEF GoodJobs
    <3> HIDE DEF old
    <3>3. /\ new.key = old.key /\ new.consumers = old.consumers
          /\ new.preempted = old.preempted /\ new.running = TRUE /\ new.lease = next
      BY <3>2 DEF JobType
    <3> HIDE DEF new
    <3>4. QED
      BY <3>1, <3>3 DEF old
  <2>6. /\ DOMAIN workers' = DOMAIN workers \cup {next} /\ next \notin DOMAIN workers
        /\ \A x \in DOMAIN J : J[x].lease # next
    <3>1. DOMAIN workers' = DOMAIN workers \cup {next}
      BY <1>11 DEF Insert
    <3>2. next \notin DOMAIN workers
      BY <1>2 DEF NowFor, Good, GoodRest
    <3>3. \A x \in DOMAIN J : J[x].lease # next
      BY <1>2, <1>6 DEF GoodJobs, JobType
    <3>4. QED
      BY <3>1, <3>2, <3>3
  <2>7. at' = "launch" /\ cur' = next
    BY <1>1, <1>2, <1>11
  <2>8. Tame(jobs')
    BY <1>9, <2>2, <2>4, <2>5 DEF Tame, Running
  <2>9. Handled(jobs', consumers', handles', completed')
    <3>1. UNCHANGED <<consumers, handles, completed>>
      BY <1>1, <1>7
    <3>2. \A c \in DOMAIN consumers : consumers[c] \in DOMAIN J
      BY <1>2, <1>5 DEF Alike
    <3>3. \A x \in DOMAIN J : jobs'[x].key = J[x].key
      BY <2>4, <2>5
    <3>4. QED
      BY <1>9, <3>1, <3>2, <3>3 DEF Handled
  <2>10. Named(jobs', active') /\ DescribedIn(jobs', saved')
    BY <1>1, <1>8, <1>9, <2>4, <2>5, <2>6 DEF Named, DescribedIn
  <2>11. DOMAIN active' = DOMAIN workers' \ Launching'
    BY <1>1, <1>8, <2>6, <2>7 DEF Launching
  <2>12. LaunchFits'
    BY <2>3, <2>4, <2>5, <2>6, <2>7 DEF LaunchFits
  <2>13. /\ DOMAIN external' = {} /\ NoLease \notin todo'
         /\ DOMAIN completed' \subseteq 1 .. next' - 1
    BY <1>1, <1>2, <1>5, <1>7, <1>8, <1>11
  <2>14. QED
    BY <1>3, <1>4, <1>8, <2>8, <2>9, <2>10, <2>11, <2>12, <2>13, Assemble
<1>12. QED
  BY <1>7, <1>10, <1>11

(* The launched lease becomes active; without a descriptor it never fails. *)
LEMMA LaunchMemory ==
  ASSUME MemoryInv, Launch \/ LaunchFails \/ CompleteFails \/ LaunchRefusedFails
  PROVE  MemoryInv'
<1>1. ~CompleteFails /\ ~LaunchRefusedFails
  BY DEF MemoryInv, OneWorker, CompleteFails, LaunchRefusedFails
<1>2. at = "launch" /\ cur \in DOMAIN workers
  BY <1>1 DEF Launch, LaunchFails, MemoryInv, LaunchFits
<1>3. LeaseOwner(cur) = {LeaseJob(cur)} /\ LeaseJob(cur) \in DOMAIN jobs
  BY <1>2, OwnerOf
<1>4. ~LaunchFails
  BY <1>3 DEF LaunchFails, LaunchedKey, MemoryInv, OneWorker, DescribedIn
<1>5. /\ at' = "dispatch" /\ active' = Insert(active, cur, LaunchedKey)
      /\ UNCHANGED <<next, jobs, keys, consumers, external, workers, joined, stale, ready,
                     stopping, saved, handles, completed, todo>>
  BY <1>1, <1>4 DEF Launch, vars, callVars, diskVars
<1>6. /\ OneWorker /\ Tame(jobs) /\ Handled(jobs, consumers, handles, completed)
      /\ Named(jobs, active) /\ DescribedIn(jobs, saved) /\ NowFor(Past)
      /\ DOMAIN completed \subseteq 1 .. next - 1 /\ NoLease \notin todo
      /\ DOMAIN active = DOMAIN workers \ {cur} /\ DOMAIN external = {}
  BY <1>2 DEF MemoryInv, Launching
<1>7. Then(Past) /\ Past' = Past
  BY <1>5, <1>6 DEF NowFor, Then, Past, Current
<1>8. DOMAIN active' = DOMAIN workers' \ Launching' /\ LaunchFits'
  BY <1>2, <1>5, <1>6 DEF Insert, Launching, LaunchFits
<1>9. Named(jobs', active')
  <2> SUFFICES ASSUME NEW id \in DOMAIN jobs, jobs[id].lease \in DOMAIN active'
               PROVE  active'[jobs[id].lease] = jobs[id].key
    BY <1>5 DEF Named
  <2>1. CASE jobs[id].lease = cur
    <3>1. id = LeaseJob(cur)
      BY <1>3, <2>1 DEF LeaseOwner
    <3>2. QED
      BY <1>5, <2>1, <3>1 DEF Insert, LaunchedKey
  <2>2. CASE jobs[id].lease # cur
    BY <1>5, <1>6, <2>2 DEF Insert, Named
  <2>3. QED
    BY <2>1, <2>2
<1>10. QED
  BY <1>5, <1>6, <1>7, <1>8, <1>9, Assemble

(* Nothing is scheduled when the process starts.                           *)
LEMMA FreshMemory ==
  ASSUME OneWorker, next' = 1, jobs' = Empty, keys' = Empty, consumers' = Empty,
         external' = Empty, workers' = Empty, joined' = {}, at' = "idle", todo' = {},
         active' = Empty, completed' = Empty
  PROVE  MemoryInv'
<1>1. DOMAIN Empty = {}
  BY DEF Empty
<1>2. Then({})
  BY <1>1, SerialAssumption DEF Then, Good, GoodJobs, GoodReads, GoodConsumers, GoodLeases,
     GoodFlags, GoodRest
<1>3. /\ Tame(jobs') /\ Handled(jobs', consumers', handles', completed')
      /\ Named(jobs', active') /\ DescribedIn(jobs', saved') /\ LaunchFits'
      /\ DOMAIN active' = DOMAIN workers' \ Launching'
  BY <1>1 DEF Tame, Running, Handled, Named, DescribedIn, LaunchFits, Launching
<1>4. QED
  BY <1>1, <1>2, <1>3, Assemble

(* The invariant at the start.                                             *)
LEMMA MemoryInitially == ASSUME OneWorker, ServiceInit PROVE MemoryInv
<1>1. DOMAIN Empty = {}
  BY DEF Empty
<1>2. NowFor(Past)
  <2>1. Past \subseteq Keys
    BY DEF Past
  <2>2. QED
    BY <1>1, <2>1, SerialAssumption DEF ServiceInit, Init, NowFor, Good, GoodJobs, GoodReads,
       GoodConsumers, GoodLeases, GoodFlags, GoodRest
<1>3. QED
  BY <1>1, <1>2 DEF MemoryInv, ServiceInit, Init, Tame, Running, Handled, Named, DescribedIn,
     LaunchFits, Launching

(* One case for every action.                                              *)
LEMMA MemoryStep == ASSUME MemoryInv, [ServiceNext]_serviceVars PROVE MemoryInv'
<1>1. ASSUME NEW k \in Keys, (\E p \in Priorities : Submit(k, p)) \/ (\E r \in BOOLEAN : Resume(k, r))
      PROVE  MemoryInv'
  <2>1. PICK p \in Priorities : Accept(k, p)
    BY <1>1 DEF Submit, Resume, Priorities
  <2>2. at # "launch" /\ at' # "launch"
    BY <1>1 DEF Submit, Resume
  <2>3. QED
    BY <2>1, <2>2, AcceptMemory
<1>2. ASSUME NEW c, CancelConsumer(c) PROVE MemoryInv'
  <2>1. /\ at # "launch" /\ at' # "launch" /\ handles' = Remove(handles, c)
        /\ Cancel(c) \/ (c \notin DOMAIN consumers /\ UNCHANGED vars)
        /\ UNCHANGED <<active, ready, stopping, todo>>
        /\ DOMAIN completed' \subseteq DOMAIN completed
    BY <1>2 DEF CancelConsumer, actorVars, callVars, Remove
  <2>2. saved' = saved \/ GivesUp(handles[c])
    BY <1>2 DEF CancelConsumer, GivesUp, Remove
  <2>3. QED
    BY <2>1, <2>2, CancelMemory
<1>3. ASSUME NEW c, RollBack(c) PROVE MemoryInv'
  <2>1. /\ at # "launch" /\ at' # "launch" /\ handles' = Remove(handles, c) /\ Cancel(c)
        /\ UNCHANGED <<active, ready, stopping, todo>>
        /\ DOMAIN completed' \subseteq DOMAIN completed
    BY <1>3 DEF RollBack, diskVars
  <2>2. saved' = saved \/ GivesUp(handles[c])
    BY <1>3 DEF RollBack, Described, GivesUp, Remove
  <2>3. QED
    BY <2>1, <2>2, CancelMemory
<1>4. ASSUME Crash PROVE MemoryInv'
  BY <1>4, FreshMemory DEF Crash, MemoryInv
<1>5. \/ \E k \in Keys : (\E p \in Priorities : Submit(k, p)) \/ (\E r \in BOOLEAN : Resume(k, r))
      \/ \E c \in DOMAIN handles : CancelConsumer(c)
      \/ \E c \in resumed : RollBack(c)
      \/ TryShutdown \/ ShutdownReap \/ Complete \/ LaunchRefused
      \/ \E l \in todo : PollPending(l) \/ PollEnded(l)
      \/ Dispatch \/ Launch \/ LaunchFails \/ CompleteFails \/ LaunchRefusedFails \/ Crash
      \/ \E c \in DOMAIN handles : TakeCompletion(c)
      \/ \E k \in Keys : ResumeDone(k) \/ CatalogMoves(k)
      \/ ResumeReturns \/ ResumeFails
      \/ TickBegin \/ TickChoose \/ TickYield
      \/ \E l \in todo : TickFails(l)
      \/ Attach \/ CommitImport \/ ReapDone \/ DispatchHeld
      \/ \E l \in DOMAIN child : ChildMoves(l)
      \/ UNCHANGED serviceVars
  BY Zenon DEF ServiceNext
<1>6. QED
  BY <1>1, <1>2, <1>3, <1>4, <1>5, QuietMemory, ShutdownMemory, ReportMemory, PollMemory,
     DispatchMemory, LaunchMemory

(* MemoryInv holds after every step of a service with one worker.          *)
LEMMA MemoryInductive == OneWorker /\ ServiceSpec => []MemoryInv
<1>1. OneWorker /\ ServiceInit => MemoryInv
  BY MemoryInitially
<1>2. MemoryInv /\ [ServiceNext]_serviceVars => MemoryInv'
  BY MemoryStep
<1>3. QED
  BY <1>1, <1>2, PTL DEF ServiceSpec

(***************************************************************************)
(* With one worker and no failing reads and writes, tick and               *)
(* dispatch_ready always find the descriptor of the lease they look at:    *)
(* over joins, replacements, cancellation, rollback, preemption, shutdown  *)
(* and crashes, "active job missing" and "queued preview job missing" are  *)
(* unreachable.                                                            *)
(***************************************************************************)
THEOREM OneWorkerDescribed == OneWorker /\ ServiceSpec => []JobsDescribed
<1>1. MemoryInv => JobsDescribed
  BY MemoryMeans
<1>2. QED
  BY <1>1, MemoryInductive, PTL

(***************************************************************************)
(* With one worker and no failing reads and writes, the leases the         *)
(* scheduler holds bytes for are, between two ticks, exactly the workers   *)
(* of PreviewService.active.                                               *)
(***************************************************************************)
THEOREM OneWorkerRegistered == OneWorker /\ ServiceSpec => []LeasesRegistered
<1>1. MemoryInv => LeasesRegistered
  BY MemoryMeans
<1>2. QED
  BY <1>1, MemoryInductive, PTL
=============================================================================
