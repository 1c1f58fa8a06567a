-------------------------- MODULE PreviewScheduler --------------------------
(***************************************************************************)
(* The bounded scheduler of preview work (src/preview/scheduler.rs).       *)
(*                                                                         *)
(* Consumers of one durable key share a job.  A job or a native cache read *)
(* that is started gets a fresh lease and reserves its working bytes until *)
(* the owner reports that the process exited; canceling never releases a   *)
(* reservation.  Foreground work goes first, then the older identity, and  *)
(* blocked foreground work flags the oldest running background work.       *)
(*                                                                         *)
(* The owner, one service actor, makes the calls: every action is one call *)
(* of a method.  `workers', `joined' and `stale' are the owner's side: the *)
(* leases whose processes run, with the bytes each may use, those whose    *)
(* processes were waited for, and the keys it will not ask for again.      *)
(***************************************************************************)
EXTENDS Integers, FiniteSets, Functions

CONSTANTS
  Keys,           \* durable render keys
  Costs,          \* working-byte costs callers ask for
  Requests,       \* SchedulerLimits.requests
  Workers,        \* SchedulerLimits.workers
  WorkingBytes,   \* SchedulerLimits.working_bytes
  MaxSerial,      \* u64::MAX: the identity that is never handed out
  MaxArrivals     \* bound of the model: identities after which callers
                  \* neither ask for more work nor requeue a read

ASSUME CostsAssumption == Costs \subseteq Nat
ASSUME LimitsAssumption ==
  /\ Requests \in Nat \ {0}
  /\ Workers \in Nat \ {0}
  /\ WorkingBytes \in Nat \ {0}
ASSUME SerialAssumption == MaxSerial \in Nat \ {0} /\ MaxArrivals \in 0 .. MaxSerial

VARIABLES
  next,        \* the next identity of serial()
  jobs,        \* job identity -> Job
  keys,        \* key -> identity of the job that owns it
  consumers,   \* consumer -> job identity
  reserved,    \* reserved working bytes
  external,    \* request identity -> NativeRead
  workers,     \* lease -> bytes of a process that was not joined yet
  joined,      \* leases whose process was joined
  stale        \* keys whose pixels the catalog has moved past, for good

vars == <<next, jobs, keys, consumers, reserved, external, workers, joined, stale>>

Background == 0
Foreground == 1
Priorities == {Background, Foreground}

NoLease == 0            \* lease: None; identities start at 1
Ids == 1 .. MaxSerial - 1

\* HashMap::insert and HashMap::remove.
Insert(f, x, v) == [y \in DOMAIN f \cup {x} |-> IF y = x THEN v ELSE f[y]]
Remove(f, x) == [y \in DOMAIN f \ {x} |-> f[y]]
Empty == [x \in {} |-> 0]

Oldest(S) == {x \in S : \A y \in S : x <= y}

Init ==
  /\ next = 1
  /\ jobs = Empty
  /\ keys = Empty
  /\ consumers = Empty
  /\ reserved = 0
  /\ external = Empty
  /\ workers = Empty
  /\ joined = {}
  /\ stale = {}

-----------------------------------------------------------------------------
(* Decisions, on the jobs J and the native reads E of a state.             *)

JobPriority(job) ==
  IF \E c \in DOMAIN job.consumers : job.consumers[c] = Foreground
    THEN Foreground ELSE Background

PriorityOf(J, E, id) == IF id \in DOMAIN E THEN E[id].priority ELSE JobPriority(J[id])
CostOf(J, E, id) == IF id \in DOMAIN E THEN E[id].cost ELSE J[id].cost

Running(J) == {id \in DOMAIN J : J[id].running}
Leased(E) == {id \in DOMAIN E : E[id].lease # NoLease}
Active(J, E) == Cardinality(Running(J)) + Cardinality(Leased(E))

Queued(J, E) ==
  {id \in DOMAIN J : ~J[id].running /\ ~J[id].canceled} \cup (DOMAIN E \ Leased(E))

\* Mutant: background work that is older goes first.
FrontByAge(J, E) == Oldest(Queued(J, E))

\* front(): the oldest of the queued work of highest priority, as a set.
Front(J, E) ==
  LET urgent == {id \in Queued(J, E) : PriorityOf(J, E, id) = Foreground}
  IN  Oldest(IF urgent = {} THEN Queued(J, E) ELSE urgent)

BackgroundReads(E) == {id \in Leased(E) : E[id].priority = Background}
BackgroundWork(J, E) ==
  {id \in Running(J) : JobPriority(J[id]) = Background} \cup BackgroundReads(E)

\* Mutant: blocked foreground work waits for background work to end by itself.
NoVictims(J, E, bytes) == {}

\* What preempt_background flags: at most one piece of background work.
Victims(J, E, bytes) ==
  LET front == {id \in Front(J, E) : PriorityOf(J, E, id) = Foreground}
      blocked == {id \in front : \/ Active(J, E) >= Workers
                                 \/ CostOf(J, E, id) > WorkingBytes - bytes}
  IN  IF front \cap DOMAIN E # {} /\ BackgroundReads(E) # {}
        THEN Oldest(BackgroundReads(E))
      ELSE IF blocked # {} THEN Oldest(BackgroundWork(J, E))
      ELSE {}

\* preempt_background: the jobs and the reads it leaves behind.
PreemptedJobs(J, victims) ==
  [id \in DOMAIN J |-> IF id \in victims
                         THEN [J[id] EXCEPT !.preempted = TRUE, !.canceled = TRUE]
                         ELSE J[id]]
PreemptedReads(E, victims) ==
  [id \in DOMAIN E |-> IF id \in victims THEN [E[id] EXCEPT !.preempted = TRUE] ELSE E[id]]

\* Jobs and reads become J and E and preempt_background runs on the result.
Preempt(J, E, bytes) ==
  /\ jobs' = PreemptedJobs(J, Victims(J, E, bytes))
  /\ external' = PreemptedReads(E, Victims(J, E, bytes))

RequestCount == Cardinality(DOMAIN consumers) + Cardinality(DOMAIN external)

-----------------------------------------------------------------------------
(* Render jobs.                                                            *)

NewJob(k, cost, c, p) ==
  [key |-> k, cost |-> cost, consumers |-> [x \in {c} |-> p], running |-> FALSE,
   canceled |-> FALSE, preempted |-> FALSE, lease |-> NoLease]

\* The job a request for k joins: the owner of the key, unless every consumer
\* gave it up or its owner stopped it.
Joinable(k) ==
  {id \in DOMAIN jobs : /\ k \in DOMAIN keys /\ keys[k] = id
                        /\ ~jobs[id].canceled \/ jobs[id].preempted}

\* request() once its consumer has an identity: join, conflict or a new job.
Join(k, cost, p, id) ==
  /\ jobs[id].cost = cost
  /\ next' = next + 1
  /\ consumers' = Insert(consumers, next, id)
  /\ LET J == [jobs EXCEPT ![id].consumers = Insert(jobs[id].consumers, next, p)]
     IN  IF p = Foreground THEN Preempt(J, external, reserved)
         ELSE jobs' = J /\ UNCHANGED external
  /\ UNCHANGED keys

Conflict(cost, id) ==
  /\ jobs[id].cost # cost
  /\ next' = next + 1
  /\ UNCHANGED <<jobs, keys, consumers, external>>

\* Mutant: the identity of the job is drawn without a check.
StartUnchecked(k, cost, p) ==
  /\ next' = next + 2
  /\ keys' = Insert(keys, k, next + 1)
  /\ consumers' = Insert(consumers, next, next + 1)
  /\ jobs' = Insert(jobs, next + 1, NewJob(k, cost, next, p))
  /\ UNCHANGED external

Start(k, cost, p) ==
  /\ next + 1 < MaxSerial
  /\ next' = next + 2
  /\ keys' = Insert(keys, k, next + 1)
  /\ consumers' = Insert(consumers, next, next + 1)
  /\ LET J == Insert(jobs, next + 1, NewJob(k, cost, next, p))
     IN  IF p = Foreground THEN Preempt(J, external, reserved)
         ELSE jobs' = J /\ UNCHANGED external

\* The consumer took the last identity: nothing is left for its job.
StartRefused ==
  /\ next + 1 = MaxSerial
  /\ next' = next + 1
  /\ UNCHANGED <<jobs, keys, consumers, external>>

Request(k, cost, p) ==
  /\ k \notin stale
  /\ next < MaxSerial /\ next < MaxArrivals
  /\ cost > 0 /\ cost <= WorkingBytes
  /\ RequestCount < Requests
  /\ \/ \E id \in Joinable(k) : Join(k, cost, p, id) \/ Conflict(cost, id)
     \/ Joinable(k) = {} /\ (Start(k, cost, p) \/ StartRefused)
  /\ UNCHANGED <<reserved, workers, joined, stale>>

\* Mutant: remove gives up the key even when a replacement owns it.
RemovedKeysBlindly(id) ==
  [k \in {k \in DOMAIN keys : k # jobs[id].key} |-> keys[k]]

\* The keys remove() leaves: its job's only while that job still owns it.
RemovedKeys(id) ==
  [k \in {k \in DOMAIN keys : k # jobs[id].key \/ keys[k] # id} |-> keys[k]]

Cancel(c) ==
  /\ c \in DOMAIN consumers
  /\ LET id == consumers[c]
         left == Remove(jobs[id].consumers, c)
         J == [jobs EXCEPT ![id].consumers = left]
     IN  /\ consumers' = Remove(consumers, c)
         /\ \/ /\ DOMAIN left # {}
               /\ jobs' = J
               /\ UNCHANGED keys
            \/ /\ DOMAIN left = {} /\ jobs[id].running
               /\ jobs' = [J EXCEPT ![id].canceled = TRUE]
               /\ UNCHANGED keys
            \/ /\ DOMAIN left = {} /\ ~jobs[id].running
               /\ jobs' = Remove(jobs, id)
               /\ keys' = RemovedKeys(id)
  /\ UNCHANGED <<next, reserved, external, workers, joined, stale>>

\* Mutant: an admitted job keeps its own identity as its lease.
NextReadyReusing ==
  /\ LET J == PreemptedJobs(jobs, Victims(jobs, external, reserved))
         E == PreemptedReads(external, Victims(jobs, external, reserved))
     IN  \E id \in Front(J, E) \cap DOMAIN J :
           /\ Active(J, E) < Workers
           /\ J[id].cost <= WorkingBytes - reserved
           /\ jobs' = [J EXCEPT ![id].running = TRUE, ![id].lease = id]
           /\ external' = E
           /\ reserved' = reserved + J[id].cost
           /\ workers' = Insert(workers, id, J[id].cost)
  /\ UNCHANGED <<next, keys, consumers, joined, stale>>

\* next_ready(): the job it starts, if the front is a job that fits.
Startable(J, E) ==
  {id \in Front(J, E) \cap DOMAIN J : /\ Active(J, E) < Workers
                                      /\ J[id].cost <= WorkingBytes - reserved}

NextReady ==
  LET J == PreemptedJobs(jobs, Victims(jobs, external, reserved))
      E == PreemptedReads(external, Victims(jobs, external, reserved))
  IN  /\ external' = E
      /\ \/ /\ Startable(J, E) = {} \/ next = MaxSerial
            /\ jobs' = J
            /\ UNCHANGED <<next, reserved, workers>>
         \/ /\ next < MaxSerial
            /\ \E id \in Startable(J, E) :
                 /\ jobs' = [J EXCEPT ![id].running = TRUE, ![id].lease = next]
                 /\ reserved' = reserved + J[id].cost
                 /\ workers' = Insert(workers, next, J[id].cost)
            /\ next' = next + 1
      /\ UNCHANGED <<keys, consumers, joined, stale>>

LeaseOwner(lease) == {id \in DOMAIN jobs : jobs[id].lease = lease}

\* Mutant: a preempted job is dropped although consumers wait for it.
NeverRequeues(id) == FALSE

\* finished(): a preempted job somebody still wants is queued again with a
\* fresh token; any other leaves with its consumers.
Requeues(id) == jobs[id].preempted /\ DOMAIN jobs[id].consumers # {}

\* Mutant: a reaped job never counts as replaced.
SupersededNever(id) == FALSE

Superseded(id) == jobs[id].key \in DOMAIN keys /\ keys[jobs[id].key] # id

\* Mutant: the reservation of a joined process is never given back.
ReapKeepingBytes(id) ==
  /\ UNCHANGED reserved
  /\ jobs' = Remove(jobs, id)
  /\ keys' = RemovedKeys(id)
  /\ consumers' = [c \in DOMAIN consumers \ DOMAIN jobs[id].consumers |-> consumers[c]]

\* Mutant: a requeued job keeps the token that stopped its process.
ReapKeepingToken(id) ==
  /\ reserved' = reserved - jobs[id].cost
  /\ \/ /\ Requeues(id)
        /\ jobs' = [jobs EXCEPT ![id].lease = NoLease, ![id].running = FALSE,
                                ![id].preempted = FALSE]
        /\ UNCHANGED <<keys, consumers>>
     \/ /\ ~Requeues(id)
        /\ jobs' = Remove(jobs, id)
        /\ keys' = RemovedKeys(id)
        /\ consumers' = [c \in DOMAIN consumers \ DOMAIN jobs[id].consumers |-> consumers[c]]

Reap(id) ==
  /\ reserved' = reserved - jobs[id].cost
  /\ \/ /\ Requeues(id)
        /\ jobs' = [jobs EXCEPT ![id].lease = NoLease, ![id].running = FALSE,
                                ![id].preempted = FALSE, ![id].canceled = FALSE]
        /\ UNCHANGED <<keys, consumers>>
     \/ /\ ~Requeues(id)
        /\ jobs' = Remove(jobs, id)
        /\ keys' = RemovedKeys(id)
        /\ consumers' = [c \in DOMAIN consumers \ DOMAIN jobs[id].consumers |-> consumers[c]]

\* finished() on any lease: one that no job holds is refused.
FinishedCall(lease) ==
  \/ LeaseOwner(lease) = {} /\ UNCHANGED <<jobs, keys, consumers, reserved>>
  \/ \E id \in LeaseOwner(lease) : Reap(id)

\* The process behind a job's lease was joined and the owner reports it.
Finished(lease) ==
  /\ lease \in DOMAIN workers
  /\ LeaseOwner(lease) # {}
  /\ FinishedCall(lease)
  /\ workers' = Remove(workers, lease)
  /\ joined' = joined \cup {lease}
  /\ UNCHANGED <<next, external, stale>>

\* A second, delayed report of a process that was joined before.
FinishedLate(lease) ==
  /\ lease \in joined
  /\ FinishedCall(lease)
  /\ UNCHANGED <<next, external, workers, joined, stale>>

\* Owner: the catalog moved past the pixels of a key.
Outdate(k) ==
  /\ stale' = stale \cup {k}
  /\ UNCHANGED <<next, jobs, keys, consumers, reserved, external, workers, joined>>

\* Owner: tick sets the token of a lease whose key is stale.
StopLease(id) ==
  /\ jobs[id].running
  /\ jobs[id].key \in stale
  /\ jobs' = [jobs EXCEPT ![id].canceled = TRUE]
  /\ UNCHANGED <<next, keys, consumers, reserved, external, workers, joined, stale>>
-----------------------------------------------------------------------------
(* Native cache reads.                                                     *)

QueueNativeRead(p) ==
  /\ next < MaxSerial /\ next < MaxArrivals
  /\ RequestCount < Requests
  /\ next' = next + 1
  /\ Preempt(jobs, Insert(external, next, [priority |-> p, cost |-> 0, lease |-> NoLease,
                                           preempted |-> FALSE]), reserved)
  /\ UNCHANGED <<keys, consumers, reserved, workers, joined, stale>>

ReadCost(cost) == cost > 0 /\ cost <= WorkingBytes

\* admit_native_read: the cost is recorded and preemption decided even when
\* the read has to wait.
AdmitNativeRead(request, cost) ==
  /\ ReadCost(cost)
  /\ external[request].lease = NoLease
  /\ LET known == [external EXCEPT ![request].cost = cost]
         victims == Victims(jobs, known, reserved)
         J == PreemptedJobs(jobs, victims)
         E == PreemptedReads(known, victims)
         admitted == /\ Active(J, E) < Workers
                     /\ cost <= WorkingBytes - reserved
                     /\ request \in Front(J, E)
                     /\ next < MaxSerial
     IN  /\ jobs' = J
         /\ \/ /\ ~admitted
               /\ external' = E
               /\ UNCHANGED <<next, reserved, workers>>
            \/ /\ admitted
               /\ external' = [E EXCEPT ![request].lease = next]
               /\ next' = next + 1
               /\ reserved' = reserved + cost
               /\ workers' = Insert(workers, next, cost)
  /\ UNCHANGED <<keys, consumers, joined, stale>>

UpgradeFits(old, cost) == cost <= WorkingBytes - (reserved - old)

\* upgrade_native_read; the refused upgrade changes nothing.
UpgradeNativeRead(request, cost) ==
  /\ ReadCost(cost)
  /\ external[request].lease # NoLease
  /\ UpgradeFits(external[request].cost, cost)
  /\ reserved' = reserved - external[request].cost + cost
  /\ external' = [external EXCEPT ![request].cost = cost]
  /\ workers' = [workers EXCEPT ![external[request].lease] = cost]
  /\ UNCHANGED <<next, jobs, keys, consumers, joined, stale>>

\* requeue_native_read, after the process was joined.
RequeueNativeRead(request, cost) ==
  /\ next < MaxArrivals
  /\ ReadCost(cost)
  /\ external[request].lease # NoLease
  /\ reserved' = reserved - external[request].cost
  /\ workers' = Remove(workers, external[request].lease)
  /\ joined' = joined \cup {external[request].lease}
  /\ Preempt(jobs,
             [external EXCEPT ![request].lease = NoLease, ![request].cost = cost,
                              ![request].preempted = FALSE],
             reserved')
  /\ UNCHANGED <<next, keys, consumers, stale>>

CancelQueuedNativeRead(request) ==
  /\ external[request].lease = NoLease
  /\ external' = Remove(external, request)
  /\ UNCHANGED <<next, jobs, keys, consumers, reserved, workers, joined, stale>>

\* release_native_read, after the process was joined.
ReleaseNativeRead(request) ==
  /\ external[request].lease # NoLease
  /\ reserved' = reserved - external[request].cost
  /\ workers' = Remove(workers, external[request].lease)
  /\ joined' = joined \cup {external[request].lease}
  /\ external' = Remove(external, request)
  /\ UNCHANGED <<next, jobs, keys, consumers, stale>>

-----------------------------------------------------------------------------
Next ==
  \/ \E k \in Keys, cost \in Costs, p \in Priorities : Request(k, cost, p)
  \/ \E c \in Ids : Cancel(c)
  \/ NextReady
  \/ \E lease \in Ids : Finished(lease) \/ FinishedLate(lease)
  \/ \E k \in Keys : Outdate(k)
  \/ \E id \in DOMAIN jobs : StopLease(id)
  \/ \E p \in Priorities : QueueNativeRead(p)
  \/ \E request \in DOMAIN external :
       \/ \E cost \in Costs : \/ AdmitNativeRead(request, cost)
                              \/ UpgradeNativeRead(request, cost)
                              \/ RequeueNativeRead(request, cost)
       \/ CancelQueuedNativeRead(request)
       \/ ReleaseNativeRead(request)

Spec == Init /\ [][Next]_vars

-----------------------------------------------------------------------------
(***************************************************************************)
(* The maps of the scheduler hold records of their types under identities  *)
(* that serial() has handed out, and a job and a read never share one.     *)
(***************************************************************************)
TypeOK ==
  /\ next \in 1 .. MaxSerial
  /\ DOMAIN jobs \subseteq 1 .. next - 1
  /\ \A id \in DOMAIN jobs :
       /\ jobs[id] \in [key : Keys, cost : Nat, consumers : {jobs[id].consumers},
                        running : BOOLEAN, canceled : BOOLEAN, preempted : BOOLEAN,
                        lease : 0 .. next - 1]
       /\ DOMAIN jobs[id].consumers \subseteq 1 .. next - 1
       /\ \A c \in DOMAIN jobs[id].consumers : jobs[id].consumers[c] \in Priorities
  /\ DOMAIN keys \subseteq Keys
  /\ DOMAIN consumers \subseteq 1 .. next - 1
  /\ DOMAIN external \subseteq (1 .. next - 1) \ DOMAIN jobs
  /\ \A r \in DOMAIN external :
       external[r] \in [priority : Priorities, cost : Nat, lease : 0 .. next - 1,
                        preempted : BOOLEAN]
  /\ DOMAIN workers \subseteq 1 .. next - 1
  /\ joined \subseteq 1 .. next - 1
  /\ stale \subseteq Keys
  /\ reserved \in Int

(***************************************************************************)
(* The two consumer maps agree, and every consumer waits on the job that   *)
(* owns its key: a request that replaced a stopped job never leaves a      *)
(* waiting consumer behind on the job it replaced.                         *)
(***************************************************************************)
ConsumersTracked ==
  /\ \A c \in DOMAIN consumers :
       consumers[c] \in DOMAIN jobs /\ c \in DOMAIN jobs[consumers[c]].consumers
  /\ \A id \in DOMAIN jobs : \A c \in DOMAIN jobs[id].consumers :
       /\ c \in DOMAIN consumers /\ consumers[c] = id
       /\ jobs[id].key \in DOMAIN keys /\ keys[jobs[id].key] = id
  /\ \A k \in DOMAIN keys : keys[k] \in DOMAIN jobs /\ jobs[keys[k]].key = k

(***************************************************************************)
(* Every process that was not joined is the lease of exactly one running   *)
(* job or native read with the bytes it may use, and nothing runs without  *)
(* a process: neither cancellation, preemption nor a delayed second report *)
(* of an earlier process detaches a live one from its reservation.         *)
(***************************************************************************)
Holders(l) == LeaseOwner(l) \cup {r \in DOMAIN external : external[r].lease = l}
LeasesOwned ==
  /\ \A id \in DOMAIN jobs :
       /\ jobs[id].running <=> jobs[id].lease # NoLease
       /\ jobs[id].running => /\ jobs[id].lease \in DOMAIN workers
                              /\ workers[jobs[id].lease] = jobs[id].cost
  /\ \A r \in Leased(external) : /\ external[r].lease \in DOMAIN workers
                                 /\ workers[external[r].lease] = external[r].cost
  /\ joined \cap DOMAIN workers = {}
  /\ \A l \in DOMAIN workers : \E h \in Holders(l) : Holders(l) = {h}

(***************************************************************************)
(* A job that was stopped without being preempted has lost its consumers,  *)
(* or nobody will ask for its key again: a request that replaces it takes  *)
(* no key away from a consumer that waits.                                 *)
(***************************************************************************)
StoppedUnwanted ==
  \A id \in DOMAIN jobs :
    jobs[id].canceled /\ ~jobs[id].preempted =>
      DOMAIN jobs[id].consumers = {} \/ jobs[id].key \in stale

(***************************************************************************)
(* The configured limits hold at every moment, whatever is canceled,       *)
(* upgraded or requeued: live processes, their bytes and open requests.    *)
(***************************************************************************)
LimitsHeld ==
  /\ Cardinality(DOMAIN workers) <= Workers
  /\ reserved <= WorkingBytes
  /\ RequestCount <= Requests

(***************************************************************************)
(* The reservation is exactly what the live processes may use: none is     *)
(* released early, leaked, or released twice (the subtraction on u64 would *)
(* wrap), and so the configured limits bound the processes themselves.     *)
(***************************************************************************)
ReservationsExact ==
  /\ reserved = SumFunction(workers)
  /\ LimitsHeld

(***************************************************************************)
(* What a step starts is the foreground work that waited longest, or, with *)
(* no foreground work queued, the background work that did: neither a      *)
(* requeued job nor a native read overtakes.                               *)
(***************************************************************************)
Started(id) ==
  \/ id \in Running(jobs') /\ id \notin Running(jobs)
  \/ id \in Leased(external') /\ id \notin Leased(external)
StartsInOrder ==
  [][\A id \in DOMAIN jobs \cup DOMAIN external : Started(id) =>
       \A other \in Queued(jobs, external) \ {id} :
         \/ PriorityOf(jobs, external, id) > PriorityOf(jobs, external, other)
         \/ /\ PriorityOf(jobs, external, id) = PriorityOf(jobs, external, other)
            /\ id < other]_vars

(***************************************************************************)
(* Preemption is invisible to consumers: a consumer of a preempted job     *)
(* goes only by its own cancel, alone, while every process keeps running.  *)
(***************************************************************************)
PreemptionInvisible ==
  [][\A c \in DOMAIN consumers \ DOMAIN consumers' :
       jobs[consumers[c]].preempted =>
         workers' = workers /\ DOMAIN consumers' = DOMAIN consumers \ {c}]_vars

(***************************************************************************)
(* Fairness.  The actor polls next_ready and retries its queued reads; the *)
(* processes of foreground work end, and so does a process that was told   *)
(* to stop, because it is killed and waited for.  Background work that was *)
(* not told to stop may run for ever.                                      *)
(***************************************************************************)
MustEnd(id) == jobs[id].canceled \/ JobPriority(jobs[id]) = Foreground
Fairness ==
  /\ WF_vars(NextReady)
  /\ WF_vars(\E lease \in DOMAIN workers :
               Finished(lease) /\ \E id \in LeaseOwner(lease) : MustEnd(id))
  /\ WF_vars(\E r \in DOMAIN external, cost \in Costs : AdmitNativeRead(r, cost))
  /\ WF_vars(\E r \in Leased(external) :
               /\ external[r].preempted \/ external[r].priority = Foreground
               /\ ReleaseNativeRead(r))

LiveSpec == Spec /\ Fairness

(***************************************************************************)
(* Foreground work never waits for background work to end by itself: once  *)
(* callers stop asking, all queued foreground work is started or given up, *)
(* although background processes that were not told to stop never end.     *)
(***************************************************************************)
UrgentWork == {id \in Queued(jobs, external) : PriorityOf(jobs, external, id) = Foreground}
ForegroundStarts == UrgentWork # {} ~> UrgentWork = {}

=============================================================================
