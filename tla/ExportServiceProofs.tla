------------------------- MODULE ExportServiceProofs -------------------------
(***************************************************************************)
(* Proofs about ExportService for any number of handles, items, attempts   *)
(* and faults: it implements PhotoExports, so that what is proved there    *)
(* holds here, one child renders at a time, and no row stays in rendering  *)
(* without an owner.                                                       *)
(*                                                                         *)
(* The inductive invariant adds to that of PhotoExports what the mode, the *)
(* duty of the tick, the owned attempt and the call of the executor say    *)
(* about each other.                                                       *)
(***************************************************************************)
EXTENDS ExportService, PhotoExportsProofs

(* Duties that stand for a row in rendering.                               *)
Spawning == {"spawn", "staging", "starting"}
Owning == Spawning \cup {"reject", "accept", "accepting"}

(* Modes between a complete recovery and the end of the service.           *)
AfterRecovery == {"intents", "ready", "parked"}

(* What the mode, the duty and the owned attempt say about each other.     *)
ModeFits ==
  /\ mode \in {"closed", "opened", "parked"} => duty.do = "none"
  /\ mode # "ready" => active = None /\ duty.do \notin Owning
  /\ active # None => duty.do = "none" /\ permit /\ active.attempt # 0 /\ Stopped(active) # {}
  /\ duty.do \in Owning => duty.work.attempt # 0
  /\ duty.do \in Spawning => permit

(* The executor makes one call at a time, for its duty.                    *)
CallFitsDuty ==
  /\ duty.do \notin {"accepting", "publishing", "linked"} => call[Executor].at = "idle"
  /\ duty.do = "accepting" => call[Executor].at \in {"idle", "accepting"}

(* At most one child runs; once recovered, only that of the owned attempt. *)
Running == {t \in transports : t.child = "running"}

RunningFits ==
  /\ \A t, u \in Running : t = u
  /\ mode \in AfterRecovery => Running \subseteq Stopped(active)

(* Once recovered, a row in rendering is owned or about to be.             *)
RenderingFits ==
  mode \in AfterRecovery =>
    \A i \in Items : state[i] = "rendering" =>
      \/ active = Work(i, attempt[i])
      \/ duty.do \in Owning /\ duty.work = Work(i, attempt[i])

ServiceInv ==
  /\ ExecutorTypeOK
  /\ ModeFits
  /\ CallFitsDuty
  /\ RunningFits
  /\ RenderingFits

SInv == IInv /\ ServiceInv

-----------------------------------------------------------------------------
(* The steps of PhotoExports other than a claim.                           *)
Unclaiming ==
  \/ Append \/ SealJob \/ Cancel
  \/ \E i \in Items :
       \/ SealDirectory(i) \/ FailSealed(i) \/ RetrySealed(i)
       \/ \E a \in 1..MaxAttempts : Requeue(i, a) \/ FailRender(i, a)
  \/ \E h \in Handles : Accepting(h) \/ Publishing(h) \/ Restoring(h) \/ Stop(h)
  \/ World
  \/ UNCHANGED vars

(* No row begins to render, and none in rendering changes its attempt.     *)
RendersLess ==
  \A i \in Items : state'[i] = "rendering" => state[i] = "rendering" /\ attempt'[i] = attempt[i]

LEMMA UnclaimingSteps == Unclaiming => [Next]_vars
BY DEF Unclaiming, Next, Rows

LEMMA UnclaimingRendersLess ==
  ASSUME IInv, Unclaiming
  PROVE  RendersLess
<1> USE DEF RendersLess, rowVars
<1>1. state \in [Items -> ItemStates] /\ attempt \in [Items -> 0..MaxAttempts] /\ job.total + 1 \in Nat
  BY ItemsAssumption DEF IInv, ExportTypeOK
<1>2. CASE Append \/ SealJob \/ Cancel
  BY <1>1, <1>2 DEF Append, SealJob, Cancel
<1>3. ASSUME NEW i \in Items, SealDirectory(i) \/ FailSealed(i) \/ RetrySealed(i)
      PROVE  RendersLess
  BY <1>1, <1>3 DEF SealDirectory, FailSealed, RetrySealed
<1>4. ASSUME NEW i \in Items, NEW a \in 1..MaxAttempts, Requeue(i, a) \/ FailRender(i, a)
      PROVE  RendersLess
  BY <1>1, <1>4 DEF Requeue, FailRender
<1>5. ASSUME NEW h \in Handles, Accepting(h)
      PROVE  RendersLess
  <2>1. CASE AcceptCommit(h)
    BY <1>1, <2>1, ItemOfCall DEF AcceptCommit, IInv
  <2>2. QED
    BY <1>5, <2>1 DEF Accepting, AcceptPrepare
<1>6. ASSUME NEW h \in Handles, Publishing(h)
      PROVE  RendersLess
  <2>1. CASE Finalize(h)
    BY <1>1, <2>1, ItemOfCall DEF Finalize, IInv
  <2>2. CASE RecordFailure(h)
    BY <1>1, <2>2, ItemOfCall DEF RecordFailure, IInv
  <2>3. QED
    BY <1>6, <2>1, <2>2 DEF Publishing, PublishRead, PublishPrepare, PublishIntent,
       PublishCapture, CaptureRefused, VerifyCapture, PublishLink, LinkRefused, VerifyInstalled
<1>7. ASSUME NEW h \in Handles, Restoring(h)
      PROVE  RendersLess
  <2>1. CASE RestoreRecord(h)
    BY <1>1, <2>1, ItemOfCall DEF RestoreRecord, IInv
  <2>2. QED
    BY <1>7, <2>1 DEF Restoring, RestoreRead, RestorePrepare, RestoreLink, RestoreRefused,
                      VerifyRestored
<1>8. ASSUME NEW h \in Handles, Stop(h)
      PROVE  RendersLess
  BY <1>8 DEF Stop
<1>9. CASE World
  BY <1>9 DEF World, Touch, Damage, Edit
<1>10. CASE UNCHANGED vars
  BY <1>10 DEF vars
<1>11. QED
  BY <1>2, <1>3, <1>4, <1>5, <1>6, <1>7, <1>8, <1>9, <1>10 DEF Unclaiming

(* A call of another handle leaves that of the executor alone.             *)
LEMMA OtherCalls ==
  ASSUME IInv, NEW h \in Handles \ {Executor}, Restoring(h) \/ Stop(h)
  PROVE  call'[Executor] = call[Executor]
<1> USE ExecutorAssumption
<1>1. call \in [Handles -> Calls]
  BY DEF IInv, ExportTypeOK
<1>2. ASSUME NEW place, Go(h, place)
      PROVE  call'[Executor] = call[Executor]
  BY <1>1, <1>2 DEF Go
<1>3. ASSUME NEW place, Verified(h, place)
      PROVE  call'[Executor] = call[Executor]
  BY <1>1, <1>3 DEF Verified
<1>4. ASSUME NEW place, NEW i, NEW a, NEW known, Enter(h, place, i, a, known)
      PROVE  call'[Executor] = call[Executor]
  BY <1>1, <1>4 DEF Enter
<1>5. End(h) => call'[Executor] = call[Executor]
  BY <1>1 DEF End
<1>6. QED
  BY <1>2, <1>3, <1>4, <1>5 DEF Restoring, RestoreRead, RestorePrepare, RestoreLink,
     RestoreRefused, VerifyRestored, RestoreRecord, Stop

-----------------------------------------------------------------------------
(* Every step of the executor is one of PhotoExports, or leaves it alone.  *)

LEMMA OwnedAttempt ==
  ASSUME IInv, NEW i \in Items, NEW a \in 0..MaxAttempts, Owned(i, a)
  PROVE  a \in 1..MaxAttempts
BY AttemptsAssumption DEF IInv, RowsFit, RowFits, Owned

LEMMA ServiceStep ==
  ASSUME SInv, ServiceNext
  PROVE  TickClaim \/ Unclaiming
<1> USE ExecutorAssumption
<1>1. IInv /\ active.item \in Items /\ active.attempt \in 0..MaxAttempts
        /\ duty.work.item \in Items /\ duty.work.attempt \in 0..MaxAttempts
  BY DEF SInv, ServiceInv, ExecutorTypeOK, Works
<1>2. CASE Open \/ RunAgain \/ AdmitNative \/ ChildEnds \/ AskCancel \/ Close
  BY <1>2 DEF Open, RunAgain, AdmitNative, ChildEnds, AskCancel, Close, Unclaiming
<1>3. CASE Recovering
  <2>1. CASE FenceTransport
    <3>1. PICK t \in transports : Requeue(t.item, t.attempt) \/ UNCHANGED vars
      BY <2>1 DEF FenceTransport, Retirable
    <3>2. t.item \in Items /\ t.attempt \in 1..MaxAttempts
      BY DEF SInv, ServiceInv, ExecutorTypeOK
    <3>3. QED
      BY <3>1, <3>2 DEF Unclaiming
  <2>2. CASE FenceRow
    <3>1. PICK i \in Items : Requeue(i, attempt[i])
      BY <2>2 DEF FenceRow
    <3>2. attempt[i] \in 0..MaxAttempts /\ Owned(i, attempt[i])
      BY <1>1, <3>1 DEF IInv, ExportTypeOK, Requeue
    <3>3. QED
      BY <1>1, <3>1, <3>2, OwnedAttempt DEF Unclaiming
  <2>3. QED
    BY <1>3, <2>1, <2>2 DEF Recovering, ReadIntents, SettleIntent, Recovered, Unclaiming
<1>4. CASE Yield
  <2>1. Requeue(active.item, active.attempt)
    BY <1>4 DEF Yield
  <2>2. active.attempt \in 1..MaxAttempts
    BY <1>1, <2>1, OwnedAttempt DEF Requeue
  <2>3. QED
    BY <1>1, <2>1, <2>2 DEF Unclaiming
<1>5. CASE Crash
  BY <1>5 DEF Crash, Unclaiming
<1>6. CASE Others
  BY <1>6 DEF Others, Unclaiming
<1>7. CASE Ticking
  <2>1. CASE TickCanceled \/ PollCanceled \/ RejectCancels \/ Published
    BY <1>1, <2>1 DEF TickCanceled, PollCanceled, RejectCancels, Published,
                      CancelUnlessComplete, Unclaiming
  <2>2. CASE \/ TickIdle \/ TickSealed \/ SpawnDirectory \/ SpawnRequest \/ Spawn \/ SpawnFails
             \/ PollDone \/ PollFails \/ Accepted
    BY <2>2 DEF TickIdle, TickSealed, SpawnDirectory, SpawnRequest, Spawn, SpawnFails, PollDone,
                PollFails, Accepted, Unclaiming
  <2>3. CASE PollSeals
    BY <1>1, <2>3 DEF PollSeals, Unclaiming
  <2>4. CASE Reject
    <3>1. FailRender(duty.work.item, duty.work.attempt)
      BY <2>4 DEF Reject
    <3>2. duty.work.attempt \in 1..MaxAttempts
      BY <1>1, <3>1, OwnedAttempt DEF FailRender
    <3>3. QED
      BY <1>1, <3>1, <3>2 DEF Unclaiming
  <2>5. CASE StartAccept
    <3>1. CASE AcceptPrepare(Executor, duty.work.item, duty.work.attempt)
      <4>1. duty.work.attempt \in 1..MaxAttempts
        BY <1>1, <3>1, AttemptsAssumption DEF AcceptPrepare, IInv, ExportTypeOK
      <4>2. QED
        BY <1>1, <3>1, <4>1 DEF Accepting, Unclaiming
    <3>2. QED
      BY <2>5, <3>1 DEF StartAccept, Unclaiming
  <2>6. CASE StartPublish
    BY <1>1, <2>6 DEF StartPublish, Publishing, Unclaiming
  <2>7. CASE CallStep
    BY <2>7 DEF CallStep, Accepting, Unclaiming
  <2>8. QED
    BY <1>7, <2>1, <2>2, <2>3, <2>4, <2>5, <2>6, <2>7 DEF Ticking
<1>8. QED
  BY <1>2, <1>3, <1>4, <1>5, <1>6, <1>7 DEF ServiceNext

LEMMA ServiceImplements ==
  ASSUME SInv, [ServiceNext]_allVars
  PROVE  [Next]_vars
<1>1. TickClaim => Next
  BY DEF TickClaim, Next, Rows
<1>2. CASE UNCHANGED allVars
  BY <1>2 DEF allVars
<1>3. QED
  BY <1>1, <1>2, ServiceStep, UnclaimingSteps

-----------------------------------------------------------------------------
(* Every step keeps what the executor knows.                               *)

(* A step that leaves the executor where it is.                            *)
LEMMA StillKeeps ==
  ASSUME SInv, UNCHANGED <<mode, active, permit, transports, intents, duty>>,
         asked' \in BOOLEAN, faults' \in 0..MaxFaults,
         call'[Executor] = call[Executor], RendersLess
  PROVE  ServiceInv'
<1> USE DEF SInv, ServiceInv
<1>1. ExecutorTypeOK' /\ CallFitsDuty'
  BY DEF ExecutorTypeOK, CallFitsDuty
<1>2. ModeFits' /\ RunningFits'
  BY DEF ModeFits, RunningFits, Running, Stopped
<1>3. RenderingFits'
  BY DEF RenderingFits, AfterRecovery, RendersLess, Work
<1>4. QED
  BY <1>1, <1>2, <1>3

LEMMA StillSteps ==
  ASSUME SInv, RendersLess,
         FenceRow \/ PollSeals \/ RejectCancels \/ AskCancel \/ Others
  PROVE  ServiceInv'
<1>1. UNCHANGED <<mode, active, permit, transports, intents, duty>>
  BY DEF FenceRow, PollSeals, RejectCancels, AskCancel, Others, serviceVars
<1>2. asked' \in BOOLEAN /\ faults' \in 0..MaxFaults
  <2>1. asked \in BOOLEAN /\ faults \in 0..MaxFaults
    BY DEF SInv, ServiceInv, ExecutorTypeOK
  <2>2. (asked' = asked \/ asked' = TRUE) /\ (faults' = faults \/ Fault)
    BY DEF FenceRow, PollSeals, RejectCancels, AskCancel, Others, serviceVars
  <2>3. asked' \in BOOLEAN
    BY <2>1, <2>2, Zenon
  <2>4. faults' \in 0..MaxFaults
    BY <2>1, <2>2, FaultsAssumption DEF Fault
  <2>5. QED
    BY <2>3, <2>4
<1>3. call'[Executor] = call[Executor]
  <2>1. CASE FenceRow \/ PollSeals \/ RejectCancels \/ AskCancel
    BY <2>1 DEF FenceRow, PollSeals, RejectCancels, AskCancel, Requeue, SealDirectory, Cancel, vars
  <2>2. CASE Others
    <3>1. CASE World
      BY <3>1 DEF World, Touch, Damage, Edit
    <3>2. CASE \E h \in Handles \ {Executor} : Restoring(h) \/ Stop(h)
      BY <3>2, OtherCalls DEF SInv
    <3>3. QED
      BY <2>2, <3>1, <3>2 DEF Others, Append, SealJob, Cancel, RetrySealed
  <2>3. QED
    BY <2>1, <2>2
<1>4. QED
  BY <1>1, <1>2, <1>3, StillKeeps

(* Steps that change the mode, the permit or the duty, and no row.         *)
LEMMA RecoveryKeeps ==
  ASSUME SInv, RendersLess, Open \/ RunAgain \/ ReadIntents \/ SettleIntent \/ Recovered
  PROVE  ServiceInv'
<1> USE DEF SInv, ServiceInv, Open, RunAgain, ReadIntents, SettleIntent, Recovered, Duty, Work
<1>1. ExecutorTypeOK'
  BY AttemptsAssumption DEF ExecutorTypeOK, Duties, Works
<1>2. ModeFits' /\ CallFitsDuty'
  BY DEF ModeFits, CallFitsDuty, Stopped, Owning, Spawning, vars
<1>3. RunningFits'
  BY DEF RunningFits, AfterRecovery, Running, Retained, Stopped, Fenced, ModeFits
<1>4. RenderingFits'
  BY DEF RenderingFits, AfterRecovery, RendersLess, Owning, Spawning, ModeFits
<1>5. QED
  BY <1>1, <1>2, <1>3, <1>4

LEMMA TickKeeps ==
  ASSUME SInv, RendersLess, TickCanceled \/ TickIdle \/ TickSealed \/ AdmitNative
  PROVE  ServiceInv'
<1> USE DEF SInv, ServiceInv, TickCanceled, TickIdle, TickSealed, AdmitNative, Duty, Work,
           Idle, RunEnds
<1>1. call' = call
  BY DEF CancelUnlessComplete, Cancel, vars
<1>2. ExecutorTypeOK'
  <2>1. /\ duty' = duty \/ \E i \in Items : duty' = [do |-> "publish", work |-> Work(i, 0)]
        /\ permit' \in {permit, TRUE, FALSE} /\ asked' \in {asked, FALSE}
        /\ mode' \in {mode, "closed", "parked"}
        /\ UNCHANGED <<active, transports, intents, faults>>
    BY DEF Sealed
  <2>2. duty' \in [do : Duties, work : Works]
    BY <2>1, AttemptsAssumption DEF ExecutorTypeOK, Duties, Works
  <2>3. QED
    BY <2>1, <2>2 DEF ExecutorTypeOK
<1>3. ModeFits' /\ CallFitsDuty'
  BY <1>1 DEF ModeFits, CallFitsDuty, Stopped, Owning, Spawning
<1>4. RunningFits'
  BY DEF RunningFits, AfterRecovery, Running, Stopped
<1>5. RenderingFits'
  BY DEF RenderingFits, AfterRecovery, RendersLess, Owning, Spawning
<1>6. QED
  BY <1>2, <1>3, <1>4, <1>5

LEMMA FenceTransportKeeps ==
  ASSUME SInv, RendersLess, FenceTransport
  PROVE  ServiceInv'
<1> USE DEF SInv, ServiceInv, FenceTransport, Retirable
<1>1. call' = call
  BY DEF Requeue, vars
<1>2. transports' \subseteq transports
  OBVIOUS
<1>3. ExecutorTypeOK'
  BY <1>2 DEF ExecutorTypeOK
<1>4. ModeFits' /\ CallFitsDuty'
  BY <1>1 DEF ModeFits, CallFitsDuty, Owning, Spawning
<1>5. RunningFits' /\ RenderingFits'
  BY <1>2 DEF RunningFits, Running, RenderingFits, AfterRecovery
<1>6. QED
  BY <1>3, <1>4, <1>5

LEMMA ChildEndsKeeps ==
  ASSUME SInv, ChildEnds
  PROVE  ServiceInv'
<1> USE DEF SInv, ServiceInv
<1>1. PICK t \in transports, end \in {"done", "failed"} :
        transports' = (transports \ {t}) \cup {[t EXCEPT !.child = end]}
  BY DEF ChildEnds
<1> DEFINE ended == [item |-> t.item, attempt |-> t.attempt, child |-> end]
<1>2. ended = [t EXCEPT !.child = end]
  BY DEF ExecutorTypeOK
<1>3. transports' = (transports \ {t}) \cup {ended}
  BY <1>1, <1>2
<1>4. UNCHANGED <<vars, mode, active, permit, intents, duty, asked, faults>>
  BY DEF ChildEnds
<1>5. ExecutorTypeOK'
  BY <1>3, <1>4 DEF ExecutorTypeOK, Children
<1>6. ModeFits' /\ CallFitsDuty'
  <2>1. Stopped(active) # {} => Stopped(active)' # {}
    <3>1. ASSUME NEW u \in Stopped(active)
          PROVE  Stopped(active)' # {}
      <4>1. u # t => u \in Stopped(active)'
        BY <1>3, <1>4 DEF Stopped
      <4>2. u = t => ended \in Stopped(active)'
        BY <1>3, <1>4 DEF Stopped
      <4>3. QED
        BY <4>1, <4>2
    <3>2. QED
      BY <3>1
  <2>2. QED
    BY <1>4, <2>1 DEF ModeFits, CallFitsDuty, vars
<1>7. RunningFits'
  BY <1>3, <1>4 DEF RunningFits, AfterRecovery, Running, Stopped
<1>8. RenderingFits'
  BY <1>4 DEF RenderingFits, AfterRecovery, vars, rowVars
<1>9. QED
  BY <1>5, <1>6, <1>7, <1>8

(* The claimed row is the duty of the tick.                                *)
LEMMA TickClaimKeeps ==
  ASSUME SInv, TickClaim
  PROVE  ServiceInv'
<1> USE AttemptsAssumption DEF SInv, ServiceInv
<1>1. PICK i \in Items :
        /\ tokens[i] < MaxAttempts
        /\ attempt' = [attempt EXCEPT ![i] = tokens[i] + 1]
        /\ state' = [state EXCEPT ![i] = "rendering"]
  BY DEF TickClaim, Claim
<1>2. PICK j \in Items : attempt'[j] # attempt[j] /\ Duty("spawn", Work(j, attempt'[j]))
  BY DEF TickClaim
<1>3. /\ Idle /\ active = None /\ permit
      /\ UNCHANGED <<mode, active, permit, transports, intents, asked, faults, call>>
  BY DEF TickClaim, Claim
<1>4. state \in [Items -> ItemStates] /\ attempt \in [Items -> 0..MaxAttempts]
        /\ tokens[i] \in 0..MaxAttempts
  BY DEF IInv, ExportTypeOK
<1>5. j = i /\ attempt'[i] = tokens[i] + 1 /\ attempt'[i] \in 1..MaxAttempts
  BY <1>1, <1>2, <1>4
<1>6. duty' = [do |-> "spawn", work |-> Work(i, attempt'[i])]
  BY <1>2, <1>5 DEF Duty
<1>7. \A k \in Items : state[k] # "rendering"
  BY <1>3 DEF RenderingFits, AfterRecovery, Idle, Owning, Spawning, None, Work, IInv, RowsFit, RowFits
<1>8. ExecutorTypeOK'
  <2>1. duty' \in [do : Duties, work : Works]
    BY <1>5, <1>6 DEF Duties, Works, Work
  <2>2. QED
    BY <1>3, <2>1 DEF ExecutorTypeOK
<1>9. ModeFits' /\ CallFitsDuty'
  BY <1>3, <1>5, <1>6 DEF ModeFits, CallFitsDuty, Work, Idle, Owning, Spawning
<1>10. RunningFits'
  BY <1>3 DEF RunningFits, AfterRecovery, Running, Stopped
<1>11. RenderingFits'
  BY <1>1, <1>4, <1>6, <1>7 DEF RenderingFits, AfterRecovery, Owning, Spawning
<1>12. QED
  BY <1>8, <1>9, <1>10, <1>11

(* The transport of the claimed attempt, on its way to a child.            *)
LEMMA StagingKeeps ==
  ASSUME SInv, SpawnDirectory \/ SpawnRequest
  PROVE  ServiceInv'
<1> USE AttemptsAssumption DEF SInv, ServiceInv
<1>1. PICK to \in {"staging", "starting"}, child \in {"partial", "failed"} :
        /\ duty' = [do |-> to, work |-> duty.work]
        /\ transports' \subseteq transports \cup {ChildOf(duty.work, child)}
  BY DEF SpawnDirectory, SpawnRequest, Duty
<1>2. /\ duty.do \in Spawning
      /\ UNCHANGED <<vars, mode, active, permit, intents, asked, faults>>
  BY DEF SpawnDirectory, SpawnRequest, Spawning
<1>3. duty.work \in Works /\ duty.work.attempt # 0 /\ permit /\ mode = "ready" /\ active = None
  BY <1>2 DEF ModeFits, ExecutorTypeOK, Owning, Spawning
<1>4. ChildOf(duty.work, child) \in [item : Items, attempt : 1..MaxAttempts, child : Children]
        /\ ChildOf(duty.work, child).child # "running"
  BY <1>3 DEF ChildOf, Works, Children
<1>5. ExecutorTypeOK'
  <2>1. duty' \in [do : Duties, work : Works]
    BY <1>1, <1>3 DEF Duties
  <2>2. transports' \subseteq [item : Items, attempt : 1..MaxAttempts, child : Children]
    BY <1>1, <1>4 DEF ExecutorTypeOK
  <2>3. QED
    BY <1>2, <2>1, <2>2 DEF ExecutorTypeOK
<1>6. ModeFits' /\ CallFitsDuty'
  BY <1>1, <1>2, <1>3 DEF ModeFits, CallFitsDuty, Owning, Spawning, vars
<1>7. Running = {}
  BY <1>3 DEF RunningFits, AfterRecovery, Running, Stopped, ExecutorTypeOK, None
<1>8. Running' = {}
  BY <1>1, <1>4, <1>7 DEF Running
<1>9. RunningFits'
  BY <1>8 DEF RunningFits
<1>10. RenderingFits'
  BY <1>1, <1>2 DEF RenderingFits, AfterRecovery, Owning, Spawning, vars, rowVars
<1>11. QED
  BY <1>5, <1>6, <1>9, <1>10

LEMMA SpawnKeeps ==
  ASSUME SInv, Spawn
  PROVE  ServiceInv'
<1> USE AttemptsAssumption DEF SInv, ServiceInv
<1> DEFINE t == ChildOf(duty.work, "running")
           u == ChildOf(duty.work, "failed")
<1>1. /\ duty.do = "starting" /\ active' = duty.work
      /\ transports' = (transports \ {u}) \cup {t}
      /\ duty' = [do |-> "none", work |-> None]
      /\ UNCHANGED <<vars, mode, permit, intents, asked, faults>>
  BY DEF Spawn, Rest, Duty
<1>2. duty.work \in Works /\ duty.work.attempt # 0 /\ permit /\ mode = "ready" /\ active = None
  BY <1>1 DEF ModeFits, ExecutorTypeOK, Owning, Spawning
<1>3. t \in [item : Items, attempt : 1..MaxAttempts, child : Children] /\ t.child = "running"
        /\ t.item = duty.work.item /\ t.attempt = duty.work.attempt
  BY <1>2 DEF Works, Children, ChildOf
<1>4. None \in Works
  BY ItemsAssumption DEF Works, None, Items
<1> HIDE DEF t, u
<1>5. ExecutorTypeOK'
  BY <1>1, <1>2, <1>3, <1>4 DEF ExecutorTypeOK, Duties
<1>6. Running = {}
  BY <1>2 DEF RunningFits, AfterRecovery, Running, Stopped, ExecutorTypeOK, None
<1>7. t \in Stopped(active)'
  BY <1>1, <1>3 DEF Stopped
<1>8. Running' = {t}
  BY <1>1, <1>3, <1>6 DEF Running
<1>9. ModeFits' /\ CallFitsDuty'
  BY <1>1, <1>2, <1>7 DEF ModeFits, CallFitsDuty, Owning, Spawning, vars
<1>10. RunningFits'
  BY <1>7, <1>8 DEF RunningFits
<1>11. RenderingFits'
  BY <1>1, <1>2 DEF RenderingFits, AfterRecovery, Work, None, vars, rowVars, IInv, RowsFit,
                    RowFits
<1>12. QED
  BY <1>5, <1>9, <1>10, <1>11

LEMMA SpawnFailsKeeps ==
  ASSUME SInv, SpawnFails
  PROVE  ServiceInv'
<1> USE DEF SInv, ServiceInv
<1>1. /\ duty.do \in Spawning /\ permit' = FALSE /\ duty' = [do |-> "reject", work |-> duty.work]
      /\ UNCHANGED <<vars, mode, active, transports, intents, asked, faults>>
  BY DEF SpawnFails, Duty, Spawning
<1>2. ExecutorTypeOK'
  BY <1>1 DEF ExecutorTypeOK, Duties
<1>3. ModeFits' /\ CallFitsDuty'
  BY <1>1 DEF ModeFits, CallFitsDuty, Owning, Spawning, Stopped, vars
<1>4. RunningFits'
  BY <1>1 DEF RunningFits, AfterRecovery, Running, Stopped
<1>5. RenderingFits'
  BY <1>1 DEF RenderingFits, AfterRecovery, Owning, Spawning, vars, rowVars
<1>6. QED
  BY <1>2, <1>3, <1>4, <1>5

(* The child of the owned attempt is reaped before the permit goes.        *)
LEMMA ReapKeeps ==
  ASSUME SInv, RendersLess, Idle, active # None, call' = call,
         NEW next \in {"accept", "reject"}, Reap(next)
  PROVE  ServiceInv'
<1> USE DEF SInv, ServiceInv
<1>1. /\ active' = None /\ permit' = FALSE /\ duty' = [do |-> next, work |-> active]
      /\ \/ transports' = transports \ Stopped(active)
         \/ transports' = (transports \ Stopped(active)) \cup {ChildOf(active, "failed")}
      /\ UNCHANGED <<mode, intents, asked, faults>>
  BY DEF Reap, Duty
<1>2. active \in Works /\ active.attempt # 0
  BY DEF ModeFits, ExecutorTypeOK
<1>3. ChildOf(active, "failed") \in [item : Items, attempt : 1..MaxAttempts, child : Children]
        /\ ChildOf(active, "failed").child = "failed"
  BY <1>2, AttemptsAssumption DEF ChildOf, Works, Children
<1>4. None \in Works
  BY ItemsAssumption, AttemptsAssumption DEF Works, None, Items
<1>5. ExecutorTypeOK'
  BY <1>1, <1>2, <1>3, <1>4 DEF ExecutorTypeOK, Duties
<1>6. Running' = {}
  BY <1>1, <1>3 DEF Running, RunningFits, AfterRecovery, Idle
<1>7. ModeFits' /\ CallFitsDuty'
  BY <1>1, <1>2 DEF ModeFits, CallFitsDuty, Owning, Spawning, Idle
<1>8. RunningFits'
  BY <1>6 DEF RunningFits
<1>9. RenderingFits'
  BY <1>1 DEF RenderingFits, AfterRecovery, RendersLess, Owning, Spawning, Idle, Work
<1>10. QED
  BY <1>5, <1>7, <1>8, <1>9

LEMMA PollKeeps ==
  ASSUME SInv, RendersLess, PollDone \/ PollFails \/ PollCanceled
  PROVE  ServiceInv'
<1>1. Idle /\ active # None /\ call' = call /\ (Reap("accept") \/ Reap("reject"))
  BY DEF PollDone, PollFails, PollCanceled, Cancel, vars
<1>2. QED
  BY <1>1, ReapKeeps

(* The duty of a tick moves on; the mode, the attempt and its child stay.  *)
LEMMA DutyKeeps ==
  ASSUME SInv, RendersLess, duty.do # "none",
         NEW to \in Duties, NEW work \in Works, Duty(to, work),
         to \in Owning => work = duty.work /\ duty.do \in Owning,
         to \notin Spawning,
         CallFitsDuty',
         \A i \in Items :
           state'[i] = "rendering" /\ duty.do \in Owning /\ duty.work = Work(i, attempt[i])
             => to \in Owning,
         UNCHANGED <<mode, active, permit, transports, intents, asked, faults>>
  PROVE  ServiceInv'
<1> USE DEF SInv, ServiceInv
<1>1. duty' = [do |-> to, work |-> work]
  BY DEF Duty
<1>2. ExecutorTypeOK'
  BY <1>1 DEF ExecutorTypeOK
<1>3. ModeFits'
  BY <1>1 DEF ModeFits, Stopped, Owning, Spawning
<1>4. RunningFits'
  BY DEF RunningFits, AfterRecovery, Running, Stopped
<1>5. RenderingFits'
  BY <1>1 DEF RenderingFits, AfterRecovery, RendersLess, Work
<1>6. QED
  BY <1>2, <1>3, <1>4, <1>5

LEMMA DutyTypes ==
  ASSUME SInv
  PROVE  /\ None \in Works /\ duty.work \in Works /\ duty.do \in Duties
         /\ duty.work.item \in Items /\ duty.work.attempt \in 0..MaxAttempts
BY ItemsAssumption, AttemptsAssumption
   DEF SInv, ServiceInv, ExecutorTypeOK, Works, None, Items

LEMMA RejectKeeps ==
  ASSUME SInv, RendersLess, Reject
  PROVE  ServiceInv'
<1>1. /\ duty.do = "reject" /\ Duty("none", None)
      /\ UNCHANGED <<mode, active, permit, transports, intents, asked, faults, call>>
      /\ state' = [state EXCEPT ![duty.work.item] = "failed"]
  BY DEF Reject, Rest, FailRender
<1>2. CallFitsDuty'
  BY <1>1 DEF SInv, ServiceInv, CallFitsDuty, Duty
<1>3. \A i \in Items : state'[i] = "rendering" => duty.work # Work(i, attempt[i])
  BY <1>1 DEF SInv, IInv, ExportTypeOK, Work
<1>4. "none" \in Duties \ Owning /\ "none" \notin Spawning
  BY DEF Duties, Owning, Spawning
<1>5. QED
  BY <1>1, <1>2, <1>3, <1>4, DutyTypes, DutyKeeps

LEMMA StartAcceptKeeps ==
  ASSUME SInv, RendersLess, StartAccept
  PROVE  ServiceInv'
<1> USE ExecutorAssumption
<1>1. /\ duty.do = "accept" /\ Duty("accepting", duty.work)
      /\ UNCHANGED <<mode, active, permit, transports, intents, asked, faults>>
  BY DEF StartAccept
<1>2. call'[Executor].at \in {"idle", "accepting"}
  <2>1. call[Executor].at = "idle" /\ call \in [Handles -> Calls]
    BY <1>1 DEF SInv, ServiceInv, CallFitsDuty, IInv, ExportTypeOK
  <2>2. CASE call' = call
    BY <2>1, <2>2
  <2>3. CASE AcceptPrepare(Executor, duty.work.item, duty.work.attempt)
    BY <2>1, <2>3 DEF AcceptPrepare, Enter, NoCall
  <2>4. QED
    BY <2>2, <2>3 DEF StartAccept, vars
<1>3. CallFitsDuty'
  BY <1>1, <1>2 DEF CallFitsDuty, Duty
<1>4. "accepting" \in Duties \ Spawning /\ "accepting" \in Owning /\ "accept" \in Owning
  BY DEF Duties, Owning, Spawning
<1>5. QED
  BY <1>1, <1>3, <1>4, DutyTypes, DutyKeeps

LEMMA AcceptedKeeps ==
  ASSUME SInv, RendersLess, Accepted
  PROVE  ServiceInv'
<1> DEFINE owned == Owned(duty.work.item, duty.work.attempt)
           to == IF owned THEN "reject" ELSE "publish"
<1>1. /\ duty.do = "accepting" /\ Duty(to, duty.work) /\ call[Executor].at = "idle"
      /\ UNCHANGED <<vars, mode, active, permit, transports, intents, asked, faults>>
  BY DEF Accepted
<1>2. to \in Duties /\ to \notin Spawning /\ (to \in Owning <=> owned) /\ "accepting" \in Owning
  BY DEF Duties, Owning, Spawning
<1>3. to \notin {"accepting", "publishing", "linked"}
  OBVIOUS
<1> HIDE DEF to
<1>4. CallFitsDuty'
  BY <1>1, <1>2, <1>3 DEF CallFitsDuty, Duty, vars
<1>5. \A i \in Items : state'[i] = "rendering" /\ duty.work = Work(i, attempt[i]) => owned
  BY <1>1 DEF Owned, Work, vars, rowVars
<1> HIDE DEF owned
<1>6. QED
  BY <1>1, <1>2, <1>4, <1>5, DutyTypes, DutyKeeps

LEMMA StartPublishKeeps ==
  ASSUME SInv, RendersLess, StartPublish
  PROVE  ServiceInv'
<1>1. /\ duty.do = "publish" /\ Duty("publishing", duty.work)
      /\ UNCHANGED <<mode, active, permit, transports, intents, asked, faults>>
  BY DEF StartPublish
<1>2. CallFitsDuty'
  BY <1>1 DEF CallFitsDuty, Duty
<1>3. "publishing" \in (Duties \ Owning) \ Spawning /\ "publish" \notin Owning
  BY DEF Duties, Owning, Spawning
<1>4. QED
  BY <1>1, <1>2, <1>3, DutyTypes, DutyKeeps

(* A call that accepts ends there; it never publishes.                     *)
LEMMA AcceptEnds ==
  ASSUME SInv, CallStep, duty.do = "accepting"
  PROVE  call'[Executor].at = "idle"
<1> USE ExecutorAssumption
<1>1. call[Executor].at = "accepting" /\ call \in [Handles -> Calls]
  BY DEF CallStep, SInv, ServiceInv, CallFitsDuty, IInv, ExportTypeOK
<1>2. ~Publishing(Executor)
  BY <1>1 DEF Publishing, PublishRead, PublishPrepare, PublishIntent, PublishCapture,
     CaptureRefused, VerifyCapture, PublishLink, LinkRefused, RecordFailure, VerifyInstalled,
     Finalize, Enter
<1>3. End(Executor)
  BY <1>2 DEF CallStep, AcceptCommit, Stop
<1>4. QED
  BY <1>1, <1>3 DEF End, NoCall

LEMMA CallStepKeeps ==
  ASSUME SInv, RendersLess, CallStep
  PROVE  ServiceInv'
<1> DEFINE to == IF call'[Executor].at = "installed" THEN "linked" ELSE duty.do
<1>1. /\ duty.do \in {"accepting", "publishing", "linked"} /\ Duty(to, duty.work)
      /\ UNCHANGED <<mode, active, permit, transports, intents, asked, faults>>
  BY DEF CallStep
<1>2. duty.do = "accepting" => to = "accepting" /\ call'[Executor].at = "idle"
  BY AcceptEnds
<1>3. duty.do # "accepting" => to \in {"publishing", "linked"}
  BY <1>1
<1> HIDE DEF to
<1>4. CallFitsDuty'
  BY <1>1, <1>2, <1>3 DEF CallFitsDuty, Duty
<1>5. /\ to \in Duties /\ to \notin Spawning /\ (to \in Owning <=> duty.do = "accepting")
      /\ (duty.do \in Owning <=> duty.do = "accepting") /\ duty.do # "none"
  BY <1>1, <1>2, <1>3 DEF Duties, Owning, Spawning
<1>6. QED
  BY <1>1, <1>4, <1>5, DutyTypes, DutyKeeps

LEMMA PublishedKeeps ==
  ASSUME SInv, RendersLess, Published
  PROVE  ServiceInv'
<1> USE DEF SInv, ServiceInv
<1>1. /\ duty.do \in {"publishing", "linked"} /\ call[Executor].at = "idle"
      /\ duty' = [do |-> "none", work |-> None]
      /\ mode' = mode \/ (mode = "intents" /\ mode' = "opened")
      /\ asked' \in {asked, FALSE}
      /\ UNCHANGED <<active, permit, transports, intents, faults>>
  BY DEF Published, Rest, Duty
<1>2. call' = call
  BY DEF Published, CancelUnlessComplete, Cancel, FailSealed, vars
<1>3. ExecutorTypeOK'
  <2>1. asked' \in BOOLEAN
    BY <1>1, Zenon DEF ExecutorTypeOK
  <2>2. duty' \in [do : Duties, work : Works]
    BY <1>1, DutyTypes DEF Duties
  <2>3. QED
    BY <1>1, <2>1, <2>2 DEF ExecutorTypeOK
<1>4. ModeFits' /\ CallFitsDuty'
  BY <1>1, <1>2 DEF ModeFits, CallFitsDuty, Owning, Spawning, Stopped
<1>5. RunningFits'
  BY <1>1 DEF RunningFits, AfterRecovery, Running, Stopped
<1>6. RenderingFits'
  BY <1>1 DEF RenderingFits, AfterRecovery, RendersLess, Owning, Spawning
<1>7. QED
  BY <1>3, <1>4, <1>5, <1>6

(* The executor gives the attempt up, or dies.                             *)
LEMMA YieldKeeps ==
  ASSUME SInv, RendersLess, Yield
  PROVE  ServiceInv'
<1> USE DEF SInv, ServiceInv
<1>1. /\ Fault /\ Idle /\ active # None /\ active' = None /\ permit' = FALSE
      /\ transports' = transports \ Stopped(active) /\ mode' \in {"ready", "parked"}
      /\ UNCHANGED <<intents, duty, asked, call>>
      /\ \E s \in {"pending", "canceled"} : state' = [state EXCEPT ![active.item] = s]
  BY DEF Yield, Requeue
<1>2. faults' \in 0..MaxFaults
  BY <1>1, FaultsAssumption DEF Fault, ExecutorTypeOK
<1>3. ExecutorTypeOK'
  BY <1>1, <1>2, DutyTypes DEF ExecutorTypeOK
<1>4. ModeFits' /\ CallFitsDuty'
  BY <1>1 DEF ModeFits, CallFitsDuty, Idle, Owning, Spawning
<1>5. Running' = {}
  BY <1>1 DEF Running, RunningFits, AfterRecovery, Idle
<1>6. RunningFits'
  BY <1>5 DEF RunningFits
<1>7. \A i \in Items : state'[i] # "rendering"
  <2>1. \A i \in Items : state'[i] = "rendering" => active = Work(i, attempt[i])
    BY <1>1 DEF RenderingFits, AfterRecovery, RendersLess, Idle, Owning, Spawning
  <2>2. \A i \in Items : active = Work(i, attempt[i]) => i = active.item
    BY DEF Work
  <2>3. active.item \in Items => state'[active.item] # "rendering"
    BY <1>1 DEF IInv, ExportTypeOK
  <2>4. QED
    BY <2>1, <2>2, <2>3
<1>8. RenderingFits'
  BY <1>7 DEF RenderingFits, AfterRecovery
<1>9. QED
  BY <1>3, <1>4, <1>6, <1>8

LEMMA CloseKeeps ==
  ASSUME SInv, Close
  PROVE  ServiceInv'
<1> USE DEF SInv, ServiceInv
<1>1. /\ Fault /\ Idle /\ active # None /\ active' = None /\ permit' = FALSE
      /\ mode' = "closed" /\ asked' = FALSE
      /\ transports' = (transports \ Stopped(active)) \cup {ChildOf(active, "failed")}
      /\ UNCHANGED <<vars, intents, duty>>
  BY DEF Close
<1>2. ChildOf(active, "failed") \in [item : Items, attempt : 1..MaxAttempts, child : Children]
        /\ ChildOf(active, "failed").child = "failed"
  BY <1>1, AttemptsAssumption DEF ChildOf, Works, Children, ModeFits, ExecutorTypeOK
<1>3. faults' \in 0..MaxFaults
  BY <1>1, FaultsAssumption DEF Fault, ExecutorTypeOK
<1>4. ExecutorTypeOK'
  BY <1>1, <1>2, <1>3, DutyTypes DEF ExecutorTypeOK
<1>5. ModeFits' /\ CallFitsDuty'
  BY <1>1 DEF ModeFits, CallFitsDuty, Idle, Owning, Spawning, vars
<1>6. RunningFits' /\ RenderingFits'
  BY <1>1, <1>2 DEF RunningFits, RenderingFits, AfterRecovery, Running
<1>7. QED
  BY <1>4, <1>5, <1>6

LEMMA CrashKeeps ==
  ASSUME SInv, Crash
  PROVE  ServiceInv'
<1> USE ExecutorAssumption DEF SInv, ServiceInv
<1>1. /\ Fault /\ active' = None /\ permit' = FALSE /\ mode' = "closed" /\ asked' = FALSE
      /\ intents' = {} /\ duty' = [do |-> "none", work |-> None] /\ UNCHANGED transports
  BY DEF Crash, Rest, Duty
<1>2. call'[Executor].at = "idle"
  BY DEF Crash, Stop, End, NoCall, vars, IInv, ExportTypeOK
<1>3. faults' \in 0..MaxFaults
  BY <1>1, FaultsAssumption DEF Fault, ExecutorTypeOK
<1>4. ExecutorTypeOK'
  <2>1. duty' \in [do : Duties, work : Works]
    BY <1>1, DutyTypes DEF Duties
  <2>2. QED
    BY <1>1, <1>3, <2>1, DutyTypes DEF ExecutorTypeOK
<1>5. ModeFits' /\ CallFitsDuty'
  BY <1>1, <1>2 DEF ModeFits, CallFitsDuty, Owning, Spawning
<1>6. RunningFits' /\ RenderingFits'
  BY <1>1 DEF RunningFits, RenderingFits, AfterRecovery, Running
<1>7. QED
  BY <1>4, <1>5, <1>6

-----------------------------------------------------------------------------
(* The theorems.                                                           *)

LEMMA ServiceInitSInv == ServiceInit => SInv
<1> SUFFICES ASSUME ServiceInit PROVE SInv
  OBVIOUS
<1>1. IInv
  BY InitIInv DEF ServiceInit
<1> USE ExecutorAssumption, FaultsAssumption, ItemsAssumption, AttemptsAssumption DEF ServiceInit
<1>2. ExecutorTypeOK
  <2>1. None \in Works
    BY DEF Works, None, Items
  <2>2. duty \in [do : Duties, work : Works]
    BY <2>1 DEF Duties
  <2>3. permit \in BOOLEAN /\ asked \in BOOLEAN
    OBVIOUS
  <2>4. faults \in 0..MaxFaults
    OBVIOUS
  <2>5. QED
    BY <2>1, <2>2, <2>3, <2>4 DEF ExecutorTypeOK
<1>3. ModeFits /\ CallFitsDuty
  BY DEF ModeFits, CallFitsDuty, Owning, Spawning, Init, NoCall
<1>4. RunningFits /\ RenderingFits
  BY DEF RunningFits, RenderingFits, AfterRecovery, Running
<1>5. QED
  BY <1>1, <1>2, <1>3, <1>4 DEF SInv, ServiceInv

LEMMA ServiceNextSInv ==
  ASSUME SInv, [ServiceNext]_allVars
  PROVE  SInv'
<1>1. IInv'
  BY ServiceImplements, NextIInv DEF SInv
<1> SUFFICES ServiceInv'
  BY <1>1 DEF SInv
<1>2. CASE ServiceNext
  <2>1. CASE TickClaim
    BY <2>1, TickClaimKeeps
  <2>2. CASE Unclaiming
    <3>1. RendersLess
      BY <2>2, UnclaimingRendersLess DEF SInv
    <3>2. CASE Ticking
      BY <3>1, <3>2, TickKeeps, TickClaimKeeps, StagingKeeps, SpawnKeeps, SpawnFailsKeeps, StillSteps,
         PollKeeps, RejectKeeps, StartAcceptKeeps, AcceptedKeeps, StartPublishKeeps,
         CallStepKeeps, PublishedKeeps DEF Ticking
    <3>3. CASE Recovering
      BY <3>1, <3>3, FenceTransportKeeps, StillSteps, RecoveryKeeps DEF Recovering
    <3>4. QED
      BY <1>2, <3>1, <3>2, <3>3, RecoveryKeeps, TickKeeps, ChildEndsKeeps, StillSteps,
         YieldKeeps, CloseKeeps, CrashKeeps DEF ServiceNext
  <2>3. QED
    BY <1>2, <2>1, <2>2, ServiceStep
<1>3. CASE UNCHANGED allVars
  <2>1. RendersLess /\ call'[Executor] = call[Executor]
    BY <1>3 DEF RendersLess, allVars, vars, rowVars
  <2>2. asked' \in BOOLEAN /\ faults' \in 0..MaxFaults
    BY <1>3 DEF SInv, ServiceInv, ExecutorTypeOK, allVars, serviceVars
  <2>3. UNCHANGED <<mode, active, permit, transports, intents, duty>>
    BY <1>3 DEF allVars, serviceVars
  <2>4. QED
    BY <2>1, <2>2, <2>3, StillKeeps
<1>4. QED
  BY <1>2, <1>3

(* SInv is an inductive invariant of the executor.                         *)
THEOREM ServiceInductive == ServiceSpec => []SInv
<1>1. ServiceInit => SInv
  BY ServiceInitSInv
<1>2. SInv /\ [ServiceNext]_allVars => SInv'
  BY ServiceNextSInv
<1>3. QED
  BY <1>1, <1>2, PTL DEF ServiceSpec

(* The executor, its recovery and its crashes change rows and files only   *)
(* as PhotoExports says, so every property proved of PhotoExports holds.   *)
THEOREM ServiceRefinement == ServiceSpec => ImplementsPhotoExports
<1>1. ServiceInit => Init
  BY DEF ServiceInit
<1>2. SInv /\ [ServiceNext]_allVars => [Next]_vars
  BY ServiceImplements
<1>3. QED
  BY <1>1, <1>2, ServiceInductive, PTL DEF ServiceSpec, ImplementsPhotoExports, Spec

(* At most one child renders: ExportWorkerProcess::spawn runs only after   *)
(* the recovery or the reaping of the child before.                        *)
THEOREM OneRendererAlways == ServiceSpec => []OneRenderer
<1>1. SInv => OneRenderer
  <2> SUFFICES ASSUME SInv PROVE OneRenderer
    OBVIOUS
  <2>1. Cardinality(Running) <= 1
    <3>1. CASE Running = {}
      BY <3>1, FS_EmptySet
    <3>2. CASE Running # {}
      <4>1. PICK t \in Running : TRUE
        BY <3>2
      <4>2. Running = {t}
        BY <4>1 DEF SInv, ServiceInv, RunningFits
      <4>3. Cardinality({t}) = 1
        BY FS_Singleton
      <4>4. QED
        BY <4>2, <4>3
    <3>3. QED
      BY <3>1, <3>2
  <2>2. active # None => permit /\ \E t \in transports : t \in Stopped(active)
    BY DEF SInv, ServiceInv, ModeFits, Stopped
  <2>3. QED
    BY <2>1, <2>2 DEF OneRenderer, Running
<1>2. QED
  BY <1>1, ServiceInductive, PTL

(* Between ticks a row in rendering belongs to the attempt the executor    *)
(* owns, after any sequence of crashes, yields and recoveries.             *)
THEOREM RenderingOwnedAlways == ServiceSpec => []RenderingOwned
<1>1. SInv => RenderingOwned
  BY DEF SInv, ServiceInv, RenderingFits, AfterRecovery, RenderingOwned, Idle, Owning, Spawning
<1>2. QED
  BY <1>1, ServiceInductive, PTL
=============================================================================
