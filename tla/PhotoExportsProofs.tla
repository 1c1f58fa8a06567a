------------------------- MODULE PhotoExportsProofs -------------------------
(***************************************************************************)
(* Proofs about PhotoExports for any number of handles, items, attempts    *)
(* and steps of other programs.                                            *)
(*                                                                         *)
(* The inductive invariant joins the types, the counter of the job, what   *)
(* the state of a row says about its seal, its files and its job, and what *)
(* a call that holds operation.lock knows about its item.                  *)
(***************************************************************************)
EXTENDS PhotoExports, FiniteSetTheorems, TLAPS

(* What the state of an item's row says.                                   *)
RowFits(i) ==
  /\ state[i] = "none" <=> i > job.total
  /\ state[i] \in {"none", "pending", "rendering"} => seal[i] = 0
  /\ state[i] = "sealed" => seal[i] # 0
  /\ state[i] = "rendering" => attempt[i] # 0
  /\ state[i] = "canceled" => job.state = "canceled"
  /\ captured[i] # "payload"

RowsFit == \A i \in Items : RowFits(i)

(* An item that was not appended was not claimed.                          *)
NoneUnclaimed == \A i \in Items : state[i] = "none" => tokens[i] = 0

(* Before the job is sealed nothing was claimed or rendered.               *)
BuildingUntouched ==
  job.state = "building" =>
    \A i \in Items : /\ state[i] \in {"none", "pending"}
                     /\ tokens[i] = 0 /\ directory[i] = "absent"

(* A call knows an appended item; with the lock it found a directory, and  *)
(* before the capture it knows what is captured.                           *)
CallFits(h) ==
  LET i == call[h].item
  IN  /\ call[h].at # "idle" => state[i] # "none"
      /\ call[h].at \notin Unlocked => directory[i] # "absent"
      /\ call[h].at = "accepting" => call[h].attempt # 0
      /\ call[h].at \in {"prepared", "intended"} => call[h].captured = captured[i]

CallsFit == \A h \in Handles : CallFits(h)

(* operation.lock: one call works on an item at a time.                    *)
LockHeldOnce ==
  \A g, h \in Handles :
    call[g].at \notin Unlocked /\ call[h].at \notin Unlocked /\ call[g].item = call[h].item
      => g = h

IInv ==
  /\ ExportTypeOK
  /\ CompletedExact
  /\ RowsFit
  /\ NoneUnclaimed
  /\ BuildingUntouched
  /\ CallsFit
  /\ LockHeldOnce
  /\ InstalledAuthorized
  /\ SealOfAttempt
  /\ DisplacedRecoverable

-----------------------------------------------------------------------------
(* The counter.                                                            *)

JobRecords == [state : JobStates, total : 0..MaxItems, completed : 0..MaxItems]

(* CompletedExact for a job record and a set of finished items.            *)
Exact(j, F) ==
  /\ j.state # "canceled" => j.completed = Cardinality(F)
  /\ j.completed <= Cardinality(F) /\ Cardinality(F) <= j.total
  /\ j.state = "complete" => j.completed = j.total
  /\ j.state = "queued" => j.completed < j.total

(* finish_item keeps the counter exact when an item of the job finishes    *)
(* that was not counted before, and ends only a queued job.                *)
LEMMA FinishKeeps ==
  ASSUME NEW j \in JobRecords, NEW F \in SUBSET (1..j.total), Exact(j, F),
         NEW i \in (1..j.total) \ F
  PROVE  /\ Finish(j) \in JobRecords
         /\ Finish(j).total = j.total
         /\ j.state # "queued" => Finish(j).state = j.state
         /\ j.state = "queued" => Finish(j).state \in {"queued", "complete"}
         /\ j.state # "complete"
         /\ Exact(Finish(j), F \cup {i})
<1> USE ItemsAssumption DEF JobRecords, JobStates
<1>1. IsFiniteSet(1..j.total) /\ Cardinality(1..j.total) = j.total
  BY FS_Interval
<1>2. IsFiniteSet(F) /\ Cardinality(F) \in Nat
  BY <1>1, FS_Subset, FS_CardinalityType
<1>3. Cardinality(F \cup {i}) = Cardinality(F) + 1
  BY <1>2, FS_AddElement
<1>4. F \cup {i} \in SUBSET (1..j.total)
  OBVIOUS
<1>5. Cardinality(F) + 1 <= j.total
  <2>1. Cardinality(F \cup {i}) <= Cardinality(1..j.total)
    BY <1>1, <1>4, FS_Subset, Zenon
  <2>2. QED
    BY <1>1, <1>3, <2>1
<1>6. j.state # "complete"
  BY <1>2, <1>5 DEF Exact
<1> DEFINE last == j.state = "queued" /\ j.completed + 1 = j.total
           then == [state |-> IF last THEN "complete" ELSE j.state,
                    total |-> j.total, completed |-> j.completed + 1]
<1>7. Finish(j) = then
  BY DEF Finish
<1>8. then \in JobRecords
  BY <1>2, <1>5 DEF Exact
<1>9. Exact(Finish(j), F \cup {i})
  BY <1>2, <1>3, <1>5, <1>6, <1>7 DEF Exact
<1>10. QED
  BY <1>6, <1>7, <1>8, <1>9

(* retry_sealed_photo_export takes one item back.                          *)
LEMMA RetryKeeps ==
  ASSUME NEW j \in JobRecords, NEW F \in SUBSET (1..j.total), Exact(j, F),
         j.state \in {"queued", "complete"}, NEW i \in F
  PROVE  LET k == [j EXCEPT !.state = "queued", !.completed = @ - 1]
         IN  /\ k \in JobRecords /\ k.total = j.total /\ k.state = "queued"
             /\ Exact(k, F \ {i})
<1> USE ItemsAssumption DEF JobRecords, JobStates
<1>1. IsFiniteSet(1..j.total) /\ Cardinality(1..j.total) = j.total
  BY FS_Interval
<1>2. IsFiniteSet(F) /\ Cardinality(F) \in Nat
  BY <1>1, FS_Subset, FS_CardinalityType
<1>3. Cardinality(F \ {i}) = Cardinality(F) - 1 /\ Cardinality(F) # 0
  BY <1>2, FS_RemoveElement, FS_EmptySet
<1> DEFINE k == [j EXCEPT !.state = "queued", !.completed = @ - 1]
           then == [state |-> "queued", total |-> j.total, completed |-> j.completed - 1]
           half == [j EXCEPT !.state = "queued"]
<1>4. k = then
  <2>1. half = [state |-> "queued", total |-> j.total, completed |-> j.completed]
    OBVIOUS
  <2> HIDE DEF half
  <2>2. [half EXCEPT !.completed = j.completed - 1] = then
    BY <2>1
  <2>3. QED
    BY <2>2, Zenon DEF half
<1>5. then \in JobRecords
  BY <1>2, <1>3 DEF Exact
<1>6. Exact(then, F \ {i})
  BY <1>2, <1>3 DEF Exact
<1> HIDE DEF then
<1>7. QED
  BY <1>4, <1>5, <1>6 DEF then

(* An item of a canceled job may finish without being counted.             *)
LEMMA UncountedKeeps ==
  ASSUME NEW j \in JobRecords, NEW F \in SUBSET (1..j.total), Exact(j, F),
         j.state = "canceled", NEW i \in 1..j.total
  PROVE  Exact(j, F \cup {i})
<1> USE ItemsAssumption DEF JobRecords, JobStates
<1>1. IsFiniteSet(1..j.total) /\ Cardinality(1..j.total) = j.total
  BY FS_Interval
<1>2. IsFiniteSet(F) /\ Cardinality(F) \in Nat
  BY <1>1, FS_Subset, FS_CardinalityType
<1>3. /\ Cardinality(F \cup {i}) \in Nat
      /\ Cardinality(F) <= Cardinality(F \cup {i})
  BY <1>2, FS_AddElement
<1>4. Cardinality(F \cup {i}) <= j.total
  <2>1. F \cup {i} \in SUBSET (1..j.total)
    OBVIOUS
  <2>2. Cardinality(F \cup {i}) <= Cardinality(1..j.total)
    BY <1>1, <2>1, FS_Subset, Zenon
  <2>3. QED
    BY <1>1, <2>2
<1>5. QED
  BY <1>2, <1>3, <1>4 DEF Exact

-----------------------------------------------------------------------------
(* Every action keeps the invariant.                                       *)

LEMMA Counting ==
  ASSUME ExportTypeOK, RowsFit
  PROVE  Finished \in SUBSET (1..job.total)
BY ItemsAssumption DEF ExportTypeOK, RowsFit, RowFits, Finished, Items, JobStates, ItemStates

LEMMA InitIInv == Init => IInv
<1> SUFFICES ASSUME Init PROVE IInv
  OBVIOUS
<1> USE ItemsAssumption, AttemptsAssumption, OutsideAssumption DEF Init
<1>1. ExportTypeOK
  BY DEF ExportTypeOK, JobStates, ItemStates, Files, Calls, Places, Intents, NoCall, Items
<1>2. CompletedExact
  <2>1. Finished = {}
    BY DEF Finished
  <2>2. QED
    BY <2>1, FS_EmptySet DEF CompletedExact
<1>3. RowsFit /\ NoneUnclaimed /\ BuildingUntouched
  BY DEF RowsFit, RowFits, NoneUnclaimed, BuildingUntouched, Items
<1>4. CallsFit /\ LockHeldOnce
  BY DEF CallsFit, CallFits, LockHeldOnce, NoCall, Unlocked
<1>5. InstalledAuthorized /\ SealOfAttempt /\ DisplacedRecoverable
  BY DEF InstalledAuthorized, SealOfAttempt, DisplacedRecoverable
<1>6. QED
  BY <1>1, <1>2, <1>3, <1>4, <1>5 DEF IInv

(* What a call may become, as far as types go.                             *)
LEMMA CallTypes ==
  ASSUME ExportTypeOK, NEW h \in Handles
  PROVE  /\ End(h) => call' \in [Handles -> Calls]
         /\ \A place \in Places : Go(h, place) => call' \in [Handles -> Calls]
         /\ \A place \in Places : Verified(h, place) => call' \in [Handles -> Calls]
         /\ \A place \in Places, i \in Items, a \in 0..MaxAttempts, known \in Intents :
              Enter(h, place, i, a, known) => call' \in [Handles -> Calls]
<1> USE ItemsAssumption, AttemptsAssumption
<1>1. call \in [Handles -> Calls]
  BY DEF ExportTypeOK
<1>2. End(h) => call' \in [Handles -> Calls]
  <2>1. NoCall \in Calls
    BY DEF NoCall, Calls, Places, Intents, Files, Items
  <2>2. QED
    BY <1>1, <2>1 DEF End
<1>3. \A place \in Places : Go(h, place) => call' \in [Handles -> Calls]
  BY <1>1 DEF Go, Calls
<1>4. ASSUME NEW place \in Places, Verified(h, place)
      PROVE  call' \in [Handles -> Calls]
  <2>1. call[h].item \in Items
    BY <1>1 DEF Calls
  <2>2. dest[call[h].item] \in Files /\ captured[call[h].item] \in Files
    BY <2>1 DEF ExportTypeOK
  <2>3. QED
    BY <1>1, <1>4, <2>2 DEF Verified, Calls
<1>5. ASSUME NEW place \in Places, NEW i \in Items, NEW a \in 0..MaxAttempts,
             NEW known \in Intents, Enter(h, place, i, a, known)
      PROVE  call' \in [Handles -> Calls]
  <2> DEFINE c == [NoCall EXCEPT !.at = place, !.item = i, !.attempt = a, !.intent = known]
  <2>1. c \in Calls
    BY DEF NoCall, Calls, Files
  <2>2. call' = [call EXCEPT ![h] = c]
    BY <1>5 DEF Enter
  <2>3. QED
    BY <1>1, <2>1, <2>2
<1>6. QED
  BY <1>2, <1>3, <1>4, <1>5

(* A step that moves only calls.                                           *)
LEMMA QuietKeeps ==
  ASSUME IInv, UNCHANGED <<job, rowVars, diskVars, stale, outside>>,
         call' \in [Handles -> Calls], CallsFit', LockHeldOnce'
  PROVE  IInv'
<1> USE DEF IInv, rowVars, diskVars
<1>1. ExportTypeOK'
  BY DEF ExportTypeOK
<1>2. CompletedExact'
  BY DEF CompletedExact, Finished
<1>3. RowsFit' /\ NoneUnclaimed' /\ BuildingUntouched'
  BY DEF RowsFit, RowFits, NoneUnclaimed, BuildingUntouched
<1>4. InstalledAuthorized' /\ SealOfAttempt' /\ DisplacedRecoverable'
  BY DEF InstalledAuthorized, SealOfAttempt, DisplacedRecoverable
<1>5. QED
  BY <1>1, <1>2, <1>3, <1>4

(* A call that holds the lock goes on to a place that knows nothing new.   *)
LEMMA GoKeeps ==
  ASSUME IInv, UNCHANGED <<job, rowVars, diskVars, stale, outside>>,
         NEW h \in Handles, NEW place \in Places, Go(h, place), call[h].at \notin Unlocked,
         place \notin {"accepting", "prepared", "intended"}
  PROVE  IInv'
<1>1. call' \in [Handles -> Calls]
  BY CallTypes DEF IInv
<1>2. CallsFit' /\ LockHeldOnce'
  BY DEF IInv, ExportTypeOK, CallsFit, CallFits, LockHeldOnce, Calls, Unlocked, Go,
         rowVars, diskVars
<1>3. QED
  BY <1>1, <1>2, QuietKeeps

LEMMA StopKeeps ==
  ASSUME IInv, NEW h \in Handles, Stop(h)
  PROVE  IInv'
<1>1. call' \in [Handles -> Calls]
  BY CallTypes DEF IInv, Stop
<1>2. CallsFit' /\ LockHeldOnce'
  BY DEF IInv, ExportTypeOK, CallsFit, CallFits, LockHeldOnce, Calls, Unlocked, Stop, End,
         NoCall, rowVars, diskVars
<1>3. QED
  BY <1>1, <1>2, QuietKeeps DEF Stop

(* A new call takes the lock only when nobody has it.                      *)
LEMMA EnterKeeps ==
  ASSUME IInv, UNCHANGED <<job, rowVars, diskVars, stale, outside>>,
         NEW h \in Handles, NEW place \in Places, NEW i \in Items, NEW a \in 0..MaxAttempts,
         NEW known \in Intents, Enter(h, place, i, a, known),
         state[i] # "none", place \in {"reading", "restoring", "accepting"},
         place = "accepting" => a # 0 /\ directory[i] # "absent" /\ ~Locked(i)
  PROVE  IInv'
<1>1. call' \in [Handles -> Calls]
  BY CallTypes DEF IInv
<1> DEFINE c == [NoCall EXCEPT !.at = place, !.item = i, !.attempt = a, !.intent = known]
<1>2. c.at = place /\ c.item = i /\ c.attempt = a
  BY DEF NoCall
<1>3. \A g \in Handles : call'[g] = IF g = h THEN c ELSE call[g]
  BY DEF Enter, IInv, ExportTypeOK
<1> HIDE DEF c
<1>4. CallsFit'
  BY <1>2, <1>3 DEF IInv, CallsFit, CallFits, Unlocked, rowVars, diskVars
<1>5. LockHeldOnce'
  BY <1>2, <1>3 DEF IInv, LockHeldOnce, Locked, Unlocked
<1>6. QED
  BY <1>1, <1>4, <1>5, QuietKeeps

LEMMA AcceptPrepareKeeps ==
  ASSUME IInv, NEW h \in Handles, NEW i \in Items, NEW a \in 1..MaxAttempts,
         AcceptPrepare(h, i, a)
  PROVE  IInv'
<1> USE AttemptsAssumption
<1>1. tokens[i] # 0
  BY DEF AcceptPrepare, IInv, ExportTypeOK
<1>2. state[i] # "none"
  BY <1>1 DEF AcceptPrepare, IInv, RowsFit, RowFits, BuildingUntouched, NoneUnclaimed
<1>3. "accepting" \in Places /\ "none" \in Intents /\ a \in 0..MaxAttempts /\ a # 0
  BY DEF Places, Intents
<1>4. QED
  BY <1>2, <1>3, EnterKeeps DEF AcceptPrepare

LEMMA PublishReadKeeps ==
  ASSUME IInv, NEW h \in Handles, NEW i \in Items, PublishRead(h, i)
  PROVE  IInv'
<1>1. "reading" \in Places /\ (IF intent[i] THEN "stored" ELSE "own") \in Intents
  BY DEF Places, Intents
<1>2. QED
  BY <1>1, AttemptsAssumption, EnterKeeps DEF PublishRead, Publishable

LEMMA RestoreReadKeeps ==
  ASSUME IInv, NEW h \in Handles, NEW i \in Items, RestoreRead(h, i)
  PROVE  IInv'
<1>1. "restoring" \in Places /\ (IF intent[i] THEN "stored" ELSE "none") \in Intents
  BY DEF Places, Intents
<1>2. QED
  BY <1>1, AttemptsAssumption, EnterKeeps DEF RestoreRead

(* The lock is taken and the item verified.                                *)
LEMMA VerifiedKeeps ==
  ASSUME IInv, UNCHANGED <<job, rowVars, diskVars, stale, outside>>,
         NEW h \in Handles, NEW place \in Places, place \notin {"idle", "accepting"},
         Verified(h, place), call[h].at # "idle", directory[call[h].item] # "absent"
  PROVE  IInv'
<1>1. call' \in [Handles -> Calls]
  BY CallTypes DEF IInv
<1>2. CallsFit' /\ LockHeldOnce'
  BY DEF IInv, ExportTypeOK, CallsFit, CallFits, LockHeldOnce, Calls, Unlocked, Locked,
         Verified, rowVars, diskVars
<1>3. QED
  BY <1>1, <1>2, QuietKeeps

LEMMA PublishPrepareKeeps ==
  ASSUME IInv, NEW h \in Handles, PublishPrepare(h)
  PROVE  IInv'
<1>1. (IF Installed(call[h].item) THEN "installed" ELSE "prepared")
        \in Places \ {"idle", "accepting"}
  BY DEF Places
<1>2. QED
  BY <1>1, VerifiedKeeps DEF PublishPrepare

LEMMA RestorePrepareKeeps ==
  ASSUME IInv, NEW h \in Handles, RestorePrepare(h)
  PROVE  IInv'
<1>1. (IF Installed(call[h].item) THEN "installed" ELSE "retained")
        \in Places \ {"idle", "accepting"}
  BY DEF Places
<1>2. QED
  BY <1>1, VerifiedKeeps DEF RestorePrepare

LEMMA RefusalsKeep ==
  ASSUME IInv, NEW h \in Handles,
         CaptureRefused(h) \/ LinkRefused(h) \/ VerifyInstalled(h) \/ RestoreRefused(h)
           \/ VerifyRestored(h)
  PROVE  IInv'
<1>1. /\ call[h].at \notin Unlocked
      /\ UNCHANGED <<job, rowVars, diskVars, stale, outside>>
      /\ \E place \in {"failing", "verified", "restored", "unrestored"} : Go(h, place)
  BY DEF CaptureRefused, LinkRefused, VerifyInstalled, RestoreRefused, VerifyRestored,
     Unlocked
<1>2. QED
  BY <1>1, GoKeeps DEF Places

LEMMA VerifyCaptureKeeps ==
  ASSUME IInv, NEW h \in Handles, VerifyCapture(h)
  PROVE  IInv'
<1>1. call \in [Handles -> Calls] /\ "checked" \in Places
  BY DEF IInv, ExportTypeOK, Places
<1>2. call' \in [Handles -> Calls]
  <2>1. call[h].item \in Items
    BY <1>1 DEF Calls
  <2>2. captured[call[h].item] \in Files
    BY <2>1 DEF IInv, ExportTypeOK
  <2>3. QED
    BY <1>1, <2>2 DEF VerifyCapture, Calls
<1>3. CallsFit' /\ LockHeldOnce'
  BY DEF IInv, ExportTypeOK, CallsFit, CallFits, LockHeldOnce, Calls, Unlocked,
         VerifyCapture, rowVars, diskVars
<1>4. QED
  BY <1>2, <1>3, QuietKeeps DEF VerifyCapture

(* A row that changes while no call does.                                  *)
LEMMA AppendKeeps ==
  ASSUME IInv, Append
  PROVE  IInv'
<1> USE ItemsAssumption DEF IInv, Append, rowVars, diskVars
<1>1. job' \in JobRecords /\ job'.total = job.total + 1 /\ job'.state = "building"
         /\ job'.completed = job.completed
  BY DEF ExportTypeOK, JobRecords, JobStates
<1>2. job.total + 1 \in Items
  BY DEF ExportTypeOK, Items
<1>3. ExportTypeOK'
  BY <1>1, <1>2 DEF ExportTypeOK, JobRecords, ItemStates
<1>4. CompletedExact'
  <2>1. Finished' = {} /\ Finished = {}
    BY <1>2 DEF Finished, BuildingUntouched, ExportTypeOK
  <2>2. QED
    BY <1>1, <2>1, FS_EmptySet DEF CompletedExact, ExportTypeOK
<1>5. RowsFit' /\ NoneUnclaimed' /\ BuildingUntouched'
  BY <1>1, <1>2 DEF ExportTypeOK, RowsFit, RowFits, NoneUnclaimed, BuildingUntouched, Items
<1>6. CallsFit' /\ LockHeldOnce'
  BY DEF ExportTypeOK, CallsFit, CallFits, LockHeldOnce, Calls, Unlocked
<1>7. InstalledAuthorized' /\ SealOfAttempt' /\ DisplacedRecoverable'
  BY DEF ExportTypeOK, InstalledAuthorized, SealOfAttempt, DisplacedRecoverable,
     BuildingUntouched, Publishable
<1>8. QED
  BY <1>3, <1>4, <1>5, <1>6, <1>7

LEMMA SealJobKeeps ==
  ASSUME IInv, SealJob
  PROVE  IInv'
<1> USE ItemsAssumption DEF IInv, SealJob, rowVars, diskVars
<1>1. job' \in JobRecords /\ job'.total = job.total /\ job'.state = "queued"
         /\ job'.completed = job.completed
  BY DEF ExportTypeOK, JobRecords, JobStates
<1>2. ExportTypeOK'
  BY <1>1 DEF ExportTypeOK, JobRecords
<1>3. CompletedExact'
  <2>1. Finished' = {} /\ Finished = {}
    BY DEF Finished, BuildingUntouched
  <2>2. QED
    BY <1>1, <2>1, FS_EmptySet DEF CompletedExact, ExportTypeOK
<1>4. RowsFit' /\ NoneUnclaimed' /\ BuildingUntouched'
  BY <1>1 DEF RowsFit, RowFits, NoneUnclaimed, BuildingUntouched
<1>5. CallsFit' /\ LockHeldOnce' /\ InstalledAuthorized' /\ SealOfAttempt'
        /\ DisplacedRecoverable'
  BY DEF CallsFit, CallFits, LockHeldOnce, InstalledAuthorized, SealOfAttempt,
     DisplacedRecoverable
<1>6. QED
  BY <1>2, <1>3, <1>4, <1>5

LEMMA ClaimKeeps ==
  ASSUME IInv, Claim
  PROVE  IInv'
<1> USE ItemsAssumption, AttemptsAssumption DEF IInv, rowVars, diskVars
<1>1. PICK i \in Items :
        /\ state[i] = "pending" /\ tokens[i] < MaxAttempts
        /\ tokens' = [tokens EXCEPT ![i] = @ + 1]
        /\ attempt' = [attempt EXCEPT ![i] = tokens[i] + 1]
        /\ state' = [state EXCEPT ![i] = "rendering"]
  BY DEF Claim
<1>2. /\ job.state = "queued"
      /\ UNCHANGED <<job, seal, intent, expected, diskVars, stale, call, outside>>
  BY DEF Claim
<1>3. ExportTypeOK'
  BY <1>1, <1>2 DEF ExportTypeOK, ItemStates
<1>4. CompletedExact'
  <2>1. Finished' = Finished
    BY <1>1 DEF Finished, ExportTypeOK
  <2>2. QED
    BY <1>2, <2>1 DEF CompletedExact
<1>5. RowsFit' /\ NoneUnclaimed' /\ BuildingUntouched'
  BY <1>1, <1>2 DEF ExportTypeOK, RowsFit, RowFits, NoneUnclaimed, BuildingUntouched
<1>6. CallsFit' /\ LockHeldOnce'
  BY <1>1, <1>2 DEF ExportTypeOK, CallsFit, CallFits, LockHeldOnce, Calls, Unlocked
<1>7. InstalledAuthorized' /\ SealOfAttempt' /\ DisplacedRecoverable'
  BY <1>1, <1>2 DEF ExportTypeOK, InstalledAuthorized, SealOfAttempt, DisplacedRecoverable,
     RowsFit, RowFits,
                    Publishable
<1>8. QED
  BY <1>3, <1>4, <1>5, <1>6, <1>7

LEMMA SealDirectoryKeeps ==
  ASSUME IInv, NEW i \in Items, SealDirectory(i)
  PROVE  IInv'
<1> USE DEF IInv, SealDirectory, rowVars, diskVars
<1>1. ExportTypeOK'
  BY DEF ExportTypeOK
<1>2. CompletedExact'
  BY DEF CompletedExact, Finished
<1>3. RowsFit' /\ NoneUnclaimed' /\ BuildingUntouched'
  BY DEF ExportTypeOK, RowsFit, RowFits, NoneUnclaimed, BuildingUntouched
<1>4. CallsFit' /\ LockHeldOnce'
  BY DEF ExportTypeOK, CallsFit, CallFits, LockHeldOnce, Calls, Unlocked
<1>5. InstalledAuthorized' /\ SealOfAttempt' /\ DisplacedRecoverable'
  BY DEF InstalledAuthorized, SealOfAttempt, DisplacedRecoverable
<1>6. QED
  BY <1>1, <1>2, <1>3, <1>4, <1>5

(* An item of the job that has not finished can be counted: the job is     *)
(* not complete, and finish_item counts it.                                *)
LEMMA Unfinished ==
  ASSUME IInv, NEW i \in Items, state[i] # "none", i \notin Finished
  PROVE  /\ job.state # "complete"
         /\ Finish(job) \in JobRecords /\ Finish(job).total = job.total
         /\ job.state # "queued" => Finish(job).state = job.state
         /\ job.state = "queued" => Finish(job).state \in {"queued", "complete"}
         /\ Exact(Finish(job), Finished \cup {i})
<1>1. job \in JobRecords /\ Exact(job, Finished)
  BY DEF IInv, ExportTypeOK, CompletedExact, JobRecords, Exact
<1>2. Finished \in SUBSET (1..job.total)
  BY Counting DEF IInv
<1>3. i \in (1..job.total) \ Finished
  BY ItemsAssumption DEF IInv, ExportTypeOK, RowsFit, RowFits, Items
<1>4. QED
  BY <1>1, <1>2, <1>3, FinishKeeps

LEMMA FinishStep ==
  ASSUME IInv, NEW i \in Items, state[i] # "none", i \notin Finished,
         NEW s \in {"published", "failed", "restored"},
         state' = [state EXCEPT ![i] = s], job' = Finish(job)
  PROVE  /\ job' \in JobRecords /\ job'.total = job.total
         /\ job'.state = "canceled" <=> job.state = "canceled"
         /\ job'.state = "building" <=> job.state = "building"
         /\ state' \in [Items -> ItemStates]
         /\ CompletedExact'
<1>1. Finished' = Finished \cup {i}
  BY DEF Finished, IInv, ExportTypeOK
<1>2. Exact(job', Finished')
  BY <1>1, Unfinished
<1>3. CompletedExact'
  BY <1>2 DEF CompletedExact, Exact
<1>4. state' \in [Items -> ItemStates]
  BY DEF IInv, ExportTypeOK, ItemStates
<1>5. QED
  BY <1>3, <1>4, Unfinished

(* A step that leaves the finished items and the job as they are.          *)
LEMMA SameCount ==
  ASSUME CompletedExact, Finished' = Finished, job' = job
  PROVE  CompletedExact'
BY DEF CompletedExact

LEMMA RequeueKeeps ==
  ASSUME IInv, NEW i \in Items, NEW a \in 1..MaxAttempts, Requeue(i, a)
  PROVE  IInv'
<1> USE AttemptsAssumption DEF IInv, Requeue, Owned, rowVars, diskVars
<1>1. i \notin Finished /\ state[i] # "none"
  BY DEF Finished
<1>2. job.state \in {"queued", "canceled"}
  <2>1. job.state # "complete"
    BY <1>1, Unfinished
  <2>2. job.state # "building"
    BY DEF BuildingUntouched
  <2>3. QED
    BY <2>1, <2>2 DEF ExportTypeOK, JobStates
<1>3. ExportTypeOK'
  BY DEF ExportTypeOK, ItemStates
<1>4. CompletedExact'
  <2>1. Finished' = Finished
    BY DEF Finished, ExportTypeOK
  <2>2. QED
    BY <2>1, SameCount
<1>5. RowsFit' /\ NoneUnclaimed' /\ BuildingUntouched'
  BY <1>2 DEF ExportTypeOK, RowsFit, RowFits, NoneUnclaimed, BuildingUntouched
<1>6. CallsFit' /\ LockHeldOnce'
  BY DEF ExportTypeOK, CallsFit, CallFits, LockHeldOnce, Calls, Unlocked
<1>7. InstalledAuthorized' /\ SealOfAttempt' /\ DisplacedRecoverable'
  BY DEF ExportTypeOK, InstalledAuthorized, SealOfAttempt, DisplacedRecoverable, RowsFit,
     RowFits, Publishable
<1>8. QED
  BY <1>3, <1>4, <1>5, <1>6, <1>7

(* No file goes to a destination or the recovery directory; another        *)
(* program may take a payload away.                                        *)
SameFiles ==
  /\ UNCHANGED <<directory, captured>>
  /\ dest' \in [Items -> Files] /\ outside' \in 0..MaxOutside
  /\ \A j \in Items : dest'[j] = "payload" => dest[j] = "payload"

LEMMA FilesStay ==
  ASSUME ExportTypeOK, UNCHANGED <<diskVars, outside>>
  PROVE  SameFiles
BY DEF ExportTypeOK, SameFiles, diskVars

(* A row becomes published, failed or restored and is counted if it was    *)
(* not before; only a canceled job leaves one uncounted.                   *)
LEMMA FinishedRowKeeps ==
  ASSUME IInv, NEW i \in Items, state[i] # "none", job.state # "building",
         NEW s \in {"published", "failed", "restored"}, state' = [state EXCEPT ![i] = s],
         \/ i \notin Finished /\ job' = Finish(job)
         \/ i \in Finished /\ job' = job
         \/ job.state = "canceled" /\ job' = job,
         state[i] \in {"none", "pending", "rendering"} => s # "published",
         dest[i] = "payload" => s # "restored",
         s = "published" /\ expected[i] => captured[i] = "planned",
         UNCHANGED <<attempt, seal, intent, tokens, expected, stale>>, SameFiles,
         call' \in [Handles -> Calls], CallsFit', LockHeldOnce'
  PROVE  IInv'
<1> USE DEF IInv, SameFiles
<1>1. /\ job' \in JobRecords /\ job'.total = job.total
      /\ job'.state = "canceled" <=> job.state = "canceled"
      /\ job'.state # "building"
      /\ state' \in [Items -> ItemStates]
      /\ CompletedExact'
  <2>1. CASE i \notin Finished /\ job' = Finish(job)
    BY <2>1, FinishStep
  <2>2. job \in JobRecords /\ state' \in [Items -> ItemStates]
    BY DEF ExportTypeOK, JobRecords, ItemStates
  <2>3. Finished' = Finished \cup {i}
    BY DEF Finished, ExportTypeOK
  <2>4. CASE i \in Finished /\ job' = job
    <3>1. Finished' = Finished
      BY <2>3, <2>4
    <3>2. QED
      BY <2>2, <2>4, <3>1, SameCount
  <2>5. CASE job.state = "canceled" /\ job' = job
    <3>1. Exact(job, Finished) /\ Finished \in SUBSET (1..job.total)
      BY Counting DEF CompletedExact, Exact
    <3>2. i \in 1..job.total
      BY ItemsAssumption DEF ExportTypeOK, RowsFit, RowFits, Items
    <3>3. Exact(job, Finished \cup {i})
      BY <2>2, <2>5, <3>1, <3>2, UncountedKeeps
    <3>4. CompletedExact'
      BY <2>3, <2>5, <3>3 DEF CompletedExact, Exact
    <3>5. QED
      BY <2>2, <2>5, <3>4
  <2>6. QED
    BY <2>1, <2>4, <2>5
<1>2. ExportTypeOK'
  BY <1>1 DEF ExportTypeOK, JobRecords
<1>3. RowsFit' /\ NoneUnclaimed' /\ BuildingUntouched'
  BY <1>1 DEF ExportTypeOK, RowsFit, RowFits, NoneUnclaimed, BuildingUntouched
<1>4. InstalledAuthorized' /\ SealOfAttempt' /\ DisplacedRecoverable'
  BY DEF ExportTypeOK, InstalledAuthorized, SealOfAttempt, DisplacedRecoverable, Publishable
<1>5. QED
  BY <1>1, <1>2, <1>3, <1>4

LEMMA FailKeeps ==
  ASSUME IInv, NEW i \in Items,
         FailSealed(i) \/ \E a \in 1..MaxAttempts : FailRender(i, a)
  PROVE  IInv'
<1>1. /\ state[i] \in {"rendering", "sealed"}
      /\ state' = [state EXCEPT ![i] = "failed"] /\ job' = Finish(job)
      /\ UNCHANGED <<attempt, seal, intent, tokens, expected, diskVars, stale, call, outside>>
  BY DEF FailSealed, FailRender, Owned
<1>2. i \notin Finished /\ job.state # "building"
  BY <1>1 DEF Finished, IInv, BuildingUntouched
<1>3. call' \in [Handles -> Calls] /\ CallsFit' /\ LockHeldOnce'
  BY <1>1 DEF IInv, ExportTypeOK, CallsFit, CallFits, LockHeldOnce, Calls, Unlocked, diskVars
<1>4. SameFiles
  BY <1>1, FilesStay DEF IInv
<1>5. QED
  BY <1>1, <1>2, <1>3, <1>4, FinishedRowKeeps

LEMMA RetrySealedKeeps ==
  ASSUME IInv, NEW i \in Items, RetrySealed(i)
  PROVE  IInv'
<1> USE DEF IInv, diskVars
<1> DEFINE k == [job EXCEPT !.state = "queued", !.completed = @ - 1]
<1>1. /\ job.state \in {"queued", "complete"} /\ state[i] = "failed" /\ seal[i] # 0
      /\ state' = [state EXCEPT ![i] = "sealed"]
      /\ UNCHANGED <<attempt, seal, intent, tokens, expected, diskVars, stale, call, outside>>
  BY DEF RetrySealed
<1>2. job' = k
  BY DEF RetrySealed
<1>3. k \in JobRecords /\ k.total = job.total /\ k.state = "queued" /\ Exact(k, Finished \ {i})
  <2>1. job \in JobRecords /\ Exact(job, Finished)
    BY DEF ExportTypeOK, CompletedExact, JobRecords, Exact
  <2>2. Finished \in SUBSET (1..job.total) /\ i \in Finished
    BY <1>1, Counting DEF Finished
  <2> HIDE DEF k
  <2>3. QED
    BY <1>1, <2>1, <2>2, RetryKeeps, Zenon DEF k
<1> HIDE DEF k
<1>4. ExportTypeOK'
  BY <1>1, <1>2, <1>3 DEF ExportTypeOK, JobRecords, ItemStates
<1>5. CompletedExact'
  <2>1. Finished' = Finished \ {i}
    BY <1>1 DEF Finished, ExportTypeOK
  <2>2. QED
    BY <1>2, <1>3, <2>1 DEF CompletedExact, Exact
<1>6. RowsFit' /\ NoneUnclaimed' /\ BuildingUntouched'
  BY <1>1, <1>2, <1>3 DEF ExportTypeOK, RowsFit, RowFits, NoneUnclaimed, BuildingUntouched
<1>7. CallsFit' /\ LockHeldOnce'
  BY <1>1 DEF ExportTypeOK, CallsFit, CallFits, LockHeldOnce, Calls, Unlocked
<1>8. InstalledAuthorized' /\ SealOfAttempt' /\ DisplacedRecoverable'
  BY <1>1 DEF ExportTypeOK, InstalledAuthorized, SealOfAttempt, DisplacedRecoverable,
     Publishable
<1>9. QED
  BY <1>4, <1>5, <1>6, <1>7, <1>8

LEMMA CancelKeeps ==
  ASSUME IInv, Cancel
  PROVE  IInv'
<1> USE DEF IInv, Cancel, diskVars
<1>1. job' \in JobRecords /\ job'.total = job.total /\ job'.state = "canceled"
         /\ job'.completed = job.completed
  BY DEF ExportTypeOK, JobRecords, JobStates
<1>2. ExportTypeOK'
  BY <1>1 DEF ExportTypeOK, JobRecords, ItemStates
<1>3. CompletedExact'
  <2>1. Finished' = Finished
    BY DEF Finished
  <2>2. QED
    BY <1>1, <2>1 DEF CompletedExact
<1>4. RowsFit' /\ NoneUnclaimed' /\ BuildingUntouched'
  BY <1>1 DEF RowsFit, RowFits, NoneUnclaimed, BuildingUntouched
<1>5. CallsFit' /\ LockHeldOnce'
  BY DEF ExportTypeOK, CallsFit, CallFits, LockHeldOnce, Calls, Unlocked
<1>6. InstalledAuthorized' /\ SealOfAttempt' /\ DisplacedRecoverable'
  BY DEF InstalledAuthorized, SealOfAttempt, DisplacedRecoverable, Publishable
<1>7. QED
  BY <1>2, <1>3, <1>4, <1>5, <1>6

(* Other programs change files and edits, never rows or calls.             *)
LEMMA WorldKeeps ==
  ASSUME IInv, NEW i \in Items, Touch(i) \/ Damage(i) \/ Edit(i)
  PROVE  IInv'
<1> USE OutsideAssumption DEF IInv, Outside, rowVars, diskVars
<1>1. /\ UNCHANGED <<job, rowVars, captured, call>>
      /\ directory' \in [Items -> {"absent", "good", "damaged"}]
      /\ dest' \in [Items -> Files] /\ stale' \subseteq Items /\ outside' \in 0..MaxOutside
      /\ \A j \in Items : dest'[j] = "payload" => dest[j] = "payload"
      /\ \A j \in Items : directory'[j] = "absent" <=> directory[j] = "absent"
  <2>1. CASE Touch(i)
    <3>1. PICK file \in {"absent", "foreign"} : dest' = [dest EXCEPT ![i] = file]
      BY <2>1 DEF Touch
    <3>2. QED
      BY <2>1, <3>1 DEF Touch, ExportTypeOK, Files
  <2>2. CASE Damage(i)
    BY <2>2 DEF Damage, ExportTypeOK
  <2>3. CASE Edit(i)
    BY <2>3 DEF Edit, ExportTypeOK
  <2>4. QED
    BY <2>1, <2>2, <2>3
<1>2. ExportTypeOK'
  BY <1>1 DEF ExportTypeOK
<1>3. CompletedExact'
  BY <1>1 DEF CompletedExact, Finished
<1>4. RowsFit' /\ NoneUnclaimed' /\ BuildingUntouched'
  BY <1>1 DEF RowsFit, RowFits, NoneUnclaimed, BuildingUntouched
<1>5. CallsFit' /\ LockHeldOnce'
  BY <1>1 DEF ExportTypeOK, CallsFit, CallFits, LockHeldOnce, Calls
<1>6. InstalledAuthorized' /\ SealOfAttempt' /\ DisplacedRecoverable'
  BY <1>1 DEF InstalledAuthorized, SealOfAttempt, DisplacedRecoverable
<1>7. QED
  BY <1>2, <1>3, <1>4, <1>5, <1>6

-----------------------------------------------------------------------------
(* The transactions of the calls.                                          *)

(* A transaction that ends the call and writes the row.                    *)
LEMMA EndKeepsCalls ==
  ASSUME IInv, NEW h \in Handles, End(h), UNCHANGED <<directory, captured>>,
         \A i \in Items : state'[i] = "none" => state[i] = "none"
  PROVE  call' \in [Handles -> Calls] /\ CallsFit' /\ LockHeldOnce'
<1>1. call' \in [Handles -> Calls]
  BY CallTypes DEF IInv
<1>2. CallsFit' /\ LockHeldOnce'
  BY DEF IInv, ExportTypeOK, CallsFit, CallFits, LockHeldOnce, Calls, Unlocked, End, NoCall
<1>3. QED
  BY <1>1, <1>2

LEMMA ItemOfCall ==
  ASSUME ExportTypeOK, NEW h \in Handles
  PROVE  call[h].item \in Items /\ call[h].attempt \in 0..MaxAttempts
BY DEF ExportTypeOK, Calls

LEMMA AcceptCommitKeeps ==
  ASSUME IInv, NEW h \in Handles, AcceptCommit(h)
  PROVE  IInv'
<1> DEFINE i == call[h].item
           a == call[h].attempt
<1>1. i \in Items /\ a \in 0..MaxAttempts
  BY ItemOfCall DEF IInv
<1>2. /\ call[h].at = "accepting" /\ job.state = "queued" /\ Owned(i, a)
      /\ state' = [state EXCEPT ![i] = "sealed"] /\ seal' = [seal EXCEPT ![i] = a]
      /\ End(h)
      /\ UNCHANGED <<job, attempt, intent, tokens, expected, diskVars, stale, outside>>
  BY DEF AcceptCommit
<1>3. a # 0
  BY <1>2 DEF IInv, CallsFit, CallFits
<1>4. call' \in [Handles -> Calls] /\ CallsFit' /\ LockHeldOnce'
  BY <1>1, <1>2, EndKeepsCalls DEF IInv, ExportTypeOK, diskVars
<1> HIDE DEF i, a
<1> USE DEF IInv, Owned, diskVars
<1>5. ExportTypeOK'
  BY <1>1, <1>2, <1>4 DEF ExportTypeOK, ItemStates
<1>6. CompletedExact'
  <2>1. Finished' = Finished
    BY <1>1, <1>2 DEF Finished, ExportTypeOK
  <2>2. QED
    BY <1>2, <2>1, SameCount
<1>7. RowsFit' /\ NoneUnclaimed' /\ BuildingUntouched'
  BY <1>1, <1>2, <1>3 DEF ExportTypeOK, RowsFit, RowFits, NoneUnclaimed, BuildingUntouched
<1>8. InstalledAuthorized' /\ SealOfAttempt' /\ DisplacedRecoverable'
  BY <1>1, <1>2, <1>3 DEF ExportTypeOK, InstalledAuthorized, SealOfAttempt,
     DisplacedRecoverable, Publishable
<1>9. QED
  BY <1>4, <1>5, <1>6, <1>7, <1>8

LEMMA PublishIntentKeeps ==
  ASSUME IInv, NEW h \in Handles, PublishIntent(h)
  PROVE  IInv'
<1> DEFINE i == call[h].item
<1>1. i \in Items
  BY ItemOfCall DEF IInv
<1>2. call' \in [Handles -> Calls]
  <2>1. call \in [Handles -> Calls] /\ "intended" \in Places /\ "stored" \in Intents
    BY DEF IInv, ExportTypeOK, Places, Intents
  <2>2. QED
    BY <2>1 DEF PublishIntent, Calls
<1> USE DEF IInv, PublishIntent, diskVars
<1>3. ExportTypeOK'
  BY <1>1, <1>2 DEF ExportTypeOK
<1>4. CompletedExact'
  BY DEF CompletedExact, Finished
<1>5. RowsFit' /\ NoneUnclaimed' /\ BuildingUntouched'
  BY DEF RowsFit, RowFits, NoneUnclaimed, BuildingUntouched
<1>6. CallsFit' /\ LockHeldOnce'
  BY <1>1 DEF ExportTypeOK, CallsFit, CallFits, LockHeldOnce, Calls, Unlocked
<1>7. InstalledAuthorized' /\ SealOfAttempt' /\ DisplacedRecoverable'
  BY <1>1 DEF ExportTypeOK, InstalledAuthorized, SealOfAttempt, DisplacedRecoverable
<1>8. QED
  BY <1>3, <1>4, <1>5, <1>6, <1>7

(* A file moves while a call holds the lock, and the call goes on to a     *)
(* place that knows nothing of the capture.                                *)
LEMMA MoveKeepsCalls ==
  ASSUME IInv, NEW h \in Handles, call[h].at \notin Unlocked,
         NEW place \in Places, place \notin {"accepting", "prepared", "intended"}, Go(h, place),
         UNCHANGED <<state, directory>>,
         \A i \in Items : i # call[h].item => captured'[i] = captured[i]
  PROVE  call' \in [Handles -> Calls] /\ CallsFit' /\ LockHeldOnce'
<1>1. call' \in [Handles -> Calls]
  BY CallTypes DEF IInv
<1>2. LockHeldOnce'
  BY DEF IInv, ExportTypeOK, LockHeldOnce, Calls, Unlocked, Go
<1>3. ASSUME NEW g \in Handles
      PROVE  CallFits(g)'
  <2>1. CASE g = h
    BY <2>1 DEF IInv, ExportTypeOK, CallsFit, CallFits, Calls, Go, Unlocked
  <2>2. CASE g # h
    <3>1. call'[g] = call[g] /\ call[g].item \in Items
      BY <2>2 DEF IInv, ExportTypeOK, Calls, Go
    <3>2. call[g].at \in {"prepared", "intended"} => call[g].item # call[h].item
      BY <2>2 DEF IInv, LockHeldOnce, Unlocked
    <3>3. QED
      BY <3>1, <3>2 DEF IInv, CallsFit, CallFits
  <2>3. QED
    BY <2>1, <2>2
<1>4. QED
  BY <1>1, <1>2, <1>3 DEF CallsFit

LEMMA PublishCaptureKeeps ==
  ASSUME IInv, NEW h \in Handles, PublishCapture(h)
  PROVE  IInv'
<1> USE OutsideAssumption
<1> DEFINE i == call[h].item
           moves == expected[i] /\ call[h].captured = "absent"
<1>1. i \in Items
  BY ItemOfCall DEF IInv
<1>2. /\ call[h].at = "intended" /\ Current(i)
      /\ UNCHANGED <<job, rowVars, directory, stale>>
      /\ dest' = IF moves THEN [dest EXCEPT ![i] = "absent"] ELSE dest
  BY DEF PublishCapture
<1>3. PICK file \in {"planned", "raced"} :
        /\ captured' = IF moves THEN [captured EXCEPT ![i] = file] ELSE captured
        /\ outside' \in 0..MaxOutside
  BY DEF PublishCapture, IInv, ExportTypeOK
<1>4. PICK place \in {"captured", "failing"} : Go(h, place)
  BY DEF PublishCapture
<1> HIDE DEF moves
<1>5. call' \in [Handles -> Calls] /\ CallsFit' /\ LockHeldOnce'
  <2>1. place \in Places /\ call[h].at \notin Unlocked
           /\ place \notin {"accepting", "prepared", "intended"}
    BY <1>2 DEF Places, Unlocked
  <2>2. \A j \in Items : j # call[h].item => captured'[j] = captured[j]
    BY <1>3 DEF IInv, ExportTypeOK
  <2>3. UNCHANGED <<state, directory>>
    BY <1>2 DEF rowVars
  <2>4. QED
    BY <1>4, <2>1, <2>2, <2>3, MoveKeepsCalls
<1> HIDE DEF i
<1> USE DEF IInv, rowVars
<1>6. ExportTypeOK'
  BY <1>1, <1>2, <1>3, <1>5 DEF ExportTypeOK, Files
<1>7. CompletedExact'
  BY <1>2 DEF CompletedExact, Finished
<1>8. RowsFit' /\ NoneUnclaimed' /\ BuildingUntouched'
  BY <1>1, <1>2, <1>3 DEF ExportTypeOK, RowsFit, RowFits, NoneUnclaimed, BuildingUntouched
<1>9. InstalledAuthorized' /\ SealOfAttempt' /\ DisplacedRecoverable'
  <2>1. state[i] = "sealed" /\ intent[i] /\ seal[i] # 0
    BY <1>1, <1>2 DEF Current, RowsFit, RowFits
  <2>2. InstalledAuthorized' /\ SealOfAttempt'
    BY <1>1, <1>2, <1>3 DEF ExportTypeOK, InstalledAuthorized, SealOfAttempt
  <2>3. DisplacedRecoverable'
    BY <1>1, <1>2, <1>3, <2>1 DEF ExportTypeOK, DisplacedRecoverable, Publishable
  <2>4. QED
    BY <2>2, <2>3
<1>10. QED
  BY <1>5, <1>6, <1>7, <1>8, <1>9

LEMMA PublishLinkKeeps ==
  ASSUME IInv, NEW h \in Handles, PublishLink(h)
  PROVE  IInv'
<1> DEFINE i == call[h].item
<1>1. i \in Items
  BY ItemOfCall DEF IInv
<1>2. /\ call[h].at = "checked" /\ Current(i) /\ Linkable(h)
      /\ UNCHANGED <<job, rowVars, directory, captured, stale, outside>>
      /\ dest' = [dest EXCEPT ![i] = "payload"]
  BY DEF PublishLink
<1>3. PICK place \in {"installed", "failing"} : Go(h, place)
  BY DEF PublishLink
<1>4. call' \in [Handles -> Calls] /\ CallsFit' /\ LockHeldOnce'
  <2>1. place \in Places /\ call[h].at \notin Unlocked
           /\ place \notin {"accepting", "prepared", "intended"}
    BY <1>2 DEF Places, Unlocked
  <2>2. UNCHANGED <<state, directory>> /\ captured' = captured
    BY <1>2 DEF rowVars
  <2>3. QED
    BY <1>3, <2>1, <2>2, MoveKeepsCalls
<1> USE DEF IInv, rowVars
<1>5. ExportTypeOK'
  BY <1>1, <1>2, <1>4 DEF ExportTypeOK, Files
<1>6. CompletedExact'
  BY <1>2 DEF CompletedExact, Finished
<1>7. RowsFit' /\ NoneUnclaimed' /\ BuildingUntouched'
  BY <1>2 DEF RowsFit, RowFits, NoneUnclaimed, BuildingUntouched
<1>8. InstalledAuthorized' /\ SealOfAttempt' /\ DisplacedRecoverable'
  BY <1>1, <1>2 DEF ExportTypeOK, InstalledAuthorized, SealOfAttempt, DisplacedRecoverable,
     RowsFit, RowFits,
                    Current, Linkable, AsPlanned, Publishable
<1>9. QED
  BY <1>4, <1>5, <1>6, <1>7, <1>8

LEMMA RecordFailureKeeps ==
  ASSUME IInv, NEW h \in Handles, RecordFailure(h)
  PROVE  IInv'
<1> DEFINE i == call[h].item
<1>1. i \in Items
  BY ItemOfCall DEF IInv
<1>2. /\ state[i] = "sealed" /\ End(h)
      /\ state' = [state EXCEPT ![i] = "failed"] /\ job' = Finish(job)
      /\ UNCHANGED <<attempt, seal, intent, tokens, expected, diskVars, stale, outside>>
  BY DEF RecordFailure
<1>3. i \notin Finished /\ job.state # "building"
  BY <1>1, <1>2 DEF Finished, IInv, BuildingUntouched
<1>4. call' \in [Handles -> Calls] /\ CallsFit' /\ LockHeldOnce'
  BY <1>1, <1>2, EndKeepsCalls DEF IInv, ExportTypeOK, diskVars
<1>5. SameFiles
  BY <1>2, FilesStay DEF IInv
<1> HIDE DEF i
<1>6. QED
  BY <1>1, <1>2, <1>3, <1>4, <1>5, FinishedRowKeeps

LEMMA FinalizeKeeps ==
  ASSUME IInv, NEW h \in Handles, Finalize(h)
  PROVE  IInv'
<1> DEFINE i == call[h].item
<1>1. i \in Items
  BY ItemOfCall DEF IInv
<1>2. /\ state[i] \in Publishable /\ Installed(i) /\ End(h)
      /\ state' = [state EXCEPT ![i] = "published"]
      /\ job' = IF state[i] = "sealed" THEN Finish(job) ELSE job
      /\ UNCHANGED <<attempt, seal, intent, tokens, expected, directory, captured, stale>>
  BY DEF Finalize
<1>3. state[i] = "sealed" <=> i \notin Finished
  BY <1>1, <1>2 DEF Finished, Publishable
<1>4. job.state # "building"
  BY <1>1, <1>2 DEF Publishable, IInv, BuildingUntouched
<1>5. call' \in [Handles -> Calls] /\ CallsFit' /\ LockHeldOnce'
  BY <1>1, <1>2, EndKeepsCalls DEF IInv, ExportTypeOK, diskVars
<1>6. SameFiles
  <2>1. CASE UNCHANGED <<dest, outside>>
    BY <1>2, <2>1, FilesStay DEF IInv, diskVars
  <2>2. ASSUME outside < MaxOutside, outside' = outside + 1, NEW file \in {"absent", "foreign"},
               dest' = [dest EXCEPT ![i] = file]
        PROVE  SameFiles
    BY <1>1, <1>2, <2>2, OutsideAssumption DEF IInv, ExportTypeOK, SameFiles, Files
  <2>3. QED
    BY <2>1, <2>2 DEF Finalize
<1>7. expected[i] => captured[i] = "planned"
  BY <1>1, <1>2 DEF IInv, InstalledAuthorized, Installed
<1> HIDE DEF i
<1>8. QED
  BY <1>1, <1>2, <1>3, <1>4, <1>5, <1>6, <1>7, FinishedRowKeeps DEF Publishable

LEMMA RestoreLinkKeeps ==
  ASSUME IInv, NEW h \in Handles, RestoreLink(h)
  PROVE  IInv'
<1> DEFINE i == call[h].item
<1>1. i \in Items
  BY ItemOfCall DEF IInv
<1>2. /\ call[h].at = "retained"
      /\ UNCHANGED <<job, rowVars, directory, captured, stale, outside>>
      /\ dest' = [dest EXCEPT ![i] = captured[i]]
  BY DEF RestoreLink
<1>3. PICK place \in {"relinked", "unrestored"} : Go(h, place)
  BY DEF RestoreLink
<1>4. call' \in [Handles -> Calls] /\ CallsFit' /\ LockHeldOnce'
  <2>1. place \in Places /\ call[h].at \notin Unlocked
           /\ place \notin {"accepting", "prepared", "intended"}
    BY <1>2 DEF Places, Unlocked
  <2>2. UNCHANGED <<state, directory>> /\ captured' = captured
    BY <1>2 DEF rowVars
  <2>3. QED
    BY <1>3, <2>1, <2>2, MoveKeepsCalls
<1> USE DEF IInv, rowVars
<1>5. ExportTypeOK'
  BY <1>1, <1>2, <1>4 DEF ExportTypeOK
<1>6. CompletedExact'
  BY <1>2 DEF CompletedExact, Finished
<1>7. RowsFit' /\ NoneUnclaimed' /\ BuildingUntouched'
  BY <1>2 DEF RowsFit, RowFits, NoneUnclaimed, BuildingUntouched
<1>8. InstalledAuthorized' /\ SealOfAttempt' /\ DisplacedRecoverable'
  BY <1>1, <1>2 DEF ExportTypeOK, InstalledAuthorized, SealOfAttempt, DisplacedRecoverable,
     RowsFit, RowFits
<1>9. QED
  BY <1>4, <1>5, <1>6, <1>7, <1>8

LEMMA RestoreRecordKeeps ==
  ASSUME IInv, NEW h \in Handles, RestoreRecord(h)
  PROVE  IInv'
<1> DEFINE i == call[h].item
           s == IF call[h].at = "restored" THEN "restored" ELSE "failed"
<1>1. i \in Items
  BY ItemOfCall DEF IInv
<1>2. /\ call[h].at \in {"restored", "unrestored"} /\ state[i] # "rendering" /\ End(h)
      /\ call[h].at = "restored" => dest[i] = captured[i]
      /\ state' = [state EXCEPT ![i] = s]
      /\ job' = IF state[i] \in {"pending", "sealed"} THEN Finish(job) ELSE job
      /\ UNCHANGED <<attempt, seal, intent, tokens, expected, diskVars, stale, outside>>
  BY DEF RestoreRecord
<1>3. state[i] # "none" /\ directory[i] # "absent"
  BY <1>2 DEF IInv, CallsFit, CallFits, Unlocked
<1>4. job.state # "building"
  BY <1>1, <1>3 DEF IInv, BuildingUntouched
<1>5. \/ i \notin Finished /\ job' = Finish(job)
      \/ i \in Finished /\ job' = job
      \/ job.state = "canceled" /\ job' = job
  <2>1. state[i] = "canceled" => job.state = "canceled"
    BY <1>1 DEF IInv, RowsFit, RowFits
  <2>2. state[i] \in {"pending", "sealed", "published", "failed", "canceled", "restored"}
    BY <1>1, <1>2, <1>3 DEF IInv, ExportTypeOK, ItemStates
  <2>3. QED
    BY <1>1, <1>2, <2>1, <2>2 DEF Finished
<1>6. s \in {"published", "failed", "restored"} /\ s # "published"
         /\ (dest[i] = "payload" => s # "restored")
  BY <1>1, <1>2 DEF IInv, RowsFit, RowFits
<1>7. call' \in [Handles -> Calls] /\ CallsFit' /\ LockHeldOnce'
  BY <1>1, <1>2, EndKeepsCalls DEF IInv, ExportTypeOK, diskVars
<1>8. SameFiles
  BY <1>2, FilesStay DEF IInv
<1> HIDE DEF i, s
<1>9. QED
  BY <1>1, <1>2, <1>3, <1>4, <1>5, <1>6, <1>7, <1>8, FinishedRowKeeps

-----------------------------------------------------------------------------
(* The theorems.                                                           *)

LEMMA NextIInv ==
  ASSUME IInv, [Next]_vars
  PROVE  IInv'
<1>1. CASE Rows
  BY <1>1, AppendKeeps, SealJobKeeps, ClaimKeeps, CancelKeeps, SealDirectoryKeeps, FailKeeps,
     RetrySealedKeeps, RequeueKeeps DEF Rows
<1>2. ASSUME NEW h \in Handles, Accepting(h)
      PROVE  IInv'
  BY <1>2, AcceptPrepareKeeps, AcceptCommitKeeps DEF Accepting
<1>3. ASSUME NEW h \in Handles, Publishing(h)
      PROVE  IInv'
  BY <1>3, PublishReadKeeps, PublishPrepareKeeps, PublishIntentKeeps, PublishCaptureKeeps,
     RefusalsKeep, VerifyCaptureKeeps, PublishLinkKeeps, RecordFailureKeeps, FinalizeKeeps
     DEF Publishing
<1>4. ASSUME NEW h \in Handles, Restoring(h)
      PROVE  IInv'
  BY <1>4, RestoreReadKeeps, RestorePrepareKeeps, RestoreLinkKeeps, RefusalsKeep,
     RestoreRecordKeeps DEF Restoring
<1>5. CASE World
  BY <1>5, WorldKeeps DEF World
<1>6. CASE UNCHANGED vars
  <2>1. CallsFit' /\ LockHeldOnce' /\ call' \in [Handles -> Calls]
    BY <1>6 DEF IInv, ExportTypeOK, CallsFit, CallFits, LockHeldOnce, vars, rowVars, diskVars
  <2>2. QED
    BY <1>6, <2>1, QuietKeeps DEF vars, rowVars, diskVars
<1>7. QED
  BY <1>1, <1>2, <1>3, <1>4, <1>5, <1>6, StopKeeps DEF Next

(* IInv is an inductive invariant of the specification.                    *)
THEOREM ExportsInductive == Spec => []IInv
<1>1. Init => IInv
  BY InitIInv
<1>2. IInv /\ [Next]_vars => IInv'
  BY NextIInv
<1>3. QED
  BY <1>1, <1>2, PTL DEF Spec

(* finish_item, the retry and the restoration keep the counter of a job    *)
(* exact, and a job is complete exactly when all its items are finished.   *)
THEOREM CounterExact == Spec => []CompletedExact
<1>1. IInv => CompletedExact
  BY DEF IInv
<1>2. QED
  BY <1>1, ExportsInductive, PTL

(* Whatever crashes and other programs do, a payload at a destination was  *)
(* linked under a stored intent, with the replaced file captured.          *)
THEOREM PayloadAuthorized == Spec => []InstalledAuthorized
<1>1. IInv => InstalledAuthorized
  BY DEF IInv
<1>2. QED
  BY <1>1, ExportsInductive, PTL

(* accept_photo_export takes a seal only from the attempt the row is       *)
(* leased to.                                                              *)
THEOREM SealsCurrent == Spec => []SealOfAttempt
<1>1. IInv => SealOfAttempt
  BY DEF IInv
<1>2. QED
  BY <1>1, ExportsInductive, PTL

(* What a publication took out of the way can be put back or the payload   *)
(* published from every state that crashes, late reports of the renderer,  *)
(* other handles and other programs lead to.                               *)
THEOREM DisplacedKept == Spec => []DisplacedRecoverable
<1>1. IInv => DisplacedRecoverable
  BY DEF IInv
<1>2. QED
  BY <1>1, ExportsInductive, PTL

(* The steps that move files, apart from other programs.                   *)
LEMMA FilesMove ==
  ASSUME ExportTypeOK, [Next]_vars
  PROVE  \/ UNCHANGED <<captured, dest>>
         \/ captured' = captured /\ outside' = outside + 1
              /\ \E i \in Items, file \in {"absent", "foreign"} :
                   dest' = [dest EXCEPT ![i] = file]
         \/ \E h \in Handles : PublishCapture(h) \/ PublishLink(h) \/ RestoreLink(h)
<1> USE DEF rowVars, diskVars
<1>1. CASE Rows
  BY <1>1 DEF Rows, Append, SealJob, Claim, Cancel, SealDirectory, FailSealed, RetrySealed,
              Requeue, FailRender
<1>2. ASSUME NEW h \in Handles, Accepting(h)
      PROVE  UNCHANGED <<captured, dest>>
  BY <1>2 DEF Accepting, AcceptPrepare, AcceptCommit
<1>3. ASSUME NEW h \in Handles, Publishing(h)
      PROVE  UNCHANGED <<captured, dest>> \/ PublishCapture(h) \/ PublishLink(h)
               \/ Finalize(h)
  BY <1>3 DEF Publishing, PublishRead, PublishPrepare, PublishIntent, CaptureRefused,
              VerifyCapture, LinkRefused, RecordFailure, VerifyInstalled
<1> DEFINE taken == captured' = captured /\ outside' = outside + 1
                      /\ \E i \in Items, file \in {"absent", "foreign"} :
                           dest' = [dest EXCEPT ![i] = file]
<1>9. ASSUME NEW h \in Handles, Finalize(h)
      PROVE  UNCHANGED <<captured, dest>> \/ taken
  BY <1>9, ItemOfCall DEF Finalize
<1>4. ASSUME NEW h \in Handles, Restoring(h)
      PROVE  UNCHANGED <<captured, dest>> \/ RestoreLink(h)
  BY <1>4 DEF Restoring, RestoreRead, RestorePrepare, RestoreRefused, VerifyRestored,
              RestoreRecord
<1>5. ASSUME NEW h \in Handles, Stop(h)
      PROVE  UNCHANGED <<captured, dest>>
  BY <1>5 DEF Stop
<1>6. ASSUME NEW i \in Items, Touch(i) \/ Damage(i) \/ Edit(i)
      PROVE  UNCHANGED <<captured, dest>>
               \/ taken
  BY <1>6 DEF Touch, Damage, Edit, Outside
<1>7. CASE UNCHANGED vars
  BY <1>7 DEF vars
<1>8. QED
  BY <1>1, <1>2, <1>3, <1>4, <1>5, <1>6, <1>7, <1>9 DEF Next, World

LEMMA StepOverwritesNothing ==
  ASSUME IInv, [Next]_vars, outside' = outside, NEW i \in Items
  PROVE  {dest[i], captured[i]} \ {"absent", "payload"} \subseteq {dest'[i], captured'[i]}
<1>1. CASE UNCHANGED <<captured, dest>>
  BY <1>1
<1>2. outside' # outside + 1
  BY OutsideAssumption DEF IInv, ExportTypeOK
<1>3. ASSUME NEW h \in Handles, PublishCapture(h)
      PROVE  {dest[i], captured[i]} \ {"absent", "payload"} \subseteq {dest'[i], captured'[i]}
  <2> DEFINE j == call[h].item
             moves == expected[j] /\ call[h].captured = "absent"
  <2>1. j \in Items /\ captured[j] = call[h].captured
    BY <1>3, ItemOfCall DEF IInv, PublishCapture, CallsFit, CallFits
  <2>2. /\ captured' = IF moves THEN [captured EXCEPT ![j] = "planned"] ELSE captured
        /\ dest' = IF moves THEN [dest EXCEPT ![j] = "absent"] ELSE dest
    BY <1>2, <1>3 DEF PublishCapture
  <2>3. moves => dest[j] = "planned"
    BY <1>3 DEF PublishCapture, Capturable
  <2>4. QED
    BY <2>1, <2>2, <2>3 DEF IInv, ExportTypeOK
<1>4. ASSUME NEW h \in Handles, PublishLink(h)
      PROVE  {dest[i], captured[i]} \ {"absent", "payload"} \subseteq {dest'[i], captured'[i]}
  BY <1>4, ItemOfCall DEF IInv, ExportTypeOK, PublishLink, Linkable
<1>5. ASSUME NEW h \in Handles, RestoreLink(h)
      PROVE  {dest[i], captured[i]} \ {"absent", "payload"} \subseteq {dest'[i], captured'[i]}
  BY <1>5, ItemOfCall DEF IInv, ExportTypeOK, RestoreLink, Restorable
<1>6. QED
  BY <1>1, <1>2, <1>3, <1>4, <1>5, FilesMove DEF IInv

(* Capture, link and restoration keep every file that was not rendered     *)
(* here, at the destination or in the recovery directory.                  *)
THEOREM NothingLost == Spec => NothingOverwritten
<1>1. IInv /\ [Next]_vars
        => [outside' = outside => \A i \in Items :
              {dest[i], captured[i]} \ {"absent", "payload"} \subseteq {dest'[i], captured'[i]}]_vars
  BY StepOverwritesNothing
<1>2. QED
  BY <1>1, ExportsInductive, PTL DEF Spec, NothingOverwritten

LEMMA StaysCanceled ==
  ASSUME IInv, [Next]_vars, job.state = "canceled"
  PROVE  job'.state = "canceled"
<1>1. job \in JobRecords
  BY DEF IInv, ExportTypeOK, JobRecords
<1>2. Finish(job).state = "canceled"
  BY <1>1 DEF Finish, JobRecords
<1>3. CASE Rows
  <2>1. Cancel => job'.state = "canceled"
    BY <1>1 DEF Cancel, JobRecords
  <2>2. QED
    BY <1>2, <1>3, <2>1 DEF Rows, Append, SealJob, Claim, SealDirectory, FailSealed,
       RetrySealed, Requeue, FailRender
<1>4. ASSUME NEW h \in Handles, Accepting(h) \/ Stop(h)
      PROVE  job' = job
  BY <1>4 DEF Accepting, AcceptPrepare, AcceptCommit, Stop
<1>5. ASSUME NEW h \in Handles, Publishing(h)
      PROVE  job' = job \/ job' = Finish(job)
  BY <1>5 DEF Publishing, PublishRead, PublishPrepare, PublishIntent, PublishCapture,
     CaptureRefused, VerifyCapture, PublishLink, LinkRefused, RecordFailure, VerifyInstalled,
     Finalize
<1>6. ASSUME NEW h \in Handles, Restoring(h)
      PROVE  job' = job \/ job' = Finish(job)
  BY <1>6 DEF Restoring, RestoreRead, RestorePrepare, RestoreLink, RestoreRefused,
              VerifyRestored, RestoreRecord
<1>7. CASE World
  BY <1>7 DEF World, Touch, Damage, Edit
<1>8. CASE UNCHANGED vars
  BY <1>8 DEF vars
<1>9. QED
  BY <1>2, <1>3, <1>4, <1>5, <1>6, <1>7, <1>8 DEF Next

LEMMA CanceledMovesNothing ==
  ASSUME IInv, [Next]_vars, job.state = "canceled"
  PROVE  /\ captured' = captured
         /\ \A i \in Items : dest'[i] = "payload" => dest[i] = "payload"
<1>1. ASSUME NEW h \in Handles
      PROVE  ~PublishCapture(h) /\ ~PublishLink(h)
  BY DEF PublishCapture, PublishLink, Current
<1>2. ASSUME NEW h \in Handles, RestoreLink(h)
      PROVE  /\ captured' = captured
             /\ \A i \in Items : dest'[i] = "payload" => dest[i] = "payload"
  BY <1>2, ItemOfCall DEF RestoreLink, IInv, ExportTypeOK, RowsFit, RowFits
<1>3. ASSUME NEW i \in Items, NEW file \in {"absent", "foreign"},
             dest' = [dest EXCEPT ![i] = file]
      PROVE  \A j \in Items : dest'[j] = "payload" => dest[j] = "payload"
  BY <1>3 DEF IInv, ExportTypeOK
<1>4. QED
  BY <1>1, <1>2, <1>3, FilesMove DEF IInv

(* cancel_photo_export_job is final for the catalog and for the files: a   *)
(* publication under way captures and links nothing more.                  *)
THEOREM CanceledForGood == Spec => CancelHolds
<1>1. IInv /\ [Next]_vars
        => [job.state = "canceled" =>
              /\ job'.state = "canceled"
              /\ captured' = captured
              /\ \A i \in Items : dest'[i] = "payload" => dest[i] = "payload"]_vars
  BY StaysCanceled, CanceledMovesNothing
<1>2. QED
  BY <1>1, ExportsInductive, PTL DEF Spec, CancelHolds
=============================================================================
