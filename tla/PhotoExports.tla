---------------------------- MODULE PhotoExports ----------------------------
(***************************************************************************)
(* Photo export jobs (src/catalog_exports.rs): the rows of one job and its *)
(* items in the catalog, the recovery directory that holds the rendered    *)
(* payload and the captured file of each item, and the destination itself  *)
(* (src/metadata_export.rs, src/metadata_export/photo_phases.rs).          *)
(*                                                                         *)
(* A handle is an open catalog: the export executor, another window, the   *)
(* command line.  Each transaction is one step; accept, publish and        *)
(* restore are several, with files moved between them, so that other       *)
(* handles, other programs, an error or a crash come in between.           *)
(***************************************************************************)
EXTENDS Naturals, FiniteSets

CONSTANTS
  Handles,       \* open catalogs
  MaxItems,      \* bound of the model: items of the job
  MaxAttempts,   \* bound of the model: render attempts of an item
  MaxOutside     \* bound of the model: steps of other programs and of edits

ASSUME ItemsAssumption == MaxItems \in Nat \ {0}
ASSUME AttemptsAssumption == MaxAttempts \in Nat
ASSUME OutsideAssumption == MaxOutside \in Nat

Items == 1..MaxItems

VARIABLES
  job,        \* photo_export_jobs: state, total, completed
  state,      \* photo_export_items.state; none before the item is appended
  attempt,    \* photo_export_items.attempt; 0 for NULL
  seal,       \* attempt whose seal the row holds; 0 for NULL
  intent,     \* photo_export_items.publication is not NULL
  tokens,     \* attempt tokens issued for the item
  expected,   \* the plan expects a file at the destination
  directory,  \* recovery directory: absent, payload good, payload damaged
  captured,   \* the file captured in the recovery directory
  dest,       \* the file at the destination
  stale,      \* items whose edit, source or metadata changed since planning
  call,       \* handle -> its accept, publish or restore call
  outside     \* steps of other programs so far

rowVars == <<state, attempt, seal, intent, tokens, expected>>
diskVars == <<directory, captured, dest>>
vars == <<job, rowVars, diskVars, stale, call, outside>>

JobStates == {"building", "queued", "complete", "canceled"}
ItemStates == {"none", "pending", "rendering", "sealed", "published", "failed", "canceled",
               "restored"}

\* Files by origin: the one the plan saw, the rendered payload, one that took
\* its place during the capture, any other.
Files == {"absent", "planned", "payload", "raced", "foreign"}

(***************************************************************************)
(* A call: where it is, its item, the attempt it reports, whether the      *)
(* intent it read or made is the stored one, and the destination and       *)
(* capture it verified.                                                    *)
(***************************************************************************)
Places == {"idle", "accepting",
           "reading", "prepared", "intended", "captured", "checked", "failing",
           "installed", "verified",
           "restoring", "retained", "relinked", "restored", "unrestored"}
Intents == {"stored", "own", "none"}
Calls == [at : Places, item : Items, attempt : 0..MaxAttempts, intent : Intents,
          dest : Files, captured : Files]

NoCall == [at |-> "idle", item |-> 1, attempt |-> 0, intent |-> "none",
           dest |-> "absent", captured |-> "absent"]

\* Places before PublicationSession::prepare has taken operation.lock.
Unlocked == {"idle", "reading", "restoring"}
Locked(i) == \E h \in Handles : call[h].at \notin Unlocked /\ call[h].item = i

Go(h, place) == call' = [call EXCEPT ![h].at = place]
End(h) == call' = [call EXCEPT ![h] = NoCall]

Init ==
  /\ job = [state |-> "building", total |-> 0, completed |-> 0]
  /\ state = [i \in Items |-> "none"]
  /\ attempt = [i \in Items |-> 0]
  /\ seal = [i \in Items |-> 0]
  /\ intent = [i \in Items |-> FALSE]
  /\ tokens = [i \in Items |-> 0]
  /\ expected = [i \in Items |-> FALSE]
  /\ directory = [i \in Items |-> "absent"]
  /\ captured = [i \in Items |-> "absent"]
  /\ dest \in [Items -> {"absent", "planned"}]
  /\ stale = {}
  /\ call = [h \in Handles |-> NoCall]
  /\ outside = 0

-----------------------------------------------------------------------------
(* The job and its items.                                                  *)

\* Mutant: an export that ends a queued job is counted without ending it.
Counted(j) == [j EXCEPT !.completed = @ + 1]

\* finish_item
Finish(j) ==
  LET counted == [j EXCEPT !.completed = @ + 1]
  IN  IF j.state = "queued" /\ counted.completed = j.total
        THEN [counted EXCEPT !.state = "complete"] ELSE counted

\* append_photo_export: freezes a plan with the destination as it is now.
Append ==
  /\ job.state = "building" /\ job.total < MaxItems
  /\ job' = [job EXCEPT !.total = @ + 1]
  /\ state' = [state EXCEPT ![job.total + 1] = "pending"]
  /\ expected' = [expected EXCEPT ![job.total + 1] = dest[job.total + 1] = "planned"]
  /\ UNCHANGED <<attempt, seal, intent, tokens, diskVars, stale, call, outside>>

\* seal_photo_export_job
SealJob ==
  /\ job.state = "building" /\ job.total > 0
  /\ job' = [job EXCEPT !.state = "queued"]
  /\ UNCHANGED <<rowVars, diskVars, stale, call, outside>>

\* claim_photo_export: the first pending item, under a fresh token.
Claim ==
  /\ job.state = "queued"
  /\ \E i \in Items :
       /\ state[i] = "pending" /\ \A j \in Items : state[j] = "pending" => i <= j
       /\ tokens[i] < MaxAttempts
       /\ tokens' = [tokens EXCEPT ![i] = @ + 1]
       /\ attempt' = [attempt EXCEPT ![i] = tokens[i] + 1]
       /\ state' = [state EXCEPT ![i] = "rendering"]
  /\ UNCHANGED <<job, seal, intent, expected, diskVars, stale, call, outside>>

\* Mutant: the row is the attempt's by its token, whatever became of it since.
OwnedByToken(i, a) == attempt[i] = a

\* The row still belongs to the render attempt a.
Owned(i, a) == state[i] = "rendering" /\ attempt[i] = a

\* complete_rendering: an output becomes the sealed recovery directory; a
\* directory of an earlier attempt is kept when its bytes are the same.
SealDirectory(i) ==
  /\ tokens[i] > 0 /\ directory[i] = "absent"
  /\ directory' = [directory EXCEPT ![i] = "good"]
  /\ UNCHANGED <<job, rowVars, captured, dest, stale, call, outside>>

\* requeue_photo_export_attempt
Requeue(i, a) ==
  /\ Owned(i, a)
  /\ state' = [state EXCEPT ![i] = IF job.state = "queued" THEN "pending" ELSE "canceled"]
  /\ attempt' = [attempt EXCEPT ![i] = 0]
  /\ UNCHANGED <<job, seal, intent, tokens, expected, diskVars, stale, call, outside>>

\* fail_photo_export
FailRender(i, a) ==
  /\ Owned(i, a)
  /\ state' = [state EXCEPT ![i] = "failed"]
  /\ job' = Finish(job)
  /\ UNCHANGED <<attempt, seal, intent, tokens, expected, diskVars, stale, call, outside>>

\* fail_sealed_photo_export
FailSealed(i) ==
  /\ state[i] = "sealed"
  /\ state' = [state EXCEPT ![i] = "failed"]
  /\ job' = Finish(job)
  /\ UNCHANGED <<attempt, seal, intent, tokens, expected, diskVars, stale, call, outside>>

\* retry_sealed_photo_export
RetrySealed(i) ==
  /\ job.state \in {"queued", "complete"}
  /\ state[i] = "failed" /\ seal[i] # 0
  /\ state' = [state EXCEPT ![i] = "sealed"]
  /\ job' = [job EXCEPT !.state = "queued", !.completed = @ - 1]
  /\ UNCHANGED <<attempt, seal, intent, tokens, expected, diskVars, stale, call, outside>>

\* cancel_photo_export_job: pending items go; the others keep their state.
Cancel ==
  /\ job.state # "complete"
  /\ job' = [job EXCEPT !.state = "canceled"]
  /\ state' = [i \in Items |-> IF state[i] = "pending" THEN "canceled" ELSE state[i]]
  /\ UNCHANGED <<attempt, seal, intent, tokens, expected, diskVars, stale, call, outside>>

-----------------------------------------------------------------------------
(* Accepting a seal.  A check that fails, an error, a cancellation or the  *)
(* end of the process ends a call where it is: Stop.                       *)

Enter(h, place, i, a, known) ==
  /\ call[h].at = "idle"
  /\ call' = [call EXCEPT ![h] = [NoCall EXCEPT !.at = place, !.item = i, !.attempt = a,
                                              !.intent = known]]

Stop(h) ==
  /\ call[h].at # "idle"
  /\ End(h)
  /\ UNCHANGED <<job, rowVars, diskVars, stale, outside>>

\* accept_photo_export_controlled: the original and the seal are verified and
\* the operation lock is taken, outside the transaction.
AcceptPrepare(h, i, a) ==
  /\ a \in 1..tokens[i] /\ directory[i] = "good" /\ ~Locked(i)
  /\ Enter(h, "accepting", i, a, "none")
  /\ UNCHANGED <<job, rowVars, diskVars, stale, outside>>

\* Mutant: the token of the attempt is not compared.
AcceptAnyToken(h) ==
  LET i == call[h].item
  IN  /\ call[h].at = "accepting"
      /\ i \notin stale /\ job.state = "queued" /\ directory[i] = "good"
      /\ state[i] = "rendering"
      /\ state' = [state EXCEPT ![i] = "sealed"]
      /\ seal' = [seal EXCEPT ![i] = call[h].attempt]
      /\ End(h)
      /\ UNCHANGED <<job, attempt, intent, tokens, expected, diskVars, stale, outside>>

\* Its transaction.
AcceptCommit(h) ==
  LET i == call[h].item
  IN  /\ call[h].at = "accepting"
      /\ i \notin stale /\ job.state = "queued" /\ directory[i] = "good"
      /\ Owned(i, call[h].attempt)
      /\ state' = [state EXCEPT ![i] = "sealed"]
      /\ seal' = [seal EXCEPT ![i] = call[h].attempt]
      /\ End(h)
      /\ UNCHANGED <<job, attempt, intent, tokens, expected, diskVars, stale, outside>>

-----------------------------------------------------------------------------
(* Publishing a sealed item: publish_photo_export_controlled.              *)

Publishable == {"sealed", "failed", "published"}

\* The destination is the payload, as one object with two names.
Installed(i) == directory[i] = "good" /\ dest[i] = "payload"

\* The row is read without a transaction; an intent is stored or made up.
PublishRead(h, i) ==
  /\ state[i] \in Publishable /\ seal[i] # 0
  /\ Enter(h, "reading", i, 0, IF intent[i] THEN "stored" ELSE "own")
  /\ UNCHANGED <<job, rowVars, diskVars, stale, outside>>

\* prepare_mode: lock, then verify the payload, the destination, the capture.
Verified(h, place) ==
  LET i == call[h].item
  IN  /\ ~Locked(i)
      /\ call' = [call EXCEPT ![h].at = place, ![h].dest = dest[i],
                              ![h].captured = captured[i]]

\* An installed payload is finalized under the intent that was stored before.
PublishPrepare(h) ==
  LET i == call[h].item
  IN  /\ call[h].at = "reading" /\ directory[i] = "good"
      /\ Installed(i) => intent[i] /\ call[h].intent = "stored"
      /\ Verified(h, IF Installed(i) THEN "installed" ELSE "prepared")
      /\ UNCHANGED <<job, rowVars, diskVars, stale, outside>>

\* First transaction: the intent is stored before any file moves.
PublishIntent(h) ==
  LET i == call[h].item
  IN  /\ call[h].at = "prepared"
      /\ i \notin stale /\ job.state = "queued" /\ state[i] = "sealed"
      /\ intent[i] => call[h].intent = "stored"
      /\ intent' = [intent EXCEPT ![i] = TRUE]
      /\ call' = [call EXCEPT ![h].at = "intended", ![h].intent = "stored"]
      /\ UNCHANGED <<job, state, attempt, seal, tokens, expected, diskVars, stale, outside>>

\* publication_current
Current(i) == i \notin stale /\ job.state = "queued" /\ state[i] = "sealed" /\ intent[i]

\* Mutant: any captured file will do.
AnyCapture(i) == captured[i] # "absent"

\* The captured file has the bytes that the plan expects.
AsPlanned(i) == captured[i] = "planned"

\* What PhotoPublication::capture asks before it moves the destination.
Capturable(h) ==
  LET i == call[h].item
  IN  /\ directory[i] = "good"
      /\ IF call[h].captured # "absent"
           THEN captured[i] = call[h].captured /\ AsPlanned(i) /\ expected[i]
           ELSE expected[i] => call[h].dest = "planned" /\ dest[i] = "planned"

\* Mutant: the capture does not look at the job and the row again.
CaptureUnchecked(h) ==
  LET i == call[h].item
      moves == expected[i] /\ call[h].captured = "absent"
  IN  /\ call[h].at = "intended" /\ Capturable(h)
      /\ captured' = IF moves THEN [captured EXCEPT ![i] = "planned"] ELSE captured
      /\ dest' = IF moves THEN [dest EXCEPT ![i] = "absent"] ELSE dest
      /\ Go(h, "captured")
      /\ UNCHANGED <<job, rowVars, directory, stale, outside>>

\* Second transaction: the destination is renamed into the recovery directory.
\* Another program may replace it between the last check and the rename, and
\* the transaction may fail after the rename.
PublishCapture(h) ==
  LET i == call[h].item
      moves == expected[i] /\ call[h].captured = "absent"
  IN  /\ call[h].at = "intended" /\ Current(i) /\ Capturable(h)
      /\ \/ /\ captured' = IF moves THEN [captured EXCEPT ![i] = "planned"] ELSE captured
            /\ outside' = outside
         \/ /\ moves /\ outside < MaxOutside
            /\ captured' = [captured EXCEPT ![i] = "raced"]
            /\ outside' = outside + 1
      /\ dest' = IF moves THEN [dest EXCEPT ![i] = "absent"] ELSE dest
      /\ Go(h, "captured") \/ Go(h, "failing")
      /\ UNCHANGED <<job, rowVars, directory, stale>>

CaptureRefused(h) ==
  /\ call[h].at = "intended"
  /\ ~(Current(call[h].item) /\ Capturable(h))
  /\ Go(h, "failing")
  /\ UNCHANGED <<job, rowVars, diskVars, stale, outside>>

\* verify_capture: the captured bytes are hashed again.
VerifyCapture(h) ==
  LET i == call[h].item
  IN  /\ call[h].at = "captured"
      /\ expected[i] => AsPlanned(i)
      /\ call' = [call EXCEPT ![h].at = "checked", ![h].captured = captured[i]]
      /\ UNCHANGED <<job, rowVars, diskVars, stale, outside>>

\* What PhotoPublication::link asks; the link itself fails on an occupied name.
Linkable(h) ==
  LET i == call[h].item
  IN  /\ directory[i] = "good" /\ dest[i] = "absent"
      /\ expected[i] => AsPlanned(i) /\ captured[i] = call[h].captured

\* Mutant: the rename of the payload replaces what is there.
LinkClobbers(h) ==
  LET i == call[h].item
  IN  /\ call[h].at = "checked" /\ Current(i) /\ directory[i] = "good"
      /\ dest' = [dest EXCEPT ![i] = "payload"]
      /\ Go(h, "installed")
      /\ UNCHANGED <<job, rowVars, directory, captured, stale, outside>>

\* Third transaction: the payload is linked at the destination.
PublishLink(h) ==
  LET i == call[h].item
  IN  /\ call[h].at = "checked" /\ Current(i) /\ Linkable(h)
      /\ dest' = [dest EXCEPT ![i] = "payload"]
      /\ Go(h, "installed") \/ Go(h, "failing")
      /\ UNCHANGED <<job, rowVars, directory, captured, stale, outside>>

\* A changed edit ends the call; anything else is recorded as a failure.
LinkRefused(h) ==
  /\ call[h].at = "checked"
  /\ ~(Current(call[h].item) /\ Linkable(h))
  /\ Go(h, "failing")
  /\ UNCHANGED <<job, rowVars, diskVars, stale, outside>>

\* record_photo_publication_failure
RecordFailure(h) ==
  LET i == call[h].item
  IN  /\ call[h].at = "failing" /\ state[i] = "sealed" /\ intent[i]
      /\ state' = [state EXCEPT ![i] = "failed"]
      /\ job' = Finish(job)
      /\ End(h)
      /\ UNCHANGED <<attempt, seal, intent, tokens, expected, diskVars, stale, outside>>

\* verify_installed: both names are hashed and flushed.
VerifyInstalled(h) ==
  /\ call[h].at = "installed" /\ Installed(call[h].item)
  /\ Go(h, "verified")
  /\ UNCHANGED <<job, rowVars, diskVars, stale, outside>>

\* finalize_photo_publication: the names are looked at once more inside the
\* transaction; another program may still take the payload away before it
\* commits.
Finalize(h) ==
  LET i == call[h].item
  IN  /\ call[h].at = "verified" /\ state[i] \in Publishable /\ intent[i]
      /\ Installed(i)
      /\ state' = [state EXCEPT ![i] = "published"]
      /\ job' = IF state[i] = "sealed" THEN Finish(job) ELSE job
      /\ End(h)
      /\ \/ UNCHANGED <<dest, outside>>
         \/ /\ outside < MaxOutside /\ outside' = outside + 1
            /\ \E file \in {"absent", "foreign"} : dest' = [dest EXCEPT ![i] = file]
      /\ UNCHANGED <<attempt, seal, intent, tokens, expected, directory, captured, stale>>

-----------------------------------------------------------------------------
(* Restoring the captured file: restore_photo_export_item_cancellable.     *)

RestoreRead(h, i) ==
  /\ state[i] \notin {"none", "rendering"}
  /\ Enter(h, "restoring", i, 0, IF intent[i] THEN "stored" ELSE "none")
  /\ UNCHANGED <<job, rowVars, diskVars, stale, outside>>

\* An installed payload is finalized instead; a damaged one does not prevent
\* the restoration of what was captured.
RestorePrepare(h) ==
  LET i == call[h].item
  IN  /\ call[h].at = "restoring" /\ directory[i] # "absent"
      /\ Installed(i) => call[h].intent = "stored"
      /\ Verified(h, IF Installed(i) THEN "installed" ELSE "retained")
      /\ UNCHANGED <<job, rowVars, diskVars, stale, outside>>

\* restore_link: the captured object is there already, or the name is free.
Restorable(h) ==
  LET i == call[h].item
  IN  /\ state[i] # "rendering"
      /\ call[h].captured # "absent"
      /\ \/ dest[i] = captured[i] /\ call[h].dest = dest[i]
         \/ dest[i] = "absent" /\ call[h].dest = "absent"

RestoreLink(h) ==
  LET i == call[h].item
  IN  /\ call[h].at = "retained" /\ Restorable(h)
      /\ dest' = [dest EXCEPT ![i] = captured[i]]
      /\ Go(h, "relinked") \/ Go(h, "unrestored")
      /\ UNCHANGED <<job, rowVars, directory, captured, stale, outside>>

RestoreRefused(h) ==
  /\ call[h].at = "retained" /\ ~Restorable(h)
  /\ Go(h, "unrestored")
  /\ UNCHANGED <<job, rowVars, diskVars, stale, outside>>

\* verify_restored
VerifyRestored(h) ==
  LET i == call[h].item
  IN  /\ call[h].at = "relinked"
      /\ Go(h, IF dest[i] = captured[i] THEN "restored" ELSE "unrestored")
      /\ UNCHANGED <<job, rowVars, diskVars, stale, outside>>

\* The last transaction; a receipt of a restoration is checked again.
RestoreRecord(h) ==
  LET i == call[h].item
  IN  /\ call[h].at \in {"restored", "unrestored"} /\ state[i] # "rendering"
      /\ call[h].at = "restored" => dest[i] = captured[i]
      /\ state' = [state EXCEPT ![i] = IF call[h].at = "restored" THEN "restored"
                                       ELSE "failed"]
      /\ job' = IF state[i] \in {"pending", "sealed"} THEN Finish(job) ELSE job
      /\ End(h)
      /\ UNCHANGED <<attempt, seal, intent, tokens, expected, diskVars, stale, outside>>

-----------------------------------------------------------------------------
(* Other programs and other windows.                                       *)

Outside == outside < MaxOutside /\ outside' = outside + 1

\* The destination is replaced or deleted.
Touch(i) ==
  /\ Outside /\ state[i] # "none"
  /\ \E file \in {"absent", "foreign"} \ {dest[i]} : dest' = [dest EXCEPT ![i] = file]
  /\ UNCHANGED <<job, rowVars, directory, captured, stale, call>>

\* The payload in the recovery directory is changed or removed.
Damage(i) ==
  /\ Outside /\ directory[i] = "good"
  /\ directory' = [directory EXCEPT ![i] = "damaged"]
  /\ UNCHANGED <<job, rowVars, captured, dest, stale, call>>

\* The edit, the original or the metadata changes after planning.
Edit(i) ==
  /\ Outside /\ state[i] # "none"
  /\ stale' = stale \cup {i}
  /\ UNCHANGED <<job, rowVars, diskVars, call>>

-----------------------------------------------------------------------------
Accepting(h) ==
  \/ \E i \in Items : \E a \in 1..MaxAttempts : AcceptPrepare(h, i, a)
  \/ AcceptCommit(h)

Publishing(h) ==
  \/ \E i \in Items : PublishRead(h, i)
  \/ PublishPrepare(h) \/ PublishIntent(h)
  \/ PublishCapture(h) \/ CaptureRefused(h) \/ VerifyCapture(h)
  \/ PublishLink(h) \/ LinkRefused(h) \/ RecordFailure(h)
  \/ VerifyInstalled(h) \/ Finalize(h)

Restoring(h) ==
  \/ \E i \in Items : RestoreRead(h, i)
  \/ RestorePrepare(h) \/ RestoreLink(h) \/ RestoreRefused(h)
  \/ VerifyRestored(h) \/ RestoreRecord(h)

Rows ==
  \/ Append \/ SealJob \/ Claim \/ Cancel
  \/ \E i \in Items :
       \/ SealDirectory(i) \/ FailSealed(i) \/ RetrySealed(i)
       \/ \E a \in 1..MaxAttempts : Requeue(i, a) \/ FailRender(i, a)

World == \E i \in Items : Touch(i) \/ Damage(i) \/ Edit(i)

Next ==
  \/ Rows
  \/ \E h \in Handles : Accepting(h) \/ Publishing(h) \/ Restoring(h) \/ Stop(h)
  \/ World

Spec == Init /\ [][Next]_vars

-----------------------------------------------------------------------------
(* Properties.                                                             *)

\* Every variable has its type.
ExportTypeOK ==
  /\ job \in [state : JobStates, total : 0..MaxItems, completed : 0..MaxItems]
  /\ state \in [Items -> ItemStates]
  /\ attempt \in [Items -> 0..MaxAttempts] /\ seal \in [Items -> 0..MaxAttempts]
  /\ tokens \in [Items -> 0..MaxAttempts]
  /\ intent \in [Items -> BOOLEAN] /\ expected \in [Items -> BOOLEAN]
  /\ directory \in [Items -> {"absent", "good", "damaged"}]
  /\ captured \in [Items -> Files] /\ dest \in [Items -> Files]
  /\ stale \subseteq Items
  /\ call \in [Handles -> Calls]
  /\ outside \in 0..MaxOutside

Finished == {i \in Items : state[i] \in {"published", "failed", "restored"}}

\* The counter of a job is the number of its finished items, whichever of
\* finish_item, retry and restore moved them and in whichever order, and the
\* job is complete exactly when all are; a canceled job never counts more.
CompletedExact ==
  /\ job.state # "canceled" => job.completed = Cardinality(Finished)
  /\ job.completed <= Cardinality(Finished) /\ Cardinality(Finished) <= job.total
  /\ job.state = "complete" => job.completed = job.total
  /\ job.state = "queued" => job.completed < job.total

\* A payload at a destination was linked under a stored intent and an accepted
\* seal, and the file it took the place of is in the recovery directory.
InstalledAuthorized ==
  \A i \in Items : dest[i] = "payload" =>
    /\ intent[i] /\ seal[i] # 0 /\ state[i] \in Publishable
    /\ expected[i] => captured[i] = "planned"

\* The seal of a row is that of its last attempt: a late result of a stopped
\* attempt (requeue_photo_export_attempt) is never accepted for a later one.
SealOfAttempt == \A i \in Items : seal[i] # 0 => seal[i] = attempt[i]

\* No step of the catalog destroys a file it did not render: what is at the
\* destination or captured stays at one of the two names.
NothingOverwritten ==
  [][outside' = outside => \A i \in Items :
       {dest[i], captured[i]} \ {"absent", "payload"} \subseteq {dest'[i], captured'[i]}]_vars

\* A file taken out of the way is never stranded: its row keeps the intent and
\* the seal and is in a state from which publish or restore takes it up again,
\* whatever a late requeue, failure, cancel or crash did since, and a published
\* row still has the file it replaced, also when another program takes the
\* payload away while the row is recorded.
DisplacedRecoverable ==
  \A i \in Items :
    /\ captured[i] # "absent"
         => intent[i] /\ seal[i] # 0 /\ state[i] \in Publishable \cup {"restored"}
    /\ state[i] = "published" /\ expected[i] => captured[i] = "planned"

\* A canceled job stays canceled, and no further file of it is captured or
\* linked (docs/EDITING_AND_EXPORT.md), only restored.
CancelHolds ==
  [][job.state = "canceled" =>
       /\ job'.state = "canceled"
       /\ captured' = captured
       /\ \A i \in Items : dest'[i] = "payload" => dest[i] = "payload"]_vars
=============================================================================
