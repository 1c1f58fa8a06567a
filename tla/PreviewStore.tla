---------------------------- MODULE PreviewStore ----------------------------
(***************************************************************************)
(* One tier of the preview store (src/preview/store.rs) with its           *)
(* incremental relocation (src/preview/relocation.rs).                     *)
(*                                                                         *)
(* A publication inserts a pending row, writes and renames a file, and     *)
(* attaches it in one transaction that orphans the object it replaces.     *)
(* Removal unlinks the file before the row.  Relocation copies object by   *)
(* object behind a durable cursor, switches the authoritative location in  *)
(* one transaction and then unlinks the old copies.  One actor makes the   *)
(* calls; a crash may come between any two effects, files may be damaged   *)
(* from outside and images may turn out not to decode.                     *)
(***************************************************************************)
EXTENDS Integers, FiniteSets

CONSTANTS
  Slots,        \* number of (asset, variant, channel) places
  Objects,      \* number of keys, dealt out to the places generation by generation
  Roots,        \* directories
  Home,         \* the directory of a new store
  Budget,       \* objects the tier's quota admits
  MaxFaults     \* bound of the model: crashes, damaged files, undecodable images

ASSUME StoreAssumption ==
  /\ Slots \in Nat \ {0} /\ Objects \in Nat \ {0}
  /\ Home \in Roots /\ Budget \in Nat
  /\ MaxFaults \in Nat

VARIABLES
  rows,       \* objects table: key -> pending, ready or orphan
  desired,    \* wanted.desired of each slot, or NoKey
  current,    \* wanted.current of each slot, or NoKey
  location,   \* locations.path
  reloc,      \* the row of relocations, phase "none" when there is none
  recorded,   \* keys with a row in render_records
  files,      \* root -> key -> what the object's path holds
  root,       \* StoreConfig root of the tier, in memory
  at,         \* place inside a call, or idle, or closed
  cur,        \* key being published, copied or cleaned
  prev,       \* key the publication replaced, or NoKey
  record,     \* the publication brings a render record
  rem,        \* key remove() is working on, or NoKey
  unlinked,   \* remove() has unlinked the file
  retained,   \* the tier is thumbnails, which are never evicted
  managed,    \* file effects go through the filesystem worker
  spoiled,    \* keys with a file damaged from outside, or an image that does not decode
  doomed,     \* keys whose file remove() has unlinked and whose row it has not deleted
  faults      \* crashes, damaged files and undecodable images so far

NoKey == 0
Keys == 1 .. Objects
SlotOf(k) == 1 + ((k - 1) % Slots)
GenOf(k) == (k - 1) \div Slots
Places == 1 .. Slots

diskVars == <<rows, desired, current, location, reloc, recorded, files>>
actorVars == <<at, cur, prev, record>>
removeVars == <<rem, unlinked>>
modeVars == <<retained, managed>>
faultVars == <<spoiled, doomed, faults>>
storeVars == <<diskVars, root, actorVars, removeVars, modeVars, faultVars>>

NoRelocation == [phase |-> "none", source |-> Home, target |-> Home, cursor |-> NoKey]

StoreInit ==
  /\ rows = [k \in {} |-> "ready"]
  /\ desired = [s \in Places |-> NoKey] /\ current = [s \in Places |-> NoKey]
  /\ location = Home /\ root = Home
  /\ reloc = NoRelocation /\ recorded = {}
  /\ files = [r \in Roots |-> [k \in Keys |-> "none"]]
  /\ at = "idle" /\ cur = NoKey /\ prev = NoKey /\ record = FALSE
  /\ rem = NoKey /\ unlinked = FALSE
  /\ retained \in BOOLEAN /\ managed \in BOOLEAN
  /\ spoiled = {} /\ doomed = {} /\ faults = 0

-----------------------------------------------------------------------------
Ready == {k \in DOMAIN rows : rows[k] = "ready"}
Unfinished == DOMAIN rows \ Ready
Row(k, status) == [x \in DOMAIN rows \cup {k} |-> IF x = k THEN status ELSE rows[x]]

\* The actor is between two effects of a call at place p, with no removal.
In(p) == at = p /\ rem = NoKey
Idle == In("idle")

\* A call returns and forgets its locals.
Return(place) == at' = place /\ cur' = NoKey /\ prev' = NoKey /\ record' = FALSE

\* The rest of a call is given up; an open that fails leaves the store closed.
GivenUp == IF at = "opening" THEN "closed" ELSE "idle"

(***************************************************************************)
(* remove(): the file is unlinked, then the row, its render record and the *)
(* pointers to it go in one transaction.  Either half may fail.            *)
(***************************************************************************)
Unlink ==
  /\ rem # NoKey /\ ~unlinked
  /\ files' = [files EXCEPT ![root][rem] = "none"]
  /\ unlinked' = TRUE
  /\ doomed' = doomed \cup {rem}
  /\ UNCHANGED <<rows, desired, current, location, reloc, recorded, root, actorVars, rem,
                 modeVars, spoiled, faults>>

DeleteRow ==
  /\ unlinked
  /\ rows' = [k \in DOMAIN rows \ {rem} |-> rows[k]]
  /\ current' = [s \in Places |-> IF current[s] = rem THEN NoKey ELSE current[s]]
  /\ recorded' = recorded \ {rem}
  /\ rem' = NoKey /\ unlinked' = FALSE
  /\ doomed' = doomed \ {rem}
  /\ UNCHANGED <<desired, location, reloc, files, root, actorVars, modeVars, spoiled,
                 faults>>

RemoveFails ==
  /\ rem # NoKey
  /\ rem' = NoKey /\ unlinked' = FALSE
  /\ Return(GivenUp)
  /\ UNCHANGED <<diskVars, root, modeVars, faultVars>>

-----------------------------------------------------------------------------
(* Publication.                                                            *)

\* desire(): generations of a place never go back.
Desire(k) ==
  /\ Idle
  /\ desired[SlotOf(k)] = NoKey \/ GenOf(k) > GenOf(desired[SlotOf(k)])
  /\ desired' = [desired EXCEPT ![SlotOf(k)] = k]
  /\ UNCHANGED <<rows, current, location, reloc, recorded, files, root, actorVars,
                 removeVars, modeVars, faultVars>>

Intact(k) == current[SlotOf(k)] = k /\ k \in Ready /\ files[root][k] = "good"

\* Mutant: publication does not look at the relocation journal.
PublishAnytime == TRUE

NotRelocating == reloc.phase = "none"

\* An intact object is left alone, unless this publication brings the render
\* record it lacks (an object of publish(), or of a manifest of version 1).
Present(k, brings) == Intact(k) /\ (brings => k \in recorded)

\* publish_inner up to the removal of what is left of the key.
PublishBegin(k, brings) ==
  /\ Idle
  /\ NotRelocating
  /\ desired[SlotOf(k)] = k /\ ~Present(k, brings)
  /\ at' = "room" /\ cur' = k /\ prev' = NoKey /\ record' = brings
  /\ rem' = IF k \in DOMAIN rows THEN k ELSE NoKey
  /\ UNCHANGED <<diskVars, root, unlinked, modeVars, faultVars>>

\* An untracked file at the destination, or the quota, refuses the object.
PublishRefused ==
  /\ In("room")
  /\ \/ files[root][cur] # "none"
     \/ Cardinality(DOMAIN rows) >= Budget /\ (retained \/ Ready = {})
  /\ Return("idle")
  /\ UNCHANGED <<diskVars, root, removeVars, modeVars, faultVars>>

\* Mutant: thumbnails are evicted like large previews.
EvictAny == TRUE

Evictable == ~retained

\* make_room removes ready objects of the large tier, least recently touched
\* first; recency is left open.
Evict(k) ==
  /\ In("room")
  /\ files[root][cur] = "none"
  /\ Cardinality(DOMAIN rows) >= Budget /\ Evictable
  /\ k \in Ready
  /\ rem' = k
  /\ UNCHANGED <<diskVars, root, actorVars, unlinked, modeVars, faultVars>>

Stage ==
  /\ In("room")
  /\ files[root][cur] = "none" /\ Cardinality(DOMAIN rows) < Budget
  /\ rows' = Row(cur, "pending")
  /\ at' = "write"
  /\ UNCHANGED <<desired, current, location, reloc, recorded, files, root, cur, prev,
                 record, removeVars, modeVars, faultVars>>

\* The staging file is written, synced and renamed.
WriteObject ==
  /\ In("write")
  /\ files' = [files EXCEPT ![root][cur] = "good"]
  /\ at' = "attach"
  /\ UNCHANGED <<rows, desired, current, location, reloc, recorded, root, cur, prev,
                 record, removeVars, modeVars, faultVars>>

\* Staging failed, or the catalog says the identity is stale.
StageFails ==
  /\ at \in {"write", "attach"} /\ rem = NoKey
  /\ Return("idle") /\ rem' = cur
  /\ UNCHANGED <<diskVars, root, unlinked, modeVars, faultVars>>

\* The attachment's transaction, run by the catalog's authority.
Attach ==
  /\ In("attach")
  /\ LET s == SlotOf(cur)
         old == current[s]
     IN  /\ rows' = [k \in DOMAIN rows |->
                       IF k = cur THEN "ready" ELSE IF k = old THEN "orphan" ELSE rows[k]]
         /\ current' = [current EXCEPT ![s] = cur]
         /\ prev' = IF old \in DOMAIN rows \ {cur} THEN old ELSE NoKey
  /\ recorded' = IF record THEN recorded \cup {cur} ELSE recorded
  /\ at' = "attached"
  /\ UNCHANGED <<desired, location, reloc, files, root, cur, record, removeVars, modeVars,
                 faultVars>>

\* The replaced object is removed, unless the catalog's commit failed.
Attached ==
  /\ In("attached")
  /\ Return("idle")
  /\ rem' \in {prev, NoKey}
  /\ UNCHANGED <<diskVars, root, unlinked, modeVars, faultVars>>

-----------------------------------------------------------------------------
(* Reads and recovery.                                                     *)

\* Locally a rejected object is removed; a managed read only marks its row for
\* recovery.
Reject(k) ==
  \/ managed /\ rows' = Row(k, "orphan") /\ UNCHANGED rem
  \/ ~managed /\ rem' = k /\ UNCHANGED rows

\* What a read of the place returns: an older generation is a fallback for
\* thumbnails only.
Served(s) == (current[s] = desired[s] \/ retained) /\ current[s] \in Ready

\* A read of an object that is missing or does not have its checksum.
ReadInvalid(s) ==
  /\ Idle
  /\ Served(s) /\ files[root][current[s]] # "good"
  /\ Reject(current[s])
  /\ UNCHANGED <<desired, current, location, reloc, recorded, files, root, actorVars,
                 unlinked, modeVars, faultVars>>

\* invalidate(): the bytes have their checksum, and the image does not decode.
Invalidate(s) ==
  /\ Idle /\ faults < MaxFaults
  /\ Served(s) /\ files[root][current[s]] = "good"
  /\ Reject(current[s])
  /\ faults' = faults + 1
  /\ spoiled' = spoiled \cup {current[s]}
  /\ UNCHANGED <<desired, current, location, reloc, recorded, files, root, actorVars,
                 unlinked, modeVars, doomed>>

\* recover(): at open, and later from the service's maintenance.
Recover(k) ==
  /\ Idle \/ In("opening")
  /\ k \in Unfinished
  /\ rem' = k
  /\ UNCHANGED <<diskVars, root, actorVars, unlinked, modeVars, faultVars>>

\* current_configuration: the manifest's location is authoritative.
Open ==
  /\ In("closed")
  /\ at' = "opening" /\ root' = location
  /\ UNCHANGED <<diskVars, cur, prev, record, removeVars, modeVars, faultVars>>

Opened ==
  /\ In("opening")
  /\ Unfinished = {}
  /\ at' = "idle"
  /\ UNCHANGED <<diskVars, root, cur, prev, record, removeVars, modeVars, faultVars>>

-----------------------------------------------------------------------------
(* Relocation.  One entry per call of relocation_step.                     *)

Relocate(phase) == Idle /\ reloc.phase = phase

\* begin_relocation: everything is recovered, the destination holds nothing.
BeginRelocation(target) ==
  /\ Relocate("none")
  /\ Unfinished = {}
  /\ target # root /\ \A k \in Keys : files[target][k] = "none"
  /\ reloc' = [phase |-> "copy", source |-> root, target |-> target, cursor |-> NoKey]
  /\ UNCHANGED <<rows, desired, current, location, recorded, files, root, actorVars,
                 removeVars, modeVars, faultVars>>

Left == {k \in Ready : k > reloc.cursor}
NextObject == {k \in Left : \A j \in Left : k <= j}

\* A copy that is not there yet is written, hashed and linked, if the source
\* still has its checksum.
CopyFile(k) ==
  /\ Relocate("copy") /\ k \in NextObject
  /\ files[reloc.target][k] = "none" /\ files[reloc.source][k] = "good"
  /\ files' = [files EXCEPT ![reloc.target][k] = "good"]
  /\ at' = "moved" /\ cur' = k
  /\ UNCHANGED <<rows, desired, current, location, reloc, recorded, root, prev, record,
                 removeVars, modeVars, faultVars>>

\* One that is there, from a call that was interrupted, is verified.
CopyVerified(k) ==
  /\ Relocate("copy") /\ k \in NextObject
  /\ files[reloc.target][k] = "good"
  /\ at' = "moved" /\ cur' = k
  /\ UNCHANGED <<diskVars, root, prev, record, removeVars, modeVars, faultVars>>

\* Both copies are verified before the old one is unlinked.
CleanupFile(k) ==
  /\ Relocate("cleanup") /\ root = reloc.target /\ k \in NextObject
  /\ files[reloc.target][k] = "good" /\ files[reloc.source][k] # "bad"
  /\ files' = [files EXCEPT ![reloc.source][k] = "none"]
  /\ at' = "moved" /\ cur' = k
  /\ UNCHANGED <<rows, desired, current, location, reloc, recorded, root, prev, record,
                 removeVars, modeVars, faultVars>>

MoveCursor ==
  /\ In("moved")
  /\ reloc' = [reloc EXCEPT !.cursor = cur]
  /\ Return("idle")
  /\ UNCHANGED <<rows, desired, current, location, recorded, files, root, removeVars,
                 modeVars, faultVars>>

\* Mutant: the switch keeps the cursor.
CleanupCursorKept == reloc.cursor

CleanupCursor == NoKey
Copied == Left = {}

\* The transaction that moves the location and begins the cleanup.
Switch ==
  /\ Relocate("copy") /\ Copied
  /\ location' = reloc.target
  /\ reloc' = [reloc EXCEPT !.phase = "cleanup", !.cursor = CleanupCursor]
  /\ at' = "promote"
  /\ UNCHANGED <<rows, desired, current, recorded, files, root, cur, prev, record,
                 removeVars, modeVars, faultVars>>

\* The store works in the new root; the reply of the worker may be lost.
Promote ==
  /\ In("promote")
  /\ at' = "idle"
  /\ root' = reloc.target \/ (managed /\ UNCHANGED root)
  /\ UNCHANGED <<diskVars, cur, prev, record, removeVars, modeVars, faultVars>>

\* Mutant: a later step refuses a root that differs from the journal's.
ReconcileNever == FALSE /\ UNCHANGED storeVars

\* A later step asks for the promotion again before anything else.
Reconcile ==
  /\ Relocate("cleanup") /\ root # reloc.target
  /\ root' = reloc.target
  /\ UNCHANGED <<diskVars, actorVars, removeVars, modeVars, faultVars>>

EndRelocation ==
  /\ Relocate("cleanup") /\ root = reloc.target /\ Left = {}
  /\ reloc' = NoRelocation
  /\ UNCHANGED <<rows, desired, current, location, recorded, files, root, actorVars,
                 removeVars, modeVars, faultVars>>

-----------------------------------------------------------------------------
(* Around the store.                                                       *)

Crash ==
  /\ faults < MaxFaults
  /\ faults' = faults + 1
  /\ Return("closed") /\ rem' = NoKey /\ unlinked' = FALSE
  /\ UNCHANGED <<diskVars, root, modeVars, spoiled, doomed>>

\* A file of the store is overwritten or deleted by someone else.
Damage(r, k) ==
  /\ faults < MaxFaults
  /\ files[r][k] = "good"
  /\ faults' = faults + 1
  /\ spoiled' = spoiled \cup {k}
  /\ \E left \in {"none", "bad"} : files' = [files EXCEPT ![r][k] = left]
  /\ UNCHANGED <<rows, desired, current, location, reloc, recorded, root, actorVars,
                 removeVars, modeVars, doomed>>

RelocationStep ==
  \/ \E k \in Keys : CopyFile(k) \/ CopyVerified(k) \/ CleanupFile(k)
  \/ MoveCursor \/ Switch \/ Promote \/ Reconcile \/ EndRelocation

StoreNext ==
  \/ Unlink \/ DeleteRow \/ RemoveFails
  \/ \E k \in Keys : Desire(k) \/ Evict(k) \/ Recover(k)
  \/ \E k \in Keys, brings \in BOOLEAN : PublishBegin(k, brings)
  \/ PublishRefused \/ Stage \/ WriteObject \/ StageFails \/ Attach \/ Attached
  \/ \E s \in Places : ReadInvalid(s) \/ Invalidate(s)
  \/ Open \/ Opened
  \/ \E r \in Roots : BeginRelocation(r)
  \/ RelocationStep
  \/ Crash
  \/ \E r \in Roots, k \in Keys : Damage(r, k)

StoreSpec == StoreInit /\ [][StoreNext]_storeVars

(***************************************************************************)
(* Fairness: a call runs to its end, the store is opened again after a     *)
(* crash, and a pending relocation is stepped.  Nothing is retried for     *)
(* ever without success: a promotion that is asked for again and again is  *)
(* answered, and so is an unlink.  What a place shows is read again.       *)
(***************************************************************************)
StoreFairness ==
  /\ SF_storeVars(Unlink)
  /\ SF_storeVars(DeleteRow)
  /\ WF_storeVars(Stage \/ WriteObject \/ StageFails \/ Attach \/ Attached \/ PublishRefused
                    \/ \E k \in Keys : Evict(k))
  /\ WF_storeVars(Open)
  /\ WF_storeVars(Opened)
  /\ WF_storeVars(\E k \in Keys : In("opening") /\ Recover(k))
  /\ SF_storeVars(RelocationStep)
  /\ WF_storeVars(\E s \in Places : ReadInvalid(s))

StoreLiveSpec == StoreSpec /\ StoreFairness

-----------------------------------------------------------------------------
(***************************************************************************)
(* An object the manifest calls ready can be read, at the recorded         *)
(* location and at the root in memory, through publication, eviction,      *)
(* relocation, a lost promotion and a crash between any two effects,       *)
(* unless its file was damaged from outside, its image does not decode or  *)
(* its removal has begun.                                                  *)
(***************************************************************************)
ReadyReadable ==
  \A k \in Ready \ (spoiled \cup doomed) :
    /\ files[location][k] = "good"
    /\ at \notin {"closed", "promote"} => files[root][k] = "good"

(***************************************************************************)
(* No file is lost sight of: between relocations an object file lies at    *)
(* the recorded location under a row of the manifest, unless the object    *)
(* was damaged from outside or its image does not decode.                  *)
(***************************************************************************)
ObjectsTracked ==
  reloc.phase = "none" =>
    \A r \in Roots, k \in Keys \ spoiled :
      files[r][k] # "none" => r = location /\ k \in DOMAIN rows

(***************************************************************************)
(* "retained thumbnail": what a place shows stays readable until it is     *)
(* replaced, whatever fails, is interrupted or exceeds the quota.  What    *)
(* takes a thumbnail away is damage from outside, an image that does not   *)
(* decode, and a publication of the same key that brings the render record *)
(* the object lacks: publish_inner removes the object before it stages.    *)
(***************************************************************************)
Shown(s) == current[s] \in Ready /\ files[root][current[s]] = "good"
Superseded(s) == current[s] = cur /\ record /\ cur \notin recorded
ThumbnailsKept ==
  [][\A s \in Places :
       retained /\ Shown(s) =>
         \/ Shown(s)'
         \/ {current[s], current'[s]} \cap spoiled' # {}
         \/ Superseded(s)]_storeVars

(***************************************************************************)
(* A relocation that is stepped often enough ends, whatever was            *)
(* interrupted, unless a ready row has lost its file: to damage from       *)
(* outside, or to a removal that was cut off between the file and the row  *)
(* (also the one of an image that does not decode).                        *)
(***************************************************************************)
RelocationEnds ==
  reloc.phase # "none" ~> reloc.phase = "none" \/ Ready \cap (spoiled \cup doomed) # {}

(***************************************************************************)
(* "Errors preserve progress, source files and readable copies for         *)
(* explicit retry": with no file damaged from outside, retrying ends the   *)
(* relocation.                                                             *)
(***************************************************************************)
RetryEndsRelocation == reloc.phase # "none" ~> reloc.phase = "none" \/ spoiled # {}

=============================================================================
