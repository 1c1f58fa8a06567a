------------------------- MODULE PreviewStoreProofs -------------------------
(***************************************************************************)
(* Proofs about PreviewStore for any number of places, objects and         *)
(* directories, any quota and any number of crashes and damaged files.     *)
(*                                                                         *)
(* The inductive invariant says, of every object that nobody damaged, in   *)
(* which directories its file may lie and in which it must, by the phase   *)
(* of the relocation and the cursor; and of every removal, that it takes   *)
(* nothing a reader could still be shown.                                  *)
(***************************************************************************)
EXTENDS PreviewStore, TLAPS

KeyOrNone == Keys \cup {NoKey}
Contents == {"none", "good", "bad"}
Steps == {"idle", "closed", "opening", "room", "write", "attach", "attached", "moved", "promote"}
Relocations == [phase : {"none", "copy", "cleanup"}, source : Roots, target : Roots,
                cursor : KeyOrNone]

TypeOK ==
  /\ DOMAIN rows \subseteq Keys
  /\ desired \in [Places -> KeyOrNone] /\ current \in [Places -> KeyOrNone]
  /\ location \in Roots /\ root \in Roots
  /\ reloc \in Relocations /\ recorded \subseteq Keys
  /\ files \in [Roots -> [Keys -> Contents]]
  /\ at \in Steps /\ cur \in KeyOrNone /\ prev \in KeyOrNone /\ rem \in KeyOrNone
  /\ record \in BOOLEAN /\ unlinked \in BOOLEAN
  /\ retained \in BOOLEAN /\ managed \in BOOLEAN
  /\ spoiled \subseteq Keys /\ doomed \subseteq Keys

(* A place shows only an object of its own.                                *)
PlacesFit == \A s \in Places : current[s] # NoKey => SlotOf(current[s]) = s

Lost == spoiled \cup doomed

(* What remove() may be asked to take: during a relocation only what is    *)
(* lost already, of thumbnails nothing that can be shown and is neither    *)
(* spoiled nor about to get its render record.                             *)
GetsRecord(k) == k = cur /\ record /\ k \notin recorded
Removable(k) ==
  /\ k \in DOMAIN rows
  /\ reloc.phase # "none" => k \in Lost
  /\ retained => \A s \in Places :
       current[s] = k /\ k \in Ready =>
         files[root][k] # "good" \/ k \in spoiled \/ GetsRecord(k)

RemovalFits ==
  /\ rem # NoKey => Removable(rem)
  /\ unlinked => rem \in doomed
  /\ doomed \subseteq DOMAIN rows
  /\ \A k \in doomed \ spoiled, r \in Roots : files[r][k] = "none"

(* The publication in progress.                                            *)
Staged == cur \in DOMAIN rows \ (Ready \cup doomed)

PublicationFits ==
  /\ at \in {"room", "write", "attach", "attached"} => reloc.phase = "none" /\ cur \in Keys
  /\ at = "room" => rem = cur \/ cur \notin DOMAIN rows
  /\ at \in {"write", "attach"} => rem = NoKey /\ Staged
  /\ at = "attach" => cur \in spoiled \/ files[root][cur] = "good"
  /\ at = "attached" => rem = NoKey /\ (prev # NoKey => prev \in Unfinished)

(* The directory the store works in, and the relocation's.                 *)
RootFits ==
  /\ reloc.phase = "none" => root = location
  /\ reloc.phase # "none" => reloc.source # reloc.target
  /\ reloc.phase = "copy" => location = reloc.source /\ root = reloc.source
  /\ reloc.phase = "cleanup" => location = reloc.target /\ root \in {reloc.source, reloc.target}
  /\ at = "promote" => reloc.phase = "cleanup"
  /\ at = "moved" => /\ reloc.phase # "none" /\ rem = NoKey /\ cur \in Keys
                     /\ reloc.phase = "cleanup" => root = reloc.target

(* Every object that is ready and not lost can be read in both.            *)
Readable ==
  \A k \in Ready \ Lost : files[location][k] = "good" /\ files[root][k] = "good"

(* What the cursor has passed, and the object the call is about.           *)
Passed(k) == k <= reloc.cursor \/ (at = "moved" /\ k <= cur)

RelocationFits ==
  /\ reloc.phase # "none" => Unfinished \subseteq Lost
  /\ reloc.phase = "copy" =>
       \A k \in Ready \ Lost : Passed(k) => files[reloc.target][k] = "good"

(* Where the file of an object that is not spoiled may lie.                *)
MayLie(r, k) ==
  /\ reloc.phase = "none" => r = location
  /\ reloc.phase = "copy" => r \in {reloc.source, reloc.target}
  /\ reloc.phase = "cleanup" => r = reloc.target \/ (r = reloc.source /\ ~Passed(k))

FilesFit ==
  \A r \in Roots, k \in Keys \ spoiled :
    files[r][k] # "none" => k \in DOMAIN rows /\ MayLie(r, k)

IInv ==
  /\ TypeOK
  /\ PlacesFit
  /\ RemovalFits
  /\ PublicationFits
  /\ RootFits
  /\ Readable
  /\ RelocationFits
  /\ FilesFit

-----------------------------------------------------------------------------
(* The operators.                                                          *)

LEMMA SlotIsPlace ==
  ASSUME NEW k \in Keys
  PROVE  SlotOf(k) \in Places
<1>1. Slots \in Nat /\ Slots # 0
  BY StoreAssumption
<1>2. k - 1 \in Nat
  BY DEF Keys
<1>3. (k - 1) % Slots \in 0 .. Slots - 1
  BY <1>1, <1>2
<1>4. QED
  BY <1>1, <1>3 DEF SlotOf, Places

LEMMA KeyFacts == NoKey \notin Keys /\ Keys \subseteq Nat /\ NoKey = 0
BY DEF Keys, NoKey

LEMMA FileSet ==
  ASSUME files \in [Roots -> [Keys -> Contents]], NEW r \in Roots, NEW k \in Keys,
         NEW v \in Contents, files' = [files EXCEPT ![r][k] = v]
  PROVE  /\ files' \in [Roots -> [Keys -> Contents]]
         /\ \A q \in Roots, j \in Keys :
              files'[q][j] = IF q = r /\ j = k THEN v ELSE files[q][j]
<1>1. files' = [files EXCEPT ![r] = [files[r] EXCEPT ![k] = v]]
  OBVIOUS
<1>2. files[r] \in [Keys -> Contents]
  OBVIOUS
<1>3. [files[r] EXCEPT ![k] = v] \in [Keys -> Contents]
  BY <1>2
<1>4. files' \in [Roots -> [Keys -> Contents]]
  BY <1>1, <1>3
<1>5. QED
  BY <1>1, <1>2, <1>4

LEMMA RelocFacts ==
  ASSUME TypeOK
  PROVE  /\ reloc.phase \in {"none", "copy", "cleanup"}
         /\ reloc.source \in Roots /\ reloc.target \in Roots /\ reloc.cursor \in Nat
<1>1. reloc \in Relocations
  BY DEF TypeOK
<1>2. reloc.cursor \in KeyOrNone
  BY <1>1 DEF Relocations
<1>3. KeyOrNone \subseteq Nat
  BY KeyFacts DEF KeyOrNone
<1>4. QED
  BY <1>1, <1>2, <1>3 DEF Relocations

-----------------------------------------------------------------------------
(* Steps of the actor that leave manifest and files alone: they choose     *)
(* what to remove next, or where the call goes on.                         *)

LEMMA ActorKeeps ==
  ASSUME IInv, UNCHANGED <<rows, current, location, reloc, recorded, files, root, modeVars, doomed>>,
         desired' \in [Places -> KeyOrNone],
         at' \in Steps, cur' \in KeyOrNone, prev' \in KeyOrNone, rem' \in KeyOrNone,
         record' \in BOOLEAN, unlinked' \in BOOLEAN,
         spoiled \subseteq spoiled', spoiled' \subseteq Keys,
         unlinked' => unlinked /\ rem' = rem,
         rem' # NoKey => Removable(rem)',
         at' \notin {"promote", "moved"} \/ (at' = at /\ cur' = cur /\ rem' = NoKey),
         PublicationFits'
  PROVE  IInv'
<1> USE DEF IInv, modeVars
<1>1. TypeOK'
  BY DEF TypeOK
<1>2. PlacesFit' /\ RemovalFits'
  BY DEF PlacesFit, RemovalFits
<1>3. RootFits'
  BY DEF RootFits
<1>4. Ready' = Ready /\ Unfinished' = Unfinished /\ Lost \subseteq Lost'
  BY DEF Ready, Unfinished, Lost
<1>5. Readable'
  BY <1>4 DEF Readable
<1>6. \A k : Passed(k)' => Passed(k)
  BY DEF Passed
<1>7. RelocationFits'
  BY <1>4, <1>6 DEF RelocationFits
<1>8. FilesFit'
  <2>1. \A r, k : MayLie(r, k) => MayLie(r, k)'
    BY <1>6 DEF MayLie
  <2>2. QED
    BY <2>1 DEF FilesFit
<1>9. QED
  BY <1>1, <1>2, <1>3, <1>5, <1>7, <1>8

LEMMA RemoveFailsKeeps ==
  ASSUME IInv, RemoveFails \/ Crash
  PROVE  IInv'
<1> USE DEF IInv
<1>1. /\ UNCHANGED <<rows, desired, current, location, reloc, recorded, files, root, modeVars,
                     spoiled, doomed>>
      /\ rem' = NoKey /\ unlinked' = FALSE /\ cur' = NoKey /\ prev' = NoKey /\ record' = FALSE
      /\ at' \in {"idle", "closed"}
  BY DEF RemoveFails, Crash, Return, GivenUp, diskVars, faultVars
<1>2. PublicationFits'
  BY <1>1 DEF PublicationFits
<1>3. QED
  BY <1>1, <1>2, ActorKeeps DEF TypeOK, KeyOrNone, Steps

LEMMA DesireKeeps ==
  ASSUME IInv, NEW k \in Keys, Desire(k)
  PROVE  IInv'
<1> USE DEF IInv
<1>1. /\ UNCHANGED <<rows, current, location, reloc, recorded, files, root, modeVars, spoiled,
                     doomed, at, cur, prev, record, rem, unlinked>>
      /\ at = "idle" /\ rem = NoKey
      /\ desired' = [desired EXCEPT ![SlotOf(k)] = k]
  BY DEF Desire, Idle, In, actorVars, removeVars, faultVars
<1>2. desired' \in [Places -> KeyOrNone]
  BY <1>1 DEF TypeOK, KeyOrNone
<1>3. PublicationFits'
  BY <1>1 DEF PublicationFits
<1>4. QED
  BY <1>1, <1>2, <1>3, ActorKeeps DEF TypeOK

LEMMA PublishBeginKeeps ==
  ASSUME IInv, NEW k \in Keys, NEW brings \in BOOLEAN, PublishBegin(k, brings)
  PROVE  IInv'
<1> USE DEF IInv
<1>1. /\ UNCHANGED <<rows, desired, current, location, reloc, recorded, files, root, modeVars,
                     spoiled, doomed, unlinked>>
      /\ at = "idle" /\ rem = NoKey /\ reloc.phase = "none" /\ ~Present(k, brings)
      /\ at' = "room" /\ cur' = k /\ prev' = NoKey /\ record' = brings
      /\ rem' = IF k \in DOMAIN rows THEN k ELSE NoKey
  BY DEF PublishBegin, NotRelocating, Idle, In, diskVars, faultVars
<1>2. PublicationFits'
  BY <1>1 DEF PublicationFits
<1>3. k \in DOMAIN rows => Removable(k)'
  <2>1. ASSUME NEW s \in Places, current[s] = k, k \in Ready, files[root][k] = "good"
        PROVE  brings /\ k \notin recorded
    BY <1>1, <2>1, KeyFacts DEF Present, Intact, PlacesFit
  <2>2. Ready' = Ready
    BY <1>1 DEF Ready
  <2>3. QED
    BY <1>1, <2>1, <2>2 DEF Removable, GetsRecord, modeVars
<1>4. ~unlinked
  BY <1>1, KeyFacts DEF RemovalFits, TypeOK
<1>5. QED
  BY <1>1, <1>2, <1>3, <1>4, ActorKeeps DEF TypeOK, KeyOrNone, Steps

LEMMA PublishRefusedKeeps ==
  ASSUME IInv, PublishRefused
  PROVE  IInv'
<1> USE DEF IInv
<1>1. /\ UNCHANGED <<rows, desired, current, location, reloc, recorded, files, root, modeVars,
                     spoiled, doomed, rem, unlinked>>
      /\ rem = NoKey /\ at' = "idle" /\ cur' = NoKey /\ prev' = NoKey /\ record' = FALSE
  BY DEF PublishRefused, In, Return, diskVars, faultVars, removeVars
<1>2. PublicationFits'
  BY <1>1 DEF PublicationFits
<1>3. QED
  BY <1>1, <1>2, ActorKeeps DEF TypeOK, KeyOrNone, Steps

LEMMA EvictKeeps ==
  ASSUME IInv, NEW k \in Keys, Evict(k)
  PROVE  IInv'
<1> USE DEF IInv
<1>1. /\ UNCHANGED <<rows, desired, current, location, reloc, recorded, files, root, modeVars,
                     spoiled, doomed, at, cur, prev, record, unlinked>>
      /\ at = "room" /\ rem = NoKey /\ ~retained /\ k \in Ready /\ rem' = k
  BY DEF Evict, Evictable, In, diskVars, faultVars, actorVars
<1>2. reloc.phase = "none" /\ cur \in Keys /\ cur \notin DOMAIN rows
  BY <1>1, KeyFacts DEF PublicationFits
<1>3. PublicationFits'
  BY <1>1, <1>2 DEF PublicationFits
<1>4. Removable(rem)' /\ ~unlinked
  BY <1>1, <1>2, KeyFacts DEF Removable, Ready, RemovalFits, TypeOK, modeVars
<1>5. QED
  BY <1>1, <1>3, <1>4, ActorKeeps DEF TypeOK, KeyOrNone

LEMMA RecoverKeeps ==
  ASSUME IInv, NEW k \in Keys, Recover(k)
  PROVE  IInv'
<1> USE DEF IInv
<1>1. /\ UNCHANGED <<rows, desired, current, location, reloc, recorded, files, root, modeVars,
                     spoiled, doomed, at, cur, prev, record, unlinked>>
      /\ at \in {"idle", "opening"} /\ rem = NoKey /\ k \in Unfinished /\ rem' = k
  BY DEF Recover, Idle, In, diskVars, faultVars, actorVars
<1>2. PublicationFits'
  BY <1>1 DEF PublicationFits
<1>3. Removable(rem)' /\ ~unlinked
  BY <1>1, KeyFacts DEF Removable, Unfinished, Ready, Lost, RemovalFits, RelocationFits, TypeOK
<1>4. QED
  BY <1>1, <1>2, <1>3, ActorKeeps DEF TypeOK, KeyOrNone

LEMMA StageFailsKeeps ==
  ASSUME IInv, StageFails
  PROVE  IInv'
<1> USE DEF IInv
<1>1. /\ UNCHANGED <<rows, desired, current, location, reloc, recorded, files, root, modeVars,
                     spoiled, doomed, unlinked>>
      /\ at \in {"write", "attach"} /\ rem = NoKey /\ rem' = cur
      /\ at' = "idle" /\ cur' = NoKey /\ prev' = NoKey /\ record' = FALSE
  BY DEF StageFails, Return, diskVars, faultVars
<1>2. PublicationFits'
  BY <1>1 DEF PublicationFits
<1>3. Removable(rem)' /\ ~unlinked /\ cur \in Keys
  BY <1>1, KeyFacts DEF PublicationFits, Staged, Removable, Ready, RemovalFits, TypeOK
<1>4. QED
  BY <1>1, <1>2, <1>3, ActorKeeps DEF TypeOK, KeyOrNone, Steps

LEMMA AttachedKeeps ==
  ASSUME IInv, Attached
  PROVE  IInv'
<1> USE DEF IInv
<1>1. /\ UNCHANGED <<rows, desired, current, location, reloc, recorded, files, root, modeVars,
                     spoiled, doomed, unlinked>>
      /\ at = "attached" /\ rem = NoKey /\ rem' \in {prev, NoKey}
      /\ at' = "idle" /\ cur' = NoKey /\ prev' = NoKey /\ record' = FALSE
  BY DEF Attached, In, Return, diskVars, faultVars
<1>2. PublicationFits'
  BY <1>1 DEF PublicationFits
<1>3. (rem' # NoKey => Removable(rem)') /\ ~unlinked
  BY <1>1, KeyFacts DEF PublicationFits, Unfinished, Ready, Removable, RemovalFits, TypeOK
<1>4. QED
  BY <1>1, <1>2, <1>3, ActorKeeps DEF TypeOK, KeyOrNone, Steps

LEMMA OpenedKeeps ==
  ASSUME IInv, Opened
  PROVE  IInv'
<1> USE DEF IInv
<1>1. /\ UNCHANGED <<rows, desired, current, location, reloc, recorded, files, root, modeVars,
                     spoiled, doomed, cur, prev, record, rem, unlinked>>
      /\ rem = NoKey /\ at' = "idle"
  BY DEF Opened, In, diskVars, faultVars, removeVars
<1>2. PublicationFits'
  BY <1>1 DEF PublicationFits
<1>3. QED
  BY <1>1, <1>2, ActorKeeps DEF TypeOK, KeyOrNone, Steps

-----------------------------------------------------------------------------
(* Removal.                                                                *)

LEMMA UnlinkKeeps ==
  ASSUME IInv, Unlink
  PROVE  IInv'
<1> USE DEF IInv
<1>1. /\ rem # NoKey /\ files' = [files EXCEPT ![root][rem] = "none"]
      /\ unlinked' = TRUE /\ doomed' = doomed \cup {rem}
      /\ UNCHANGED <<rows, desired, current, location, reloc, recorded, root, at, cur, prev,
                     record, rem, retained, managed, spoiled>>
  BY DEF Unlink, actorVars, modeVars
<1>2. rem \in Keys /\ root \in Roots /\ Removable(rem)
  BY <1>1 DEF TypeOK, KeyOrNone, RemovalFits
<1>3. /\ files' \in [Roots -> [Keys -> Contents]]
      /\ \A q \in Roots, j \in Keys :
           files'[q][j] = IF q = root /\ j = rem THEN "none" ELSE files[q][j]
  BY <1>1, <1>2, FileSet DEF TypeOK, Contents
<1>4. Ready' = Ready /\ Unfinished' = Unfinished
  BY <1>1 DEF Ready, Unfinished
<1>5. TypeOK'
  BY <1>1, <1>2, <1>3 DEF TypeOK
<1>6. RemovalFits'
  <2>1. Removable(rem)'
    BY <1>1, <1>2, <1>3, <1>4 DEF Removable, Lost, GetsRecord
  <2>2. ASSUME NEW r \in Roots, rem \notin spoiled
        PROVE  files'[r][rem] = "none"
    <3>1. CASE reloc.phase = "none"
      BY <1>2, <1>3, <2>2, <3>1 DEF FilesFit, MayLie, RootFits
    <3>2. CASE reloc.phase # "none"
      BY <1>2, <1>3, <2>2, <3>2 DEF Removable, Lost, RemovalFits
    <3>3. QED
      BY <3>1, <3>2
  <2>3. \A k \in doomed' \ spoiled', r \in Roots : files'[r][k] = "none"
    BY <1>1, <1>2, <1>3, <2>2 DEF RemovalFits, TypeOK
  <2>4. doomed' \subseteq DOMAIN rows'
    BY <1>1, <1>2 DEF RemovalFits, Removable
  <2>5. QED
    BY <1>1, <2>1, <2>3, <2>4 DEF RemovalFits
<1>7. PlacesFit' /\ RootFits'
  BY <1>1 DEF PlacesFit, RootFits
<1>8. PublicationFits'
  BY <1>1 DEF PublicationFits
<1>9. Readable'
  BY <1>1, <1>2, <1>3, <1>4 DEF Readable, Lost, Ready, TypeOK
<1>10. RelocationFits'
  <2>1. \A k : Passed(k)' = Passed(k)
    BY <1>1 DEF Passed
  <2>2. \A k \in Ready' \ Lost' : k \in Ready \ Lost /\ k \in Keys /\ k # rem
    BY <1>1, <1>4 DEF Lost, Ready, TypeOK
  <2>3. QED
    BY <1>1, <1>3, <1>4, <2>1, <2>2, RelocFacts DEF RelocationFits, Lost
<1>11. FilesFit'
  <2>1. \A r, k : MayLie(r, k)' = MayLie(r, k)
    BY <1>1 DEF MayLie, Passed
  <2>2. QED
    BY <1>1, <1>3, <2>1 DEF FilesFit
<1>12. QED
  BY <1>5, <1>6, <1>7, <1>8, <1>9, <1>10, <1>11

LEMMA DeleteRowKeeps ==
  ASSUME IInv, DeleteRow
  PROVE  IInv'
<1> USE DEF IInv
<1>1. /\ unlinked /\ rows' = [k \in DOMAIN rows \ {rem} |-> rows[k]]
      /\ current' = [s \in Places |-> IF current[s] = rem THEN NoKey ELSE current[s]]
      /\ rem' = NoKey /\ unlinked' = FALSE /\ doomed' = doomed \ {rem}
      /\ recorded' = recorded \ {rem}
      /\ UNCHANGED <<desired, location, reloc, files, root, at, cur, prev, record,
                     retained, managed, spoiled>>
  BY DEF DeleteRow, actorVars, modeVars
<1>2. rem \in doomed /\ rem \in Keys /\ rem # NoKey
  BY <1>1, KeyFacts DEF RemovalFits, TypeOK
<1>3. /\ DOMAIN rows' = DOMAIN rows \ {rem} /\ Ready' = Ready \ {rem}
      /\ Unfinished' = Unfinished \ {rem}
  BY <1>1 DEF Ready, Unfinished
<1>4. TypeOK'
  BY <1>1, <1>3 DEF TypeOK, KeyOrNone
<1>5. PlacesFit' /\ RootFits'
  BY <1>1 DEF PlacesFit, RootFits
<1>6. RemovalFits'
  BY <1>1, <1>3, KeyFacts DEF RemovalFits
<1>7. PublicationFits'
  BY <1>1, <1>2, <1>3 DEF PublicationFits
<1>8. Ready' \ Lost' \subseteq Ready \ Lost /\ (Unfinished \subseteq Lost => Unfinished' \subseteq Lost')
  BY <1>1, <1>3 DEF Lost
<1>9. Readable'
  BY <1>1, <1>8 DEF Readable
<1>10. RelocationFits'
  <2>1. \A k : Passed(k)' = Passed(k)
    BY <1>1 DEF Passed
  <2>2. QED
    BY <1>1, <1>8, <2>1 DEF RelocationFits
<1>11. FilesFit'
  <2>1. \A r, k : MayLie(r, k)' = MayLie(r, k)
    BY <1>1 DEF MayLie, Passed
  <2>2. QED
    BY <1>1, <1>2, <1>3, <2>1 DEF FilesFit, RemovalFits
<1>12. QED
  BY <1>4, <1>5, <1>6, <1>7, <1>9, <1>10, <1>11

-----------------------------------------------------------------------------
(* Publication: between relocations, in the one directory there is.        *)

LEMMA StageKeeps ==
  ASSUME IInv, Stage
  PROVE  IInv'
<1> USE DEF IInv
<1>1. /\ at = "room" /\ rem = NoKey /\ rows' = Row(cur, "pending") /\ at' = "write"
      /\ UNCHANGED <<desired, current, location, reloc, recorded, files, root, cur, prev, record,
                     rem, unlinked, retained, managed, spoiled, doomed>>
  BY DEF Stage, In, removeVars, modeVars, faultVars
<1>2. cur \in Keys /\ cur \notin DOMAIN rows /\ reloc.phase = "none" /\ cur \notin doomed
  BY <1>1, KeyFacts DEF PublicationFits, RemovalFits
<1>3. /\ DOMAIN rows' = DOMAIN rows \cup {cur} /\ Ready' = Ready /\ cur \notin Ready
  BY <1>1, <1>2 DEF Ready, Row
<1>4. TypeOK'
  BY <1>1, <1>2, <1>3 DEF TypeOK, Steps
<1>5. PlacesFit' /\ RootFits'
  BY <1>1, <1>2 DEF PlacesFit, RootFits
<1>6. RemovalFits'
  BY <1>1, <1>3 DEF RemovalFits
<1>7. PublicationFits'
  BY <1>1, <1>2, <1>3 DEF PublicationFits, Staged
<1>8. Readable' /\ RelocationFits'
  BY <1>1, <1>2, <1>3 DEF Readable, RelocationFits, Lost
<1>9. FilesFit'
  BY <1>1, <1>2, <1>3 DEF FilesFit, MayLie
<1>10. QED
  BY <1>4, <1>5, <1>6, <1>7, <1>8, <1>9

LEMMA WriteObjectKeeps ==
  ASSUME IInv, WriteObject
  PROVE  IInv'
<1> USE DEF IInv
<1>1. /\ at = "write" /\ rem = NoKey /\ files' = [files EXCEPT ![root][cur] = "good"]
      /\ at' = "attach"
      /\ UNCHANGED <<rows, desired, current, location, reloc, recorded, root, cur, prev, record,
                     rem, unlinked, retained, managed, spoiled, doomed>>
  BY DEF WriteObject, In, removeVars, modeVars, faultVars
<1>2. cur \in Keys /\ root \in Roots /\ reloc.phase = "none" /\ root = location /\ Staged
  BY <1>1 DEF PublicationFits, TypeOK, RootFits
<1>3. /\ files' \in [Roots -> [Keys -> Contents]]
      /\ \A q \in Roots, j \in Keys :
           files'[q][j] = IF q = root /\ j = cur THEN "good" ELSE files[q][j]
  BY <1>1, <1>2, FileSet DEF TypeOK, Contents
<1>4. Ready' = Ready /\ Ready \subseteq Keys
  BY <1>1 DEF Ready, TypeOK
<1>5. TypeOK'
  BY <1>1, <1>3 DEF TypeOK, Steps
<1>6. PlacesFit' /\ RootFits'
  BY <1>1, <1>2 DEF PlacesFit, RootFits
<1>7. RemovalFits'
  BY <1>1, <1>2, <1>3 DEF RemovalFits, Staged, TypeOK
<1>8. PublicationFits'
  BY <1>1, <1>2, <1>3, <1>4 DEF PublicationFits, Staged
<1>9. Readable' /\ RelocationFits'
  BY <1>1, <1>2, <1>3, <1>4 DEF Readable, RelocationFits, Lost
<1>10. FilesFit'
  BY <1>1, <1>2, <1>3 DEF FilesFit, MayLie, Staged
<1>11. QED
  BY <1>5, <1>6, <1>7, <1>8, <1>9, <1>10

LEMMA AttachKeeps ==
  ASSUME IInv, Attach
  PROVE  IInv'
<1> USE DEF IInv
<1> DEFINE s == SlotOf(cur)
           old == current[s]
<1>1. /\ at = "attach" /\ rem = NoKey /\ at' = "attached"
      /\ rows' = [k \in DOMAIN rows |->
                    IF k = cur THEN "ready" ELSE IF k = old THEN "orphan" ELSE rows[k]]
      /\ current' = [current EXCEPT ![s] = cur]
      /\ prev' = IF old \in DOMAIN rows \ {cur} THEN old ELSE NoKey
      /\ recorded' = IF record THEN recorded \cup {cur} ELSE recorded
      /\ UNCHANGED <<desired, location, reloc, files, root, cur, record, rem, unlinked, retained,
                     managed, spoiled, doomed>>
  BY DEF Attach, In, removeVars, modeVars, faultVars
<1>2. cur \in Keys /\ reloc.phase = "none" /\ root = location /\ Staged
        /\ (cur \in spoiled \/ files[root][cur] = "good")
  BY <1>1 DEF PublicationFits, RootFits
<1>3. DOMAIN rows' = DOMAIN rows /\ Ready' \subseteq Ready \cup {cur}
        /\ (prev' # NoKey => prev' \in Unfinished')
  BY <1>1 DEF Ready, Unfinished
<1>4. TypeOK'
  <2>1. current' \in [Places -> KeyOrNone] /\ prev' \in KeyOrNone /\ recorded' \subseteq Keys
    BY <1>1, <1>2 DEF TypeOK, KeyOrNone
  <2>2. QED
    BY <1>1, <1>3, <2>1 DEF TypeOK, Steps
<1>5. PlacesFit' /\ RootFits'
  BY <1>1, <1>2, KeyFacts DEF PlacesFit, RootFits, TypeOK
<1>6. RemovalFits'
  BY <1>1, <1>3 DEF RemovalFits
<1>7. PublicationFits'
  BY <1>1, <1>2, <1>3 DEF PublicationFits
<1>8. Readable' /\ RelocationFits'
  BY <1>1, <1>2, <1>3 DEF Readable, RelocationFits, Lost
<1>9. FilesFit'
  BY <1>1, <1>2, <1>3 DEF FilesFit, MayLie
<1>10. QED
  BY <1>4, <1>5, <1>6, <1>7, <1>8, <1>9

-----------------------------------------------------------------------------
(* Reads and opening.                                                      *)

(* What a read finds broken was lost already.                              *)
LEMMA BrokenIsLost ==
  ASSUME IInv, NEW k \in Ready, files[root][k] # "good"
  PROVE  k \in Lost
BY DEF IInv, Readable

(* A rejected object is lost: marked for recovery, or removed.             *)
LEMMA RejectKeeps ==
  ASSUME IInv, NEW k \in Ready, at = "idle", rem = NoKey, Reject(k),
         spoiled \subseteq spoiled', spoiled' \subseteq Keys, k \in Lost',
         files[root][k] # "good" \/ k \in spoiled',
         UNCHANGED <<desired, current, location, reloc, recorded, files, root, at, cur, prev,
                     record, unlinked, retained, managed, doomed>>
  PROVE  IInv'
<1> USE DEF IInv
<1>1. \/ rows' = Row(k, "orphan") /\ rem' = rem
      \/ rem' = k /\ UNCHANGED rows
  BY DEF Reject
<1>2. k \in Keys /\ k \in DOMAIN rows /\ ~unlinked
  BY KeyFacts DEF Ready, TypeOK, RemovalFits
<1>3. CASE rem' = k /\ UNCHANGED rows
  <2>1. Removable(rem)'
    BY <1>2, <1>3 DEF Removable
  <2>2. PublicationFits'
    BY DEF PublicationFits
  <2>3. rem' \in KeyOrNone
    BY <1>2, <1>3 DEF KeyOrNone
  <2>4. QED
    BY <1>2, <1>3, <2>1, <2>2, <2>3, ActorKeeps DEF TypeOK, modeVars
<1>4. CASE rows' = Row(k, "orphan") /\ rem' = rem
  <2>1. /\ DOMAIN rows' = DOMAIN rows /\ Ready' \subseteq Ready
        /\ Unfinished' = Unfinished \cup {k}
    BY <1>2, <1>4 DEF Row, Ready, Unfinished
  <2>2. TypeOK'
    BY <1>4, <2>1 DEF TypeOK
  <2>3. PlacesFit' /\ RootFits'
    BY <1>4 DEF PlacesFit, RootFits
  <2>4. RemovalFits' /\ PublicationFits'
    BY <1>4, <2>1 DEF RemovalFits, PublicationFits
  <2>5. Lost \subseteq Lost'
    BY DEF Lost
  <2>6. Readable'
    BY <2>1, <2>5 DEF Readable
  <2>7. RelocationFits'
    <3>1. \A j : Passed(j)' = Passed(j)
      BY DEF Passed
    <3>2. QED
      BY <2>1, <2>5, <3>1 DEF RelocationFits
  <2>8. FilesFit'
    <3>1. \A r, j : MayLie(r, j)' = MayLie(r, j)
      BY DEF MayLie, Passed
    <3>2. QED
      BY <2>1, <3>1 DEF FilesFit
  <2>9. QED
    BY <2>2, <2>3, <2>4, <2>6, <2>7, <2>8
<1>5. QED
  BY <1>1, <1>3, <1>4

LEMMA ReadInvalidKeeps ==
  ASSUME IInv, NEW s \in Places, ReadInvalid(s)
  PROVE  IInv'
<1> DEFINE k == current[s]
<1>1. /\ at = "idle" /\ rem = NoKey /\ k \in Ready /\ files[root][k] # "good" /\ Reject(k)
      /\ UNCHANGED <<desired, current, location, reloc, recorded, files, root, at, cur, prev,
                     record, unlinked, retained, managed, spoiled, doomed>>
  BY DEF ReadInvalid, Served, Idle, In, actorVars, modeVars, faultVars
<1> HIDE DEF k
<1>2. k \in Lost' /\ spoiled' \subseteq Keys
  BY <1>1, BrokenIsLost DEF Lost, IInv, TypeOK
<1>3. QED
  BY <1>1, <1>2, RejectKeeps

LEMMA InvalidateKeeps ==
  ASSUME IInv, NEW s \in Places, Invalidate(s)
  PROVE  IInv'
<1> DEFINE k == current[s]
<1>1. /\ at = "idle" /\ rem = NoKey /\ k \in Ready /\ Reject(k)
      /\ spoiled' = spoiled \cup {k}
      /\ UNCHANGED <<desired, current, location, reloc, recorded, files, root, at, cur, prev,
                     record, unlinked, retained, managed, doomed>>
  BY DEF Invalidate, Served, Idle, In, actorVars, modeVars
<1> HIDE DEF k
<1>2. k \in Lost' /\ spoiled' \subseteq Keys
  BY <1>1 DEF Lost, IInv, TypeOK, Ready
<1>3. QED
  BY <1>1, <1>2, RejectKeeps

(* The root becomes the recorded location: at open, by a promotion, or     *)
(* when a later step asks for the promotion again.                         *)
LEMMA RootMoves ==
  ASSUME IInv, rem = NoKey, at' \in {"idle", "opening"},
         root' = location \/ root' = root,
         UNCHANGED <<rows, desired, current, location, reloc, recorded, files, cur, prev, record,
                     rem, unlinked, retained, managed, spoiled, doomed>>
  PROVE  IInv'
<1> USE DEF IInv
<1>1. Ready' = Ready /\ Unfinished' = Unfinished /\ Lost' = Lost
  BY DEF Ready, Unfinished, Lost
<1>2. TypeOK'
  BY DEF TypeOK, Steps
<1>3. PlacesFit' /\ RemovalFits'
  BY DEF PlacesFit, RemovalFits
<1>4. RootFits' /\ PublicationFits'
  BY DEF RootFits, PublicationFits
<1>5. Readable'
  BY <1>1 DEF Readable
<1>6. \A k : Passed(k)' => Passed(k)
  BY DEF Passed
<1>7. RelocationFits'
  BY <1>1, <1>6 DEF RelocationFits
<1>8. FilesFit'
  <2>1. \A r, k : MayLie(r, k) => MayLie(r, k)'
    BY <1>6 DEF MayLie
  <2>2. QED
    BY <2>1 DEF FilesFit
<1>9. QED
  BY <1>2, <1>3, <1>4, <1>5, <1>7, <1>8

LEMMA RootKeeps ==
  ASSUME IInv, Open \/ Promote \/ Reconcile
  PROVE  IInv'
<1>1. /\ rem = NoKey /\ at' \in {"idle", "opening"}
      /\ root' \in {location, root, reloc.target}
      /\ root' = reloc.target => root' = location \/ reloc.phase = "cleanup"
      /\ UNCHANGED <<rows, desired, current, location, reloc, recorded, files, cur, prev, record,
                     rem, unlinked, retained, managed, spoiled, doomed>>
  <2>1. at = "promote" => reloc.phase = "cleanup"
    BY DEF IInv, RootFits
  <2>2. QED
    BY <2>1 DEF Open, Promote, Reconcile, Relocate, Idle, In, diskVars, actorVars, removeVars,
                modeVars, faultVars
<1>2. root' = location \/ root' = root
  BY <1>1 DEF IInv, RootFits
<1>3. QED
  BY <1>1, <1>2, RootMoves

-----------------------------------------------------------------------------
(* Relocation.                                                             *)

LEMMA BeginRelocationKeeps ==
  ASSUME IInv, NEW t \in Roots, BeginRelocation(t)
  PROVE  IInv'
<1> USE DEF IInv
<1>1. /\ at = "idle" /\ rem = NoKey /\ reloc.phase = "none" /\ Unfinished = {} /\ t # root
      /\ reloc' = [phase |-> "copy", source |-> root, target |-> t, cursor |-> NoKey]
      /\ UNCHANGED <<rows, desired, current, location, recorded, files, root, at, cur, prev,
                     record, rem, unlinked, retained, managed, spoiled, doomed>>
  BY DEF BeginRelocation, Relocate, Idle, In, actorVars, removeVars, modeVars, faultVars
<1>2. /\ reloc'.phase = "copy" /\ reloc'.source = root /\ reloc'.target = t
      /\ reloc'.cursor = NoKey /\ root = location /\ root \in Roots
  BY <1>1 DEF RootFits, TypeOK
<1>3. reloc' \in Relocations
  BY <1>1, <1>2 DEF Relocations, KeyOrNone
<1>4. Ready' = Ready /\ Unfinished' = {} /\ Lost' = Lost /\ Ready \subseteq Keys
  BY <1>1 DEF Ready, Unfinished, Lost, TypeOK
<1>5. TypeOK'
  BY <1>1, <1>3 DEF TypeOK
<1>6. PlacesFit' /\ RemovalFits' /\ PublicationFits' /\ RootFits'
  BY <1>1, <1>2 DEF PlacesFit, RemovalFits, PublicationFits, RootFits
<1>7. Readable'
  BY <1>1, <1>4 DEF Readable
<1>8. \A k \in Keys : ~Passed(k)'
  BY <1>1, <1>2 DEF Passed, Keys, NoKey
<1>9. RelocationFits'
  BY <1>2, <1>4, <1>8 DEF RelocationFits
<1>10. FilesFit'
  BY <1>1, <1>2 DEF FilesFit, MayLie
<1>11. QED
  BY <1>5, <1>6, <1>7, <1>9, <1>10

(* Everything before the next object was passed.                           *)
LEMMA NextIsFirst ==
  ASSUME TypeOK, NEW k \in NextObject, NEW j \in Ready, j <= k
  PROVE  j = k \/ j <= reloc.cursor
<1>1. reloc.cursor \in Nat /\ Ready \subseteq Keys /\ k \in Ready
  BY RelocFacts DEF TypeOK, Ready, NextObject, Left
<1>2. j \in Nat /\ k \in Nat
  BY <1>1, KeyFacts
<1>3. CASE j \in Left
  BY <1>2, <1>3 DEF NextObject
<1>4. CASE j \notin Left
  BY <1>1, <1>2, <1>4 DEF Left
<1>5. QED
  BY <1>3, <1>4

LEMMA CopyKeeps ==
  ASSUME IInv, NEW k \in Keys, CopyFile(k) \/ CopyVerified(k)
  PROVE  IInv'
<1> USE DEF IInv
<1>1. /\ at = "idle" /\ rem = NoKey /\ reloc.phase = "copy" /\ k \in NextObject
      /\ at' = "moved" /\ cur' = k
      /\ UNCHANGED <<rows, desired, current, location, reloc, recorded, root, prev, record, rem,
                     unlinked, retained, managed, spoiled, doomed>>
      /\ \/ files' = [files EXCEPT ![reloc.target][k] = "good"] /\ files[reloc.source][k] = "good"
         \/ files' = files /\ files[reloc.target][k] = "good"
  BY DEF CopyFile, CopyVerified, Relocate, Idle, In, diskVars, removeVars, modeVars, faultVars
<1>2. reloc.source \in Roots /\ reloc.target \in Roots /\ reloc.cursor \in Nat
  BY RelocFacts
<1>3. /\ files' \in [Roots -> [Keys -> Contents]]
      /\ \A q \in Roots, j \in Keys :
           files'[q][j] = IF q = reloc.target /\ j = k THEN "good" ELSE files[q][j]
  BY <1>1, <1>2, FileSet DEF TypeOK, Contents
<1>4. k \in Ready /\ k \notin doomed \ spoiled
  BY <1>1, <1>2 DEF NextObject, Left, RemovalFits
<1>5. Ready' = Ready /\ Unfinished' = Unfinished /\ Lost' = Lost /\ Ready \subseteq Keys
  BY <1>1 DEF Ready, Unfinished, Lost, TypeOK
<1>6. TypeOK'
  BY <1>1, <1>3 DEF TypeOK, Steps, KeyOrNone
<1>7. PlacesFit' /\ PublicationFits' /\ RootFits'
  BY <1>1 DEF PlacesFit, PublicationFits, RootFits
<1>8. RemovalFits'
  BY <1>1, <1>3, <1>4 DEF RemovalFits, TypeOK
<1>9. Readable'
  BY <1>1, <1>3, <1>5 DEF Readable, TypeOK
<1>10. RelocationFits'
  <2>1. ASSUME NEW j \in Ready \ Lost, Passed(j)'
        PROVE  files'[reloc.target][j] = "good"
    <3>1. j <= reloc.cursor \/ j <= k
      BY <1>1, <2>1 DEF Passed
    <3>2. j = k \/ j <= reloc.cursor
      BY <1>1, <3>1, NextIsFirst
    <3>3. j <= reloc.cursor => files[reloc.target][j] = "good"
      BY <1>1 DEF RelocationFits, Passed
    <3>4. QED
      BY <1>2, <1>3, <1>5, <3>2, <3>3
  <2>2. QED
    BY <1>1, <1>5, <2>1 DEF RelocationFits
<1>11. FilesFit'
  BY <1>1, <1>3, <1>4 DEF FilesFit, MayLie, Ready
<1>12. QED
  BY <1>6, <1>7, <1>8, <1>9, <1>10, <1>11

LEMMA CleanupFileKeeps ==
  ASSUME IInv, NEW k \in Keys, CleanupFile(k)
  PROVE  IInv'
<1> USE DEF IInv
<1>1. /\ at = "idle" /\ rem = NoKey /\ reloc.phase = "cleanup" /\ root = reloc.target
      /\ k \in NextObject /\ files' = [files EXCEPT ![reloc.source][k] = "none"]
      /\ at' = "moved" /\ cur' = k
      /\ UNCHANGED <<rows, desired, current, location, reloc, recorded, root, prev, record, rem,
                     unlinked, retained, managed, spoiled, doomed>>
  BY DEF CleanupFile, Relocate, Idle, In, removeVars, modeVars, faultVars
<1>2. /\ reloc.source \in Roots /\ reloc.target \in Roots /\ reloc.cursor \in Nat
      /\ reloc.source # reloc.target /\ location = reloc.target
  BY <1>1, RelocFacts DEF RootFits
<1>3. /\ files' \in [Roots -> [Keys -> Contents]]
      /\ \A q \in Roots, j \in Keys :
           files'[q][j] = IF q = reloc.source /\ j = k THEN "none" ELSE files[q][j]
  BY <1>1, <1>2, FileSet DEF TypeOK, Contents
<1>4. Ready' = Ready /\ Unfinished' = Unfinished /\ Lost' = Lost /\ Ready \subseteq Keys
  BY <1>1 DEF Ready, Unfinished, Lost, TypeOK
<1>5. TypeOK'
  BY <1>1, <1>3 DEF TypeOK, Steps, KeyOrNone
<1>6. PlacesFit' /\ PublicationFits' /\ RootFits'
  BY <1>1 DEF PlacesFit, PublicationFits, RootFits
<1>7. RemovalFits'
  BY <1>1, <1>3 DEF RemovalFits, TypeOK
<1>8. Readable'
  BY <1>1, <1>2, <1>3, <1>4 DEF Readable
<1>9. RelocationFits'
  BY <1>1, <1>4 DEF RelocationFits
<1>10. FilesFit'
  <2>1. ASSUME NEW j \in Keys \ spoiled, files'[reloc.source][j] # "none"
        PROVE  j \in DOMAIN rows /\ ~Passed(j)'
    <3>1. files[reloc.source][j] # "none" /\ j # k
      BY <1>2, <1>3, <2>1
    <3>2. j \in DOMAIN rows /\ ~(j <= reloc.cursor)
      BY <1>1, <1>2, <2>1, <3>1 DEF FilesFit, MayLie, Passed
    <3>3. j \notin doomed
      BY <1>2, <2>1, <3>1 DEF RemovalFits
    <3>4. j \in Ready
      BY <1>1, <2>1, <3>2, <3>3 DEF RelocationFits, Unfinished, Lost
    <3>5. ~(j <= k)
      BY <1>1, <3>1, <3>2, <3>4, NextIsFirst
    <3>6. QED
      BY <1>1, <3>2, <3>5 DEF Passed
  <2>2. ASSUME NEW r \in Roots, NEW j \in Keys \ spoiled, files'[r][j] # "none"
        PROVE  j \in DOMAIN rows /\ MayLie(r, j)'
    <3>1. j \in DOMAIN rows /\ r \in {reloc.source, reloc.target}
      BY <1>1, <1>3, <2>2 DEF FilesFit, MayLie
    <3>2. QED
      BY <1>1, <2>1, <2>2, <3>1 DEF MayLie
  <2>3. QED
    BY <1>1, <2>2 DEF FilesFit
<1>11. QED
  BY <1>5, <1>6, <1>7, <1>8, <1>9, <1>10

LEMMA MoveCursorKeeps ==
  ASSUME IInv, MoveCursor
  PROVE  IInv'
<1> USE DEF IInv
<1>1. /\ at = "moved" /\ rem = NoKey /\ reloc' = [reloc EXCEPT !.cursor = cur]
      /\ at' = "idle" /\ cur' = NoKey /\ prev' = NoKey /\ record' = FALSE
      /\ UNCHANGED <<rows, desired, current, location, recorded, files, root, rem, unlinked,
                     retained, managed, spoiled, doomed>>
  BY DEF MoveCursor, In, Return, removeVars, modeVars, faultVars
<1>2. /\ reloc' \in Relocations /\ reloc'.phase = reloc.phase /\ reloc'.source = reloc.source
      /\ reloc'.target = reloc.target /\ reloc'.cursor = cur
  BY <1>1 DEF TypeOK, Relocations
<1>3. Ready' = Ready /\ Unfinished' = Unfinished /\ Lost' = Lost
  BY <1>1 DEF Ready, Unfinished, Lost
<1>4. TypeOK'
  BY <1>1, <1>2 DEF TypeOK, Steps, KeyOrNone
<1>5. PlacesFit' /\ PublicationFits' /\ RemovalFits'
  BY <1>1 DEF PlacesFit, PublicationFits, RemovalFits
<1>6. RootFits'
  BY <1>1, <1>2 DEF RootFits
<1>7. Readable'
  BY <1>1, <1>3 DEF Readable
<1>8. \A k : Passed(k)' => Passed(k)
  BY <1>1, <1>2 DEF Passed
<1>9. RelocationFits'
  BY <1>1, <1>2, <1>3, <1>8 DEF RelocationFits
<1>10. FilesFit'
  <2>1. \A r, k : MayLie(r, k) => MayLie(r, k)'
    BY <1>1, <1>2, <1>8 DEF MayLie
  <2>2. QED
    BY <1>1, <2>1 DEF FilesFit
<1>11. QED
  BY <1>4, <1>5, <1>6, <1>7, <1>9, <1>10

LEMMA SwitchKeeps ==
  ASSUME IInv, Switch
  PROVE  IInv'
<1> USE DEF IInv
<1>1. /\ at = "idle" /\ rem = NoKey /\ reloc.phase = "copy" /\ Left = {}
      /\ location' = reloc.target /\ at' = "promote"
      /\ reloc' = [reloc EXCEPT !.phase = "cleanup", !.cursor = NoKey]
      /\ UNCHANGED <<rows, desired, current, recorded, files, root, cur, prev, record, rem,
                     unlinked, retained, managed, spoiled, doomed>>
  BY DEF Switch, Copied, CleanupCursor, Relocate, Idle, In, removeVars, modeVars, faultVars
<1>2. /\ reloc' \in Relocations /\ reloc'.phase = "cleanup" /\ reloc'.source = reloc.source
      /\ reloc'.target = reloc.target /\ reloc'.cursor = NoKey
  <2> DEFINE half == [reloc EXCEPT !.phase = "cleanup"]
             then == [phase |-> "cleanup", source |-> reloc.source, target |-> reloc.target,
                      cursor |-> NoKey]
  <2>1. half = [phase |-> "cleanup", source |-> reloc.source, target |-> reloc.target,
                cursor |-> reloc.cursor]
    BY DEF TypeOK, Relocations
  <2>2. [half EXCEPT !.cursor = NoKey] = then
    <3> HIDE DEF half
    <3>1. QED
      BY <2>1
  <2>3. reloc' = [half EXCEPT !.cursor = NoKey]
    BY <1>1, Zenon
  <2>4. reloc' = then
    BY <2>2, <2>3
  <2>5. QED
    BY <2>4, RelocFacts DEF Relocations, KeyOrNone
<1>3. reloc.target \in Roots /\ location = reloc.source /\ root = reloc.source
        /\ reloc.source # reloc.target /\ reloc.cursor \in Nat
  BY <1>1, RelocFacts DEF RootFits
<1>4. Ready' = Ready /\ Unfinished' = Unfinished /\ Lost' = Lost /\ Ready \subseteq Keys
  BY <1>1 DEF Ready, Unfinished, Lost, TypeOK
<1>5. TypeOK'
  BY <1>1, <1>2, <1>3 DEF TypeOK, Steps
<1>6. PlacesFit' /\ PublicationFits' /\ RemovalFits'
  BY <1>1 DEF PlacesFit, PublicationFits, RemovalFits
<1>7. RootFits'
  BY <1>1, <1>2, <1>3 DEF RootFits
<1>8. Readable'
  <2>1. \A k \in Ready : k <= reloc.cursor
    BY <1>1, <1>3, <1>4, KeyFacts DEF Left
  <2>2. \A k \in Ready \ Lost : files[reloc.target][k] = "good"
    BY <1>1, <2>1 DEF RelocationFits, Passed
  <2>3. QED
    BY <1>1, <1>4, <2>2 DEF Readable
<1>9. RelocationFits'
  BY <1>1, <1>2, <1>4 DEF RelocationFits
<1>10. FilesFit'
  <2>1. \A k \in Keys : ~Passed(k)'
    BY <1>1, <1>2 DEF Passed, Keys, NoKey
  <2>2. QED
    BY <1>1, <1>2, <2>1 DEF FilesFit, MayLie
<1>11. QED
  BY <1>5, <1>6, <1>7, <1>8, <1>9, <1>10

LEMMA EndRelocationKeeps ==
  ASSUME IInv, EndRelocation
  PROVE  IInv'
<1> USE DEF IInv
<1>1. /\ at = "idle" /\ rem = NoKey /\ reloc.phase = "cleanup" /\ root = reloc.target
      /\ Left = {} /\ reloc' = NoRelocation
      /\ UNCHANGED <<rows, desired, current, location, recorded, files, root, at, cur, prev,
                     record, rem, unlinked, retained, managed, spoiled, doomed>>
  BY DEF EndRelocation, Relocate, Idle, In, actorVars, removeVars, modeVars, faultVars
<1>2. reloc' \in Relocations /\ reloc'.phase = "none"
  BY <1>1, StoreAssumption DEF NoRelocation, Relocations, KeyOrNone
<1>3. location = reloc.target /\ reloc.source \in Roots /\ reloc.cursor \in Nat
  BY <1>1, RelocFacts DEF RootFits
<1>4. Ready' = Ready /\ Lost' = Lost /\ Ready \subseteq Keys
  BY <1>1 DEF Ready, Lost, TypeOK
<1>5. TypeOK'
  BY <1>1, <1>2 DEF TypeOK
<1>6. PlacesFit' /\ PublicationFits' /\ RemovalFits'
  BY <1>1 DEF PlacesFit, PublicationFits, RemovalFits
<1>7. RootFits' /\ RelocationFits'
  BY <1>1, <1>2, <1>3 DEF RootFits, RelocationFits
<1>8. Readable'
  BY <1>1, <1>4 DEF Readable
<1>9. FilesFit'
  <2>1. ASSUME NEW k \in Keys \ spoiled, files[reloc.source][k] # "none"
        PROVE  reloc.source = location
    <3>1. k \in DOMAIN rows /\ (reloc.source = reloc.target \/ ~(k <= reloc.cursor))
      BY <1>1, <1>3, <2>1 DEF FilesFit, MayLie, Passed
    <3>2. k \notin doomed
      BY <1>3, <2>1 DEF RemovalFits
    <3>3. k \in Ready
      BY <1>1, <2>1, <3>1, <3>2 DEF RelocationFits, Unfinished, Lost
    <3>4. k <= reloc.cursor
      <4>1. k \in Nat /\ ~(k > reloc.cursor)
        BY <1>1, <3>3, KeyFacts DEF Left
      <4>2. QED
        BY <1>3, <4>1
    <3>5. QED
      BY <1>3, <3>1, <3>4
  <2>2. QED
    BY <1>1, <1>2, <1>3, <2>1 DEF FilesFit, MayLie
<1>10. QED
  BY <1>5, <1>6, <1>7, <1>8, <1>9

LEMMA DamageKeeps ==
  ASSUME IInv, NEW r \in Roots, NEW k \in Keys, Damage(r, k)
  PROVE  IInv'
<1> USE DEF IInv
<1>1. /\ spoiled' = spoiled \cup {k}
      /\ \E left \in {"none", "bad"} : files' = [files EXCEPT ![r][k] = left]
      /\ UNCHANGED <<rows, desired, current, location, reloc, recorded, root, at, cur, prev,
                     record, rem, unlinked, retained, managed, doomed>>
  BY DEF Damage, actorVars, removeVars, modeVars
<1>2. PICK left \in {"none", "bad"} : files' = [files EXCEPT ![r][k] = left]
  BY <1>1
<1>3. /\ files' \in [Roots -> [Keys -> Contents]]
      /\ \A q \in Roots, j \in Keys :
           files'[q][j] = IF q = r /\ j = k THEN left ELSE files[q][j]
  BY <1>2, FileSet DEF TypeOK, Contents
<1>4. Ready' = Ready /\ Unfinished' = Unfinished /\ Lost' = Lost \cup {k} /\ Ready \subseteq Keys
  BY <1>1 DEF Ready, Unfinished, Lost, TypeOK
<1>5. TypeOK'
  BY <1>1, <1>3 DEF TypeOK
<1>6. PlacesFit' /\ RootFits'
  BY <1>1 DEF PlacesFit, RootFits
<1>7. RemovalFits'
  <2>1. rem # NoKey => Removable(rem)'
    <3>1. rem # NoKey => Removable(rem) /\ rem \in Keys
      BY DEF RemovalFits, TypeOK, KeyOrNone
    <3>2. QED
      BY <1>1, <1>3, <1>4, <3>1 DEF Removable, GetsRecord, TypeOK
  <2>2. \A j \in doomed \ spoiled', q \in Roots : files'[q][j] = "none"
    BY <1>1, <1>3 DEF RemovalFits, TypeOK
  <2>3. QED
    BY <1>1, <2>1, <2>2 DEF RemovalFits
<1>8. PublicationFits'
  <2>1. at = "attach" => cur \in spoiled' \/ files'[root][cur] = "good"
    BY <1>1, <1>3 DEF PublicationFits, TypeOK
  <2>2. QED
    BY <1>1, <1>4, <2>1 DEF PublicationFits, Staged
<1>9. Readable'
  BY <1>1, <1>3, <1>4 DEF Readable, TypeOK
<1>10. RelocationFits'
  <2>1. \A j : Passed(j)' = Passed(j)
    BY <1>1 DEF Passed
  <2>2. QED
    BY <1>1, <1>3, <1>4, <2>1, RelocFacts DEF RelocationFits
<1>11. FilesFit'
  <2>1. \A q, j : MayLie(q, j)' = MayLie(q, j)
    BY <1>1 DEF MayLie, Passed
  <2>2. QED
    BY <1>1, <1>3, <2>1 DEF FilesFit
<1>12. QED
  BY <1>5, <1>6, <1>7, <1>8, <1>9, <1>10, <1>11

-----------------------------------------------------------------------------

LEMMA Initially ==
  ASSUME StoreInit
  PROVE  IInv
<1> USE DEF StoreInit
<1>1. reloc \in Relocations /\ reloc.phase = "none"
  BY StoreAssumption DEF NoRelocation, Relocations, KeyOrNone
<1>2. DOMAIN rows = {}
  OBVIOUS
<1>3. files \in [Roots -> [Keys -> Contents]] /\ \A r \in Roots, k \in Keys : files[r][k] = "none"
  BY DEF Contents
<1>4. Ready = {} /\ Unfinished = {}
  BY <1>2 DEF Ready, Unfinished
<1>5. TypeOK
  BY <1>1, <1>2, <1>3, StoreAssumption DEF TypeOK, Steps, KeyOrNone
<1>6. PlacesFit /\ RemovalFits /\ PublicationFits /\ RootFits
  BY <1>1, KeyFacts DEF PlacesFit, RemovalFits, PublicationFits, RootFits
<1>7. Readable /\ RelocationFits /\ FilesFit
  BY <1>1, <1>3, <1>4 DEF Readable, RelocationFits, FilesFit
<1>8. QED
  BY <1>5, <1>6, <1>7 DEF IInv

LEMMA Stutters ==
  ASSUME IInv, UNCHANGED storeVars
  PROVE  IInv'
<1> USE DEF storeVars, diskVars, actorVars, removeVars, modeVars, faultVars
<1>1. Ready' = Ready /\ Unfinished' = Unfinished /\ Lost' = Lost /\ \A k : Passed(k)' = Passed(k)
  BY DEF Ready, Unfinished, Lost, Passed
<1>2. \A r, k : MayLie(r, k)' = MayLie(r, k)
  BY <1>1 DEF MayLie
<1>3. TypeOK => TypeOK'
  BY DEF TypeOK
<1>4. QED
  BY <1>1, <1>2, <1>3 DEF IInv, PlacesFit, RemovalFits, Removable, GetsRecord, PublicationFits, Staged,
                          RootFits, Readable, RelocationFits, FilesFit

(* Manifest, files, relocation journal and the actor's locals fit together *)
(* after every effect, crash and damaged file, for every store.            *)
THEOREM StoreInductive == StoreSpec => []IInv
<1>1. StoreInit => IInv
  BY Initially
<1>2. IInv /\ [StoreNext]_storeVars => IInv'
  <2>1. SUFFICES ASSUME IInv, [StoreNext]_storeVars
                 PROVE  IInv'
    OBVIOUS
  <2>2. CASE RelocationStep
    BY <2>1, <2>2, CopyKeeps, CleanupFileKeeps, MoveCursorKeeps, SwitchKeeps, RootKeeps,
       EndRelocationKeeps DEF RelocationStep
  <2>3. QED
    BY <2>1, <2>2, Stutters, UnlinkKeeps, DeleteRowKeeps, RemoveFailsKeeps, DesireKeeps,
       PublishBeginKeeps, EvictKeeps, RecoverKeeps, PublishRefusedKeeps, StageKeeps,
       WriteObjectKeeps, StageFailsKeeps, AttachKeeps, AttachedKeeps, ReadInvalidKeeps,
       InvalidateKeeps, RootKeeps, OpenedKeeps, BeginRelocationKeeps, DamageKeeps DEF StoreNext
<1>3. QED
  BY <1>1, <1>2, PTL DEF StoreSpec

(* What the manifest calls ready can be read, at the recorded location and *)
(* at the root in memory, through publication, eviction, relocation, a     *)
(* lost promotion and a crash between any two effects.                     *)
THEOREM ReadyIsReadable == StoreSpec => []ReadyReadable
<1>1. IInv => ReadyReadable
  BY DEF IInv, Readable, ReadyReadable, Lost
<1>2. QED
  BY <1>1, StoreInductive, PTL

(* Between relocations every object file lies at the recorded location     *)
(* under a row: cleanup leaves no copy behind and an interrupted           *)
(* publication or removal leaves a row that recover() finds.               *)
THEOREM NoFileForgotten == StoreSpec => []ObjectsTracked
<1>1. IInv => ObjectsTracked
  BY DEF IInv, FilesFit, MayLie, ObjectsTracked
<1>2. QED
  BY <1>1, StoreInductive, PTL

-----------------------------------------------------------------------------
(* Thumbnails.                                                             *)

Kept(s) ==
  retained /\ Shown(s) =>
    \/ Shown(s)'
    \/ {current[s], current'[s]} \cap spoiled' # {}
    \/ Superseded(s)

(* What a place shows is an object of the manifest that nobody removed.    *)
LEMMA ShownObject ==
  ASSUME IInv, NEW s \in Places, Shown(s)
  PROVE  /\ current[s] \in Keys /\ current[s] \in Ready /\ files[root][current[s]] = "good"
         /\ current[s] \notin doomed \ spoiled
<1>1. current[s] \in Keys /\ current[s] \in Ready /\ files[root][current[s]] = "good"
  BY DEF IInv, TypeOK, Shown, Ready
<1>2. QED
  BY <1>1 DEF IInv, TypeOK, RemovalFits

LEMMA StillShown ==
  ASSUME IInv, NEW s \in Places, UNCHANGED <<current, retained>>,
         Shown(s) /\ retained /\ current[s] \notin spoiled' /\ ~Superseded(s) =>
           current[s] \in Ready' /\ files'[root'][current[s]] = "good"
  PROVE  Kept(s)
BY DEF Kept, Shown

LEMMA QuietKeepsShown ==
  ASSUME IInv, NEW s \in Places, UNCHANGED <<rows, current, files, root, retained>>
  PROVE  Kept(s)
BY DEF Kept, Shown, Ready

LEMMA RemovalKeepsShown ==
  ASSUME IInv, NEW s \in Places, Unlink \/ DeleteRow
  PROVE  Kept(s)
<1> USE DEF IInv
<1> DEFINE k == current[s]
<1>1. CASE Unlink
  <2>1. /\ rem # NoKey /\ files' = [files EXCEPT ![root][rem] = "none"]
        /\ UNCHANGED <<rows, current, root, retained, spoiled>>
    BY <1>1 DEF Unlink, modeVars
  <2>2. rem \in Keys /\ root \in Roots /\ Removable(rem)
    BY <2>1 DEF TypeOK, KeyOrNone, RemovalFits
  <2>3. \A j \in Keys : files'[root][j] = IF j = rem THEN "none" ELSE files[root][j]
    BY <2>1, <2>2, FileSet DEF TypeOK, Contents
  <2>4. retained /\ Shown(s) /\ k \notin spoiled /\ ~Superseded(s) => k # rem
    BY <2>2, ShownObject DEF Removable, GetsRecord, Superseded
  <2>5. Ready' = Ready
    BY <2>1 DEF Ready
  <2>6. QED
    BY <2>1, <2>3, <2>4, <2>5, ShownObject, StillShown
<1>2. CASE DeleteRow
  <2>1. /\ unlinked /\ rows' = [j \in DOMAIN rows \ {rem} |-> rows[j]]
        /\ current' = [t \in Places |-> IF current[t] = rem THEN NoKey ELSE current[t]]
        /\ UNCHANGED <<files, root, retained, spoiled>>
    BY <1>2 DEF DeleteRow, modeVars
  <2>2. rem \in doomed /\ Ready' = Ready \ {rem}
    BY <2>1 DEF RemovalFits, Ready
  <2>3. CASE ~Shown(s) \/ k \in spoiled
    BY <2>1, <2>3 DEF Kept
  <2>4. CASE Shown(s) /\ k \notin spoiled
    <3>1. k # rem /\ k \in Ready /\ files[root][k] = "good"
      BY <2>2, <2>4, ShownObject
    <3>2. current'[s] = k
      BY <2>1, <3>1
    <3>3. Shown(s)'
      BY <2>1, <2>2, <3>1, <3>2 DEF Shown
    <3>4. QED
      BY <3>3 DEF Kept
  <2>5. QED
    BY <2>3, <2>4
<1>3. QED
  BY <1>1, <1>2

LEMMA PublicationKeepsShown ==
  ASSUME IInv, NEW s \in Places, Stage \/ WriteObject
  PROVE  Kept(s)
<1> USE DEF IInv
<1>1. CASE Stage
  <2>1. /\ rows' = Row(cur, "pending") /\ at = "room" /\ rem = NoKey
        /\ UNCHANGED <<current, files, root, retained, spoiled>>
    BY <1>1 DEF Stage, In, modeVars, faultVars
  <2>2. cur \notin DOMAIN rows
    BY <2>1, KeyFacts DEF PublicationFits
  <2>3. Ready \subseteq Ready'
    BY <2>1, <2>2 DEF Ready, Row
  <2>4. QED
    BY <2>1, <2>3, ShownObject, StillShown
<1>2. CASE WriteObject
  <2>1. /\ files' = [files EXCEPT ![root][cur] = "good"] /\ at = "write"
        /\ UNCHANGED <<rows, current, root, retained, spoiled>>
    BY <1>2 DEF WriteObject, In, modeVars, faultVars
  <2>2. cur \in Keys /\ root \in Roots
    BY <2>1 DEF PublicationFits, TypeOK
  <2>3. \A j \in Keys : files'[root][j] = IF j = cur THEN "good" ELSE files[root][j]
    BY <2>1, <2>2, FileSet DEF TypeOK, Contents
  <2>4. Ready' = Ready
    BY <2>1 DEF Ready
  <2>5. QED
    BY <2>1, <2>3, <2>4, ShownObject, StillShown
<1>3. QED
  BY <1>1, <1>2

(* The place of the new object shows it, the others what they showed.      *)
LEMMA AttachKeepsShown ==
  ASSUME IInv, NEW s \in Places, Attach
  PROVE  Kept(s)
<1> USE DEF IInv
<1> DEFINE t == SlotOf(cur)
           old == current[t]
<1>1. /\ at = "attach"
      /\ rows' = [k \in DOMAIN rows |->
                    IF k = cur THEN "ready" ELSE IF k = old THEN "orphan" ELSE rows[k]]
      /\ current' = [current EXCEPT ![t] = cur]
      /\ UNCHANGED <<files, root, retained, spoiled>>
  BY DEF Attach, In, modeVars, faultVars
<1>2. cur \in Keys /\ Staged /\ (cur \in spoiled \/ files[root][cur] = "good")
  BY <1>1 DEF PublicationFits
<1>3. t \in Places /\ current \in [Places -> KeyOrNone] /\ cur \in Ready'
  BY <1>1, <1>2, SlotIsPlace DEF TypeOK, Ready, Staged
<1>4. CASE s = t
  <2>1. current'[s] = cur
    BY <1>1, <1>3, <1>4
  <2>2. QED
    BY <1>1, <1>2, <1>3, <2>1 DEF Kept, Shown
<1>5. CASE s # t
  <2>1. current'[s] = current[s]
    BY <1>1, <1>3, <1>5
  <2>2. ASSUME Shown(s)
        PROVE  current[s] \in Ready' /\ files[root][current[s]] = "good"
    <3>1. current[s] \in Keys /\ current[s] \in Ready /\ files[root][current[s]] = "good"
      BY <2>2, ShownObject
    <3>2. current[s] # old
      BY <1>3, <1>5, <3>1, KeyFacts DEF PlacesFit
    <3> HIDE DEF old
    <3>3. QED
      BY <1>1, <3>1, <3>2 DEF Ready
  <2>3. QED
    BY <1>1, <2>1, <2>2 DEF Kept, Shown
<1>6. QED
  BY <1>4, <1>5

LEMMA ReadKeepsShown ==
  ASSUME IInv, NEW s \in Places, NEW t \in Places, ReadInvalid(t) \/ Invalidate(t)
  PROVE  Kept(s)
<1>1. /\ files[root][current[t]] # "good" \/ current[t] \in spoiled'
      /\ UNCHANGED <<current, files, root, retained>>
      /\ rows' = Row(current[t], "orphan") \/ rows' = rows
  BY DEF ReadInvalid, Invalidate, Reject, modeVars
<1>2. ASSUME Shown(s), current[s] \notin spoiled'
      PROVE  current[s] \in Ready' /\ files[root][current[s]] = "good"
  <2>1. current[s] \in Ready /\ files[root][current[s]] = "good"
    BY <1>2, ShownObject
  <2>2. current[s] # current[t]
    BY <1>1, <1>2, <2>1
  <2>3. QED
    BY <1>1, <2>1, <2>2 DEF Ready, Row
<1>3. QED
  BY <1>1, <1>2, StillShown

LEMMA RootKeepsShown ==
  ASSUME IInv, NEW s \in Places, Open \/ Promote \/ Reconcile
  PROVE  Kept(s)
<1> USE DEF IInv
<1>1. UNCHANGED <<rows, current, files, retained, spoiled>>
        /\ (root' = root \/ root' = location)
  <2>1. at = "promote" => reloc.phase = "cleanup"
    BY DEF RootFits
  <2>2. reloc.phase = "cleanup" => location = reloc.target
    BY DEF RootFits
  <2>3. QED
    BY <2>1, <2>2 DEF Open, Promote, Reconcile, Relocate, Idle, In, diskVars, modeVars, faultVars
<1>2. Ready' = Ready
  BY <1>1 DEF Ready
<1>3. QED
  BY <1>1, <1>2, ShownObject, StillShown DEF Readable, Lost

LEMMA FilesKeepShown ==
  ASSUME IInv, NEW s \in Places, NEW k \in Keys,
         \/ CopyFile(k) \/ CleanupFile(k)
         \/ \E r \in Roots : Damage(r, k)
  PROVE  Kept(s)
<1> USE DEF IInv
<1>1. /\ UNCHANGED <<rows, current, root, retained>> /\ spoiled \subseteq spoiled'
      /\ \E r \in Roots, v \in Contents :
           /\ files' = [files EXCEPT ![r][k] = v]
           /\ v = "good" \/ k \in spoiled' \/ r # root
  <2>1. CASE CopyFile(k)
    BY <2>1, RelocFacts DEF CopyFile, modeVars, faultVars, Contents
  <2>2. CASE CleanupFile(k)
    <3>1. root # reloc.source
      BY <2>2 DEF CleanupFile, Relocate, RootFits
    <3>2. QED
      BY <2>2, <3>1, RelocFacts DEF CleanupFile, modeVars, faultVars, Contents
  <2>3. CASE \E r \in Roots : Damage(r, k)
    BY <2>3 DEF Damage, modeVars, Contents
  <2>4. QED
    BY <2>1, <2>2, <2>3
<1>2. PICK r \in Roots, v \in Contents :
        /\ files' = [files EXCEPT ![r][k] = v]
        /\ v = "good" \/ k \in spoiled' \/ r # root
  BY <1>1
<1>3. \A j \in Keys : files'[root][j] = IF root = r /\ j = k THEN v ELSE files[root][j]
  BY <1>2, FileSet DEF TypeOK
<1>4. Ready' = Ready
  BY <1>1 DEF Ready
<1>5. QED
  BY <1>1, <1>2, <1>3, <1>4, ShownObject, StillShown

(* A retained thumbnail stays readable until it is replaced: no failure,   *)
(* interruption, quota, recovery, relocation or publication of another     *)
(* object takes it away.  Damage from outside does, an image that does not *)
(* decode, and a publication that brings the render record the thumbnail   *)
(* lacks.                                                                  *)
THEOREM ThumbnailsStay == StoreSpec => ThumbnailsKept
<1>1. IInv /\ [StoreNext]_storeVars =>
        [\A s \in Places :
           retained /\ Shown(s) =>
             \/ Shown(s)'
             \/ {current[s], current'[s]} \cap spoiled' # {}
             \/ Superseded(s)]_storeVars
  <2>1. SUFFICES ASSUME IInv, StoreNext, NEW s \in Places
                 PROVE  Kept(s)
    BY <2>1 DEF Kept
  <2>2. CASE Stage \/ WriteObject
    BY <2>1, <2>2, PublicationKeepsShown
  <2>3. CASE Unlink \/ DeleteRow
    BY <2>1, <2>3, RemovalKeepsShown
  <2>4. CASE Attach
    BY <2>1, <2>4, AttachKeepsShown
  <2>5. CASE \E t \in Places : ReadInvalid(t) \/ Invalidate(t)
    BY <2>1, <2>5, ReadKeepsShown
  <2>6. CASE Open \/ Promote \/ Reconcile
    BY <2>1, <2>6, RootKeepsShown
  <2>7. CASE \E k \in Keys : CopyFile(k) \/ CleanupFile(k) \/ \E r \in Roots : Damage(r, k)
    BY <2>1, <2>7, FilesKeepShown
  <2>8. CASE \/ RemoveFails \/ PublishRefused \/ StageFails \/ Attached \/ Opened \/ Crash
             \/ MoveCursor \/ Switch \/ EndRelocation
    BY <2>1, <2>8, QuietKeepsShown DEF RemoveFails, PublishRefused, StageFails, Attached, Opened,
       Crash, MoveCursor, Switch, EndRelocation, diskVars, modeVars
  <2>9. CASE \/ \E k \in Keys : Desire(k) \/ Evict(k) \/ Recover(k) \/ CopyVerified(k)
             \/ \E k \in Keys, brings \in BOOLEAN : PublishBegin(k, brings)
             \/ \E r \in Roots : BeginRelocation(r)
    BY <2>1, <2>9, QuietKeepsShown DEF Desire, PublishBegin, Evict, Recover, CopyVerified,
       BeginRelocation, diskVars, modeVars
  <2>10. QED
    BY <2>1, <2>2, <2>3, <2>4, <2>5, <2>6, <2>7, <2>8, <2>9 DEF StoreNext, RelocationStep
<1>2. QED
  BY <1>1, StoreInductive, PTL DEF StoreSpec, ThumbnailsKept

=============================================================================
