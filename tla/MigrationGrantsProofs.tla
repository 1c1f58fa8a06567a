----------------------- MODULE MigrationGrantsProofs -----------------------
(***************************************************************************)
(* Proofs about MigrationGrants for any number of writes and lost replies. *)
(*                                                                         *)
(* The inductive invariant follows one write through the three processes:  *)
(* what the helper may have sent that the supervisor has not read yet, the *)
(* one grant that may be on its way back, the thread of the supervisor     *)
(* that stands for the permit, and the permit itself.                      *)
(***************************************************************************)
EXTENDS MigrationGrants, SequenceTheorems, TLAPS

Places == {"starting", "working", "waiting", "writing", "closing", "ended", "crashed"}
Owners == {"none", "queued", "verifying", "held", "released", "failed"}
Waiters == {"none", "submitting", "awaiting", "polling", "granted", "denied", "erred", "holding"}
Replies == {"none", "attempted", "held", "released", "failed", "refused", "error"}
Kinds == {"Admitted", "NeedWrite", "ReleaseWrite", "Finished", "Failed", "Grant", "Cancel"}
Frames == [kind : Kinds, sequence : Nat]
Requests == [at : {"queued", "replied"}, kind : {"acquire", "recover"}, sequence : Nat,
             first : BOOLEAN, cancel : BOOLEAN, reply : Replies]
Attempts == [sequence : Nat, owner : Owners, release : BOOLEAN, cancel : BOOLEAN]

TypeOK ==
  /\ lm \in Places /\ sequence \in Nat
  /\ granted \in BOOLEAN /\ canceled \in BOOLEAN /\ wrote \in BOOLEAN
  /\ toG \in Seq(Frames) /\ toLM \in Seq(Frames)
  /\ g \in {"running", "draining", "target", "done"}
  /\ admitted \in BOOLEAN /\ terminal \in {"none", "ok", "failed"}
  /\ nextWrite \in Nat /\ attempted \in Nat /\ releasing \in BOOLEAN
  /\ control \in Frames \cup {Empty}
  /\ reaped \in BOOLEAN /\ failure \in {"none", "known", "unknown"}
  /\ waiter \in Waiters
  /\ submission \in {"never", "submitted", "acknowledged", "refused"}
  /\ lane \in Requests \cup {Empty}
  /\ attempt \in Attempts

(* The permit, its request on the lane and the thread that waits for it.   *)
CatalogFits ==
  /\ holder = Permit <=> attempt.owner \in {"verifying", "held"}
  /\ lane # Empty => submission = "submitted"
  /\ attempted = 0 => lane = Empty
  /\ waiter = "awaiting" =>
       /\ lane # Empty /\ lane.kind = "acquire" /\ lane.sequence = attempted
       /\ lane.reply # "held"
       /\ lane.reply = "attempted" => attempt.sequence = attempted /\ ~attempt.release
  /\ waiter \in {"polling", "granted", "holding"} =>
       /\ submission = "acknowledged"
       /\ attempt.sequence = attempted /\ ~attempt.release
  /\ waiter \in {"granted", "holding"} => attempt.owner = "held"

(* What the supervisor knows, and reports.                                 *)
SuperFits ==
  /\ waiter # "none" => attempted # 0
  /\ attempted # 0 => admitted
  /\ reaped => Exited
  /\ g = "running" => failure = "none"
  /\ g \in {"target", "done"} => waiter = "none" /\ attempted = 0 /\ reaped
  /\ g # "running" /\ failure = "none" => lm = "ended" /\ terminal = "ok"
  /\ failure = "known" /\ terminal = "none" => ~admitted
  /\ wrote => admitted

(* A grant that the helper accepted stands for the permit.                 *)
HoldsFit ==
  /\ lm = "writing" => granted
  /\ granted /\ lm \in {"waiting", "writing"} =>
       waiter = "holding" /\ attempted = sequence /\ ~releasing

(* The grant on its way to a helper that was not canceled.                 *)
GrantOf(n) == Frame("Grant", n)
CancelFrame == Frame("Cancel", 0)
NoGrant(q) == q = << >> \/ q = <<CancelFrame>>
HasGrant(q, n) == q = <<GrantOf(n)>> \/ q = <<GrantOf(n), CancelFrame>>
Unrevoked(q, n) == q = << >> \/ q = <<GrantOf(n)>>
Pending == control # Empty \/ HasGrant(toLM, sequence)

GrantsFit ==
  ~Exited /\ ~canceled =>
    /\ \/ NoGrant(toLM) /\ control \in {Empty, GrantOf(sequence)}
       \/ HasGrant(toLM, sequence) /\ control = Empty
    /\ g = "running" => Unrevoked(toLM, sequence)
    /\ Pending => /\ lm = "waiting" /\ ~granted
                  /\ waiter = "holding" /\ attempted = sequence /\ ~releasing

(* What a helper with k writes behind it may have sent since, when it is   *)
(* at a place, asked for n writes, and was granted or canceled.            *)
Gone(place) == place \in {"closing", "ended", "crashed"}
Sent(s, k, place, n, got, off) ==
  \/ s = << >> /\ place \in {"working", "crashed"} /\ n = k
  \/ /\ s = <<Frame("NeedWrite", k + 1)>> /\ n = k + 1
     /\ place \in {"waiting", "crashed"} /\ (place = "waiting" => ~got)
  \/ /\ s = <<Frame("NeedWrite", k + 1), Frame("Failed", 0)>>
     /\ Gone(place) /\ (place = "closing" => off)
  \/ s \in {<<Frame("Finished", 0)>>, <<Frame("Failed", 0)>>} /\ Gone(place)
Ahead(s, k) == Sent(s, k, lm, sequence, granted, canceled)

(* What is in the pipe, by what the supervisor has read.                   *)
PipeFits ==
  g = "running" =>
    \/ /\ terminal # "none"
       /\ toG = << >> /\ Gone(lm) /\ ~releasing
       /\ lm = "closing" /\ attempted # 0 => canceled
    \/ /\ terminal = "none" /\ ~admitted /\ nextWrite = 1 /\ ~releasing
       /\ \/ toG = << >> /\ lm \in {"starting", "crashed"} /\ sequence = 0
          \/ toG = <<Frame("Failed", 0)>> /\ Gone(lm)
          \/ toG # << >> /\ Head(toG) = Frame("Admitted", 0) /\ Ahead(Tail(toG), 0)
    \/ /\ terminal = "none" /\ admitted /\ attempted = 0 /\ ~releasing
       /\ nextWrite > 0 /\ Ahead(toG, nextWrite - 1)
    \/ /\ terminal = "none" /\ admitted /\ attempted # 0 /\ releasing
       /\ nextWrite = attempted + 1 /\ Ahead(toG, attempted)
    \/ /\ terminal = "none" /\ admitted /\ attempted # 0 /\ ~releasing
       /\ waiter # "none"
       /\ nextWrite = IF waiter = "holding" THEN attempted + 1 ELSE attempted
       /\ \/ /\ toG = << >> /\ sequence = attempted
             /\ lm \in {"waiting", "writing", "crashed"}
          \/ toG = <<Frame("Failed", 0)>> /\ Gone(lm) /\ (lm = "closing" => canceled)
          \/ /\ waiter = "holding" /\ toG # << >>
             /\ Head(toG) = Frame("ReleaseWrite", attempted) /\ Ahead(Tail(toG), attempted)

IInv ==
  /\ TypeOK
  /\ CatalogFits
  /\ SuperFits
  /\ HoldsFit
  /\ GrantsFit
  /\ PipeFits
  /\ FramesAccepted

-----------------------------------------------------------------------------
(* Short sequences.                                                        *)

LEMMA Appended ==
  ASSUME NEW S, NEW x \in S, NEW y \in S
  PROVE  /\ Append(<< >>, x) = <<x>>
         /\ Append(<<x>>, y) = <<x, y>>
<1>1. Append(<< >>, x) = <<x>>
  OBVIOUS
<1>2. Append(<<x>>, y) = <<x, y>>
  <2>1. <<x>> \in Seq(S) /\ <<x, y>> \in Seq(S) /\ Len(<<x>>) = 1 /\ Len(<<x, y>>) = 2
    OBVIOUS
  <2>2. Append(<<x>>, y) \in Seq(S) /\ Len(Append(<<x>>, y)) = 2
    BY <2>1
  <2>3. \A i \in 1..2 : Append(<<x>>, y)[i] = <<x, y>>[i]
    BY <2>1
  <2>4. QED
    BY <2>1, <2>2, <2>3, SeqEqual
<1>3. QED
  BY <1>1, <1>2

LEMMA Taken ==
  ASSUME NEW x, NEW y
  PROVE  /\ Head(<<x>>) = x /\ Tail(<<x>>) = << >> /\ <<x>> # << >>
         /\ Head(<<x, y>>) = x /\ Tail(<<x, y>>) = <<y>> /\ <<x, y>> # << >>
OBVIOUS

LEMMA AppendedTail ==
  ASSUME NEW S, NEW q \in Seq(S), q # << >>, NEW x \in S
  PROVE  /\ Append(q, x) # << >> /\ Head(Append(q, x)) = Head(q)
         /\ Tail(Append(q, x)) = Append(Tail(q), x)
OBVIOUS

LEMMA FramesDiffer ==
  ASSUME NEW n \in Nat, NEW k
  PROVE  /\ Frame(k, n).kind = k /\ Frame(k, n).sequence = n
         /\ k \in Kinds => Frame(k, n) \in Frames
         /\ Frame(k, n) # Empty
BY DEF Frame, Frames, Empty

LEMMA GrantShapes ==
  ASSUME NEW n \in Nat, NEW q
  PROVE  /\ ~(NoGrant(q) /\ HasGrant(q, n))
         /\ NoGrant(q) /\ Unrevoked(q, n) => q = << >>
         /\ NoGrant(<< >>) /\ Unrevoked(<< >>, n)
         /\ HasGrant(<<GrantOf(n)>>, n) /\ Unrevoked(<<GrantOf(n)>>, n)
<1>1. CancelFrame # GrantOf(n)
  BY FramesDiffer DEF CancelFrame, GrantOf
<1>2. QED
  BY <1>1 DEF NoGrant, HasGrant, Unrevoked

-----------------------------------------------------------------------------
(* The helper.                                                             *)

(* The catalog and the supervisor see nothing of a step of the helper.     *)
LEMMA CatalogStays ==
  ASSUME CatalogFits, UNCHANGED <<attempted, waiter, relayVars, attempt, holder>>
  PROVE  CatalogFits'
BY DEF CatalogFits, relayVars

LEMMA HelperTypes ==
  ASSUME TypeOK, lm' \in Places, sequence' \in Nat, granted' \in BOOLEAN,
         canceled' \in BOOLEAN, wrote' \in BOOLEAN, toG' \in Seq(Frames), toLM' \in Seq(Frames),
         UNCHANGED <<superVars, waiter, relayVars, attempt>>
  PROVE  TypeOK'
BY DEF TypeOK, superVars, stateVars, relayVars

(* A step of the helper to a next place, which may publish a frame.        *)
LEMMA LmAdmitsKeeps ==
  ASSUME IInv, LmAdmits
  PROVE  IInv'
<1> DEFINE f == Frame("Admitted", 0)
<1>1. /\ lm = "starting" /\ lm' = "working" /\ toG' = Append(toG, f)
      /\ UNCHANGED <<sequence, granted, canceled, wrote, toLM, superVars, waiter, relayVars,
                     catalogVars, writerVars, envVars>>
  BY DEF LmAdmits, Publishes, LmRest
<1>2. f \in Frames
  BY FramesDiffer DEF Kinds
<1>3. Append(<< >>, f) = <<f>> /\ Head(<<f>>) = f /\ Tail(<<f>>) = << >> /\ <<f>> # << >>
  BY <1>2, Appended, Taken
<1> USE DEF IInv, superVars, stateVars, relayVars, catalogVars, writerVars, envVars
<1>4. TypeOK'
  BY <1>1, <1>2, HelperTypes DEF TypeOK, Places
<1>5. CatalogFits' /\ SuperFits' /\ FramesAccepted'
  BY <1>1, CatalogStays DEF SuperFits, Exited, FramesAccepted
<1>6. HoldsFit' /\ GrantsFit'
  BY <1>1 DEF HoldsFit, GrantsFit, Pending, Exited
<1>7. PipeFits'
  BY <1>1, <1>3 DEF PipeFits, Ahead, Sent, Gone
<1>8. QED
  BY <1>4, <1>5, <1>6, <1>7

(* The helper publishes a frame from the place working or waiting: the     *)
(* facts about the pipe that every such step needs.                        *)
LEMMA Published ==
  ASSUME TypeOK, NEW f \in Frames
  PROVE  /\ Append(toG, f) \in Seq(Frames)
         /\ Append(<< >>, f) = <<f>>
         /\ \A e \in Frames : Append(<<e>>, f) = <<e, f>>
         /\ toG # << >> => /\ Append(toG, f) # << >> /\ Head(Append(toG, f)) = Head(toG)
                           /\ Tail(Append(toG, f)) = Append(Tail(toG), f)
<1>1. toG \in Seq(Frames)
  BY DEF TypeOK
<1>2. QED
  BY <1>1, Appended, AppendedTail

LEMMA NeedWriteKeeps ==
  ASSUME IInv, NeedWrite
  PROVE  IInv'
<1> DEFINE f == Frame("NeedWrite", sequence + 1)
<1>1. /\ lm = "working" /\ lm' = "waiting" /\ ~canceled /\ sequence' = sequence + 1
      /\ granted' = FALSE /\ toG' = Append(toG, f)
      /\ UNCHANGED <<canceled, wrote, toLM, superVars, waiter, relayVars, catalogVars,
                     writerVars, envVars>>
  BY DEF NeedWrite, Publishes, LmRest
<1> USE DEF IInv, superVars, stateVars, relayVars, catalogVars, writerVars, envVars
<1>2. sequence \in Nat /\ f \in Frames
  BY FramesDiffer DEF Kinds, TypeOK
<1>3. TypeOK'
  <2>1. sequence' \in Nat /\ toG' \in Seq(Frames) /\ lm' \in Places
    BY <1>1, <1>2, Published DEF Places
  <2>2. QED
    BY <1>1, <2>1, HelperTypes DEF TypeOK
<1>4. CatalogFits' /\ SuperFits' /\ FramesAccepted'
  BY <1>1, CatalogStays DEF SuperFits, Exited, FramesAccepted
<1>5. HoldsFit'
  BY <1>1 DEF HoldsFit
<1>6. GrantsFit'
  <2>1. ~Pending
    BY <1>1 DEF GrantsFit, Exited
  <2>2. NoGrant(toLM) /\ control = Empty /\ (g = "running" => toLM = << >>)
    BY <1>1, <1>2, <2>1, GrantShapes DEF GrantsFit, Exited, Pending
  <2>3. sequence' \in Nat
    BY <1>1, <1>2
  <2>4. QED
    BY <1>1, <2>2, <2>3, GrantShapes DEF GrantsFit, Exited, Pending
<1>7. PipeFits'
  <2>1. ASSUME NEW q, NEW k, Ahead(q, k)
        PROVE  q = << >> /\ sequence = k
                 /\ Sent(<<f>>, k, lm', sequence', granted', canceled')
    BY <1>1, <2>1 DEF Ahead, Sent, Gone
  <2> HIDE DEF f
  <2>2. QED
    BY <1>1, <1>2, <2>1, Published DEF PipeFits, Ahead, Gone
<1>8. QED
  BY <1>3, <1>4, <1>5, <1>6, <1>7

LEMMA EntersKeeps ==
  ASSUME IInv, Enters
  PROVE  IInv'
<1>1. /\ lm = "waiting" /\ lm' = "writing" /\ granted /\ ~canceled
      /\ UNCHANGED <<sequence, granted, canceled, wrote, toG, toLM, superVars, waiter,
                     relayVars, catalogVars, writerVars, envVars>>
  BY DEF Enters, LmRest
<1> USE DEF IInv, superVars, stateVars, relayVars, catalogVars, writerVars, envVars
<1>2. TypeOK'
  BY <1>1, HelperTypes DEF TypeOK, Places
<1>3. CatalogFits' /\ SuperFits' /\ FramesAccepted'
  BY <1>1, CatalogStays DEF SuperFits, Exited, FramesAccepted
<1>4. HoldsFit' /\ GrantsFit'
  BY <1>1 DEF HoldsFit, GrantsFit, Pending, Exited
<1>5. PipeFits'
  <2>1. ASSUME NEW q, NEW k
        PROVE  ~Ahead(q, k)
    BY <1>1 DEF Ahead, Sent, Gone
  <2>2. QED
    BY <1>1, <2>1 DEF PipeFits, Gone
<1>6. QED
  BY <1>2, <1>3, <1>4, <1>5

LEMMA GivesUpKeeps ==
  ASSUME IInv, GivesUp
  PROVE  IInv'
<1> DEFINE f == Frame("Failed", 0)
<1>1. /\ lm = "waiting" /\ lm' = "closing" /\ canceled' = TRUE /\ toG' = Append(toG, f)
      /\ UNCHANGED <<sequence, granted, wrote, toLM, superVars, waiter, relayVars,
                     catalogVars, writerVars, envVars>>
  BY DEF GivesUp, Publishes, LmRest
<1> USE DEF IInv, superVars, stateVars, relayVars, catalogVars, writerVars, envVars
<1>2. f \in Frames /\ sequence \in Nat
  BY FramesDiffer DEF Kinds, TypeOK
<1>3. TypeOK'
  <2>1. toG' \in Seq(Frames) /\ lm' \in Places
    BY <1>1, <1>2, Published DEF Places
  <2>2. QED
    BY <1>1, <2>1, HelperTypes DEF TypeOK
<1>4. CatalogFits' /\ SuperFits' /\ FramesAccepted'
  BY <1>1, CatalogStays DEF SuperFits, Exited, FramesAccepted
<1>5. HoldsFit' /\ GrantsFit'
  BY <1>1 DEF HoldsFit, GrantsFit
<1>6. PipeFits'
  <2>1. ASSUME NEW q, NEW k \in Nat, Ahead(q, k)
        PROVE  Sent(Append(q, f), k, lm', sequence', granted', canceled')
    <3>1. q = <<Frame("NeedWrite", k + 1)>>
      BY <1>1, <2>1 DEF Ahead, Sent, Gone
    <3>2. Frame("NeedWrite", k + 1) \in Frames
      BY FramesDiffer DEF Kinds
    <3>3. Append(q, f) = <<Frame("NeedWrite", k + 1), f>>
      BY <1>2, <3>1, <3>2, Published
    <3>4. QED
      BY <1>1, <3>3 DEF Sent, Gone
  <2>2. \A k : ~Ahead(<< >>, k)
    BY <1>1 DEF Ahead, Sent, Gone
  <2>3. nextWrite \in Nat /\ attempted \in Nat /\ 0 \in Nat /\ (nextWrite > 0 => nextWrite - 1 \in Nat)
    BY DEF TypeOK
  <2>4. Append(<< >>, f) = <<f>>
    BY <1>2, Published
  <2>5. lm = "waiting" /\ lm' = "closing" /\ Gone(lm') /\ ~Gone(lm) /\ canceled'
    BY <1>1 DEF Gone
  <2> HIDE DEF f
  <2>6. CASE toG = << >>
    BY <1>1, <2>2, <2>4, <2>5, <2>6 DEF PipeFits, Ahead, f
  <2>7. CASE toG # << >>
    BY <1>1, <1>2, <2>1, <2>3, <2>5, <2>7, Published DEF PipeFits, Ahead
  <2>8. QED
    BY <2>6, <2>7
<1>7. QED
  BY <1>3, <1>4, <1>5, <1>6

LEMMA CommitsKeeps ==
  ASSUME IInv, Commits
  PROVE  IInv'
<1>1. /\ lm = "writing" /\ wrote' = TRUE
      /\ UNCHANGED <<lm, sequence, granted, canceled, toG, toLM, superVars, waiter,
                     relayVars, catalogVars, writerVars, envVars>>
  BY DEF Commits, LmRest
<1> USE DEF IInv, superVars, stateVars, relayVars, catalogVars, writerVars, envVars
<1>2. TypeOK'
  BY <1>1, HelperTypes DEF TypeOK
<1>3. admitted
  BY <1>1 DEF HoldsFit, SuperFits
<1>4. CatalogFits' /\ SuperFits' /\ FramesAccepted'
  BY <1>1, <1>3, CatalogStays DEF SuperFits, Exited, FramesAccepted
<1>5. HoldsFit' /\ GrantsFit'
  BY <1>1 DEF HoldsFit, GrantsFit, Pending, Exited
<1>6. PipeFits'
  BY <1>1 DEF PipeFits, Ahead
<1>7. QED
  BY <1>2, <1>4, <1>5, <1>6

LEMMA ReleaseWriteKeeps ==
  ASSUME IInv, ReleaseWrite
  PROVE  IInv'
<1> DEFINE f == Frame("ReleaseWrite", sequence)
<1>1. /\ lm = "writing" /\ lm' = "working" /\ granted' = FALSE /\ toG' = Append(toG, f)
      /\ UNCHANGED <<sequence, canceled, wrote, toLM, superVars, waiter, relayVars,
                     catalogVars, writerVars, envVars>>
  BY DEF ReleaseWrite, Publishes, LmRest
<1> USE DEF IInv, superVars, stateVars, relayVars, catalogVars, writerVars, envVars
<1>2. f \in Frames /\ sequence \in Nat
  BY FramesDiffer DEF Kinds, TypeOK
<1>3. TypeOK'
  <2>1. toG' \in Seq(Frames) /\ lm' \in Places
    BY <1>1, <1>2, Published DEF Places
  <2>2. QED
    BY <1>1, <2>1, HelperTypes DEF TypeOK
<1>4. CatalogFits' /\ SuperFits' /\ FramesAccepted'
  BY <1>1, CatalogStays DEF SuperFits, Exited, FramesAccepted
<1>5. HoldsFit' /\ GrantsFit'
  BY <1>1 DEF HoldsFit, GrantsFit, Pending, Exited
<1>6. PipeFits'
  <2>1. ASSUME NEW q, NEW k
        PROVE  ~Ahead(q, k)
    BY <1>1 DEF Ahead, Sent, Gone
  <2>2. waiter = "holding"
    BY <1>1 DEF HoldsFit
  <2>3. Append(<< >>, f) = <<f>> /\ Head(<<f>>) = f /\ Tail(<<f>>) = << >> /\ <<f>> # << >>
    BY <1>2, Appended, Taken
  <2>4. Sent(<< >>, sequence, lm', sequence', granted', canceled')
    BY <1>1 DEF Sent
  <2> HIDE DEF f
  <2>5. QED
    BY <1>1, <2>1, <2>2, <2>3, <2>4 DEF PipeFits, Ahead, Gone, f
<1>7. QED
  BY <1>3, <1>4, <1>5, <1>6

(* Finishes and Fails: a terminal frame.                                   *)
LEMMA TerminalKeeps ==
  ASSUME IInv, Finishes \/ Fails
  PROVE  IInv'
<1>1. PICK f \in {Frame("Finished", 0), Frame("Failed", 0)} :
        /\ lm' = "closing" /\ toG' = Append(toG, f)
        /\ lm = "working" \/ (lm = "starting" /\ f = Frame("Failed", 0))
        /\ UNCHANGED <<sequence, granted, canceled, wrote, toLM, superVars, waiter, relayVars,
                       catalogVars, writerVars, envVars>>
  BY DEF Finishes, Fails, Publishes, LmRest
<1> USE DEF IInv, superVars, stateVars, relayVars, catalogVars, writerVars, envVars
<1>2. f \in Frames
  BY <1>1, FramesDiffer DEF Kinds
<1>3. TypeOK'
  <2>1. toG' \in Seq(Frames) /\ lm' \in Places
    BY <1>1, <1>2, Published DEF Places
  <2>2. QED
    BY <1>1, <2>1, HelperTypes DEF TypeOK
<1>4. CatalogFits' /\ SuperFits' /\ FramesAccepted'
  BY <1>1, CatalogStays DEF SuperFits, Exited, FramesAccepted
<1>5. HoldsFit' /\ GrantsFit'
  BY <1>1 DEF HoldsFit, GrantsFit, Pending, Exited
<1>6. PipeFits'
  <2>1. ASSUME NEW q, NEW k, Ahead(q, k)
        PROVE  q = << >> /\ lm = "working"
    BY <1>1, <2>1 DEF Ahead, Sent, Gone
  <2>2. \A k : Sent(<<f>>, k, lm', sequence', granted', canceled')
    BY <1>1 DEF Sent, Gone
  <2>3. Append(<< >>, f) = <<f>>
    BY <1>2, Published
  <2>4. QED
    BY <1>1, <1>2, <2>1, <2>2, <2>3, Published DEF PipeFits, Ahead, Gone
<1>7. QED
  BY <1>3, <1>4, <1>5, <1>6

LEMMA ExitsKeeps ==
  ASSUME IInv, lm' \in {"ended", "crashed"}, ~Exited, lm' = "ended" => lm = "closing",
         UNCHANGED <<sequence, granted, canceled, wrote, toG, superVars, waiter,
                     relayVars, catalogVars, writerVars, refused>>,
         toLM' \in Seq(Frames)
  PROVE  IInv'
<1> USE DEF IInv, superVars, stateVars, relayVars, catalogVars, writerVars
<1>1. TypeOK'
  BY HelperTypes DEF TypeOK, Places
<1>2. CatalogFits' /\ SuperFits' /\ FramesAccepted'
  BY CatalogStays DEF SuperFits, Exited, FramesAccepted
<1>3. HoldsFit' /\ GrantsFit'
  BY DEF HoldsFit, GrantsFit, Exited
<1>4. PipeFits'
  <2>1. ASSUME NEW q, NEW k, Ahead(q, k)
        PROVE  Sent(q, k, lm', sequence', granted', canceled')
    BY <2>1 DEF Ahead, Sent, Gone
  <2>2. QED
    BY <2>1 DEF PipeFits, Ahead, Gone
<1>5. QED
  BY <1>1, <1>2, <1>3, <1>4

(* Only a grant reaches a helper that is not canceled, and it waits for it *)
LEMMA Solicits ==
  ASSUME IInv, ~Exited, toLM # << >>, ~canceled, Head(toLM).kind = "Grant"
  PROVE  /\ HasGrant(toLM, sequence) /\ control = Empty
         /\ Solicited(Head(toLM)) /\ waiter = "holding" /\ attempted = sequence /\ ~releasing
         /\ NoGrant(Tail(toLM)) /\ (g = "running" => Tail(toLM) = << >>)
<1> USE DEF IInv
<1>1. sequence \in Nat
  BY DEF TypeOK
<1>2. ~NoGrant(toLM)
  BY FramesDiffer DEF NoGrant, CancelFrame
<1>3. HasGrant(toLM, sequence) /\ control = Empty
        /\ (g = "running" => toLM = <<GrantOf(sequence)>>)
  BY <1>2 DEF GrantsFit, Unrevoked
<1>4. Head(toLM).sequence = sequence
  BY <1>1, <1>3, FramesDiffer DEF HasGrant, GrantOf
<1>5. NoGrant(Tail(toLM)) /\ (g = "running" => Tail(toLM) = << >>)
  <2>1. Tail(<<GrantOf(sequence)>>) = << >>
          /\ Tail(<<GrantOf(sequence), CancelFrame>>) = <<CancelFrame>>
    BY Taken
  <2>2. QED
    BY <1>3, <2>1, Zenon DEF HasGrant, NoGrant
<1>6. QED
  BY <1>3, <1>4, <1>5 DEF GrantsFit, Pending, Solicited

LEMMA ListensKeeps ==
  ASSUME IInv, Listens
  PROVE  IInv'
<1> DEFINE accepted == Head(toLM).kind = "Grant" /\ ~canceled /\ Solicited(Head(toLM))
<1>1. /\ ~Exited /\ toLM # << >> /\ toLM' = Tail(toLM)
      /\ granted' = (granted \/ accepted) /\ canceled' = (canceled \/ ~accepted)
      /\ refused' = (refused \/ (Head(toLM).kind = "Grant" /\ ~canceled /\ ~accepted))
      /\ UNCHANGED <<lm, sequence, wrote, toG, superVars, waiter, relayVars, catalogVars,
                     writerVars>>
  BY DEF Listens
<1> USE DEF IInv, superVars, stateVars, relayVars, catalogVars, writerVars
<1>2. sequence \in Nat
  BY DEF TypeOK
<1>3. toLM' \in Seq(Frames) /\ granted' \in BOOLEAN /\ canceled' \in BOOLEAN
  <2>1. toLM' \in Seq(Frames)
    BY <1>1 DEF TypeOK
  <2>2. QED
    BY <1>1, <2>1 DEF TypeOK
<1>4. TypeOK'
  BY <1>1, <1>3, HelperTypes DEF TypeOK
<1>5. FramesAccepted'
  BY <1>1, Solicits DEF FramesAccepted
<1>6. CatalogFits' /\ SuperFits'
  BY <1>1, CatalogStays DEF SuperFits, Exited
<1>7. CASE accepted
  <2>1. /\ lm = "waiting" /\ control = Empty /\ granted' = TRUE /\ canceled' = canceled
        /\ waiter = "holding" /\ attempted = sequence /\ ~releasing
        /\ NoGrant(Tail(toLM)) /\ (g = "running" => Tail(toLM) = << >>)
    BY <1>1, <1>7, Solicits DEF Solicited, TypeOK
  <2>2. HoldsFit'
    BY <1>1, <2>1 DEF HoldsFit
  <2>3. GrantsFit'
    BY <1>1, <1>2, <2>1, GrantShapes DEF GrantsFit, Pending
  <2>4. PipeFits'
    <3>1. ASSUME g = "running"
          PROVE  /\ terminal = "none" /\ admitted /\ attempted # 0 /\ waiter # "none"
                 /\ nextWrite = attempted + 1 /\ toG = << >>
      <4>1. ASSUME NEW q, NEW k, Ahead(q, k)
            PROVE  q = <<Frame("NeedWrite", k + 1)>> /\ sequence = k + 1
        BY <2>1, <4>1 DEF Ahead, Sent, Gone
      <4>2. attempted # 0 /\ admitted /\ nextWrite \in Nat /\ attempted \in Nat
        BY <2>1 DEF SuperFits, TypeOK
      <4>3. QED
        BY <2>1, <3>1, <4>1, <4>2 DEF PipeFits, Gone
    <3>2. QED
      BY <1>1, <2>1, <3>1 DEF PipeFits
  <2>5. QED
    BY <1>4, <1>5, <1>6, <2>2, <2>3, <2>4
<1>8. CASE ~accepted
  <2>1. canceled' = TRUE /\ granted' = granted
    BY <1>1, <1>8 DEF TypeOK
  <2>2. HoldsFit' /\ GrantsFit'
    BY <1>1, <2>1 DEF HoldsFit, GrantsFit
  <2>3. PipeFits'
    <3>1. ASSUME NEW q, NEW k, Ahead(q, k)
          PROVE  Sent(q, k, lm', sequence', granted', canceled')
      BY <1>1, <2>1, <3>1 DEF Ahead, Sent
    <3>2. QED
      BY <1>1, <2>1, <3>1 DEF PipeFits, Ahead
  <2>4. QED
    BY <1>4, <1>5, <1>6, <2>2, <2>3
<1>9. QED
  BY <1>7, <1>8

LEMMA HelperKeeps ==
  ASSUME IInv, LmNext
  PROVE  IInv'
<1>1. CASE Exits \/ LmCrash
  <2>1. toLM \in Seq(Frames)
    BY DEF IInv, TypeOK
  <2>2. QED
    BY <1>1, <2>1, ExitsKeeps DEF Exits, LmCrash, LmRest, Exited, envVars
<1>2. QED
  BY <1>1, LmAdmitsKeeps, NeedWriteKeeps, EntersKeeps, GivesUpKeeps, CommitsKeeps,
     ReleaseWriteKeeps, TerminalKeeps, ListensKeeps DEF LmNext

-----------------------------------------------------------------------------
(* The catalog process.                                                    *)

(* It changes only the permit and the request on the lane.                 *)
LEMMA CatalogFrame ==
  ASSUME IInv, UNCHANGED <<helperVars, pipeVars, superVars, waiter, submission, refused>>,
         lane' \in Requests \cup {Empty}, attempt' \in Attempts, CatalogFits'
  PROVE  IInv'
<1> USE DEF IInv, helperVars, pipeVars, superVars, stateVars
<1>1. TypeOK'
  BY DEF TypeOK
<1>2. SuperFits' /\ HoldsFit' /\ FramesAccepted'
  BY DEF SuperFits, HoldsFit, FramesAccepted, Exited
<1>3. GrantsFit' /\ PipeFits'
  BY DEF GrantsFit, Pending, Exited, PipeFits, Ahead
<1>4. QED
  BY <1>1, <1>2, <1>3

LEMMA OnLane ==
  ASSUME TypeOK, lane.at # "empty"
  PROVE  lane \in Requests /\ lane # Empty
BY DEF TypeOK, Empty

LEMMA RepliedLane ==
  ASSUME lane \in Requests, NEW r \in Replies, Replied(r)
  PROVE  /\ lane' \in Requests /\ lane' # Empty
         /\ lane'.at = "replied" /\ lane'.reply = r
         /\ lane'.kind = lane.kind /\ lane'.sequence = lane.sequence
         /\ lane'.first = lane.first /\ lane'.cancel = lane.cancel
<1> DEFINE half == [lane EXCEPT !.at = "replied"]
           then == [at |-> "replied", kind |-> lane.kind, sequence |-> lane.sequence,
                    first |-> lane.first, cancel |-> lane.cancel, reply |-> r]
<1>1. half = [at |-> "replied", kind |-> lane.kind, sequence |-> lane.sequence,
              first |-> lane.first, cancel |-> lane.cancel, reply |-> lane.reply]
  BY DEF Requests
<1>2. [half EXCEPT !.reply = r] = then
  <2> HIDE DEF half
  <2>1. QED
    BY <1>1
<1>3. lane' = [half EXCEPT !.reply = r]
  BY Zenon DEF Replied
<1>4. lane' = then
  BY <1>2, <1>3
<1>5. then \in Requests
  BY DEF Requests
<1>6. QED
  BY <1>4, <1>5 DEF Empty

LEMMA AnsweredLane ==
  ASSUME lane \in Requests, NEW r \in Replies, Answers(r)
  PROVE  \E s \in {r, "error"} : Replied(s)
BY DEF Answers

LEMMA AcquiresKeeps ==
  ASSUME IInv, Acquires
  PROVE  IInv'
<1> USE DEF IInv
<1>1. /\ lane.at = "queued" /\ lane.kind = "acquire" /\ attempt.owner \in {"none", "released"}
      /\ holder' = holder
      /\ \E o \in {"queued", "failed"} :
           /\ attempt' = [sequence |-> lane.sequence, owner |-> o, release |-> FALSE,
                          cancel |-> FALSE]
           /\ Answers(IF o = "queued" THEN "attempted" ELSE "failed")
  BY DEF Acquires, Acquirable, Writer!Join, writerVars
<1>2. PICK o \in {"queued", "failed"} :
        /\ attempt' = [sequence |-> lane.sequence, owner |-> o, release |-> FALSE,
                       cancel |-> FALSE]
        /\ Answers(IF o = "queued" THEN "attempted" ELSE "failed")
  BY <1>1
<1>3. lane \in Requests /\ lane # Empty
  BY <1>1, OnLane
<1>4. PICK r \in {"attempted", "failed", "error"} : Replied(r)
  BY <1>2, <1>3, AnsweredLane DEF Replies
<1>5. /\ lane' \in Requests /\ lane' # Empty /\ lane'.reply = r
      /\ lane'.kind = lane.kind /\ lane'.sequence = lane.sequence
  BY <1>3, <1>4, RepliedLane DEF Replies
<1>6. /\ attempt' \in Attempts /\ attempt'.owner = o /\ attempt'.sequence = lane.sequence
      /\ ~attempt'.release
  BY <1>2, <1>3 DEF Attempts, Owners, Requests
<1>7. UNCHANGED <<helperVars, pipeVars, superVars, waiter, submission, refused>>
  BY DEF Acquires, CatalogRest
<1>8. CatalogFits'
  BY <1>1, <1>3, <1>5, <1>6, <1>7 DEF CatalogFits, superVars, stateVars
<1>9. QED
  BY <1>5, <1>6, <1>7, <1>8, CatalogFrame

LEMMA RepliesKeep ==
  ASSUME IInv, RefusesAcquire \/ Recovers
  PROVE  IInv'
<1> USE DEF IInv
<1>1. lane.at = "queued" /\ UNCHANGED <<catalogVars, writerVars>>
        /\ (lane.kind = "acquire" => RefusesAcquire)
  BY DEF RefusesAcquire, Recovers
<1>2. lane \in Requests /\ lane # Empty
  BY <1>1, OnLane
<1>3. PICK r \in Replies : Replied(r) /\ (lane.kind = "acquire" => r = "refused")
  <2>1. Phase \in Replies
    BY DEF Phase, TypeOK, Attempts, Owners, Replies
  <2>2. CASE RefusesAcquire
    BY <2>2 DEF RefusesAcquire, Replies
  <2>3. CASE Recovers
    BY <2>1, <2>3, <1>2, AnsweredLane DEF Recovers, Replies
  <2>4. QED
    BY <2>2, <2>3
<1>4. /\ lane' \in Requests /\ lane' # Empty /\ lane'.reply = r
      /\ lane'.kind = lane.kind /\ lane'.sequence = lane.sequence
  BY <1>2, <1>3, RepliedLane
<1>5. UNCHANGED <<helperVars, pipeVars, superVars, waiter, submission, refused, attempt, holder>>
  BY <1>1 DEF RefusesAcquire, Recovers, CatalogRest, catalogVars, writerVars
<1>6. attempt' \in Attempts
  BY <1>5 DEF TypeOK
<1>7. CatalogFits'
  BY <1>2, <1>3, <1>4, <1>5 DEF CatalogFits, superVars, stateVars
<1>8. QED
  BY <1>4, <1>5, <1>6, <1>7, CatalogFrame

(* The permit thread, Close and the other writer: the permit moves on, and *)
(* leaves held only when a release was asked for.                          *)
LEMMA PermitMoves ==
  ASSUME IInv, UNCHANGED <<helperVars, pipeVars, superVars, waiter, submission, lane, refused>>,
         NEW o \in Owners, NEW c \in BOOLEAN,
         attempt' = [sequence |-> attempt.sequence, owner |-> o, release |-> attempt.release,
                     cancel |-> c],
         attempt.owner = "held" => o = "held" \/ attempt.release,
         holder' = Permit <=> o \in {"verifying", "held"}
  PROVE  IInv'
<1> USE DEF IInv
<1>1. /\ attempt' \in Attempts /\ attempt'.owner = o /\ attempt'.sequence = attempt.sequence
      /\ attempt'.release = attempt.release
  BY DEF TypeOK, Attempts
<1>2. lane' \in Requests \cup {Empty}
  BY DEF TypeOK
<1>3. CatalogFits'
  BY <1>1 DEF CatalogFits, superVars, stateVars
<1>4. QED
  BY <1>1, <1>2, <1>3, CatalogFrame

LEMMA PermitKeeps ==
  ASSUME IInv,
         \/ PermitEnters \/ PermitAbandons \/ PermitHolds \/ PermitUnverified
         \/ PermitReleases \/ CatalogCloses
         \/ (OtherEnters \/ OtherLeaves) /\ OtherRest
  PROVE  IInv'
<1> USE DEF IInv
<1>1. attempt \in Attempts
  BY DEF TypeOK
<1>2. holder = Permit <=> attempt.owner \in {"verifying", "held"}
  BY DEF CatalogFits
<1>3. UNCHANGED <<helperVars, pipeVars, superVars, waiter, submission, lane, refused>>
  BY DEF PermitEnters, PermitAbandons, PermitHolds, PermitUnverified, PermitReleases, PermitRest,
         CatalogCloses, OtherRest, CatalogRest
<1>4. attempt = [sequence |-> attempt.sequence, owner |-> attempt.owner,
                 release |-> attempt.release, cancel |-> attempt.cancel]
  BY <1>1 DEF Attempts
<1>5. ASSUME NEW o
      PROVE  [attempt EXCEPT !.owner = o] =
               [sequence |-> attempt.sequence, owner |-> o, release |-> attempt.release,
                cancel |-> attempt.cancel]
  BY <1>1 DEF Attempts
<1>6. attempt.cancel \in BOOLEAN /\ attempt.owner \in Owners
        /\ {"verifying", "failed", "held", "released"} \subseteq Owners
  BY <1>1 DEF Attempts, Owners
<1>7. CASE PermitEnters
  <2>1. attempt' = [attempt EXCEPT !.owner = "verifying"] /\ holder' = Permit
          /\ attempt.owner = "queued"
    BY <1>7 DEF PermitEnters, Writer!Grant
  <2>2. QED
    BY <1>3, <1>5, <1>6, <2>1, PermitMoves
<1>8. CASE PermitAbandons
  <2>1. attempt' = [attempt EXCEPT !.owner = "failed"] /\ holder' = holder
          /\ attempt.owner = "queued"
    BY <1>8 DEF PermitAbandons, Writer!Abandon
  <2>2. QED
    BY <1>2, <1>3, <1>5, <1>6, <2>1, PermitMoves
<1>9. CASE PermitHolds
  <2>1. attempt' = [attempt EXCEPT !.owner = "held"] /\ holder' = holder
          /\ attempt.owner = "verifying"
    BY <1>9 DEF PermitHolds, writerVars
  <2>2. QED
    BY <1>2, <1>3, <1>5, <1>6, <2>1, PermitMoves
<1>10. CASE PermitUnverified
  <2>1. attempt' = [attempt EXCEPT !.owner = "failed"] /\ holder' = NoThread
          /\ attempt.owner = "verifying"
    BY <1>10 DEF PermitUnverified, Writer!Free
  <2>2. QED
    BY <1>3, <1>5, <1>6, <2>1, PermitMoves DEF NoThread, Permit
<1>11. CASE PermitReleases
  <2>1. attempt' = [attempt EXCEPT !.owner = "released"] /\ holder' = NoThread
          /\ attempt.owner = "held" /\ attempt.release
    BY <1>11 DEF PermitReleases, Writer!Free
  <2>2. QED
    BY <1>3, <1>5, <1>6, <2>1, PermitMoves DEF NoThread, Permit
<1>12. CASE CatalogCloses
  <2>1. attempt' = [attempt EXCEPT !.cancel = TRUE] /\ holder' = holder
    BY <1>12 DEF CatalogCloses, writerVars
  <2>2. ASSUME NEW c
        PROVE  [attempt EXCEPT !.cancel = c] =
                 [sequence |-> attempt.sequence, owner |-> attempt.owner,
                  release |-> attempt.release, cancel |-> c]
    BY <1>1 DEF Attempts
  <2>3. QED
    BY <1>2, <1>3, <1>6, <2>1, <2>2, PermitMoves
<1>13. CASE (OtherEnters \/ OtherLeaves) /\ OtherRest
  <2>1. attempt' = attempt /\ (holder' = Permit <=> holder = Permit)
    BY <1>13 DEF OtherEnters, OtherLeaves, OtherRest, catalogVars, Writer!Join, Writer!Grant,
                 Writer!Free, Other, Permit, NoThread
  <2>2. QED
    BY <1>2, <1>3, <1>4, <1>6, <2>1, PermitMoves
<1>14. QED
  BY <1>7, <1>8, <1>9, <1>10, <1>11, <1>12, <1>13

LEMMA CatalogKeeps ==
  ASSUME IInv, CatalogNext
  PROVE  IInv'
BY AcquiresKeeps, RepliesKeep, PermitKeeps DEF CatalogNext

-----------------------------------------------------------------------------
(* The thread that waits for the permit.                                   *)

LEMMA WaiterFrame ==
  ASSUME IInv, Waiting, waiter' \in {"awaiting", "polling", "granted", "denied"},
         UNCHANGED <<helperVars, pipeVars, superVars, attempt, holder, refused>>,
         submission' \in {"never", "submitted", "acknowledged", "refused"},
         lane' \in Requests \cup {Empty}, CatalogFits'
  PROVE  IInv'
<1> USE DEF IInv, helperVars, pipeVars, superVars, stateVars
<1>1. TypeOK'
  BY DEF TypeOK, Waiters
<1>2. SuperFits' /\ HoldsFit' /\ FramesAccepted'
  BY DEF SuperFits, HoldsFit, FramesAccepted, Exited, Waiting
<1>3. GrantsFit' /\ PipeFits'
  BY DEF GrantsFit, Pending, Exited, PipeFits, Ahead, Waiting
<1>4. QED
  BY <1>1, <1>2, <1>3

LEMMA CanceledLane ==
  ASSUME lane \in Requests
  PROVE  [lane EXCEPT !.cancel = TRUE] \in Requests /\ [lane EXCEPT !.cancel = TRUE] # Empty
<1>1. ASSUME NEW c \in BOOLEAN
      PROVE  [lane EXCEPT !.cancel = c] \in Requests
  BY DEF Requests
<1>2. \A r \in Requests : r # Empty
  <2>1. \A r \in Requests : r.at # "empty"
    BY DEF Requests
  <2>2. Empty.at = "empty"
    BY DEF Empty
  <2>3. QED
    BY <2>1, <2>2
<1>3. QED
  BY <1>1, <1>2

LEMMA WaiterKeeps ==
  ASSUME IInv, WaiterNext
  PROVE  IInv'
<1> USE DEF IInv
<1>1. UNCHANGED <<helperVars, pipeVars, superVars, attempt, holder, refused>>
  BY DEF WaiterNext, Submits, AwaitedReply, PollsStatus, WaiterGivesUp, WaiterRest, catalogVars,
         writerVars
<1>2. Waiting /\ attempted # 0 /\ attempted' = attempted /\ attempted \in Nat
  BY <1>1 DEF WaiterNext, Submits, AwaitedReply, PollsStatus, WaiterGivesUp, Waiting, SuperFits,
              superVars, stateVars, TypeOK
<1>3. holder' = Permit <=> attempt'.owner \in {"verifying", "held"}
  BY <1>1 DEF CatalogFits
<1>4. CASE Submits
  <2>1. lane' = [at |-> "queued", kind |-> "acquire", sequence |-> attempted,
                 first |-> TRUE, cancel |-> FALSE, reply |-> "none"]
          /\ submission' = "submitted" /\ waiter' = "awaiting"
    BY <1>4 DEF Submits
  <2>2. lane' \in Requests /\ lane' # Empty /\ lane'.kind = "acquire"
          /\ lane'.sequence = attempted /\ lane'.reply = "none"
    BY <2>1, <1>2 DEF Requests, Replies, Empty
  <2>3. CatalogFits'
    BY <1>1, <1>2, <1>3, <2>1, <2>2 DEF CatalogFits
  <2>4. QED
    BY <1>1, <1>2, <2>1, <2>2, <2>3, WaiterFrame
<1>5. CASE AwaitedReply
  <2>1. waiter = "awaiting" /\ submission' = Recorded /\ waiter' = Received(lane.reply)
          /\ lane' = Empty
    BY <1>5 DEF AwaitedReply
  <2>2. lane.reply # "held"
          /\ (lane.reply = "attempted" => attempt.sequence = attempted /\ ~attempt.release)
    BY <2>1 DEF CatalogFits
  <2>3. waiter' = IF lane.reply = "attempted" THEN "polling" ELSE "denied"
    BY <2>1, <2>2 DEF Received
  <2>4. submission' \in {"acknowledged", "refused", "submitted"}
          /\ (waiter' = "polling" => submission' = "acknowledged")
    BY <2>1, <2>3 DEF Recorded
  <2>5. CatalogFits'
    BY <1>1, <1>2, <1>3, <2>1, <2>2, <2>3, <2>4 DEF CatalogFits
  <2>6. QED
    BY <1>1, <1>2, <2>1, <2>3, <2>4, <2>5, WaiterFrame
<1>6. CASE PollsStatus
  <2>1. waiter = "polling" /\ waiter' \in {Received(Phase), "denied"} /\ UNCHANGED relayVars
    BY <1>6 DEF PollsStatus
  <2>2. waiter' \in {"polling", "granted", "denied"}
          /\ (waiter' = "granted" => attempt.owner = "held")
    BY <2>1 DEF Received, Phase
  <2>3. CatalogFits'
    BY <1>1, <1>2, <1>3, <2>1, <2>2 DEF CatalogFits, relayVars
  <2>4. QED
    BY <1>1, <1>2, <2>1, <2>2, <2>3, WaiterFrame DEF TypeOK, relayVars
<1>7. CASE WaiterGivesUp
  <2>1. waiter' = "denied" /\ UNCHANGED submission
          /\ lane' = IF waiter = "awaiting" /\ stop THEN [lane EXCEPT !.cancel = TRUE] ELSE lane
    BY <1>7 DEF WaiterGivesUp
  <2>2. waiter = "awaiting" => lane \in Requests /\ lane # Empty
    BY DEF CatalogFits, TypeOK
  <2>3. lane' \in Requests \cup {Empty} /\ (lane' # Empty => lane # Empty)
    BY <2>1, <2>2, CanceledLane DEF TypeOK
  <2>4. CatalogFits'
    BY <1>1, <1>2, <1>3, <2>1, <2>3 DEF CatalogFits
  <2>5. QED
    BY <1>1, <1>2, <2>1, <2>3, <2>4, WaiterFrame DEF TypeOK
<1>8. QED
  BY <1>4, <1>5, <1>6, <1>7 DEF WaiterNext


-----------------------------------------------------------------------------
(* The supervisor.                                                         *)

(* It leaves the loop: what it can say of the outcome is settled there.    *)
LEMMA StopsKeeps ==
  ASSUME IInv, g = "running", g' = "draining", failure' \in {"none", "known", "unknown"},
         failure' = "none" => lm = "ended" /\ terminal = "ok",
         failure' = "known" /\ terminal = "none" => ~admitted,
         waiter' = waiter \/ (waiter \in {"denied", "erred"} /\ waiter' = "none"),
         UNCHANGED <<helperVars, pipeVars, stateVars, control, reaped, refused>>,
         submission' \in {"never", "submitted", "acknowledged", "refused"},
         lane' \in Requests \cup {Empty}, attempt' \in Attempts, CatalogFits'
  PROVE  IInv'
<1> USE DEF IInv, helperVars, pipeVars, stateVars
<1>1. TypeOK'
  BY DEF TypeOK, Waiters
<1>2. SuperFits' /\ HoldsFit' /\ FramesAccepted'
  BY DEF SuperFits, HoldsFit, FramesAccepted, Exited
<1>3. GrantsFit' /\ PipeFits'
  BY DEF GrantsFit, Pending, Exited, PipeFits
<1>4. QED
  BY <1>1, <1>2, <1>3

LEMMA OwnerFailure ==
  /\ FailureForOwner \in {"known", "unknown"}
  /\ FailureForOwner = "known" /\ terminal = "none" => ~admitted
BY DEF FailureForOwner

LEMMA FailsKeeps ==
  ASSUME IInv, SupervisorFails \/ HelperEnded
  PROVE  IInv'
<1> USE DEF IInv
<1>1. /\ g = "running" /\ g' = "draining"
      /\ UNCHANGED <<helperVars, pipeVars, stateVars, control, reaped, refused, waiter, relayVars,
                     attempt, holder>>
      /\ failure' = FailureForOwner
           \/ (failure' = "none" /\ lm = "ended" /\ terminal = "ok")
  BY DEF SupervisorFails, HelperEnded, Polling, Breaks, SuperRest, catalogVars, writerVars
<1>2. CatalogFits'
  BY <1>1, CatalogStays DEF stateVars
<1>3. QED
  BY <1>1, <1>2, StopsKeeps, OwnerFailure DEF TypeOK, relayVars

LEMMA SendsControlKeeps ==
  ASSUME IInv, SendsControl
  PROVE  IInv'
<1>1. /\ g = "running" /\ control # Empty /\ toLM' = Append(toLM, control) /\ control' = Empty
      /\ UNCHANGED <<g, stateVars, reaped, failure, waiter, toG, relayVars, refused, helperVars,
                     attempt, holder>>
  BY DEF SendsControl, Polling, SuperRest, catalogVars, writerVars
<1> USE DEF IInv, stateVars, helperVars, relayVars
<1>2. toLM \in Seq(Frames) /\ control \in Frames /\ sequence \in Nat
  BY <1>1 DEF TypeOK
<1>3. toLM' \in Seq(Frames) /\ control' \in Frames \cup {Empty}
  BY <1>1, <1>2
<1>4. TypeOK'
  BY <1>1, <1>3 DEF TypeOK
<1>5. CatalogFits' /\ SuperFits' /\ HoldsFit' /\ FramesAccepted'
  BY <1>1, CatalogStays DEF SuperFits, HoldsFit, FramesAccepted, Exited
<1>6. PipeFits'
  BY <1>1 DEF PipeFits, Ahead
<1>7. GrantsFit'
  <2>1. SUFFICES ASSUME ~Exited, ~canceled
                 PROVE  /\ HasGrant(toLM', sequence) /\ Unrevoked(toLM', sequence)
                        /\ Pending
    BY <1>1, <2>1 DEF GrantsFit, Pending, Exited
  <2>2. NoGrant(toLM) /\ Unrevoked(toLM, sequence) /\ control = GrantOf(sequence)
    BY <1>1, <2>1 DEF GrantsFit
  <2>3. toLM' = <<GrantOf(sequence)>>
    BY <1>1, <1>2, <2>2, GrantShapes, Appended
  <2>4. QED
    BY <1>1, <1>2, <2>3, GrantShapes DEF Pending
<1>8. QED
  BY <1>4, <1>5, <1>6, <1>7

(* The permit is there: the helper still waits for it, or is leaving.      *)
LEMMA PollAdmissionKeeps ==
  ASSUME IInv, PollAdmission
  PROVE  IInv'
<1>1. /\ g = "running" /\ ~releasing /\ control = Empty
      /\ UNCHANGED <<admitted, terminal, attempted, releasing, reaped, pipeVars, relayVars,
                     refused, helperVars, attempt, holder>>
  BY DEF PollAdmission, Polling, SuperRest, catalogVars, writerVars
<1> USE DEF IInv
<1>2. CASE waiter = "denied"
  <2>1. waiter' = "none" /\ Breaks /\ UNCHANGED <<nextWrite, control>>
    BY <1>2 DEF PollAdmission
  <2>2. CatalogFits'
    BY <1>1, <1>2, <2>1 DEF CatalogFits, relayVars
  <2>3. QED
    BY <1>1, <1>2, <2>1, <2>2, StopsKeeps, OwnerFailure DEF Breaks, TypeOK, relayVars, stateVars
<1>3. CASE waiter = "granted"
  <2> DEFINE f == Frame("Grant", attempted)
  <2>1. /\ waiter' = "holding" /\ nextWrite' = nextWrite + 1
        /\ control' = f /\ UNCHANGED <<g, failure>>
    BY <1>3 DEF PollAdmission
  <2> USE DEF helperVars, pipeVars, relayVars
  <2>2. sequence \in Nat /\ attempted \in Nat /\ nextWrite \in Nat /\ attempted # 0 /\ admitted
    BY <1>3 DEF TypeOK, SuperFits
  <2>3. f \in Frames /\ f # Empty
    BY <2>2, FramesDiffer DEF Kinds
  <2>4. TypeOK'
    <3>1. nextWrite' \in Nat /\ control' \in Frames \cup {Empty} /\ waiter' \in Waiters
      BY <2>1, <2>2, <2>3 DEF Waiters
    <3>2. QED
      BY <1>1, <2>1, <3>1 DEF TypeOK
  <2>5. CatalogFits' /\ SuperFits' /\ FramesAccepted'
    BY <1>1, <1>3, <2>1, <2>2 DEF CatalogFits, SuperFits, FramesAccepted, Exited
  <2>6. ~(granted /\ lm \in {"waiting", "writing"}) /\ lm # "writing"
    BY <1>3 DEF HoldsFit
  <2>7. terminal = "none" =>
          /\ nextWrite = attempted
          /\ \/ toG = << >> /\ sequence = attempted /\ lm \in {"waiting", "writing", "crashed"}
             \/ toG = <<Frame("Failed", 0)>> /\ Gone(lm) /\ (lm = "closing" => canceled)
    BY <1>1, <1>3, <2>2 DEF PipeFits
  <2>8. terminal # "none" =>
          toG = << >> /\ Gone(lm) /\ (lm = "closing" => canceled)
    BY <1>1, <2>2 DEF PipeFits
  <2>9. HoldsFit'
    BY <1>1, <2>6 DEF HoldsFit
  <2>10. GrantsFit'
    <3>1. SUFFICES ASSUME ~Exited, ~canceled
                   PROVE  /\ NoGrant(toLM) /\ f = GrantOf(sequence)
                          /\ Unrevoked(toLM, sequence)
                          /\ lm = "waiting" /\ ~granted /\ attempted = sequence
      BY <1>1, <2>1, <3>1 DEF GrantsFit, Pending, Exited
    <3>2. ~Pending
      BY <1>3, <3>1 DEF GrantsFit
    <3>3. NoGrant(toLM) /\ Unrevoked(toLM, sequence)
      BY <1>1, <3>1, <3>2 DEF GrantsFit, Pending
    <3>4. lm \notin {"closing", "ended", "crashed"}
      BY <3>1, <2>7, <2>8 DEF Exited, Gone
    <3>5. lm = "waiting" /\ ~granted /\ attempted = sequence
      BY <2>6, <2>7, <2>8, <3>4 DEF Gone
    <3>6. QED
      BY <3>3, <3>5 DEF GrantOf
  <2>11. PipeFits'
    <3>1. nextWrite' = attempted + 1 \/ terminal # "none"
      BY <2>1, <2>7
    <3>2. QED
      BY <1>1, <2>1, <2>2, <2>7, <2>8, <3>1 DEF PipeFits
  <2>12. QED
    BY <2>4, <2>5, <2>9, <2>10, <2>11
<1>4. QED
  BY <1>2, <1>3 DEF PollAdmission, Ready

(* A frame that State::accept takes changes the state, the pipe and, when  *)
(* a write is asked for, starts the thread that waits for the permit.      *)
LEMMA AcceptsTypes ==
  ASSUME IInv, Accepts(Head(toG)), toG # << >>, toG' = Tail(toG),
         UNCHANGED <<helperVars, control, reaped, toLM, lane, attempt>>
  PROVE  TypeOK'
<1> USE DEF IInv
<1>1. toG \in Seq(Frames) /\ Head(toG) \in Frames /\ toG' \in Seq(Frames)
  BY DEF TypeOK
<1>2. terminal' \in {"none", "ok", "failed"}
  BY DEF Accepts, TypeOK
<1>3. attempted' \in Nat /\ waiter' \in Waiters
        /\ submission' \in {"never", "submitted", "acknowledged", "refused"}
  BY <1>1 DEF Accepts, TypeOK, Frames, Waiters
<1>4. admitted' \in BOOLEAN /\ releasing' \in BOOLEAN
  BY DEF Accepts, TypeOK
<1>5. QED
  BY <1>1, <1>2, <1>3, <1>4 DEF TypeOK, helperVars, Accepts

(* What the next frame is, by how far the conversation came.               *)
LEMMA NextFrame ==
  ASSUME IInv, Polling, toG # << >>
  PROVE  /\ terminal = "none"
         /\ \/ /\ Head(toG) = Frame("Failed", 0) /\ Tail(toG) = << >> /\ Gone(lm)
               /\ lm = "closing" /\ attempted # 0 => canceled
            \/ /\ Head(toG) = Frame("Finished", 0) /\ Tail(toG) = << >> /\ Gone(lm)
               /\ admitted /\ attempted = 0
            \/ /\ Head(toG) = Frame("Admitted", 0) /\ Ahead(Tail(toG), 0)
               /\ ~admitted /\ nextWrite = 1
            \/ /\ Head(toG) = Frame("NeedWrite", nextWrite)
               /\ admitted /\ attempted = 0 /\ nextWrite # 0
               /\ \/ /\ Tail(toG) = << >> /\ sequence = nextWrite
                     /\ lm \in {"waiting", "crashed"}
                  \/ /\ Tail(toG) = <<Frame("Failed", 0)>> /\ Gone(lm)
                     /\ lm = "closing" => canceled
            \/ /\ Head(toG) = Frame("ReleaseWrite", attempted) /\ Ahead(Tail(toG), attempted)
               /\ admitted /\ waiter = "holding" /\ attempted # 0
               /\ nextWrite = attempted + 1
<1> USE DEF IInv, Polling
<1>1. nextWrite \in Nat /\ (attempted # 0 => admitted)
  BY DEF TypeOK, SuperFits
<1>2. \A x, y : /\ Head(<<x>>) = x /\ Tail(<<x>>) = << >>
                /\ Head(<<x, y>>) = x /\ Tail(<<x, y>>) = <<y>>
  BY Taken
<1>3. CASE ~admitted
  BY <1>1, <1>2, <1>3 DEF PipeFits, Gone
<1>4. CASE admitted /\ attempted = 0
  <2>1. terminal = "none" /\ nextWrite > 0 /\ Ahead(toG, nextWrite - 1)
    BY <1>4 DEF PipeFits
  <2>2. (nextWrite - 1) + 1 = nextWrite
    BY <1>1
  <2>3. \/ /\ toG = <<Frame("NeedWrite", nextWrite)>> /\ sequence = nextWrite
           /\ lm \in {"waiting", "crashed"}
        \/ /\ toG = <<Frame("NeedWrite", nextWrite), Frame("Failed", 0)>>
           /\ Gone(lm) /\ (lm = "closing" => canceled)
        \/ toG \in {<<Frame("Finished", 0)>>, <<Frame("Failed", 0)>>} /\ Gone(lm)
    BY <2>1, <2>2 DEF Ahead, Sent
  <2>4. nextWrite # 0
    BY <2>1, <1>1
  <2>5. QED
    BY <1>2, <1>4, <2>1, <2>3, <2>4, Zenon
<1>5. CASE admitted /\ attempted # 0
  <2>1. /\ terminal = "none"
        /\ \/ toG = <<Frame("Failed", 0)>> /\ Gone(lm) /\ (lm = "closing" => canceled)
           \/ /\ waiter = "holding" /\ nextWrite = attempted + 1
              /\ Head(toG) = Frame("ReleaseWrite", attempted) /\ Ahead(Tail(toG), attempted)
    BY <1>5 DEF PipeFits
  <2>2. QED
    BY <1>2, <1>5, <2>1, Zenon
<1>6. QED
  BY <1>3, <1>4, <1>5

LEMMA ReceivesKeeps ==
  ASSUME IInv, Receives
  PROVE  IInv'
<1>1. /\ g = "running" /\ ~releasing /\ Polling /\ control = Empty /\ toG # << >>
      /\ toG' = Tail(toG)
      /\ UNCHANGED <<helperVars, control, reaped, toLM, lane, attempt, holder>>
  BY DEF Receives, Polling, SuperRest, catalogVars, writerVars
<1> DEFINE f == Head(toG)
<1> USE DEF IInv
<1>2. nextWrite \in Nat /\ attempted \in Nat /\ sequence \in Nat
  BY DEF TypeOK
<1>3. /\ waiter # "none" => attempted # 0
      /\ attempted # 0 => admitted
      /\ attempted = 0 => lane = Empty
  BY DEF SuperFits, CatalogFits
<1>4. Acceptable(f)
  <2>1. terminal = "none" /\ ~releasing
    BY <1>1, NextFrame
  <2>2. \/ f.kind = "Failed"
        \/ f.kind = "Finished" /\ admitted /\ waiter = "none" /\ attempted = 0
        \/ f.kind = "Admitted" /\ ~admitted
        \/ f.kind = "NeedWrite" /\ f.sequence = nextWrite /\ admitted /\ waiter = "none"
             /\ attempted = 0
        \/ f.kind = "ReleaseWrite" /\ f.sequence = attempted /\ admitted /\ waiter = "holding"
    BY <1>1, <1>2, <1>3, NextFrame, FramesDiffer
  <2> HIDE DEF f
  <2>3. QED
    BY <2>1, <2>2 DEF Acceptable
<1>5. Accepts(f) /\ refused' = refused
  BY <1>4 DEF Receives, Accepts
<1>6. TypeOK'
  BY <1>1, <1>5, AcceptsTypes
<1>7. FramesAccepted'
  BY <1>5 DEF FramesAccepted
<1>8. UNCHANGED <<g, failure, nextWrite>>
  BY <1>5 DEF Accepts
<1> USE DEF helperVars
<1>9. CASE f = Frame("Failed", 0) \/ f = Frame("Finished", 0)
  <2>1. /\ Tail(toG) = << >> /\ Gone(lm) /\ (lm = "closing" /\ attempted # 0 => canceled)
    BY <1>1, <1>2, <1>9, NextFrame, FramesDiffer
  <2>2. /\ terminal' \in {"ok", "failed"} /\ releasing' = FALSE
        /\ UNCHANGED <<admitted, attempted, waiter, submission>>
    <3>1. f.kind \in {"Failed", "Finished"}
      BY <1>9, FramesDiffer
    <3>2. admitted \in BOOLEAN
      BY DEF TypeOK
    <3> HIDE DEF f
    <3>3. QED
      BY <1>5, <3>1, <3>2 DEF Accepts
  <2> HIDE DEF f
  <2>3. SuperFits' /\ HoldsFit'
    BY <1>1, <1>8, <2>2 DEF SuperFits, HoldsFit, Exited
  <2>4. CatalogFits'
    BY <1>1, <2>2, CatalogStays DEF relayVars
  <2>5. GrantsFit'
    BY <1>1, <1>8, <2>2 DEF GrantsFit, Pending, Exited
  <2>6. PipeFits'
    BY <1>1, <2>1, <2>2 DEF PipeFits
  <2>7. QED
    BY <1>6, <1>7, <2>3, <2>4, <2>5, <2>6
<1>10. CASE f = Frame("Admitted", 0)
  <2>1. terminal = "none" /\ ~admitted /\ Ahead(Tail(toG), 0) /\ nextWrite = 1 /\ attempted = 0
    BY <1>1, <1>2, <1>3, <1>10, NextFrame, FramesDiffer
  <2>2. /\ admitted' = TRUE /\ releasing' = FALSE
        /\ UNCHANGED <<terminal, attempted, waiter, submission>>
    <3>1. f.kind = "Admitted"
      BY <1>10, FramesDiffer
    <3> HIDE DEF f
    <3>2. QED
      BY <1>5, <3>1 DEF Accepts
  <2> HIDE DEF f
  <2>3. SuperFits' /\ HoldsFit'
    BY <1>1, <1>8, <2>1, <2>2 DEF SuperFits, HoldsFit, Exited
  <2>4. CatalogFits'
    BY <1>1, <2>2, CatalogStays DEF relayVars
  <2>5. GrantsFit'
    BY <1>1, <1>8, <2>2 DEF GrantsFit, Pending, Exited
  <2>6. PipeFits'
    <3>1. nextWrite' > 0 /\ nextWrite' - 1 = 0
      BY <1>8, <2>1
    <3>2. Ahead(toG, nextWrite - 1)'
      BY <1>1, <2>1, <3>1 DEF Ahead
    <3>3. QED
      BY <2>1, <2>2, <3>1, <3>2 DEF PipeFits
  <2>7. QED
    BY <1>6, <1>7, <2>3, <2>4, <2>5, <2>6
<1>11. CASE f = Frame("NeedWrite", nextWrite)
  <2>1. /\ terminal = "none" /\ admitted /\ attempted = 0 /\ nextWrite # 0
        /\ \/ /\ Tail(toG) = << >> /\ sequence = nextWrite
              /\ lm \in {"waiting", "crashed"}
           \/ /\ Tail(toG) = <<Frame("Failed", 0)>> /\ Gone(lm)
              /\ lm = "closing" => canceled
    BY <1>1, <1>2, <1>11, NextFrame, FramesDiffer
  <2>2. /\ attempted' = nextWrite /\ waiter' = "submitting" /\ submission' = "never"
        /\ releasing' = FALSE /\ UNCHANGED <<admitted, terminal>>
    <3>1. f.kind = "NeedWrite" /\ f.sequence = nextWrite
      BY <1>2, <1>11, FramesDiffer
    <3>2. admitted \in BOOLEAN
      BY DEF TypeOK
    <3> HIDE DEF f
    <3>3. QED
      BY <1>5, <3>1, <3>2 DEF Accepts
  <2> HIDE DEF f
  <2>3. waiter = "none" /\ lane = Empty
    BY <1>3, <2>1
  <2>4. SuperFits' /\ HoldsFit'
    BY <1>1, <1>8, <2>1, <2>2, <2>3 DEF SuperFits, HoldsFit, Exited
  <2>5. CatalogFits'
    BY <1>1, <2>1, <2>2, <2>3 DEF CatalogFits
  <2>6. GrantsFit'
    BY <1>1, <1>8, <2>2, <2>3 DEF GrantsFit, Pending, Exited
  <2>7. PipeFits'
    BY <1>1, <1>8, <2>1, <2>2 DEF PipeFits
  <2>8. QED
    BY <1>6, <1>7, <2>4, <2>5, <2>6, <2>7
<1>12. CASE f = Frame("ReleaseWrite", attempted)
  <2>1. /\ terminal = "none" /\ admitted /\ waiter = "holding" /\ attempted # 0
        /\ nextWrite = attempted + 1 /\ Ahead(Tail(toG), attempted)
    BY <1>1, <1>2, <1>12, NextFrame, FramesDiffer
  <2>2. releasing' = TRUE /\ UNCHANGED <<admitted, terminal, attempted, waiter, submission>>
    <3>1. f.kind = "ReleaseWrite"
      BY <1>2, <1>12, FramesDiffer
    <3>2. admitted \in BOOLEAN
      BY DEF TypeOK
    <3> HIDE DEF f
    <3>3. QED
      BY <1>5, <3>1, <3>2 DEF Accepts
  <2> HIDE DEF f
  <2>3. lm # "writing" /\ (lm = "waiting" => ~granted /\ sequence # attempted)
    BY <1>2, <2>1 DEF Ahead, Sent, Gone
  <2>4. SuperFits' /\ HoldsFit'
    BY <1>1, <1>8, <2>2, <2>3 DEF SuperFits, HoldsFit, Exited
  <2>5. CatalogFits'
    BY <1>1, <2>2, CatalogStays DEF relayVars
  <2>6. GrantsFit'
    BY <1>1, <1>8, <2>2, <2>3 DEF GrantsFit, Pending, Exited
  <2>7. PipeFits'
    BY <1>1, <1>8, <2>1, <2>2 DEF PipeFits, Ahead
  <2>8. QED
    BY <1>6, <1>7, <2>4, <2>5, <2>6, <2>7
<1>13. QED
  BY <1>1, <1>9, <1>10, <1>11, <1>12, NextFrame

-----------------------------------------------------------------------------
(* The supervisor's custody of the permit.                                 *)

LEMMA RevokesKeeps ==
  ASSUME IInv, Revokes
  PROVE  IInv'
<1>1. /\ g = "draining" /\ ~Exited
      /\ UNCHANGED <<sequence, granted, canceled, wrote, toG, superVars, waiter, relayVars,
                     catalogVars, writerVars, refused>>
      /\ \/ /\ \A i \in DOMAIN toLM : toLM[i].kind # "Cancel"
            /\ toLM' = Append(toLM, CancelFrame)
            /\ UNCHANGED lm
         \/ lm' = "crashed" /\ UNCHANGED toLM
  BY DEF Revokes, CancelFrame
<1> USE DEF IInv
<1>2. CASE lm' = "crashed" /\ UNCHANGED toLM
  BY <1>1, <1>2, ExitsKeeps DEF TypeOK
<1>3. CASE /\ \A i \in DOMAIN toLM : toLM[i].kind # "Cancel"
           /\ toLM' = Append(toLM, CancelFrame)
           /\ UNCHANGED lm
  <2> USE DEF superVars, stateVars, relayVars, catalogVars, writerVars
  <2>1. CancelFrame \in Frames /\ CancelFrame.kind = "Cancel" /\ sequence \in Nat
          /\ GrantOf(sequence) \in Frames
    BY FramesDiffer DEF CancelFrame, GrantOf, Kinds, TypeOK
  <2>2. TypeOK'
    <3>1. toLM' \in Seq(Frames)
      BY <1>3, <2>1 DEF TypeOK
    <3>2. QED
      BY <1>1, <1>3, <3>1, HelperTypes DEF TypeOK
  <2>3. CatalogFits' /\ SuperFits' /\ HoldsFit' /\ FramesAccepted' /\ PipeFits'
    BY <1>1, <1>3, CatalogStays DEF SuperFits, HoldsFit, FramesAccepted, PipeFits, Exited
  <2>4. toLM # <<CancelFrame>> /\ toLM # <<GrantOf(sequence), CancelFrame>>
    <3>1. \A x : DOMAIN <<x>> = {1} /\ <<x>>[1] = x
      OBVIOUS
    <3>2. \A x, y : 2 \in DOMAIN <<x, y>> /\ <<x, y>>[2] = y
      OBVIOUS
    <3>3. QED
      BY <1>3, <2>1, <3>1, <3>2
  <2>5. /\ Append(<< >>, CancelFrame) = <<CancelFrame>>
        /\ Append(<<GrantOf(sequence)>>, CancelFrame) = <<GrantOf(sequence), CancelFrame>>
    BY <2>1, Appended
  <2>6. /\ NoGrant(toLM) => NoGrant(toLM')
        /\ HasGrant(toLM, sequence) => HasGrant(toLM', sequence)
    BY <1>3, <2>4, <2>5 DEF NoGrant, HasGrant
  <2>7. GrantsFit'
    BY <1>1, <1>3, <2>1, <2>6, GrantShapes DEF GrantsFit, Pending, Exited
  <2>8. QED
    BY <2>2, <2>3, <2>7
<1>4. QED
  BY <1>1, <1>2, <1>3

(* A step of the supervisor that leaves the conversation with the helper,  *)
(* the write that it attempted and its thread alone.                       *)
LEMMA IdleKeeps ==
  ASSUME IInv, UNCHANGED <<helperVars, pipeVars, g, stateVars, control, reaped, refused>>,
         waiter' = waiter \/ (g # "running" /\ waiter = "erred" /\ waiter' = "none"),
         failure' = failure \/ (g # "running" /\ failure' = "unknown"),
         submission' \in {"never", "submitted", "acknowledged", "refused"},
         lane' \in Requests \cup {Empty}, attempt' \in Attempts, CatalogFits'
  PROVE  IInv'
<1> USE DEF IInv, helperVars, pipeVars, stateVars
<1>1. TypeOK'
  BY DEF TypeOK, Waiters
<1>2. SuperFits' /\ HoldsFit' /\ FramesAccepted'
  BY DEF SuperFits, HoldsFit, FramesAccepted, Exited
<1>3. GrantsFit' /\ PipeFits'
  BY DEF GrantsFit, Pending, Exited, PipeFits, Ahead
<1>4. QED
  BY <1>1, <1>2, <1>3

(* The helper was reaped, or ended its write: no grant is out.             *)
LEMMA RetiredWaiter ==
  ASSUME IInv, Retires
  PROVE  /\ ~(granted /\ lm \in {"waiting", "writing"})
         /\ ~Exited /\ ~canceled => ~Pending
BY DEF IInv, Retires, HoldsFit, GrantsFit, SuperFits, Exited

LEMMA RetiresWaiterKeeps ==
  ASSUME IInv, RetiresWaiter
  PROVE  IInv'
<1>1. /\ Retires /\ waiter # "none" /\ waiter' \in {"none", "erred"}
      /\ UNCHANGED <<superVars, pipeVars, relayVars, refused, helperVars, attempt, holder>>
  BY DEF RetiresWaiter, SuperRest, catalogVars, writerVars
<1> USE DEF IInv, superVars, stateVars, pipeVars, relayVars, helperVars
<1>2. TypeOK' /\ SuperFits' /\ FramesAccepted'
  BY <1>1 DEF TypeOK, Waiters, SuperFits, FramesAccepted, Exited
<1>3. CatalogFits'
  BY <1>1 DEF CatalogFits
<1>4. HoldsFit' /\ GrantsFit'
  BY <1>1, RetiredWaiter DEF HoldsFit, GrantsFit, Pending, Exited
<1>5. PipeFits'
  BY <1>1 DEF PipeFits, Ahead, Retires
<1>6. QED
  BY <1>2, <1>3, <1>4, <1>5

(* The permit is given back, or was never there: the next write may come.  *)
LEMMA SettledKeeps ==
  ASSUME IInv, Settling, Settled, lane = Empty, lane' = Empty,
         UNCHANGED <<helperVars, pipeVars, admitted, terminal, nextWrite, control, reaped,
                     submission, holder, refused>>,
         attempt' \in Attempts, attempt'.owner = attempt.owner
  PROVE  IInv'
<1>1. /\ Retires /\ attempted # 0 /\ waiter \in {"none", "erred"} /\ waiter' = "none"
      /\ attempted' = 0 /\ releasing' = FALSE /\ UNCHANGED <<g, failure>>
  BY DEF Settling, Settled
<1> USE DEF IInv, pipeVars, helperVars
<1>2. TypeOK' /\ SuperFits' /\ FramesAccepted'
  <2>1. attempted' \in Nat /\ releasing' \in BOOLEAN
    BY <1>1
  <2>2. TypeOK'
    BY <1>1, <2>1 DEF TypeOK, Waiters
  <2>3. QED
    BY <1>1, <2>2 DEF SuperFits, FramesAccepted, Exited
<1>3. CatalogFits'
  BY <1>1 DEF CatalogFits
<1>4. HoldsFit' /\ GrantsFit'
  BY <1>1, RetiredWaiter DEF HoldsFit, GrantsFit, Pending, Exited
<1>5. PipeFits'
  <2>1. SUFFICES ASSUME g = "running"
                 PROVE  PipeFits'
    BY <1>1 DEF PipeFits
  <2>2. /\ terminal = "none" /\ admitted /\ nextWrite = attempted + 1 /\ Ahead(toG, attempted)
    BY <1>1, <2>1 DEF PipeFits, Retires
  <2>3. nextWrite' > 0 /\ nextWrite' - 1 = attempted
    BY <2>2 DEF TypeOK
  <2>4. Ahead(toG, nextWrite - 1)'
    BY <2>2, <2>3 DEF Ahead
  <2>5. QED
    BY <1>1, <2>2, <2>3, <2>4 DEF PipeFits
<1>6. QED
  BY <1>2, <1>3, <1>4, <1>5

(* An error while it settles                                               *)
LEMMA NotSettledKeeps ==
  ASSUME IInv, Settling, NotSettled,
         UNCHANGED <<helperVars, pipeVars, admitted, terminal, nextWrite, control, reaped,
                     refused>>,
         submission' \in {"never", "submitted", "acknowledged", "refused"},
         lane' \in Requests \cup {Empty}, attempt' \in Attempts, CatalogFits'
  PROVE  IInv'
<1>1. /\ UNCHANGED stateVars
      /\ waiter' = waiter \/ (waiter = "erred" /\ waiter' = "none")
  BY DEF NotSettled, Settling, stateVars
<1>2. CASE g = "running"
  BY <1>1, <1>2, StopsKeeps, OwnerFailure DEF NotSettled, Breaks
<1>3. CASE g # "running"
  BY <1>1, <1>3, IdleKeeps DEF NotSettled
<1>4. QED
  BY <1>2, <1>3

LEMMA ReleasedPermit ==
  ASSUME attempt \in Attempts
  PROVE  /\ ReleasePermit \in Attempts
         /\ ReleasePermit.owner = attempt.owner
<1>1. ASSUME NEW a \in Attempts, NEW b \in BOOLEAN
      PROVE  /\ [a EXCEPT !.release = b] \in Attempts /\ [a EXCEPT !.release = b].owner = a.owner
             /\ [a EXCEPT !.cancel = b] \in Attempts /\ [a EXCEPT !.cancel = b].owner = a.owner
  BY DEF Attempts
<1> DEFINE half == [attempt EXCEPT !.release = TRUE]
<1>2. half \in Attempts /\ half.owner = attempt.owner
  BY <1>1
<1>3. ReleasePermit = [half EXCEPT !.cancel = TRUE]
  BY Zenon DEF ReleasePermit
<1> HIDE DEF half
<1>4. QED
  BY <1>1, <1>2, <1>3

LEMMA SettlingKeeps ==
  ASSUME IInv,
         \/ SettlesAbsent \/ AsksRecovery \/ CancelsAcquire \/ RecoveredReply \/ SettlesLate
         \/ CallsRelease
  PROVE  IInv'
<1>1. /\ Settling
      /\ UNCHANGED <<helperVars, pipeVars, admitted, terminal, nextWrite, control, reaped,
                     refused, holder>>
      /\ waiter' = "none" \/ UNCHANGED waiter
  BY DEF SettlesAbsent, AsksRecovery, CancelsAcquire, RecoveredReply, SettlesLate, CallsRelease,
         Settled, NotSettled, StillSettling, SettleRest, writerVars
<1> USE DEF IInv
<1>2. /\ waiter \in {"none", "erred"} /\ waiter' \in {"none", "erred"} /\ attempted # 0 /\ attempt \in Attempts
      /\ attempted \in Nat /\ lane \in Requests \cup {Empty}
      /\ submission \in {"never", "submitted", "acknowledged", "refused"}
      /\ holder = Permit <=> attempt.owner \in {"verifying", "held"}
      /\ lane # Empty => submission = "submitted"
  BY <1>1 DEF Settling, TypeOK, CatalogFits
<1>3. ASSUME attempted' = attempted, attempt'.owner = attempt.owner,
             lane' # Empty => submission' = "submitted"
      PROVE  CatalogFits'
  BY <1>1, <1>2, <1>3 DEF CatalogFits
<1>4. CASE SettlesAbsent
  <2>1. lane = Empty /\ Settled /\ UNCHANGED <<submission, lane, attempt>>
    BY <1>2, <1>4 DEF SettlesAbsent, Absent, relayVars
  <2>2. QED
    BY <1>1, <1>2, <2>1, SettledKeeps
<1>5. CASE AsksRecovery
  <2>1. /\ submission = "submitted" /\ StillSettling /\ UNCHANGED <<submission, attempt>>
        /\ lane' = [at |-> "queued", kind |-> "recover", sequence |-> attempted,
                    first |-> FALSE, cancel |-> FALSE, reply |-> "none"]
    BY <1>5 DEF AsksRecovery
  <2>2. lane' \in Requests
    BY <1>2, <2>1 DEF Requests, Replies
  <2>3. CatalogFits'
    BY <1>3, <2>1 DEF StillSettling
  <2>4. QED
    BY <1>1, <1>2, <2>1, <2>2, <2>3, IdleKeeps DEF StillSettling, stateVars
<1>6. CASE CancelsAcquire
  <2>1. /\ submission = "submitted" /\ StillSettling /\ UNCHANGED <<submission, attempt>>
        /\ lane.at = "queued" /\ lane' = [lane EXCEPT !.cancel = TRUE]
    BY <1>6 DEF CancelsAcquire
  <2>2. lane' \in Requests
    BY <2>1, OnLane, CanceledLane
  <2>3. CatalogFits'
    BY <1>3, <2>1 DEF StillSettling
  <2>4. QED
    BY <1>1, <1>2, <2>1, <2>2, <2>3, IdleKeeps DEF StillSettling, stateVars
<1>7. CASE RecoveredReply
  <2>1. /\ submission' = Recorded /\ lane' = Empty /\ UNCHANGED attempt
        /\ IF Recorded = "submitted" THEN NotSettled ELSE StillSettling
    BY <1>7 DEF RecoveredReply
  <2>2. submission' \in {"acknowledged", "refused", "submitted"}
    BY <2>1 DEF Recorded
  <2>3. attempted' = attempted
    BY <2>1 DEF NotSettled, StillSettling
  <2>4. CatalogFits'
    BY <1>3, <2>1, <2>3
  <2>5. CASE Recorded = "submitted"
    BY <1>1, <1>2, <2>1, <2>2, <2>4, <2>5, NotSettledKeeps
  <2>6. CASE Recorded # "submitted"
    BY <1>1, <1>2, <2>1, <2>2, <2>4, <2>6, IdleKeeps DEF StillSettling, stateVars
  <2>7. QED
    BY <2>5, <2>6
<1>8. CASE SettlesLate
  <2>1. NotSettled /\ UNCHANGED <<submission, lane, attempt>>
    BY <1>8 DEF SettlesLate, relayVars
  <2>2. CatalogFits'
    BY <1>2, <1>3, <2>1 DEF NotSettled
  <2>3. QED
    BY <1>1, <1>2, <2>1, <2>2, NotSettledKeeps
<1>9. CASE CallsRelease
  <2>1. /\ submission = "acknowledged" /\ attempt' = ReleasePermit /\ UNCHANGED <<submission, lane>>
        /\ Settled \/ NotSettled \/ StillSettling
    BY <1>9 DEF CallsRelease, relayVars
  <2>2. lane = Empty /\ attempt' \in Attempts /\ attempt'.owner = attempt.owner
    BY <1>2, <2>1, ReleasedPermit
  <2>3. CASE Settled
    BY <1>1, <2>1, <2>2, <2>3, SettledKeeps
  <2>4. attempted' = attempted => CatalogFits'
    BY <1>3, <2>1, <2>2
  <2>5. CASE NotSettled
    BY <1>1, <1>2, <2>1, <2>2, <2>4, <2>5, NotSettledKeeps DEF NotSettled
  <2>6. CASE StillSettling
    BY <1>1, <1>2, <2>1, <2>2, <2>4, <2>6, IdleKeeps DEF StillSettling, stateVars
  <2>7. QED
    BY <2>1, <2>3, <2>5, <2>6
<1>10. QED
  BY <1>4, <1>5, <1>6, <1>7, <1>8, <1>9

(* Reaping the helper, a retry of the drain, and the end of the operation  *)
LEMMA EndsKeep ==
  ASSUME IInv, Reaps \/ RetriesDrain \/ Drained \/ DrainsTarget
  PROVE  IInv'
<1>1. UNCHANGED <<helperVars, pipeVars, stateVars, control, failure, waiter, relayVars, refused,
                  holder>>
  BY DEF Reaps, RetriesDrain, Drained, DrainsTarget, SuperRest, writerVars
<1> USE DEF IInv
<1>2. CASE Reaps \/ Drained
  <2>1. UNCHANGED <<attempt, holder>> /\ g = "draining" /\ reaped' \in BOOLEAN
          /\ (reaped' => Exited) /\ g' \in {"draining", "target"}
          /\ (g' = "target" => waiter = "none" /\ attempted = 0 /\ reaped')
    BY <1>2 DEF Reaps, Drained, SuperRest, catalogVars, writerVars, TypeOK, SuperFits
  <2> USE DEF helperVars, pipeVars, stateVars, relayVars
  <2>2. TypeOK' /\ SuperFits' /\ FramesAccepted'
    BY <1>1, <2>1 DEF TypeOK, SuperFits, FramesAccepted, Exited
  <2>3. CatalogFits'
    BY <1>1, <2>1, CatalogStays
  <2>4. HoldsFit' /\ GrantsFit' /\ PipeFits'
    BY <1>1, <2>1 DEF HoldsFit, GrantsFit, Pending, Exited, PipeFits
  <2>5. QED
    BY <2>2, <2>3, <2>4
<1>3. CASE RetriesDrain
  <2>1. UNCHANGED <<attempt, holder, g, reaped>>
    BY <1>3 DEF RetriesDrain, SuperRest, catalogVars, writerVars
  <2>2. CatalogFits'
    BY <1>1, <2>1, CatalogStays DEF stateVars
  <2>3. QED
    BY <1>1, <2>1, <2>2, IdleKeeps DEF TypeOK, relayVars
<1>4. CASE DrainsTarget
  <2>1. g = "target" /\ g' \in {"target", "done"} /\ attempt' = ReleasePermit /\ reaped' = reaped
    BY <1>4 DEF DrainsTarget
  <2>2. attempt' \in Attempts /\ attempt'.owner = attempt.owner
    BY <2>1, ReleasedPermit DEF TypeOK
  <2>3. waiter = "none" /\ attempted = 0 /\ reaped
    BY <2>1 DEF SuperFits
  <2> USE DEF helperVars, pipeVars, stateVars, relayVars
  <2>4. CatalogFits'
    BY <1>1, <2>2, <2>3 DEF CatalogFits
  <2>5. TypeOK' /\ SuperFits' /\ FramesAccepted'
    BY <1>1, <2>1, <2>2, <2>3 DEF TypeOK, SuperFits, FramesAccepted, Exited
  <2>6. HoldsFit' /\ GrantsFit' /\ PipeFits'
    BY <1>1, <2>1 DEF HoldsFit, GrantsFit, Pending, Exited, PipeFits
  <2>7. QED
    BY <2>4, <2>5, <2>6
<1>5. QED
  BY <1>2, <1>3, <1>4

LEMMA SupervisorKeeps ==
  ASSUME IInv, SuperNext
  PROVE  IInv'
BY FailsKeeps, SendsControlKeeps, PollAdmissionKeeps, ReceivesKeeps, RevokesKeeps,
   RetiresWaiterKeeps, SettlingKeeps, EndsKeep DEF SuperNext, SuperProgress

LEMMA NothingMoves ==
  ASSUME IInv, UNCHANGED <<helperVars, pipeVars, superVars, waiter, relayVars, catalogVars,
                           writerVars, refused>>
  PROVE  IInv'
<1> USE DEF IInv, superVars, stateVars, relayVars, catalogVars, writerVars
<1>1. CatalogFits'
  BY CatalogStays
<1>2. QED
  BY <1>1, IdleKeeps DEF TypeOK

-----------------------------------------------------------------------------

LEMMA Initially ==
  ASSUME Init
  PROVE  IInv
<1> USE DEF Init
<1>1. attempt \in Attempts /\ attempt.owner = "none" /\ ~attempt.release
  BY DEF NoAttempt, Attempts, Owners
<1>2. holder # Permit
  BY DEF Writer!Init, NoThread, Permit
<1>3. TypeOK
  <2>1. sequence \in Nat /\ nextWrite \in Nat /\ attempted \in Nat
    OBVIOUS
  <2>2. toG \in Seq(Frames) /\ toLM \in Seq(Frames)
    OBVIOUS
  <2>3. /\ granted \in BOOLEAN /\ canceled \in BOOLEAN /\ wrote \in BOOLEAN
        /\ admitted \in BOOLEAN /\ releasing \in BOOLEAN /\ reaped \in BOOLEAN
    OBVIOUS
  <2>4. QED
    BY <1>1, <2>1, <2>2, <2>3, Zenon DEF TypeOK, Places, Waiters
<1>4. CatalogFits /\ SuperFits /\ HoldsFit /\ FramesAccepted
  BY <1>1, <1>2 DEF CatalogFits, SuperFits, HoldsFit, FramesAccepted
<1>5. GrantsFit /\ PipeFits
  BY GrantShapes DEF GrantsFit, Pending, HasGrant, PipeFits
<1>6. QED
  BY <1>3, <1>4, <1>5 DEF IInv

(* The three processes keep their state consistent with one another,       *)
(* however their steps, crashes, stops and lost replies interleave, for    *)
(* any number of writes and faults.                                        *)
THEOREM GrantsInductive == Spec => []IInv
<1>1. Init => IInv
  BY Initially
<1>2. IInv /\ [Next]_vars => IInv'
  <2>1. SUFFICES ASSUME IInv, [Next]_vars
                 PROVE  IInv'
    OBVIOUS
  <2>2. CASE Stop \/ Deadline
    BY <2>1, <2>2, NothingMoves DEF Stop, Deadline, EnvRest
  <2>3. CASE UNCHANGED vars
    BY <2>1, <2>3, NothingMoves DEF vars, envVars
  <2>4. QED
    BY <2>1, <2>2, <2>3, HelperKeeps, CatalogKeeps, WaiterKeeps, SupervisorKeeps DEF Next
<1>3. QED
  BY <1>1, <1>2, PTL DEF Spec

(* While the helper can have a transaction open, C's permit for exactly    *)
(* that write holds the catalog's writer: the supervisor releases a permit *)
(* only after it read the helper's ReleaseWrite or reaped the process.     *)
THEOREM WritesCovered == Spec => []WriteCovered
<1>1. IInv => WriteCovered
  BY DEF IInv, HoldsFit, CatalogFits, WriteCovered
<1>2. QED
  BY <1>1, GrantsInductive, PTL

(* Neither State::accept nor Controls::accept takes an honest frame for a  *)
(* violation of the protocol.                                              *)
THEOREM FramesAgree == Spec => []FramesAccepted
<1>1. IInv => FramesAccepted
  BY DEF IInv
<1>2. QED
  BY <1>1, GrantsInductive, PTL

(* Complete is reported only of a helper that finished and exited, and a   *)
(* failure without a terminal frame is called known only when the helper   *)
(* committed nothing (failure_for_owner).                                  *)
THEOREM OutcomesHonest == Spec => []OutcomeHonest
<1>1. IInv => OutcomeHonest
  BY DEF IInv, SuperFits, OutcomeHonest
<1>2. QED
  BY <1>1, GrantsInductive, PTL

=============================================================================
