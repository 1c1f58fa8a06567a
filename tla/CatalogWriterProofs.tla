------------------------ MODULE CatalogWriterProofs ------------------------
(***************************************************************************)
(* Proofs about CatalogWriter for any number of threads and tickets.       *)
(***************************************************************************)
EXTENDS CatalogWriter, FiniteSetTheorems, TLAPS

\* advance_retired runs its loop at most once: either no range starts at the
\* serving counter, and nothing changes, or the one that does is removed and
\* the counter moves just past it.
LEMMA AdvanceLemma ==
  ASSUME NEW s \in Nat, NEW n \in Nat, NEW R \in SUBSET TicketRange,
         WellFormed(R, s, n)
  PROVE  \/ /\ \A r \in R : r.first # s
            /\ AdvancedServing(s, R) = s
            /\ AdvancedRetired(s, R) = R
         \/ \E r \in R : /\ r.first = s
                         /\ AdvancedServing(s, R) = r.last + 1
                         /\ AdvancedRetired(s, R) = R \ {r}
<1> USE DEF TicketRange
<1>1. CASE \A r \in R : r.first # s
  <2>1. s \notin Covered(R)
    BY <1>1 DEF Covered, WellFormed
  <2>2. Passed(s, R) = {}
    BY <2>1 DEF Passed, WellFormed
  <2>3. QED
    BY <1>1, <2>2 DEF AdvancedServing, AdvancedRetired
<1>2. CASE \E r \in R : r.first = s
  <2>1. PICK r \in R : r.first = s
    BY <1>2
  <2>2. r \in Passed(s, R)
    BY <2>1 DEF Passed, Covered, WellFormed
  <2>3. ASSUME NEW q \in Passed(s, R), q # r
        PROVE  FALSE
    <3>1. r.last + 1 < q.first
      BY <2>1, <2>3 DEF Passed, WellFormed
    <3>2. r.last + 1 \in Covered(R)
      BY <2>1, <2>3, <3>1 DEF Passed, WellFormed
    <3>3. PICK p \in R : r.last + 1 \in p.first .. p.last
      BY <3>2 DEF Covered
    <3>4. QED
      BY <2>1, <3>3 DEF WellFormed
  <2>4. Passed(s, R) = {r}
    BY <2>2, <2>3
  <2>5. (CHOOSE x \in Passed(s, R) : \A q \in Passed(s, R) : q.last <= x.last) = r
    BY <2>4
  <2>6. QED
    BY <2>1, <2>4, <2>5 DEF AdvancedServing, AdvancedRetired
<1>3. QED
  BY <1>1, <1>2

\* Advancing keeps the ranges well formed, never passes a ticket that is not
\* retired, and leaves the set of unserved retired tickets as it was.
LEMMA AdvanceKeeps ==
  ASSUME NEW s \in Nat, NEW n \in Nat, NEW R \in SUBSET TicketRange,
         s <= n, WellFormed(R, s, n)
  PROVE  /\ AdvancedServing(s, R) \in Nat
         /\ s <= AdvancedServing(s, R) /\ AdvancedServing(s, R) <= n
         /\ AdvancedRetired(s, R) \in SUBSET TicketRange
         /\ WellFormed(AdvancedRetired(s, R), AdvancedServing(s, R), n)
         /\ \A k \in s .. (AdvancedServing(s, R) - 1) : k \in Covered(R)
         /\ \A k \in Nat : k >= AdvancedServing(s, R) =>
              (k \in Covered(AdvancedRetired(s, R)) <=> k \in Covered(R))
<1> USE DEF TicketRange
<1>1. CASE /\ AdvancedServing(s, R) = s
           /\ AdvancedRetired(s, R) = R
  BY <1>1
<1>2. CASE \E r \in R : /\ r.first = s
                        /\ AdvancedServing(s, R) = r.last + 1
                        /\ AdvancedRetired(s, R) = R \ {r}
  <2>1. PICK r \in R : /\ r.first = s
                       /\ AdvancedServing(s, R) = r.last + 1
                       /\ AdvancedRetired(s, R) = R \ {r}
    BY <1>2
  <2>2. WellFormed(R \ {r}, r.last + 1, n)
    BY <2>1 DEF WellFormed
  <2>3. \A k \in s .. r.last : k \in Covered(R)
    BY <2>1 DEF Covered
  <2>4. \A k \in Nat : k >= r.last + 1 => (k \in Covered(R \ {r}) <=> k \in Covered(R))
    BY <2>1 DEF Covered
  <2>5. r.last + 1 - 1 = r.last /\ r.last \in Nat /\ s <= r.last /\ r.last < n
    BY <2>1 DEF WellFormed
  <2>6. R \ {r} \in SUBSET TicketRange
    OBVIOUS
  <2>7. /\ AdvancedServing(s, R) \in Nat
        /\ s <= AdvancedServing(s, R) /\ AdvancedServing(s, R) <= n
        /\ AdvancedServing(s, R) - 1 = r.last
    BY <2>1, <2>5
  <2>8. WellFormed(AdvancedRetired(s, R), AdvancedServing(s, R), n)
    BY <2>1, <2>2
  <2>9. \A k \in Nat : k >= AdvancedServing(s, R) =>
          (k \in Covered(AdvancedRetired(s, R)) <=> k \in Covered(R))
    BY <2>1, <2>4
  <2>10. \A k \in s .. (AdvancedServing(s, R) - 1) : k \in Covered(R)
    BY <2>3, <2>7
  <2>11. QED
    BY <2>1, <2>6, <2>7, <2>8, <2>9, <2>10
<1>3. QED
  BY <1>1, <1>2, AdvanceLemma

\* Joining an unretired ticket to the ranges adds exactly that ticket and
\* keeps them disjoint and maximal.
LEMMA JoinedKeeps ==
  ASSUME NEW s \in Nat, NEW n \in Nat, NEW R \in SUBSET TicketRange,
         WellFormed(R, s, n), NEW k \in s .. (n - 1), k \notin Covered(R)
  PROVE  /\ Joined(R, k) \in SUBSET TicketRange
         /\ WellFormed(Joined(R, k), s, n)
         /\ Covered(Joined(R, k)) = Covered(R) \cup {k}
<1> USE DEF TicketRange
<1> DEFINE below == {r \in R : r.last + 1 = k}
           above == {r \in R : r.first = k + 1}
           start == IF below = {} THEN k ELSE (CHOOSE r \in below : TRUE).first
           end   == IF above = {} THEN k ELSE (CHOOSE r \in above : TRUE).last
           new   == [first |-> start, last |-> end]
           J     == (R \ (below \cup above)) \cup {new}
<1>1. Joined(R, k) = J
  BY DEF Joined
<1>2. \A r \in R : r.last < k \/ k < r.first
  BY DEF Covered, WellFormed
<1>3. /\ start \in Nat /\ s <= start /\ start <= k
      /\ \/ below = {} /\ start = k
         \/ \E b \in R : below = {b} /\ start = b.first
  <2>1. CASE below = {}
    BY <2>1
  <2>2. CASE below # {}
    <3>1. PICK b \in R : b \in below
      BY <2>2
    <3>2. \A r \in below : r = b
      BY <3>1 DEF WellFormed
    <3>3. below = {b} /\ (CHOOSE r \in below : TRUE) = b
      BY <3>1, <3>2
    <3>4. QED
      BY <2>2, <3>1, <3>3 DEF WellFormed
  <2>3. QED
    BY <2>1, <2>2
<1>4. /\ end \in Nat /\ k <= end /\ end < n
      /\ \/ above = {} /\ end = k
         \/ \E a \in R : above = {a} /\ end = a.last
  <2>1. CASE above = {}
    BY <2>1
  <2>2. CASE above # {}
    <3>1. PICK a \in R : a \in above
      BY <2>2
    <3>2. \A r \in above : r = a
      BY <3>1 DEF WellFormed
    <3>3. above = {a} /\ (CHOOSE r \in above : TRUE) = a
      BY <3>1, <3>2
    <3>4. QED
      BY <2>2, <3>1, <3>3 DEF WellFormed
  <2>3. QED
    BY <2>1, <2>2
<1>5. \A r \in R \ (below \cup above) : r.last + 1 < start \/ end + 1 < r.first
  BY <1>2, <1>3, <1>4 DEF WellFormed
<1>6. J \in SUBSET TicketRange
  BY <1>3, <1>4
<1>7. WellFormed(J, s, n)
  BY <1>3, <1>4, <1>5 DEF WellFormed
<1>8. Covered(J) = Covered(R) \cup {k}
  <2>1. ASSUME NEW x \in Covered(J) PROVE x \in Covered(R) \cup {k}
    <3>1. PICK r \in J : x \in r.first .. r.last
      BY <2>1 DEF Covered
    <3>2. CASE r \in R
      BY <3>1, <3>2 DEF Covered
    <3>3. CASE r = new
      <4>1. x \in start .. end
        BY <3>1, <3>3
      <4>2. CASE x < k
        BY <1>3, <1>4, <4>1, <4>2 DEF Covered
      <4>3. CASE x > k
        BY <1>3, <1>4, <4>1, <4>3 DEF Covered
      <4>4. QED
        BY <1>3, <1>4, <4>1, <4>2, <4>3
    <3>4. QED
      BY <3>1, <3>2, <3>3
  <2>2. ASSUME NEW x \in Covered(R) \cup {k} PROVE x \in Covered(J)
    <3>1. new \in J /\ new.first = start /\ new.last = end
      OBVIOUS
    <3> HIDE DEF new, start, end
    <3>2. CASE x = k
      <4>1. k \in new.first .. new.last
        BY <1>3, <1>4, <3>1
      <4>2. QED
        BY <3>1, <3>2, <4>1 DEF Covered
    <3>3. CASE x \in Covered(R)
      <4>1. PICK r \in R : x \in r.first .. r.last
        BY <3>3 DEF Covered
      <4>2. CASE r \in below \cup above
        <5>1. x \in start .. end
          BY <1>3, <1>4, <4>1, <4>2
        <5>2. QED
          BY <3>1, <5>1 DEF Covered
      <4>3. CASE r \notin below \cup above
        BY <4>1, <4>3 DEF Covered
      <4>4. QED
        BY <4>2, <4>3
    <3>4. QED
      BY <3>2, <3>3
  <2>3. QED
    BY <2>1, <2>2
<1>9. QED
  BY <1>1, <1>6, <1>7, <1>8

\* The strengthening that is inductive: the tickets are accounted for and the
\* ranges are what advance_retired and retire expect them to be.
IInv ==
  /\ TypeOK
  /\ SingleWriter
  /\ TicketsAccounted
  /\ RangesWellFormed

\* What a pass of the loop computes before it looks at the turn: each class's
\* ranges stay well formed, no waiter is skipped, and no ticket is lost.
LEMMA PassKeeps ==
  ASSUME IInv, NEW c \in Classes
  PROVE  /\ Serving[c] \in Nat
         /\ serving[c] <= Serving[c] /\ Serving[c] <= next[c]
         /\ Ranges[c] \in SUBSET TicketRange
         /\ WellFormed(Ranges[c], Serving[c], next[c])
         /\ \A k \in Serving[c] .. (next[c] - 1) :
              k \in Covered(Ranges[c]) <=> k \in Covered(retired[c])
         /\ \A t \in Threads : Waiting(t) /\ class[t] = c => Serving[c] <= ticket[t]
<1>1. /\ serving[c] \in Nat /\ next[c] \in Nat /\ serving[c] <= next[c]
      /\ retired[c] \in SUBSET TicketRange
      /\ WellFormed(retired[c], serving[c], next[c])
  BY DEF IInv, TypeOK, TicketsAccounted, RangesWellFormed
<1>2. /\ Serving[c] = AdvancedServing(serving[c], retired[c])
      /\ Ranges[c] = AdvancedRetired(serving[c], retired[c])
  BY DEF Serving, Ranges
<1>3. /\ Serving[c] \in Nat
      /\ serving[c] <= Serving[c] /\ Serving[c] <= next[c]
      /\ Ranges[c] \in SUBSET TicketRange
      /\ WellFormed(Ranges[c], Serving[c], next[c])
      /\ \A k \in serving[c] .. (Serving[c] - 1) : k \in Covered(retired[c])
      /\ \A k \in Nat : k >= Serving[c] =>
           (k \in Covered(Ranges[c]) <=> k \in Covered(retired[c]))
  BY <1>1, <1>2, AdvanceKeeps
<1>4. ASSUME NEW t \in Threads, Waiting(t), class[t] = c
      PROVE  Serving[c] <= ticket[t]
  <2>1. /\ ticket[t] \in serving[c] .. (next[c] - 1)
        /\ ticket[t] \notin Covered(retired[c])
    BY <1>4 DEF IInv, TicketsAccounted
  <2>2. QED
    BY <1>1, <1>3, <2>1
<1>5. \A k \in Serving[c] .. (next[c] - 1) :
        k \in Covered(Ranges[c]) <=> k \in Covered(retired[c])
  BY <1>1, <1>3
<1>6. QED
  BY <1>3, <1>4, <1>5

\* A step that touches neither the counters nor who waits keeps the accounts.
LEMMA QuietStep ==
  ASSUME IInv, UNCHANGED <<next, serving, retired, class, ticket>>,
         \A u \in Threads : Waiting(u)' <=> Waiting(u)
  PROVE  TicketsAccounted' /\ RangesWellFormed'
<1>1. RangesWellFormed'
  BY DEF IInv, RangesWellFormed
<1>2. TicketsAccounted'
  BY DEF IInv, TicketsAccounted
<1>3. QED
  BY <1>1, <1>2

\* Drawing a ticket adds one unserved ticket, owned by the thread that drew it.
LEMMA EnterKeeps ==
  ASSUME IInv, NEW t \in Threads, NEW c \in Classes, NEW polling \in BOOLEAN,
         Enter(t, c, polling)
  PROVE  IInv'
<1> USE ThreadsAssumption
<1>1. TypeOK'
  BY TicketAssumption DEF IInv, TypeOK, Enter, NotifyAll, ThreadStates
<1>2. /\ Waiting(t)' /\ ~Waiting(t) /\ ~Admitted(t)' /\ ~Admitted(t)
      /\ \A u \in Threads \ {t} : /\ Waiting(u)' <=> Waiting(u)
                                  /\ Admitted(u)' <=> Admitted(u)
  BY DEF IInv, TypeOK, Enter, NotifyAll, Waiting, Admitted
<1>3. SingleWriter'
  BY <1>2 DEF IInv, TypeOK, Enter, NotifyAll, SingleWriter
<1>4. RangesWellFormed'
  BY DEF IInv, TypeOK, Enter, RangesWellFormed, WellFormed, TicketRange
<1>5. /\ next' = [next EXCEPT ![c] = next[c] + 1] /\ serving' = serving
      /\ retired' = retired
      /\ ticket' = [ticket EXCEPT ![t] = next[c]]
      /\ class' = [class EXCEPT ![t] = c]
  BY DEF Enter
<1>6. ASSUME NEW d \in Classes
      PROVE  /\ serving'[d] <= next'[d]
             /\ \A k \in serving'[d] .. (next'[d] - 1) :
                  \/ k \in Covered(retired'[d])
                  \/ \E u \in Threads : Waiting(u)' /\ class'[u] = d /\ ticket'[u] = k
             /\ \A u \in Threads :
                  Waiting(u)' /\ class'[u] = d =>
                    /\ ticket'[u] \in serving'[d] .. (next'[d] - 1)
                    /\ ticket'[u] \notin Covered(retired'[d])
                    /\ \A v \in Threads :
                         Waiting(v)' /\ class'[v] = d /\ ticket'[v] = ticket'[u] => v = u
  <2>1. /\ serving[d] \in Nat /\ next[d] \in Nat /\ serving[d] <= next[d]
        /\ next'[d] = IF d = c THEN next[d] + 1 ELSE next[d]
    BY <1>5 DEF IInv, TypeOK, TicketsAccounted
  <2>2. next[d] \notin Covered(retired[d])
    BY DEF IInv, TypeOK, RangesWellFormed, WellFormed, Covered, TicketRange
  <2>3. ASSUME NEW k \in serving[d] .. (next'[d] - 1), k \notin Covered(retired[d])
        PROVE  \E u \in Threads : Waiting(u)' /\ class'[u] = d /\ ticket'[u] = k
    <3>1. CASE k = next[d]
      BY <1>2, <1>5, <2>1, <3>1 DEF IInv, TypeOK
    <3>2. CASE k # next[d]
      <4>1. PICK u \in Threads : Waiting(u) /\ class[u] = d /\ ticket[u] = k
        BY <2>1, <2>3, <3>2 DEF IInv, TicketsAccounted
      <4>2. QED
        BY <1>2, <1>5, <4>1 DEF IInv, TypeOK
    <3>3. QED
      BY <3>1, <3>2
  <2>4. ASSUME NEW u \in Threads, Waiting(u)', class'[u] = d
        PROVE  /\ ticket'[u] \in serving[d] .. (next'[d] - 1)
               /\ ticket'[u] \notin Covered(retired[d])
               /\ u = t => d = c /\ ticket'[u] = next[d]
               /\ u # t => Waiting(u) /\ class[u] = d /\ ticket'[u] = ticket[u]
                           /\ ticket[u] < next[d]
    <3>1. CASE u = t
      BY <1>5, <2>1, <2>2, <2>4, <3>1 DEF IInv, TypeOK
    <3>2. CASE u # t
      <4>1. Waiting(u) /\ class[u] = d /\ ticket'[u] = ticket[u]
        BY <1>2, <1>5, <2>4, <3>2 DEF IInv, TypeOK
      <4>2. ticket[u] \in serving[d] .. (next[d] - 1) /\ ticket[u] \notin Covered(retired[d])
        BY <4>1 DEF IInv, TicketsAccounted
      <4>3. QED
        BY <2>1, <3>2, <4>1, <4>2
    <3>3. QED
      BY <3>1, <3>2
  <2>5. ASSUME NEW u \in Threads, Waiting(u)', class'[u] = d,
               NEW v \in Threads, Waiting(v)', class'[v] = d, ticket'[v] = ticket'[u]
        PROVE  v = u
    <3>1. CASE u # t /\ v # t
      <4>1. /\ Waiting(u) /\ class[u] = d /\ Waiting(v) /\ class[v] = d
            /\ ticket[v] = ticket[u]
        BY <2>4, <2>5, <3>1
      <4>2. QED
        BY <4>1 DEF IInv, TicketsAccounted
    <3>2. CASE u = t \/ v = t
      BY <2>1, <2>4, <2>5, <3>2 DEF IInv, TypeOK
    <3>3. QED
      BY <3>1, <3>2
  <2>6. QED
    BY <1>5, <2>1, <2>3, <2>4, <2>5
<1>7. TicketsAccounted'
  BY <1>6 DEF TicketsAccounted
<1>8. QED
  BY <1>1, <1>3, <1>4, <1>7 DEF IInv

\* A pass that ends in sleep has only advanced over retired tickets.
LEMMA SleepKeeps ==
  ASSUME IInv, NEW t \in Threads, Sleep(t)
  PROVE  IInv'
<1> USE ThreadsAssumption
<1>1. \A c \in Classes : serving'[c] = Serving[c] /\ retired'[c] = Ranges[c]
  BY DEF Sleep
<1>2. TypeOK'
  <2>1. serving' \in [Classes -> Nat]
    BY PassKeeps DEF Sleep, Serving
  <2>2. retired' \in [Classes -> SUBSET TicketRange]
    BY PassKeeps DEF Sleep, Ranges
  <2>3. QED
    BY <2>1, <2>2 DEF IInv, TypeOK, Sleep, ThreadStates
<1>3. \A u \in Threads : (Waiting(u)' <=> Waiting(u)) /\ (Admitted(u)' <=> Admitted(u))
  BY DEF IInv, TypeOK, Sleep, InLoop, Waiting, Admitted
<1>4. SingleWriter'
  BY <1>3 DEF IInv, TypeOK, SingleWriter, Sleep, InLoop
<1>5. RangesWellFormed'
  BY <1>1, PassKeeps DEF RangesWellFormed, Sleep
<1>6. TicketsAccounted'
  <2>1. ASSUME NEW c \in Classes
        PROVE  /\ Serving[c] <= next[c]
               /\ \A k \in Serving[c] .. (next[c] - 1) :
                    \/ k \in Covered(Ranges[c])
                    \/ \E u \in Threads : Waiting(u) /\ class[u] = c /\ ticket[u] = k
               /\ \A u \in Threads :
                    Waiting(u) /\ class[u] = c =>
                      /\ ticket[u] \in Serving[c] .. (next[c] - 1)
                      /\ ticket[u] \notin Covered(Ranges[c])
                      /\ \A v \in Threads :
                           Waiting(v) /\ class[v] = c /\ ticket[v] = ticket[u] => v = u
    <3>1. serving[c] \in Nat /\ next[c] \in Nat
      BY DEF IInv, TypeOK
    <3>2. QED
      BY <3>1, PassKeeps DEF IInv, TicketsAccounted
  <2>2. QED
    BY <1>1, <1>3, <2>1 DEF TicketsAccounted, Sleep
<1>7. QED
  BY <1>2, <1>4, <1>5, <1>6 DEF IInv

\* Admission serves exactly the ticket at the head of the thread's class.
LEMMA AdmitKeeps ==
  ASSUME IInv, NEW t \in Threads, Admit(t)
  PROVE  IInv'
<1> USE ThreadsAssumption
<1> DEFINE c == class[t]
<1>1. /\ c \in Classes /\ Waiting(t) /\ Serving[c] = ticket[t]
      /\ serving' = [Serving EXCEPT ![c] = Serving[c] + 1] /\ retired' = Ranges
      /\ owner = NoThread /\ owner' = t
      /\ UNCHANGED <<next, class, ticket, polls, leases>>
  BY DEF IInv, TypeOK, Admit, InLoop, MayEnter, Waiting
<1>2. /\ Serving \in [Classes -> Nat]
      /\ Ranges \in [Classes -> SUBSET TicketRange]
  BY PassKeeps DEF Serving, Ranges
<1>3. TypeOK'
  BY <1>1, <1>2 DEF IInv, TypeOK, Admit, ThreadStates
<1>4. /\ ~Waiting(t)' /\ Admitted(t)'
      /\ \A u \in Threads \ {t} : (Waiting(u)' <=> Waiting(u)) /\ (Admitted(u)' <=> Admitted(u))
  BY DEF IInv, TypeOK, Admit, Waiting, Admitted
<1>5. SingleWriter'
  BY <1>1, <1>4 DEF IInv, TypeOK, SingleWriter
<1>6. /\ ticket[t] < next[c]
      /\ \A d \in Classes : serving'[d] = IF d = c THEN Serving[d] + 1 ELSE Serving[d]
  BY <1>1, <1>2 DEF IInv, TypeOK, TicketsAccounted
<1>7. ticket[t] \notin Covered(Ranges[c])
  <2>1. ticket[t] \notin Covered(retired[c]) /\ ticket[t] \in Serving[c] .. (next[c] - 1)
    BY <1>1, <1>2, <1>6 DEF IInv, TypeOK, TicketsAccounted
  <2>2. QED
    BY <1>1, <2>1, PassKeeps
<1>8. RangesWellFormed'
  <2>1. ASSUME NEW d \in Classes PROVE WellFormed(Ranges[d], serving'[d], next[d])
    <3>1. WellFormed(Ranges[d], Serving[d], next[d]) /\ Ranges[d] \in SUBSET TicketRange
      BY PassKeeps
    <3>2. CASE d # c
      BY <1>6, <3>1, <3>2
    <3>3. CASE d = c
      <4>1. \A r \in Ranges[d] : r.first # Serving[d]
        BY <1>1, <1>2, <1>7, <3>1, <3>3 DEF Covered, WellFormed, TicketRange
      <4>2. QED
        BY <1>2, <1>6, <3>1, <3>3, <4>1 DEF WellFormed, TicketRange
    <3>4. QED
      BY <3>2, <3>3
  <2>2. QED
    BY <1>1, <2>1 DEF RangesWellFormed
<1>9. TicketsAccounted'
  <2>1. ASSUME NEW d \in Classes
        PROVE  /\ serving'[d] <= next[d]
               /\ \A k \in serving'[d] .. (next[d] - 1) :
                    \/ k \in Covered(Ranges[d])
                    \/ \E u \in Threads : Waiting(u)' /\ class[u] = d /\ ticket[u] = k
               /\ \A u \in Threads :
                    Waiting(u)' /\ class[u] = d =>
                      /\ ticket[u] \in serving'[d] .. (next[d] - 1)
                      /\ ticket[u] \notin Covered(Ranges[d])
                      /\ \A v \in Threads :
                           Waiting(v)' /\ class[v] = d /\ ticket[v] = ticket[u] => v = u
    <3>1. serving[d] \in Nat /\ next[d] \in Nat /\ Serving[d] \in Nat
      BY <1>2 DEF IInv, TypeOK
    <3>2. serving'[d] <= next[d]
      BY <1>1, <1>6, <3>1, PassKeeps
    <3>3. ASSUME NEW k \in serving'[d] .. (next[d] - 1), k \notin Covered(Ranges[d])
          PROVE  \E u \in Threads : Waiting(u)' /\ class[u] = d /\ ticket[u] = k
      <4>1. k \in Serving[d] .. (next[d] - 1) /\ (d = c => k # ticket[t])
        BY <1>1, <1>6, <3>1, <3>3
      <4>2. k \in serving[d] .. (next[d] - 1) /\ k \notin Covered(retired[d])
        BY <3>1, <3>3, <4>1, PassKeeps
      <4>3. PICK u \in Threads : Waiting(u) /\ class[u] = d /\ ticket[u] = k
        BY <4>2 DEF IInv, TicketsAccounted
      <4>4. QED
        BY <1>4, <4>1, <4>3
    <3>4. ASSUME NEW u \in Threads, Waiting(u)', class[u] = d
          PROVE  /\ ticket[u] \in serving'[d] .. (next[d] - 1)
                 /\ ticket[u] \notin Covered(Ranges[d])
      <4>1. u # t /\ Waiting(u)
        BY <1>4, <3>4
      <4>2. /\ ticket[u] \in serving[d] .. (next[d] - 1)
            /\ ticket[u] \notin Covered(retired[d])
            /\ Serving[d] <= ticket[u]
            /\ d = c => ticket[u] # ticket[t]
        BY <1>1, <3>4, <4>1, PassKeeps DEF IInv, TicketsAccounted
      <4>3. ticket[u] \notin Covered(Ranges[d])
        BY <3>1, <4>2, PassKeeps
      <4>4. QED
        BY <1>1, <1>6, <3>1, <4>2, <4>3
    <3>5. ASSUME NEW u \in Threads, Waiting(u)', class[u] = d,
                 NEW v \in Threads, Waiting(v)', class[v] = d, ticket[v] = ticket[u]
          PROVE  v = u
      BY <1>4, <3>5 DEF IInv, TicketsAccounted
    <3>6. QED
      BY <3>2, <3>3, <3>4, <3>5
  <2>2. QED
    BY <1>1, <2>1 DEF TicketsAccounted
<1>10. QED
  BY <1>3, <1>5, <1>8, <1>9 DEF IInv

\* A departing waiter's ticket becomes retired, or is skipped at once when it
\* is at the head; no other ticket is affected.
LEMMA LeaveKeeps ==
  ASSUME IInv, NEW t \in Threads, Leave(t)
  PROVE  IInv'
<1> USE ThreadsAssumption
<1> DEFINE c == class[t]
           R == Joined(retired[c], ticket[t])
           s == AdvancedServing(serving[c], R)
           A == AdvancedRetired(serving[c], R)
<1>1. /\ c \in Classes /\ Waiting(t)
      /\ serving[c] \in Nat /\ next[c] \in Nat /\ serving[c] <= next[c]
      /\ retired[c] \in SUBSET TicketRange
      /\ WellFormed(retired[c], serving[c], next[c])
      /\ ticket[t] \in serving[c] .. (next[c] - 1)
      /\ ticket[t] \notin Covered(retired[c])
  BY DEF IInv, TypeOK, TicketsAccounted, RangesWellFormed, Leave, Waiting
<1>2. /\ R \in SUBSET TicketRange
      /\ WellFormed(R, serving[c], next[c])
      /\ Covered(R) = Covered(retired[c]) \cup {ticket[t]}
  BY <1>1, JoinedKeeps
<1>3. /\ s \in Nat /\ serving[c] <= s /\ s <= next[c]
      /\ A \in SUBSET TicketRange
      /\ WellFormed(A, s, next[c])
      /\ \A k \in serving[c] .. (s - 1) : k \in Covered(R)
      /\ \A k \in Nat : k >= s => (k \in Covered(A) <=> k \in Covered(R))
  BY <1>1, <1>2, AdvanceKeeps
<1>4. /\ serving' = [serving EXCEPT ![c] = s] /\ retired' = [retired EXCEPT ![c] = A]
      /\ UNCHANGED <<lock, owner, next, class, ticket, polls, leases>>
  BY <1>1 DEF Leave, RetiredServing, RetiredRanges
<1> HIDE DEF R, s, A
<1>5. TypeOK'
  BY <1>3, <1>4 DEF IInv, TypeOK, Leave, NotifyAll, ThreadStates
<1>6. /\ ~Waiting(t)' /\ ~Admitted(t)' /\ ~Admitted(t)
      /\ \A u \in Threads \ {t} : (Waiting(u)' <=> Waiting(u)) /\ (Admitted(u)' <=> Admitted(u))
  BY DEF IInv, TypeOK, Leave, NotifyAll, Waiting, Admitted
<1>7. SingleWriter'
  BY <1>4, <1>6 DEF IInv, TypeOK, SingleWriter, Leave, NotifyAll
<1>8. \A d \in Classes : /\ serving'[d] = IF d = c THEN s ELSE serving[d]
                         /\ retired'[d] = IF d = c THEN A ELSE retired[d]
  BY <1>1, <1>4 DEF IInv, TypeOK
<1>9. RangesWellFormed'
  BY <1>3, <1>4, <1>8 DEF IInv, RangesWellFormed
<1>10. TicketsAccounted'
  <2>1. ASSUME NEW d \in Classes
        PROVE  /\ serving'[d] <= next[d]
               /\ \A k \in serving'[d] .. (next[d] - 1) :
                    \/ k \in Covered(retired'[d])
                    \/ \E u \in Threads : Waiting(u)' /\ class[u] = d /\ ticket[u] = k
               /\ \A u \in Threads :
                    Waiting(u)' /\ class[u] = d =>
                      /\ ticket[u] \in serving'[d] .. (next[d] - 1)
                      /\ ticket[u] \notin Covered(retired'[d])
                      /\ \A v \in Threads :
                           Waiting(v)' /\ class[v] = d /\ ticket[v] = ticket[u] => v = u
    <3>1. serving[d] \in Nat /\ next[d] \in Nat /\ serving[d] <= next[d]
      BY DEF IInv, TypeOK, TicketsAccounted
    <3>2. serving'[d] <= next[d]
      BY <1>3, <1>8, <3>1
    <3>3. ASSUME NEW k \in serving'[d] .. (next[d] - 1), k \notin Covered(retired'[d])
          PROVE  \E u \in Threads : Waiting(u)' /\ class[u] = d /\ ticket[u] = k
      <4>1. /\ k \in serving[d] .. (next[d] - 1) /\ k \notin Covered(retired[d])
            /\ d = c => k # ticket[t]
        BY <1>1, <1>2, <1>3, <1>8, <3>1, <3>3
      <4>2. PICK u \in Threads : Waiting(u) /\ class[u] = d /\ ticket[u] = k
        BY <4>1 DEF IInv, TicketsAccounted
      <4>3. QED
        BY <1>6, <4>1, <4>2
    <3>4. ASSUME NEW u \in Threads, Waiting(u)', class[u] = d
          PROVE  /\ ticket[u] \in serving'[d] .. (next[d] - 1)
                 /\ ticket[u] \notin Covered(retired'[d])
      <4>1. u # t /\ Waiting(u)
        BY <1>6, <3>4
      <4>2. /\ ticket[u] \in serving[d] .. (next[d] - 1)
            /\ ticket[u] \notin Covered(retired[d])
            /\ d = c => ticket[u] # ticket[t]
        BY <1>1, <3>4, <4>1 DEF IInv, TicketsAccounted
      <4>3. CASE d # c
        BY <1>8, <4>2, <4>3
      <4>4. CASE d = c
        <5>1. ticket[u] \notin Covered(R)
          BY <1>2, <4>2, <4>4
        <5>2. ticket[u] \in Nat /\ ticket[u] >= s
          BY <1>3, <3>1, <4>2, <4>4, <5>1
        <5>3. QED
          BY <1>3, <1>8, <3>1, <4>2, <4>4, <5>1, <5>2
      <4>5. QED
        BY <4>3, <4>4
    <3>5. ASSUME NEW u \in Threads, Waiting(u)', class[u] = d,
                 NEW v \in Threads, Waiting(v)', class[v] = d, ticket[v] = ticket[u]
          PROVE  v = u
      BY <1>6, <3>5 DEF IInv, TicketsAccounted
    <3>6. QED
      BY <3>2, <3>3, <3>4, <3>5
  <2>2. QED
    BY <1>4, <2>1 DEF TicketsAccounted
<1>11. QED
  BY <1>5, <1>7, <1>9, <1>10 DEF IInv

\* IInv is inductive.
LEMMA Inductive == IInv /\ [Next]_vars => IInv'
<1> SUFFICES ASSUME IInv, [Next]_vars PROVE IInv'
  OBVIOUS
<1> USE ThreadsAssumption
<1>1. ASSUME NEW t \in Threads, NEW c \in Classes, NEW polling \in BOOLEAN,
             Enter(t, c, polling)
      PROVE  IInv'
  BY <1>1, EnterKeeps
<1>2. ASSUME NEW t \in Threads, Admit(t) PROVE IInv'
  BY <1>2, AdmitKeeps
<1>3. ASSUME NEW t \in Threads, Sleep(t) PROVE IInv'
  BY <1>3, SleepKeeps
<1>4. ASSUME NEW t \in Threads, Leave(t) PROVE IInv'
  BY <1>4, LeaveKeeps
<1>5. ASSUME NEW t \in Threads, GiveUp(t) PROVE IInv'
  <2>1. \A u \in Threads : (Waiting(u)' <=> Waiting(u)) /\ (Admitted(u)' <=> Admitted(u))
    BY <1>5 DEF IInv, TypeOK, GiveUp, InLoop, Waiting, Admitted
  <2>2. TypeOK' /\ SingleWriter'
    BY <1>5, <2>1 DEF IInv, TypeOK, SingleWriter, GiveUp, InLoop, ThreadStates
  <2>3. TicketsAccounted' /\ RangesWellFormed'
    BY <1>5, <2>1, QuietStep DEF GiveUp
  <2>4. QED
    BY <2>2, <2>3 DEF IInv
<1>6. ASSUME NEW t \in Threads, Timeout(t) PROVE IInv'
  <2>1. \A u \in Threads : (Waiting(u)' <=> Waiting(u)) /\ (Admitted(u)' <=> Admitted(u))
    BY <1>6 DEF IInv, TypeOK, Timeout, Waiting, Admitted
  <2>2. TypeOK' /\ SingleWriter'
    BY <1>6, <2>1 DEF IInv, TypeOK, SingleWriter, Timeout, ThreadStates
  <2>3. TicketsAccounted' /\ RangesWellFormed'
    BY <1>6, <2>1, QuietStep DEF Timeout
  <2>4. QED
    BY <2>2, <2>3 DEF IInv
<1>7. ASSUME NEW t \in Threads, Grant(t) PROVE IInv'
  <2>1. \A u \in Threads : (Waiting(u)' <=> Waiting(u)) /\ (Admitted(u)' <=> Admitted(u))
    BY <1>7 DEF IInv, TypeOK, Grant, Waiting, Admitted
  <2>2. owner = t
    BY <1>7 DEF IInv, SingleWriter, Grant, Admitted
  <2>3. TypeOK' /\ SingleWriter'
    BY <1>7, <2>1, <2>2 DEF IInv, TypeOK, SingleWriter, Grant, ThreadStates
  <2>4. TicketsAccounted' /\ RangesWellFormed'
    BY <1>7, <2>1, QuietStep DEF Grant
  <2>5. QED
    BY <2>3, <2>4 DEF IInv
<1>8. ASSUME NEW t \in Threads, Close(t) PROVE IInv'
  <2>1. \A u \in Threads : (Waiting(u)' <=> Waiting(u)) /\ (Admitted(u)' <=> Admitted(u))
    BY <1>8 DEF IInv, TypeOK, Close, Waiting, Admitted
  <2>2. TypeOK' /\ SingleWriter'
    BY <1>8, <2>1 DEF IInv, TypeOK, SingleWriter, Close, ThreadStates
  <2>3. TicketsAccounted' /\ RangesWellFormed'
    BY <1>8, <2>1, QuietStep DEF Close
  <2>4. QED
    BY <2>2, <2>3 DEF IInv
<1>9. ASSUME NEW t \in Threads, Refuse(t) \/ Release(t) PROVE IInv'
  <2>1. /\ \A u \in Threads : Waiting(u)' <=> Waiting(u)
        /\ \A u \in Threads \ {t} : Admitted(u)' <=> Admitted(u)
        /\ Admitted(t) /\ ~Admitted(t)'
    BY <1>9 DEF IInv, TypeOK, Refuse, Release, NotifyAll, Waiting, Admitted
  <2>2. owner = t /\ owner' = NoThread /\ leases' = leases
    BY <1>9, <2>1 DEF IInv, SingleWriter, Refuse, Release
  <2>3. leases = {}
    BY <1>9, <2>2 DEF IInv, TypeOK, SingleWriter, Refuse, Release
  <2>4. TypeOK'
    BY <1>9 DEF IInv, TypeOK, Refuse, Release, NotifyAll, ThreadStates
  <2>5. SingleWriter'
    BY <2>1, <2>2, <2>3 DEF IInv, TypeOK, SingleWriter
  <2>6. TicketsAccounted' /\ RangesWellFormed'
    BY <1>9, <2>1, QuietStep DEF Refuse, Release
  <2>7. QED
    BY <2>4, <2>5, <2>6 DEF IInv
<1>10. CASE WakeWaiters
  <2>1. \A u \in Threads : (Waiting(u)' <=> Waiting(u)) /\ (Admitted(u)' <=> Admitted(u))
    BY <1>10 DEF IInv, TypeOK, WakeWaiters, Waiting, Admitted
  <2>2. TypeOK' /\ SingleWriter'
    BY <1>10, <2>1 DEF IInv, TypeOK, SingleWriter, WakeWaiters, ThreadStates
  <2>3. TicketsAccounted' /\ RangesWellFormed'
    BY <1>10, <2>1, QuietStep DEF WakeWaiters
  <2>4. QED
    BY <2>2, <2>3 DEF IInv
<1>11. CASE UNCHANGED vars
  <2>1. \A u \in Threads : (Waiting(u)' <=> Waiting(u)) /\ (Admitted(u)' <=> Admitted(u))
    BY <1>11 DEF vars, Waiting, Admitted
  <2>2. TypeOK' /\ SingleWriter'
    BY <1>11, <2>1 DEF IInv, TypeOK, SingleWriter, vars
  <2>3. TicketsAccounted' /\ RangesWellFormed'
    BY <1>11, <2>1, QuietStep DEF vars
  <2>4. QED
    BY <2>2, <2>3 DEF IInv
<1>12. QED
  BY <1>1, <1>2, <1>3, <1>4, <1>5, <1>6, <1>7, <1>8, <1>9, <1>10, <1>11 DEF Next

\* IInv holds initially.
LEMMA Initially == Init => IInv
<1> USE ThreadsAssumption
<1> SUFFICES ASSUME Init PROVE IInv
  OBVIOUS
<1>1. TypeOK
  BY TicketAssumption DEF Init, TypeOK, ThreadStates, Classes
<1>2. SingleWriter
  BY DEF Init, SingleWriter, Admitted
<1>3. TicketsAccounted
  BY DEF Init, TicketsAccounted, Waiting
<1>4. RangesWellFormed
  BY DEF Init, RangesWellFormed, WellFormed
<1>5. QED
  BY <1>1, <1>2, <1>3, <1>4 DEF IInv

\* The inductive invariant holds in every reachable state.
LEMMA Invariant == Spec => []IInv
  BY Initially, Inductive, PTL DEF Spec

\* The admission state keeps its shape for any threads and any ticket bound.
THEOREM TypeCorrect == Spec => []TypeOK
<1>1. IInv => TypeOK
  BY DEF IInv
<1>2. QED
  BY <1>1, Invariant, PTL

\* Whatever the threads, cancellations, deadlines and external refusals, at
\* most one thread is between admission and release, and external leases are
\* held only by it (Writers::enter_checked, Permit::drop).
THEOREM SingleWriterHolds == Spec => []SingleWriter
<1>1. IInv => SingleWriter
  BY DEF IInv
<1>2. QED
  BY <1>1, Invariant, PTL

\* No ticket is lost or duplicated, so a class can never be blocked by a
\* ticket nobody holds (WaitingTicket::drop, State::retire).
THEOREM NoTicketLost == Spec => []TicketsAccounted
<1>1. IInv => TicketsAccounted
  BY DEF IInv
<1>2. QED
  BY <1>1, Invariant, PTL

\* Below every range but the one at the head of the class waits a thread, and
\* below different ranges wait different threads.
LEMMA RangesAndWaiters ==
  ASSUME IInv, NEW c \in Classes
  PROVE  Cardinality(retired[c])
           <= 1 + Cardinality({t \in Threads : Waiting(t) /\ class[t] = c})
<1> DEFINE W == {t \in Threads : Waiting(t) /\ class[t] = c}
           R == retired[c]
           H == {r \in R : r.first = serving[c]}
           below == [r \in R \ H |-> CHOOSE t \in W : ticket[t] + 1 = r.first]
<1>1. /\ serving[c] \in Nat /\ next[c] \in Nat
      /\ R \in SUBSET TicketRange /\ WellFormed(R, serving[c], next[c])
  BY DEF IInv, TypeOK, RangesWellFormed
<1>2. \A r \in R : r.first \in Nat /\ r.last \in Nat
  BY <1>1 DEF TicketRange
<1>3. ASSUME NEW r \in R \ H
      PROVE  \E t \in W : ticket[t] + 1 = r.first
  <2>1. /\ r.first - 1 \in serving[c] .. (next[c] - 1)
        /\ r.first \in Nat
    BY <1>1, <1>2, <1>3 DEF WellFormed
  <2>2. r.first - 1 \notin Covered(R)
    <3> SUFFICES ASSUME NEW q \in R, r.first - 1 \in q.first .. q.last
                 PROVE  FALSE
      BY DEF Covered
    <3>1. q # r /\ q.last + 1 >= r.first /\ q.first < r.first
      BY <1>2, <2>1
    <3>2. QED
      BY <1>1, <1>2, <1>3, <3>1 DEF WellFormed
  <2>3. PICK t \in Threads : Waiting(t) /\ class[t] = c /\ ticket[t] = r.first - 1
    BY <2>1, <2>2 DEF IInv, TicketsAccounted
  <2>4. QED
    BY <2>1, <2>3
<1>4. \A r \in R \ H : below[r] \in W /\ ticket[below[r]] + 1 = r.first
  BY <1>3
<1>5. \A r, q \in R : r.first = q.first => r = q
  BY <1>1, <1>2 DEF WellFormed
<1>6. below \in Injection(R \ H, W)
  <2>1. below \in [R \ H -> W]
    BY <1>4
  <2>2. ASSUME NEW r \in R \ H, NEW q \in R \ H, below[r] = below[q]
        PROVE  r = q
    BY <1>4, <1>5, <2>2
  <2>3. QED
    BY <2>1, <2>2 DEF Injection, IsInjective
<1>7. IsFiniteSet(W) /\ Cardinality(W) \in Nat
  BY ThreadsAssumption, FS_Subset, FS_CardinalityType
<1>8. IsFiniteSet(R \ H) /\ Cardinality(R \ H) \in Nat /\ Cardinality(R \ H) <= Cardinality(W)
  <2> HIDE DEF below, W, R, H
  <2>1. QED
    BY <1>6, <1>7, FS_Injection, FS_CardinalityType
<1>9. CASE H = {}
  <2>1. R \ H = R
    BY <1>9
  <2>2. Cardinality(R) = Cardinality(R \ H)
    <3> HIDE DEF R, H
    <3>1. QED
      BY <2>1
  <2>3. QED
    BY <1>7, <1>8, <2>2
<1>10. CASE H # {}
  <2>1. PICK h \in H : TRUE
    BY <1>10
  <2>2. R = (R \ H) \cup {h} /\ h \notin R \ H
    BY <1>5, <2>1
  <2>3. Cardinality(R) = Cardinality(R \ H) + 1
    <3> HIDE DEF R, H
    <3>1. QED
      BY <1>8, <2>2, FS_AddElement
  <2>4. QED
    BY <1>7, <1>8, <2>3
<1>11. QED
  BY <1>9, <1>10

\* However many requests are canceled, the range map of a class is never
\* larger than its live waiters and one (State::retire joins neighbours).
THEOREM RangesStaySmall == Spec => []RangesBounded
<1>1. IInv => RangesBounded
  BY RangesAndWaiters DEF RangesBounded
<1>2. QED
  BY <1>1, Invariant, PTL

\* Every admission is FIFO within its class and foreground first.
THEOREM AdmissionIsOrdered == Spec => OrderedAdmission
<1> USE ThreadsAssumption
<1> DEFINE Ordered ==
      \A t \in Threads :
        owner' = t /\ owner # t =>
          \A u \in Threads \ {t} :
            Waiting(u) =>
              \/ class[u] = class[t] /\ ticket[t] < ticket[u]
              \/ class[u] # class[t] /\ class[t] = Foreground
<1>1. IInv /\ [Next]_vars => [Ordered]_vars
  <2> SUFFICES ASSUME IInv, Next,
                      NEW t \in Threads, owner' = t, owner # t,
                      NEW u \in Threads \ {t}, Waiting(u)
               PROVE  \/ class[u] = class[t] /\ ticket[t] < ticket[u]
                      \/ class[u] # class[t] /\ class[t] = Foreground
    OBVIOUS
  <2>1. Admit(t)
    BY DEF Next, WakeWaiters, Enter, Admit, Sleep, GiveUp, Leave, Timeout, Grant,
           Refuse, Close, Release
  <2>2. /\ class[t] \in Classes /\ class[u] \in Classes /\ Waiting(t)
        /\ Serving[class[t]] = ticket[t]
        /\ class[t] = Foreground \/ next[Foreground] = Serving[Foreground]
    BY <2>1 DEF IInv, TypeOK, Admit, InLoop, MayEnter, Waiting
  <2>3. /\ Serving[class[u]] <= ticket[u]
        /\ ticket[u] \in serving[class[u]] .. (next[class[u]] - 1)
        /\ class[u] = class[t] => ticket[u] # ticket[t]
    BY <2>2, PassKeeps DEF IInv, TicketsAccounted
  <2>4. ticket[u] \in Nat /\ ticket[t] \in Nat /\ next[class[u]] \in Nat
    BY <2>2 DEF IInv, TypeOK
  <2>5. CASE class[u] = class[t]
    BY <2>2, <2>3, <2>4, <2>5
  <2>6. CASE class[u] # class[t]
    BY <2>2, <2>3, <2>4, <2>6 DEF IInv, TypeOK, Classes, Foreground, Background
  <2>7. QED
    BY <2>5, <2>6
<1>2. QED
  BY <1>1, Invariant, PTL DEF Spec, OrderedAdmission

=============================================================================
