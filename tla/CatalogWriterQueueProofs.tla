---------------------- MODULE CatalogWriterQueueProofs ----------------------
(***************************************************************************)
(* CatalogWriter implements WriterQueue, for any number of threads and     *)
(* tickets.                                                                *)
(***************************************************************************)
EXTENDS CatalogWriterQueue, CatalogWriterProofs, SequenceTheorems

(* q lists the threads of W, each once, by their tickets in T.             *)
Lists(q, W, T) ==
  /\ \E n \in Nat : q \in [1 .. n -> W]
  /\ \A t \in W : \E i \in DOMAIN q : q[i] = t
  /\ \A i, j \in DOMAIN q : i < j => T[q[i]] < T[q[j]]

-----------------------------------------------------------------------------
(* There is one such list, and it is what InOrder chooses.                 *)

LEMMA LeastNat ==
  ASSUME NEW S \in SUBSET Nat, S # {}
  PROVE  \E m \in S : \A k \in S : m <= k
<1>1. PICK m \in S : \A k \in S : ~(<<k, m>> \in OpToRel(<, Nat))
  BY NatLessThanWellFounded, WFMin
<1>2. \A k \in S : ~(k < m)
  BY <1>1 DEF OpToRel
<1>3. QED
  BY <1>2

LEMMA ListHead ==
  ASSUME NEW W, NEW T, \A t \in W : T[t] \in Nat, NEW q, NEW p, Lists(q, W, T), Lists(p, W, T),
         NEW i \in DOMAIN q, \A j \in 1 .. i - 1 : q[j] = p[j]
  PROVE  \E k \in DOMAIN p : i <= k /\ p[k] = q[i]
<1>1. PICK n \in Nat : q \in [1 .. n -> W]
  BY DEF Lists
<1>2. PICK m \in Nat : p \in [1 .. m -> W]
  BY DEF Lists
<1>3. PICK k \in 1 .. m : p[k] = q[i]
  BY <1>1, <1>2 DEF Lists
<1>4. ~(k < i)
  <2> SUFFICES ASSUME k < i PROVE FALSE
    OBVIOUS
  <2>1. k \in 1 .. i - 1 /\ k \in 1 .. n /\ i \in 1 .. n
    BY <1>1, <1>2, <1>3
  <2>2. q[k] = q[i]
    BY <1>3, <2>1
  <2>3. T[q[k]] < T[q[i]]
    BY <1>1, <2>1 DEF Lists
  <2>4. T[q[i]] \in Nat
    BY <1>1, <2>1
  <2>5. QED
    BY <2>2, <2>3, <2>4
<1>5. QED
  BY <1>1, <1>2, <1>3, <1>4

LEMMA ListUnique ==
  ASSUME NEW W, NEW T, \A t \in W : T[t] \in Nat, NEW q, NEW p, Lists(q, W, T), Lists(p, W, T)
  PROVE  q = p
<1>1. PICK n \in Nat : q \in [1 .. n -> W]
  BY DEF Lists
<1>2. PICK m \in Nat : p \in [1 .. m -> W]
  BY DEF Lists
<1> DEFINE Agree(i) == i <= n /\ i <= m /\ q[i] = p[i]
           Bad == {i \in Nat : 1 <= i /\ (i <= n \/ i <= m) /\ ~Agree(i)}
<1>3. CASE Bad = {}
  <2>1. n = m
    <3>1. ~(n < m)
      <4> SUFFICES ASSUME n < m PROVE FALSE
        OBVIOUS
      <4>1. n + 1 \in Bad
        BY <1>1, <1>2
      <4>2. QED
        BY <1>3, <4>1
    <3>2. ~(m < n)
      <4> SUFFICES ASSUME m < n PROVE FALSE
        OBVIOUS
      <4>1. m + 1 \in Bad
        BY <1>1, <1>2
      <4>2. QED
        BY <1>3, <4>1
    <3>3. QED
      BY <1>1, <1>2, <3>1, <3>2
  <2>2. ASSUME NEW i \in 1 .. n PROVE q[i] = p[i]
    <3>1. i \notin Bad
      BY <1>3
    <3>2. i \in Nat /\ 1 <= i /\ i <= n
      BY <1>1
    <3>3. Agree(i)
      BY <3>1, <3>2
    <3>4. QED
      BY <3>3
  <2>3. QED
    BY <1>1, <1>2, <2>1, <2>2
<1>4. CASE Bad # {}
  <2>1. PICK i \in Bad : \A k \in Bad : i <= k
    BY <1>4, LeastNat
  <2>2. i \in Nat /\ 1 <= i /\ (i <= n \/ i <= m) /\ ~Agree(i)
    BY <2>1
  <2>3. ASSUME NEW j \in 1 .. i - 1 PROVE Agree(j)
    <3>1. j \notin Bad
      BY <2>1, <2>2, <2>3
    <3>2. j \in Nat /\ 1 <= j /\ (j <= n \/ j <= m)
      BY <1>1, <1>2, <2>2, <2>3
    <3>3. QED
      BY <3>1, <3>2
  <2>4. (\A j \in 1 .. i - 1 : q[j] = p[j]) /\ (\A j \in 1 .. i - 1 : p[j] = q[j])
    BY <2>3
  <2> HIDE DEF Bad, Agree
  <2>5. i \in DOMAIN q => \E k \in DOMAIN p : i <= k /\ p[k] = q[i]
    BY <2>4, ListHead
  <2>6. i \in DOMAIN p => \E k \in DOMAIN q : i <= k /\ q[k] = p[i]
    BY <2>4, ListHead
  <2>7. i \in 1 .. n /\ i \in 1 .. m
    BY <1>1, <1>2, <2>2, <2>5, <2>6
  <2>8. PICK k \in 1 .. m : i <= k /\ p[k] = q[i]
    BY <1>1, <1>2, <2>5, <2>7
  <2>9. PICK l \in 1 .. n : i <= l /\ q[l] = p[i]
    BY <1>1, <1>2, <2>6, <2>7
  <2>10. k \in 1 .. m /\ l \in 1 .. n
    BY <1>1, <1>2, <2>2, <2>8, <2>9
  <2>11. k # i => T[p[i]] < T[p[k]]
    <3>1. i \in DOMAIN p /\ k \in DOMAIN p /\ (k # i => i < k)
      BY <1>2, <2>7, <2>8, <2>10
    <3>2. QED
      BY <3>1 DEF Lists
  <2>12. l # i => T[q[i]] < T[q[l]]
    <3>1. i \in DOMAIN q /\ l \in DOMAIN q /\ (l # i => i < l)
      BY <1>1, <2>7, <2>9, <2>10
    <3>2. QED
      BY <3>1 DEF Lists
  <2>13. T[q[i]] \in Nat /\ T[p[i]] \in Nat
    BY <1>1, <1>2, <2>7
  <2>14. k = i
    BY <2>8, <2>9, <2>11, <2>12, <2>13
  <2>15. QED
    BY <1>1, <1>2, <2>2, <2>7, <2>8, <2>14 DEF Agree
<1>5. QED
  BY <1>3, <1>4

LEMMA InOrderLists ==
  ASSUME NEW W, NEW T, \A t \in W : T[t] \in Nat, NEW q, Lists(q, W, T)
  PROVE  InOrder(W, T) = q
<1>1. PICK n \in Nat : q \in [1 .. n -> W]
  BY DEF Lists
<1>2. q \in Bijection(1 .. n, W)
  <2>1. ASSUME NEW i \in 1 .. n, NEW j \in 1 .. n, q[i] = q[j] PROVE i = j
    <3>1. q[i] \in W /\ T[q[i]] \in Nat
      BY <1>1
    <3>2. ~(i < j) /\ ~(j < i)
      BY <1>1, <2>1, <3>1 DEF Lists
    <3>3. QED
      BY <3>2
  <2>2. QED
    BY <1>1, <2>1 DEF Lists, Bijection, Injection, Surjection, IsInjective
<1>3. IsFiniteSet(1 .. n) /\ Cardinality(1 .. n) = n
  BY FS_Interval
<1>4. IsFiniteSet(W) /\ Cardinality(W) = n
  BY <1>2, <1>3, FS_Bijection DEF ExistsBijection
<1> DEFINE p == InOrder(W, T)
<1>5. /\ p \in [1 .. n -> W]
      /\ \A i, j \in DOMAIN p : i < j => T[p[i]] < T[p[j]]
  <2>1. \E x \in [1 .. n -> W] : \A i, j \in DOMAIN x : i < j => T[x[i]] < T[x[j]]
    BY <1>1 DEF Lists
  <2>2. p = CHOOSE x \in [1 .. n -> W] : \A i, j \in DOMAIN x : i < j => T[x[i]] < T[x[j]]
    BY <1>4 DEF InOrder
  <2>3. QED
    BY <2>1, <2>2
<1> HIDE DEF p
<1>6. p \in Injection(1 .. n, W)
  <2>1. ASSUME NEW i \in 1 .. n, NEW j \in 1 .. n, p[i] = p[j] PROVE i = j
    <3>1. p[i] \in W /\ T[p[i]] \in Nat
      BY <1>5
    <3>2. ~(i < j) /\ ~(j < i)
      BY <1>5, <2>1, <3>1
    <3>3. QED
      BY <3>2
  <2>2. QED
    BY <1>5, <2>1 DEF Injection, IsInjective
<1>7. p \in Surjection(1 .. n, W)
  BY <1>3, <1>4, <1>6, FS_Injection
<1>8. Lists(p, W, T)
  BY <1>5, <1>7 DEF Lists, Surjection
<1>9. p = q
  BY <1>8, ListUnique
<1>10. QED
  BY <1>9 DEF p
-----------------------------------------------------------------------------
(* A list grows at its end, loses an element, or its first.                *)

LEMMA AppendLists ==
  ASSUME NEW W, NEW T, NEW T2, NEW q, Lists(q, W, T), NEW t, t \notin W,
         \A u \in W : T2[u] = T[u] /\ T[u] < T2[t]
  PROVE  Lists(Append(q, t), W \cup {t}, T2)
<1>1. PICK n \in Nat : q \in [1 .. n -> W]
  BY DEF Lists
<1>2. q \in Seq(W \cup {t}) /\ Len(q) = n
  BY <1>1
<1> DEFINE p == Append(q, t)
<1>a. /\ p \in Seq(W \cup {t}) /\ Len(p) = n + 1
      /\ p[n + 1] = t /\ \A i \in 1 .. n : p[i] = q[i]
  BY <1>2, AppendProperties
<1> HIDE DEF p
<1>3. /\ p \in [1 .. n + 1 -> W \cup {t}]
      /\ p[n + 1] = t /\ \A i \in 1 .. n : p[i] = q[i]
  BY <1>a
<1>4. ASSUME NEW u \in W \cup {t} PROVE \E i \in DOMAIN p : p[i] = u
  <2>1. CASE u = t
    BY <1>3, <2>1
  <2>2. CASE u \in W
    <3>1. PICK i \in 1 .. n : q[i] = u
      BY <1>1, <2>2 DEF Lists
    <3>2. i \in 1 .. n + 1 /\ p[i] = u
      BY <1>3, <3>1
    <3>3. QED
      BY <1>3, <3>2
  <2>3. QED
    BY <2>1, <2>2
<1>5. ASSUME NEW i \in DOMAIN p, NEW j \in DOMAIN p, i < j PROVE T2[p[i]] < T2[p[j]]
  <2>1. i \in 1 .. n /\ p[i] = q[i] /\ q[i] \in W /\ T2[q[i]] = T[q[i]]
    BY <1>1, <1>3, <1>5
  <2>2. CASE j = n + 1
    BY <1>3, <2>1, <2>2
  <2>3. CASE j # n + 1
    <3>1. j \in 1 .. n /\ p[j] = q[j] /\ q[j] \in W /\ T2[q[j]] = T[q[j]]
      BY <1>1, <1>3, <2>3
    <3>2. T[q[i]] < T[q[j]]
      BY <1>1, <1>5, <2>1, <3>1 DEF Lists
    <3>3. QED
      BY <2>1, <3>1, <3>2
  <2>4. QED
    BY <2>2, <2>3
<1>6. Lists(p, W \cup {t}, T2)
  BY <1>1, <1>3, <1>4, <1>5 DEF Lists
<1>7. QED
  BY <1>6 DEF p

LEMMA WithoutLists ==
  ASSUME NEW W, NEW T, \A t \in W : T[t] \in Nat, NEW q, Lists(q, W, T), NEW i \in DOMAIN q
  PROVE  Lists(Abstract!Without(q, i), W \ {q[i]}, T)
<1>1. PICK n \in Nat : q \in [1 .. n -> W]
  BY DEF Lists
<1>2. q \in Seq(W) /\ Len(q) = n /\ i \in 1 .. n
  BY <1>1
<1> DEFINE p == Abstract!Without(q, i)
<1>3. p = [j \in 1 .. n - 1 |-> IF j < i THEN q[j] ELSE q[j + 1]]
  BY <1>2 DEF Abstract!Without
<1> HIDE DEF p
<1>4. \A j \in 1 .. n : j # i => q[j] # q[i]
  <2> SUFFICES ASSUME NEW j \in 1 .. n, j # i, q[j] = q[i] PROVE FALSE
    OBVIOUS
  <2>1. T[q[i]] \in Nat /\ (j < i \/ i < j)
    BY <1>1, <1>2
  <2>2. T[q[j]] < T[q[i]] \/ T[q[i]] < T[q[j]]
    BY <1>1, <1>2, <2>1 DEF Lists
  <2>3. QED
    BY <2>1, <2>2
<1>5. n - 1 \in Nat /\ p \in [1 .. n - 1 -> W \ {q[i]}]
  <2>1. n - 1 \in Nat
    BY <1>2
  <2>2. ASSUME NEW j \in 1 .. n - 1
        PROVE  (IF j < i THEN q[j] ELSE q[j + 1]) \in W \ {q[i]}
    <3>1. CASE j < i
      BY <1>1, <1>2, <1>4, <3>1
    <3>2. CASE ~(j < i)
      <4>1. j + 1 \in 1 .. n /\ j + 1 # i
        BY <1>2, <3>2
      <4>2. QED
        BY <1>1, <1>4, <3>2, <4>1
    <3>3. QED
      BY <3>1, <3>2
  <2>3. QED
    BY <1>3, <2>1, <2>2
<1>6. ASSUME NEW t \in W \ {q[i]} PROVE \E j \in DOMAIN p : p[j] = t
  <2>1. PICK j \in 1 .. n : q[j] = t
    BY <1>1 DEF Lists
  <2>2. j # i
    BY <1>6, <2>1
  <2>3. CASE j < i
    <3>1. j \in 1 .. n - 1
      BY <1>2, <2>3
    <3>2. QED
      BY <1>3, <2>1, <2>3, <3>1
  <2>4. CASE ~(j < i)
    <3>1. j - 1 \in 1 .. n - 1 /\ ~(j - 1 < i) /\ (j - 1) + 1 = j
      BY <1>2, <2>2, <2>4
    <3>2. p[j - 1] = q[(j - 1) + 1]
      BY <1>3, <3>1
    <3>3. QED
      BY <1>3, <2>1, <3>1, <3>2
  <2>5. QED
    BY <2>3, <2>4
<1>7. ASSUME NEW j \in DOMAIN p, NEW k \in DOMAIN p, j < k PROVE T[p[j]] < T[p[k]]
  <2> DEFINE a == IF j < i THEN j ELSE j + 1
             b == IF k < i THEN k ELSE k + 1
  <2>1. j \in 1 .. n - 1 /\ k \in 1 .. n - 1
    BY <1>3
  <2>2. a \in 1 .. n /\ b \in 1 .. n /\ a < b
    BY <1>2, <1>7, <2>1
  <2>3. p[j] = q[a] /\ p[k] = q[b]
    BY <1>3, <2>1
  <2> HIDE DEF a, b
  <2>4. QED
    BY <1>1, <2>2, <2>3 DEF Lists
<1>8. Lists(p, W \ {q[i]}, T)
  BY <1>5, <1>6, <1>7 DEF Lists
<1>9. QED
  BY <1>8 DEF p

LEMMA TailLists ==
  ASSUME NEW W, NEW T, \A t \in W : T[t] \in Nat, NEW q, Lists(q, W, T), q # << >>
  PROVE  1 \in DOMAIN q /\ Head(q) = q[1] /\ Tail(q) = Abstract!Without(q, 1)
<1>1. PICK n \in Nat : q \in [1 .. n -> W]
  BY DEF Lists
<1>2. q \in Seq(W) /\ Len(q) = n /\ n > 0
  BY <1>1
<1>a. 1 \in DOMAIN q /\ Head(q) = q[1]
  BY <1>1, <1>2
<1> DEFINE p == Tail(q)
<1>b. p \in Seq(W) /\ Len(p) = n - 1 /\ \A j \in 1 .. Len(p) : p[j] = q[j + 1]
  BY <1>2, HeadTailProperties
<1> HIDE DEF p
<1>c. p = [j \in 1 .. n - 1 |-> q[j + 1]]
  BY <1>b
<1>3. 1 \in DOMAIN q /\ Head(q) = q[1] /\ Tail(q) = [j \in 1 .. n - 1 |-> q[j + 1]]
  BY <1>a, <1>c DEF p
<1>4. Abstract!Without(q, 1) = [j \in 1 .. n - 1 |-> q[j + 1]]
  BY <1>2 DEF Abstract!Without
<1>5. QED
  BY <1>3, <1>4

-----------------------------------------------------------------------------
(* Steps of the threads are steps of the queues.                           *)

Queues == [c \in Classes |-> QueueOf(c)]
QInv == \A c \in Classes : Lists(QueueOf(c), WaitingIn(c), ticket)

LEMMA ListNow ==
  ASSUME IInv, NEW c \in Classes, NEW q, Lists(q, WaitingIn(c), ticket)
  PROVE  QueueOf(c) = q /\ Lists(QueueOf(c), WaitingIn(c), ticket)
<1>1. \A t \in WaitingIn(c) : ticket[t] \in Nat
  BY DEF IInv, TypeOK, WaitingIn
<1>2. QED
  BY <1>1, InOrderLists DEF QueueOf

LEMMA ListNext ==
  ASSUME IInv', NEW c \in Classes, NEW q, Lists(q, WaitingIn(c)', ticket')
  PROVE  QueueOf(c)' = q /\ Lists(QueueOf(c)', WaitingIn(c)', ticket')
<1>1. \A t \in WaitingIn(c)' : ticket'[t] \in Nat
  BY DEF IInv, TypeOK, WaitingIn
<1>2. InOrder(WaitingIn(c)', ticket') = q
  BY <1>1, InOrderLists
<1>3. QueueOf(c)' = q
  BY <1>2 DEF QueueOf
<1>4. QED
  BY <1>3

(* One class changes, the other stays as it is.                            *)
LEMMA QueueChanges ==
  ASSUME IInv', QInv, NEW c \in Classes, NEW q, Lists(q, WaitingIn(c)', ticket'),
         \A d \in Classes \ {c} :
           WaitingIn(d)' = WaitingIn(d) /\ \A t \in WaitingIn(d) : ticket'[t] = ticket[t]
  PROVE  QInv' /\ Queues' = [Queues EXCEPT ![c] = q]
<1>1. QueueOf(c)' = q /\ Lists(QueueOf(c)', WaitingIn(c)', ticket')
  BY ListNext
<1>2. ASSUME NEW d \in Classes, d # c
      PROVE  QueueOf(d)' = QueueOf(d) /\ Lists(QueueOf(d)', WaitingIn(d)', ticket')
  <2>1. Lists(QueueOf(d), WaitingIn(d), ticket)
    BY DEF QInv
  <2>2. WaitingIn(d)' = WaitingIn(d) /\ \A t \in WaitingIn(d) : ticket'[t] = ticket[t]
    BY <1>2
  <2>3. Lists(QueueOf(d), WaitingIn(d)', ticket')
    BY <2>1, <2>2 DEF Lists
  <2>4. QED
    BY <2>3, ListNext
<1>3. \A d \in Classes : QueueOf(d)' = IF d = c THEN q ELSE QueueOf(d)
  BY <1>1, <1>2
<1>4. Queues' = [Queues EXCEPT ![c] = q]
  BY <1>3 DEF Queues
<1>5. \A d \in Classes : Lists(QueueOf(d)', WaitingIn(d)', ticket')
  BY <1>1, <1>2
<1>6. QInv'
  BY <1>5 DEF QInv
<1>7. QED
  BY <1>4, <1>6

LEMMA QueuesStay ==
  ASSUME IInv', QInv, UNCHANGED ticket, \A c \in Classes : WaitingIn(c)' = WaitingIn(c)
  PROVE  QInv' /\ Queues' = Queues
<1>1. ASSUME NEW c \in Classes
      PROVE  QueueOf(c)' = QueueOf(c) /\ Lists(QueueOf(c)', WaitingIn(c)', ticket')
  BY ListNext DEF QInv
<1>2. QED
  BY <1>1 DEF QInv, Queues

(* Where a thread of a class stands in its queue.                          *)
LEMMA QueuePlaces ==
  ASSUME IInv, QInv, NEW c \in Classes
  PROVE  /\ QueueOf(c) \in Seq(Threads)
         /\ \A i \in DOMAIN QueueOf(c) : QueueOf(c)[i] \in WaitingIn(c)
         /\ \A t \in WaitingIn(c) : \E i \in DOMAIN QueueOf(c) : QueueOf(c)[i] = t
         /\ QueueOf(c) = << >> <=> WaitingIn(c) = {}
<1> DEFINE q == QueueOf(c)
<1>1. Lists(q, WaitingIn(c), ticket)
  BY DEF QInv
<1> HIDE DEF q
<1>2. PICK n \in Nat : q \in [1 .. n -> WaitingIn(c)]
  BY <1>1 DEF Lists
<1>3. /\ \A i \in DOMAIN q : q[i] \in WaitingIn(c)
      /\ \A t \in WaitingIn(c) : \E i \in DOMAIN q : q[i] = t
  BY <1>1, <1>2 DEF Lists
<1>4. WaitingIn(c) \subseteq Threads
  BY DEF WaitingIn
<1>5. q \in Seq(Threads) /\ Len(q) = n /\ DOMAIN q = 1 .. n
  BY <1>2, <1>4
<1>6. q = << >> => WaitingIn(c) = {}
  BY <1>3
<1>7. WaitingIn(c) = {} => q = << >>
  <2> SUFFICES ASSUME WaitingIn(c) = {} PROVE q = << >>
    OBVIOUS
  <2>1. n = 0
    <3> SUFFICES ASSUME n # 0 PROVE FALSE
      OBVIOUS
    <3>1. 1 \in 1 .. n
      OBVIOUS
    <3>2. QED
      BY <1>3, <1>5, <3>1
  <2>2. QED
    BY <1>5, <2>1, EmptySeq
<1>8. QED
  BY <1>3, <1>5, <1>6, <1>7 DEF q

(* Drawing a ticket is joining the queue: every earlier ticket is smaller. *)
LEMMA EnterJoins ==
  ASSUME IInv, IInv', QInv, NEW t \in Threads, NEW c \in Classes, NEW polling \in BOOLEAN,
         Enter(t, c, polling)
  PROVE  QInv' /\ Abstract!Join(t, c)
<1>1. /\ \A u \in Threads : Waiting(u)' <=> Waiting(u) \/ u = t
      /\ ~Waiting(t)
      /\ class' = [class EXCEPT ![t] = c] /\ ticket' = [ticket EXCEPT ![t] = next[c]]
      /\ t # owner /\ owner' = owner
  BY DEF IInv, TypeOK, Enter, NotifyAll, Waiting
<1>2. WaitingIn(c)' = WaitingIn(c) \cup {t} /\ t \notin WaitingIn(c)
  BY <1>1 DEF IInv, TypeOK, WaitingIn
<1>3. \A d \in Classes \ {c} :
        WaitingIn(d)' = WaitingIn(d) /\ \A u \in WaitingIn(d) : ticket'[u] = ticket[u]
  BY <1>1 DEF IInv, TypeOK, WaitingIn
<1>4. \A u \in WaitingIn(c) : ticket'[u] = ticket[u] /\ ticket[u] < ticket'[t]
  <2> SUFFICES ASSUME NEW u \in WaitingIn(c)
               PROVE  ticket'[u] = ticket[u] /\ ticket[u] < ticket'[t]
    OBVIOUS
  <2>1. u \in Threads /\ u # t /\ ticket[u] \in serving[c] .. (next[c] - 1)
    BY <1>2 DEF WaitingIn, IInv, TicketsAccounted
  <2>2. serving[c] \in Nat /\ next[c] \in Nat
    BY DEF IInv, TypeOK
  <2>3. ticket'[u] = ticket[u] /\ ticket'[t] = next[c]
    BY <1>1, <2>1 DEF IInv, TypeOK
  <2>4. QED
    BY <2>1, <2>2, <2>3
<1>5. Lists(QueueOf(c), WaitingIn(c), ticket)
  BY DEF QInv
<1>6. Lists(Append(QueueOf(c), t), WaitingIn(c)', ticket')
  <2>1. Lists(Append(QueueOf(c), t), WaitingIn(c) \cup {t}, ticket')
    BY <1>2, <1>4, <1>5, AppendLists
  <2>2. QED
    BY <1>2, <2>1
<1>7. QInv' /\ Queues' = [Queues EXCEPT ![c] = Append(QueueOf(c), t)]
  BY <1>3, <1>6, QueueChanges
<1>8. Queues' = [Queues EXCEPT ![c] = Append(Queues[c], t)]
  BY <1>7 DEF Queues
<1>9. ~Abstract!Queued(t)
  <2> SUFFICES ASSUME NEW d \in Classes, NEW i \in DOMAIN QueueOf(d), QueueOf(d)[i] = t
               PROVE  FALSE
    BY DEF Abstract!Queued
  <2>1. t \in WaitingIn(d)
    BY QueuePlaces
  <2>2. QED
    BY <1>1, <2>1 DEF WaitingIn
<1>10. QED
  BY <1>1, <1>7, <1>8, <1>9 DEF Abstract!Join, Queues

(* The admitted thread has the smallest ticket of its class.               *)
LEMMA AdmitGrants ==
  ASSUME IInv, IInv', QInv, NEW t \in Threads, Admit(t)
  PROVE  QInv' /\ Abstract!Grant(t, class[t])
<1>0. PICK c \in Classes : c = class[t]
  BY DEF IInv, TypeOK
<1>1. /\ c \in Classes /\ Waiting(t) /\ owner = NoThread /\ owner' = t
      /\ \A u \in Threads : Waiting(u)' <=> Waiting(u) /\ u # t
      /\ UNCHANGED <<class, ticket>>
      /\ Serving[c] = ticket[t]
      /\ c = Foreground \/ next[Foreground] = Serving[Foreground]
  BY <1>0 DEF IInv, TypeOK, Admit, InLoop, MayEnter, Waiting
<1>2. t \in WaitingIn(c) /\ WaitingIn(c)' = WaitingIn(c) \ {t}
  BY <1>0, <1>1 DEF WaitingIn
<1>3. \A d \in Classes \ {c} :
        WaitingIn(d)' = WaitingIn(d) /\ \A u \in WaitingIn(d) : ticket'[u] = ticket[u]
  BY <1>0, <1>1 DEF WaitingIn
<1>4. Lists(QueueOf(c), WaitingIn(c), ticket)
  BY <1>1 DEF QInv
<1>5. \A u \in WaitingIn(c) : ticket[u] \in Nat /\ ticket[t] <= ticket[u]
  BY <1>1, PassKeeps DEF WaitingIn, IInv, TypeOK
<1>6. QueueOf(c) # << >>
  BY <1>1, <1>2, QueuePlaces
<1>7. /\ 1 \in DOMAIN QueueOf(c) /\ Head(QueueOf(c)) = QueueOf(c)[1]
      /\ Tail(QueueOf(c)) = Abstract!Without(QueueOf(c), 1)
  BY <1>4, <1>5, <1>6, TailLists
<1>8. QueueOf(c)[1] = t
  <2>1. PICK i \in DOMAIN QueueOf(c) : QueueOf(c)[i] = t
    BY <1>1, <1>2, QueuePlaces
  <2>2. i = 1
    <3> SUFFICES ASSUME i # 1 PROVE FALSE
      OBVIOUS
    <3>1. 1 < i
      BY <1>4, <2>1 DEF Lists
    <3>2. ticket[QueueOf(c)[1]] < ticket[t]
      BY <1>4, <1>7, <2>1, <3>1 DEF Lists
    <3>3. QueueOf(c)[1] \in WaitingIn(c)
      BY <1>1, <1>7, QueuePlaces
    <3>4. QED
      BY <1>2, <1>5, <3>2, <3>3
  <2>3. QED
    BY <2>1, <2>2
<1>9. Lists(Tail(QueueOf(c)), WaitingIn(c)', ticket')
  <2>1. Lists(Abstract!Without(QueueOf(c), 1), WaitingIn(c) \ {QueueOf(c)[1]}, ticket)
    BY <1>4, <1>5, <1>7, WithoutLists
  <2>2. QED
    BY <1>1, <1>2, <1>7, <1>8, <2>1
<1>10. QInv' /\ Queues' = [Queues EXCEPT ![c] = Tail(QueueOf(c))]
  BY <1>1, <1>3, <1>9, QueueChanges
<1>11. c = Foreground \/ QueueOf(Foreground) = << >>
  <2> SUFFICES ASSUME next[Foreground] = Serving[Foreground]
               PROVE  WaitingIn(Foreground) = {}
    BY <1>1, QueuePlaces DEF Classes
  <2> SUFFICES ASSUME NEW u \in WaitingIn(Foreground) PROVE FALSE
    OBVIOUS
  <2>1. Foreground \in Classes
    BY DEF Classes
  <2>2. Serving[Foreground] <= ticket[u] /\ ticket[u] \in serving[Foreground] .. (next[Foreground] - 1)
    BY <2>1, PassKeeps DEF WaitingIn, IInv, TicketsAccounted
  <2>3. serving[Foreground] \in Nat /\ next[Foreground] \in Nat
    BY <2>1 DEF IInv, TypeOK
  <2>4. QED
    BY <2>2, <2>3
<1>12. Foreground \in Classes
  BY DEF Classes
<1>13. Queues' = [Queues EXCEPT ![c] = Tail(Queues[c])]
  BY <1>1, <1>10 DEF Queues
<1>14. Abstract!Grant(t, c)
  BY <1>1, <1>6, <1>7, <1>8, <1>11, <1>12, <1>13 DEF Abstract!Grant, Queues
<1>15. QED
  BY <1>0, <1>10, <1>14

(* A thread that gives up leaves from its place, wherever that is.         *)
LEMMA LeaveAbandons ==
  ASSUME IInv, IInv', QInv, NEW t \in Threads, Leave(t)
  PROVE  QInv' /\ Abstract!Abandon(t, class[t])
<1>0. PICK c \in Classes : c = class[t]
  BY DEF IInv, TypeOK
<1>1. /\ c \in Classes /\ Waiting(t) /\ UNCHANGED <<owner, class, ticket>>
      /\ \A u \in Threads : Waiting(u)' <=> Waiting(u) /\ u # t
  BY DEF IInv, TypeOK, Leave, NotifyAll, Waiting
<1>2. t \in WaitingIn(c) /\ WaitingIn(c)' = WaitingIn(c) \ {t}
  BY <1>0, <1>1 DEF WaitingIn
<1>3. \A d \in Classes \ {c} :
        WaitingIn(d)' = WaitingIn(d) /\ \A u \in WaitingIn(d) : ticket'[u] = ticket[u]
  BY <1>0, <1>1 DEF WaitingIn
<1>4. Lists(QueueOf(c), WaitingIn(c), ticket)
  BY <1>1 DEF QInv
<1>5. \A u \in WaitingIn(c) : ticket[u] \in Nat
  BY DEF WaitingIn, IInv, TypeOK
<1>6. PICK i \in DOMAIN QueueOf(c) : QueueOf(c)[i] = t
  BY <1>1, <1>2, QueuePlaces
<1>7. Lists(Abstract!Without(QueueOf(c), i), WaitingIn(c)', ticket')
  <2>1. Lists(Abstract!Without(QueueOf(c), i), WaitingIn(c) \ {t}, ticket)
    BY <1>4, <1>5, <1>6, WithoutLists
  <2>2. QED
    BY <1>1, <1>2, <2>1
<1>8. QInv' /\ Queues' = [Queues EXCEPT ![c] = Abstract!Without(QueueOf(c), i)]
  BY <1>1, <1>3, <1>7, QueueChanges
<1>9. Queues[c] = QueueOf(c)
  BY <1>1 DEF Queues
<1>10. Abstract!Abandon(t, c)
  BY <1>1, <1>6, <1>8, <1>9 DEF Abstract!Abandon, Queues
<1>11. QED
  BY <1>0, <1>8, <1>10

(* Every other step leaves the queues alone.                               *)
LEMMA OthersStay ==
  ASSUME IInv, IInv', QInv,
         \/ WakeWaiters \/ UNCHANGED vars
         \/ \E t \in Threads : \/ Sleep(t) \/ GiveUp(t) \/ Timeout(t) \/ Grant(t) \/ Refuse(t)
                               \/ Close(t) \/ Release(t)
  PROVE  /\ QInv' /\ Queues' = Queues
         /\ owner' = owner \/ \E t \in Threads : owner = t /\ owner' = NoThread
<1>1. UNCHANGED <<class, ticket>> /\ \A u \in Threads : Waiting(u)' <=> Waiting(u)
  <2>1. CASE WakeWaiters \/ UNCHANGED vars
    BY <2>1 DEF IInv, TypeOK, WakeWaiters, vars, Waiting
  <2>2. CASE \E t \in Threads : Sleep(t) \/ GiveUp(t) \/ Timeout(t)
    BY <2>2 DEF IInv, TypeOK, Sleep, GiveUp, Timeout, InLoop, Waiting
  <2>3. CASE \E t \in Threads : Grant(t) \/ Refuse(t) \/ Close(t) \/ Release(t)
    BY <2>3 DEF IInv, TypeOK, Grant, Refuse, Close, Release, NotifyAll, Waiting
  <2>4. QED
    BY <2>1, <2>2, <2>3
<1>2. \A c \in Classes : WaitingIn(c)' = WaitingIn(c)
  BY <1>1 DEF WaitingIn
<1>3. QInv' /\ Queues' = Queues
  BY <1>1, <1>2, QueuesStay
<1>4. owner' = owner \/ \E t \in Threads : owner = t /\ owner' = NoThread
  BY DEF WakeWaiters, vars, Sleep, GiveUp, Timeout, Grant, Refuse, Close, Release, IInv,
         SingleWriter, Admitted
<1>5. QED
  BY <1>3, <1>4

(***************************************************************************)
(* Admission by tickets is two FIFO queues with one holder: every pass of  *)
(* the loop, every departure and every wakeup is a step of WriterQueue or  *)
(* none, with foreground first and places given up from anywhere.          *)
(***************************************************************************)
THEOREM QueueRefinement == Spec => ImplementsQueue
<1>1. Init => Abstract!Init /\ QInv
  <2> SUFFICES ASSUME Init PROVE Abstract!Init /\ QInv
    OBVIOUS
  <2>1. IInv
    BY Initially
  <2>2. ASSUME NEW c \in Classes PROVE Lists(<< >>, WaitingIn(c), ticket)
    <3>1. WaitingIn(c) = {}
      BY DEF Init, WaitingIn, Waiting
    <3>2. << >> \in [1 .. 0 -> {}]
      OBVIOUS
    <3>3. QED
      BY <3>1, <3>2 DEF Lists
  <2>3. \A c \in Classes : QueueOf(c) = << >> /\ Lists(QueueOf(c), WaitingIn(c), ticket)
    BY <2>1, <2>2, ListNow
  <2>4. QED
    BY <2>3 DEF QInv, Abstract!Init, Init
<1>2. IInv /\ IInv' /\ QInv /\ [Next]_vars => QInv' /\ [Abstract!Next]_(Abstract!vars)
  <2> SUFFICES ASSUME IInv, IInv', QInv, [Next]_vars
               PROVE  QInv' /\ [Abstract!Next]_(Abstract!vars)
    OBVIOUS
  <2>1. ASSUME NEW t \in Threads, NEW c \in Classes, NEW polling \in BOOLEAN,
               Enter(t, c, polling)
        PROVE  QInv' /\ Abstract!Next
    BY <2>1, EnterJoins DEF Abstract!Next
  <2>2. ASSUME NEW t \in Threads, Admit(t)
        PROVE  QInv' /\ Abstract!Next
    <3>1. class[t] \in Classes
      BY DEF IInv, TypeOK
    <3>2. QED
      BY <2>2, <3>1, AdmitGrants DEF Abstract!Next
  <2>3. ASSUME NEW t \in Threads, Leave(t)
        PROVE  QInv' /\ Abstract!Next
    <3>1. class[t] \in Classes
      BY DEF IInv, TypeOK
    <3>2. QED
      BY <2>3, <3>1, LeaveAbandons DEF Abstract!Next
  <2>4. CASE \/ WakeWaiters \/ UNCHANGED vars
             \/ \E t \in Threads : \/ Sleep(t) \/ GiveUp(t) \/ Timeout(t) \/ Grant(t)
                                   \/ Refuse(t) \/ Close(t) \/ Release(t)
    <3>1. /\ QInv' /\ Queues' = Queues
          /\ owner' = owner \/ \E t \in Threads : owner = t /\ owner' = NoThread
      BY <2>4, OthersStay
    <3>2. CASE owner' = owner
      BY <3>1, <3>2 DEF Abstract!vars, Queues
    <3>3. CASE \E t \in Threads : owner = t /\ owner' = NoThread
      BY <3>1, <3>3 DEF Abstract!Next, Abstract!Free, Queues
    <3>4. QED
      BY <3>1, <3>2, <3>3
  <2>5. QED
    BY <2>1, <2>2, <2>3, <2>4 DEF Next
<1>3. QED
  BY <1>1, <1>2, Invariant, PTL DEF Spec, ImplementsQueue, Abstract!Spec
=============================================================================
