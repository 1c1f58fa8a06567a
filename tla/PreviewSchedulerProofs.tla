----------------------- MODULE PreviewSchedulerProofs -----------------------
(***************************************************************************)
(* Proofs about PreviewScheduler, for every set of keys and costs and all  *)
(* limits.                                                                 *)
(*                                                                         *)
(* A call rewrites the jobs and reads in two stages: what it was asked for *)
(* and then preempt_background.  The invariant is therefore a predicate of *)
(* explicit maps, Good, so that it can be shown of the intermediate maps.  *)
(* Preemption keeps it whatever is flagged, which is why no lemma looks    *)
(* into the choice of the victim.                                          *)
(***************************************************************************)
EXTENDS PreviewScheduler, FiniteSetTheorems, TLAPS

-----------------------------------------------------------------------------
(* The invariant, of explicit maps: n for next, J jobs, K keys, C          *)
(* consumers, E external, W workers, D joined, S stale.                    *)

JobType(n, consumersOf) ==
  [key : Keys, cost : Nat, consumers : {consumersOf}, running : BOOLEAN,
   canceled : BOOLEAN, preempted : BOOLEAN, lease : 0 .. n - 1]
ReadType(n) ==
  [priority : Priorities, cost : Nat, lease : 0 .. n - 1, preempted : BOOLEAN]

GoodJobs(n, J) ==
  /\ DOMAIN J \subseteq 1 .. n - 1
  /\ \A id \in DOMAIN J :
       /\ J[id] \in JobType(n, J[id].consumers)
       /\ DOMAIN J[id].consumers \subseteq 1 .. n - 1
       /\ \A c \in DOMAIN J[id].consumers : J[id].consumers[c] \in Priorities

GoodReads(n, J, E) ==
  /\ DOMAIN E \subseteq (1 .. n - 1) \ DOMAIN J
  /\ \A r \in DOMAIN E : E[r] \in ReadType(n)

GoodConsumers(J, K, C) ==
  /\ \A c \in DOMAIN C : C[c] \in DOMAIN J /\ c \in DOMAIN J[C[c]].consumers
  /\ \A id \in DOMAIN J : \A c \in DOMAIN J[id].consumers :
       /\ c \in DOMAIN C /\ C[c] = id
       /\ J[id].key \in DOMAIN K /\ K[J[id].key] = id
  /\ \A k \in DOMAIN K : K[k] \in DOMAIN J /\ J[K[k]].key = k

HoldersOf(J, E, l) == {id \in DOMAIN J : J[id].lease = l} \cup {r \in DOMAIN E : E[r].lease = l}

GoodLeases(J, E, W, D) ==
  /\ \A id \in DOMAIN J :
       /\ J[id].running <=> J[id].lease # NoLease
       /\ J[id].running => J[id].lease \in DOMAIN W /\ W[J[id].lease] = J[id].cost
  /\ \A r \in DOMAIN E : E[r].lease # NoLease =>
       E[r].lease \in DOMAIN W /\ W[E[r].lease] = E[r].cost
  /\ D \cap DOMAIN W = {}
  /\ \A l \in DOMAIN W : \E h \in HoldersOf(J, E, l) : HoldersOf(J, E, l) = {h}

GoodFlags(J, S) ==
  \A id \in DOMAIN J :
    J[id].canceled /\ ~J[id].preempted => DOMAIN J[id].consumers = {} \/ J[id].key \in S

GoodRest(n, K, C, W, D, S) ==
  /\ n \in 1 .. MaxSerial
  /\ DOMAIN K \subseteq Keys
  /\ DOMAIN C \subseteq 1 .. n - 1
  /\ DOMAIN W \subseteq 1 .. n - 1
  /\ D \subseteq 1 .. n - 1
  /\ S \subseteq Keys

Good(n, J, K, C, E, W, D, S) ==
  /\ GoodJobs(n, J)
  /\ GoodReads(n, J, E)
  /\ GoodConsumers(J, K, C)
  /\ GoodLeases(J, E, W, D)
  /\ GoodFlags(J, S)
  /\ GoodRest(n, K, C, W, D, S)

\* The inductive invariant.
IInv ==
  /\ Good(next, jobs, keys, consumers, external, workers, joined, stale)
  /\ reserved \in Int

-----------------------------------------------------------------------------
(***************************************************************************)
(* The invariant is the conjunction of the module's own invariants.        *)
(***************************************************************************)
LEMMA IInvMeans == IInv <=> TypeOK /\ ConsumersTracked /\ LeasesOwned /\ StoppedUnwanted
BY DEF IInv, Good, GoodJobs, GoodReads, GoodConsumers, GoodLeases, GoodFlags, GoodRest,
       JobType, ReadType, HoldersOf, TypeOK, ConsumersTracked, LeasesOwned,
       StoppedUnwanted, Holders, LeaseOwner, Leased

\* The jobs P and reads Q differ from J and E in their stop flags only.
SameUpToFlags(n, J, E, P, Q) ==
  /\ DOMAIN P = DOMAIN J
  /\ DOMAIN Q = DOMAIN E
  /\ \A id \in DOMAIN J :
       /\ P[id] \in JobType(n, J[id].consumers)
       /\ P[id].key = J[id].key
       /\ P[id].cost = J[id].cost
       /\ P[id].consumers = J[id].consumers
       /\ P[id].running = J[id].running
       /\ P[id].lease = J[id].lease
       /\ P[id].canceled /\ ~P[id].preempted => J[id].canceled /\ ~J[id].preempted
  /\ \A r \in DOMAIN E :
       /\ Q[r] \in ReadType(n)
       /\ Q[r].lease = E[r].lease
       /\ Q[r].cost = E[r].cost

(***************************************************************************)
(* preempt_background changes two flags of jobs and one of reads.          *)
(***************************************************************************)
LEMMA PreemptFacts ==
  ASSUME NEW n \in Nat, NEW J, NEW E, NEW V, GoodJobs(n, J), GoodReads(n, J, E)
  PROVE  SameUpToFlags(n, J, E, PreemptedJobs(J, V), PreemptedReads(E, V))
BY DEF SameUpToFlags, PreemptedJobs, PreemptedReads, GoodJobs, GoodReads, JobType, ReadType

(***************************************************************************)
(* preempt_background keeps the invariant, whatever it flags.              *)
(***************************************************************************)
LEMMA PreemptKeeps ==
  ASSUME NEW n \in Nat, NEW J, NEW K, NEW C, NEW E, NEW W, NEW D, NEW S, NEW V,
         Good(n, J, K, C, E, W, D, S)
  PROVE  Good(n, PreemptedJobs(J, V), K, C, PreemptedReads(E, V), W, D, S)
<1> DEFINE P == PreemptedJobs(J, V)
           Q == PreemptedReads(E, V)
<1>1. /\ GoodJobs(n, J) /\ GoodReads(n, J, E) /\ GoodConsumers(J, K, C)
      /\ GoodLeases(J, E, W, D) /\ GoodFlags(J, S) /\ GoodRest(n, K, C, W, D, S)
  BY DEF Good
<1>2. SameUpToFlags(n, J, E, P, Q)
  BY <1>1, PreemptFacts
<1> HIDE DEF P, Q
<1>3. GoodJobs(n, P) /\ GoodReads(n, P, Q)
  BY <1>1, <1>2 DEF GoodJobs, GoodReads, SameUpToFlags
<1>4. GoodConsumers(P, K, C)
  BY <1>1, <1>2 DEF GoodConsumers, SameUpToFlags
<1>5. \A l : HoldersOf(P, Q, l) = HoldersOf(J, E, l)
  BY <1>2 DEF HoldersOf, SameUpToFlags
<1>6. GoodLeases(P, Q, W, D)
  BY <1>1, <1>2, <1>5 DEF GoodLeases, SameUpToFlags
<1>7. GoodFlags(P, S)
  BY <1>1, <1>2 DEF GoodFlags, SameUpToFlags
<1>8. QED
  BY <1>1, <1>3, <1>4, <1>6, <1>7 DEF Good, P, Q

(***************************************************************************)
(* Drawing identities keeps the invariant.                                 *)
(***************************************************************************)
LEMMA GrowKeeps ==
  ASSUME NEW n \in Nat, NEW m \in Nat, n <= m, m <= MaxSerial,
         NEW J, NEW K, NEW C, NEW E, NEW W, NEW D, NEW S,
         Good(n, J, K, C, E, W, D, S)
  PROVE  Good(m, J, K, C, E, W, D, S)
<1>1. GoodJobs(m, J)
  BY DEF Good, GoodJobs, JobType
<1>2. GoodReads(m, J, E)
  BY DEF Good, GoodReads, ReadType
<1>3. GoodRest(m, K, C, W, D, S)
  BY SerialAssumption DEF Good, GoodRest
<1>4. QED
  BY <1>1, <1>2, <1>3 DEF Good

(***************************************************************************)
(* request joins the live or preempted owner of its key.                   *)
(***************************************************************************)
LEMMA JoinKeeps ==
  ASSUME NEW n \in Nat, n < MaxSerial,
         NEW J, NEW K, NEW C, NEW E, NEW W, NEW D, NEW S,
         Good(n, J, K, C, E, W, D, S),
         NEW id \in DOMAIN J, NEW p \in Priorities,
         J[id].key \in DOMAIN K, K[J[id].key] = id,
         ~J[id].canceled \/ J[id].preempted
  PROVE  Good(n + 1, [J EXCEPT ![id].consumers = Insert(J[id].consumers, n, p)], K,
              Insert(C, n, id), E, W, D, S)
<1> DEFINE own == Insert(J[id].consumers, n, p)
           P == [J EXCEPT ![id].consumers = own]
           B == Insert(C, n, id)
<1>0. Good(n + 1, J, K, C, E, W, D, S)
  BY GrowKeeps, SerialAssumption
<1>1. /\ DOMAIN P = DOMAIN J
      /\ \A x \in DOMAIN J : /\ P[x] \in JobType(n + 1, P[x].consumers)
                             /\ P[x].key = J[x].key /\ P[x].cost = J[x].cost
                             /\ P[x].running = J[x].running /\ P[x].lease = J[x].lease
                             /\ P[x].canceled = J[x].canceled
                             /\ P[x].preempted = J[x].preempted
                             /\ P[x].consumers = IF x = id THEN own ELSE J[x].consumers
  BY <1>0 DEF Good, GoodJobs, JobType
<1>2. /\ DOMAIN own = DOMAIN J[id].consumers \cup {n} /\ own[n] = p
      /\ \A c \in DOMAIN J[id].consumers : c # n => own[c] = J[id].consumers[c]
  BY DEF Insert
<1>3. /\ DOMAIN B = DOMAIN C \cup {n} /\ B[n] = id
      /\ \A c \in DOMAIN C : c # n => B[c] = C[c]
  BY DEF Insert
<1>4. n \in 1 .. n /\ n \notin DOMAIN C /\ \A x \in DOMAIN J : n \notin DOMAIN J[x].consumers
  BY DEF Good, GoodRest, GoodJobs
<1> HIDE DEF own, P, B
<1>5. GoodJobs(n + 1, P)
  BY <1>0, <1>1, <1>2, <1>4 DEF Good, GoodJobs
<1>6. GoodReads(n + 1, P, E)
  BY <1>0, <1>1 DEF Good, GoodReads
<1>7. GoodConsumers(P, K, B)
  BY <1>0, <1>1, <1>2, <1>3, <1>4 DEF Good, GoodConsumers
<1>8. \A l : HoldersOf(P, E, l) = HoldersOf(J, E, l)
  BY <1>1 DEF HoldersOf
<1>9. GoodLeases(P, E, W, D)
  BY <1>0, <1>1, <1>8 DEF Good, GoodLeases
<1>10. GoodFlags(P, S)
  BY <1>0, <1>1 DEF Good, GoodFlags
<1>11. GoodRest(n + 1, K, B, W, D, S)
  BY <1>0, <1>3, <1>4 DEF Good, GoodRest
<1>12. QED
  BY <1>5, <1>6, <1>7, <1>9, <1>10, <1>11 DEF Good, own, P, B

(***************************************************************************)
(* request starts a job for a key nobody who waits owns.                   *)
(***************************************************************************)
LEMMA StartKeeps ==
  ASSUME NEW n \in Nat, n + 1 < MaxSerial,
         NEW J, NEW K, NEW C, NEW E, NEW W, NEW D, NEW S,
         Good(n, J, K, C, E, W, D, S),
         NEW k \in Keys, NEW cost \in Nat, NEW p \in Priorities, k \notin S,
         k \in DOMAIN K => J[K[k]].canceled /\ ~J[K[k]].preempted
  PROVE  Good(n + 2, Insert(J, n + 1, NewJob(k, cost, n, p)), Insert(K, k, n + 1),
              Insert(C, n, n + 1), E, W, D, S)
<1> DEFINE new == NewJob(k, cost, n, p)
           P == Insert(J, n + 1, new)
           L == Insert(K, k, n + 1)
           B == Insert(C, n, n + 1)
<1>0. Good(n + 2, J, K, C, E, W, D, S)
  BY GrowKeeps, SerialAssumption
<1>1. /\ n + 1 \notin DOMAIN J /\ n + 1 \notin DOMAIN E /\ n \notin DOMAIN C
      /\ \A x \in DOMAIN J : n \notin DOMAIN J[x].consumers /\ n + 1 # x
      /\ \A x \in DOMAIN K : K[x] # n + 1
      /\ n \in 1 .. n + 1 /\ n + 1 \in 1 .. n + 1
  BY DEF Good, GoodRest, GoodJobs, GoodReads, GoodConsumers
<1>2. /\ new \in JobType(n + 2, new.consumers)
      /\ new.key = k /\ ~new.canceled /\ ~new.running /\ new.lease = NoLease
      /\ DOMAIN new.consumers = {n} /\ new.consumers[n] = p
  BY <1>1 DEF NewJob, JobType, NoLease
<1>3. /\ DOMAIN P = DOMAIN J \cup {n + 1} /\ P[n + 1] = new
      /\ \A x \in DOMAIN J : P[x] = J[x]
  BY <1>1 DEF Insert
<1>4. /\ DOMAIN L = DOMAIN K \cup {k} /\ L[k] = n + 1
      /\ \A x \in DOMAIN K : x # k => L[x] = K[x]
  BY DEF Insert
<1>5. /\ DOMAIN B = DOMAIN C \cup {n} /\ B[n] = n + 1
      /\ \A c \in DOMAIN C : c # n => B[c] = C[c]
  BY DEF Insert
<1>6. \A x \in DOMAIN J : \A c \in DOMAIN J[x].consumers : J[x].key # k
  BY DEF Good, GoodConsumers, GoodFlags
<1> HIDE DEF new, P, L, B
<1>7. GoodJobs(n + 2, P)
  BY <1>0, <1>1, <1>2, <1>3 DEF Good, GoodJobs
<1>8. GoodReads(n + 2, P, E)
  BY <1>0, <1>1, <1>3 DEF Good, GoodReads
<1>9. GoodConsumers(P, L, B)
  <2>1. \A c \in DOMAIN B : B[c] \in DOMAIN P /\ c \in DOMAIN P[B[c]].consumers
    BY <1>0, <1>1, <1>2, <1>3, <1>5 DEF Good, GoodConsumers
  <2>2. \A id \in DOMAIN P : \A c \in DOMAIN P[id].consumers :
          /\ c \in DOMAIN B /\ B[c] = id
          /\ P[id].key \in DOMAIN L /\ L[P[id].key] = id
    BY <1>0, <1>1, <1>2, <1>3, <1>4, <1>5, <1>6 DEF Good, GoodConsumers
  <2>3. \A x \in DOMAIN L : L[x] \in DOMAIN P /\ P[L[x]].key = x
    BY <1>0, <1>1, <1>2, <1>3, <1>4 DEF Good, GoodConsumers
  <2>4. QED
    BY <2>1, <2>2, <2>3 DEF GoodConsumers
<1>10. \A l \in DOMAIN W : HoldersOf(P, E, l) = HoldersOf(J, E, l)
  BY <1>0, <1>1, <1>2, <1>3 DEF HoldersOf, Good, GoodRest, NoLease
<1>11. GoodLeases(P, E, W, D)
  BY <1>0, <1>2, <1>3, <1>10 DEF Good, GoodLeases
<1>12. GoodFlags(P, S)
  BY <1>0, <1>2, <1>3 DEF Good, GoodFlags
<1>13. GoodRest(n + 2, L, B, W, D, S)
  BY <1>0, <1>1, <1>4, <1>5 DEF Good, GoodRest
<1>14. QED
  BY <1>7, <1>8, <1>9, <1>11, <1>12, <1>13 DEF Good, new, P, L, B

(***************************************************************************)
(* cancel takes one consumer from its job, and may stop the job when that  *)
(* was the last one.                                                       *)
(***************************************************************************)
LEMMA DropKeeps ==
  ASSUME NEW n \in Nat, NEW J, NEW K, NEW C, NEW E, NEW W, NEW D, NEW S,
         Good(n, J, K, C, E, W, D, S),
         NEW c \in DOMAIN C, NEW P, DOMAIN P = DOMAIN J,
         \A x \in DOMAIN J : /\ P[x] \in JobType(n, P[x].consumers)
                             /\ P[x].key = J[x].key /\ P[x].cost = J[x].cost
                             /\ P[x].running = J[x].running /\ P[x].lease = J[x].lease
                             /\ P[x].preempted = J[x].preempted
                             /\ P[x].canceled => J[x].canceled \/ DOMAIN P[x].consumers = {}
                             /\ P[x].consumers = IF x = C[c] THEN Remove(J[x].consumers, c)
                                                 ELSE J[x].consumers
  PROVE  Good(n, P, K, Remove(C, c), E, W, D, S)
<1> DEFINE B == Remove(C, c)
<1>1. \A x \in DOMAIN J :
        /\ DOMAIN P[x].consumers = DOMAIN J[x].consumers \ {c}
        /\ \A y \in DOMAIN P[x].consumers : P[x].consumers[y] = J[x].consumers[y]
  <2> TAKE x \in DOMAIN J
  <2>1. CASE x = C[c]
    <3>1. P[x].consumers = Remove(J[x].consumers, c)
      BY <2>1
    <3>2. QED
      BY <3>1 DEF Remove
  <2>2. CASE x # C[c]
    <3>1. P[x].consumers = J[x].consumers
      BY <2>2
    <3>2. c \notin DOMAIN J[x].consumers
      BY <2>2 DEF Good, GoodConsumers
    <3>3. QED
      BY <3>1, <3>2
  <2>3. QED
    BY <2>1, <2>2
<1>2. DOMAIN B = DOMAIN C \ {c} /\ \A y \in DOMAIN B : B[y] = C[y]
  BY DEF Remove
<1> HIDE DEF B
<1>3. GoodJobs(n, P)
  BY <1>1 DEF Good, GoodJobs
<1>4. GoodReads(n, P, E)
  BY DEF Good, GoodReads
<1>5. GoodConsumers(P, K, B)
  BY <1>1, <1>2 DEF Good, GoodConsumers
<1>6. \A l : HoldersOf(P, E, l) = HoldersOf(J, E, l)
  BY DEF HoldersOf
<1>7. GoodLeases(P, E, W, D)
  BY <1>6 DEF Good, GoodLeases
<1>8. GoodFlags(P, S)
  BY <1>1 DEF Good, GoodFlags
<1>9. GoodRest(n, K, B, W, D, S)
  BY <1>2 DEF Good, GoodRest
<1>10. QED
  BY <1>3, <1>4, <1>5, <1>7, <1>8, <1>9 DEF Good, B

\* X and F are the processes and the joined leases once the process behind l
\* was joined, or all of them when l is NoLease.
Joins(W, D, X, F, l) ==
  /\ DOMAIN X = DOMAIN W \ {l}
  /\ \A x \in DOMAIN X : X[x] = W[x]
  /\ F = IF l = NoLease THEN D ELSE D \cup {l}

(***************************************************************************)
(* remove: a job goes with its consumers, its own key and its process.     *)
(***************************************************************************)
LEMMA RemoveKeeps ==
  ASSUME NEW n \in Nat, NEW J, NEW K, NEW C, NEW E, NEW W, NEW D, NEW S,
         Good(n, J, K, C, E, W, D, S),
         NEW id \in DOMAIN J, NEW X, NEW F, Joins(W, D, X, F, J[id].lease)
  PROVE  Good(n, Remove(J, id),
              [k \in {k \in DOMAIN K : k # J[id].key \/ K[k] # id} |-> K[k]],
              [c \in DOMAIN C \ DOMAIN J[id].consumers |-> C[c]], E, X, F, S)
<1> DEFINE P == Remove(J, id)
           L == [k \in {k \in DOMAIN K : k # J[id].key \/ K[k] # id} |-> K[k]]
           B == [c \in DOMAIN C \ DOMAIN J[id].consumers |-> C[c]]
<1>1. DOMAIN P = DOMAIN J \ {id} /\ \A x \in DOMAIN P : P[x] = J[x]
  BY DEF Remove
<1>2. /\ \A k \in DOMAIN L : k \in DOMAIN K /\ L[k] = K[k]
      /\ \A k \in DOMAIN K : K[k] # id => k \in DOMAIN L
      /\ \A k \in DOMAIN L : L[k] # id
  BY DEF Good, GoodConsumers
<1>3. DOMAIN B = DOMAIN C \ DOMAIN J[id].consumers /\ \A c \in DOMAIN B : B[c] = C[c]
  OBVIOUS
<1> HIDE DEF P, L, B
<1>4. GoodJobs(n, P)
  BY <1>1 DEF Good, GoodJobs
<1>5. GoodReads(n, P, E)
  BY <1>1 DEF Good, GoodReads
<1>6. GoodConsumers(P, L, B)
  BY <1>1, <1>2, <1>3 DEF Good, GoodConsumers
<1>7. \A l \in DOMAIN X : HoldersOf(P, E, l) = HoldersOf(J, E, l)
  BY <1>1 DEF HoldersOf, Joins
<1>8. \A h \in (DOMAIN P \cup DOMAIN E) :
        /\ h \in DOMAIN P /\ P[h].lease # NoLease => P[h].lease # J[id].lease
        /\ h \in DOMAIN E /\ E[h].lease # NoLease => E[h].lease # J[id].lease
  <2>1. ASSUME NEW h, h \in HoldersOf(J, E, J[id].lease), J[id].lease # NoLease
        PROVE  h = id
    <3>1. J[id].lease \in DOMAIN W
      BY <2>1 DEF Good, GoodLeases
    <3>2. id \in HoldersOf(J, E, J[id].lease)
      BY DEF HoldersOf
    <3>3. QED
      BY <2>1, <3>1, <3>2 DEF Good, GoodLeases
  <2>2. id \notin DOMAIN P /\ id \notin DOMAIN E
    BY <1>1 DEF Good, GoodReads
  <2>3. QED
    BY <1>1, <2>1, <2>2 DEF HoldersOf
<1>9. GoodLeases(P, E, X, F)
  <2>1. \A x \in DOMAIN P :
          /\ P[x].running <=> P[x].lease # NoLease
          /\ P[x].running => P[x].lease \in DOMAIN X /\ X[P[x].lease] = P[x].cost
    BY <1>1, <1>8 DEF Good, GoodLeases, Joins
  <2>2. \A r \in DOMAIN E : E[r].lease # NoLease =>
          E[r].lease \in DOMAIN X /\ X[E[r].lease] = E[r].cost
    BY <1>8 DEF Good, GoodLeases, Joins
  <2>3. F \cap DOMAIN X = {}
    BY DEF Good, GoodLeases, Joins
  <2>4. \A l \in DOMAIN X : \E h \in HoldersOf(P, E, l) : HoldersOf(P, E, l) = {h}
    BY <1>7 DEF Good, GoodLeases, Joins
  <2>5. QED
    BY <2>1, <2>2, <2>3, <2>4 DEF GoodLeases
<1>10. GoodFlags(P, S)
  BY <1>1 DEF Good, GoodFlags
<1>11. GoodRest(n, L, B, X, F, S)
  <2>1. J[id].lease = NoLease \/ J[id].lease \in 1 .. n - 1
    BY DEF Good, GoodJobs, JobType, NoLease
  <2>2. F \subseteq 1 .. n - 1
    BY <2>1 DEF Good, GoodRest, Joins
  <2>3. DOMAIN X \subseteq 1 .. n - 1
    BY DEF Good, GoodRest, Joins
  <2>4. QED
    BY <1>2, <1>3, <2>2, <2>3 DEF Good, GoodRest
<1>12. QED
  BY <1>4, <1>5, <1>6, <1>9, <1>10, <1>11 DEF Good, P, L, B

(***************************************************************************)
(* finished queues a preempted job again, without its process.             *)
(***************************************************************************)
LEMMA RequeueKeeps ==
  ASSUME NEW n \in Nat, NEW J, NEW K, NEW C, NEW E, NEW W, NEW D, NEW S,
         Good(n, J, K, C, E, W, D, S),
         NEW id \in DOMAIN J, J[id].lease # NoLease,
         NEW X, NEW F, Joins(W, D, X, F, J[id].lease)
  PROVE  Good(n, [J EXCEPT ![id].lease = NoLease, ![id].running = FALSE,
                           ![id].preempted = FALSE, ![id].canceled = FALSE],
              K, C, E, X, F, S)
<1> DEFINE P == [J EXCEPT ![id].lease = NoLease, ![id].running = FALSE,
                          ![id].preempted = FALSE, ![id].canceled = FALSE]
<1>1. /\ DOMAIN P = DOMAIN J
      /\ \A x \in DOMAIN J : /\ P[x] \in JobType(n, P[x].consumers)
                             /\ P[x].key = J[x].key /\ P[x].cost = J[x].cost
                             /\ P[x].consumers = J[x].consumers
                             /\ x # id => P[x] = J[x]
      /\ P[id].lease = NoLease /\ ~P[id].running /\ ~P[id].canceled
  <2>1. J[id] \in JobType(n, J[id].consumers) /\ 0 \in 0 .. n - 1
    BY DEF Good, GoodJobs, GoodRest
  <2>2. \A x \in DOMAIN J : x # id => P[x] = J[x] /\ J[x] \in JobType(n, J[x].consumers)
    BY DEF Good, GoodJobs
  <2> DEFINE old == J[id]
             new == [old EXCEPT !.lease = 0, !.running = FALSE,
                                !.preempted = FALSE, !.canceled = FALSE]
  <2>3. DOMAIN P = DOMAIN J /\ P[id] = new
    BY Zenon DEF NoLease
  <2> HIDE DEF old, P
  <2>4. old \in JobType(n, old.consumers)
    BY <2>1 DEF old
  <2>5. /\ new \in JobType(n, new.consumers) /\ new.key = old.key /\ new.cost = old.cost
        /\ new.consumers = old.consumers /\ new.lease = 0
        /\ ~new.running /\ ~new.canceled
    BY <2>1, <2>4 DEF JobType
  <2> HIDE DEF new
  <2>6. QED
    BY <2>2, <2>3, <2>5 DEF old, NoLease
<1> HIDE DEF P
<1>2. GoodJobs(n, P)
  BY <1>1 DEF Good, GoodJobs
<1>3. GoodReads(n, P, E)
  BY <1>1 DEF Good, GoodReads
<1>4. GoodConsumers(P, K, C)
  BY <1>1 DEF Good, GoodConsumers
<1>5. \A l \in DOMAIN X : HoldersOf(P, E, l) = HoldersOf(J, E, l)
  BY <1>1 DEF HoldersOf, Joins, Good, GoodRest, NoLease
<1>6. /\ \A x \in DOMAIN J \ {id} : J[x].lease # J[id].lease
      /\ \A r \in DOMAIN E : E[r].lease # J[id].lease
  <2>1. J[id].lease \in DOMAIN W /\ id \in HoldersOf(J, E, J[id].lease)
    BY DEF Good, GoodLeases, HoldersOf
  <2>2. \A h \in HoldersOf(J, E, J[id].lease) : h = id
    BY <2>1 DEF Good, GoodLeases
  <2>3. id \notin DOMAIN E
    BY DEF Good, GoodReads
  <2>4. QED
    BY <2>2, <2>3 DEF HoldersOf
<1>7. GoodLeases(P, E, X, F)
  <2>1. \A x \in DOMAIN P :
          /\ P[x].running <=> P[x].lease # NoLease
          /\ P[x].running => P[x].lease \in DOMAIN X /\ X[P[x].lease] = P[x].cost
    BY <1>1, <1>6 DEF Good, GoodLeases, Joins
  <2>2. \A r \in DOMAIN E : E[r].lease # NoLease =>
          E[r].lease \in DOMAIN X /\ X[E[r].lease] = E[r].cost
    BY <1>6 DEF Good, GoodLeases, Joins
  <2>3. F \cap DOMAIN X = {}
    BY DEF Good, GoodLeases, Joins
  <2>4. \A l \in DOMAIN X : \E h \in HoldersOf(P, E, l) : HoldersOf(P, E, l) = {h}
    BY <1>5 DEF Good, GoodLeases, Joins
  <2>5. QED
    BY <2>1, <2>2, <2>3, <2>4 DEF GoodLeases
<1>8. GoodFlags(P, S)
  BY <1>1 DEF Good, GoodFlags
<1>9. GoodRest(n, K, C, X, F, S)
  <2>1. J[id].lease \in 1 .. n - 1
    BY DEF Good, GoodJobs, JobType, NoLease
  <2>2. QED
    BY <2>1 DEF Good, GoodRest, Joins, NoLease
<1>10. QED
  BY <1>2, <1>3, <1>4, <1>7, <1>8, <1>9 DEF Good, P

(***************************************************************************)
(* next_ready starts a queued job under the lease it draws.                *)
(***************************************************************************)
LEMMA BeginKeeps ==
  ASSUME NEW n \in Nat, n < MaxSerial,
         NEW J, NEW K, NEW C, NEW E, NEW W, NEW D, NEW S,
         Good(n, J, K, C, E, W, D, S),
         NEW id \in DOMAIN J, ~J[id].running
  PROVE  Good(n + 1, [J EXCEPT ![id].running = TRUE, ![id].lease = n], K, C, E,
              Insert(W, n, J[id].cost), D, S)
<1> DEFINE P == [J EXCEPT ![id].running = TRUE, ![id].lease = n]
           X == Insert(W, n, J[id].cost)
<1>0. Good(n + 1, J, K, C, E, W, D, S)
  BY GrowKeeps, SerialAssumption
<1>1. /\ n \notin DOMAIN W /\ n \notin D /\ n # NoLease /\ n \in 1 .. n
      /\ \A x \in DOMAIN J : J[x].lease # n
      /\ \A r \in DOMAIN E : E[r].lease # n
      /\ J[id].lease = NoLease
  BY DEF Good, GoodJobs, GoodReads, GoodLeases, GoodRest, JobType, ReadType, NoLease
<1>2. /\ DOMAIN P = DOMAIN J
      /\ \A x \in DOMAIN J : /\ P[x] \in JobType(n + 1, P[x].consumers)
                             /\ P[x].key = J[x].key /\ P[x].cost = J[x].cost
                             /\ P[x].consumers = J[x].consumers
                             /\ P[x].canceled = J[x].canceled
                             /\ P[x].preempted = J[x].preempted
                             /\ x # id => P[x] = J[x]
      /\ P[id].running /\ P[id].lease = n
  <2>1. \A x \in DOMAIN J : x # id => P[x] = J[x]
    OBVIOUS
  <2>2. \A x \in DOMAIN J : J[x] \in JobType(n + 1, J[x].consumers)
    BY <1>0 DEF Good, GoodJobs
  <2> DEFINE old == J[id]
             new == [old EXCEPT !.running = TRUE, !.lease = n]
  <2>3. DOMAIN P = DOMAIN J /\ P[id] = new
    BY Zenon
  <2> HIDE DEF old, P
  <2>4. old \in JobType(n + 1, old.consumers) /\ n \in 0 .. n + 1 - 1
    BY <2>2 DEF old
  <2>5. /\ new.key = old.key /\ new.cost = old.cost /\ new.consumers = old.consumers
        /\ new.canceled = old.canceled /\ new.preempted = old.preempted
        /\ new.running = TRUE /\ new.lease = n
    BY <2>4 DEF JobType
  <2>6. new \in JobType(n + 1, new.consumers)
    <3> DEFINE serials == 0 .. n + 1 - 1
    <3>1. n \in serials /\ old \in [key : Keys, cost : Nat, consumers : {old.consumers},
                                    running : BOOLEAN, canceled : BOOLEAN,
                                    preempted : BOOLEAN, lease : serials]
      BY <2>4 DEF JobType
    <3> HIDE DEF serials
    <3>2. new \in [key : Keys, cost : Nat, consumers : {old.consumers}, running : BOOLEAN,
                   canceled : BOOLEAN, preempted : BOOLEAN, lease : serials]
      BY <3>1
    <3>3. QED
      BY <2>5, <3>2 DEF JobType, serials
  <2> HIDE DEF new
  <2>7. QED
    BY <2>1, <2>2, <2>3, <2>5, <2>6 DEF old
<1>3. /\ DOMAIN X = DOMAIN W \cup {n} /\ X[n] = J[id].cost
      /\ \A l \in DOMAIN W : X[l] = W[l]
  BY <1>1 DEF Insert
<1> HIDE DEF P, X
<1>4. GoodJobs(n + 1, P)
  BY <1>0, <1>2 DEF Good, GoodJobs
<1>5. GoodReads(n + 1, P, E)
  BY <1>0, <1>2 DEF Good, GoodReads
<1>6. GoodConsumers(P, K, C)
  BY <1>0, <1>2 DEF Good, GoodConsumers
<1>7. GoodLeases(P, E, X, D)
  <2>1. \A l \in DOMAIN W : HoldersOf(P, E, l) = HoldersOf(J, E, l)
    BY <1>0, <1>1, <1>2 DEF HoldersOf, Good, GoodRest, NoLease
  <2>2. HoldersOf(P, E, n) = {id}
    BY <1>1, <1>2 DEF HoldersOf
  <2>3. \A l \in DOMAIN X : \E h \in HoldersOf(P, E, l) : HoldersOf(P, E, l) = {h}
    BY <1>0, <1>3, <2>1, <2>2 DEF Good, GoodLeases
  <2>4. \A x \in DOMAIN P :
          /\ P[x].running <=> P[x].lease # NoLease
          /\ P[x].running => P[x].lease \in DOMAIN X /\ X[P[x].lease] = P[x].cost
    BY <1>0, <1>1, <1>2, <1>3 DEF Good, GoodLeases
  <2>5. QED
    BY <1>0, <1>1, <1>3, <2>3, <2>4 DEF Good, GoodLeases
<1>8. GoodFlags(P, S)
  BY <1>0, <1>2 DEF Good, GoodFlags
<1>9. GoodRest(n + 1, K, C, X, D, S)
  BY <1>0, <1>1, <1>3 DEF Good, GoodRest
<1>10. QED
  BY <1>4, <1>5, <1>6, <1>7, <1>8, <1>9 DEF Good, P, X

(***************************************************************************)
(* The owner stops a running job whose key is stale.                       *)
(***************************************************************************)
LEMMA StopKeeps ==
  ASSUME NEW n \in Nat, NEW J, NEW K, NEW C, NEW E, NEW W, NEW D, NEW S,
         Good(n, J, K, C, E, W, D, S), NEW id \in DOMAIN J, J[id].key \in S
  PROVE  Good(n, [J EXCEPT ![id].canceled = TRUE], K, C, E, W, D, S)
<1> DEFINE P == [J EXCEPT ![id].canceled = TRUE]
<1>1. /\ DOMAIN P = DOMAIN J
      /\ \A x \in DOMAIN J : /\ P[x] \in JobType(n, P[x].consumers)
                             /\ P[x].key = J[x].key /\ P[x].cost = J[x].cost
                             /\ P[x].consumers = J[x].consumers
                             /\ P[x].running = J[x].running /\ P[x].lease = J[x].lease
                             /\ x # id => P[x] = J[x]
  BY DEF Good, GoodJobs, JobType
<1> HIDE DEF P
<1>2. GoodJobs(n, P)
  BY <1>1 DEF Good, GoodJobs
<1>3. GoodReads(n, P, E)
  BY <1>1 DEF Good, GoodReads
<1>4. GoodConsumers(P, K, C)
  BY <1>1 DEF Good, GoodConsumers
<1>5. \A l : HoldersOf(P, E, l) = HoldersOf(J, E, l)
  BY <1>1 DEF HoldersOf
<1>6. GoodLeases(P, E, W, D)
  BY <1>1, <1>5 DEF Good, GoodLeases
<1>7. GoodFlags(P, S)
  BY <1>1 DEF Good, GoodFlags
<1>8. QED
  BY <1>2, <1>3, <1>4, <1>6, <1>7 DEF Good, P

(***************************************************************************)
(* queue_native_read adds a read that has no lease.                        *)
(***************************************************************************)
LEMMA QueueKeeps ==
  ASSUME NEW n \in Nat, n < MaxSerial,
         NEW J, NEW K, NEW C, NEW E, NEW W, NEW D, NEW S,
         Good(n, J, K, C, E, W, D, S),
         NEW read \in ReadType(n), read.lease = NoLease
  PROVE  Good(n + 1, J, K, C, Insert(E, n, read), W, D, S)
<1> DEFINE Q == Insert(E, n, read)
<1>0. Good(n + 1, J, K, C, E, W, D, S)
  BY GrowKeeps, SerialAssumption
<1>1. n \in 1 .. n /\ n \notin DOMAIN E /\ n \notin DOMAIN J /\ read \in ReadType(n + 1)
  BY DEF Good, GoodJobs, GoodReads, GoodRest, ReadType
<1>2. DOMAIN Q = DOMAIN E \cup {n} /\ Q[n] = read /\ \A x \in DOMAIN E : Q[x] = E[x]
  BY <1>1 DEF Insert
<1> HIDE DEF Q
<1>3. GoodReads(n + 1, J, Q)
  BY <1>0, <1>1, <1>2 DEF Good, GoodReads
<1>4. \A l \in DOMAIN W : HoldersOf(J, Q, l) = HoldersOf(J, E, l)
  BY <1>1, <1>2 DEF HoldersOf, Good, GoodRest, NoLease
<1>5. GoodLeases(J, Q, W, D)
  BY <1>2, <1>4 DEF Good, GoodLeases
<1>6. QED
  BY <1>0, <1>3, <1>5 DEF Good, Q

(***************************************************************************)
(* admit_native_read gives a queued read the lease it draws.               *)
(***************************************************************************)
LEMMA AdmitKeeps ==
  ASSUME NEW n \in Nat, n < MaxSerial,
         NEW J, NEW K, NEW C, NEW E, NEW W, NEW D, NEW S,
         Good(n, J, K, C, E, W, D, S),
         NEW r \in DOMAIN E, E[r].lease = NoLease
  PROVE  Good(n + 1, J, K, C, [E EXCEPT ![r].lease = n], Insert(W, n, E[r].cost), D, S)
<1> DEFINE Q == [E EXCEPT ![r].lease = n]
           X == Insert(W, n, E[r].cost)
<1>0. Good(n + 1, J, K, C, E, W, D, S)
  BY GrowKeeps, SerialAssumption
<1>1. /\ n \notin DOMAIN W /\ n \notin D /\ n # NoLease /\ n \in 1 .. n
      /\ \A x \in DOMAIN J : J[x].lease # n
      /\ \A x \in DOMAIN E : E[x].lease # n
  BY DEF Good, GoodJobs, GoodReads, GoodLeases, GoodRest, JobType, ReadType, NoLease
<1>2. /\ DOMAIN Q = DOMAIN E
      /\ \A x \in DOMAIN E : Q[x] \in ReadType(n + 1) /\ (x # r => Q[x] = E[x])
      /\ Q[r].lease = n /\ Q[r].cost = E[r].cost
  BY <1>0, <1>1 DEF Good, GoodReads, ReadType
<1>3. /\ DOMAIN X = DOMAIN W \cup {n} /\ X[n] = E[r].cost
      /\ \A l \in DOMAIN W : X[l] = W[l]
  BY <1>1 DEF Insert
<1> HIDE DEF Q, X
<1>4. GoodReads(n + 1, J, Q)
  BY <1>0, <1>2 DEF Good, GoodReads
<1>5. GoodLeases(J, Q, X, D)
  <2>1. \A l \in DOMAIN W : HoldersOf(J, Q, l) = HoldersOf(J, E, l)
    BY <1>0, <1>1, <1>2 DEF HoldersOf, Good, GoodRest, NoLease
  <2>2. HoldersOf(J, Q, n) = {r}
    BY <1>1, <1>2 DEF HoldersOf
  <2>3. \A l \in DOMAIN X : \E h \in HoldersOf(J, Q, l) : HoldersOf(J, Q, l) = {h}
    BY <1>0, <1>3, <2>1, <2>2 DEF Good, GoodLeases
  <2>4. \A x \in DOMAIN Q : Q[x].lease # NoLease =>
          Q[x].lease \in DOMAIN X /\ X[Q[x].lease] = Q[x].cost
    BY <1>0, <1>2, <1>3 DEF Good, GoodLeases
  <2>5. QED
    BY <1>0, <1>1, <1>3, <2>3, <2>4 DEF Good, GoodLeases
<1>6. GoodRest(n + 1, K, C, X, D, S)
  BY <1>0, <1>1, <1>3 DEF Good, GoodRest
<1>7. QED
  BY <1>0, <1>4, <1>5, <1>6 DEF Good, Q, X

(***************************************************************************)
(* A read loses its lease and its process, if it had them, and is kept or  *)
(* forgotten: requeue, release, cancel, and a new cost while it waits.     *)
(***************************************************************************)
LEMMA ReadEndKeeps ==
  ASSUME NEW n \in Nat, NEW J, NEW K, NEW C, NEW E, NEW W, NEW D, NEW S,
         Good(n, J, K, C, E, W, D, S),
         NEW r \in DOMAIN E, NEW X, NEW F, Joins(W, D, X, F, E[r].lease),
         NEW Q, DOMAIN Q \subseteq DOMAIN E, DOMAIN E \ {r} \subseteq DOMAIN Q,
         \A x \in DOMAIN Q : Q[x] \in ReadType(n) /\ (x # r => Q[x] = E[x]),
         r \in DOMAIN Q => Q[r].lease = NoLease
  PROVE  Good(n, J, K, C, Q, X, F, S)
<1>1. GoodReads(n, J, Q)
  BY DEF Good, GoodReads
<1>2. \A l \in DOMAIN X : HoldersOf(J, Q, l) = HoldersOf(J, E, l)
  BY DEF HoldersOf, Joins, Good, GoodRest, NoLease
<1>3. E[r].lease # NoLease =>
        /\ \A x \in DOMAIN E \ {r} : E[x].lease # E[r].lease
        /\ \A x \in DOMAIN J : J[x].lease # E[r].lease
  <2> SUFFICES ASSUME E[r].lease # NoLease
               PROVE  /\ \A x \in DOMAIN E \ {r} : E[x].lease # E[r].lease
                      /\ \A x \in DOMAIN J : J[x].lease # E[r].lease
    OBVIOUS
  <2>1. E[r].lease \in DOMAIN W /\ r \in HoldersOf(J, E, E[r].lease)
    BY DEF Good, GoodLeases, HoldersOf
  <2>2. \A h \in HoldersOf(J, E, E[r].lease) : h = r
    BY <2>1 DEF Good, GoodLeases
  <2>3. r \notin DOMAIN J
    BY DEF Good, GoodReads
  <2>4. QED
    BY <2>2, <2>3 DEF HoldersOf
<1>4. GoodLeases(J, Q, X, F)
  <2>1. \A x \in DOMAIN J :
          /\ J[x].running <=> J[x].lease # NoLease
          /\ J[x].running => J[x].lease \in DOMAIN X /\ X[J[x].lease] = J[x].cost
    BY <1>3 DEF Good, GoodLeases, Joins
  <2>2. \A x \in DOMAIN Q : Q[x].lease # NoLease =>
          Q[x].lease \in DOMAIN X /\ X[Q[x].lease] = Q[x].cost
    BY <1>3 DEF Good, GoodLeases, Joins
  <2>3. F \cap DOMAIN X = {}
    BY DEF Good, GoodLeases, Joins
  <2>4. \A l \in DOMAIN X : \E h \in HoldersOf(J, Q, l) : HoldersOf(J, Q, l) = {h}
    BY <1>2 DEF Good, GoodLeases, Joins
  <2>5. QED
    BY <2>1, <2>2, <2>3, <2>4 DEF GoodLeases
<1>5. GoodRest(n, K, C, X, F, S)
  <2>1. E[r].lease = NoLease \/ E[r].lease \in 1 .. n - 1
    BY DEF Good, GoodReads, ReadType, NoLease
  <2>2. F \subseteq 1 .. n - 1
    BY <2>1 DEF Good, GoodRest, Joins
  <2>3. DOMAIN X \subseteq 1 .. n - 1
    BY DEF Good, GoodRest, Joins
  <2>4. QED
    BY <2>2, <2>3 DEF Good, GoodRest
<1>6. QED
  BY <1>1, <1>4, <1>5 DEF Good

(***************************************************************************)
(* upgrade_native_read changes the cost of a read and of its process.      *)
(***************************************************************************)
LEMMA UpgradeKeeps ==
  ASSUME NEW n \in Nat, NEW J, NEW K, NEW C, NEW E, NEW W, NEW D, NEW S,
         Good(n, J, K, C, E, W, D, S),
         NEW r \in DOMAIN E, E[r].lease # NoLease, NEW cost \in Nat
  PROVE  Good(n, J, K, C, [E EXCEPT ![r].cost = cost],
              [W EXCEPT ![E[r].lease] = cost], D, S)
<1> DEFINE Q == [E EXCEPT ![r].cost = cost]
           X == [W EXCEPT ![E[r].lease] = cost]
<1>1. /\ DOMAIN Q = DOMAIN E
      /\ \A x \in DOMAIN E : /\ Q[x] \in ReadType(n) /\ Q[x].lease = E[x].lease
                             /\ x # r => Q[x] = E[x]
      /\ Q[r].cost = cost
  BY DEF Good, GoodReads, ReadType
<1>2. /\ E[r].lease \in DOMAIN W /\ r \in HoldersOf(J, E, E[r].lease) /\ r \notin DOMAIN J
      /\ \A h \in HoldersOf(J, E, E[r].lease) : h = r
  <2>1. E[r].lease \in DOMAIN W /\ r \in HoldersOf(J, E, E[r].lease) /\ r \notin DOMAIN J
    BY DEF Good, GoodLeases, HoldersOf, GoodReads
  <2>2. QED
    BY <2>1 DEF Good, GoodLeases
<1>3. /\ DOMAIN X = DOMAIN W /\ X[E[r].lease] = cost
      /\ \A l \in DOMAIN W : l # E[r].lease => X[l] = W[l]
  BY <1>2
<1>4. /\ \A x \in DOMAIN E \ {r} : E[x].lease # E[r].lease
      /\ \A x \in DOMAIN J : J[x].lease # E[r].lease
  BY <1>2 DEF HoldersOf
<1> HIDE DEF Q, X
<1>5. GoodReads(n, J, Q)
  BY <1>1 DEF Good, GoodReads
<1>6. \A l : HoldersOf(J, Q, l) = HoldersOf(J, E, l)
  BY <1>1 DEF HoldersOf
<1>7. GoodLeases(J, Q, X, D)
  <2>1. \A x \in DOMAIN J : J[x].running =>
          J[x].lease \in DOMAIN X /\ X[J[x].lease] = J[x].cost
    BY <1>3, <1>4 DEF Good, GoodLeases
  <2>2. \A x \in DOMAIN Q : Q[x].lease # NoLease =>
          Q[x].lease \in DOMAIN X /\ X[Q[x].lease] = Q[x].cost
    BY <1>1, <1>3, <1>4 DEF Good, GoodLeases
  <2>3. QED
    BY <1>3, <1>6, <2>1, <2>2 DEF Good, GoodLeases
<1>8. GoodRest(n, K, C, X, D, S)
  BY <1>3 DEF Good, GoodRest
<1>9. QED
  BY <1>5, <1>7, <1>8 DEF Good, Q, X

-----------------------------------------------------------------------------
(* One lemma per group of calls: each keeps the invariant.                 *)

\* The maps of the scheduler fit together when nobody asks for the keys of S
\* again; after the step, Then(S).
NowFor(S) == Good(next, jobs, keys, consumers, external, workers, joined, S)
Then(S) == Good(next', jobs', keys', consumers', external', workers', joined', S)
Now == Good(next, jobs, keys, consumers, external, workers, joined, stale)

(***************************************************************************)
(* What the invariant says of the counters.                                *)
(***************************************************************************)
LEMMA ForFacts ==
  ASSUME NEW S, NowFor(S)
  PROVE  next \in Nat /\ next <= MaxSerial /\ MaxSerial \in Nat /\ Costs \subseteq Nat
BY SerialAssumption, CostsAssumption DEF NowFor, Good, GoodRest

(***************************************************************************)
(* The invariant of the current maps, and what it says of the counters.    *)
(***************************************************************************)
LEMMA NowFacts ==
  ASSUME IInv
  PROVE  /\ Now
         /\ next \in Nat /\ next <= MaxSerial /\ MaxSerial \in Nat /\ reserved \in Int
         /\ Costs \subseteq Nat
BY SerialAssumption, CostsAssumption DEF IInv, Now, Good, GoodRest

(***************************************************************************)
(* Good maps stay good when preempt_background runs on them, whether the   *)
(* call is made or skipped.                                                *)
(***************************************************************************)
LEMMA PreemptStep ==
  ASSUME NEW n \in Nat, NEW J, NEW K, NEW C, NEW E, NEW W, NEW D, NEW S, NEW bytes,
         Good(n, J, K, C, E, W, D, S),
         Preempt(J, E, bytes) \/ (jobs' = J /\ external' = E)
  PROVE  Good(n, jobs', K, C, external', W, D, S)
<1>1. CASE Preempt(J, E, bytes)
  BY <1>1, PreemptKeeps DEF Preempt
<1>2. CASE jobs' = J /\ external' = E
  BY <1>2
<1>3. QED
  BY <1>1, <1>2

(***************************************************************************)
(* request keeps the invariant.                                            *)
(***************************************************************************)
LEMMA RequestGood ==
  ASSUME NEW S, NowFor(S), NEW k \in Keys, k \notin S, NEW cost \in Costs, NEW p \in Priorities,
         Request(k, cost, p)
  PROVE  Then(S)
<1>0. NowFor(S) /\ next \in Nat /\ next < MaxSerial /\ MaxSerial \in Nat /\ cost \in Nat
  BY ForFacts DEF Request
<1>1. /\ UNCHANGED <<reserved, workers, joined, stale>>
      /\ \/ \E id \in Joinable(k) : Join(k, cost, p, id) \/ Conflict(cost, id)
         \/ Joinable(k) = {} /\ (Start(k, cost, p) \/ StartRefused)
  BY DEF Request
<1>2. ASSUME NEW id \in Joinable(k), Join(k, cost, p, id)
      PROVE  Good(next', jobs', keys', consumers', external', workers, joined, S)
  <2> DEFINE J == [jobs EXCEPT ![id].consumers = Insert(jobs[id].consumers, next, p)]
  <2>1. /\ id \in DOMAIN jobs /\ jobs[id].key \in DOMAIN keys /\ keys[jobs[id].key] = id
        /\ ~jobs[id].canceled \/ jobs[id].preempted
    BY <1>0, <1>2 DEF Joinable, NowFor, Good, GoodConsumers
  <2>2. Good(next + 1, J, keys, Insert(consumers, next, id), external, workers, joined, S)
    BY <1>0, <2>1, JoinKeeps DEF NowFor
  <2>3. /\ next' = next + 1 /\ keys' = keys /\ consumers' = Insert(consumers, next, id)
        /\ Preempt(J, external, reserved) \/ (jobs' = J /\ external' = external)
    BY <1>2 DEF Join
  <2> HIDE DEF J
  <2>4. QED
    BY <1>0, <2>2, <2>3, PreemptStep
<1>3. ASSUME NEW id \in Joinable(k), Conflict(cost, id)
      PROVE  Good(next', jobs', keys', consumers', external', workers, joined, S)
  BY <1>0, <1>3, GrowKeeps DEF Conflict, NowFor
<1>4. ASSUME Joinable(k) = {}, Start(k, cost, p)
      PROVE  Good(next', jobs', keys', consumers', external', workers, joined, S)
  <2> DEFINE J == Insert(jobs, next + 1, NewJob(k, cost, next, p))
  <2>1. k \in DOMAIN keys => jobs[keys[k]].canceled /\ ~jobs[keys[k]].preempted
    BY <1>0, <1>4 DEF Joinable, NowFor, Good, GoodConsumers
  <2>2. Good(next + 2, J, Insert(keys, k, next + 1), Insert(consumers, next, next + 1),
             external, workers, joined, S)
    BY <1>0, <1>4, <2>1, StartKeeps DEF NowFor, Start
  <2>3. /\ next' = next + 2 /\ keys' = Insert(keys, k, next + 1)
        /\ consumers' = Insert(consumers, next, next + 1)
        /\ Preempt(J, external, reserved) \/ (jobs' = J /\ external' = external)
    BY <1>4 DEF Start
  <2> HIDE DEF J
  <2>4. QED
    BY <1>0, <2>2, <2>3, PreemptStep
<1>5. ASSUME StartRefused
      PROVE  Good(next', jobs', keys', consumers', external', workers, joined, S)
  BY <1>0, <1>5, GrowKeeps DEF StartRefused, NowFor
<1>6. QED
  BY <1>0, <1>1, <1>2, <1>3, <1>4, <1>5 DEF Then

(* The same, for the keys that are stale.                                  *)
LEMMA RequestStep ==
  ASSUME IInv, NEW k \in Keys, NEW cost \in Costs, NEW p \in Priorities, Request(k, cost, p)
  PROVE  IInv'
<1>1. NowFor(stale) /\ k \notin stale /\ UNCHANGED <<reserved, stale>> /\ reserved \in Int
  BY NowFacts DEF Request, Now, NowFor
<1>2. Then(stale)
  BY <1>1, RequestGood
<1>3. QED
  BY <1>1, <1>2 DEF IInv, Then

(***************************************************************************)
(* cancel keeps the invariant, whatever is left of the job.                *)
(***************************************************************************)
LEMMA CancelGood == ASSUME NEW S, NowFor(S), NEW c \in Ids, Cancel(c) PROVE Then(S)
<1> DEFINE id == consumers[c]
           left == Remove(jobs[id].consumers, c)
           J == [jobs EXCEPT ![id].consumers = left]
<1>0. NowFor(S) /\ next \in Nat /\ c \in DOMAIN consumers
  BY ForFacts DEF Cancel
<1>1. /\ id \in DOMAIN jobs /\ c \in DOMAIN jobs[id].consumers
      /\ jobs[id].running <=> jobs[id].lease # NoLease
  BY <1>0 DEF NowFor, Good, GoodConsumers, GoodLeases
<1>2. /\ UNCHANGED <<next, reserved, external, workers, joined, stale>>
      /\ consumers' = Remove(consumers, c)
      /\ \/ jobs' = J /\ keys' = keys
         \/ DOMAIN left = {} /\ jobs' = [J EXCEPT ![id].canceled = TRUE] /\ keys' = keys
         \/ /\ DOMAIN left = {} /\ ~jobs[id].running
            /\ jobs' = Remove(jobs, id) /\ keys' = RemovedKeys(id)
  BY DEF Cancel
<1>3. ASSUME NEW P, P = J \/ (DOMAIN left = {} /\ P = [J EXCEPT ![id].canceled = TRUE])
      PROVE  Good(next, P, keys, Remove(consumers, c), external, workers, joined, S)
  <2>1. DOMAIN P = DOMAIN jobs
    BY <1>3
  <2>2. \A x \in DOMAIN jobs : jobs[x] \in JobType(next, jobs[x].consumers)
    BY <1>0 DEF NowFor, Good, GoodJobs
  <2>3. \A x \in DOMAIN jobs : x # id => P[x] = jobs[x]
    BY <1>1, <1>3
  <2>4. \/ P[id] = [jobs[id] EXCEPT !.consumers = left]
        \/ /\ DOMAIN left = {}
           /\ P[id] = [[jobs[id] EXCEPT !.consumers = left] EXCEPT !.canceled = TRUE]
    BY <1>1, <1>3
  <2> HIDE DEF J, id, left
  <2>5. /\ P[id] \in JobType(next, P[id].consumers)
        /\ P[id].key = jobs[id].key /\ P[id].cost = jobs[id].cost
        /\ P[id].running = jobs[id].running /\ P[id].lease = jobs[id].lease
        /\ P[id].preempted = jobs[id].preempted
        /\ P[id].canceled => jobs[id].canceled \/ DOMAIN P[id].consumers = {}
        /\ P[id].consumers = left
    BY <1>1, <2>2, <2>4 DEF JobType
  <2>6. \A x \in DOMAIN jobs :
          /\ P[x] \in JobType(next, P[x].consumers)
          /\ P[x].key = jobs[x].key /\ P[x].cost = jobs[x].cost
          /\ P[x].running = jobs[x].running /\ P[x].lease = jobs[x].lease
          /\ P[x].preempted = jobs[x].preempted
          /\ P[x].canceled => jobs[x].canceled \/ DOMAIN P[x].consumers = {}
          /\ P[x].consumers = IF x = consumers[c] THEN Remove(jobs[x].consumers, c)
                              ELSE jobs[x].consumers
    BY <2>2, <2>3, <2>5 DEF id, left
  <2>7. QED
    BY <1>0, <2>1, <2>6, DropKeeps DEF NowFor
<1>4. CASE DOMAIN left = {} /\ ~jobs[id].running
           /\ jobs' = Remove(jobs, id) /\ keys' = RemovedKeys(id)
  <2>1. DOMAIN jobs[id].consumers = {c}
    BY <1>1, <1>4 DEF Remove
  <2>2. consumers' = [x \in DOMAIN consumers \ DOMAIN jobs[id].consumers |-> consumers[x]]
    BY <1>2, <2>1 DEF Remove
  <2>3. Joins(workers, joined, workers, joined, jobs[id].lease)
    <3>1. jobs[id].lease = NoLease
      BY <1>1, <1>4
    <3>2. NoLease \notin DOMAIN workers
      BY <1>0 DEF NowFor, Good, GoodRest, NoLease
    <3>3. QED
      BY <3>1, <3>2 DEF Joins
  <2> HIDE DEF J, id, left
  <2>4. Good(next, Remove(jobs, id), RemovedKeys(id), consumers', external, workers,
             joined, S)
    BY <1>0, <1>1, <2>2, <2>3, RemoveKeeps DEF NowFor, RemovedKeys
  <2>5. QED
    BY <1>0, <1>2, <1>4, <2>4 DEF Then
<1> HIDE DEF J, id, left
<1>5. QED
  <2>1. CASE jobs' = J /\ keys' = keys
    BY <1>0, <1>2, <1>3, <2>1 DEF Then
  <2>2. CASE DOMAIN left = {} /\ jobs' = [J EXCEPT ![id].canceled = TRUE] /\ keys' = keys
    BY <1>0, <1>2, <1>3, <2>2 DEF Then
  <2>3. QED
    BY <1>2, <1>4, <2>1, <2>2

(* The same, for the keys that are stale.                                  *)
LEMMA CancelStep == ASSUME IInv, NEW c \in Ids, Cancel(c) PROVE IInv'
<1>1. NowFor(stale) /\ UNCHANGED <<reserved, stale>> /\ reserved \in Int
  BY NowFacts DEF Cancel, Now, NowFor
<1>2. Then(stale)
  BY <1>1, CancelGood
<1>3. QED
  BY <1>1, <1>2 DEF IInv, Then

(***************************************************************************)
(* next_ready keeps the invariant.                                         *)
(***************************************************************************)
LEMMA NextReadyGood == ASSUME NEW S, NowFor(S), NextReady PROVE Then(S)
<1> DEFINE J == PreemptedJobs(jobs, Victims(jobs, external, reserved))
           E == PreemptedReads(external, Victims(jobs, external, reserved))
<1>0. NowFor(S) /\ next \in Nat /\ MaxSerial \in Nat
  BY ForFacts
<1>1. Good(next, J, keys, consumers, E, workers, joined, S)
  BY <1>0, PreemptKeeps DEF NowFor
<1>2. /\ UNCHANGED <<keys, consumers, joined>> /\ external' = E
      /\ \/ jobs' = J /\ UNCHANGED <<next, workers>>
         \/ /\ next < MaxSerial /\ next' = next + 1
            /\ \E id \in Startable(J, E) :
                 /\ jobs' = [J EXCEPT ![id].running = TRUE, ![id].lease = next]
                 /\ workers' = Insert(workers, next, J[id].cost)
  BY DEF NextReady
<1> HIDE DEF J, E
<1>3. CASE jobs' = J /\ UNCHANGED <<next, workers>>
  BY <1>0, <1>1, <1>2, <1>3 DEF Then
<1>4. ASSUME next < MaxSerial, next' = next + 1, NEW id \in Startable(J, E),
             jobs' = [J EXCEPT ![id].running = TRUE, ![id].lease = next],
             workers' = Insert(workers, next, J[id].cost)
      PROVE  Then(S)
  <2>1. id \in DOMAIN J /\ id \in Queued(J, E)
    BY <1>4 DEF Startable, Front, Oldest
  <2>2. ~J[id].running /\ J[id].cost \in Nat
    BY <1>1, <2>1 DEF Queued, Good, GoodReads, GoodJobs, JobType
  <2>3. Good(next', jobs', keys, consumers, E, workers', joined, S)
    BY <1>0, <1>1, <1>4, <2>1, <2>2, BeginKeeps
  <2>4. QED
    BY <1>2, <2>3 DEF Then
<1>5. QED
  BY <1>2, <1>3, <1>4

(* The same, for the keys that are stale.                                  *)
LEMMA NextReadyStep == ASSUME IInv, NextReady PROVE IInv'
<1> DEFINE J == PreemptedJobs(jobs, Victims(jobs, external, reserved))
<1>1. Now /\ NowFor(stale) /\ stale' = stale /\ reserved \in Int /\ next \in Nat
  BY NowFacts DEF NextReady, Now, NowFor
<1>2. Then(stale)
  BY <1>1, NextReadyGood
<1>3. \A id \in DOMAIN J : J[id].cost \in Nat
  BY <1>1 DEF PreemptedJobs, Now, Good, GoodJobs, JobType
<1>4. reserved' = reserved \/ \E id \in DOMAIN J : reserved' = reserved + J[id].cost
  BY DEF NextReady, Startable
<1> HIDE DEF J
<1>5. reserved' \in Int
  BY <1>1, <1>3, <1>4
<1>6. QED
  BY <1>1, <1>2, <1>5 DEF IInv, Then

(***************************************************************************)
(* finished, called when the process was joined, keeps the invariant.      *)
(***************************************************************************)
LEMMA FinishedGood == ASSUME NEW S, NowFor(S), NEW lease, Finished(lease) PROVE Then(S)
<1>0. NowFor(S) /\ next \in Nat /\ lease \in DOMAIN workers
  BY ForFacts DEF Finished
<1>1. PICK id \in LeaseOwner(lease) : Reap(id)
  BY DEF Finished, FinishedCall
<1>2. id \in DOMAIN jobs /\ jobs[id].lease = lease /\ lease # NoLease
  BY <1>0, <1>1 DEF LeaseOwner, NowFor, Good, GoodRest, NoLease
<1>3. workers' = Remove(workers, lease) /\ joined' = joined \cup {lease}
      /\ UNCHANGED <<next, external, stale>>
  BY DEF Finished
<1>4. Joins(workers, joined, workers', joined', jobs[id].lease)
  BY <1>2, <1>3 DEF Joins, Remove
<1>5. CASE Requeues(id)
  <2>1. /\ jobs' = [jobs EXCEPT ![id].lease = NoLease, ![id].running = FALSE,
                                ![id].preempted = FALSE, ![id].canceled = FALSE]
        /\ UNCHANGED <<keys, consumers>>
    BY <1>1, <1>5 DEF Reap
  <2>2. Good(next, jobs', keys, consumers, external, workers', joined', S)
    BY <1>0, <1>2, <1>4, <2>1, RequeueKeeps DEF NowFor
  <2>3. QED
    BY <1>3, <2>1, <2>2 DEF Then
<1>6. CASE ~Requeues(id)
  <2>1. /\ jobs' = Remove(jobs, id)
        /\ keys' = RemovedKeys(id)
        /\ consumers' = [c \in DOMAIN consumers \ DOMAIN jobs[id].consumers |-> consumers[c]]
    BY <1>1, <1>6 DEF Reap
  <2>2. Good(next, jobs', keys', consumers', external, workers', joined', S)
    BY <1>0, <1>2, <1>4, <2>1, RemoveKeeps DEF NowFor, RemovedKeys
  <2>3. QED
    BY <1>3, <2>2 DEF Then
<1>7. QED
  BY <1>5, <1>6

(* The same, for the keys that are stale.                                  *)
LEMMA FinishedStep == ASSUME IInv, NEW lease \in Ids, Finished(lease) PROVE IInv'
<1>1. Now /\ NowFor(stale) /\ stale' = stale /\ reserved \in Int
  BY NowFacts DEF Finished, Now, NowFor
<1>2. Then(stale)
  BY <1>1, FinishedGood
<1>3. PICK id \in LeaseOwner(lease) : Reap(id)
  BY DEF Finished, FinishedCall
<1>4. reserved' = reserved - jobs[id].cost /\ jobs[id].cost \in Nat
  BY <1>1, <1>3 DEF Reap, LeaseOwner, Now, Good, GoodJobs, JobType
<1>5. QED
  BY <1>1, <1>2, <1>4 DEF IInv, Then

(***************************************************************************)
(* A report of a process that was joined before changes nothing: no job    *)
(* holds its lease any more.                                               *)
(***************************************************************************)
LEMMA FinishedLateStep ==
  ASSUME IInv, NEW lease \in Ids, FinishedLate(lease) PROVE UNCHANGED vars
<1>0. Now /\ lease \in joined
  BY NowFacts DEF FinishedLate
<1>1. lease # NoLease /\ lease \notin DOMAIN workers
  BY <1>0 DEF Now, Good, GoodRest, GoodLeases, Ids, NoLease
<1>2. LeaseOwner(lease) = {}
  BY <1>0, <1>1 DEF LeaseOwner, Now, Good, GoodLeases
<1>3. QED
  BY <1>2 DEF FinishedLate, FinishedCall, vars

(***************************************************************************)
(* The owner's steps, a key going stale and a lease being stopped, keep    *)
(* the invariant.                                                          *)
(***************************************************************************)
LEMMA OwnerStep ==
  ASSUME IInv, (\E k \in Keys : Outdate(k)) \/ (\E id \in DOMAIN jobs : StopLease(id))
  PROVE  IInv'
<1>0. Now /\ next \in Nat /\ reserved \in Int
  BY NowFacts
<1>1. ASSUME NEW k \in Keys, Outdate(k) PROVE IInv'
  <2>1. GoodFlags(jobs, stale') /\ GoodRest(next, keys, consumers, workers, joined, stale')
    BY <1>0, <1>1 DEF Outdate, Now, Good, GoodFlags, GoodRest
  <2>2. QED
    BY <1>0, <1>1, <2>1 DEF Outdate, Now, Good, IInv
<1>2. ASSUME NEW id \in DOMAIN jobs, StopLease(id) PROVE IInv'
  <2>1. Good(next, jobs', keys, consumers, external, workers, joined, stale)
    BY <1>0, <1>2, StopKeeps DEF StopLease, Now
  <2>2. QED
    BY <1>0, <1>2, <2>1 DEF StopLease, IInv
<1>3. QED
  BY <1>1, <1>2

(***************************************************************************)
(* queue_native_read keeps the invariant.                                  *)
(***************************************************************************)
LEMMA QueueStep == ASSUME IInv, NEW p \in Priorities, QueueNativeRead(p) PROVE IInv'
<1> DEFINE read == [priority |-> p, cost |-> 0, lease |-> NoLease, preempted |-> FALSE]
<1>0. Now /\ next \in Nat /\ next < MaxSerial /\ reserved \in Int
  BY NowFacts DEF QueueNativeRead
<1>1. read \in ReadType(next) /\ read.lease = NoLease
  BY <1>0 DEF ReadType, NoLease, Now, Good, GoodRest
<1>2. /\ next' = next + 1 /\ Preempt(jobs, Insert(external, next, read), reserved)
      /\ UNCHANGED <<keys, consumers, reserved, workers, joined, stale>>
  BY DEF QueueNativeRead
<1> HIDE DEF read
<1>3. Good(next + 1, jobs, keys, consumers, Insert(external, next, read), workers, joined, stale)
  BY <1>0, <1>1, QueueKeeps DEF Now
<1>4. Good(next + 1, jobs', keys, consumers, external', workers, joined, stale)
  BY <1>0, <1>2, <1>3, PreemptStep
<1>5. QED
  BY <1>0, <1>2, <1>4 DEF IInv

(***************************************************************************)
(* admit_native_read keeps the invariant, admitted or not.                 *)
(***************************************************************************)
LEMMA AdmitStep ==
  ASSUME IInv, NEW r \in DOMAIN external, NEW cost \in Costs, AdmitNativeRead(r, cost)
  PROVE  IInv'
<1> DEFINE known == [external EXCEPT ![r].cost = cost]
           J == PreemptedJobs(jobs, Victims(jobs, known, reserved))
           E == PreemptedReads(known, Victims(jobs, known, reserved))
<1>0. /\ Now /\ next \in Nat /\ MaxSerial \in Nat /\ reserved \in Int /\ cost \in Nat
      /\ external[r].lease = NoLease
  BY NowFacts DEF AdmitNativeRead
<1>1. /\ DOMAIN known = DOMAIN external
      /\ \A x \in DOMAIN known : known[x] \in ReadType(next) /\ (x # r => known[x] = external[x])
      /\ known[r].lease = NoLease /\ known[r].cost = cost
  BY <1>0 DEF Now, Good, GoodReads, ReadType
<1>2. Joins(workers, joined, workers, joined, external[r].lease)
  <2>1. NoLease \notin DOMAIN workers
    BY <1>0 DEF Now, Good, GoodRest, NoLease
  <2>2. QED
    BY <1>0, <2>1 DEF Joins
<1>3. /\ UNCHANGED <<keys, consumers, joined, stale>> /\ jobs' = J
      /\ \/ external' = E /\ UNCHANGED <<next, reserved, workers>>
         \/ /\ next < MaxSerial /\ next' = next + 1
            /\ external' = [E EXCEPT ![r].lease = next]
            /\ reserved' = reserved + cost
            /\ workers' = Insert(workers, next, cost)
  BY DEF AdmitNativeRead
<1> HIDE DEF known
<1>4. Good(next, jobs, keys, consumers, known, workers, joined, stale)
  BY <1>0, <1>1, <1>2, ReadEndKeeps DEF Now
<1>5. Good(next, J, keys, consumers, E, workers, joined, stale)
  BY <1>0, <1>4, PreemptKeeps
<1>6. r \in DOMAIN E /\ E[r].lease = NoLease /\ E[r].cost = cost
  <2>1. GoodJobs(next, jobs) /\ GoodReads(next, jobs, known)
    BY <1>4 DEF Good
  <2>2. SameUpToFlags(next, jobs, known, J, E)
    BY <1>0, <2>1, PreemptFacts
  <2> HIDE DEF J, E
  <2>3. QED
    BY <1>1, <2>2 DEF SameUpToFlags
<1> HIDE DEF J, E
<1>7. CASE external' = E /\ UNCHANGED <<next, reserved, workers>>
  BY <1>0, <1>3, <1>5, <1>7 DEF IInv
<1>8. CASE /\ next < MaxSerial /\ next' = next + 1
           /\ external' = [E EXCEPT ![r].lease = next]
           /\ reserved' = reserved + cost
           /\ workers' = Insert(workers, next, cost)
  <2>1. Good(next + 1, J, keys, consumers, [E EXCEPT ![r].lease = next],
             Insert(workers, next, E[r].cost), joined, stale)
    BY <1>0, <1>5, <1>6, <1>8, AdmitKeeps
  <2>2. reserved' \in Int
    BY <1>0, <1>8
  <2>3. QED
    BY <1>3, <1>6, <1>8, <2>1, <2>2 DEF IInv
<1>9. QED
  BY <1>3, <1>7, <1>8

(***************************************************************************)
(* The other calls of a native read keep the invariant.                    *)
(***************************************************************************)
LEMMA ReadStep ==
  ASSUME IInv, NEW r \in DOMAIN external,
         \/ \E cost \in Costs : UpgradeNativeRead(r, cost) \/ RequeueNativeRead(r, cost)
         \/ CancelQueuedNativeRead(r)
         \/ ReleaseNativeRead(r)
  PROVE  IInv'
<1>0. /\ Now /\ next \in Nat /\ reserved \in Int /\ Costs \subseteq Nat
      /\ external[r].cost \in Nat
      /\ \A x \in DOMAIN external : external[x] \in ReadType(next)
  BY NowFacts DEF Now, Good, GoodReads, ReadType
<1>1. ASSUME NEW cost \in Costs, UpgradeNativeRead(r, cost) PROVE IInv'
  <2>1. Good(next, jobs, keys, consumers, external', workers', joined, stale)
    BY <1>0, <1>1, UpgradeKeeps DEF UpgradeNativeRead, Now
  <2>2. reserved' \in Int
    BY <1>0, <1>1 DEF UpgradeNativeRead
  <2>3. QED
    BY <1>1, <2>1, <2>2 DEF UpgradeNativeRead, IInv
<1>2. ASSUME NEW cost \in Costs, RequeueNativeRead(r, cost) PROVE IInv'
  <2> DEFINE old == external[r]
             new == [old EXCEPT !.lease = NoLease, !.cost = cost, !.preempted = FALSE]
             Q == [external EXCEPT ![r].lease = NoLease, ![r].cost = cost,
                                   ![r].preempted = FALSE]
  <2>1. /\ Preempt(jobs, Q, reserved') /\ reserved' = reserved - external[r].cost
        /\ workers' = Remove(workers, external[r].lease)
        /\ joined' = joined \cup {external[r].lease} /\ external[r].lease # NoLease
        /\ UNCHANGED <<next, keys, consumers, stale>>
    BY <1>2 DEF RequeueNativeRead
  <2>2. Joins(workers, joined, workers', joined', external[r].lease)
    BY <2>1 DEF Joins, Remove
  <2>3. DOMAIN Q = DOMAIN external /\ Q[r] = new /\ \A x \in DOMAIN Q : x # r => Q[x] = external[x]
    BY Zenon
  <2>4. 0 \in 0 .. next - 1 /\ cost \in Nat
    BY <1>0 DEF Now, Good, GoodRest
  <2>5. old \in ReadType(next)
    BY <1>0
  <2> HIDE DEF old, Q
  <2>6. new \in ReadType(next) /\ new.lease = NoLease
    BY <2>4, <2>5 DEF ReadType, NoLease
  <2> HIDE DEF new
  <2>7. Good(next, jobs, keys, consumers, Q, workers', joined', stale)
    BY <1>0, <2>2, <2>3, <2>6, ReadEndKeeps DEF Now
  <2>8. Good(next, jobs', keys, consumers, external', workers', joined', stale)
    BY <1>0, <2>1, <2>7, PreemptStep
  <2>9. reserved' \in Int
    BY <1>0, <2>1
  <2>10. QED
    BY <2>1, <2>8, <2>9 DEF IInv
<1>3. CASE CancelQueuedNativeRead(r)
  <2>1. external[r].lease = NoLease /\ external' = Remove(external, r)
        /\ UNCHANGED <<next, jobs, keys, consumers, reserved, workers, joined, stale>>
    BY <1>3 DEF CancelQueuedNativeRead
  <2>2. NoLease \notin DOMAIN workers
    BY <1>0 DEF Now, Good, GoodRest, NoLease
  <2>3. Joins(workers, joined, workers, joined, external[r].lease)
    BY <2>1, <2>2 DEF Joins
  <2>4. DOMAIN external' = DOMAIN external \ {r}
        /\ \A x \in DOMAIN external' : external'[x] = external[x]
    BY <2>1 DEF Remove
  <2>5. Good(next, jobs, keys, consumers, external', workers, joined, stale)
    BY <1>0, <2>3, <2>4, ReadEndKeeps DEF Now
  <2>6. QED
    BY <1>0, <2>1, <2>5 DEF IInv
<1>4. CASE ReleaseNativeRead(r)
  <2>1. /\ external[r].lease # NoLease /\ external' = Remove(external, r)
        /\ reserved' = reserved - external[r].cost
        /\ workers' = Remove(workers, external[r].lease)
        /\ joined' = joined \cup {external[r].lease}
        /\ UNCHANGED <<next, jobs, keys, consumers, stale>>
    BY <1>4 DEF ReleaseNativeRead
  <2>2. Joins(workers, joined, workers', joined', external[r].lease)
    BY <2>1 DEF Joins, Remove
  <2>3. DOMAIN external' = DOMAIN external \ {r}
        /\ \A x \in DOMAIN external' : external'[x] = external[x]
    BY <2>1 DEF Remove
  <2>4. Good(next, jobs, keys, consumers, external', workers', joined', stale)
    BY <1>0, <2>2, <2>3, ReadEndKeeps DEF Now
  <2>5. reserved' \in Int
    BY <1>0, <2>1
  <2>6. QED
    BY <2>1, <2>4, <2>5 DEF IInv
<1>5. QED
  BY <1>1, <1>2, <1>3, <1>4

-----------------------------------------------------------------------------
(***************************************************************************)
(* A new scheduler satisfies the invariant.                                *)
(***************************************************************************)
LEMMA Initially == Init => IInv
BY SerialAssumption
   DEF Init, IInv, Good, GoodJobs, GoodReads, GoodConsumers, GoodLeases, GoodFlags,
       GoodRest, Empty

(***************************************************************************)
(* Every call of the owner keeps the invariant.                            *)
(***************************************************************************)
LEMMA Inductive == IInv /\ [Next]_vars => IInv'
<1> SUFFICES ASSUME IInv, [Next]_vars PROVE IInv'
  OBVIOUS
<1>0. CASE UNCHANGED vars
  BY <1>0 DEF vars, IInv
<1>1. ASSUME NEW k \in Keys, NEW cost \in Costs, NEW p \in Priorities, Request(k, cost, p)
      PROVE  IInv'
  BY <1>1, RequestStep
<1>2. ASSUME NEW c \in Ids, Cancel(c) PROVE IInv'
  BY <1>2, CancelStep
<1>3. CASE NextReady
  BY <1>3, NextReadyStep
<1>4. ASSUME NEW lease \in Ids, Finished(lease) PROVE IInv'
  BY <1>4, FinishedStep
<1>5. ASSUME NEW lease \in Ids, FinishedLate(lease) PROVE IInv'
  BY <1>0, <1>5, FinishedLateStep
<1>6. CASE (\E k \in Keys : Outdate(k)) \/ (\E id \in DOMAIN jobs : StopLease(id))
  BY <1>6, OwnerStep
<1>7. ASSUME NEW p \in Priorities, QueueNativeRead(p) PROVE IInv'
  BY <1>7, QueueStep
<1>8. ASSUME NEW r \in DOMAIN external, NEW cost \in Costs, AdmitNativeRead(r, cost)
      PROVE  IInv'
  BY <1>8, AdmitStep
<1>9. ASSUME NEW r \in DOMAIN external,
             \/ \E cost \in Costs : UpgradeNativeRead(r, cost) \/ RequeueNativeRead(r, cost)
             \/ CancelQueuedNativeRead(r)
             \/ ReleaseNativeRead(r)
      PROVE  IInv'
  BY <1>9, ReadStep
<1>10. QED
  BY <1>0, <1>1, <1>2, <1>3, <1>4, <1>5, <1>6, <1>7, <1>8, <1>9 DEF Next

(***************************************************************************)
(* The invariant holds in every reachable state.                           *)
(***************************************************************************)
LEMMA Invariance == Spec => []IInv
BY Initially, Inductive, PTL DEF Spec

(***************************************************************************)
(* The scheduler's maps keep their types and identities stay in range, up  *)
(* to the exhaustion of the identities.                                    *)
(***************************************************************************)
THEOREM SchedulerTypeCorrect == Spec => []TypeOK
<1>1. IInv => TypeOK
  BY IInvMeans
<1>2. QED
  BY <1>1, Invariance, PTL

(***************************************************************************)
(* No consumer is left behind on a job that lost its key, however requests *)
(* join, replace, cancel and outlive each other's jobs.                    *)
(***************************************************************************)
THEOREM ConsumersAreTracked == Spec => []ConsumersTracked
<1>1. IInv => ConsumersTracked
  BY IInvMeans
<1>2. QED
  BY <1>1, Invariance, PTL

(***************************************************************************)
(* Every process that was not joined keeps exactly one owner and that      *)
(* owner's reservation, for any number of workers.                         *)
(***************************************************************************)
THEOREM LeasesAreOwned == Spec => []LeasesOwned
<1>1. IInv => LeasesOwned
  BY IInvMeans
<1>2. QED
  BY <1>1, Invariance, PTL

(***************************************************************************)
(* A job that a request may replace has nobody waiting who could come back *)
(* for its key.                                                            *)
(***************************************************************************)
THEOREM StoppedJobsUnwanted == Spec => []StoppedUnwanted
<1>1. IInv => StoppedUnwanted
  BY IInvMeans
<1>2. QED
  BY <1>1, Invariance, PTL

-----------------------------------------------------------------------------
(* What a step never does.                                                 *)

(***************************************************************************)
(* A consumer of a preempted job leaves only by its own cancel: reaping    *)
(* the process that was stopped for urgent work never drops it.            *)
(***************************************************************************)
THEOREM PreemptionIsInvisible == Spec => PreemptionInvisible
<1> DEFINE Drops(c) ==
      jobs[consumers[c]].preempted =>
        workers' = workers /\ DOMAIN consumers' = DOMAIN consumers \ {c}
<1>1. ASSUME IInv, Next, NEW c \in DOMAIN consumers \ DOMAIN consumers'
      PROVE  Drops(c)
  <2>0. Now
    BY <1>1, NowFacts
  <2>1. ASSUME NEW x \in Ids, Cancel(x) PROVE Drops(c)
    <3>1. consumers' = Remove(consumers, x) /\ workers' = workers /\ x \in DOMAIN consumers
      BY <2>1 DEF Cancel
    <3>2. DOMAIN consumers' = DOMAIN consumers \ {x} /\ c = x
      BY <1>1, <3>1 DEF Remove
    <3>3. QED
      BY <3>1, <3>2
  <2>2. ASSUME NEW lease \in Ids, Finished(lease) PROVE Drops(c)
    <3>1. PICK id \in LeaseOwner(lease) : Reap(id)
      BY <2>2 DEF Finished, FinishedCall
    <3>2. ~Requeues(id) /\ c \in DOMAIN jobs[id].consumers
      BY <1>1, <3>1 DEF Reap
    <3>3. consumers[c] = id
      BY <2>0, <3>1, <3>2 DEF LeaseOwner, Now, Good, GoodConsumers
    <3>4. QED
      BY <3>2, <3>3 DEF Requeues
  <2>3. ASSUME NEW lease \in Ids, FinishedLate(lease) PROVE Drops(c)
    BY <1>1, <2>3, FinishedLateStep DEF vars
  <2>4. ASSUME NEW k \in Keys, NEW cost \in Costs, NEW p \in Priorities, Request(k, cost, p)
        PROVE  Drops(c)
    BY <1>1, <2>4 DEF Request, Join, Conflict, Start, StartRefused, Insert
  <2>5. CASE \/ NextReady
             \/ \E k \in Keys : Outdate(k)
             \/ \E id \in DOMAIN jobs : StopLease(id)
             \/ \E p \in Priorities : QueueNativeRead(p)
    BY <1>1, <2>5 DEF NextReady, Outdate, StopLease, QueueNativeRead
  <2>6. ASSUME NEW r \in DOMAIN external, NEW cost \in Costs,
               \/ AdmitNativeRead(r, cost)
               \/ UpgradeNativeRead(r, cost)
               \/ RequeueNativeRead(r, cost)
        PROVE  Drops(c)
    BY <1>1, <2>6 DEF AdmitNativeRead, UpgradeNativeRead, RequeueNativeRead
  <2>7. ASSUME NEW r \in DOMAIN external, CancelQueuedNativeRead(r) \/ ReleaseNativeRead(r)
        PROVE  Drops(c)
    BY <1>1, <2>7 DEF CancelQueuedNativeRead, ReleaseNativeRead
  <2> HIDE DEF Drops
  <2>8. QED
    BY <1>1, <2>1, <2>2, <2>3, <2>4, <2>5, <2>6, <2>7 DEF Next
<1>2. IInv /\ [Next]_vars => [\A c \in DOMAIN consumers \ DOMAIN consumers' : Drops(c)]_vars
  <2> HIDE DEF Drops
  <2>1. QED
    BY <1>1
<1>3. QED
  BY <1>2, Invariance, PTL DEF Spec, PreemptionInvisible

(***************************************************************************)
(* What preempt_background flags was started before.                       *)
(***************************************************************************)
LEMMA VictimsBusy ==
  ASSUME NEW J, NEW E, NEW bytes
  PROVE  Victims(J, E, bytes) \subseteq Running(J) \cup Leased(E)
<1>1. BackgroundReads(E) \subseteq Leased(E)
  BY DEF BackgroundReads
<1>2. BackgroundWork(J, E) \subseteq Running(J) \cup Leased(E)
  BY <1>1 DEF BackgroundWork
<1>3. \A T : Oldest(T) \subseteq T
  BY DEF Oldest
<1>4. \/ Victims(J, E, bytes) = Oldest(BackgroundReads(E))
      \/ Victims(J, E, bytes) = Oldest(BackgroundWork(J, E))
      \/ Victims(J, E, bytes) = {}
  BY DEF Victims
<1>5. QED
  BY <1>1, <1>2, <1>3, <1>4

(***************************************************************************)
(* preempt_background changes nothing that is queued, nor any priority, so *)
(* the front is the same before and after it.                              *)
(***************************************************************************)
LEMMA PreemptSameFront ==
  ASSUME NEW n \in Nat, NEW J, NEW E, NEW bytes, GoodJobs(n, J), GoodReads(n, J, E),
         NEW P, P = PreemptedJobs(J, Victims(J, E, bytes)),
         NEW Q, Q = PreemptedReads(E, Victims(J, E, bytes))
  PROVE  /\ Front(P, Q) = Front(J, E)
         /\ Running(P) = Running(J) /\ Leased(Q) = Leased(E)
<1> DEFINE V == Victims(J, E, bytes)
<1>1. SameUpToFlags(n, J, E, P, Q)
  BY PreemptFacts
<1>2. /\ \A id \in DOMAIN J : id \in V => J[id].running
      /\ \A id \in DOMAIN J : id \notin V => P[id] = J[id]
  BY VictimsBusy DEF Running, Leased, GoodReads, PreemptedJobs
<1>3. \A r \in DOMAIN E : Q[r].priority = E[r].priority
  BY DEF PreemptedReads, GoodReads, ReadType
<1>4. Running(P) = Running(J) /\ Leased(Q) = Leased(E)
  BY <1>1 DEF Running, Leased, SameUpToFlags
<1>5. Queued(P, Q) = Queued(J, E)
  <2>1. \A id \in DOMAIN J : (~P[id].running /\ ~P[id].canceled) <=>
                             (~J[id].running /\ ~J[id].canceled)
    BY <1>1, <1>2 DEF SameUpToFlags
  <2>2. DOMAIN P = DOMAIN J /\ DOMAIN Q = DOMAIN E
    BY <1>1 DEF SameUpToFlags
  <2>3. QED
    BY <1>4, <2>1, <2>2 DEF Queued
<1>6. \A id \in Queued(J, E) : PriorityOf(P, Q, id) = PriorityOf(J, E, id)
  <2>1. \A id \in DOMAIN J : JobPriority(P[id]) = JobPriority(J[id])
    BY <1>1 DEF JobPriority, SameUpToFlags
  <2>2. DOMAIN Q = DOMAIN E /\ \A id \in Queued(J, E) : id \in DOMAIN J \/ id \in DOMAIN E
    BY <1>1 DEF SameUpToFlags, Queued
  <2>3. QED
    BY <1>3, <2>1, <2>2 DEF PriorityOf
<1>7. Front(P, Q) = Front(J, E)
  <2>1. {id \in Queued(P, Q) : PriorityOf(P, Q, id) = Foreground}
          = {id \in Queued(J, E) : PriorityOf(J, E, id) = Foreground}
    BY <1>5, <1>6
  <2>2. QED
    BY <1>5, <2>1 DEF Front
<1>8. QED
  BY <1>4, <1>7

Before(J, E, id, other) ==
  \/ PriorityOf(J, E, id) > PriorityOf(J, E, other)
  \/ PriorityOf(J, E, id) = PriorityOf(J, E, other) /\ id < other

(***************************************************************************)
(* front() goes before everything else that is queued.                     *)
(***************************************************************************)
LEMMA FrontFirst ==
  ASSUME NEW n \in Nat, NEW J, NEW E, GoodJobs(n, J), GoodReads(n, J, E),
         NEW id \in Front(J, E), NEW other \in Queued(J, E) \ {id}
  PROVE  Before(J, E, id, other)
<1> DEFINE urgent == {x \in Queued(J, E) : PriorityOf(J, E, x) = Foreground}
<1>1. id \in Queued(J, E)
  BY DEF Front, Oldest
<1>2. \A x \in Queued(J, E) : x \in Int /\ PriorityOf(J, E, x) \in {0, 1}
  BY DEF Queued, GoodJobs, GoodReads, ReadType, PriorityOf, JobPriority, Priorities,
         Background, Foreground
<1>3. CASE urgent = {}
  <2>1. \A x \in Queued(J, E) : PriorityOf(J, E, x) = 0
    BY <1>2, <1>3 DEF Foreground
  <2>2. id <= other
    BY <1>3 DEF Front, Oldest
  <2>3. QED
    BY <1>1, <1>2, <2>1, <2>2 DEF Before
<1>4. CASE urgent # {}
  <2>1. id \in urgent /\ \A x \in urgent : id <= x
    BY <1>4 DEF Front, Oldest
  <2>2. CASE other \in urgent
    BY <1>1, <1>2, <2>1, <2>2 DEF Before
  <2>3. CASE other \notin urgent
    BY <1>1, <1>2, <2>1, <2>3 DEF Before, Foreground
  <2>4. QED
    BY <2>2, <2>3
<1>5. QED
  BY <1>3, <1>4

\* Work that may start now, and a step that starts none.
InOrder(id) ==
  \A other \in Queued(jobs, external) \ {id} : Before(jobs, external, id, other)
Idle == \A id \in DOMAIN jobs \cup DOMAIN external : ~Started(id)

(***************************************************************************)
(* preempt_background starts nothing, and stops nothing by itself: what    *)
(* ran before it runs after it.                                            *)
(***************************************************************************)
LEMMA PreemptIdle ==
  ASSUME NEW n \in Nat, NEW J, NEW E, GoodJobs(n, J), GoodReads(n, J, E), NEW bytes,
         Preempt(J, E, bytes) \/ (jobs' = J /\ external' = E)
  PROVE  Running(jobs') = Running(J) /\ Leased(external') = Leased(E)
<1>1. CASE Preempt(J, E, bytes)
  BY <1>1, PreemptSameFront DEF Preempt
<1>2. CASE jobs' = J /\ external' = E
  BY <1>2
<1>3. QED
  BY <1>1, <1>2

(***************************************************************************)
(* request starts nothing.                                                 *)
(***************************************************************************)
LEMMA RequestIdle ==
  ASSUME IInv, NEW k \in Keys, NEW cost \in Costs, NEW p \in Priorities, Request(k, cost, p)
  PROVE  Idle
<1>0. /\ Now /\ next \in Nat /\ next < MaxSerial /\ MaxSerial \in Nat /\ cost \in Nat
      /\ k \notin stale
  BY NowFacts DEF Request
<1>1. ASSUME NEW id \in Joinable(k), Join(k, cost, p, id) PROVE Idle
  <2> DEFINE J == [jobs EXCEPT ![id].consumers = Insert(jobs[id].consumers, next, p)]
  <2>1. /\ id \in DOMAIN jobs /\ jobs[id].key \in DOMAIN keys /\ keys[jobs[id].key] = id
        /\ ~jobs[id].canceled \/ jobs[id].preempted
    BY <1>0, <1>1 DEF Joinable, Now, Good, GoodConsumers
  <2>2. Good(next + 1, J, keys, Insert(consumers, next, id), external, workers, joined, stale)
    BY <1>0, <2>1, JoinKeeps DEF Now
  <2>3. Preempt(J, external, reserved) \/ (jobs' = J /\ external' = external)
    BY <1>1 DEF Join
  <2>4. Running(J) = Running(jobs)
    BY <1>0, <2>1 DEF Running, Now, Good, GoodJobs, JobType
  <2> HIDE DEF J
  <2>5. Running(jobs') = Running(J) /\ Leased(external') = Leased(external)
    <3>1. GoodJobs(next + 1, J) /\ GoodReads(next + 1, J, external)
      BY <2>2 DEF Good
    <3>2. QED
      BY <1>0, <2>3, <3>1, PreemptIdle
  <2>6. QED
    BY <2>4, <2>5 DEF Idle, Started
<1>2. ASSUME NEW id \in Joinable(k), Conflict(cost, id) PROVE Idle
  BY <1>2 DEF Conflict, Idle, Started
<1>3. ASSUME Joinable(k) = {}, Start(k, cost, p) PROVE Idle
  <2> DEFINE J == Insert(jobs, next + 1, NewJob(k, cost, next, p))
  <2>1. k \in DOMAIN keys => jobs[keys[k]].canceled /\ ~jobs[keys[k]].preempted
    BY <1>0, <1>3 DEF Joinable, Now, Good, GoodConsumers
  <2>2. Good(next + 2, J, Insert(keys, k, next + 1), Insert(consumers, next, next + 1),
             external, workers, joined, stale)
    BY <1>0, <1>3, <2>1, StartKeeps DEF Now, Start
  <2>3. Preempt(J, external, reserved) \/ (jobs' = J /\ external' = external)
    BY <1>3 DEF Start
  <2>4. Running(J) = Running(jobs)
    <3>1. next + 1 \notin DOMAIN jobs /\ J[next + 1] = NewJob(k, cost, next, p)
      BY <1>0 DEF Now, Good, GoodJobs, Insert
    <3>2. DOMAIN J = DOMAIN jobs \cup {next + 1} /\ \A x \in DOMAIN jobs : J[x] = jobs[x]
      BY <3>1 DEF Insert
    <3>3. ~J[next + 1].running
      BY <3>1 DEF NewJob
    <3> HIDE DEF J
    <3>4. QED
      BY <3>1, <3>2, <3>3 DEF Running
  <2> HIDE DEF J
  <2>5. Running(jobs') = Running(J) /\ Leased(external') = Leased(external)
    <3>1. GoodJobs(next + 2, J) /\ GoodReads(next + 2, J, external)
      BY <2>2 DEF Good
    <3>2. QED
      BY <1>0, <2>3, <3>1, PreemptIdle
  <2>6. QED
    BY <2>4, <2>5 DEF Idle, Started
<1>4. ASSUME StartRefused PROVE Idle
  BY <1>4 DEF StartRefused, Idle, Started
<1>5. QED
  BY <1>1, <1>2, <1>3, <1>4 DEF Request

(***************************************************************************)
(* Neither do cancel, finished and the owner's own steps.                  *)
(***************************************************************************)
LEMMA JobIdle ==
  ASSUME IInv,
         \/ \E c \in Ids : Cancel(c)
         \/ \E lease \in Ids : Finished(lease)
         \/ \E k \in Keys : Outdate(k)
         \/ \E id \in DOMAIN jobs : StopLease(id)
  PROVE  Idle
<1>0. Now
  BY NowFacts
<1>1. ASSUME NEW c \in Ids, Cancel(c) PROVE Idle
  <2>1. external' = external /\ consumers[c] \in DOMAIN jobs
    BY <1>0, <1>1 DEF Cancel, Now, Good, GoodConsumers
  <2>2. \A id \in DOMAIN jobs' : id \in DOMAIN jobs /\ jobs'[id].running = jobs[id].running
    BY <1>0, <1>1, <2>1 DEF Cancel, Remove, Now, Good, GoodJobs, JobType
  <2>3. QED
    BY <2>1, <2>2 DEF Idle, Started, Running
<1>2. ASSUME NEW lease \in Ids, Finished(lease) PROVE Idle
  <2>1. PICK id \in LeaseOwner(lease) : Reap(id)
    BY <1>2 DEF Finished, FinishedCall
  <2>2. external' = external /\ id \in DOMAIN jobs
    BY <1>2, <2>1 DEF Finished, LeaseOwner
  <2>3. \A x \in DOMAIN jobs' : x \in DOMAIN jobs /\ (x # id => jobs'[x] = jobs[x])
    BY <2>1, <2>2 DEF Reap, Remove
  <2>4. id \in DOMAIN jobs' => ~jobs'[id].running
    <3>1. CASE ~Requeues(id)
      BY <2>1, <3>1 DEF Reap, Remove
    <3>2. CASE Requeues(id)
      <4> DEFINE old == jobs[id]
      <4>1. jobs' = [jobs EXCEPT ![id].lease = NoLease, ![id].running = FALSE,
                                 ![id].preempted = FALSE, ![id].canceled = FALSE]
        BY <2>1, <3>2 DEF Reap
      <4>2. jobs'[id] = [old EXCEPT !.lease = NoLease, !.running = FALSE,
                                    !.preempted = FALSE, !.canceled = FALSE]
        BY <2>2, <4>1, Zenon
      <4>3. old \in JobType(next, old.consumers)
        BY <1>0, <2>2 DEF Now, Good, GoodJobs
      <4> HIDE DEF old
      <4>4. QED
        BY <4>2, <4>3 DEF JobType
    <3>3. QED
      BY <3>1, <3>2
  <2>5. QED
    BY <2>2, <2>3, <2>4 DEF Idle, Started, Running
<1>3. ASSUME NEW k \in Keys, Outdate(k) PROVE Idle
  BY <1>3 DEF Outdate, Idle, Started
<1>4. ASSUME NEW id \in DOMAIN jobs, StopLease(id) PROVE Idle
  BY <1>0, <1>4 DEF StopLease, Idle, Started, Running, Now, Good, GoodJobs, JobType
<1>5. QED
  BY <1>1, <1>2, <1>3, <1>4

(***************************************************************************)
(* Nor do the calls of a native read other than its admission.             *)
(***************************************************************************)
LEMMA ReadIdle ==
  ASSUME IInv,
         \/ \E p \in Priorities : QueueNativeRead(p)
         \/ \E r \in DOMAIN external :
              \/ \E cost \in Costs : UpgradeNativeRead(r, cost) \/ RequeueNativeRead(r, cost)
              \/ CancelQueuedNativeRead(r)
              \/ ReleaseNativeRead(r)
  PROVE  Idle
<1>0. /\ Now /\ next \in Nat /\ Costs \subseteq Nat /\ GoodJobs(next, jobs)
      /\ GoodReads(next, jobs, external)
  BY NowFacts DEF Now, Good
<1>1. ASSUME NEW p \in Priorities, QueueNativeRead(p) PROVE Idle
  <2> DEFINE read == [priority |-> p, cost |-> 0, lease |-> NoLease, preempted |-> FALSE]
             E == Insert(external, next, read)
  <2>1. read \in ReadType(next) /\ read.lease = NoLease
    BY <1>0 DEF ReadType, NoLease, Now, Good, GoodRest
  <2>2. Preempt(jobs, E, reserved) /\ next < MaxSerial
    BY <1>1 DEF QueueNativeRead
  <2> HIDE DEF read
  <2>3. GoodJobs(next + 1, jobs) /\ GoodReads(next + 1, jobs, E)
    BY <1>0, <2>1, <2>2, QueueKeeps DEF Now, Good
  <2>4. Leased(E) = Leased(external)
    <3>1. next \notin DOMAIN external
      BY <1>0 DEF GoodReads
    <3>2. /\ DOMAIN E = DOMAIN external \cup {next} /\ E[next] = read
          /\ \A x \in DOMAIN external : E[x] = external[x]
      BY <3>1 DEF Insert
    <3> HIDE DEF E
    <3>3. QED
      BY <2>1, <3>1, <3>2 DEF Leased
  <2> HIDE DEF E
  <2>5. Running(jobs') = Running(jobs) /\ Leased(external') = Leased(E)
    BY <1>0, <2>2, <2>3, PreemptIdle
  <2>6. QED
    BY <2>4, <2>5 DEF Idle, Started
<1>2. ASSUME NEW r \in DOMAIN external, NEW cost \in Costs, UpgradeNativeRead(r, cost)
      PROVE  Idle
  <2>1. jobs' = jobs /\ external' = [external EXCEPT ![r].cost = cost]
    BY <1>2 DEF UpgradeNativeRead
  <2>2. Leased(external') = Leased(external)
    BY <1>0, <2>1 DEF Leased, GoodReads, ReadType
  <2>3. QED
    BY <2>1, <2>2 DEF Idle, Started
<1>3. ASSUME NEW r \in DOMAIN external, NEW cost \in Costs, RequeueNativeRead(r, cost)
      PROVE  Idle
  <2> DEFINE old == external[r]
             new == [old EXCEPT !.lease = NoLease, !.cost = cost, !.preempted = FALSE]
             E == [external EXCEPT ![r].lease = NoLease, ![r].cost = cost,
                                   ![r].preempted = FALSE]
  <2>1. Preempt(jobs, E, reserved')
    BY <1>3 DEF RequeueNativeRead
  <2>2. /\ DOMAIN E = DOMAIN external /\ E[r] = new
        /\ \A x \in DOMAIN E : x # r => E[x] = external[x]
    BY Zenon
  <2>3. old \in ReadType(next) /\ 0 \in 0 .. next - 1 /\ cost \in Nat
    BY <1>0 DEF GoodReads, Now, Good, GoodRest
  <2> HIDE DEF old, E
  <2>4. new \in ReadType(next) /\ new.lease = NoLease
    BY <2>3 DEF ReadType, NoLease
  <2> HIDE DEF new
  <2>5. GoodReads(next, jobs, E)
    BY <1>0, <2>2, <2>4 DEF GoodReads
  <2>6. \A x \in Leased(E) : x \in Leased(external)
    BY <2>2, <2>4 DEF Leased
  <2>7. Running(jobs') = Running(jobs) /\ Leased(external') = Leased(E)
    BY <1>0, <2>1, <2>5, PreemptIdle
  <2>8. QED
    BY <2>6, <2>7 DEF Idle, Started
<1>4. ASSUME NEW r \in DOMAIN external, CancelQueuedNativeRead(r) \/ ReleaseNativeRead(r)
      PROVE  Idle
  BY <1>4 DEF CancelQueuedNativeRead, ReleaseNativeRead, Idle, Started, Remove, Leased
<1>5. QED
  BY <1>1, <1>2, <1>3, <1>4

(***************************************************************************)
(* next_ready starts the front or nothing.                                 *)
(***************************************************************************)
LEMMA NextReadyInOrder ==
  ASSUME IInv, NextReady, NEW id \in DOMAIN jobs \cup DOMAIN external, Started(id)
  PROVE  InOrder(id)
<1> DEFINE J == PreemptedJobs(jobs, Victims(jobs, external, reserved))
           E == PreemptedReads(external, Victims(jobs, external, reserved))
<1>0. next \in Nat /\ GoodJobs(next, jobs) /\ GoodReads(next, jobs, external)
  BY NowFacts DEF Now, Good
<1>1. /\ Front(J, E) = Front(jobs, external)
      /\ Running(J) = Running(jobs) /\ Leased(E) = Leased(external)
  BY <1>0, PreemptSameFront
<1>2. /\ external' = E
      /\ \/ jobs' = J
         \/ \E x \in Startable(J, E) :
              jobs' = [J EXCEPT ![x].running = TRUE, ![x].lease = next]
  BY DEF NextReady
<1> HIDE DEF J, E
<1>3. ~(jobs' = J)
  BY <1>1, <1>2 DEF Started
<1>4. PICK x \in Startable(J, E) : jobs' = [J EXCEPT ![x].running = TRUE, ![x].lease = next]
  BY <1>2, <1>3
<1>5. \A y \in DOMAIN J : y # x => jobs'[y] = J[y]
  BY <1>4
<1>6. id = x
  BY <1>1, <1>2, <1>4, <1>5 DEF Started, Running
<1>7. id \in Front(jobs, external)
  BY <1>1, <1>4, <1>6 DEF Startable
<1>8. QED
  BY <1>0, <1>7, FrontFirst DEF InOrder

(***************************************************************************)
(* admit_native_read starts the front or nothing.                          *)
(***************************************************************************)
LEMMA AdmitInOrder ==
  ASSUME IInv, NEW r \in DOMAIN external, NEW cost \in Costs, AdmitNativeRead(r, cost),
         NEW id \in DOMAIN jobs \cup DOMAIN external, Started(id)
  PROVE  InOrder(id)
<1> DEFINE known == [external EXCEPT ![r].cost = cost]
           J == PreemptedJobs(jobs, Victims(jobs, known, reserved))
           E == PreemptedReads(known, Victims(jobs, known, reserved))
<1>0. /\ next \in Nat /\ GoodJobs(next, jobs) /\ GoodReads(next, jobs, external)
      /\ cost \in Nat
  BY NowFacts DEF Now, Good
<1>1. /\ DOMAIN known = DOMAIN external
      /\ \A x \in DOMAIN known : /\ known[x] \in ReadType(next)
                                 /\ known[x].lease = external[x].lease
                                 /\ known[x].priority = external[x].priority
  BY <1>0 DEF GoodReads, ReadType
<1>2. /\ jobs' = J
      /\ \/ external' = E
         \/ external' = [E EXCEPT ![r].lease = next] /\ r \in Front(J, E)
  BY DEF AdmitNativeRead
<1> HIDE DEF known
<1>3. GoodReads(next, jobs, known)
  BY <1>0, <1>1 DEF GoodReads
<1>4. /\ Front(J, E) = Front(jobs, known)
      /\ Running(J) = Running(jobs) /\ Leased(E) = Leased(known)
  BY <1>0, <1>3, PreemptSameFront
<1>5. Leased(known) = Leased(external)
  BY <1>1 DEF Leased
<1>6. Queued(jobs, known) = Queued(jobs, external)
  BY <1>1, <1>5 DEF Queued
<1>7. \A x : PriorityOf(jobs, known, x) = PriorityOf(jobs, external, x)
  BY <1>1 DEF PriorityOf
<1> HIDE DEF J, E
<1>8. external' = [E EXCEPT ![r].lease = next] /\ r \in Front(J, E)
  BY <1>2, <1>4, <1>5 DEF Started
<1>9. \A y \in DOMAIN E : y # r => external'[y] = E[y]
  BY <1>8
<1>10. id = r
  BY <1>2, <1>4, <1>5, <1>8, <1>9 DEF Started, Leased
<1>11. \A other \in Queued(jobs, known) \ {id} : Before(jobs, known, id, other)
  BY <1>0, <1>3, <1>4, <1>8, <1>10, FrontFirst
<1>12. QED
  BY <1>6, <1>7, <1>11 DEF InOrder, Before

(***************************************************************************)
(* Work is started in order of priority and then of age, for any mix of    *)
(* jobs and native reads and any number of workers.                        *)
(***************************************************************************)
THEOREM WorkStartsInOrder == Spec => StartsInOrder
<1>1. ASSUME IInv, Next, NEW id \in DOMAIN jobs \cup DOMAIN external, Started(id)
      PROVE  InOrder(id)
  <2>0. ~Idle
    BY <1>1 DEF Idle
  <2>1. ASSUME NEW k \in Keys, NEW cost \in Costs, NEW p \in Priorities, Request(k, cost, p)
        PROVE  FALSE
    BY <1>1, <2>0, <2>1, RequestIdle
  <2>2. CASE \/ \E c \in Ids : Cancel(c)
             \/ \E lease \in Ids : Finished(lease)
             \/ \E k \in Keys : Outdate(k)
             \/ \E x \in DOMAIN jobs : StopLease(x)
    BY <1>1, <2>0, <2>2, JobIdle
  <2>3. ASSUME NEW lease \in Ids, FinishedLate(lease) PROVE FALSE
    BY <1>1, <2>3, FinishedLateStep DEF vars, Started
  <2>4. CASE NextReady
    BY <1>1, <2>4, NextReadyInOrder
  <2>5. ASSUME NEW r \in DOMAIN external, NEW cost \in Costs, AdmitNativeRead(r, cost)
        PROVE  InOrder(id)
    BY <1>1, <2>5, AdmitInOrder
  <2>6. CASE \/ \E p \in Priorities : QueueNativeRead(p)
             \/ \E r \in DOMAIN external :
                  \/ \E cost \in Costs : \/ UpgradeNativeRead(r, cost)
                                         \/ RequeueNativeRead(r, cost)
                  \/ CancelQueuedNativeRead(r)
                  \/ ReleaseNativeRead(r)
    BY <1>1, <2>0, <2>6, ReadIdle
  <2>7. QED
    BY <1>1, <2>1, <2>2, <2>3, <2>4, <2>5, <2>6 DEF Next
<1>2. IInv /\ [Next]_vars =>
        [\A id \in DOMAIN jobs \cup DOMAIN external : Started(id) =>
           \A other \in Queued(jobs, external) \ {id} :
             \/ PriorityOf(jobs, external, id) > PriorityOf(jobs, external, other)
             \/ /\ PriorityOf(jobs, external, id) = PriorityOf(jobs, external, other)
                /\ id < other]_vars
  BY <1>1 DEF InOrder, Before
<1>3. QED
  BY <1>2, Invariance, PTL DEF Spec, StartsInOrder

-----------------------------------------------------------------------------
(* Sums.  SumFunctionOnSet is a recursive function on the subsets of its   *)
(* index set; on a finite one it exists, and does not depend on the order. *)

Pick(s) == CHOOSE x \in s : TRUE
SumsUp(g, f, S) ==
  g = [s \in SUBSET S |-> IF s = {} THEN 0 ELSE f[Pick(s)] + g[s \ {Pick(s)}]]

LEMMA PickIn == ASSUME NEW s, s # {} PROVE Pick(s) \in s
BY DEF Pick

LEMMA SumIs ==
  ASSUME NEW f, NEW S
  PROVE  SumFunctionOnSet(f, S) = (CHOOSE g : SumsUp(g, f, S))[S]
BY DEF SumFunctionOnSet, FoldFunctionOnSet, MapThenFoldSet, Pick, SumsUp

(* Of the subsets of a finite set with some property one has no smaller    *)
(* one with it.                                                            *)
LEMMA LeastNat ==
  ASSUME NEW C, C \subseteq Nat, C # {}
  PROVE  \E m \in C : \A k \in C : m <= k
<1>1. PICK m \in C : \A k \in C : ~(<<k, m>> \in OpToRel(<, Nat))
  BY NatLessThanWellFounded, WFMin
<1>2. \A k \in C : ~(k < m)
  BY <1>1 DEF OpToRel
<1>3. QED
  BY <1>2

LEMMA LeastSubset ==
  ASSUME NEW S, IsFiniteSet(S), NEW B, B \subseteq SUBSET S, B # {}
  PROVE  \E s \in B : \A t \in B : t \subseteq s => t = s
<1>1. \A s \in SUBSET S : IsFiniteSet(s) /\ Cardinality(s) \in Nat
  BY FS_Subset, FS_CardinalityType
<1> DEFINE C == {Cardinality(s) : s \in B}
<1>2. C \subseteq Nat /\ C # {}
  BY <1>1
<1>3. PICK m \in C : \A k \in C : m <= k
  <2> HIDE DEF C
  <2>1. QED
    BY <1>2, LeastNat
<1>4. \A k \in C : ~(k < m)
  BY <1>2, <1>3
<1>5. PICK s \in B : Cardinality(s) = m
  OBVIOUS
<1>6. ASSUME NEW t \in B, t \subseteq s PROVE t = s
  <2>1. ~(Cardinality(t) < Cardinality(s))
    BY <1>4, <1>5, <1>6
  <2>2. IsFiniteSet(s) /\ t \in SUBSET s
    BY <1>1, <1>6
  <2>3. Cardinality(t) <= Cardinality(s) /\ (Cardinality(s) = Cardinality(t) => s = t)
    BY <2>2, FS_Subset
  <2>4. Cardinality(t) \in Nat /\ Cardinality(s) \in Nat
    BY <1>1
  <2>5. QED
    BY <2>1, <2>3, <2>4
<1>7. QED
  BY <1>6

LEMMA SumUnique ==
  ASSUME NEW f, NEW S, IsFiniteSet(S), NEW g, NEW h, SumsUp(g, f, S), SumsUp(h, f, S)
  PROVE  g = h
<1> DEFINE B == {s \in SUBSET S : g[s] # h[s]}
<1>1. ASSUME B # {} PROVE FALSE
  <2>1. PICK s \in B : \A t \in B : t \subseteq s => t = s
    <3>1. B \subseteq SUBSET S
      OBVIOUS
    <3> HIDE DEF B
    <3>2. QED
      BY <1>1, <3>1, LeastSubset
  <2>2. CASE s = {}
    BY <2>1, <2>2 DEF SumsUp
  <2>3. CASE s # {}
    <3> DEFINE u == s \ {Pick(s)}
    <3>1. u \in SUBSET S /\ u \subseteq s /\ u # s
      BY <2>3, PickIn
    <3>2. u \notin B
      BY <2>1, <3>1
    <3>3. g[u] = h[u]
      BY <3>1, <3>2
    <3>4. g[s] = f[Pick(s)] + g[u] /\ h[s] = f[Pick(s)] + h[u]
      BY <2>3 DEF SumsUp
    <3>5. QED
      BY <3>3, <3>4
  <2>4. QED
    BY <2>2, <2>3
<1>2. \A s \in SUBSET S : g[s] = h[s]
  BY <1>1
<1>3. QED
  BY <1>2 DEF SumsUp

LEMMA SumRestricts ==
  ASSUME NEW f, NEW S, NEW g, SumsUp(g, f, S), NEW T \in SUBSET S
  PROVE  SumsUp([s \in SUBSET T |-> g[s]], f, T)
<1> DEFINE h == [s \in SUBSET T |-> g[s]]
<1>1. ASSUME NEW s \in SUBSET T
      PROVE  h[s] = IF s = {} THEN 0 ELSE f[Pick(s)] + h[s \ {Pick(s)}]
  <2>1. s \in SUBSET S /\ s \ {Pick(s)} \in SUBSET T
    OBVIOUS
  <2>2. g[s] = IF s = {} THEN 0 ELSE f[Pick(s)] + g[s \ {Pick(s)}]
    BY <2>1 DEF SumsUp
  <2>3. QED
    BY <2>1, <2>2
<1>2. h = [s \in SUBSET T |-> IF s = {} THEN 0 ELSE f[Pick(s)] + h[s \ {Pick(s)}]]
  BY <1>1
<1>3. QED
  BY <1>2 DEF SumsUp

LEMMA SumExists ==
  ASSUME NEW f, NEW S, IsFiniteSet(S)
  PROVE  \E g : SumsUp(g, f, S)
<1> DEFINE B == {T \in SUBSET S : ~\E g : SumsUp(g, f, T)}
           G(T) == CHOOSE g : SumsUp(g, f, T)
<1>1. ASSUME B # {} PROVE FALSE
  <2>1. PICK T \in B : \A t \in B : t \subseteq T => t = T
    <3>1. B \subseteq SUBSET S
      OBVIOUS
    <3> HIDE DEF B
    <3>2. QED
      BY <1>1, <3>1, LeastSubset
  <2>2. ASSUME NEW U \in SUBSET T, U # T PROVE SumsUp(G(U), f, U)
    <3>1. \E g : SumsUp(g, f, U)
      BY <2>1, <2>2
    <3>2. QED
      BY <3>1
  <2> HIDE DEF G
  <2>3. ASSUME NEW U \in SUBSET T, U # T, NEW V \in SUBSET U PROVE G(U)[V] = G(V)[V]
    <3>1. SumsUp(G(U), f, U)
      BY <2>2, <2>3
    <3>2. V \in SUBSET T /\ V # T /\ IsFiniteSet(V)
      BY <2>3, FS_Subset
    <3>3. SumsUp(G(V), f, V)
      BY <2>2, <3>2
    <3>4. SumsUp([s \in SUBSET V |-> G(U)[s]], f, V)
      BY <3>1, SumRestricts
    <3>5. [s \in SUBSET V |-> G(U)[s]] = G(V)
      BY <3>2, <3>3, <3>4, SumUnique
    <3>6. QED
      BY <3>5
  <2> DEFINE r(s) == s \ {Pick(s)}
             h == [s \in SUBSET T |-> IF s = {} THEN 0 ELSE f[Pick(s)] + G(r(s))[r(s)]]
  <2>4. ASSUME NEW U \in SUBSET T, U # T PROVE h[U] = G(U)[U]
    <3>1. SumsUp(G(U), f, U)
      BY <2>2, <2>4
    <3>2. G(U)[U] = IF U = {} THEN 0 ELSE f[Pick(U)] + G(U)[r(U)]
      BY <3>1 DEF SumsUp
    <3>3. G(U)[r(U)] = G(r(U))[r(U)]
      BY <2>3, <2>4
    <3>4. QED
      BY <3>2, <3>3
  <2>5. ASSUME NEW s \in SUBSET T
        PROVE  h[s] = IF s = {} THEN 0 ELSE f[Pick(s)] + h[r(s)]
    <3>1. CASE s = {}
      BY <3>1
    <3>2. CASE s # {}
      <4>1. r(s) \in SUBSET T /\ r(s) # T
        BY <3>2, PickIn
      <4>2. h[r(s)] = G(r(s))[r(s)]
        BY <2>4, <4>1
      <4>3. h[s] = f[Pick(s)] + G(r(s))[r(s)]
        BY <3>2
      <4>4. QED
        BY <3>2, <4>2, <4>3
    <3>3. QED
      BY <3>1, <3>2
  <2>6. h = [s \in SUBSET T |-> IF s = {} THEN 0 ELSE f[Pick(s)] + h[s \ {Pick(s)}]]
    BY <2>5
  <2>7. SumsUp(h, f, T)
    BY <2>6 DEF SumsUp
  <2>8. QED
    BY <2>1, <2>7
<1>2. QED
  BY <1>1

LEMMA SumUnfolds ==
  ASSUME NEW f, NEW S, IsFiniteSet(S)
  PROVE  SumFunctionOnSet(f, S) =
           IF S = {} THEN 0 ELSE f[Pick(S)] + SumFunctionOnSet(f, S \ {Pick(S)})
<1> DEFINE G(T) == CHOOSE g : SumsUp(g, f, T)
           R == S \ {Pick(S)}
<1>1. IsFiniteSet(R) /\ R \in SUBSET S
  BY FS_Subset
<1>2. SumsUp(G(S), f, S) /\ SumsUp(G(R), f, R)
  BY <1>1, SumExists
<1>3. SumFunctionOnSet(f, S) = G(S)[S] /\ SumFunctionOnSet(f, R) = G(R)[R]
  BY SumIs
<1> HIDE DEF G
<1>4. G(S)[S] = IF S = {} THEN 0 ELSE f[Pick(S)] + G(S)[R]
  BY <1>2 DEF SumsUp
<1>5. [s \in SUBSET R |-> G(S)[s]] = G(R)
  <2>1. SumsUp([s \in SUBSET R |-> G(S)[s]], f, R)
    BY <1>1, <1>2, SumRestricts
  <2>2. QED
    BY <1>1, <1>2, <2>1, SumUnique
<1>6. G(S)[R] = G(R)[R]
  BY <1>5
<1>7. QED
  BY <1>3, <1>4, <1>6

LEMMA SumType ==
  ASSUME NEW S, IsFiniteSet(S), NEW f, \A x \in S : f[x] \in Int
  PROVE  SumFunctionOnSet(f, S) \in Int
<1> DEFINE B == {s \in SUBSET S : SumFunctionOnSet(f, s) \notin Int}
<1>1. ASSUME B # {} PROVE FALSE
  <2>1. PICK s \in B : \A t \in B : t \subseteq s => t = s
    <3>1. B \subseteq SUBSET S
      OBVIOUS
    <3> HIDE DEF B
    <3>2. QED
      BY <1>1, <3>1, LeastSubset
  <2>2. IsFiniteSet(s)
    BY FS_Subset
  <2>3. CASE s = {}
    <3>1. SumFunctionOnSet(f, s) = 0
      BY <2>2, <2>3, SumUnfolds
    <3>2. QED
      BY <2>1, <3>1
  <2>4. CASE s # {}
    <3>1. Pick(s) \in s /\ f[Pick(s)] \in Int
      BY <2>4, PickIn
    <3>2. s \ {Pick(s)} \notin B
      BY <2>1, <3>1
    <3>3. SumFunctionOnSet(f, s \ {Pick(s)}) \in Int
      BY <3>2
    <3>4. QED
      BY <2>1, <2>2, <2>4, <3>1, <3>3, SumUnfolds
  <2>5. QED
    BY <2>3, <2>4
<1>2. QED
  BY <1>1

LEMMA SumRemoves ==
  ASSUME NEW S, IsFiniteSet(S), NEW f, \A x \in S : f[x] \in Int, NEW x \in S
  PROVE  SumFunctionOnSet(f, S) = f[x] + SumFunctionOnSet(f, S \ {x})
<1> DEFINE Sum(s) == SumFunctionOnSet(f, s)
           B == {s \in SUBSET S : \E y \in s : Sum(s) # f[y] + Sum(s \ {y})}
<1>0. \A s \in SUBSET S : IsFiniteSet(s) /\ Sum(s) \in Int
  BY FS_Subset, SumType
<1>1. ASSUME B # {} PROVE FALSE
  <2>1. PICK s \in B : \A t \in B : t \subseteq s => t = s
    <3>1. B \subseteq SUBSET S
      OBVIOUS
    <3> HIDE DEF B
    <3>2. QED
      BY <1>1, <3>1, LeastSubset
  <2>2. PICK y \in s : Sum(s) # f[y] + Sum(s \ {y})
    BY <2>1
  <2> DEFINE p == Pick(s)
  <2>3. s \in SUBSET S /\ s # {} /\ p \in s
    BY <2>1, <2>2, PickIn
  <2>4. Sum(s) = f[p] + Sum(s \ {p})
    BY <1>0, <2>3, SumUnfolds
  <2>5. y # p
    BY <2>2, <2>4
  <2>6. s \ {p} \notin B /\ s \ {y} \notin B
    BY <2>1, <2>2, <2>3
  <2> HIDE DEF p, Sum
  <2>7. Sum(s \ {p}) = f[y] + Sum((s \ {p}) \ {y})
    BY <2>2, <2>3, <2>5, <2>6
  <2>8. Sum(s \ {y}) = f[p] + Sum((s \ {y}) \ {p})
    BY <2>2, <2>3, <2>5, <2>6
  <2>9. Sum((s \ {p}) \ {y}) = Sum((s \ {y}) \ {p})
    <3>1. (s \ {p}) \ {y} = (s \ {y}) \ {p}
      OBVIOUS
    <3>2. QED
      BY <3>1
  <2>10. Sum((s \ {y}) \ {p}) \in Int /\ f[p] \in Int /\ f[y] \in Int
    BY <1>0, <2>2, <2>3
  <2>11. QED
    <3> HIDE DEF B
    <3>1. PICK z \in Int : z = Sum((s \ {y}) \ {p})
      BY <2>10
    <3>2. Sum(s) = f[p] + (f[y] + z) /\ Sum(s \ {y}) = f[p] + z
      BY <2>4, <2>7, <2>8, <2>9, <3>1
    <3>3. QED
      BY <2>2, <2>10, <3>2
<1>2. QED
  BY <1>1

LEMMA SumAgrees ==
  ASSUME NEW S, IsFiniteSet(S), NEW f, NEW g, \A x \in S : f[x] = g[x]
  PROVE  SumFunctionOnSet(f, S) = SumFunctionOnSet(g, S)
<1> DEFINE B == {s \in SUBSET S : SumFunctionOnSet(f, s) # SumFunctionOnSet(g, s)}
<1>1. ASSUME B # {} PROVE FALSE
  <2>1. PICK s \in B : \A t \in B : t \subseteq s => t = s
    <3>1. B \subseteq SUBSET S
      OBVIOUS
    <3> HIDE DEF B
    <3>2. QED
      BY <1>1, <3>1, LeastSubset
  <2>2. IsFiniteSet(s)
    BY FS_Subset
  <2>3. CASE s = {}
    BY <2>1, <2>2, <2>3, SumUnfolds
  <2>4. CASE s # {}
    <3>1. Pick(s) \in s /\ f[Pick(s)] = g[Pick(s)]
      BY <2>4, PickIn
    <3>2. s \ {Pick(s)} \notin B
      BY <2>1, <3>1
    <3>3. SumFunctionOnSet(f, s \ {Pick(s)}) = SumFunctionOnSet(g, s \ {Pick(s)})
      BY <3>2
    <3>4. /\ SumFunctionOnSet(f, s) = f[Pick(s)] + SumFunctionOnSet(f, s \ {Pick(s)})
          /\ SumFunctionOnSet(g, s) = g[Pick(s)] + SumFunctionOnSet(g, s \ {Pick(s)})
      BY <2>2, <2>4, SumUnfolds
    <3>5. QED
      BY <2>1, <3>1, <3>3, <3>4
  <2>5. QED
    BY <2>3, <2>4
<1>2. QED
  BY <1>1

(* What a started, a joined and an upgraded process do to the sum.         *)
LEMMA SumChanges ==
  ASSUME NEW w, IsFiniteSet(DOMAIN w), \A x \in DOMAIN w : w[x] \in Int, NEW v \in Int, NEW l
  PROVE  /\ SumFunction(w) \in Int
         /\ l \notin DOMAIN w => SumFunction(Insert(w, l, v)) = SumFunction(w) + v
         /\ l \in DOMAIN w => SumFunction(Remove(w, l)) = SumFunction(w) - w[l]
         /\ l \in DOMAIN w => SumFunction([w EXCEPT ![l] = v]) = SumFunction(w) - w[l] + v
<1> DEFINE S == DOMAIN w
<1>1. SumFunctionOnSet(w, S) \in Int /\ SumFunction(w) = SumFunctionOnSet(w, S)
  BY SumType DEF SumFunction
<1>2. ASSUME l \notin S PROVE SumFunction(Insert(w, l, v)) = SumFunction(w) + v
  <2> DEFINE g == Insert(w, l, v)
  <2>1. DOMAIN g = S \cup {l} /\ g[l] = v /\ \A x \in S : g[x] = w[x]
    BY <1>2 DEF Insert
  <2> HIDE DEF g
  <2>2. IsFiniteSet(DOMAIN g) /\ (\A x \in DOMAIN g : g[x] \in Int)
        /\ (DOMAIN g) \ {l} = S
    BY <1>2, <2>1, FS_AddElement
  <2>3. SumFunctionOnSet(g, DOMAIN g) = g[l] + SumFunctionOnSet(g, (DOMAIN g) \ {l})
    BY <2>1, <2>2, SumRemoves
  <2>4. SumFunctionOnSet(g, S) = SumFunctionOnSet(w, S)
    BY <2>1, SumAgrees
  <2>5. SumFunction(g) = v + SumFunctionOnSet(w, S)
    BY <2>1, <2>2, <2>3, <2>4 DEF SumFunction
  <2>6. QED
    BY <1>1, <2>5 DEF g
<1>3. ASSUME l \in S
      PROVE  /\ SumFunctionOnSet(w, S \ {l}) \in Int /\ IsFiniteSet(S \ {l})
             /\ SumFunctionOnSet(w, S) = w[l] + SumFunctionOnSet(w, S \ {l})
  <2>1. IsFiniteSet(S \ {l})
    BY FS_RemoveElement
  <2>2. SumFunctionOnSet(w, S \ {l}) \in Int
    BY <2>1, SumType
  <2>3. QED
    BY <1>3, <2>1, <2>2, SumRemoves
<1>4. ASSUME l \in S PROVE SumFunction(Remove(w, l)) = SumFunction(w) - w[l]
  <2> DEFINE g == Remove(w, l)
  <2>1. DOMAIN g = S \ {l} /\ \A x \in S \ {l} : g[x] = w[x]
    BY DEF Remove
  <2> HIDE DEF g
  <2>2. SumFunctionOnSet(g, S \ {l}) = SumFunctionOnSet(w, S \ {l})
    BY <1>3, <1>4, <2>1, SumAgrees
  <2>3. SumFunction(g) = SumFunctionOnSet(w, S \ {l})
    BY <2>1, <2>2 DEF SumFunction
  <2>4. w[l] \in Int
    BY <1>4
  <2>5. QED
    BY <1>1, <1>3, <1>4, <2>3, <2>4 DEF g
<1>5. ASSUME l \in S PROVE SumFunction([w EXCEPT ![l] = v]) = SumFunction(w) - w[l] + v
  <2> DEFINE g == [w EXCEPT ![l] = v]
  <2>1. DOMAIN g = S /\ g[l] = v /\ \A x \in S \ {l} : g[x] = w[x]
    BY <1>5
  <2> HIDE DEF g
  <2>2. \A x \in S : g[x] \in Int
    BY <2>1
  <2>3. SumFunctionOnSet(g, S) = g[l] + SumFunctionOnSet(g, S \ {l})
    BY <1>5, <2>2, SumRemoves
  <2>4. SumFunctionOnSet(g, S \ {l}) = SumFunctionOnSet(w, S \ {l})
    BY <1>3, <1>5, <2>1, SumAgrees
  <2>5. SumFunction(g) = v + SumFunctionOnSet(w, S \ {l})
    BY <2>1, <2>3, <2>4 DEF SumFunction
  <2>6. w[l] \in Int
    BY <1>5
  <2>7. QED
    BY <1>1, <1>3, <1>5, <2>5, <2>6 DEF g
<1>6. QED
  BY <1>1, <1>2, <1>4, <1>5

-----------------------------------------------------------------------------
(* Reservations and limits.                                                *)

(* The maps are finite and a process never has negative bytes.             *)
LEMMA MapsFinite ==
  ASSUME IInv
  PROVE  /\ IsFiniteSet(DOMAIN workers) /\ IsFiniteSet(DOMAIN consumers)
         /\ IsFiniteSet(DOMAIN external) /\ IsFiniteSet(DOMAIN jobs)
         /\ \A l \in DOMAIN workers : workers[l] \in Nat
<1>1. Now /\ next \in Nat
  BY NowFacts
<1>2. IsFiniteSet(1 .. next - 1)
  BY <1>1, FS_Interval
<1>3. /\ DOMAIN workers \subseteq 1 .. next - 1 /\ DOMAIN consumers \subseteq 1 .. next - 1
      /\ DOMAIN external \subseteq 1 .. next - 1 /\ DOMAIN jobs \subseteq 1 .. next - 1
  BY <1>1 DEF Now, Good, GoodRest, GoodReads, GoodJobs
<1>4. ASSUME NEW l \in DOMAIN workers PROVE workers[l] \in Nat
  <2>1. PICK h : h \in HoldersOf(jobs, external, l)
    BY <1>1 DEF Now, Good, GoodLeases
  <2>2. l # NoLease
    BY <1>3 DEF NoLease
  <2>3. CASE h \in DOMAIN jobs /\ jobs[h].lease = l
    BY <1>1, <2>2, <2>3 DEF Now, Good, GoodLeases, GoodJobs, JobType
  <2>4. CASE h \in DOMAIN external /\ external[h].lease = l
    BY <1>1, <2>2, <2>4 DEF Now, Good, GoodLeases, GoodReads, ReadType
  <2>5. QED
    BY <2>1, <2>3, <2>4 DEF HoldersOf
<1>5. QED
  BY <1>2, <1>3, <1>4, FS_Subset

(* Every live process is counted as active work.                           *)
LEMMA WorkersActive ==
  ASSUME IInv
  PROVE  /\ Cardinality(DOMAIN workers) \in Nat
         /\ Active(jobs, external) \in Nat
         /\ Cardinality(DOMAIN workers) <= Active(jobs, external)
<1>1. Now
  BY NowFacts
<1> DEFINE R == Running(jobs)
           L == Leased(external)
           holder == [l \in DOMAIN workers |-> CHOOSE h \in R \cup L : h \in HoldersOf(jobs, external, l)]
<1>2. IsFiniteSet(R) /\ IsFiniteSet(L) /\ Cardinality(R) \in Nat /\ Cardinality(L) \in Nat
  <2>1. R \in SUBSET DOMAIN jobs /\ L \in SUBSET DOMAIN external
    BY DEF Running, Leased
  <2> HIDE DEF R, L
  <2>2. QED
    BY <2>1, MapsFinite, FS_Subset, FS_CardinalityType
<1>3. R \cap L = {}
  BY <1>1 DEF Running, Leased, Now, Good, GoodReads
<1>4. IsFiniteSet(R \cup L) /\ Cardinality(R \cup L) = Cardinality(R) + Cardinality(L)
  <2>1. Cardinality(R \cap L) = 0
    BY <1>3, FS_EmptySet
  <2> HIDE DEF R, L, holder
  <2>2. /\ IsFiniteSet(R \cup L)
        /\ Cardinality(R \cup L) = Cardinality(R) + Cardinality(L) - Cardinality(R \cap L)
    BY <1>2, FS_Union
  <2>3. QED
    BY <1>2, <2>1, <2>2
<1>5. ASSUME NEW l \in DOMAIN workers
      PROVE  \E h \in R \cup L : h \in HoldersOf(jobs, external, l)
  <2>1. PICK h : h \in HoldersOf(jobs, external, l)
    BY <1>1 DEF Now, Good, GoodLeases
  <2>2. l # NoLease
    BY <1>1 DEF NoLease, Now, Good, GoodRest
  <2>3. QED
    BY <1>1, <2>1, <2>2 DEF HoldersOf, Running, Leased, Now, Good, GoodLeases
<1>6. \A l \in DOMAIN workers : holder[l] \in R \cup L /\ holder[l] \in HoldersOf(jobs, external, l)
  BY <1>5
<1>7. \A h, l, m : h \in HoldersOf(jobs, external, l) /\ h \in HoldersOf(jobs, external, m) => l = m
  BY <1>1 DEF HoldersOf, Now, Good, GoodReads
<1>8. holder \in Injection(DOMAIN workers, R \cup L)
  <2>1. holder \in [DOMAIN workers -> R \cup L]
    BY <1>6
  <2>2. \A l, m \in DOMAIN workers : holder[l] = holder[m] => l = m
    <3> HIDE DEF holder
    <3>1. QED
      BY <1>6, <1>7
  <2>3. QED
    BY <2>1, <2>2 DEF Injection, IsInjective
<1>9. Cardinality(DOMAIN workers) \in Nat
  BY MapsFinite, FS_CardinalityType
<1> HIDE DEF holder, R, L
<1>10. Cardinality(DOMAIN workers) <= Cardinality(R \cup L)
  BY <1>4, <1>8, FS_Injection
<1>11. QED
  BY <1>2, <1>4, <1>9, <1>10 DEF Active, R, L

(* The number of open requests, when at most one was added.                *)
LEMMA CountKept ==
  ASSUME IInv, ReservationsExact, NEW x,
         \/ DOMAIN consumers' \subseteq DOMAIN consumers /\ DOMAIN external' \subseteq DOMAIN external
         \/ /\ RequestCount < Requests
            /\ DOMAIN consumers' \subseteq DOMAIN consumers \cup {x}
            /\ DOMAIN external' \subseteq DOMAIN external
         \/ /\ RequestCount < Requests
            /\ DOMAIN consumers' \subseteq DOMAIN consumers
            /\ DOMAIN external' \subseteq DOMAIN external \cup {x}
  PROVE  RequestCount' <= Requests
<1> DEFINE C == DOMAIN consumers
           E == DOMAIN external
<1>1. IsFiniteSet(C) /\ IsFiniteSet(E)
  BY MapsFinite
<1>2. /\ Cardinality(C) \in Nat /\ Cardinality(E) \in Nat
      /\ Cardinality(C) + Cardinality(E) <= Requests /\ Requests \in Nat
  BY <1>1, FS_CardinalityType, LimitsAssumption DEF ReservationsExact, LimitsHeld, RequestCount
<1>3. ASSUME NEW S, IsFiniteSet(S), NEW T, T \subseteq S \cup {x}
      PROVE  Cardinality(T) \in Nat /\ Cardinality(T) <= Cardinality(S) + 1
  <2>1. IsFiniteSet(S \cup {x}) /\ Cardinality(S \cup {x}) <= Cardinality(S) + 1
    <3>1. Cardinality(S) \in Nat
      BY <1>3, FS_CardinalityType
    <3>2. /\ IsFiniteSet(S \cup {x})
          /\ Cardinality(S \cup {x}) = IF x \in S THEN Cardinality(S) ELSE Cardinality(S) + 1
      BY <1>3, FS_AddElement
    <3>3. QED
      BY <3>1, <3>2
  <2>2. T \in SUBSET (S \cup {x})
    BY <1>3
  <2>3. IsFiniteSet(T) /\ Cardinality(T) <= Cardinality(S \cup {x})
    BY <2>1, <2>2, FS_Subset
  <2>4. Cardinality(T) \in Nat /\ Cardinality(S) \in Nat /\ Cardinality(S \cup {x}) \in Nat
    BY <1>3, <2>1, <2>3, FS_CardinalityType
  <2>5. QED
    BY <2>1, <2>3, <2>4
<1>4. ASSUME NEW S, IsFiniteSet(S), NEW T, T \subseteq S
      PROVE  Cardinality(T) \in Nat /\ Cardinality(T) <= Cardinality(S)
  BY <1>4, FS_Subset, FS_CardinalityType
<1>5. CASE C' \subseteq C /\ E' \subseteq E
  <2>1. /\ Cardinality(C') \in Nat /\ Cardinality(C') <= Cardinality(C)
        /\ Cardinality(E') \in Nat /\ Cardinality(E') <= Cardinality(E)
    BY <1>1, <1>4, <1>5
  <2>2. QED
    BY <1>2, <2>1 DEF RequestCount
<1>6. CASE RequestCount < Requests /\ C' \subseteq C \cup {x} /\ E' \subseteq E
  <2>1. /\ Cardinality(C') \in Nat /\ Cardinality(C') <= Cardinality(C) + 1
        /\ Cardinality(E') \in Nat /\ Cardinality(E') <= Cardinality(E)
    BY <1>1, <1>3, <1>4, <1>6
  <2>2. Cardinality(C) + Cardinality(E) < Requests
    BY <1>6 DEF RequestCount
  <2>3. QED
    BY <1>2, <2>1, <2>2 DEF RequestCount
<1>7. CASE RequestCount < Requests /\ C' \subseteq C /\ E' \subseteq E \cup {x}
  <2>1. /\ Cardinality(C') \in Nat /\ Cardinality(C') <= Cardinality(C)
        /\ Cardinality(E') \in Nat /\ Cardinality(E') <= Cardinality(E) + 1
    BY <1>1, <1>3, <1>4, <1>7
  <2>2. Cardinality(C) + Cardinality(E) < Requests
    BY <1>7 DEF RequestCount
  <2>3. QED
    BY <1>2, <2>1, <2>2 DEF RequestCount
<1>8. QED
  BY <1>5, <1>6, <1>7

(* A call that starts and ends no process.                                 *)
LEMMA NoProcess ==
  ASSUME ReservationsExact, UNCHANGED <<workers, reserved>>, RequestCount' <= Requests
  PROVE  ReservationsExact'
BY DEF ReservationsExact, LimitsHeld

(* A process is started within the limits.                                 *)
LEMMA ProcessStarts ==
  ASSUME IInv, ReservationsExact, NEW cost \in Nat,
         Active(jobs, external) < Workers, cost <= WorkingBytes - reserved,
         workers' = Insert(workers, next, cost), reserved' = reserved + cost,
         RequestCount' <= Requests
  PROVE  ReservationsExact'
<1>1. next \notin DOMAIN workers /\ reserved \in Int
  BY NowFacts DEF Now, Good, GoodRest
<1>2. /\ IsFiniteSet(DOMAIN workers) /\ (\A l \in DOMAIN workers : workers[l] \in Int)
      /\ cost \in Int
  BY MapsFinite
<1>3. SumFunction(Insert(workers, next, cost)) = SumFunction(workers) + cost
  BY <1>1, <1>2, SumChanges
<1>4. reserved' = SumFunction(workers')
  BY <1>3 DEF ReservationsExact
<1>5. DOMAIN workers' = DOMAIN workers \cup {next}
  BY DEF Insert
<1>6. Cardinality(DOMAIN workers') = Cardinality(DOMAIN workers) + 1
  BY <1>1, <1>2, <1>5, FS_AddElement
<1>7. Cardinality(DOMAIN workers') <= Workers
  BY <1>6, WorkersActive, LimitsAssumption
<1>8. reserved' <= WorkingBytes
  BY <1>1, LimitsAssumption
<1>9. QED
  BY <1>4, <1>7, <1>8 DEF ReservationsExact, LimitsHeld

(* A process was joined and its bytes are released.                        *)
LEMMA ProcessEnds ==
  ASSUME IInv, ReservationsExact, NEW l \in DOMAIN workers,
         workers' = Remove(workers, l), reserved' = reserved - workers[l],
         RequestCount' <= Requests
  PROVE  ReservationsExact'
<1>1. reserved \in Int /\ reserved <= WorkingBytes /\ WorkingBytes \in Nat
      /\ Cardinality(DOMAIN workers) <= Workers
  BY NowFacts, LimitsAssumption DEF ReservationsExact, LimitsHeld
<1>2. /\ IsFiniteSet(DOMAIN workers) /\ (\A x \in DOMAIN workers : workers[x] \in Int)
      /\ 0 \in Int /\ workers[l] \in Nat
  BY MapsFinite
<1>3. SumFunction(Remove(workers, l)) = SumFunction(workers) - workers[l]
  BY <1>2, SumChanges
<1>4. reserved' = SumFunction(workers')
  BY <1>3 DEF ReservationsExact
<1>5. DOMAIN workers' = DOMAIN workers \ {l}
  BY DEF Remove
<1>6. Cardinality(DOMAIN workers') = Cardinality(DOMAIN workers) - 1
  BY <1>2, <1>5, FS_RemoveElement
<1>7. Cardinality(DOMAIN workers') <= Workers
  BY <1>1, <1>6, WorkersActive, LimitsAssumption
<1>8. reserved' <= WorkingBytes
  BY <1>1, <1>2
<1>9. QED
  BY <1>4, <1>7, <1>8 DEF ReservationsExact, LimitsHeld

(* The bytes of a process are replaced.                                    *)
LEMMA ProcessUpgraded ==
  ASSUME IInv, ReservationsExact, NEW l \in DOMAIN workers, NEW cost \in Nat,
         UpgradeFits(workers[l], cost),
         workers' = [workers EXCEPT ![l] = cost], reserved' = reserved - workers[l] + cost,
         RequestCount' <= Requests
  PROVE  ReservationsExact'
<1>1. reserved \in Int /\ WorkingBytes \in Nat /\ Cardinality(DOMAIN workers) <= Workers
  BY NowFacts, LimitsAssumption DEF ReservationsExact, LimitsHeld
<1>2. /\ IsFiniteSet(DOMAIN workers) /\ (\A x \in DOMAIN workers : workers[x] \in Int)
      /\ cost \in Int /\ workers[l] \in Nat
  BY MapsFinite
<1>3. SumFunction([workers EXCEPT ![l] = cost]) = SumFunction(workers) - workers[l] + cost
  BY <1>2, SumChanges
<1>4. reserved' = SumFunction(workers')
  BY <1>3 DEF ReservationsExact
<1>5. DOMAIN workers' = DOMAIN workers
  OBVIOUS
<1>6. reserved' <= WorkingBytes
  BY <1>1, <1>2 DEF UpgradeFits
<1>7. QED
  BY <1>1, <1>4, <1>5, <1>6 DEF ReservationsExact, LimitsHeld

(* What a call leaves of the open requests, for the calls that start and   *)
(* end no process.                                                         *)
LEMMA QuietExact ==
  ASSUME IInv, ReservationsExact,
         \/ \E k \in Keys, cost \in Costs, p \in Priorities : Request(k, cost, p)
         \/ \E c \in Ids : Cancel(c)
         \/ \E k \in Keys : Outdate(k)
         \/ \E id \in DOMAIN jobs : StopLease(id)
         \/ \E p \in Priorities : QueueNativeRead(p)
         \/ \E r \in DOMAIN external : CancelQueuedNativeRead(r)
  PROVE  ReservationsExact'
<1>1. ASSUME NEW k \in Keys, NEW cost \in Costs, NEW p \in Priorities, Request(k, cost, p)
      PROVE  ReservationsExact'
  <2>1. UNCHANGED <<workers, reserved>> /\ RequestCount < Requests
    BY <1>1 DEF Request
  <2>2. DOMAIN consumers' \subseteq DOMAIN consumers \cup {next}
    BY <1>1 DEF Request, Join, Conflict, Start, StartRefused, Insert
  <2>3. DOMAIN external' = DOMAIN external
    BY <1>1 DEF Request, Join, Conflict, Start, StartRefused, Preempt, PreemptedReads
  <2>4. QED
    BY <2>1, <2>2, <2>3, CountKept, NoProcess
<1>2. ASSUME NEW c \in Ids, Cancel(c) PROVE ReservationsExact'
  <2>1. UNCHANGED <<workers, reserved, external>> /\ DOMAIN consumers' \subseteq DOMAIN consumers
    BY <1>2 DEF Cancel, Remove
  <2>2. QED
    BY <2>1, CountKept, NoProcess
<1>3. CASE (\E k \in Keys : Outdate(k)) \/ (\E id \in DOMAIN jobs : StopLease(id))
  <2>1. UNCHANGED <<workers, reserved, external, consumers>>
    BY <1>3 DEF Outdate, StopLease
  <2>2. QED
    BY <2>1, CountKept, NoProcess
<1>4. ASSUME NEW p \in Priorities, QueueNativeRead(p) PROVE ReservationsExact'
  <2>1. UNCHANGED <<workers, reserved, consumers>> /\ RequestCount < Requests
    BY <1>4 DEF QueueNativeRead
  <2>2. DOMAIN external' \subseteq DOMAIN external \cup {next}
    BY <1>4 DEF QueueNativeRead, Preempt, PreemptedReads, Insert
  <2>3. QED
    BY <2>1, <2>2, CountKept, NoProcess
<1>5. ASSUME NEW r \in DOMAIN external, CancelQueuedNativeRead(r) PROVE ReservationsExact'
  <2>1. UNCHANGED <<workers, reserved, consumers>> /\ DOMAIN external' \subseteq DOMAIN external
    BY <1>5 DEF CancelQueuedNativeRead, Remove
  <2>2. QED
    BY <2>1, CountKept, NoProcess
<1>6. QED
  BY <1>1, <1>2, <1>3, <1>4, <1>5

(* next_ready reserves what the job it starts was asked for.               *)
LEMMA NextReadyExact ==
  ASSUME IInv, ReservationsExact, NextReady PROVE ReservationsExact'
<1> DEFINE J == PreemptedJobs(jobs, Victims(jobs, external, reserved))
           E == PreemptedReads(external, Victims(jobs, external, reserved))
<1>0. next \in Nat /\ GoodJobs(next, jobs) /\ GoodReads(next, jobs, external)
  BY NowFacts DEF Now, Good
<1>1. Running(J) = Running(jobs) /\ Leased(E) = Leased(external)
  BY <1>0, PreemptSameFront
<1>2. DOMAIN E = DOMAIN external /\ \A id \in DOMAIN J : J[id].cost \in Nat
  <2>1. SameUpToFlags(next, jobs, external, J, E)
    BY <1>0, PreemptFacts
  <2> HIDE DEF J, E
  <2>2. QED
    BY <1>0, <2>1 DEF SameUpToFlags, GoodJobs, JobType
<1>3. /\ UNCHANGED consumers /\ external' = E
      /\ \/ UNCHANGED <<reserved, workers>>
         \/ \E id \in Startable(J, E) :
              /\ reserved' = reserved + J[id].cost
              /\ workers' = Insert(workers, next, J[id].cost)
  BY DEF NextReady
<1> HIDE DEF J, E
<1>4. RequestCount' <= Requests
  BY <1>2, <1>3, CountKept
<1>5. ASSUME NEW id \in Startable(J, E), reserved' = reserved + J[id].cost,
             workers' = Insert(workers, next, J[id].cost)
      PROVE  ReservationsExact'
  <2>1. Active(jobs, external) < Workers /\ J[id].cost <= WorkingBytes - reserved
        /\ J[id].cost \in Nat
    BY <1>1, <1>2 DEF Startable, Active
  <2>2. QED
    BY <1>4, <1>5, <2>1, ProcessStarts
<1>6. QED
  BY <1>3, <1>4, <1>5, NoProcess

(* admit_native_read reserves the cost it was given, or waits.             *)
LEMMA AdmitExact ==
  ASSUME IInv, ReservationsExact, NEW r \in DOMAIN external, NEW cost \in Costs,
         AdmitNativeRead(r, cost)
  PROVE  ReservationsExact'
<1> DEFINE known == [external EXCEPT ![r].cost = cost]
           J == PreemptedJobs(jobs, Victims(jobs, known, reserved))
           E == PreemptedReads(known, Victims(jobs, known, reserved))
<1>0. /\ next \in Nat /\ GoodJobs(next, jobs) /\ GoodReads(next, jobs, external)
      /\ cost \in Nat
  BY NowFacts DEF Now, Good
<1>1. /\ DOMAIN known = DOMAIN external
      /\ \A x \in DOMAIN known : known[x] \in ReadType(next) /\ known[x].lease = external[x].lease
  BY <1>0 DEF GoodReads, ReadType
<1>2. /\ UNCHANGED consumers
      /\ DOMAIN external' = DOMAIN known
      /\ \/ UNCHANGED <<reserved, workers>>
         \/ /\ Active(J, E) < Workers /\ cost <= WorkingBytes - reserved
            /\ reserved' = reserved + cost
            /\ workers' = Insert(workers, next, cost)
  BY DEF AdmitNativeRead, PreemptedReads
<1> HIDE DEF known
<1>3. GoodReads(next, jobs, known)
  BY <1>0, <1>1 DEF GoodReads
<1>4. Running(J) = Running(jobs) /\ Leased(E) = Leased(known)
  BY <1>0, <1>3, PreemptSameFront
<1>5. Leased(known) = Leased(external)
  BY <1>1 DEF Leased
<1> HIDE DEF J, E
<1>6. RequestCount' <= Requests
  BY <1>1, <1>2, CountKept
<1>7. CASE UNCHANGED <<reserved, workers>>
  BY <1>6, <1>7, NoProcess
<1>8. CASE /\ Active(J, E) < Workers /\ cost <= WorkingBytes - reserved
           /\ reserved' = reserved + cost
           /\ workers' = Insert(workers, next, cost)
  <2>1. Active(jobs, external) < Workers
    BY <1>4, <1>5, <1>8 DEF Active
  <2>2. QED
    BY <1>0, <1>6, <1>8, <2>1, ProcessStarts
<1>9. QED
  BY <1>2, <1>7, <1>8

(* The bytes of a started job or read are those its process may use.       *)
LEMMA BytesOfLease ==
  ASSUME IInv
  PROVE  /\ \A id \in DOMAIN jobs : jobs[id].lease # NoLease =>
              jobs[id].lease \in DOMAIN workers /\ workers[jobs[id].lease] = jobs[id].cost
         /\ \A r \in DOMAIN external : external[r].lease # NoLease =>
              external[r].lease \in DOMAIN workers
              /\ workers[external[r].lease] = external[r].cost
BY NowFacts DEF Now, Good, GoodLeases

(* The calls that report a joined process, or change what one may use.     *)
LEMMA EndExact ==
  ASSUME IInv, ReservationsExact,
         \/ \E lease \in Ids : Finished(lease)
         \/ \E r \in DOMAIN external : \/ \E cost \in Costs : \/ UpgradeNativeRead(r, cost)
                                                              \/ RequeueNativeRead(r, cost)
                                       \/ ReleaseNativeRead(r)
  PROVE  ReservationsExact'
<1>1. ASSUME NEW lease \in Ids, Finished(lease) PROVE ReservationsExact'
  <2>1. PICK id \in LeaseOwner(lease) : Reap(id)
    BY <1>1 DEF Finished, FinishedCall
  <2>2. lease # NoLease
    BY DEF Ids, NoLease
  <2>3. id \in DOMAIN jobs /\ jobs[id].lease = lease
    BY <2>1 DEF LeaseOwner
  <2>4. lease \in DOMAIN workers /\ workers[lease] = jobs[id].cost
    BY <2>2, <2>3, BytesOfLease
  <2>5. /\ workers' = Remove(workers, lease) /\ reserved' = reserved - workers[lease]
        /\ UNCHANGED external /\ DOMAIN consumers' \subseteq DOMAIN consumers
    BY <1>1, <2>1, <2>4 DEF Finished, Reap
  <2>6. QED
    BY <2>4, <2>5, CountKept, ProcessEnds
<1>2. ASSUME NEW r \in DOMAIN external, NEW cost \in Costs, UpgradeNativeRead(r, cost)
      PROVE  ReservationsExact'
  <2>1. PICK l : l = external[r].lease
    OBVIOUS
  <2>2. l \in DOMAIN workers /\ workers[l] = external[r].cost /\ cost \in Nat
    BY <1>2, <2>1, BytesOfLease, CostsAssumption DEF UpgradeNativeRead
  <2>3. /\ UpgradeFits(workers[l], cost)
        /\ workers' = [workers EXCEPT ![l] = cost] /\ reserved' = reserved - workers[l] + cost
        /\ UNCHANGED consumers /\ DOMAIN external' = DOMAIN external
    BY <1>2, <2>1, <2>2 DEF UpgradeNativeRead
  <2>4. QED
    BY <2>2, <2>3, CountKept, ProcessUpgraded
<1>3. ASSUME NEW r \in DOMAIN external, NEW cost \in Costs, RequeueNativeRead(r, cost)
      PROVE  ReservationsExact'
  <2>1. PICK l : l = external[r].lease
    OBVIOUS
  <2>2. l \in DOMAIN workers /\ workers[l] = external[r].cost
    BY <1>3, <2>1, BytesOfLease DEF RequeueNativeRead
  <2>3. /\ workers' = Remove(workers, l) /\ reserved' = reserved - workers[l]
        /\ UNCHANGED consumers /\ DOMAIN external' = DOMAIN external
    BY <1>3, <2>1, <2>2 DEF RequeueNativeRead, Preempt, PreemptedReads
  <2>4. QED
    BY <2>2, <2>3, CountKept, ProcessEnds
<1>4. ASSUME NEW r \in DOMAIN external, ReleaseNativeRead(r) PROVE ReservationsExact'
  <2>1. PICK l : l = external[r].lease
    OBVIOUS
  <2>2. l \in DOMAIN workers /\ workers[l] = external[r].cost
    BY <1>4, <2>1, BytesOfLease DEF ReleaseNativeRead
  <2>3. /\ workers' = Remove(workers, l) /\ reserved' = reserved - workers[l]
        /\ UNCHANGED consumers /\ DOMAIN external' \subseteq DOMAIN external
    BY <1>4, <2>1, <2>2 DEF ReleaseNativeRead, Remove
  <2>4. QED
    BY <2>2, <2>3, CountKept, ProcessEnds
<1>5. QED
  BY <1>1, <1>2, <1>3, <1>4

(* A new scheduler has reserved nothing.                                   *)
LEMMA ExactInitially == Init => ReservationsExact
<1> SUFFICES ASSUME Init PROVE ReservationsExact
  OBVIOUS
<1>1. /\ DOMAIN workers = {} /\ DOMAIN consumers = {} /\ DOMAIN external = {}
      /\ reserved = 0
  BY DEF Init, Empty
<1>2. IsFiniteSet({}) /\ Cardinality({}) = 0
  BY FS_EmptySet
<1>3. SumFunction(workers) = 0
  BY <1>1, <1>2, SumUnfolds DEF SumFunction
<1>4. QED
  BY <1>1, <1>2, <1>3, LimitsAssumption DEF ReservationsExact, LimitsHeld, RequestCount

(***************************************************************************)
(* The working bytes the scheduler holds are, at every moment and for all  *)
(* limits, the sum of what the live processes may use, and the configured  *)
(* numbers of workers, bytes and requests are never exceeded: no call      *)
(* releases early, twice or not at all, so the u64 subtractions of         *)
(* finished, upgrade, requeue and release never wrap.                      *)
(***************************************************************************)
THEOREM ReservationsAreExact == Spec => []ReservationsExact
<1>1. IInv /\ ReservationsExact /\ [Next]_vars => ReservationsExact'
  <2> SUFFICES ASSUME IInv, ReservationsExact, [Next]_vars PROVE ReservationsExact'
    OBVIOUS
  <2>1. CASE UNCHANGED vars
    <3>1. UNCHANGED <<workers, reserved, consumers, external>>
      BY <2>1 DEF vars
    <3>2. QED
      BY <3>1, CountKept, NoProcess
  <2>2. ASSUME NEW lease \in Ids, FinishedLate(lease) PROVE ReservationsExact'
    BY <2>1, <2>2, FinishedLateStep
  <2>3. CASE NextReady
    BY <2>3, NextReadyExact
  <2>4. ASSUME NEW r \in DOMAIN external, NEW cost \in Costs, AdmitNativeRead(r, cost)
        PROVE  ReservationsExact'
    BY <2>4, AdmitExact
  <2>5. QED
    BY <2>1, <2>2, <2>3, <2>4, QuietExact, EndExact DEF Next
<1>2. QED
  BY <1>1, ExactInitially, Invariance, PTL DEF Spec
=============================================================================
