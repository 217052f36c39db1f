---------------------------- MODULE IOTableProofs ----------------------------
(***************************************************************************)
(* Proofs about IOManager without any rule for the program: what becomes   *)
(* of the count of pending events, of the scheduler pointer of a triggered *)
(* event and of the table of contexts when descriptors are used in both    *)
(* directions, hang up, and make the table grow at the same time.          *)
(***************************************************************************)
EXTENDS IOManagerProofs

-----------------------------------------------------------------------------
(* The scheduler of a triggered event *)

(* triggerEvent lacks a scheduler to call only on a context both of whose  *)
(* events have had a user: a poller triggers what it was told only if one  *)
(* of the events is registered, a registered event has a scheduler, and    *)
(* what was never registered has nobody to schedule.  Results that a       *)
(* poller got before a cancellation or a new registration, and hang-ups,   *)
(* never crash the process on a descriptor used in one direction.          *)
THEOREM TriggerHasScheduler == Spec => []CrashNeedsBoth
<1>1. Init => CrashNeedsBoth
  BY DEF Init, CrashNeedsBoth
<1>2. BaseInv /\ SlotInv /\ CrashNeedsBoth /\ [Next]_vars => CrashNeedsBoth'
  <2> SUFFICES ASSUME BaseInv, SlotInv, CrashNeedsBoth, [Next]_vars
               PROVE  CrashNeedsBoth'
    OBVIOUS
  <2>1. CASE Quiet
    <3>1. \A c \in Contexts, e \in Events : Handler(c, e)' = Handler(c, e)
      BY <2>1, SameSlotSameHandler DEF Quiet
    <3> QED
      BY <2>1, <3>1 DEF Quiet, CrashNeedsBoth
  <2>2. ASSUME NEW c \in Contexts, NEW es \in SUBSET Events,
               NEW left \in SUBSET Events, Triggers(c, es, left)
        PROVE  CrashNeedsBoth'
    <3> SUFFICES ASSUME proc' = "crashed"
                 PROVE  \A e \in Events : Handler(c, e)'.caller # None
      BY DEF CrashNeedsBoth
    <3>1. PICK f \in events[c] : f \in es
      BY <2>2 DEF Triggers
    <3>2. f \in Events /\ slot[c][f].scheduler = TRUE /\ Handler(c, f).caller # None
      BY <3>1 DEF SlotInv, BaseInv, TypeOK
    <3>3. proc = "up"
      BY <2>2 DEF Triggers
    <3>4. proc' = IF \E g \in es : NullSchedule(c, g) THEN "crashed" ELSE proc
      BY <2>2 DEF Triggers, TriggerEvents
    <3>5. PICK g \in es : NullSchedule(c, g)
      BY <3>3, <3>4
    <3>6. g # f /\ Handler(c, g).caller # None
      BY <3>2, <3>5 DEF NullSchedule
    <3>7. \A e \in Events : e = f \/ e = g
      BY <3>2, <3>5, <3>6 DEF Events
    <3>8. \A e \in Events : Handler(c, e)' = Handler(c, e)
      BY <2>2, TriggersOne DEF BaseInv
    <3> QED
      BY <3>2, <3>6, <3>7, <3>8
  <2>3. ASSUME NEW k \in Callers, NEW c \in Contexts, NEW e \in Events,
               Registers(k, c, e)
        PROVE  CrashNeedsBoth'
    BY <2>3 DEF Registers, CrashNeedsBoth
  <2>4. ASSUME NEW c \in Contexts, NEW e \in Events, Deletes(c, e)
        PROVE  CrashNeedsBoth'
    BY <2>4 DEF Deletes, CrashNeedsBoth
  <2> QED
    BY <2>1, <2>2, <2>3, <2>4, Steps
<1> QED
  BY <1>1, <1>2, SlotAlways, PTL DEF Spec

-----------------------------------------------------------------------------
(* The count of pending events *)

(* There are fewer registrations than the count can tell apart.            *)
LEMMA PendingBound ==
    /\ IsFiniteSet(Contexts \X Events)
    /\ Cardinality(Contexts \X Events) < CountMod
<1>1. IsFiniteSet(Fds) /\ MaxGen \in Nat /\ MaxGen >= 1
  BY IOAssumption DEF IOAssumption
<1>2. IsFiniteSet(1..MaxGen) /\ Cardinality(1..MaxGen) = MaxGen
  BY <1>1, FS_Interval
<1>3. IsFiniteSet(Events)
  BY EventsFinite
<1>4. /\ Cardinality(Fds) \in Nat /\ Cardinality(Events) \in Nat
  BY <1>1, <1>3, FS_CardinalityType
<1>5. IsFiniteSet(Contexts) /\ Cardinality(Contexts) = Cardinality(Fds) * MaxGen
  BY <1>1, <1>2, FS_Product DEF Contexts
<1>6. /\ IsFiniteSet(Contexts \X Events)
      /\ Cardinality(Contexts \X Events) =
            (Cardinality(Fds) * MaxGen) * Cardinality(Events)
  BY <1>3, <1>5, FS_Product
<1>7. Cardinality(Fds \X Events) = Cardinality(Fds) * Cardinality(Events)
  BY <1>1, <1>3, FS_Product
<1>8. \A a, b, m \in Nat : (a * m) * b = (a * b) * m
  OBVIOUS
<1>9. CountMod > (Cardinality(Fds) * Cardinality(Events)) * MaxGen
  BY <1>7, IOAssumption DEF IOAssumption
<1> QED
  BY <1>1, <1>4, <1>6, <1>8, <1>9

LEMMA PendingFinite ==
    /\ IsFiniteSet(Pending)
    /\ Cardinality(Pending) \in Nat
    /\ Cardinality(Pending) < CountMod
<1>1. Pending \in SUBSET (Contexts \X Events)
  BY DEF Pending
<1>2. /\ IsFiniteSet(Pending)
      /\ Cardinality(Pending) <= Cardinality(Contexts \X Events)
  BY <1>1, PendingBound, FS_Subset
<1>3. /\ Cardinality(Pending) \in Nat
      /\ Cardinality(Contexts \X Events) \in Nat
  BY <1>2, PendingBound, FS_CardinalityType
<1> QED
  BY <1>2, <1>3, PendingBound, CountModPositive

(* Arithmetic of a counter that wraps around at most once.                 *)
LEMMA WrapsOnce ==
    ASSUME NEW M \in Nat, M > 0, NEW x \in Nat, x < M + M
    PROVE  x % M = IF x < M THEN x ELSE x - M
<1>1. CASE x < M
  BY <1>1
<1>2. CASE x >= M
  <2>1. PICK y \in Nat : y < M /\ x = M + y
    <3>1. x - M \in Nat /\ x - M < M /\ x = M + (x - M)
      BY <1>2
    <3> QED
      BY <3>1
  <2>2. (M + y) % M = y
    BY <2>1
  <2> QED
    BY <2>1, <2>2
<1> QED
  BY <1>1, <1>2

(* One up.                                                                 *)
LEMMA CountUp ==
    ASSUME NEW M \in Nat, M > 0, NEW m \in 0..(M - 1), NEW d \in 0..(M - 1),
           NEW n \in Nat, n + 1 < M, (m + d) % M = n
    PROVE  (((m + 1) % M) + d) % M = n + 1
<1> DEFINE u == (m + 1) % M
<1>1. (m + d) % M = IF m + d < M THEN m + d ELSE m + d - M
  BY WrapsOnce
<1>2. u = IF m + 1 < M THEN m + 1 ELSE m + 1 - M
  BY WrapsOnce
<1>3. u \in 0..(M - 1)
  BY <1>2
<1> HIDE DEF u
<1>4. (u + d) % M = IF u + d < M THEN u + d ELSE u + d - M
  BY <1>3, WrapsOnce
<1>5. (u + d) % M = n + 1
  BY <1>1, <1>2, <1>3, <1>4
<1> QED
  BY <1>5 DEF u

(* The count goes down by a, of which b were not there: the drift takes    *)
(* them up.                                                                *)
LEMMA CountDown ==
    ASSUME NEW M \in Nat, M > 0, NEW m \in 0..(M - 1), NEW d \in 0..(M - 1),
           NEW a \in Nat, a <= M, NEW b \in Nat, b <= a,
           NEW n \in Nat, n < M, (m + d) % M = n, a - b <= n
    PROVE  (((m + M - a) % M) + ((d + b) % M)) % M = n - (a - b)
<1> DEFINE u == (m + M - a) % M
           v == (d + b) % M
<1>1. (m + d) % M = IF m + d < M THEN m + d ELSE m + d - M
  BY WrapsOnce
<1>2. u = IF m + M - a < M THEN m + M - a ELSE m + M - a - M
  <2>1. m + M - a \in Nat /\ m + M - a < M + M
    OBVIOUS
  <2> QED
    BY <2>1, WrapsOnce
<1>3. v = IF d + b < M THEN d + b ELSE d + b - M
  <2>1. d + b \in Nat /\ d + b < M + M
    OBVIOUS
  <2> QED
    BY <2>1, WrapsOnce
<1>4. u \in 0..(M - 1) /\ v \in 0..(M - 1)
  BY <1>2, <1>3
<1> HIDE DEF u, v
<1>5. (u + v) % M = IF u + v < M THEN u + v ELSE u + v - M
  BY <1>4, WrapsOnce
<1>6. (u + v) % M = n - (a - b)
  BY <1>1, <1>2, <1>3, <1>4, <1>5
<1> QED
  BY <1>6 DEF u, v

(* One more registration, one more pending event.                          *)
LEMMA OneMore ==
    ASSUME TypeOK, PendingCount, NEW c \in Contexts, NEW e \in Events,
           e \notin events[c], events' = [events EXCEPT ![c] = @ \cup {e}],
           m_pendingEventCount' = (m_pendingEventCount + 1) % CountMod,
           drift' = drift
    PROVE  PendingCount'
<1>1. Pending' = Pending \cup {<<c, e>>} /\ <<c, e>> \notin Pending
  BY DEF Pending, TypeOK
<1>2. Cardinality(Pending') = Cardinality(Pending) + 1
  BY <1>1, PendingFinite, FS_AddElement
<1>3. /\ Cardinality(Pending') \in Nat
      /\ Cardinality(Pending') < CountMod
  <2>1. Pending' \in SUBSET (Contexts \X Events)
    BY DEF Pending
  <2>2. /\ IsFiniteSet(Pending')
        /\ Cardinality(Pending') <= Cardinality(Contexts \X Events)
    BY <2>1, PendingBound, FS_Subset
  <2>3. /\ Cardinality(Pending') \in Nat
        /\ Cardinality(Contexts \X Events) \in Nat
    BY <2>2, PendingBound, FS_CardinalityType
  <2> QED
    BY <2>2, <2>3, PendingBound, CountModPositive
<1>4. /\ m_pendingEventCount \in 0..(CountMod - 1)
      /\ drift \in 0..(CountMod - 1)
      /\ CountMod \in Nat /\ CountMod > 0
  BY CountModPositive DEF TypeOK
<1>5. Cardinality(Pending) \in Nat /\ Cardinality(Pending) + 1 < CountMod
  BY <1>2, <1>3, PendingFinite
<1>6. (((m_pendingEventCount + 1) % CountMod) + drift) % CountMod
          = Cardinality(Pending) + 1
  BY <1>4, <1>5, CountUp DEF PendingCount
<1> QED
  BY <1>2, <1>6 DEF PendingCount

(* The events es of a context are counted off; those of them that were not *)
(* registered go to the drift.                                             *)
LEMMA SomeLess ==
    ASSUME TypeOK, PendingCount, NEW c \in Contexts, NEW es \in SUBSET Events,
           \A x \in Contexts :
               events'[x] = IF x = c THEN events[x] \ es ELSE events[x],
           m_pendingEventCount' = Less(Cardinality(es)),
           drift' = (drift + Cardinality(es \ events[c])) % CountMod
    PROVE  PendingCount'
<1> DEFINE hit == es \cap events[c]
           miss == es \ events[c]
           gone == {c} \X es
<1>1. /\ IsFiniteSet(es) /\ IsFiniteSet(hit) /\ IsFiniteSet(miss)
      /\ Cardinality(es) \in Nat /\ Cardinality(hit) \in Nat
      /\ Cardinality(miss) \in Nat
  <2>1. es \in SUBSET Events /\ hit \in SUBSET Events /\ miss \in SUBSET Events
    OBVIOUS
  <2>2. IsFiniteSet(es) /\ IsFiniteSet(hit) /\ IsFiniteSet(miss)
    BY <2>1, EventsFinite
  <2> HIDE DEF hit, miss
  <2> QED
    BY <2>2, FS_CardinalityType
<1>2. Cardinality(miss) = Cardinality(es) - Cardinality(hit)
  BY <1>1, FS_Difference
<1>3. /\ IsFiniteSet({c}) /\ Cardinality({c}) = 1
  BY FS_Singleton
<1>4. ASSUME NEW S, IsFiniteSet(S), Cardinality(S) \in Nat
       PROVE  Cardinality({c} \X S) = Cardinality(S)
  <2>1. Cardinality({c} \X S) = Cardinality({c}) * Cardinality(S)
    BY <1>3, <1>4, FS_Product
  <2>2. \A n \in Nat : 1 * n = n
    OBVIOUS
  <2> QED
    BY <1>3, <1>4, <2>1, <2>2
<1>5. Cardinality(gone) = Cardinality(es)
  BY <1>1, <1>4
<1>6. Cardinality({c} \X hit) = Cardinality(hit)
  BY <1>1, <1>4
<1>7. Pending' = Pending \ gone
  <2>1. \A x \in Contexts, f \in Events :
            f \in events'[x] <=> f \in events[x] /\ ~(x = c /\ f \in es)
    OBVIOUS
  <2>2. \A y \in Contexts \X Events :
            y[2] \in events'[y[1]] <=> y[2] \in events[y[1]] /\ y \notin gone
    BY <2>1
  <2> QED
    BY <2>2 DEF Pending
<1>8. Pending \cap gone = {c} \X hit
  <2>1. \A y \in gone : y \in Contexts \X Events /\ y[1] = c /\ y[2] \in es
    OBVIOUS
  <2>2. \A y \in {c} \X hit : y \in gone /\ y[2] \in events[y[1]]
    OBVIOUS
  <2>3. \A y \in gone : y[2] \in events[c] => y \in {c} \X hit
    OBVIOUS
  <2> HIDE DEF gone, hit
  <2> QED
    BY <2>1, <2>2, <2>3 DEF Pending
<1>9. Cardinality(Pending') = Cardinality(Pending) - Cardinality(hit)
  <2>1. Cardinality(Pending \ gone)
            = Cardinality(Pending) - Cardinality(Pending \cap gone)
    BY PendingFinite, FS_Difference
  <2> HIDE DEF gone, hit
  <2> QED
    BY <1>6, <1>7, <1>8, <2>1
<1>10. Cardinality(hit) <= Cardinality(Pending)
  <2>1. {c} \X hit \in SUBSET Pending
    BY <1>8
  <2> HIDE DEF hit
  <2> QED
    BY <1>6, <2>1, PendingFinite, FS_Subset
<1>11. Cardinality(es) <= CountMod
  <2>1. gone \in SUBSET (Contexts \X Events)
    OBVIOUS
  <2>2. /\ Cardinality(gone) <= Cardinality(Contexts \X Events)
        /\ Cardinality(Contexts \X Events) \in Nat
    <3> HIDE DEF gone
    <3> QED
      BY <2>1, PendingBound, FS_Subset, FS_CardinalityType
  <2> HIDE DEF gone
  <2> QED
    BY <1>1, <1>5, <2>2, PendingBound, CountModPositive
<1>12. /\ m_pendingEventCount \in 0..(CountMod - 1)
       /\ drift \in 0..(CountMod - 1)
       /\ CountMod \in Nat /\ CountMod > 0
  BY CountModPositive DEF TypeOK
<1>13. (m_pendingEventCount + drift) % CountMod = Cardinality(Pending)
  BY DEF PendingCount
<1>14. /\ m_pendingEventCount' = (m_pendingEventCount + CountMod - Cardinality(es)) % CountMod
       /\ drift' = (drift + Cardinality(miss)) % CountMod
  BY DEF Less
<1> HIDE DEF hit, miss, gone
<1>15. /\ Cardinality(miss) <= Cardinality(es)
       /\ Cardinality(es) - Cardinality(miss) = Cardinality(hit)
       /\ Cardinality(Pending) \in Nat /\ Cardinality(Pending) < CountMod
  BY <1>1, <1>2, PendingFinite
<1>16. (((m_pendingEventCount + CountMod - Cardinality(es)) % CountMod)
           + ((drift + Cardinality(miss)) % CountMod)) % CountMod
       = Cardinality(Pending) - (Cardinality(es) - Cardinality(miss))
  <2> DEFINE a == Cardinality(es)
             b == Cardinality(miss)
             n == Cardinality(Pending)
  <2>1. a \in Nat /\ b \in Nat /\ n \in Nat
    BY <1>1, <1>15
  <2>2. a <= CountMod /\ b <= a /\ n < CountMod /\ a - b <= n
    BY <1>10, <1>11, <1>15
  <2>3. (m_pendingEventCount + drift) % CountMod = n
    BY <1>13
  <2> HIDE DEF a, b, n
  <2>4. (((m_pendingEventCount + CountMod - a) % CountMod)
            + ((drift + b) % CountMod)) % CountMod = n - (a - b)
    BY <1>12, <2>1, <2>2, <2>3, CountDown
  <2> QED
    BY <2>4 DEF a, b, n
<1>17. (m_pendingEventCount' + drift') % CountMod = Cardinality(Pending')
  BY <1>9, <1>14, <1>15, <1>16
<1> QED
  BY <1>17 DEF PendingCount

(* m_pendingEventCount and the events counted off unregistered add up to   *)
(* the number of registered events: whatever registrations, cancellations, *)
(* pollers with old results and hang-ups do, the count goes wrong only     *)
(* where a poller counts off an event that is not registered, by as much   *)
(* and no more.                                                            *)
THEOREM CountExact == Spec => []PendingCount
<1>1. Init => PendingCount
  <2> SUFFICES ASSUME Init PROVE PendingCount
    OBVIOUS
  <2>1. Pending = {}
    BY DEF Init, Pending
  <2>2. (0 + 0) % CountMod = 0
    BY CountModPositive
  <2> QED
    BY <2>1, <2>2, FS_EmptySet DEF Init, PendingCount
<1>2. BaseInv /\ PendingCount /\ [Next]_vars => PendingCount'
  <2> SUFFICES ASSUME BaseInv, PendingCount, [Next]_vars
               PROVE  PendingCount'
    OBVIOUS
  <2>1. CASE Quiet
    BY <2>1 DEF Quiet, PendingCount, Pending
  <2>2. ASSUME NEW k \in Callers, NEW c \in Contexts, NEW e \in Events,
               Registers(k, c, e)
        PROVE  PendingCount'
    BY <2>2, OneMore DEF Registers, BaseInv
  <2>3. ASSUME NEW c \in Contexts, NEW es \in SUBSET Events,
               NEW left \in SUBSET Events, Triggers(c, es, left)
        PROVE  PendingCount'
    <3>1. \A x \in Contexts :
              events'[x] = IF x = c THEN events[x] \ es ELSE events[x]
      BY <2>3, TriggersOne DEF BaseInv
    <3>2. /\ m_pendingEventCount' = Less(Cardinality(es))
          /\ drift' = (drift + Cardinality(es \ events[c])) % CountMod
      BY <2>3 DEF Triggers
    <3> QED
      BY <3>1, <3>2, SomeLess DEF BaseInv
  <2>4. ASSUME NEW c \in Contexts, NEW e \in Events, Deletes(c, e)
        PROVE  PendingCount'
    <3>1. \A x \in Contexts :
              events'[x] = IF x = c THEN events[x] \ {e} ELSE events[x]
      BY <2>4, DeletesOne DEF BaseInv
    <3>2. Cardinality({e} \ events[c]) = 0
      <4>1. {e} \ events[c] = {}
        BY <2>4 DEF Deletes
      <4> QED
        BY <4>1, FS_EmptySet
    <3>3. (drift + 0) % CountMod = drift
      <4>1. 0 \in Int
        OBVIOUS
      <4> QED
        BY <4>1, CountRange DEF BaseInv
    <3>4. /\ m_pendingEventCount' = Less(Cardinality({e}))
          /\ drift' = (drift + Cardinality({e} \ events[c])) % CountMod
      BY <2>4, <3>2, <3>3 DEF Deletes
    <3>5. {e} \in SUBSET Events
      OBVIOUS
    <3> QED
      BY <3>1, <3>4, <3>5, SomeLess DEF BaseInv
  <2> QED
    BY <2>1, <2>2, <2>3, <2>4, Steps
<1> QED
  BY <1>1, <1>2, BaseAlways, PTL DEF Spec

-----------------------------------------------------------------------------
(* The table of contexts *)

(* The table never loses what it started with.                             *)
SizeInv == \A d \in Fds : d < Grown => m_fdContexts[d] # 0

(* Who has found no context asked for a descriptor beyond the table as it  *)
(* was made; who has found one would find the same, unless a late resize   *)
(* can drop it.                                                            *)
LookupInv ==
    \A k \in Callers :
        /\ pc[k] = "resize" => want[k].fd >= Grown
        /\ pc[k] = "body" /\ proc = "up" /\ ~Droppable(held[k][1]) =>
               m_fdContexts[held[k][1]] = held[k][2]

TableInv == SizeInv /\ LookupInv /\ Cancellable

(* The steps that leave the table and the callers inside addEvent alone.   *)
Outside ==
    /\ UNCHANGED m_fdContexts
    /\ proc' = "up" => proc = "up"
    /\ \A k \in Callers : pc'[k] \in {"resize", "body"} =>
          pc'[k] = pc[k] /\ want'[k] = want[k] /\ held'[k] = held[k]
    /\ \A c \in Contexts : events'[c] \subseteq events[c]

LEMMA TableOutside ==
    ASSUME TableInv, Outside
    PROVE  TableInv'
<1>1. SizeInv'
  BY DEF TableInv, SizeInv, Outside
<1>2. LookupInv'
  BY DEF TableInv, LookupInv, Outside, Droppable
<1>3. Cancellable'
  BY DEF TableInv, Cancellable, Outside, Droppable
<1> QED
  BY <1>1, <1>2, <1>3 DEF TableInv

(* A resize, however late, keeps the contexts that are not droppable.      *)
LEMMA TableResize ==
    ASSUME BaseInv, TableInv, NEW k \in Callers, AddResize(k)
    PROVE  TableInv'
<1> DEFINE a == want[k].fd
           n == NewSize(a)
<1>1. a \in Fds /\ a >= Grown /\ <<a, want[k].event>> \in Uses[k]
  BY DEF AddResize, BaseInv, CallerInv, Requests, TableInv, LookupInv
<1>2. n \in Nat /\ a < n
  BY <1>1, NewSizeFits
<1>3. Fds \subseteq Nat /\ Grown \in Nat
  BY IOAssumption DEF IOAssumption
<1>4. TypeOK /\ Resize(n)
  BY DEF AddResize, BaseInv
<1>5. \A d \in Fds : ~Droppable(d) => d < n
  <2> SUFFICES ASSUME NEW d \in Fds, ~Droppable(d) PROVE d < n
    OBVIOUS
  <2>1. ~(n <= d)
    BY <1>1 DEF Droppable
  <2>2. d \in Nat
    BY <1>3
  <2> HIDE DEF n
  <2> QED
    BY <1>2, <2>1, <2>2
<1> HIDE DEF n
<1>6. \A d \in Fds : d < n => m_fdContexts'[d] # 0
  BY <1>2, <1>4, ResizeKeeps
<1>7. \A d \in Fds : d < n /\ m_fdContexts[d] # 0 =>
                          m_fdContexts'[d] = m_fdContexts[d]
  BY <1>2, <1>3, <1>4 DEF Resize
<1>8. \A d \in Fds : ~Droppable(d) /\ m_fdContexts[d] # 0 =>
                          m_fdContexts'[d] = m_fdContexts[d]
  BY <1>5, <1>7
<1>9. SizeInv'
  <2> SUFFICES ASSUME NEW d \in Fds, d < Grown PROVE m_fdContexts'[d] # 0
    BY DEF SizeInv
  <2>1. a \in Nat /\ d \in Nat
    BY <1>1, <1>3
  <2> HIDE DEF a
  <2>2. d < n
    BY <1>1, <1>2, <1>3, <2>1
  <2> QED
    BY <1>6, <2>2
<1>10. /\ pc[k] = "resize" /\ proc' = proc /\ want' = want /\ events' = events
       /\ pc' = [pc EXCEPT ![k] = "body"]
       /\ held' = [held EXCEPT ![k] = <<a, m_fdContexts'[a]>>]
  BY DEF AddResize, contexts
<1>11. LookupInv'
  <2> SUFFICES ASSUME NEW l \in Callers
               PROVE  /\ pc'[l] = "resize" => want'[l].fd >= Grown
                      /\ pc'[l] = "body" /\ proc' = "up"
                             /\ ~Droppable(held'[l][1]) =>
                             m_fdContexts'[held'[l][1]] = held'[l][2]
    BY DEF LookupInv, Droppable
  <2>1. CASE l = k
    BY <1>10, <2>1 DEF BaseInv, TypeOK
  <2>2. CASE l # k
    <3>1. pc'[l] = pc[l] /\ held'[l] = held[l]
      BY <1>10, <2>2 DEF BaseInv, TypeOK
    <3>2. pc[l] = "resize" => want[l].fd >= Grown
      BY DEF TableInv, LookupInv
    <3>3. ASSUME pc[l] = "body", proc = "up", ~Droppable(held[l][1])
          PROVE  m_fdContexts'[held[l][1]] = held[l][2]
      <4>1. held[l] \in Contexts
        BY <3>3 DEF BaseInv, CallerInv
      <4>2. held[l][1] \in Fds /\ held[l][2] # 0
        BY <4>1, IOAssumption DEF IOAssumption, Contexts
      <4>3. m_fdContexts[held[l][1]] = held[l][2]
        BY <3>3 DEF TableInv, LookupInv
      <4> QED
        BY <1>8, <3>3, <4>2, <4>3
    <3> QED
      BY <1>10, <3>1, <3>2, <3>3
  <2> QED
    BY <2>1, <2>2
<1>12. Cancellable'
  <2> SUFFICES ASSUME NEW c \in Contexts, events[c] # {}, ~Droppable(c[1])
               PROVE  m_fdContexts'[c[1]] = c[2]
    BY <1>10 DEF Cancellable, Droppable
  <2>1. c[1] \in Fds /\ c[2] # 0
    BY IOAssumption DEF IOAssumption, Contexts
  <2>2. m_fdContexts[c[1]] = c[2]
    BY DEF TableInv, Cancellable
  <2> QED
    BY <1>8, <2>1, <2>2
<1> QED
  BY <1>9, <1>11, <1>12 DEF TableInv

LEMMA TableAdd ==
    ASSUME BaseInv, TableInv, NEW k \in Callers,
           (\E r \in Requests : AddEvent(k, r)) \/ AddBody(k)
    PROVE  TableInv'
<1> USE DEF BaseInv, table, contexts
<1>1. ASSUME NEW r \in Requests, AddEvent(k, r) PROVE TableInv'
  <2>1. SizeInv' /\ Cancellable'
    BY <1>1 DEF AddEvent, TableInv, SizeInv, Cancellable, Droppable
  <2>2. /\ m_fdContexts' = m_fdContexts /\ proc' = proc
        /\ want' = [want EXCEPT ![k] = r]
        /\ \/ /\ held' = [held EXCEPT ![k] = <<r.fd, m_fdContexts[r.fd]>>]
              /\ pc' = [pc EXCEPT ![k] = "body"]
           \/ /\ m_fdContexts[r.fd] = 0
              /\ pc' = [pc EXCEPT ![k] = "resize"]
              /\ held' = held
    BY <1>1 DEF AddEvent
  <2>3. m_fdContexts[r.fd] = 0 => r.fd >= Grown
    <3>1. r.fd \in Fds /\ r.fd \in Nat /\ Grown \in Nat
      BY IOAssumption DEF IOAssumption, Requests
    <3> QED
      BY <3>1 DEF TableInv, SizeInv
  <2>4. LookupInv'
    BY <2>2, <2>3 DEF TableInv, LookupInv, TypeOK, Droppable
  <2> QED
    BY <2>1, <2>4 DEF TableInv
<1>2. ASSUME AddBody(k) PROVE TableInv'
  <2> DEFINE c == held[k]
  <2>1. /\ c \in Contexts
        /\ ~Droppable(c[1]) => m_fdContexts[c[1]] = c[2]
        /\ m_fdContexts' = m_fdContexts /\ proc = "up" /\ want' = want
        /\ held' = [held EXCEPT ![k] = None]
    BY <1>2 DEF AddBody, CallerInv, TableInv, LookupInv
  <2>2. \/ proc' # "up" /\ pc' = pc
        \/ pc' = [pc EXCEPT ![k] = "idle"]
        \/ pc' = [pc EXCEPT ![k] = "waiting"]
    BY <1>2 DEF AddBody
  <2>3. \/ events' = events
        \/ \E e : events' = [events EXCEPT ![c] = @ \cup {e}]
    BY <1>2 DEF AddBody
  <2> HIDE DEF c
  <2>4. SizeInv'
    BY <2>1 DEF TableInv, SizeInv
  <2>5. LookupInv'
    BY <2>1, <2>2 DEF TableInv, LookupInv, TypeOK, Droppable
  <2>6. \A x \in Contexts : events'[x] = events[x] \/ x = c
    BY <2>1, <2>3 DEF TypeOK
  <2>7. Cancellable'
    BY <2>1, <2>6 DEF TableInv, Cancellable, Droppable
  <2> QED
    BY <2>4, <2>5, <2>7 DEF TableInv
<1> QED
  BY <1>1, <1>2

(* Whatever triggers or deletes events, the callers inside addEvent do not *)
(* notice.                                                                 *)
LEMMA RemovesOutside ==
    ASSUME BaseInv, UNCHANGED <<m_fdContexts, held>>,
           \/ \E c \in Contexts, es, left \in SUBSET Events : Triggers(c, es, left)
           \/ \E c \in Contexts, e \in Events : Deletes(c, e)
    PROVE  Outside
<1> USE DEF BaseInv
<1>1. ASSUME NEW c \in Contexts, NEW es \in SUBSET Events,
             NEW left \in SUBSET Events, Triggers(c, es, left)
      PROVE  Outside
  <2>1. proc = "up" /\ want' = want
    BY <1>1 DEF Triggers
  <2>2. \A x \in Contexts :
            events'[x] = IF x = c THEN events[x] \ es ELSE events[x]
    BY <1>1, TriggersOne
  <2>3. \A k \in Callers : pc'[k] = IF \E e \in es : Wakes(c, e, k)
                                    THEN "idle" ELSE pc[k]
    BY <1>1, TriggersOne
  <2> QED
    BY <2>1, <2>2, <2>3 DEF Outside
<1>2. ASSUME NEW c \in Contexts, NEW e \in Events, Deletes(c, e)
      PROVE  Outside
  <2>1. proc = "up" /\ want' = want
    BY <1>2 DEF Deletes
  <2>2. \A x \in Contexts :
            events'[x] = IF x = c THEN events[x] \ {e} ELSE events[x]
    BY <1>2, DeletesOne
  <2>3. \A k \in Callers : pc'[k] = IF Wakes(c, e, k) THEN "dropped" ELSE pc[k]
    BY <1>2, DeletesOne
  <2> QED
    BY <2>1, <2>2, <2>3 DEF Outside
<1> QED
  BY <1>1, <1>2

LEMMA TableStep ==
    ASSUME BaseInv, TableInv, [Next]_vars
    PROVE  TableInv'
<1> USE DEF BaseInv, table, contexts, callers, pollers, kernel
<1>1. ASSUME \/ \E d \in Fds, e \in Events \cup {"HUP"} : BecomeReady(d, e)
             \/ \E k \in Callers, d \in Fds, e \in Events : Consume(k, d, e)
             \/ \E p \in Pollers : EpollWait(p) \/ LeaveIdle(p)
             \/ Stop
             \/ UNCHANGED vars
      PROVE  Outside
  <2>1. UNCHANGED <<m_fdContexts, proc, pc, want, held, events>>
    BY <1>1 DEF BecomeReady, Consume, EpollWait, LeaveIdle, Stop, vars
  <2> QED
    BY <2>1 DEF Outside
<1>2. ASSUME NEW d \in Fds, NEW e \in Events, DelEvent(d, e)
      PROVE  Outside
  <2> DEFINE c == <<d, m_fdContexts[d]>>
  <2>1. c \in Contexts /\ e \in events[c]
        /\ m_pendingEventCount' = Less(Cardinality({e})) /\ drift' = drift
    BY <1>2, UnregisterKeeps DEF DelEvent
  <2>2. Deletes(c, e)
    BY <1>2, <2>1 DEF DelEvent, Unregister, Deletes
  <2>3. UNCHANGED <<m_fdContexts, held>>
    BY <1>2 DEF DelEvent
  <2> HIDE DEF c
  <2> QED
    BY <2>1, <2>2, <2>3, RemovesOutside
<1>3. ASSUME NEW d \in Fds, NEW es, Unregister(d, es), WakeCancelled(d, es),
             UNCHANGED <<table, want, held, pollers>>
      PROVE  Outside
  <2> DEFINE c == <<d, m_fdContexts[d]>>
  <2>1. /\ c \in Contexts /\ es \in SUBSET Events /\ es \subseteq events[c]
        /\ es # {} /\ events[c] \ es \in SUBSET Events
        /\ m_pendingEventCount' = Less(Cardinality(es))
        /\ drift' = (drift + Cardinality(es \ events[c])) % CountMod
    BY <1>3, UnregisterKeeps DEF TypeOK
  <2>2. TriggerEvents(c, es, events[c] \ es)
    BY <1>3 DEF WakeCancelled
  <2>3. Triggers(c, es, events[c] \ es)
    BY <1>3, <2>1, <2>2 DEF Triggers, Unregister
  <2> HIDE DEF c
  <2> QED
    BY <1>3, <2>1, <2>3, RemovesOutside
<1>4. ASSUME NEW p \in Pollers, NEW r \in results[p], ProcessEvent(p, r)
      PROVE  Outside
  <2>1. UNCHANGED <<m_fdContexts, held, want>>
    BY <1>4 DEF ProcessEvent
  <2>2. CASE ~Concerns(r)
    BY <1>4, <2>1, <2>2 DEF ProcessEvent, Outside
  <2>3. CASE Concerns(r)
    <3>1. Triggers(r.ctx, Occurred(r), events[r.ctx] \ Occurred(r))
      BY <1>4, <2>3 DEF ProcessEvent, Concerns, Triggers
    <3>2. /\ r.ctx \in Contexts /\ Occurred(r) \in SUBSET Events
          /\ events[r.ctx] \ Occurred(r) \in SUBSET Events
      BY DEF TypeOK, Occurred
    <3> QED
      BY <2>1, <3>1, <3>2, RemovesOutside
  <2> QED
    BY <2>2, <2>3
<1>5. ASSUME NEW d \in Fds, NEW e \in Events, CancelEvent(d, e) PROVE Outside
  BY <1>3, <1>5 DEF CancelEvent
<1>6. ASSUME NEW d \in Fds, CancelAll(d) PROVE Outside
  BY <1>3, <1>6 DEF CancelAll
<1>7. \/ Outside
      \/ \E k \in Callers : \/ \E r \in Requests : AddEvent(k, r)
                            \/ AddResize(k) \/ AddBody(k)
  BY <1>1, <1>2, <1>4, <1>5, <1>6 DEF Next, PollerStep
<1> QED
  BY <1>7, TableOutside, TableAdd, TableResize

(* A registered event is found by cancelEvent, unless its descriptor lies  *)
(* beyond the size that another addEvent can ask for: however the callers  *)
(* race to grow the table, with sizes computed before the write lock was   *)
(* taken, no other context in use is dropped or made twice.                *)
THEOREM RegisteredFound == Spec => []Cancellable
<1>1. Init => TableInv
  BY DEF Init, TableInv, SizeInv, LookupInv, Cancellable
<1>2. BaseInv /\ TableInv /\ [Next]_vars => TableInv'
  BY TableStep
<1>3. TableInv => Cancellable
  BY DEF TableInv
<1> QED
  BY <1>1, <1>2, <1>3, BaseAlways, PTL DEF Spec
=============================================================================
