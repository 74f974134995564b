-------------------------- MODULE BoundedQueueProofs --------------------------
(***************************************************************************)
(* Machine-checked proofs about BoundedQueue, for every set of threads,    *)
(* every capacity and every number of items and rounds.                    *)
(***************************************************************************)
EXTENDS BoundedQueue, FiniteSetTheorems, SequenceTheorems, TLAPS

-------------------------------------------------------------------------------
(* queue_init's check leaves a positive capacity.                          *)
LEMMA CapacityPositive == Capacity \in Nat /\ Capacity > 0
  BY QueueAssumption DEF PowersOfTwo

(* Indices stay in the ring, and advancing by one commutes with the offset *)
(* of an element.                                                          *)
LEMMA SlotFacts ==
  ASSUME NEW i \in Slots, NEW k \in 0 .. Capacity
  PROVE  /\ Slot(i, k) \in Slots
         /\ k < Capacity => Slot(Slot(i, 1), k) = Slot(i, k + 1)
         /\ k < Capacity => Slot(Slot(i, k), 1) = Slot(i, k + 1)
         /\ Slot(i, 0) = i
  BY CapacityPositive DEF Slot, Slots

(* Two offsets below the capacity name different slots.                    *)
LEMMA SlotInjective ==
  ASSUME NEW i \in Slots, NEW k \in 0 .. Capacity - 1, NEW l \in 0 .. Capacity - 1,
         Slot(i, k) = Slot(i, l)
  PROVE  k = l
  BY CapacityPositive DEF Slot, Slots

(* A thread of S in pthread_cond_wait makes the count of S positive.       *)
LEMMA WaitingCountPositive ==
  ASSUME NEW S, IsFiniteSet(S), NEW t \in S, pc[t] = "wait"
  PROVE  Cardinality(InWait(S)) - 1 \in Nat
  <1>1. IsFiniteSet(InWait(S)) /\ t \in InWait(S)
    BY FS_Subset DEF InWait
  <1>2. Cardinality(InWait(S)) \in Nat /\ Cardinality(InWait(S)) # 0
    BY <1>1, FS_EmptySet, FS_CardinalityType
  <1> QED
    BY <1>2

(* Every step keeps the types.                                            *)
LEMMA TypeOKStep ==
  ASSUME IInv, [Next]_vars
  PROVE  TypeOK'
<1>1. ASSUME NEW t \in Threads, Lock(t) \/ SpuriousWakeup(t) PROVE TypeOK'
  BY <1>1, QueueAssumption, CapacityPositive DEF Lock, store, gate, waiting,
    client, SpuriousWakeup, IInv, TypeOK, Threads, Locations, SyncStates
<1>2. ASSUME NEW t \in Threads, Wake(t) PROVE TypeOK'
  <2>1. TypeOK /\ WaitCounted
    BY DEF IInv
  <2>2. t \in Consumers => cWait - 1 \in Nat
    BY <1>2, <2>1, QueueAssumption, WaitingCountPositive DEF Wake, WaitCounted
  <2>3. t \in Producers => pWait - 1 \in Nat
    BY <1>2, <2>1, QueueAssumption, WaitingCountPositive DEF Wake, WaitCounted
  <2> QED
    BY <1>2, <2>1, <2>2, <2>3 DEF Wake, store, gate, client, TypeOK, Threads, Locations
<1>3. ASSUME NEW p \in Producers, PushClosed(p) PROVE TypeOK'
  BY <1>3, QueueAssumption, CapacityPositive DEF PushClosed, Return, store,
    gate, waiting, client, IInv, TypeOK, Threads, Locations, SyncStates
<1>4. ASSUME NEW p \in Producers, PushWait(p) PROVE TypeOK'
  BY <1>4, QueueAssumption, CapacityPositive DEF PushWait, Block, Return,
    store, gate, client, IInv, TypeOK, Threads, Locations, SyncStates
<1>5. ASSUME NEW p \in Producers, ProducerClose(p) PROVE TypeOK'
  BY <1>5, QueueAssumption, CapacityPositive DEF ProducerClose, CloseQueue,
    Broadcast, store, client, IInv, TypeOK, Threads, Locations, SyncStates
<1>6. ASSUME NEW p \in Producers, PushItem(p) PROVE TypeOK'
  <2>1. TypeOK /\ PusherHasItem /\ pc[p] \in {"crit", "back"}
    BY <1>6 DEF IInv, PushItem, Inside
  <2>2. sent[p] < Quota
    BY <2>1 DEF PusherHasItem
  <2>3. <<p, sent[p]>> \in Item /\ sent[p] + 1 \in 0 .. Quota
    BY <2>1, <2>2, QueueAssumption DEF TypeOK, Item
  <2>4. Slot(nextFree, 1) \in Slots /\ numElements + 1 \in 0 .. Capacity
    BY <2>1, <1>6, SlotFacts, CapacityPositive DEF TypeOK, PushItem
  <2>5. waitSet' \subseteq Threads
    BY <2>1, <1>6 DEF PushItem, Signal, TypeOK
  <2> QED
    BY <1>6, <2>1, <2>3, <2>4, <2>5 DEF PushItem, Return, gate, TypeOK, Threads, Locations
<1>7. ASSUME NEW c \in Consumers, TerminateBroadcast(c) \/ TerminateJoin(c)
      PROVE  TypeOK'
  BY <1>7, QueueAssumption, CapacityPositive DEF TerminateBroadcast,
    Broadcast, store, gate, client, TerminateJoin, waiting, IInv, TypeOK,
    Threads, Locations, SyncStates
<1>8. ASSUME NEW c \in Consumers, PopClosed(c) PROVE TypeOK'
  BY <1>8, QueueAssumption, CapacityPositive DEF PopClosed, Return, store,
    gate, waiting, client, IInv, TypeOK, Threads, Locations, SyncStates
<1>9. ASSUME NEW c \in Consumers, PopWait(c) PROVE TypeOK'
  BY <1>9, QueueAssumption, CapacityPositive DEF PopWait, Block, Return,
    store, gate, client, IInv, TypeOK, Threads, Locations, SyncStates
<1>10. ASSUME NEW c \in Consumers, TerminateClose(c) PROVE TypeOK'
  BY <1>10, QueueAssumption, CapacityPositive DEF TerminateClose, CloseQueue,
    Broadcast, store, IInv, TypeOK, Threads, Locations, SyncStates
<1>11. ASSUME NEW c \in Consumers, PopItem(c) PROVE TypeOK'
  <2>1. TypeOK /\ RingConsistent /\ numElements > 0
    BY <1>11 DEF IInv, PopItem
  <2>2. ring[nextAvail] \in Item
    BY <2>1, SlotFacts, CapacityPositive DEF RingConsistent, TypeOK
  <2>3. Append(popped, ring[nextAvail]) \in Seq(Item)
    BY <2>1, <2>2 DEF TypeOK
  <2>4. Slot(nextAvail, 1) \in Slots /\ numElements - 1 \in 0 .. Capacity
    BY <2>1, SlotFacts, CapacityPositive DEF TypeOK
  <2> QED
    <3>1. waitSet' \subseteq waitSet /\ pc' = [pc EXCEPT ![c] = "out"] /\ mutex' = NoThread
      BY <1>11 DEF PopItem, Return, Broadcast
    <3>2. /\ popped' \in Seq(Item) /\ nextAvail' \in Slots /\ numElements' \in 0 .. Capacity
      BY <1>11, <2>3, <2>4 DEF PopItem
    <3>3. UNCHANGED <<ring, nextFree, maxUsed, closed, producers, cWait, pWait, sync, sent,
                      terminated, round>>
      BY <1>11 DEF PopItem, gate
    <3>4. pc' \in [Threads -> Locations] /\ waitSet' \subseteq Threads
      BY <2>1, <3>1 DEF TypeOK, Locations
    <3> HIDE <1>11
    <3> QED
      BY <2>1, <3>1, <3>2, <3>3, <3>4 DEF TypeOK
<1>12. ASSUME SyncStart \/ SyncStep \/ QueueStat \/ UNCHANGED vars
      PROVE  TypeOK'
  <2>1. TypeOK
    BY DEF IInv
  <2>2. CASE QueueStat \/ UNCHANGED vars
    BY <2>1, <2>2, CapacityPositive DEF QueueStat, store, gate, waiting, client, vars, TypeOK
  <2>3. CASE SyncStart \/ SyncStep
    <3>1. /\ sync' \in SyncStates /\ waitSet' \subseteq waitSet
          /\ UNCHANGED <<store, gate, cWait, pWait, mutex, pc, client>>
      BY <2>3 DEF SyncStart, store, gate, waiting, client, SyncStep, SyncDone, SyncLoad,
        SyncBroadcast, Broadcast, SyncStates
    <3>2. waitSet' \subseteq Threads
      BY <2>1, <3>1 DEF TypeOK
    <3> QED
      BY <2>1, <3>1, <3>2 DEF store, gate, client, TypeOK
  <2> QED
    BY <1>12, <2>2, <2>3
<1>13. ASSUME Open PROVE TypeOK'
  <2>1. TypeOK
    BY DEF IInv
  <2>2. round + 1 \in 1 .. Rounds
    BY <1>13, <2>1, QueueAssumption DEF Open, TypeOK
  <2>3. pc' \in [Threads -> Locations]
    BY <1>13 DEF Open, Locations
  <2> QED
    BY <1>13, <2>1, <2>2, <2>3 DEF Open, store, waiting, TypeOK, SyncStates
<1> QED
  BY <1>1, <1>2, <1>3, <1>4, <1>5, <1>6, <1>7, <1>8, <1>9, <1>10, <1>11,
    <1>12, <1>13
  DEF Next, Acquire, Produce, Consume, Finished

-------------------------------------------------------------------------------
(* How a step of one thread changes the set of threads in                  *)
(* pthread_cond_wait, and its size.                                        *)
LEMMA InWaitUnchanged ==
  ASSUME TypeOK, NEW t \in Threads, NEW l \in Locations,
         pc' = [pc EXCEPT ![t] = l], pc[t] # "wait", l # "wait",
         NEW S \in SUBSET Threads
  PROVE  InWait(S)' = InWait(S)
  BY DEF TypeOK, InWait

LEMMA InWaitAdded ==
  ASSUME TypeOK, NEW t \in Threads,
         pc' = [pc EXCEPT ![t] = "wait"], pc[t] # "wait",
         NEW S \in SUBSET Threads, IsFiniteSet(S)
  PROVE  Cardinality(InWait(S)') = IF t \in S THEN Cardinality(InWait(S)) + 1
                                             ELSE Cardinality(InWait(S))
<1>1. InWait(S)' = IF t \in S THEN InWait(S) \cup {t} ELSE InWait(S)
  BY DEF TypeOK, InWait
<1>2. IsFiniteSet(InWait(S)) /\ t \notin InWait(S)
  BY FS_Subset DEF InWait
<1> QED
  BY <1>1, <1>2, FS_AddElement

LEMMA InWaitRemoved ==
  ASSUME TypeOK, NEW t \in Threads, NEW l \in Locations, l # "wait",
         pc' = [pc EXCEPT ![t] = l], pc[t] = "wait",
         NEW S \in SUBSET Threads, IsFiniteSet(S)
  PROVE  Cardinality(InWait(S)') = IF t \in S THEN Cardinality(InWait(S)) - 1
                                             ELSE Cardinality(InWait(S))
<1>1. InWait(S)' = IF t \in S THEN InWait(S) \ {t} ELSE InWait(S)
  BY DEF TypeOK, InWait
<1>2. IsFiniteSet(InWait(S)) /\ (t \in S => t \in InWait(S))
  BY FS_Subset DEF InWait
<1> QED
  BY <1>1, <1>2, FS_RemoveElement

(* A consumer (producer) blocked on the condition variable is counted.     *)
LEMMA BlockedIsCounted ==
  ASSUME TypeOK, WaitCounted
  PROVE  /\ cWait = 0 => waitSet \cap Consumers = {}
         /\ pWait = 0 => waitSet \cap Producers = {}
<1>1. IsFiniteSet(InWait(Consumers)) /\ IsFiniteSet(InWait(Producers))
  BY FS_Subset, QueueAssumption DEF InWait
<1>2. /\ waitSet \cap Consumers \subseteq InWait(Consumers)
      /\ waitSet \cap Producers \subseteq InWait(Producers)
  BY DEF WaitCounted, InWait
<1> QED
  BY <1>1, <1>2, FS_EmptySet DEF WaitCounted

(* Every step keeps c_wait and p_wait exact.                              *)
LEMMA WaitCountedStep ==
  ASSUME IInv, [Next]_vars
  PROVE  WaitCounted'
<1>1. ASSUME NEW t \in Threads, SpuriousWakeup(t) PROVE WaitCounted'
  BY <1>1 DEF SpuriousWakeup, store, gate, client, IInv, WaitCounted, InWait
<1>2. ASSUME NEW t \in Threads, Wake(t) PROVE WaitCounted'
  <2>1. TypeOK /\ WaitCounted /\ pc[t] = "wait" /\ t \notin waitSet
    BY <1>2 DEF IInv, Wake
  <2>2. /\ Cardinality(InWait(Consumers)') = IF t \in Consumers
                THEN Cardinality(InWait(Consumers)) - 1 ELSE Cardinality(InWait(Consumers))
        /\ Cardinality(InWait(Producers)') = IF t \in Producers
                THEN Cardinality(InWait(Producers)) - 1 ELSE Cardinality(InWait(Producers))
    BY <1>2, <2>1, InWaitRemoved, QueueAssumption DEF Wake, Threads, Locations
  <2>3. waitSet' \subseteq InWait(Threads)'
    BY <1>2, <2>1 DEF Wake, WaitCounted, InWait, TypeOK
  <2> QED
    BY <1>2, <2>1, <2>2, <2>3 DEF Wake, WaitCounted
<1>3. ASSUME NEW t \in Threads, Lock(t) PROVE WaitCounted'
  <2>1. TypeOK /\ WaitCounted /\ t \in Threads
    BY <1>3 DEF IInv, Threads
  <2>2. InWait(Consumers)' = InWait(Consumers) /\ InWait(Producers)' = InWait(Producers)
        /\ InWait(Threads)' = InWait(Threads)
    BY <1>3, <2>1, InWaitUnchanged DEF Lock, store, gate, waiting, client,
      Threads, Locations, Inside
  <2> QED
    BY <1>3, <2>1, <2>2 DEF Lock, store, gate, waiting, client, WaitCounted
<1>4. ASSUME NEW p \in Producers, PushWait(p) PROVE WaitCounted'
  <2>1. TypeOK /\ WaitCounted /\ p \in Threads /\ pc[p] # "wait"
    BY <1>4 DEF IInv, Threads, PushWait, Inside
  <2>2. /\ Cardinality(InWait(Consumers)') = IF p \in Consumers
                THEN Cardinality(InWait(Consumers)) + 1 ELSE Cardinality(InWait(Consumers))
        /\ Cardinality(InWait(Producers)') = IF p \in Producers
                THEN Cardinality(InWait(Producers)) + 1 ELSE Cardinality(InWait(Producers))
    BY <1>4, <2>1, InWaitAdded, QueueAssumption DEF PushWait, Block, Return, Threads
  <2>3. waitSet' \subseteq InWait(Threads)'
    BY <1>4, <2>1 DEF PushWait, Block, Return, WaitCounted, InWait, TypeOK
  <2> QED
    BY <1>4, <2>1, <2>2, <2>3, QueueAssumption DEF PushWait, WaitCounted
<1>5. ASSUME NEW p \in Producers,
             PushClosed(p) \/ PushItem(p) \/ ProducerClose(p)
      PROVE  WaitCounted'
  <2>1. TypeOK /\ WaitCounted /\ p \in Threads
    BY <1>5 DEF IInv, Threads
  <2>2. InWait(Consumers)' = InWait(Consumers) /\ InWait(Producers)' = InWait(Producers)
        /\ InWait(Threads)' = InWait(Threads)
    BY <1>5, <2>1, InWaitUnchanged DEF PushClosed, Return, store, gate,
      waiting, client, PushItem, Signal, ProducerClose, CloseQueue, Broadcast,
      Threads, Locations, Inside
  <2> QED
    BY <1>5, <2>1, <2>2 DEF PushClosed, Return, store, gate, waiting, client,
      PushItem, Signal, ProducerClose, CloseQueue, Broadcast, WaitCounted
<1>6. ASSUME NEW c \in Consumers, PopWait(c) PROVE WaitCounted'
  <2>1. TypeOK /\ WaitCounted /\ c \in Threads /\ pc[c] # "wait"
    BY <1>6 DEF IInv, Threads, PopWait, Inside
  <2>2. /\ Cardinality(InWait(Consumers)') = IF c \in Consumers
                THEN Cardinality(InWait(Consumers)) + 1 ELSE Cardinality(InWait(Consumers))
        /\ Cardinality(InWait(Producers)') = IF c \in Producers
                THEN Cardinality(InWait(Producers)) + 1 ELSE Cardinality(InWait(Producers))
    BY <1>6, <2>1, InWaitAdded, QueueAssumption DEF PopWait, Block, Return, Threads
  <2>3. waitSet' \subseteq InWait(Threads)'
    BY <1>6, <2>1 DEF PopWait, Block, Return, WaitCounted, InWait, TypeOK
  <2> QED
    BY <1>6, <2>1, <2>2, <2>3, QueueAssumption DEF PopWait, WaitCounted
<1>7. ASSUME NEW c \in Consumers,
             PopClosed(c) \/ PopItem(c) \/ TerminateClose(c) \/ TerminateBroadcast(c) \/ TerminateJoin(c)
      PROVE  WaitCounted'
  <2>1. TypeOK /\ WaitCounted /\ c \in Threads
    BY <1>7 DEF IInv, Threads
  <2>2. InWait(Consumers)' = InWait(Consumers) /\ InWait(Producers)' = InWait(Producers)
        /\ InWait(Threads)' = InWait(Threads)
    BY <1>7, <2>1, InWaitUnchanged DEF PopClosed, Return, store, gate,
      waiting, client, PopItem, Broadcast, TerminateClose, CloseQueue,
      TerminateBroadcast, TerminateJoin, Threads, Locations, Inside
  <2> QED
    BY <1>7, <2>1, <2>2 DEF PopClosed, Return, store, gate, waiting, client,
      PopItem, Broadcast, TerminateClose, CloseQueue, TerminateBroadcast,
      TerminateJoin, WaitCounted
<1>8. ASSUME SyncStart \/ SyncStep \/ QueueStat \/ UNCHANGED vars
      PROVE  WaitCounted'
  BY <1>8 DEF SyncStart, store, gate, waiting, client, SyncStep, SyncDone,
    SyncLoad, SyncBroadcast, Broadcast, QueueStat, vars, IInv, WaitCounted,
    InWait
<1>9. ASSUME Open PROVE WaitCounted'
  <2>1. TypeOK /\ WaitCounted
    BY DEF IInv
  <2>2. \A S \in SUBSET Threads : InWait(S)' = InWait(S)
    BY <1>9 DEF Open, InWait
  <2> QED
    BY <1>9, <2>1, <2>2 DEF Open, waiting, WaitCounted, Threads
<1> QED
  BY <1>1, <1>2, <1>3, <1>4, <1>5, <1>6, <1>7, <1>8, <1>9
  DEF Next, Acquire, Produce, Consume, Finished

(* Every step keeps mutual exclusion.                                     *)
LEMMA MutexHeldStep ==
  ASSUME IInv, [Next]_vars
  PROVE  MutexHeld'
<1>1. ASSUME NEW t \in Threads, Lock(t) \/ Wake(t) \/ SpuriousWakeup(t)
      PROVE  MutexHeld'
  BY <1>1, QueueAssumption DEF Lock, store, gate, waiting, client, Wake,
    SpuriousWakeup, IInv, MutexHeld, Inside, TypeOK, Threads, Locations
<1>2. ASSUME NEW p \in Producers,
             PushClosed(p) \/ PushItem(p) \/ PushWait(p) \/ ProducerClose(p)
      PROVE  MutexHeld'
  BY <1>2, QueueAssumption DEF PushClosed, Return, store, gate, waiting,
    client, PushItem, Signal, PushWait, Block, ProducerClose, CloseQueue,
    Broadcast, IInv, MutexHeld, Inside, TypeOK, Threads, Locations
<1>3. ASSUME NEW c \in Consumers,
             PopClosed(c) \/ PopItem(c) \/ PopWait(c) \/ TerminateClose(c) \/ TerminateBroadcast(c) \/ TerminateJoin(c)
      PROVE  MutexHeld'
  BY <1>3, QueueAssumption DEF PopClosed, Return, store, gate, waiting,
    client, PopItem, Broadcast, PopWait, Block, TerminateClose, CloseQueue,
    TerminateBroadcast, TerminateJoin, IInv, MutexHeld, Inside, TypeOK,
    Threads, Locations
<1>4. ASSUME SyncStart \/ SyncStep \/ QueueStat \/ Open \/ UNCHANGED vars
      PROVE  MutexHeld'
  BY <1>4, QueueAssumption DEF SyncStart, store, gate, waiting, client,
    SyncStep, SyncDone, SyncLoad, SyncBroadcast, Broadcast, QueueStat, Open,
    vars, IInv, MutexHeld, Inside, TypeOK, Threads, Locations
<1> QED
  BY <1>1, <1>2, <1>3, <1>4
  DEF Next, Acquire, Produce, Consume, Finished

-------------------------------------------------------------------------------
(* Every step keeps the ring consistent.                                  *)
LEMMA RingConsistentStep ==
  ASSUME IInv, [Next]_vars
  PROVE  RingConsistent'
<1>1. ASSUME NEW t \in Threads, Lock(t) \/ Wake(t) \/ SpuriousWakeup(t)
      PROVE  RingConsistent'
  BY <1>1 DEF Lock, store, gate, waiting, client, Wake, SpuriousWakeup, IInv,
    RingConsistent
<1>2. ASSUME NEW p \in Producers,
             PushClosed(p) \/ PushWait(p) \/ ProducerClose(p)
      PROVE  RingConsistent'
  BY <1>2 DEF PushClosed, Return, store, gate, waiting, client, PushWait,
    Block, ProducerClose, CloseQueue, Broadcast, IInv, RingConsistent
<1>3. ASSUME NEW p \in Producers, PushItem(p) PROVE RingConsistent'
  <2>1. /\ TypeOK /\ RingConsistent /\ PusherHasItem /\ numElements < Capacity
        /\ pc[p] \in {"crit", "back"}
    BY <1>3 DEF IInv, PushItem, Inside
  <2>2. <<p, sent[p]>> \in Item
    BY <2>1, QueueAssumption DEF TypeOK, PusherHasItem, Item
  <2>3. nextFree' = Slot(nextAvail, numElements + 1)
    BY <1>3, <2>1, SlotFacts, CapacityPositive DEF PushItem, RingConsistent, TypeOK
  <2>4. ASSUME NEW k \in 0 .. numElements
        PROVE  ring'[Slot(nextAvail, k)] \in Item
    <3>1. CASE k = numElements
      BY <1>3, <2>1, <2>2, <3>1 DEF PushItem, RingConsistent, TypeOK
    <3>2. CASE k # numElements
      <4>1. k \in 0 .. Capacity - 1 /\ numElements \in 0 .. Capacity - 1 /\ k \in 0 .. numElements - 1
        BY <2>1, <3>2, CapacityPositive DEF TypeOK
      <4>2. Slot(nextAvail, k) # nextFree
        BY <2>1, <3>2, <4>1, SlotInjective DEF RingConsistent, TypeOK
      <4> QED
        BY <1>3, <2>1, <4>1, <4>2 DEF PushItem, RingConsistent, TypeOK
    <3> QED
      BY <3>1, <3>2
  <2>5. nextAvail' = nextAvail /\ numElements' = numElements + 1 /\ 0 .. numElements' - 1 = 0 .. numElements
    BY <1>3, <2>1, CapacityPositive DEF PushItem, TypeOK
  <2> QED
    BY <2>3, <2>4, <2>5 DEF RingConsistent
<1>4. ASSUME NEW c \in Consumers,
             PopClosed(c) \/ PopWait(c) \/ TerminateClose(c) \/ TerminateBroadcast(c) \/ TerminateJoin(c)
      PROVE  RingConsistent'
  BY <1>4 DEF PopClosed, Return, store, gate, waiting, client, PopWait, Block,
    TerminateClose, CloseQueue, Broadcast, TerminateBroadcast, TerminateJoin,
    IInv, RingConsistent
<1>5. ASSUME NEW c \in Consumers, PopItem(c) PROVE RingConsistent'
  <2>1. TypeOK /\ RingConsistent /\ numElements > 0
    BY <1>5 DEF IInv, PopItem
  <2>2. nextFree' = Slot(nextAvail', numElements')
    BY <1>5, <2>1, SlotFacts, CapacityPositive DEF PopItem, RingConsistent, TypeOK
  <2>3. ASSUME NEW k \in 0 .. numElements - 2
        PROVE  ring[Slot(Slot(nextAvail, 1), k)] \in Item
    <3>1. Slot(Slot(nextAvail, 1), k) = Slot(nextAvail, k + 1)
      BY <2>1, SlotFacts, CapacityPositive DEF TypeOK
    <3> QED
      BY <2>1, <3>1 DEF RingConsistent, TypeOK
  <2> QED
    BY <1>5, <2>1, <2>2, <2>3 DEF PopItem, RingConsistent, TypeOK
<1>6. ASSUME SyncStart \/ SyncStep \/ QueueStat \/ Open \/ UNCHANGED vars
      PROVE  RingConsistent'
  BY <1>6 DEF SyncStart, store, gate, waiting, client, SyncStep, SyncDone,
    SyncLoad, SyncBroadcast, Broadcast, QueueStat, Open, vars, IInv,
    RingConsistent
<1> QED
  BY <1>1, <1>2, <1>3, <1>4, <1>5, <1>6
  DEF Next, Acquire, Produce, Consume, Finished

(* A thread inside queue_push has an item left to push.                    *)
LEMMA PusherHasItemStep ==
  ASSUME IInv, [Next]_vars
  PROVE  PusherHasItem'
<1>1. ASSUME NEW t \in Threads, Lock(t) \/ Wake(t) \/ SpuriousWakeup(t)
      PROVE  PusherHasItem'
  BY <1>1, QueueAssumption DEF Lock, store, gate, waiting, client, Wake,
    SpuriousWakeup, IInv, PusherHasItem, TypeOK, Inside, Threads, Locations
<1>2. ASSUME NEW p \in Producers,
             PushClosed(p) \/ PushItem(p) \/ PushWait(p) \/ ProducerClose(p)
      PROVE  PusherHasItem'
  BY <1>2, QueueAssumption DEF PushClosed, Return, store, gate, waiting,
    client, PushItem, Signal, PushWait, Block, ProducerClose, CloseQueue,
    Broadcast, IInv, PusherHasItem, TypeOK, Inside, Threads, Locations
<1>3. ASSUME NEW c \in Consumers,
             PopClosed(c) \/ PopItem(c) \/ PopWait(c) \/ TerminateClose(c) \/ TerminateBroadcast(c) \/ TerminateJoin(c)
      PROVE  PusherHasItem'
  BY <1>3, QueueAssumption DEF PopClosed, Return, store, gate, waiting,
    client, PopItem, Broadcast, PopWait, Block, TerminateClose, CloseQueue,
    TerminateBroadcast, TerminateJoin, IInv, PusherHasItem, TypeOK, Inside,
    Threads, Locations
<1>4. ASSUME SyncStart \/ SyncStep \/ QueueStat \/ Open \/ UNCHANGED vars
      PROVE  PusherHasItem'
  BY <1>4, QueueAssumption DEF SyncStart, store, gate, waiting, client,
    SyncStep, SyncDone, SyncLoad, SyncBroadcast, Broadcast, QueueStat, Open,
    vars, IInv, PusherHasItem, TypeOK, Inside, Threads, Locations
<1> QED
  BY <1>1, <1>2, <1>3, <1>4
  DEF Next, Acquire, Produce, Consume, Finished

(* A producer is blocked on a full queue only: room is always announced    *)
(* by a broadcast.                                                         *)
LEMMA ProducerBlockedStep ==
  ASSUME IInv, [Next]_vars
  PROVE  ProducerBlockedOnlyWhenFull'
<1>1. ASSUME NEW t \in Threads, Lock(t) \/ Wake(t) \/ SpuriousWakeup(t)
      PROVE  ProducerBlockedOnlyWhenFull'
  BY <1>1, QueueAssumption, CapacityPositive DEF Lock, store, gate, waiting,
    client, Wake, SpuriousWakeup, IInv, ProducerBlockedOnlyWhenFull, Full,
    TypeOK, Threads
<1>2. ASSUME NEW p \in Producers,
             PushClosed(p) \/ PushWait(p) \/ ProducerClose(p)
      PROVE  ProducerBlockedOnlyWhenFull'
  BY <1>2, QueueAssumption, CapacityPositive DEF PushClosed, Return, store,
    gate, waiting, client, PushWait, Block, ProducerClose, CloseQueue,
    Broadcast, IInv, ProducerBlockedOnlyWhenFull, Full, TypeOK, Threads
<1>3. ASSUME NEW p \in Producers, PushItem(p)
      PROVE  ProducerBlockedOnlyWhenFull'
  <2>1. waitSet \cap Producers = {} /\ waitSet' \subseteq waitSet
    BY <1>3 DEF IInv, ProducerBlockedOnlyWhenFull, Full, TypeOK, PushItem, Signal
  <2> QED
    BY <2>1 DEF ProducerBlockedOnlyWhenFull
<1>4. ASSUME NEW c \in Consumers,
             PopClosed(c) \/ PopWait(c) \/ TerminateClose(c) \/ TerminateBroadcast(c) \/ TerminateJoin(c)
      PROVE  ProducerBlockedOnlyWhenFull'
  BY <1>4, QueueAssumption, CapacityPositive DEF PopClosed, Return, store,
    gate, waiting, client, PopWait, Block, TerminateClose, CloseQueue,
    Broadcast, TerminateBroadcast, TerminateJoin, IInv,
    ProducerBlockedOnlyWhenFull, Full, TypeOK, Threads
<1>5. ASSUME NEW c \in Consumers, PopItem(c) PROVE ProducerBlockedOnlyWhenFull'
  <2>1. CASE pWait > 0
    BY <1>5, <2>1 DEF PopItem, Broadcast, ProducerBlockedOnlyWhenFull
  <2>2. CASE ~(pWait > 0)
    <3>1. waitSet \cap Producers = {} /\ waitSet' \subseteq waitSet
      BY <1>5, <2>2, BlockedIsCounted DEF IInv, TypeOK, PopItem, Broadcast
    <3> QED
      BY <3>1 DEF ProducerBlockedOnlyWhenFull
  <2> QED
    BY <2>1, <2>2
<1>6. ASSUME SyncStart \/ SyncStep \/ QueueStat \/ Open \/ UNCHANGED vars
      PROVE  ProducerBlockedOnlyWhenFull'
  BY <1>6, QueueAssumption, CapacityPositive DEF SyncStart, store, gate,
    waiting, client, SyncStep, SyncDone, SyncLoad, SyncBroadcast, Broadcast,
    QueueStat, Open, vars, IInv, ProducerBlockedOnlyWhenFull, Full, TypeOK,
    Threads
<1> QED
  BY <1>1, <1>2, <1>3, <1>4, <1>5, <1>6
  DEF Next, Acquire, Produce, Consume, Finished

(* The set of woken consumers is finite, so its size can be compared.      *)
LEMMA WokenFinite == IsFiniteSet(Woken) /\ Cardinality(Woken) \in Nat
  BY FS_Subset, FS_CardinalityType, QueueAssumption DEF Woken

(* No wakeup is lost: the signal of a push goes to a consumer, because no  *)
(* producer is blocked while there is room.                                *)
LEMMA NoLostWakeupStep ==
  ASSUME IInv, [Next]_vars
  PROVE  NoLostWakeup'
<1>1. ASSUME NEW t \in Threads, SpuriousWakeup(t) PROVE NoLostWakeup'
  <2>1. NoLostWakeup /\ TypeOK /\ IsFiniteSet(Woken')
    BY FS_Subset, QueueAssumption DEF IInv, Woken
  <2>2. Woken \subseteq Woken' /\ waitSet' \subseteq waitSet /\ numElements' = numElements
    BY <1>1 DEF SpuriousWakeup, store, Woken
  <2>3. Cardinality(Woken) <= Cardinality(Woken') /\ Cardinality(Woken') \in Nat
    BY <2>1, <2>2, FS_Subset, FS_CardinalityType
  <2> QED
    BY <2>1, <2>2, <2>3, WokenFinite DEF NoLostWakeup, TypeOK
<1>2. ASSUME NEW t \in Threads, Lock(t) \/ Wake(t) PROVE NoLostWakeup'
  <2>1. Woken' = Woken \/ waitSet' = {}
    BY <1>2, QueueAssumption DEF Lock, store, gate, waiting, client, Wake,
      Woken, IInv, TypeOK, Threads, Locations, Inside
  <2>2. waitSet' \cap Consumers # {} => waitSet \cap Consumers # {}
    BY <1>2, QueueAssumption DEF Lock, store, gate, waiting, client, Wake,
      IInv, TypeOK
  <2> QED
    BY <1>2, <2>1, <2>2 DEF Lock, store, gate, waiting, client, Wake, IInv,
      NoLostWakeup
<1>3. ASSUME NEW p \in Producers, PushItem(p) PROVE NoLostWakeup'
  <2>1. NoLostWakeup /\ TypeOK /\ WaitCounted /\ ProducerBlockedOnlyWhenFull
    BY DEF IInv
  <2>2. SUFFICES ASSUME waitSet' \cap Consumers # {}
                 PROVE  Cardinality(Woken') >= numElements + 1
    BY <1>3 DEF NoLostWakeup, PushItem
  <2>3. waitSet \cap Consumers # {} /\ waitSet \cap Producers = {}
    BY <1>3, <2>1, <2>2 DEF PushItem, Signal, ProducerBlockedOnlyWhenFull, Full, TypeOK
  <2>4. cWait > 0
    BY <2>1, <2>3, BlockedIsCounted DEF TypeOK
  <2>5. PICK t \in waitSet : waitSet' = waitSet \ {t}
    BY <1>3, <2>3, <2>4 DEF PushItem, Signal
  <2>6. t \in Consumers /\ pc[t] = "wait" /\ t \notin Woken
    BY <2>1, <2>3, <2>5 DEF TypeOK, Threads, WaitCounted, InWait, Woken
  <2>7. Woken' = Woken \cup {t}
    BY <1>3, <2>1, <2>5, <2>6, QueueAssumption DEF PushItem, Return, Woken, TypeOK, Threads
  <2>8. Cardinality(Woken') = Cardinality(Woken) + 1
    BY <2>6, <2>7, WokenFinite, FS_AddElement
  <2> QED
    BY <2>1, <2>3, <2>8, WokenFinite DEF NoLostWakeup, TypeOK
<1>4. ASSUME NEW p \in Producers,
             PushClosed(p) \/ PushWait(p) \/ ProducerClose(p)
      PROVE  NoLostWakeup'
  <2>1. Woken' = Woken \/ waitSet' = {}
    BY <1>4, QueueAssumption DEF PushClosed, Return, store, gate, waiting,
      client, PushWait, Block, ProducerClose, CloseQueue, Broadcast, Woken,
      IInv, TypeOK, Threads, Locations, Inside
  <2>2. waitSet' \cap Consumers # {} => waitSet \cap Consumers # {}
    BY <1>4, QueueAssumption DEF PushClosed, Return, store, gate, waiting,
      client, PushWait, Block, ProducerClose, CloseQueue, Broadcast, IInv,
      TypeOK
  <2> QED
    BY <1>4, <2>1, <2>2 DEF PushClosed, Return, store, gate, waiting, client,
      PushWait, Block, ProducerClose, CloseQueue, Broadcast, IInv,
      NoLostWakeup
<1>5. ASSUME NEW c \in Consumers, PopItem(c) PROVE NoLostWakeup'
  <2>1. NoLostWakeup /\ TypeOK
    BY DEF IInv
  <2>2. SUFFICES ASSUME waitSet' \cap Consumers # {}
                 PROVE  Cardinality(Woken') >= numElements - 1
    BY <1>5 DEF NoLostWakeup, PopItem
  <2>3. waitSet' = waitSet
    BY <1>5, <2>2 DEF PopItem, Broadcast
  <2>4. Woken' = Woken \ {c}
    BY <1>5, <2>1, <2>3 DEF PopItem, Return, Woken, TypeOK, Threads, Inside
  <2>5. Cardinality(Woken') \in {Cardinality(Woken), Cardinality(Woken) - 1}
    BY <2>4, WokenFinite, FS_RemoveElement
  <2>6. Cardinality(Woken) >= numElements /\ numElements \in Nat
    BY <2>1, <2>2, <2>3, CapacityPositive DEF NoLostWakeup, TypeOK
  <2> QED
    BY <2>5, <2>6, WokenFinite
<1>6. ASSUME NEW c \in Consumers,
             TerminateClose(c) \/ TerminateBroadcast(c) \/ TerminateJoin(c)
      PROVE  NoLostWakeup'
  <2>1. Woken' = Woken \/ waitSet' = {}
    BY <1>6, QueueAssumption DEF TerminateClose, CloseQueue, Broadcast,
      store, TerminateBroadcast, gate, client, TerminateJoin, waiting, Woken,
      IInv, TypeOK, Threads, Locations, Inside
  <2>2. waitSet' \cap Consumers # {} => waitSet \cap Consumers # {}
    BY <1>6, QueueAssumption DEF TerminateClose, CloseQueue, Broadcast,
      store, TerminateBroadcast, gate, client, TerminateJoin, waiting, IInv,
      TypeOK
  <2> QED
    BY <1>6, <2>1, <2>2 DEF TerminateClose, CloseQueue, Broadcast, store,
      TerminateBroadcast, gate, client, TerminateJoin, waiting, IInv,
      NoLostWakeup
<1>7. ASSUME NEW c \in Consumers, PopClosed(c) \/ PopWait(c)
      PROVE  NoLostWakeup'
  <2>1. numElements' = 0 /\ IsFiniteSet(Woken')
    BY <1>7, FS_Subset, QueueAssumption DEF PopClosed, PopWait, Empty, store, Woken, IInv, TypeOK
  <2> QED
    BY <2>1, FS_CardinalityType DEF NoLostWakeup
<1>8. ASSUME Open PROVE NoLostWakeup'
  <2>1. waitSet' = {}
    BY <1>8 DEF Open, waiting, IInv, TypeOK, WaitCounted, InWait
  <2> QED
    BY <2>1 DEF NoLostWakeup
<1>9. ASSUME SyncStart \/ SyncStep \/ QueueStat \/ UNCHANGED vars
      PROVE  NoLostWakeup'
  <2>1. Woken' = Woken \/ waitSet' = {}
    BY <1>9, QueueAssumption DEF SyncStart, store, gate, waiting, client,
      SyncStep, SyncDone, SyncLoad, SyncBroadcast, Broadcast, QueueStat, vars,
      Woken, IInv, TypeOK, Threads, Locations, Inside
  <2>2. waitSet' \cap Consumers # {} => waitSet \cap Consumers # {}
    BY <1>9, QueueAssumption DEF SyncStart, store, gate, waiting, client,
      SyncStep, SyncDone, SyncLoad, SyncBroadcast, Broadcast, QueueStat, vars,
      IInv, TypeOK
  <2> QED
    BY <1>9, <2>1, <2>2 DEF SyncStart, store, gate, waiting, client,
      SyncStep, SyncDone, SyncLoad, SyncBroadcast, Broadcast, QueueStat, vars,
      IInv, NoLostWakeup
<1> QED
  BY <1>1, <1>2, <1>3, <1>4, <1>5, <1>6, <1>7, <1>8, <1>9
  DEF Next, Acquire, Produce, Consume, Finished

-------------------------------------------------------------------------------
(* Nobody stays blocked on a closed and empty queue.                       *)
LEMMA NobodyBlockedStep ==
  ASSUME IInv, [Next]_vars
  PROVE  NobodyBlockedWhenDone'
<1>1. ASSUME NEW t \in Threads, Lock(t) \/ Wake(t) \/ SpuriousWakeup(t)
      PROVE  NobodyBlockedWhenDone'
  BY <1>1 DEF Lock, store, gate, waiting, client, Wake, SpuriousWakeup, IInv,
    NobodyBlockedWhenDone, Empty, TypeOK
<1>2. ASSUME NEW p \in Producers, PushClosed(p) \/ PushItem(p) \/ PushWait(p)
      PROVE  NobodyBlockedWhenDone'
  BY <1>2 DEF PushClosed, Return, store, gate, waiting, client, PushItem,
    Signal, PushWait, Block, IInv, NobodyBlockedWhenDone, Empty, TypeOK
<1>3. ASSUME NEW p \in Producers, ProducerClose(p) PROVE NobodyBlockedWhenDone'
  <2>1. TypeOK /\ WaitCounted /\ ProducerBlockedOnlyWhenFull /\ NobodyBlockedWhenDone
    BY DEF IInv
  <2>2. SUFFICES ASSUME Empty
                 PROVE  waitSet' = {}
    BY <1>3 DEF NobodyBlockedWhenDone, ProducerClose, CloseQueue, store, Empty
  <2>3. waitSet \cap Producers = {}
    BY <2>1, <2>2, CapacityPositive DEF ProducerBlockedOnlyWhenFull, Full, Empty
  <2>4. CASE cWait > 0
    BY <1>3, <2>4 DEF ProducerClose, CloseQueue, Broadcast
  <2>5. CASE ~(cWait > 0)
    BY <1>3, <2>1, <2>3, <2>5, BlockedIsCounted DEF ProducerClose, CloseQueue, TypeOK, Threads
  <2> QED
    BY <2>4, <2>5
<1>4. ASSUME NEW c \in Consumers,
             PopClosed(c) \/ PopWait(c) \/ TerminateBroadcast(c) \/ TerminateJoin(c)
      PROVE  NobodyBlockedWhenDone'
  BY <1>4 DEF PopClosed, Return, store, gate, waiting, client, PopWait, Block,
    TerminateBroadcast, Broadcast, TerminateJoin, IInv, NobodyBlockedWhenDone,
    Empty, TypeOK
<1>5. ASSUME NEW c \in Consumers, PopItem(c) PROVE NobodyBlockedWhenDone'
  <2>1. TypeOK /\ WaitCounted
    BY DEF IInv
  <2>2. SUFFICES ASSUME closed
                 PROVE  waitSet' = {}
    BY <1>5 DEF NobodyBlockedWhenDone, PopItem, gate
  <2>3. CASE pWait > 0 \/ cWait > 0
    BY <1>5, <2>2, <2>3 DEF PopItem, Broadcast
  <2>4. CASE ~(pWait > 0 \/ cWait > 0)
    BY <1>5, <2>1, <2>4, BlockedIsCounted DEF PopItem, Broadcast, TypeOK, Threads
  <2> QED
    BY <2>3, <2>4
<1>6. ASSUME NEW c \in Consumers, TerminateClose(c)
      PROVE  NobodyBlockedWhenDone'
  <2>1. TypeOK /\ WaitCounted /\ ProducerBlockedOnlyWhenFull /\ NobodyBlockedWhenDone
    BY DEF IInv
  <2>2. SUFFICES ASSUME Empty
                 PROVE  waitSet' = {}
    BY <1>6 DEF NobodyBlockedWhenDone, TerminateClose, CloseQueue, store, Empty
  <2>3. waitSet \cap Producers = {}
    BY <2>1, <2>2, CapacityPositive DEF ProducerBlockedOnlyWhenFull, Full, Empty
  <2>4. CASE cWait > 0
    BY <1>6, <2>4 DEF TerminateClose, CloseQueue, Broadcast
  <2>5. CASE ~(cWait > 0)
    BY <1>6, <2>1, <2>3, <2>5, BlockedIsCounted DEF TerminateClose, CloseQueue, TypeOK, Threads
  <2> QED
    BY <2>4, <2>5
<1>7. ASSUME SyncStart \/ SyncStep \/ QueueStat \/ Open \/ UNCHANGED vars
      PROVE  NobodyBlockedWhenDone'
  BY <1>7 DEF SyncStart, store, gate, waiting, client, SyncStep, SyncDone,
    SyncLoad, SyncBroadcast, Broadcast, QueueStat, Open, vars, IInv,
    NobodyBlockedWhenDone, Empty, TypeOK
<1> QED
  BY <1>1, <1>2, <1>3, <1>4, <1>5, <1>6, <1>7
  DEF Next, Acquire, Produce, Consume, Finished

(* A consumer leaves a closed and empty queue only, which stays so.        *)
LEMMA ConsumerGoneStep ==
  ASSUME IInv, [Next]_vars
  PROVE  ConsumerGone'
<1>1. ASSUME NEW t \in Threads, Lock(t) \/ Wake(t) \/ SpuriousWakeup(t)
      PROVE  ConsumerGone'
  BY <1>1, QueueAssumption DEF Lock, store, gate, waiting, client, Wake,
    SpuriousWakeup, IInv, ConsumerGone, Empty, TypeOK, Threads, Inside,
    Locations
<1>2. ASSUME NEW p \in Producers,
             PushClosed(p) \/ PushItem(p) \/ PushWait(p) \/ ProducerClose(p)
      PROVE  ConsumerGone'
  BY <1>2, QueueAssumption DEF PushClosed, Return, store, gate, waiting,
    client, PushItem, Signal, PushWait, Block, ProducerClose, CloseQueue,
    Broadcast, IInv, ConsumerGone, Empty, TypeOK, Threads, Inside, Locations
<1>3. ASSUME NEW c \in Consumers,
             PopClosed(c) \/ PopItem(c) \/ PopWait(c) \/ TerminateClose(c) \/ TerminateBroadcast(c) \/ TerminateJoin(c)
      PROVE  ConsumerGone'
  BY <1>3, QueueAssumption DEF PopClosed, Return, store, gate, waiting,
    client, PopItem, Broadcast, PopWait, Block, TerminateClose, CloseQueue,
    TerminateBroadcast, TerminateJoin, IInv, ConsumerGone, Empty, TypeOK,
    Threads, Inside, Locations
<1>4. ASSUME SyncStart \/ SyncStep \/ QueueStat \/ Open \/ UNCHANGED vars
      PROVE  ConsumerGone'
  BY <1>4, QueueAssumption DEF SyncStart, store, gate, waiting, client,
    SyncStep, SyncDone, SyncLoad, SyncBroadcast, Broadcast, QueueStat, Open,
    vars, IInv, ConsumerGone, Empty, TypeOK, Threads, Inside, Locations
<1> QED
  BY <1>1, <1>2, <1>3, <1>4
  DEF Next, Acquire, Produce, Consume, Finished

(* With one producer, closing its end closes every end.                    *)
LEMMA SingleProducer ==
  ASSUME TypeOK, round # 1, NEW p \in Producers
  PROVE  Producers = {p}
<1>1. NumProducers = 1
  BY QueueAssumption DEF TypeOK
<1> QED
  BY <1>1, QueueAssumption, FS_Singleton

(* queue->producers counts the producers that have not closed.             *)
LEMMA ProducersCountedStep ==
  ASSUME IInv, [Next]_vars
  PROVE  ProducersCounted'
<1>1. ASSUME NEW t \in Threads, SpuriousWakeup(t) PROVE ProducersCounted'
  BY <1>1 DEF SpuriousWakeup, store, gate, client, IInv, ProducersCounted,
    OpenProducers, TypeOK
<1>2. ASSUME NEW t \in Threads, Lock(t) \/ Wake(t) PROVE ProducersCounted'
  <2>1. OpenProducers' = OpenProducers
    BY <1>2, QueueAssumption DEF Lock, store, gate, waiting, client, Wake,
      OpenProducers, IInv, TypeOK, Threads, Inside
  <2> QED
    BY <1>2, <2>1 DEF Lock, store, gate, waiting, client, Wake, IInv,
      ProducersCounted
<1>3. ASSUME NEW p \in Producers, ProducerClose(p) PROVE ProducersCounted'
  <2>1. TypeOK /\ ProducersCounted /\ p \in OpenProducers
    BY <1>3 DEF IInv, ProducerClose, OpenProducers
  <2>2. OpenProducers' = OpenProducers \ {p}
    BY <1>3, <2>1 DEF ProducerClose, OpenProducers, TypeOK, Threads
  <2>3. Cardinality(OpenProducers') = Cardinality(OpenProducers) - 1
    <3>1. IsFiniteSet(OpenProducers)
      BY FS_Subset, QueueAssumption DEF OpenProducers
    <3> QED
      BY <2>1, <2>2, <3>1, FS_RemoveElement
  <2> QED
    BY <1>3, <2>1, <2>3 DEF ProducerClose, CloseQueue, client, ProducersCounted
<1>4. ASSUME NEW p \in Producers, PushClosed(p) \/ PushItem(p) \/ PushWait(p)
      PROVE  ProducersCounted'
  <2>1. OpenProducers' = OpenProducers
    BY <1>4, QueueAssumption DEF PushClosed, Return, store, gate, waiting,
      client, PushItem, Signal, PushWait, Block, OpenProducers, IInv, TypeOK,
      Threads, Inside
  <2> QED
    BY <1>4, <2>1 DEF PushClosed, Return, store, gate, waiting, client,
      PushItem, Signal, PushWait, Block, IInv, ProducersCounted
<1>5. ASSUME NEW c \in Consumers, TerminateClose(c) PROVE ProducersCounted'
  BY <1>5 DEF TerminateClose, CloseQueue, Broadcast, store, IInv,
    ProducersCounted, OpenProducers, TypeOK
<1>6. ASSUME NEW c \in Consumers,
             PopClosed(c) \/ PopItem(c) \/ PopWait(c) \/ TerminateBroadcast(c) \/ TerminateJoin(c)
      PROVE  ProducersCounted'
  <2>1. OpenProducers' = OpenProducers
    BY <1>6, QueueAssumption DEF PopClosed, Return, store, gate, waiting,
      client, PopItem, Broadcast, PopWait, Block, TerminateBroadcast,
      TerminateJoin, OpenProducers, IInv, TypeOK, Threads, Inside
  <2> QED
    BY <1>6, <2>1 DEF PopClosed, Return, store, gate, waiting, client,
      PopItem, Broadcast, PopWait, Block, TerminateBroadcast, TerminateJoin,
      IInv, ProducersCounted
<1>7. ASSUME SyncStart \/ SyncStep \/ QueueStat PROVE ProducersCounted'
  BY <1>7 DEF SyncStart, store, gate, waiting, client, SyncStep, SyncDone,
    SyncLoad, SyncBroadcast, Broadcast, QueueStat, IInv, ProducersCounted,
    OpenProducers, TypeOK
<1>8. ASSUME Open PROVE ProducersCounted'
  BY <1>8 DEF Open, store, waiting, IInv, ProducersCounted, OpenProducers,
    TypeOK
<1>9. ASSUME UNCHANGED vars PROVE ProducersCounted'
  BY <1>9 DEF vars, store, gate, waiting, client, IInv, ProducersCounted,
    OpenProducers, TypeOK
<1> QED
  BY <1>1, <1>2, <1>3, <1>4, <1>5, <1>6, <1>7, <1>8, <1>9
  DEF Next, Acquire, Produce, Consume, Finished

(* Only the last producer, or SignalTerminate, closes the queue.           *)
LEMMA ClosedByLastStep ==
  ASSUME IInv, [Next]_vars
  PROVE  ClosedByLastProducer'
<1>1. ASSUME NEW t \in Threads, Lock(t) \/ Wake(t) \/ SpuriousWakeup(t)
      PROVE  ClosedByLastProducer'
  BY <1>1, QueueAssumption DEF Lock, store, gate, waiting, client, Wake,
    SpuriousWakeup, IInv, ClosedByLastProducer, TypeOK, Threads, Inside
<1>2. ASSUME NEW p \in Producers, PushClosed(p) \/ PushItem(p) \/ PushWait(p)
      PROVE  ClosedByLastProducer'
  BY <1>2, QueueAssumption DEF PushClosed, Return, store, gate, waiting,
    client, PushItem, Signal, PushWait, Block, IInv, ClosedByLastProducer,
    TypeOK, Threads, Inside
<1>3. ASSUME NEW p \in Producers, ProducerClose(p) PROVE ClosedByLastProducer'
  <2>1. TypeOK /\ ProducersCounted /\ ClosedByLastProducer
    BY DEF IInv
  <2>2. SUFFICES ASSUME closed', terminated = {}, ~closed
                 PROVE  \A q \in Producers : pc'[q] = "done"
    BY <1>3, <2>1 DEF ClosedByLastProducer, ProducerClose, CloseQueue, client, TypeOK, Threads
  <2>3. CASE round # 1
    BY <1>3, <2>1, <2>3, SingleProducer DEF ProducerClose, TypeOK, Threads
  <2>4. CASE round = 1
    <3>1. IsFiniteSet(OpenProducers) /\ p \in OpenProducers
      BY <1>3, FS_Subset, QueueAssumption DEF ProducerClose, OpenProducers
    <3>2. Cardinality(OpenProducers) <= 1 /\ Cardinality(OpenProducers) \in Nat
      BY <1>3, <2>1, <2>2, <2>4, <3>1, FS_CardinalityType
      DEF ProducersCounted, ProducerClose, CloseQueue, TypeOK
    <3>3. OpenProducers = {p}
      BY <3>1, <3>2, FS_EmptySet, FS_Singleton
    <3> QED
      BY <1>3, <2>1, <3>3 DEF ProducerClose, OpenProducers, TypeOK, Threads
  <2> QED
    BY <2>3, <2>4
<1>4. ASSUME NEW c \in Consumers,
             PopClosed(c) \/ PopItem(c) \/ PopWait(c) \/ TerminateClose(c) \/ TerminateBroadcast(c) \/ TerminateJoin(c)
      PROVE  ClosedByLastProducer'
  BY <1>4, QueueAssumption DEF PopClosed, Return, store, gate, waiting,
    client, PopItem, Broadcast, PopWait, Block, TerminateClose, CloseQueue,
    TerminateBroadcast, TerminateJoin, IInv, ClosedByLastProducer, TypeOK,
    Threads, Inside
<1>5. ASSUME SyncStart \/ SyncStep \/ QueueStat \/ Open \/ UNCHANGED vars
      PROVE  ClosedByLastProducer'
  BY <1>5, QueueAssumption DEF SyncStart, store, gate, waiting, client,
    SyncStep, SyncDone, SyncLoad, SyncBroadcast, Broadcast, QueueStat, Open,
    vars, IInv, ClosedByLastProducer, TypeOK, Threads, Inside
<1> QED
  BY <1>1, <1>2, <1>3, <1>4, <1>5
  DEF Next, Acquire, Produce, Consume, Finished

(* What queue_sync has found stays true while it looks further.            *)
LEMMA SyncProgressStep ==
  ASSUME IInv, [Next]_vars
  PROVE  SyncProgress'
<1>1. ASSUME NEW t \in Threads, Lock(t) \/ SpuriousWakeup(t)
      PROVE  SyncProgress'
  BY <1>1, QueueAssumption DEF Lock, store, gate, waiting, client,
    SpuriousWakeup, IInv, SyncProgress, Empty, TypeOK, Inside, SyncStates
<1>2. ASSUME NEW t \in Threads, Wake(t) PROVE SyncProgress'
  <2>1. TypeOK /\ WaitCounted /\ SyncProgress
    BY DEF IInv
  <2>2. t \in Consumers => cWait # 0
    BY <1>2, <2>1, WaitingCountPositive, QueueAssumption DEF Wake, WaitCounted
  <2>3. t \in Producers => pWait # 0
    BY <1>2, <2>1, WaitingCountPositive, QueueAssumption DEF Wake, WaitCounted
  <2> QED
    BY <1>2, <2>1, <2>2, <2>3 DEF Wake, store, gate, client, SyncProgress, Empty
<1>3. ASSUME NEW p \in Producers,
             PushClosed(p) \/ PushItem(p) \/ PushWait(p) \/ ProducerClose(p)
      PROVE  SyncProgress'
  BY <1>3, QueueAssumption DEF PushClosed, Return, store, gate, waiting,
    client, PushItem, Signal, PushWait, Block, ProducerClose, CloseQueue,
    Broadcast, IInv, SyncProgress, Empty, TypeOK, Inside, SyncStates
<1>4. ASSUME NEW c \in Consumers,
             PopClosed(c) \/ PopItem(c) \/ PopWait(c) \/ TerminateClose(c) \/ TerminateBroadcast(c) \/ TerminateJoin(c)
      PROVE  SyncProgress'
  BY <1>4, QueueAssumption DEF PopClosed, Return, store, gate, waiting,
    client, PopItem, Broadcast, PopWait, Block, TerminateClose, CloseQueue,
    TerminateBroadcast, TerminateJoin, IInv, SyncProgress, Empty, TypeOK,
    Inside, SyncStates
<1>5. ASSUME QueueStat PROVE SyncProgress'
  BY <1>5, QueueAssumption DEF QueueStat, gate, waiting, client, IInv,
    SyncProgress, Empty, TypeOK, Inside, SyncStates
<1>6. ASSUME SyncStart PROVE SyncProgress'
  BY <1>6, QueueAssumption DEF SyncStart, store, gate, waiting, client, IInv,
    SyncProgress, Empty, TypeOK, Inside, SyncStates
<1>7. ASSUME SyncStep PROVE SyncProgress'
  BY <1>7, QueueAssumption DEF SyncStep, SyncDone, SyncLoad, SyncBroadcast,
    Broadcast, store, gate, waiting, client, IInv, SyncProgress, Empty,
    TypeOK, Inside, SyncStates
<1>8. ASSUME Open PROVE SyncProgress'
  BY <1>8, QueueAssumption DEF Open, store, waiting, IInv, SyncProgress,
    Empty, TypeOK, Inside, SyncStates
<1>9. ASSUME UNCHANGED vars PROVE SyncProgress'
  BY <1>9, QueueAssumption DEF vars, store, gate, waiting, client, IInv,
    SyncProgress, Empty, TypeOK, Inside, SyncStates
<1> QED
  BY <1>1, <1>2, <1>3, <1>4, <1>5, <1>6, <1>7, <1>8, <1>9
  DEF Next, Acquire, Produce, Consume, Finished

-------------------------------------------------------------------------------
LEMMA InitIInv == Init => IInv
<1> SUFFICES ASSUME Init PROVE IInv
  OBVIOUS
<1>1. TypeOK
  <2>1. NumProducers \in Int
    BY QueueAssumption, FS_CardinalityType
  <2>2. <<>> \in Seq(Item)
    BY EmptySeq
  <2>3. 0 \in Slots /\ 0 \in 0 .. Capacity /\ 0 \in 0 .. Quota /\ 1 \in 1 .. Rounds
    BY CapacityPositive, QueueAssumption DEF Slots
  <2> QED
    BY <2>1, <2>2, <2>3 DEF Init, TypeOK, Threads, Locations, SyncStates
<1>2. MutexHeld /\ PusherHasItem /\ ConsumerGone
  BY QueueAssumption DEF Init, MutexHeld, PusherHasItem, ConsumerGone, Inside, Threads
<1>3. InWait(Consumers) = {} /\ InWait(Producers) = {} /\ InWait(Threads) = {}
  BY DEF Init, InWait, Threads
<1>4. WaitCounted
  BY <1>3, FS_EmptySet DEF Init, WaitCounted
<1>5. RingConsistent
  BY CapacityPositive DEF Init, RingConsistent, Slot
<1>6. ProducerBlockedOnlyWhenFull /\ NoLostWakeup /\ NobodyBlockedWhenDone
  BY DEF Init, ProducerBlockedOnlyWhenFull, NoLostWakeup, NobodyBlockedWhenDone
<1>7. OpenProducers = Producers
  BY DEF Init, OpenProducers, Threads
<1>8. ProducersCounted /\ ClosedByLastProducer /\ SyncProgress
  BY <1>7, QueueAssumption DEF Init, ProducersCounted, ClosedByLastProducer, SyncProgress
<1> QED
  BY <1>1, <1>2, <1>4, <1>5, <1>6, <1>8 DEF IInv

LEMMA StepIInv == IInv /\ [Next]_vars => IInv'
<1> SUFFICES ASSUME IInv, [Next]_vars PROVE IInv'
  OBVIOUS
<1>1. TypeOK' /\ MutexHeld' /\ WaitCounted'
  BY TypeOKStep, MutexHeldStep, WaitCountedStep
<1>2. RingConsistent' /\ PusherHasItem'
  BY RingConsistentStep, PusherHasItemStep
<1>3. ProducerBlockedOnlyWhenFull' /\ NoLostWakeup' /\ NobodyBlockedWhenDone'
  BY ProducerBlockedStep, NoLostWakeupStep, NobodyBlockedStep
<1>4. ConsumerGone' /\ ProducersCounted' /\ ClosedByLastProducer' /\ SyncProgress'
  BY ConsumerGoneStep, ProducersCountedStep, ClosedByLastStep, SyncProgressStep
<1> QED
  BY <1>1, <1>2, <1>3, <1>4 DEF IInv

(* The inductive invariant holds in every state of the queue.              *)
THEOREM InductiveInvariant == Spec => []IInv
  BY InitIInv, StepIInv, PTL DEF Spec

(* The fields of queue_t keep their types; no index leaves the ring.       *)
THEOREM TypeCorrect == Spec => []TypeOK
<1>1. IInv => TypeOK
  BY DEF IInv
<1> QED
  BY <1>1, InductiveInvariant, PTL

(* pthread_cond_signal in queue_push never wakes a producer instead of the *)
(* consumer it is meant for.                                               *)
THEOREM SharedConditionSafe == Spec => []ProducerBlockedOnlyWhenFull
<1>1. IInv => ProducerBlockedOnlyWhenFull
  BY DEF IInv
<1> QED
  BY <1>1, InductiveInvariant, PTL

(* While a consumer is blocked, every queued element has a woken consumer. *)
THEOREM WakeupsNotLost == Spec => []NoLostWakeup
<1>1. IInv => NoLostWakeup
  BY DEF IInv
<1> QED
  BY <1>1, InductiveInvariant, PTL

(* Nobody remains blocked on a queue that is closed and empty.             *)
THEOREM NobodyLeftBlocked == Spec => []NobodyBlockedWhenDone
<1>1. IInv => NobodyBlockedWhenDone
  BY DEF IInv
<1> QED
  BY <1>1, InductiveInvariant, PTL

(* Nothing is refused before the last producer has closed its end.         *)
THEOREM ClosedByLast == Spec => []ClosedByLastProducer
<1>1. IInv => ClosedByLastProducer
  BY DEF IInv
<1> QED
  BY <1>1, InductiveInvariant, PTL

(* Consumers leave a drained queue only.                                   *)
THEOREM DrainedBeforeLeaving == Spec => []NothingLeftBehind
<1>1. IInv => NothingLeftBehind
  BY QueueAssumption DEF IInv, ConsumerGone, NothingLeftBehind
<1> QED
  BY <1>1, InductiveInvariant, PTL

(* queue_sync has released every waiting thread when it returns.           *)
THEOREM SyncReleases == Spec => []SyncedMeansReleased
<1>1. IInv => SyncedMeansReleased
  <2> SUFFICES ASSUME IInv, sync = "synced"
               PROVE  closed /\ Empty /\ waitSet = {} /\ InWait(Threads) = {}
    BY DEF SyncedMeansReleased
  <2>1. closed /\ Empty /\ cWait = 0 /\ pWait = 0
    BY DEF IInv, SyncProgress
  <2>2. InWait(Consumers) = {} /\ InWait(Producers) = {}
    BY <2>1, FS_Subset, FS_EmptySet, QueueAssumption DEF IInv, WaitCounted, InWait
  <2>3. InWait(Threads) = {}
    BY <2>2 DEF InWait, Threads
  <2> QED
    BY <2>1, <2>3 DEF IInv, WaitCounted
<1> QED
  BY <1>1, InductiveInvariant, PTL

-------------------------------------------------------------------------------
(* The ring holds a sequence of items, and the implementation's steps are  *)
(* steps of the channel on it.                                             *)
LEMMA ContentsIsSeq ==
  ASSUME TypeOK, RingConsistent
  PROVE  /\ Contents \in Seq(Item) /\ Len(Contents) = numElements
         /\ \A k \in 1 .. numElements : Contents[k] = ring[Slot(nextAvail, k - 1)]
<1>1. numElements \in Nat
  BY CapacityPositive DEF TypeOK
<1>2. \A k \in 1 .. numElements : ring[Slot(nextAvail, k - 1)] \in Item
  BY <1>1 DEF RingConsistent
<1>3. Contents \in [1 .. numElements -> Item]
  BY <1>2 DEF Contents
<1>4. Contents \in Seq(Item) /\ Len(Contents) = numElements
  BY <1>1, <1>3
<1> QED
  BY <1>4 DEF Contents

LEMMA InitImplements == Init => Chan!Init
<1> SUFFICES ASSUME Init PROVE Chan!Init
  OBVIOUS
<1>1. IInv
  BY InitIInv
<1>2. Contents = <<>>
  BY <1>1, ContentsIsSeq, EmptySeq DEF IInv, Init
<1> QED
  BY <1>2 DEF Init, Chan!Init

LEMMA ContentsUnchanged ==
  ASSUME UNCHANGED <<ring, nextAvail, numElements>>
  PROVE  Contents' = Contents
  BY DEF Contents, Slot

(* A push appends its item to the channel.                                 *)
LEMMA PushIsSend ==
  ASSUME IInv, IInv', NEW p \in Producers, PushItem(p)
  PROVE  Chan!Send(<<p, sent[p]>>) /\ <<p, sent[p]>> \in Item
<1>1. /\ TypeOK /\ TypeOK' /\ RingConsistent /\ RingConsistent' /\ PusherHasItem
      /\ pc[p] \in {"crit", "back"}
  <2>1. TypeOK /\ TypeOK' /\ RingConsistent /\ RingConsistent' /\ PusherHasItem
    BY DEF IInv
  <2> QED
    BY <2>1 DEF PushItem, Inside
<1>2. <<p, sent[p]>> \in Item
  <2>1. sent \in [Producers -> 0 .. Quota] /\ sent[p] < Quota
    BY <1>1 DEF TypeOK, PusherHasItem
  <2>2. sent[p] \in 0 .. Quota - 1
    BY <2>1, QueueAssumption
  <2> QED
    BY <2>2 DEF Item
<1>3. /\ Contents \in Seq(Item) /\ Len(Contents) = numElements
      /\ \A k \in 1 .. numElements : Contents[k] = ring[Slot(nextAvail, k - 1)]
  BY <1>1, ContentsIsSeq
<1>4. /\ Contents' \in Seq(Item) /\ Len(Contents') = numElements + 1
      /\ \A k \in 1 .. numElements + 1 : Contents'[k] = ring'[Slot(nextAvail, k - 1)]
  <2>1. /\ Contents' \in Seq(Item) /\ Len(Contents') = numElements'
        /\ \A k \in 1 .. numElements' : Contents'[k] = ring'[Slot(nextAvail', k - 1)]
    <3>1. Contents' = [k \in 1 .. numElements' |-> ring'[Slot(nextAvail', k - 1)]]
      BY DEF Contents, Slot
    <3>2. \A k \in 1 .. numElements' : ring'[Slot(nextAvail', k - 1)] \in Item
      <4>1. \A k \in 0 .. numElements' - 1 : ring'[Slot(nextAvail', k)] \in Item
        BY <1>1 DEF RingConsistent
      <4>2. numElements' \in Nat
        BY <1>1, CapacityPositive DEF TypeOK
      <4>3. ASSUME NEW k \in 1 .. numElements'
            PROVE  ring'[Slot(nextAvail', k - 1)] \in Item
        <5> DEFINE n == numElements'
        <5>0. n \in Nat /\ k \in 1 .. n
          BY <4>2
        <5>1. k - 1 \in 0 .. n - 1
          <6> HIDE DEF n
          <6> QED
            BY <5>0
        <5> QED
          BY <4>1, <5>1
      <4> QED
        BY <4>3
    <3>3. numElements' \in Nat
      BY <1>1, CapacityPositive DEF TypeOK
    <3>4. Contents' \in [1 .. numElements' -> Item]
      BY <3>1, <3>2
    <3> QED
      BY <3>1, <3>3, <3>4
  <2> QED
    BY <2>1 DEF PushItem
<1>5. ring' = [ring EXCEPT ![Slot(nextAvail, numElements)] = <<p, sent[p]>>]
      /\ numElements \in 0 .. Capacity - 1
  BY <1>1, CapacityPositive DEF PushItem, RingConsistent, TypeOK
<1>9. DOMAIN ring = Slots /\ ring = [i \in Slots |-> ring[i]]
  BY <1>1 DEF TypeOK
<1>6. \A k \in 1 .. numElements : Contents'[k] = Contents[k]
  <2> SUFFICES ASSUME NEW k \in 1 .. numElements PROVE Contents'[k] = Contents[k]
    OBVIOUS
  <2>1. k - 1 \in 0 .. Capacity - 1 /\ k - 1 # numElements
    BY <1>5, CapacityPositive
  <2>2. Slot(nextAvail, k - 1) # Slot(nextAvail, numElements)
    BY <1>1, <1>5, <2>1, SlotInjective DEF TypeOK
  <2>3. Slot(nextAvail, k - 1) \in Slots
    BY <1>1, <2>1, SlotFacts, CapacityPositive DEF TypeOK
  <2>4. ring'[Slot(nextAvail, k - 1)] = ring[Slot(nextAvail, k - 1)]
    <3> DEFINE a == Slot(nextAvail, k - 1)
               b == Slot(nextAvail, numElements)
               v == <<p, sent[p]>>
    <3>1. a \in Slots /\ a # b /\ ring' = [ring EXCEPT ![b] = v] /\ DOMAIN ring = Slots
      BY <1>5, <1>9, <2>2, <2>3
    <3> HIDE DEF a, b, v
    <3>2. ring'[a] = ring[a]
      BY <3>1
    <3> QED
      BY <3>2 DEF a
  <2>5. k \in 1 .. numElements + 1
    BY <1>5
  <2> QED
    BY <1>3, <1>4, <2>4, <2>5
<1>7. Contents'[numElements + 1] = <<p, sent[p]>>
  <2>1. Slot(nextAvail, numElements) \in Slots
    BY <1>1, SlotFacts DEF TypeOK
  <2>2. ring'[Slot(nextAvail, numElements)] = <<p, sent[p]>>
    BY <1>5, <1>9, <2>1
  <2> DEFINE m == numElements + 1
  <2>3. m \in 1 .. numElements + 1 /\ m - 1 = numElements
    BY <1>5
  <2> HIDE DEF m
  <2>4. Contents'[m] = ring'[Slot(nextAvail, m - 1)]
    BY <1>4, <2>3
  <2>5. Contents'[m] = <<p, sent[p]>>
    BY <2>2, <2>3, <2>4
  <2> QED
    BY <2>5 DEF m
<1>8. Contents' = Append(Contents, <<p, sent[p]>>)
  <2>1. Append(Contents, <<p, sent[p]>>) \in Seq(Item)
        /\ Len(Append(Contents, <<p, sent[p]>>)) = numElements + 1
    BY <1>2, <1>3
  <2>2. \A k \in 1 .. numElements + 1 :
           Append(Contents, <<p, sent[p]>>)[k] = Contents'[k]
    <3>1. ASSUME NEW k \in 1 .. numElements
          PROVE  Append(Contents, <<p, sent[p]>>)[k] = Contents[k]
      BY <1>2, <1>3, <1>5, <3>1
    <3>2. Append(Contents, <<p, sent[p]>>)[numElements + 1] = <<p, sent[p]>>
      BY <1>2, <1>3, <1>5
    <3>3. \A k \in 1 .. numElements + 1 : k \in 1 .. numElements \/ k = numElements + 1
      BY <1>5
    <3> QED
      BY <1>6, <1>7, <3>1, <3>2, <3>3
  <2> QED
    BY <1>4, <2>1, <2>2, SeqEqual
<1> QED
  BY <1>2, <1>3, <1>5, <1>8 DEF PushItem, gate, Chan!Send

(* A pop takes the oldest item of the channel.                             *)
LEMMA PopIsReceive ==
  ASSUME IInv, IInv', NEW c \in Consumers, PopItem(c)
  PROVE  Chan!Receive
<1>1. /\ TypeOK /\ TypeOK' /\ RingConsistent /\ RingConsistent'
      /\ numElements \in 1 .. Capacity
  BY CapacityPositive DEF IInv, PopItem, TypeOK
<1>2. /\ Contents \in Seq(Item) /\ Len(Contents) = numElements
      /\ \A k \in 1 .. numElements : Contents[k] = ring[Slot(nextAvail, k - 1)]
  BY <1>1, ContentsIsSeq
<1>3. Contents # <<>> /\ Head(Contents) = ring[nextAvail]
  BY <1>1, <1>2, SlotFacts, CapacityPositive DEF TypeOK
<1>4. /\ Tail(Contents) \in Seq(Item) /\ Len(Tail(Contents)) = numElements - 1
      /\ \A k \in 1 .. numElements - 1 : Tail(Contents)[k] = Contents[k + 1]
  BY <1>2, <1>3, HeadTailProperties
<1>5. numElements' = numElements - 1 /\ nextAvail' = Slot(nextAvail, 1) /\ ring' = ring
  BY DEF PopItem
<1>6. Contents' = [k \in 1 .. numElements - 1 |-> ring[Slot(Slot(nextAvail, 1), k - 1)]]
  BY <1>5 DEF Contents, Slot
<1>7. \A k \in 1 .. numElements - 1 :
         ring[Slot(Slot(nextAvail, 1), k - 1)] = Tail(Contents)[k]
  <2> SUFFICES ASSUME NEW k \in 1 .. numElements - 1
               PROVE  ring[Slot(Slot(nextAvail, 1), k - 1)] = Contents[k + 1]
    BY <1>4
  <2>1. k - 1 \in 0 .. Capacity - 1 /\ k + 1 \in 1 .. numElements
    BY <1>1, CapacityPositive
  <2>2. Slot(Slot(nextAvail, 1), k - 1) = Slot(nextAvail, k)
    BY <1>1, <2>1, SlotFacts, CapacityPositive DEF TypeOK
  <2> QED
    BY <1>2, <2>1, <2>2
<1>8. Tail(Contents) = [k \in 1 .. numElements - 1 |-> Tail(Contents)[k]]
  <2>1. Tail(Contents) \in [1 .. numElements - 1 -> Item]
    BY <1>4, LenProperties
  <2> QED
    BY <2>1
<1>9. Contents' = Tail(Contents)
  BY <1>6, <1>7, <1>8
<1> QED
  BY <1>3, <1>9 DEF PopItem, gate, Chan!Receive

LEMMA StepImplements ==
  ASSUME IInv, IInv', [Next]_vars
  PROVE  [Chan!Next]_(Chan!vars)
<1>1. ASSUME NEW p \in Producers, PushItem(p) PROVE Chan!Next
  BY <1>1, PushIsSend DEF Chan!Next
<1>2. ASSUME NEW c \in Consumers, PopItem(c) PROVE Chan!Next
  BY <1>2, PopIsReceive DEF Chan!Next
<1>3. ASSUME CloseQueue, popped' = popped PROVE [Chan!Next]_(Chan!vars)
  <2>1. Contents' = Contents
    BY <1>3, ContentsUnchanged DEF CloseQueue, store
  <2>2. closed' \in BOOLEAN /\ (closed => closed') /\ closed \in BOOLEAN
    BY <1>3 DEF CloseQueue, IInv, TypeOK
  <2> QED
    BY <1>3, <2>1, <2>2 DEF Chan!Next, Chan!Close, Chan!vars
<1>4. ASSUME Open PROVE Chan!Next
  <2>1. Contents' = Contents /\ popped' = popped
    BY <1>4, ContentsUnchanged DEF Open, store
  <2>2. closed /\ Empty
    BY <1>4, QueueAssumption DEF Open, IInv, ConsumerGone, Threads
  <2>3. Contents = <<>>
    BY <2>2, ContentsIsSeq, EmptySeq DEF Empty, IInv
  <2> QED
    BY <1>4, <2>1, <2>2, <2>3 DEF Open, Chan!Next, Chan!Open
<1>5. ASSUME UNCHANGED <<ring, nextAvail, numElements, closed, popped>>
      PROVE  UNCHANGED Chan!vars
  BY <1>5, ContentsUnchanged DEF Chan!vars
<1>6. ASSUME NEW t \in Threads, Acquire(t) \/ SpuriousWakeup(t)
      PROVE  UNCHANGED <<ring, nextAvail, numElements, closed, popped>>
  BY <1>6 DEF Acquire, Lock, Wake, SpuriousWakeup, store, gate, client
<1>7. ASSUME NEW p \in Producers, PushClosed(p) \/ PushWait(p)
      PROVE  UNCHANGED <<ring, nextAvail, numElements, closed, popped>>
  BY <1>7 DEF PushClosed, PushWait, store, gate, client
<1>8. ASSUME NEW c \in Consumers,
             PopClosed(c) \/ PopWait(c) \/ TerminateBroadcast(c) \/ TerminateJoin(c)
      PROVE  UNCHANGED <<ring, nextAvail, numElements, closed, popped>>
  BY <1>8 DEF PopClosed, PopWait, TerminateBroadcast, TerminateJoin, store, gate, client
<1>9. ASSUME SyncStart \/ SyncStep \/ QueueStat \/ UNCHANGED vars
      PROVE  UNCHANGED <<ring, nextAvail, numElements, closed, popped>>
  BY <1>9 DEF SyncStart, SyncStep, SyncDone, SyncLoad, SyncBroadcast, QueueStat,
              store, gate, client, vars
<1>10. ASSUME NEW t \in Threads, (t \in Producers /\ ProducerClose(t)) \/ TerminateClose(t)
       PROVE  [Chan!Next]_(Chan!vars)
  BY <1>3, <1>10 DEF ProducerClose, TerminateClose, client
<1> QED
  BY <1>1, <1>2, <1>4, <1>5, <1>6, <1>7, <1>8, <1>9, <1>10
  DEF Next, Produce, Consume, Finished, Threads

(* The queue implements the FIFO channel.                                  *)
THEOREM QueueImplementsChannel == Spec => ImplementsChannel
<1>1. Init => Chan!Init
  BY InitImplements
<1>2. IInv /\ IInv' /\ [Next]_vars => [Chan!Next]_(Chan!vars)
  BY StepImplements
<1> QED
  BY <1>1, <1>2, InductiveInvariant, PTL DEF Spec, Chan!Spec, ImplementsChannel
===============================================================================
