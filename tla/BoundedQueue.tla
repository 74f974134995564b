----------------------------- MODULE BoundedQueue -----------------------------
(***************************************************************************)
(* The bounded queue of src/src/libnffile/queue.c that connects every pair *)
(* of threads in nfdump, nfcapd, nfpcapd, nfanon and nfprofile, together   *)
(* with the way its users drive it: producers push and finally call        *)
(* queue_close, consumers pop until they get QUEUE_CLOSED, an owner waits  *)
(* in queue_sync, a consumer that needs no more data gives up as           *)
(* SignalTerminate does, and the owner opens the queue again for the next  *)
(* file once all threads have returned.                                    *)
(*                                                                         *)
(* The queue has one mutex and ONE condition variable, on which producers  *)
(* and consumers wait together.  A step is what a thread does from         *)
(* acquiring the mutex to giving it up, except that coming back from       *)
(* pthread_cond_wait is a step of its own: it takes one off the counter    *)
(* that queue_sync reads without the mutex.                                *)
(***************************************************************************)
EXTENDS Integers, Sequences, FiniteSets

CONSTANTS
    Producers,      (* threads that push and close                         *)
    Consumers,      (* threads that pop until QUEUE_CLOSED                 *)
    Terminators,    (* the consumers that may give up before the end       *)
    Capacity,       (* queue->length                                       *)
    NumProducers,   (* the count given to queue_producers                  *)
    Quota,          (* bound: items a producer pushes in all              *)
    Rounds,         (* bound: how often the queue is (re)opened            *)
    Spurious,       (* TRUE: pthread_cond_wait may return on its own       *)
    NoData,         (* content of a slot that was never written            *)
    NoThread        (* nobody holds the mutex                              *)

Threads == Producers \cup Consumers

(* queue_init accepts a power of two only; the mask then wraps an index.   *)
PowersOfTwo == {1, 2, 4, 8, 16, 32, 64, 128, 256, 512, 1024}

(* Only nffile reopens a queue, and its queues have a single producer:     *)
(* queue_open does not restore the producer count.                         *)
ASSUME QueueAssumption ==
    /\ IsFiniteSet(Producers) /\ Producers # {}
    /\ IsFiniteSet(Consumers) /\ Consumers # {}
    /\ Producers \cap Consumers = {}
    /\ Terminators \subseteq Consumers
    /\ NoThread \notin Producers \cup Consumers
    /\ Capacity \in PowersOfTwo
    /\ NumProducers = Cardinality(Producers)
    /\ Quota \in Nat
    /\ Rounds \in Nat \ {0}
    /\ Rounds > 1 => NumProducers = 1
    /\ Spurious \in BOOLEAN

VARIABLES
    ring, nextFree, nextAvail, numElements, maxUsed,    (* queue_t         *)
    closed, producers, cWait, pWait,
    mutex,          (* the thread inside the queue, or NoThread            *)
    waitSet,        (* threads blocked on queue->cond                      *)
    pc,             (* where each thread is, see Locations                 *)
    sync,           (* the owner's progress through queue_sync             *)
    sent,           (* number of items each producer has pushed            *)
    popped,         (* history: every item queue_pop returned, in order    *)
    terminated,     (* Terminators that called SignalTerminate             *)
    round           (* the current use of the queue, 1..Rounds             *)

store   == <<ring, nextFree, nextAvail, numElements, maxUsed>>
gate    == <<closed, producers>>
waiting == <<waitSet, cWait, pWait>>
client  == <<sent, popped, terminated, round>>
vars    == <<store, gate, waiting, mutex, pc, sync, client>>

(* "out": in no call; "crit": entered push or pop and holds the mutex;     *)
(* "wait": in pthread_cond_wait, blocked or woken; "back": returned from   *)
(* it and holds the mutex again; "refused": a push returned QUEUE_CLOSED;  *)
(* "bcast", "join": inside SignalTerminate; "done": the thread's work with *)
(* this round of the queue is over.                                        *)
Locations == {"out", "crit", "wait", "back", "refused", "bcast", "join", "done"}
Inside    == {"crit", "back"}
SyncStates == {"idle", "spin", "loadC", "loadP", "synced"}

Item  == Producers \X (0 .. Quota - 1)
Slots == 0 .. Capacity - 1

(* Mutant of Slot: the index wraps one position too late.                  *)
SlotWrapsLate(i, k) == IF i + k > Capacity THEN i + k - Capacity ELSE i + k

(* (i + k) & queue->mask, for i a slot and k at most the capacity          *)
Slot(i, k) == IF i + k >= Capacity THEN i + k - Capacity ELSE i + k

Full  == numElements = Capacity
Empty == numElements = 0

Init ==
    /\ ring = [i \in Slots |-> NoData]
    /\ nextFree = 0 /\ nextAvail = 0 /\ numElements = 0 /\ maxUsed = 0
    /\ closed = FALSE /\ producers = NumProducers
    /\ waitSet = {} /\ cWait = 0 /\ pWait = 0
    /\ mutex = NoThread
    /\ pc = [t \in Threads |-> "out"]
    /\ sync = "idle"
    /\ sent = [p \in Producers |-> 0]
    /\ popped = <<>>
    /\ terminated = {}
    /\ round = 1
-------------------------------------------------------------------------------
(* pthread_cond_signal: any one blocked thread, producer or consumer       *)
Signal ==
    \/ waitSet = {} /\ UNCHANGED waitSet
    \/ \E t \in waitSet : waitSet' = waitSet \ {t}

Broadcast == waitSet' = {}

(* leave queue_push or queue_pop, giving up the mutex                      *)
Return(t, to) ==
    /\ mutex' = NoThread
    /\ pc' = [pc EXCEPT ![t] = to]

(* pthread_cond_wait gives up the mutex and blocks                         *)
Block(t) ==
    /\ waitSet' = waitSet \cup {t}
    /\ Return(t, "wait")

Lock(t) ==
    /\ pc[t] = "out"
    /\ t \in Producers => sent[t] < Quota
    /\ mutex = NoThread
    /\ mutex' = t
    /\ pc' = [pc EXCEPT ![t] = "crit"]
    /\ UNCHANGED <<store, gate, waiting, sync, client>>

(* Mutant of Wake: the counter of the waiting threads is not taken back.   *)
WakeKeepsCount(t) ==
    /\ pc[t] = "wait"
    /\ t \notin waitSet
    /\ mutex = NoThread
    /\ mutex' = t
    /\ pc' = [pc EXCEPT ![t] = "back"]
    /\ UNCHANGED <<store, gate, waiting, sync, client>>

(* a woken thread gets the mutex back and takes itself off the counter     *)
Wake(t) ==
    /\ pc[t] = "wait"
    /\ t \notin waitSet
    /\ mutex = NoThread
    /\ mutex' = t
    /\ pc' = [pc EXCEPT ![t] = "back"]
    /\ cWait' = IF t \in Consumers THEN cWait - 1 ELSE cWait
    /\ pWait' = IF t \in Producers THEN pWait - 1 ELSE pWait
    /\ UNCHANGED <<store, gate, waitSet, sync, client>>

SpuriousWakeup(t) ==
    /\ Spurious
    /\ t \in waitSet
    /\ waitSet' = waitSet \ {t}
    /\ UNCHANGED <<store, gate, cWait, pWait, mutex, pc, sync, client>>
-------------------------------------------------------------------------------
(* queue_push returns QUEUE_CLOSED                                         *)
PushClosed(p) ==
    /\ pc[p] \in Inside
    /\ closed
    /\ Return(p, "refused")
    /\ UNCHANGED <<store, gate, waiting, sync, client>>

(* Mutant of PushItem: the element is stored although the ring is full.    *)
PushOverwrites(p) ==
    /\ pc[p] \in Inside
    /\ ~closed
    /\ numElements <= Capacity
    /\ ring' = [ring EXCEPT ![nextFree] = <<p, sent[p]>>]
    /\ numElements' = IF Full THEN Capacity ELSE numElements + 1
    /\ nextFree' = Slot(nextFree, 1)
    /\ maxUsed' = IF maxUsed < numElements' THEN numElements' ELSE maxUsed
    /\ IF cWait > 0 THEN Signal ELSE UNCHANGED waitSet
    /\ Return(p, "out")
    /\ sent' = [sent EXCEPT ![p] = @ + 1]
    /\ UNCHANGED <<nextAvail, gate, cWait, pWait, sync, popped, terminated, round>>

(* Mutant of PushItem: only the first element of an empty queue signals.   *)
PushSignalsFirstOnly(p) ==
    /\ pc[p] \in Inside
    /\ ~closed
    /\ numElements < Capacity
    /\ ring' = [ring EXCEPT ![nextFree] = <<p, sent[p]>>]
    /\ numElements' = numElements + 1
    /\ nextFree' = Slot(nextFree, 1)
    /\ maxUsed' = IF maxUsed < numElements' THEN numElements' ELSE maxUsed
    /\ IF cWait > 0 /\ Empty THEN Signal ELSE UNCHANGED waitSet
    /\ Return(p, "out")
    /\ sent' = [sent EXCEPT ![p] = @ + 1]
    /\ UNCHANGED <<nextAvail, gate, cWait, pWait, sync, popped, terminated, round>>

PushItem(p) ==
    /\ pc[p] \in Inside
    /\ ~closed
    /\ numElements < Capacity
    /\ ring' = [ring EXCEPT ![nextFree] = <<p, sent[p]>>]
    /\ numElements' = numElements + 1
    /\ nextFree' = Slot(nextFree, 1)
    /\ maxUsed' = IF maxUsed < numElements' THEN numElements' ELSE maxUsed
    /\ IF cWait > 0 THEN Signal ELSE UNCHANGED waitSet
    /\ Return(p, "out")
    /\ sent' = [sent EXCEPT ![p] = @ + 1]
    /\ UNCHANGED <<nextAvail, gate, cWait, pWait, sync, popped, terminated, round>>

PushWait(p) ==
    /\ pc[p] \in Inside
    /\ ~closed
    /\ ~(numElements < Capacity)
    /\ pWait' = pWait + 1
    /\ Block(p)
    /\ UNCHANGED <<store, gate, cWait, sync, client>>

(* Mutant of PopClosed: a closed queue is left with elements in it.        *)
PopClosedEarly(c) ==
    /\ pc[c] \in Inside
    /\ closed
    /\ Return(c, "done")
    /\ UNCHANGED <<store, gate, waiting, sync, client>>

(* queue_pop returns QUEUE_CLOSED                                          *)
PopClosed(c) ==
    /\ pc[c] \in Inside
    /\ closed /\ Empty
    /\ Return(c, "done")
    /\ UNCHANGED <<store, gate, waiting, sync, client>>

(* Mutant of PopItem: the room made is announced by pthread_cond_signal.   *)
PopSignals(c) ==
    /\ pc[c] \in Inside
    /\ numElements > 0
    /\ popped' = Append(popped, ring[nextAvail])
    /\ numElements' = numElements - 1
    /\ nextAvail' = Slot(nextAvail, 1)
    /\ IF pWait > 0 \/ (closed /\ cWait > 0) THEN Signal ELSE UNCHANGED waitSet
    /\ Return(c, "out")
    /\ UNCHANGED <<ring, nextFree, maxUsed, gate, cWait, pWait, sync, sent, terminated, round>>

PopItem(c) ==
    /\ pc[c] \in Inside
    /\ numElements > 0
    /\ popped' = Append(popped, ring[nextAvail])
    /\ numElements' = numElements - 1
    /\ nextAvail' = Slot(nextAvail, 1)
    /\ IF pWait > 0 \/ (closed /\ cWait > 0) THEN Broadcast ELSE UNCHANGED waitSet
    /\ Return(c, "out")
    /\ UNCHANGED <<ring, nextFree, maxUsed, gate, cWait, pWait, sync, sent, terminated, round>>

PopWait(c) ==
    /\ pc[c] \in Inside
    /\ ~closed /\ ~(numElements > 0)
    /\ cWait' = cWait + 1
    /\ Block(c)
    /\ UNCHANGED <<store, gate, pWait, sync, client>>

(* Mutants of CloseQueue: it wakes nobody; it closes one producer early.   *)
CloseSilently ==
    /\ mutex = NoThread
    /\ producers' = producers - 1
    /\ closed' = (closed \/ producers' <= 0)
    /\ UNCHANGED <<store, mutex, waiting, sync>>

CloseTooEarly ==
    /\ mutex = NoThread
    /\ producers' = producers - 1
    /\ closed' = (closed \/ producers' <= 1)
    /\ IF cWait > 0 THEN Broadcast ELSE UNCHANGED waitSet
    /\ UNCHANGED <<store, mutex, cWait, pWait, sync>>

(* the body of queue_close: it wakes consumers, never a waiting producer   *)
CloseQueue ==
    /\ mutex = NoThread
    /\ producers' = producers - 1
    /\ closed' = (closed \/ producers' <= 0)
    /\ IF cWait > 0 THEN Broadcast ELSE UNCHANGED waitSet
    /\ UNCHANGED <<store, mutex, cWait, pWait, sync>>

(* a producer has pushed what it had, or was refused, and closes its end   *)
ProducerClose(p) ==
    /\ pc[p] \in {"out", "refused"}
    /\ CloseQueue
    /\ pc' = [pc EXCEPT ![p] = "done"]
    /\ UNCHANGED client
-------------------------------------------------------------------------------
(* SignalTerminate by a consumer: queue_close, one more broadcast without  *)
(* the mutex, pthread_join of the producers; CloseFile then empties the    *)
(* queue, which is this consumer popping on until QUEUE_CLOSED.            *)
TerminateClose(c) ==
    /\ c \in Terminators \ terminated
    /\ pc[c] = "out"
    /\ CloseQueue
    /\ pc' = [pc EXCEPT ![c] = "bcast"]
    /\ terminated' = terminated \cup {c}
    /\ UNCHANGED <<sent, popped, round>>

TerminateBroadcast(c) ==
    /\ pc[c] = "bcast"
    /\ Broadcast
    /\ pc' = [pc EXCEPT ![c] = "join"]
    /\ UNCHANGED <<store, gate, cWait, pWait, mutex, sync, client>>

TerminateJoin(c) ==
    /\ pc[c] = "join"
    /\ \A p \in Producers : pc[p] = "done"
    /\ pc' = [pc EXCEPT ![c] = "out"]
    /\ UNCHANGED <<store, gate, waiting, mutex, sync, client>>
-------------------------------------------------------------------------------
(* queue_sync, called by the owner of the queue                            *)
SyncStart ==
    /\ sync = "idle"
    /\ sync' = "spin"
    /\ UNCHANGED <<store, gate, waiting, mutex, pc, client>>

(* queue_done() is true                                                    *)
SyncDone ==
    /\ sync = "spin"
    /\ mutex = NoThread
    /\ closed /\ Empty
    /\ sync' = "loadC"
    /\ UNCHANGED <<store, gate, waiting, mutex, pc, client>>

(* Mutant of SyncLoad: only the waiting producers are looked for.          *)
SyncLoadProducersOnly ==
    /\ \/ sync = "loadC" /\ sync' = "loadP"
       \/ sync = "loadP" /\ pWait = 0 /\ sync' = "synced"
    /\ UNCHANGED <<store, gate, waiting, mutex, pc, client>>

(* atomic_load of c_wait, and of p_wait if that was zero: no mutex         *)
SyncLoad ==
    /\ \/ sync = "loadC" /\ cWait = 0 /\ sync' = "loadP"
       \/ sync = "loadP" /\ pWait = 0 /\ sync' = "synced"
    /\ UNCHANGED <<store, gate, waiting, mutex, pc, client>>

SyncBroadcast ==
    /\ \/ sync = "loadC" /\ cWait > 0
       \/ sync = "loadP" /\ pWait > 0
    /\ mutex = NoThread
    /\ Broadcast
    /\ sync' = "loadC"
    /\ UNCHANGED <<store, gate, cWait, pWait, mutex, pc, client>>

(* queue_stat resets the high-water mark                                   *)
QueueStat ==
    /\ mutex = NoThread
    /\ maxUsed > 0
    /\ maxUsed' = 0
    /\ UNCHANGED <<ring, nextFree, nextAvail, numElements, gate, waiting, mutex, pc, sync, client>>

(* queue_open for the next file, with new threads: all have been joined    *)
Open ==
    /\ round < Rounds
    /\ \A t \in Threads : pc[t] = "done"
    /\ sync \in {"idle", "synced"}
    /\ closed' = FALSE
    /\ pc' = [t \in Threads |-> "out"]
    /\ sync' = "idle"
    /\ terminated' = {}
    /\ round' = round + 1
    /\ UNCHANGED <<store, producers, waiting, mutex, sent, popped>>

(* every thread has returned and the queue is not opened again             *)
Finished ==
    /\ round = Rounds
    /\ \A t \in Threads : pc[t] = "done"
    /\ sync \in {"idle", "synced"}
    /\ UNCHANGED vars
-------------------------------------------------------------------------------
Acquire(t) == Lock(t) \/ Wake(t)

Produce(p) == PushClosed(p) \/ PushItem(p) \/ PushWait(p)

Consume(c) == PopClosed(c) \/ PopItem(c) \/ PopWait(c)

SyncStep == SyncDone \/ SyncLoad \/ SyncBroadcast

Next ==
    \/ \E t \in Threads : Acquire(t) \/ SpuriousWakeup(t)
    \/ \E p \in Producers : Produce(p) \/ ProducerClose(p)
    \/ \E c \in Consumers :
         \/ Consume(c)
         \/ TerminateClose(c) \/ TerminateBroadcast(c) \/ TerminateJoin(c)
    \/ SyncStart \/ SyncStep
    \/ QueueStat
    \/ Open
    \/ Finished

Spec == Init /\ [][Next]_vars

(* Threads run, and a thread that keeps asking for a mutex that is given   *)
(* up again and again obtains it some day.  Nobody has to push, to give up *)
(* or to call queue_sync or queue_stat, and no wakeup is ever spurious on  *)
(* demand.                                                                 *)
Fairness ==
    /\ \A t \in Threads : SF_vars(Acquire(t))
    /\ \A p \in Producers : WF_vars(Produce(p)) /\ SF_vars(ProducerClose(p))
    /\ \A c \in Consumers :
         WF_vars(Consume(c)) /\ WF_vars(TerminateBroadcast(c)) /\ WF_vars(TerminateJoin(c))
    /\ SF_vars(SyncStep)

FairSpec == Spec /\ Fairness
-------------------------------------------------------------------------------
(* The variables have the types of queue_t's fields; nothing overruns the  *)
(* ring.                                                                   *)
TypeOK ==
    /\ ring \in [Slots -> Item \cup {NoData}]
    /\ nextFree \in Slots /\ nextAvail \in Slots
    /\ numElements \in 0 .. Capacity /\ maxUsed \in 0 .. Capacity
    /\ closed \in BOOLEAN /\ producers \in Int
    /\ cWait \in Nat /\ pWait \in Nat
    /\ mutex \in Threads \cup {NoThread}
    /\ waitSet \subseteq Threads
    /\ pc \in [Threads -> Locations]
    /\ sync \in SyncStates
    /\ sent \in [Producers -> 0 .. Quota]
    /\ popped \in Seq(Item)
    /\ terminated \subseteq Terminators
    /\ round \in 1 .. Rounds

(* The mutex excludes: it is held exactly by the thread inside queue_push  *)
(* or queue_pop.                                                           *)
MutexHeld == \A t \in Threads : pc[t] \in Inside <=> mutex = t

(* c_wait and p_wait count the threads that have not come back from        *)
(* pthread_cond_wait, and only such a thread is blocked.                   *)
InWait(S) == {t \in S : pc[t] = "wait"}

WaitCounted ==
    /\ waitSet \subseteq InWait(Threads)
    /\ cWait = Cardinality(InWait(Consumers))
    /\ pWait = Cardinality(InWait(Producers))

(* Producers and consumers share one condition variable, and queue_push    *)
(* wakes with pthread_cond_signal: a producer may be blocked only while    *)
(* the queue is full, or the signal for a new element could go to it.      *)
ProducerBlockedOnlyWhenFull ==
    waitSet \cap Producers # {} => Full

(* No lost wakeup: while a consumer is blocked, every element in the queue *)
(* has a woken consumer on its way to it.                                  *)
Woken == {c \in Consumers : pc[c] = "back" \/ (pc[c] = "wait" /\ c \notin waitSet)}

NoLostWakeup ==
    waitSet \cap Consumers # {} => Cardinality(Woken) >= numElements

(* After the last element left a closed queue nobody stays blocked on it,  *)
(* although queue_close wakes consumers only.                              *)
NobodyBlockedWhenDone ==
    closed /\ Empty => waitSet = {}

(* When queue_sync returns, the threads it is to release have been         *)
(* released, though it reads the counters without the mutex.               *)
SyncedMeansReleased ==
    sync = "synced" => closed /\ Empty /\ waitSet = {} /\ InWait(Threads) = {}

(* Without SignalTerminate nothing is refused: closed is set by the last   *)
(* producer only, whichever one that is.                                   *)
ClosedByLastProducer ==
    closed /\ terminated = {} => \A p \in Producers : pc[p] = "done"

(* No consumer leaves before everything accepted has been handed out.      *)
NothingLeftBehind ==
    (\A c \in Consumers : pc[c] = "done") => closed /\ Empty

(* What else every step preserves; IInv is the inductive invariant of the  *)
(* proofs.  The ring holds the numElements items from nextAvail on.        *)
RingConsistent ==
    /\ nextFree = Slot(nextAvail, numElements)
    /\ \A k \in 0 .. numElements - 1 : ring[Slot(nextAvail, k)] \in Item

PusherHasItem == \A p \in Producers : pc[p] \in {"crit", "wait", "back"} => sent[p] < Quota

ConsumerGone == \A c \in Consumers : pc[c] = "done" => closed /\ Empty

OpenProducers == {p \in Producers : pc[p] # "done"}

ProducersCounted ==
    round = 1 /\ terminated = {} => producers = Cardinality(OpenProducers)

SyncProgress ==
    /\ sync \in {"loadC", "loadP", "synced"} => closed /\ Empty
    /\ sync \in {"loadP", "synced"} => cWait = 0
    /\ sync = "synced" => pWait = 0

(* The inductive invariant: mutual exclusion, exact wait counters, the     *)
(* content of the ring and the wakeup rules hold together in every state   *)
(* of the queue.                                                           *)
IInv ==
    /\ TypeOK /\ MutexHeld /\ WaitCounted
    /\ RingConsistent /\ PusherHasItem
    /\ ProducerBlockedOnlyWhenFull /\ NoLostWakeup /\ NobodyBlockedWhenDone
    /\ ConsumerGone /\ ProducersCounted /\ ClosedByLastProducer /\ SyncProgress

(* The queue implements the channel: first in, first out, exactly once.    *)
Contents == [k \in 1 .. numElements |-> ring[Slot(nextAvail, k - 1)]]

Chan == INSTANCE Channel WITH
            Items <- Item, chan <- Contents, received <- popped

ImplementsChannel == Chan!Spec

(* Every thread returns from the queue: waiting producers and consumers    *)
(* are woken in the end, also after SignalTerminate.                       *)
EveryThreadReturns == \A t \in Threads : []<>(pc[t] = "done")

(* queue_sync returns.                                                     *)
SyncReturns == sync = "spin" ~> sync = "synced"
===============================================================================
