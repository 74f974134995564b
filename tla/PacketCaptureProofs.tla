-------------------------- MODULE PacketCaptureProofs --------------------------
(***************************************************************************)
(* Machine-checked proofs about PacketCapture, for all packets and setups, *)
(* any number and size of buffers, any number of nodes, any timeouts and   *)
(* any number of failing calls.                                            *)
(***************************************************************************)
EXTENDS PacketCapture, FiniteSetTheorems, SequenceTheorems, TLAPS

-------------------------------------------------------------------------------
(* The inductive invariant                                                 *)

(* The packet thread has a packet that the flow cache has not seen.        *)
Waiting == packet \in {"rotate", "refill", "sync", "process"} /\ current # None

(* It has a buffer but before the first and while it waits for the next.   *)
HasBuffer == dump /\ packet \notin {"start", "refill", "swap", "exited"}

Threads ==
    /\ mode \in Modes /\ dump \in BOOLEAN /\ stream \in Seq(Traffic)
    /\ dueIn \in Seq(Nat) /\ now \in Nat
    /\ packet \in {"start", "next", "block", "rotate", "refill", "sync", "process", "store",
                   "swap", "finish", "exited"}
    /\ t_start \in Nat /\ t_win \in Nat
    /\ current \in Packets \cup {None}
    /\ packet \in {"process", "store", "swap"} => current # None
    /\ packet \in {"refill", "store", "swap"} => dump
    /\ main \in {"wait", "kill", "joinpacket", "flush", "signal", "joinflow", "exited"}
    /\ main \in {"flush", "signal", "joinflow", "exited"} => packet = "exited"

(* The packet at hand is the last that came, and the slot at hand the one  *)
(* it is due in, or is about to be; main learns the last slot but from     *)
(* linux_packet_thread.                                                    *)
Times ==
    /\ Start <= t_start /\ Slot(t_start) = t_start
    /\ packet \in {"rotate", "refill", "sync"} => now >= t_start + Twin
    /\ Waiting \/ packet \in {"store", "swap"} => dueIn # <<>> /\ Number = Len(dueIn)
    /\ Waiting /\ packet # "process" => dueIn[Len(dueIn)] = Slot(now)
    /\ packet \in {"process", "store", "swap"} => dueIn[Len(dueIn)] = t_start
    /\ t_win = IF packet = "exited" /\ mode # "ring" THEN t_start ELSE Twin

NoRepeats(s) == \A i, j \in DOMAIN s : i # j => s[i] # s[j]

Held == {packetBuffer} \ {None}
Taken == IF flush \in {"open", "write", "dead"} THEN {flushed.buffer} ELSE {}

(* Each buffer is in one of the places.                                    *)
Split(free, queued, held, taken, gone) ==
    /\ free \cup queued \cup held \cup taken \cup gone = Buffers
    /\ free \cap (queued \cup held \cup taken \cup gone) = {}
    /\ queued \cap (held \cup taken \cup gone) = {}
    /\ held \cap (taken \cup gone) = {}
    /\ taken \cap gone = {}

PoolTypes ==
    /\ bufferQueue \in Seq(Buffers) /\ flushQueue \in Seq(Buffers)
    /\ packetBuffer \in Buffers \cup {None}
    /\ content \in [Buffers -> Seq(Nat)] /\ timeStamp \in [Buffers -> Nat]
    /\ \A b \in Buffers : Len(content[b]) <= BufferSize
    /\ flush \in {"pop", "open", "write", "close", "clear", "dead", "exited"}
    /\ flush \notin {"pop", "exited"} => flushed \in [buffer : Buffers, timeStamp : Nat]
    /\ packetBuffer # None <=> HasBuffer

Pool ==
    /\ PoolTypes
    /\ NoRepeats(bufferQueue) /\ NoRepeats(flushQueue)
    /\ Split(ToSet(bufferQueue), ToSet(flushQueue), Held, Taken, dropped)
    /\ \A b \in ToSet(bufferQueue) \cup dropped : content[b] = <<>>

(* The flow cache: flows and fragments in the tree; flows and signals,     *)
(* which have no packets, on the list                                      *)
TreeKeys == {FlowKey(k) : k \in Keys} \cup {FragKey(k) : k \in Keys}

TreeOK(t) ==
    /\ t = [k \in DOMAIN t |-> t[k]] /\ DOMAIN t \subseteq TreeKeys /\ IsFiniteSet(DOMAIN t)
    /\ \A k \in DOMAIN t : t[k] \in Nodes /\ t[k].type \in {"flow", "frag"}

Listed(n) == n \in Nodes /\ n.type # "frag" /\ (n.type # "flow" => n.packets = {})

IsCache(c) ==
    c = [tree |-> c.tree, list |-> c.list, allocated |-> c.allocated, uncounted |-> c.uncounted]

CacheOK(c) ==
    /\ IsCache(c)
    /\ TreeOK(c.tree)
    /\ c.list \in Seq(Nodes) /\ \A i \in DOMAIN c.list : Listed(c.list[i])
    /\ c.allocated \in Int /\ c.uncounted \subseteq Nat

Storage ==
    /\ CacheOK(Cache) /\ leaked \in Nat /\ Allocated <= MaxNodes
    /\ flow \in {"open", "pop", "flow", "sync", "reopen", "done", "dead", "exited"}
    /\ node = None \/ Listed(node)
    /\ flow \in {"open", "pop"} => node = None
    /\ flow \in {"flow", "sync", "done"} => node # None /\ node.type = flow
    /\ flow = "reopen" => node # None /\ node.packets = {}
    /\ nffile \in Seq(Nodes) /\ (flow \in {"open", "reopen"} => nffile = <<>>)
    /\ archive = [s \in DOMAIN archive |-> archive[s]] /\ DOMAIN archive \subseteq Nat
    /\ \A s \in DOMAIN archive : archive[s] \in Seq(Nodes)
    /\ lost = [pcap |-> lost.pcap, flow |-> lost.flow]

(* No packet is in two nodes of the cache.                                 *)
Apart(c) ==
    /\ \A k, l \in DOMAIN c.tree : k # l => c.tree[k].packets \cap c.tree[l].packets = {}
    /\ \A i, j \in DOMAIN c.list : i # j => c.list[i].packets \cap c.list[j].packets = {}
    /\ \A k \in DOMAIN c.tree, i \in DOMAIN c.list : c.tree[k].packets \cap c.list[i].packets = {}
    /\ \A k \in DOMAIN c.tree : c.tree[k].packets \cap c.uncounted = {}
    /\ \A i \in DOMAIN c.list : c.list[i].packets \cap c.uncounted = {}

PacketsAt(t, keys) == UNION {t[k].packets : k \in keys}

InCache(c) == PacketsAt(c.tree, DOMAIN c.tree) \cup PacketsOf(c.list) \cup c.uncounted

(* The flow thread has taken them out of the cache.                        *)
Stored(hand, file, files, gone) ==
    /\ hand \cap (file \cup files \cup gone) = {}
    /\ file \cap (files \cup gone) = {}
    /\ files \cap gone = {}
Passed == InHand \cup PacketsOf(nffile) \cup InFiles \cup lost.flow

Counted ==
    /\ Apart(Cache)
    /\ Stored(InHand, PacketsOf(nffile), InFiles, lost.flow)
    /\ InCache(Cache) \cap Passed = {}
    /\ Numbers = InCache(Cache) \cup Passed \cup (IF Waiting THEN {Number} ELSE {})
    /\ Waiting => Number \notin InCache(Cache) \cup Passed

(* The signal for the end of a slot comes behind the flows of the slot.    *)
Upto(packets, slot) == \A n \in packets : dueIn[n] <= slot

Behind(packets, n) ==
    n.type # "flow" => Upto(packets, n.t_first) \/ (mode = "ring" /\ n.t_first < Start)

Ordered ==
    /\ Upto(InCache(Cache) \cup InHand \cup PacketsOf(nffile), t_start)
    /\ \A i, j \in DOMAIN NodeList : i < j => Behind(NodeList[i].packets, NodeList[j])
    /\ \A j \in DOMAIN NodeList : Behind(InHand \cup PacketsOf(nffile), NodeList[j])
    /\ flow \in {"sync", "done"} => Behind(PacketsOf(nffile), node)
    /\ \A s \in DOMAIN archive : Upto(PacketsOf(archive[s]), s) \/ (mode = "ring" /\ s < Start)

Inductive == Threads /\ Times /\ Pool /\ Storage /\ NodesAccounted /\ Counted /\ Ordered

-------------------------------------------------------------------------------
(* Facts about slots, sequences and sets                                   *)

LEMMA Division ==
  ASSUME NEW t \in Nat
  PROVE  /\ t \div Twin \in Nat /\ t % Twin \in 0 .. Twin - 1
         /\ t = Twin * (t \div Twin) + (t % Twin)
<1>1. Twin \in Nat \ {0}
  BY CaptureAssumption
<1> QED
  BY <1>1

LEMMA SlotFacts ==
  ASSUME NEW t \in Nat
  PROVE  Slot(t) \in Nat /\ Slot(t) <= t /\ t < Slot(t) + Twin /\ Slot(t) = Twin * (t \div Twin)
<1>1. Twin \in Nat \ {0}
  BY CaptureAssumption
<1> QED
  BY <1>1, Division DEF Slot

LEMMA Multiples ==
  ASSUME NEW a \in Nat, NEW b \in Nat, Twin * a < Twin * b + Twin
  PROVE  a <= b /\ Twin * a <= Twin * b
<1>1. Twin \in Nat
  BY CaptureAssumption
<1>2. a <= b
  <2> SUFFICES ASSUME a >= b + 1 PROVE FALSE
    OBVIOUS
  <2>1. PICK d \in Nat : a = b + 1 + d
    <3>1. a - (b + 1) \in Nat /\ a = b + 1 + (a - (b + 1))
      OBVIOUS
    <3> QED
      BY <3>1
  <2>2. Twin * a = Twin * b + Twin + Twin * d
    BY <1>1, <2>1
  <2>3. Twin * d \in Nat /\ Twin * b \in Nat
    BY <1>1
  <2> QED
    BY <1>1, <2>2, <2>3
<1>3. PICK d \in Nat : b = a + d
  <2>1. b - a \in Nat /\ b = a + (b - a)
    BY <1>2
  <2> QED
    BY <2>1
<1>4. Twin * b = Twin * a + Twin * d /\ Twin * d \in Nat /\ Twin * a \in Nat
  BY <1>1, <1>3
<1> QED
  BY <1>2, <1>4

(* A time before the end of a slot is in no later slot.                    *)
LEMMA SlotBelow ==
  ASSUME NEW t \in Nat, NEW s \in Nat, Slot(s) = s, t < s + Twin
  PROVE  Slot(t) <= s
<1>1. /\ Slot(t) = Twin * (t \div Twin) /\ s = Twin * (s \div Twin) /\ Slot(t) <= t
      /\ Slot(t) \in Nat /\ t \div Twin \in Nat /\ s \div Twin \in Nat /\ Twin \in Nat
  BY SlotFacts, Division, CaptureAssumption
<1>2. Twin * (t \div Twin) < Twin * (s \div Twin) + Twin
  BY <1>1
<1>3. Twin * (t \div Twin) <= Twin * (s \div Twin)
  BY <1>1, <1>2, Multiples
<1> QED
  BY <1>1, <1>3

LEMMA SlotOfSlot ==
  ASSUME NEW t \in Nat
  PROVE  Slot(Slot(t)) = Slot(t)
<1>1. Slot(t) \in Nat /\ Slot(Slot(t)) = Twin * (Slot(t) \div Twin)
  BY SlotFacts
<1>2. Slot(t) = Twin * (t \div Twin)
  BY SlotFacts
<1>3. Slot(t) < Slot(Slot(t)) + Twin /\ Slot(Slot(t)) <= Slot(t) /\ Slot(Slot(t)) \in Nat
  BY <1>1, SlotFacts
<1>4. t \div Twin \in Nat /\ Slot(t) \div Twin \in Nat
  BY <1>1, Division
<1>5. Slot(t) <= Slot(Slot(t))
  BY <1>1, <1>2, <1>3, <1>4, Multiples
<1> QED
  BY <1>3, <1>5, <1>1

(* While the slot lasts, later times of it have the same start.            *)
LEMMA SlotSame ==
  ASSUME NEW t \in Nat, NEW s \in Nat, Slot(s) = s, s <= t, t < s + Twin
  PROVE  Slot(t) = s
<1>1. Slot(t) <= s /\ Slot(t) \in Nat /\ t < Slot(t) + Twin
  BY SlotBelow, SlotFacts
<1>2. Slot(Slot(t)) = Slot(t)
  BY SlotOfSlot
<1>3. s < Slot(t) + Twin
  BY <1>1, CaptureAssumption
<1>4. Slot(s) <= Slot(t)
  BY <1>1, <1>2, <1>3, SlotBelow
<1> QED
  BY <1>1, <1>4

LEMMA SeqAppend ==
  ASSUME NEW R, NEW s \in Seq(R), NEW x \in R
  PROVE  /\ Append(s, x) \in Seq(R) /\ Len(Append(s, x)) = Len(s) + 1
         /\ \A i \in 1 .. Len(s) : Append(s, x)[i] = s[i]
         /\ Append(s, x)[Len(s) + 1] = x
         /\ DOMAIN Append(s, x) = 1 .. Len(s) + 1
         /\ ToSet(Append(s, x)) = ToSet(s) \cup {x}
<1>1. /\ Append(s, x) \in Seq(R) /\ Len(Append(s, x)) = Len(s) + 1
      /\ \A i \in 1 .. Len(s) : Append(s, x)[i] = s[i]
      /\ Append(s, x)[Len(s) + 1] = x
      /\ DOMAIN Append(s, x) = 1 .. Len(s) + 1 /\ DOMAIN s = 1 .. Len(s)
  OBVIOUS
<1>2. ToSet(Append(s, x)) = ToSet(s) \cup {x}
  <2>1. ASSUME NEW y \in ToSet(Append(s, x)) PROVE y \in ToSet(s) \cup {x}
    BY <1>1, <2>1 DEF ToSet
  <2>2. ASSUME NEW y \in ToSet(s) PROVE y \in ToSet(Append(s, x))
    <3>1. PICK i \in 1 .. Len(s) : s[i] = y
      BY <1>1 DEF ToSet
    <3>2. i \in DOMAIN Append(s, x) /\ Append(s, x)[i] = y
      BY <1>1, <3>1
    <3> QED
      BY <3>2 DEF ToSet
  <2>3. x \in ToSet(Append(s, x))
    <3>1. Len(s) + 1 \in DOMAIN Append(s, x)
      BY <1>1
    <3> QED
      BY <1>1, <3>1 DEF ToSet
  <2> QED
    BY <2>1, <2>2, <2>3
<1> QED
  BY <1>1, <1>2

LEMMA SeqConcat ==
  ASSUME NEW R, NEW s \in Seq(R), NEW r \in Seq(R)
  PROVE  /\ s \o r \in Seq(R) /\ Len(s \o r) = Len(s) + Len(r)
         /\ DOMAIN (s \o r) = 1 .. Len(s) + Len(r)
         /\ \A i \in 1 .. Len(s) : (s \o r)[i] = s[i]
         /\ \A i \in 1 .. Len(r) : (s \o r)[Len(s) + i] = r[i]
         /\ ToSet(s \o r) = ToSet(s) \cup ToSet(r)
<1>1. /\ s \o r \in Seq(R) /\ Len(s \o r) = Len(s) + Len(r)
      /\ DOMAIN (s \o r) = 1 .. Len(s) + Len(r)
      /\ \A i \in 1 .. Len(s) : (s \o r)[i] = s[i]
      /\ \A i \in 1 .. Len(s) + Len(r) : i > Len(s) => (s \o r)[i] = r[i - Len(s)]
      /\ DOMAIN s = 1 .. Len(s) /\ DOMAIN r = 1 .. Len(r)
  OBVIOUS
<1>2. ASSUME NEW i \in 1 .. Len(r) PROVE (s \o r)[Len(s) + i] = r[i] /\ Len(s) + i \in DOMAIN (s \o r)
  <2>1. Len(s) + i \in 1 .. Len(s) + Len(r) /\ Len(s) + i > Len(s) /\ (Len(s) + i) - Len(s) = i
    OBVIOUS
  <2> QED
    BY <1>1, <2>1
<1>3. ToSet(s \o r) = ToSet(s) \cup ToSet(r)
  <2>1. ASSUME NEW i \in DOMAIN (s \o r) PROVE (s \o r)[i] \in ToSet(s) \cup ToSet(r)
    <3>1. CASE i \in 1 .. Len(s)
      BY <1>1, <3>1 DEF ToSet
    <3>2. CASE i > Len(s)
      <4>1. i - Len(s) \in DOMAIN r /\ (s \o r)[i] = r[i - Len(s)]
        BY <1>1, <3>2
      <4> QED
        BY <4>1 DEF ToSet
    <3> QED
      BY <1>1, <3>1, <3>2
  <2>2. ASSUME NEW i \in DOMAIN s PROVE s[i] \in ToSet(s \o r)
    <3>1. i \in DOMAIN (s \o r) /\ (s \o r)[i] = s[i]
      BY <1>1
    <3> QED
      BY <3>1 DEF ToSet
  <2>3. ASSUME NEW i \in DOMAIN r PROVE r[i] \in ToSet(s \o r)
    <3>1. Len(s) + i \in DOMAIN (s \o r) /\ (s \o r)[Len(s) + i] = r[i]
      BY <1>1, <1>2
    <3> QED
      BY <3>1 DEF ToSet
  <2> QED
    BY <2>1, <2>2, <2>3 DEF ToSet
<1> QED
  BY <1>1, <1>2, <1>3

LEMMA SeqHeadTail ==
  ASSUME NEW R, NEW s \in Seq(R), s # <<>>
  PROVE  /\ Head(s) \in R /\ Head(s) = s[1] /\ Tail(s) \in Seq(R) /\ Len(Tail(s)) = Len(s) - 1
         /\ Len(s) \in Nat \ {0} /\ DOMAIN Tail(s) = 1 .. Len(s) - 1 /\ DOMAIN s = 1 .. Len(s)
         /\ \A i \in 1 .. Len(s) - 1 : Tail(s)[i] = s[i + 1]
         /\ ToSet(s) = {Head(s)} \cup ToSet(Tail(s))
         /\ NoRepeats(s) => NoRepeats(Tail(s)) /\ Head(s) \notin ToSet(Tail(s))
<1>1. /\ Head(s) \in R /\ Head(s) = s[1] /\ Tail(s) \in Seq(R) /\ Len(Tail(s)) = Len(s) - 1
      /\ Len(s) \in Nat \ {0} /\ DOMAIN Tail(s) = 1 .. Len(s) - 1 /\ DOMAIN s = 1 .. Len(s)
      /\ \A i \in 1 .. Len(s) - 1 : Tail(s)[i] = s[i + 1]
  OBVIOUS
<1>2. ToSet(s) = {Head(s)} \cup ToSet(Tail(s))
  <2>1. ASSUME NEW i \in DOMAIN s PROVE s[i] \in {Head(s)} \cup ToSet(Tail(s))
    <3>1. CASE i = 1
      BY <1>1, <3>1
    <3>2. CASE i > 1
      <4>1. i - 1 \in DOMAIN Tail(s) /\ Tail(s)[i - 1] = s[i]
        BY <1>1, <3>2
      <4> QED
        BY <4>1 DEF ToSet
    <3> QED
      BY <1>1, <3>1, <3>2
  <2>2. ASSUME NEW i \in DOMAIN Tail(s) PROVE Tail(s)[i] \in ToSet(s)
    <3>1. i + 1 \in DOMAIN s /\ Tail(s)[i] = s[i + 1]
      BY <1>1
    <3> QED
      BY <3>1 DEF ToSet
  <2>3. Head(s) \in ToSet(s)
    <3>1. 1 \in DOMAIN s
      BY <1>1
    <3> QED
      BY <1>1, <3>1 DEF ToSet
  <2> QED
    BY <2>1, <2>2, <2>3 DEF ToSet
<1>3. ASSUME NoRepeats(s) PROVE NoRepeats(Tail(s)) /\ Head(s) \notin ToSet(Tail(s))
  <2>1. ASSUME NEW i \in DOMAIN Tail(s) PROVE i + 1 \in DOMAIN s /\ i + 1 # 1 /\ Tail(s)[i] = s[i + 1]
    BY <1>1
  <2>2. NoRepeats(Tail(s))
    <3>1. ASSUME NEW i \in DOMAIN Tail(s), NEW j \in DOMAIN Tail(s), i # j PROVE Tail(s)[i] # Tail(s)[j]
      <4>1. i + 1 # j + 1
        BY <1>1, <3>1
      <4> QED
        BY <1>3, <2>1, <4>1 DEF NoRepeats
    <3> QED
      BY <3>1 DEF NoRepeats
  <2>3. ASSUME NEW i \in DOMAIN Tail(s), Tail(s)[i] = Head(s) PROVE FALSE
    <3>1. 1 \in DOMAIN s
      BY <1>1
    <3> QED
      BY <1>1, <1>3, <2>1, <2>3, <3>1 DEF NoRepeats
  <2> QED
    BY <2>2, <2>3 DEF ToSet
<1> QED
  BY <1>1, <1>2, <1>3

LEMMA NoRepeatsAppend ==
  ASSUME NEW R, NEW s \in Seq(R), NEW x \in R, NoRepeats(s), x \notin ToSet(s)
  PROVE  NoRepeats(Append(s, x))
<1>1. ASSUME NEW i \in DOMAIN Append(s, x), NEW j \in DOMAIN Append(s, x), i < j
      PROVE  Append(s, x)[i] # Append(s, x)[j]
  <2>1. i \in 1 .. Len(s) /\ Append(s, x)[i] = s[i] /\ i \in DOMAIN s
    BY <1>1, SeqAppend
  <2>2. CASE j = Len(s) + 1
    <3>1. Append(s, x)[j] = x /\ s[i] \in ToSet(s)
      BY <2>1, <2>2, SeqAppend DEF ToSet
    <3> QED
      BY <2>1, <3>1
  <2>3. CASE j \in 1 .. Len(s)
    <3>1. Append(s, x)[j] = s[j] /\ j \in DOMAIN s /\ i # j
      BY <1>1, <2>1, <2>3, SeqAppend
    <3> QED
      BY <2>1, <3>1 DEF NoRepeats
  <2>4. j \in 1 .. Len(s) + 1
    BY SeqAppend
  <2> QED
    BY <2>2, <2>3, <2>4
<1>2. ASSUME NEW i \in DOMAIN Append(s, x), NEW j \in DOMAIN Append(s, x), i # j
      PROVE  i < j \/ j < i
  BY <1>2, SeqAppend
<1> QED
  BY <1>1, <1>2 DEF NoRepeats

(* A sequence without repetitions is as long as the set of its elements.   *)
LEMMA NoRepeatsLen ==
  ASSUME NEW R, NEW s \in Seq(R), NoRepeats(s)
  PROVE  IsFiniteSet(ToSet(s)) /\ Cardinality(ToSet(s)) = Len(s)
<1> DEFINE n == Len(s)
<1>1. n \in Nat /\ DOMAIN s = 1 .. n /\ s = [i \in 1 .. n |-> s[i]]
  OBVIOUS
<1>2. s \in Bijection(1 .. n, ToSet(s))
  <2>1. s \in [1 .. n -> ToSet(s)]
    BY <1>1 DEF ToSet
  <2>2. \A i, j \in 1 .. n : s[i] = s[j] => i = j
    BY <1>1 DEF NoRepeats
  <2>3. \A x \in ToSet(s) : \E i \in 1 .. n : s[i] = x
    BY <1>1 DEF ToSet
  <2> HIDE DEF n
  <2>4. IsInjective(s)
    BY <2>1, <2>2 DEF IsInjective
  <2>5. s \in Injection(1 .. n, ToSet(s))
    BY <2>1, <2>4, Zenon DEF Injection
  <2>6. s \in Surjection(1 .. n, ToSet(s))
    BY <2>1, <2>3, Zenon DEF Surjection
  <2> QED
    BY <2>5, <2>6, Zenon DEF Bijection
<1> HIDE DEF n
<1>3. IsFiniteSet(1 .. n) /\ Cardinality(1 .. n) = n
  <2>1. n \in Nat
    BY <1>1
  <2> QED
    BY <2>1, FS_Interval
<1>4. ExistsBijection(1 .. n, ToSet(s))
  BY <1>2 DEF ExistsBijection
<1>5. IsFiniteSet(ToSet(s)) /\ Cardinality(ToSet(s)) = Cardinality(1 .. n)
  BY <1>3, <1>4, FS_Bijection
<1> QED
  BY <1>3, <1>5 DEF n

(* SetToSeq lists the members of a finite set.                             *)
LEMMA SetToSeqFacts ==
  ASSUME NEW S, IsFiniteSet(S)
  PROVE  /\ SetToSeq(S) \in Seq(S) /\ Len(SetToSeq(S)) = Cardinality(S)
         /\ NoRepeats(SetToSeq(S)) /\ ToSet(SetToSeq(S)) = S
<1> DEFINE n == Cardinality(S)
           s == SetToSeq(S)
<1>1. n \in Nat /\ ExistsBijection(1 .. n, S)
  BY FS_CardinalityType
<1>2. PICK f : f \in Bijection(1 .. n, S)
  BY <1>1 DEF ExistsBijection
<1>3. f \in [1 .. n -> S] /\ IsInjective(f)
  BY <1>2 DEF Bijection, Injection, IsInjective
<1>4. s \in [1 .. n -> S] /\ IsInjective(s)
  BY <1>3 DEF SetToSeq
<1> HIDE DEF s
<1>5. s \in Seq(S) /\ Len(s) = n
  BY <1>1, <1>4
<1>6. NoRepeats(s)
  BY <1>4 DEF IsInjective, NoRepeats
<1>7. ToSet(s) \subseteq S /\ Cardinality(ToSet(s)) = n
  <2>1. ToSet(s) \subseteq S
    BY <1>4 DEF ToSet
  <2> QED
    BY <1>5, <1>6, <2>1, NoRepeatsLen
<1>8. ToSet(s) = S
  BY <1>7, FS_Subset
<1> QED
  BY <1>5, <1>6, <1>8 DEF s

-------------------------------------------------------------------------------
(* The flow cache                                                          *)

(* The second list is the first one with flows behind it.                  *)
Extends(s, t) ==
    \E r \in Seq(Nodes) : t = s \o r /\ \A i \in DOMAIN r : r[i].type = "flow"

(* d has the packets and the nodes of c, but for fragments that were freed *)
Sifted(c, d) ==
    /\ CacheOK(d)
    /\ d.allocated - Cardinality(DOMAIN d.tree) - Len(d.list)
         = c.allocated - Cardinality(DOMAIN c.tree) - Len(c.list)
    /\ d.allocated <= c.allocated
    /\ Apart(c) => Apart(d)
    /\ InCache(d) = InCache(c)
    /\ Extends(c.list, d.list)

LEMMA ExtendsItself ==
  ASSUME NEW s \in Seq(Nodes)
  PROVE  Extends(s, s)
<1>1. <<>> \in Seq(Nodes) /\ s = s \o <<>> /\ DOMAIN <<>> = {}
  OBVIOUS
<1> QED
  BY <1>1 DEF Extends

LEMMA ExtendsFurther ==
  ASSUME NEW s \in Seq(Nodes), NEW t, NEW u, Extends(s, t), Extends(t, u)
  PROVE  Extends(s, u)
<1>1. PICK r \in Seq(Nodes) : t = s \o r /\ \A i \in DOMAIN r : r[i].type = "flow"
  BY DEF Extends
<1>2. PICK q \in Seq(Nodes) : u = t \o q /\ \A i \in DOMAIN q : q[i].type = "flow"
  BY DEF Extends
<1>3. u = s \o (r \o q) /\ r \o q \in Seq(Nodes)
  BY <1>1, <1>2
<1>4. ASSUME NEW i \in DOMAIN (r \o q) PROVE (r \o q)[i].type = "flow"
  <2>1. CASE i \in 1 .. Len(r)
    <3>1. (r \o q)[i] = r[i] /\ i \in DOMAIN r
      BY <2>1
    <3> QED
      BY <1>1, <3>1
  <2>2. CASE i > Len(r)
    <3>1. i - Len(r) \in DOMAIN q /\ (r \o q)[i] = q[i - Len(r)]
      BY <2>2
    <3> QED
      BY <1>2, <3>1
  <2> QED
    BY <2>1, <2>2, SeqConcat
<1> QED
  BY <1>3, <1>4 DEF Extends

LEMMA SiftedItself ==
  ASSUME NEW c, CacheOK(c)
  PROVE  Sifted(c, c)
<1>1. Cardinality(DOMAIN c.tree) \in Nat /\ Len(c.list) \in Nat /\ c.allocated \in Int /\ c.list \in Seq(Nodes)
  BY FS_CardinalityType DEF CacheOK, TreeOK
<1> QED
  BY <1>1, ExtendsItself DEF Sifted

LEMMA SiftedFurther ==
  ASSUME NEW c, NEW d, NEW e, CacheOK(c), Sifted(c, d), Sifted(d, e)
  PROVE  Sifted(c, e)
<1>1. /\ c.list \in Seq(Nodes) /\ c.allocated \in Int /\ d.allocated \in Int /\ e.allocated \in Int
  BY DEF Sifted, CacheOK
<1>2. Extends(c.list, e.list)
  BY <1>1, ExtendsFurther DEF Sifted
<1>3. e.allocated <= c.allocated
  BY <1>1 DEF Sifted
<1> QED
  BY <1>2, <1>3 DEF Sifted

(* Removed puts flows on the list and drops fragments.                     *)
Parted(c, keys, frags, flows, d) ==
    /\ frags = {k \in keys : c.tree[k].type = "frag"}
    /\ NoRepeats(flows) /\ ToSet(flows) = keys \ frags /\ Len(flows) = Cardinality(keys \ frags)
    /\ IsCache(d)
    /\ d.tree = [k \in DOMAIN c.tree \ keys |-> c.tree[k]]
    /\ d.list = c.list \o [i \in DOMAIN flows |-> c.tree[flows[i]]]
    /\ d.allocated = c.allocated - Cardinality(frags)
    /\ d.uncounted = c.uncounted \cup PacketsAt(c.tree, frags)

LEMMA RemovedParts ==
  ASSUME NEW c, CacheOK(c), NEW keys \in SUBSET DOMAIN c.tree, NEW d, d = Removed(c, keys)
  PROVE  \E frags \in SUBSET keys, flows \in Seq(keys) : Parted(c, keys, frags, flows, d)
<1> DEFINE frags == {k \in keys : c.tree[k].type = "frag"}
           flows == SetToSeq(keys \ frags)
<1>1. IsFiniteSet(keys \ frags)
  <2>1. IsFiniteSet(DOMAIN c.tree) /\ keys \ frags \subseteq DOMAIN c.tree
    BY DEF CacheOK, TreeOK
  <2> QED
    BY <2>1, FS_Subset
<1>2. /\ flows \in Seq(keys \ frags) /\ Len(flows) = Cardinality(keys \ frags)
      /\ NoRepeats(flows) /\ ToSet(flows) = keys \ frags
  <2> HIDE DEF frags
  <2> QED
    BY <1>1, SetToSeqFacts
<1>3. d = [tree |-> [k \in DOMAIN c.tree \ keys |-> c.tree[k]],
           list |-> c.list \o [i \in DOMAIN flows |-> c.tree[flows[i]]],
           allocated |-> c.allocated - Cardinality(frags),
           uncounted |-> c.uncounted \cup PacketsAt(c.tree, frags)]
  <2> HIDE DEF flows, frags
  <2> QED
    BY Zenon DEF Removed, Restrict, flows, frags, PacketsAt
<1>4. frags \in SUBSET keys
  OBVIOUS
<1>5. flows \in Seq(keys)
  <2> HIDE DEF flows, frags
  <2> QED
    BY <1>2
<1> HIDE DEF flows, frags
<1>6. frags = {k \in keys : c.tree[k].type = "frag"}
  BY DEF frags
<1>7. /\ IsCache(d)
      /\ d.tree = [k \in DOMAIN c.tree \ keys |-> c.tree[k]]
      /\ d.list = c.list \o [i \in DOMAIN flows |-> c.tree[flows[i]]]
      /\ d.allocated = c.allocated - Cardinality(frags)
      /\ d.uncounted = c.uncounted \cup PacketsAt(c.tree, frags)
  BY <1>3 DEF IsCache
<1>8. Parted(c, keys, frags, flows, d)
  BY <1>2, <1>6, <1>7, Zenon DEF Parted
<1> QED
  BY <1>4, <1>5, <1>8

(* Removed keeps what there is, in other places.                           *)
LEMMA RemovedTypes ==
  ASSUME NEW c, CacheOK(c), NEW keys \in SUBSET DOMAIN c.tree, NEW d, d = Removed(c, keys)
  PROVE  /\ CacheOK(d) /\ d.allocated <= c.allocated
         /\ d.allocated - Cardinality(DOMAIN d.tree) - Len(d.list)
              = c.allocated - Cardinality(DOMAIN c.tree) - Len(c.list)
         /\ Extends(c.list, d.list)
<1>1. PICK frags \in SUBSET keys, flows \in Seq(keys) : Parted(c, keys, frags, flows, d)
  BY RemovedParts
<1> DEFINE r == [i \in DOMAIN flows |-> c.tree[flows[i]]]
<1>2. /\ IsCache(d)
      /\ d.tree = [k \in DOMAIN c.tree \ keys |-> c.tree[k]] /\ d.list = c.list \o r
      /\ d.allocated = c.allocated - Cardinality(frags)
      /\ d.uncounted = c.uncounted \cup PacketsAt(c.tree, frags)
      /\ frags = {k \in keys : c.tree[k].type = "frag"}
      /\ ToSet(flows) = keys \ frags /\ Len(flows) = Cardinality(keys \ frags)
  BY <1>1, Zenon DEF Parted
<1>3. /\ IsFiniteSet(DOMAIN c.tree) /\ DOMAIN c.tree \subseteq TreeKeys /\ c.list \in Seq(Nodes)
      /\ \A i \in DOMAIN c.list : Listed(c.list[i])
      /\ c.allocated \in Int /\ c.uncounted \subseteq Nat
      /\ \A k \in DOMAIN c.tree : c.tree[k] \in Nodes /\ c.tree[k].type \in {"flow", "frag"} /\ c.tree[k].packets \subseteq Nat
  BY DEF CacheOK, TreeOK, Nodes
<1>4. ASSUME NEW i \in DOMAIN flows
      PROVE  r[i] \in Nodes /\ r[i].type = "flow"
  <2>1. flows[i] \in keys \ frags
    BY <1>2 DEF ToSet
  <2>2. r[i] = c.tree[flows[i]]
    OBVIOUS
  <2> HIDE DEF r
  <2> QED
    BY <1>2, <1>3, <2>1, <2>2
<1>5. r \in Seq(Nodes) /\ Len(r) = Len(flows) /\ DOMAIN r = DOMAIN flows
  BY <1>4
<1> HIDE DEF r
<1>6. Extends(c.list, d.list)
  BY <1>2, <1>4, <1>5 DEF Extends
<1>7. IsFiniteSet(keys) /\ IsFiniteSet(frags) /\ IsFiniteSet(keys \ frags) /\ IsFiniteSet(DOMAIN c.tree \ keys)
  <2>1. IsFiniteSet(keys) /\ IsFiniteSet(DOMAIN c.tree \ keys)
    BY <1>3, FS_Subset
  <2> QED
    BY <2>1, FS_Subset
<1>8. /\ Cardinality(DOMAIN c.tree) = Cardinality(keys) + Cardinality(DOMAIN c.tree \ keys)
      /\ Cardinality(keys) = Cardinality(frags) + Cardinality(keys \ frags)
  <2>1. Cardinality(DOMAIN c.tree \ keys) = Cardinality(DOMAIN c.tree) - Cardinality(DOMAIN c.tree \cap keys)
    BY <1>3, FS_Difference
  <2>2. Cardinality(keys \ frags) = Cardinality(keys) - Cardinality(keys \cap frags)
    BY <1>7, FS_Difference
  <2>3. DOMAIN c.tree \cap keys = keys /\ keys \cap frags = frags
    OBVIOUS
  <2>4. /\ Cardinality(DOMAIN c.tree) \in Nat /\ Cardinality(keys) \in Nat /\ Cardinality(frags) \in Nat
        /\ Cardinality(keys \ frags) \in Nat /\ Cardinality(DOMAIN c.tree \ keys) \in Nat
    BY <1>3, <1>7, FS_CardinalityType
  <2>5. /\ Cardinality(DOMAIN c.tree \ keys) = Cardinality(DOMAIN c.tree) - Cardinality(keys)
        /\ Cardinality(keys \ frags) = Cardinality(keys) - Cardinality(frags)
    BY <2>1, <2>2, <2>3, Zenon
  <2> QED
    BY <2>4, <2>5
<1>9. /\ Cardinality(keys) \in Nat /\ Cardinality(frags) \in Nat /\ Cardinality(keys \ frags) \in Nat
      /\ Cardinality(DOMAIN c.tree \ keys) \in Nat
  BY <1>7, FS_CardinalityType
<1>10. DOMAIN d.tree = DOMAIN c.tree \ keys
  BY <1>2
<1>11. Len(d.list) = Len(c.list) + Cardinality(keys \ frags) /\ Len(c.list) \in Nat
  <2>1. Len(c.list \o r) = Len(c.list) + Len(r)
    <3>1. c.list \in Seq(Nodes) /\ r \in Seq(Nodes)
      BY <1>3, <1>5
    <3> QED
      BY <3>1, SeqConcat
  <2> QED
    BY <1>2, <1>3, <1>5, <2>1
<1>12. d.allocated - Cardinality(DOMAIN d.tree) - Len(d.list)
              = c.allocated - Cardinality(DOMAIN c.tree) - Len(c.list)
  <2> DEFINE K == Cardinality(keys)  F == Cardinality(frags)  G == Cardinality(keys \ frags)
             R == Cardinality(DOMAIN c.tree \ keys)  T == Cardinality(DOMAIN c.tree)  n == Len(c.list)  m == Len(d.list)
  <2>1. /\ T = K + R /\ K = F + G /\ m = n + G /\ Cardinality(DOMAIN d.tree) = R
        /\ K \in Nat /\ F \in Nat /\ G \in Nat /\ R \in Nat /\ n \in Nat
        /\ d.allocated = c.allocated - F /\ c.allocated \in Int
    BY <1>2, <1>3, <1>8, <1>9, <1>10, <1>11
  <2> HIDE DEF K, F, G, R, T, n, m
  <2>2. d.allocated - R - m = c.allocated - T - n
    BY <2>1
  <2> QED
    BY <2>1, <2>2 DEF R, T, n, m
<1>13. d.allocated \in Int /\ d.allocated <= c.allocated
  BY <1>2, <1>3, <1>9
<1>14. d.uncounted \subseteq Nat
  BY <1>2, <1>3 DEF PacketsAt
<1>15. d.list \in Seq(Nodes)
  BY <1>2, <1>3, <1>5, SeqConcat
<1>16. ASSUME NEW i \in DOMAIN d.list PROVE Listed(d.list[i])
  <2>1. CASE i \in 1 .. Len(c.list)
    BY <1>2, <1>3, <1>5, <2>1, SeqConcat
  <2>2. CASE i > Len(c.list)
    <3>1. i - Len(c.list) \in DOMAIN r /\ d.list[i] = r[i - Len(c.list)]
      BY <1>2, <1>3, <1>5, <2>2
    <3>2. r[i - Len(c.list)] \in Nodes /\ r[i - Len(c.list)].type = "flow"
      BY <1>4, <1>5, <3>1
    <3> QED
      BY <3>1, <3>2 DEF Listed
  <2> QED
    BY <1>11, <1>15, <2>1, <2>2, SeqConcat
<1>17. TreeOK(d.tree)
  BY <1>2, <1>3, <1>7, <1>10 DEF TreeOK
<1>18. CacheOK(d)
  BY <1>2, <1>13, <1>14, <1>15, <1>16, <1>17 DEF CacheOK
<1> QED
  BY <1>6, <1>12, <1>13, <1>18

LEMMA RemovedPackets ==
  ASSUME NEW c, CacheOK(c), NEW keys \in SUBSET DOMAIN c.tree, NEW d, d = Removed(c, keys)
  PROVE  /\ Apart(c) => Apart(d)
         /\ InCache(d) = InCache(c)
<1>1. PICK frags \in SUBSET keys, flows \in Seq(keys) : Parted(c, keys, frags, flows, d)
  BY RemovedParts
<1> DEFINE r == [i \in DOMAIN flows |-> c.tree[flows[i]]]
           n == Len(c.list)
<1>2. /\ d.tree = [k \in DOMAIN c.tree \ keys |-> c.tree[k]] /\ d.list = c.list \o r
      /\ d.uncounted = c.uncounted \cup PacketsAt(c.tree, frags)
      /\ frags = {k \in keys : c.tree[k].type = "frag"}
      /\ ToSet(flows) = keys \ frags /\ NoRepeats(flows)
  BY <1>1, Zenon DEF Parted
<1>3. c.list \in Seq(Nodes) /\ n \in Nat /\ n = Len(c.list) /\ DOMAIN c.list = 1 .. n /\ \A k \in DOMAIN c.tree : c.tree[k] \in Nodes
  BY DEF CacheOK, TreeOK
<1>4. \A i \in DOMAIN flows : r[i] = c.tree[flows[i]] /\ flows[i] \in keys \ frags
  BY <1>2 DEF ToSet
<1>5. r \in Seq(Nodes) /\ DOMAIN r = DOMAIN flows /\ DOMAIN r = 1 .. Len(r)
  BY <1>3, <1>4
<1> HIDE DEF r, n
<1>6. /\ DOMAIN d.list = 1 .. n + Len(r)
      /\ \A i \in 1 .. n : d.list[i] = c.list[i]
      /\ \A i \in DOMAIN r : d.list[n + i] = r[i]
      /\ ToSet(d.list) = ToSet(c.list) \cup ToSet(r)
  <2>1. /\ DOMAIN (c.list \o r) = 1 .. Len(c.list) + Len(r)
        /\ \A i \in 1 .. Len(c.list) : (c.list \o r)[i] = c.list[i]
        /\ \A i \in 1 .. Len(r) : (c.list \o r)[Len(c.list) + i] = r[i]
        /\ ToSet(c.list \o r) = ToSet(c.list) \cup ToSet(r)
    <3>1. c.list \in Seq(Nodes) /\ r \in Seq(Nodes)
      BY <1>3, <1>5
    <3> QED
      BY <3>1, SeqConcat
  <2> QED
    BY <1>2, <1>3, <1>5, <2>1, Zenon
<1>7. ASSUME NEW i \in DOMAIN d.list, i \notin 1 .. n
      PROVE  i - n \in DOMAIN flows /\ d.list[i] = c.tree[flows[i - n]]
  <2>1. i - n \in DOMAIN r /\ n + (i - n) = i
    BY <1>3, <1>5, <1>6, <1>7
  <2> QED
    BY <1>4, <1>5, <1>6, <2>1
<1>8. DOMAIN d.tree = DOMAIN c.tree \ keys /\ \A k \in DOMAIN d.tree : d.tree[k] = c.tree[k]
  BY <1>2
<1>9. ASSUME Apart(c) PROVE Apart(d)
  <2>1. \A k, l \in DOMAIN d.tree : k # l => d.tree[k].packets \cap d.tree[l].packets = {}
    BY <1>8, <1>9 DEF Apart
  <2>2. ASSUME NEW i \in DOMAIN d.list, NEW j \in DOMAIN d.list, i # j
        PROVE  d.list[i].packets \cap d.list[j].packets = {}
    <3>1. CASE i \in 1 .. n /\ j \in 1 .. n
      BY <1>3, <1>6, <1>9, <2>2, <3>1 DEF Apart
    <3>2. CASE i \in 1 .. n /\ j \notin 1 .. n
      <4>1. flows[j - n] \in DOMAIN c.tree /\ d.list[j] = c.tree[flows[j - n]]
        BY <1>4, <1>7, <3>2
      <4>2. i \in DOMAIN c.list /\ d.list[i] = c.list[i]
        BY <1>3, <1>6, <3>2
      <4> QED
        BY <1>9, <4>1, <4>2, Zenon DEF Apart
    <3>3. CASE i \notin 1 .. n /\ j \in 1 .. n
      <4>1. flows[i - n] \in DOMAIN c.tree /\ d.list[i] = c.tree[flows[i - n]]
        BY <1>4, <1>7, <3>3
      <4>2. j \in DOMAIN c.list /\ d.list[j] = c.list[j]
        BY <1>3, <1>6, <3>3
      <4>3. c.tree[flows[i - n]].packets \cap c.list[j].packets = {}
        BY <1>9, <4>1, <4>2, Zenon DEF Apart
      <4> QED
        BY <4>1, <4>2, <4>3, Zenon
    <3>4. CASE i \notin 1 .. n /\ j \notin 1 .. n
      <4>1. i - n # j - n /\ i - n \in DOMAIN flows /\ j - n \in DOMAIN flows
        BY <1>3, <1>6, <1>7, <2>2, <3>4
      <4>2. flows[i - n] # flows[j - n]
        BY <1>2, <4>1 DEF NoRepeats
      <4> QED
        BY <1>4, <1>7, <1>9, <3>4, <4>1, <4>2 DEF Apart
    <3> QED
      BY <3>1, <3>2, <3>3, <3>4
  <2>3. ASSUME NEW k \in DOMAIN d.tree, NEW i \in DOMAIN d.list
        PROVE  d.tree[k].packets \cap d.list[i].packets = {}
    <3>1. CASE i \in 1 .. n
      BY <1>3, <1>6, <1>8, <1>9, <3>1 DEF Apart
    <3>2. CASE i \notin 1 .. n
      BY <1>4, <1>7, <1>8, <1>9, <3>2 DEF Apart
    <3> QED
      BY <3>1, <3>2
  <2>4. ASSUME NEW k \in DOMAIN d.tree PROVE d.tree[k].packets \cap d.uncounted = {}
    BY <1>2, <1>8, <1>9 DEF Apart, PacketsAt
  <2>5. ASSUME NEW i \in DOMAIN d.list PROVE d.list[i].packets \cap d.uncounted = {}
    <3>1. CASE i \in 1 .. n
      BY <1>2, <1>3, <1>6, <1>9, <3>1 DEF Apart, PacketsAt
    <3>2. CASE i \notin 1 .. n
      <4>1. PICK k \in keys \ frags : d.list[i] = c.tree[k]
        BY <1>4, <1>7, <3>2
      <4>2. c.tree[k].packets \cap c.uncounted = {}
        BY <1>9, <4>1 DEF Apart
      <4>3. \A l \in frags : c.tree[k].packets \cap c.tree[l].packets = {}
        BY <1>9, <4>1 DEF Apart
      <4> QED
        BY <1>2, <4>1, <4>2, <4>3 DEF PacketsAt
    <3> QED
      BY <3>1, <3>2
  <2> QED
    BY <2>1, <2>2, <2>3, <2>4, <2>5 DEF Apart
<1>10. ToSet(r) = {c.tree[k] : k \in keys \ frags}
  <2>1. ASSUME NEW k \in keys \ frags PROVE c.tree[k] \in ToSet(r)
    <3>1. PICK i \in DOMAIN flows : flows[i] = k
      BY <1>2 DEF ToSet
    <3> QED
      BY <1>4, <1>5, <3>1 DEF ToSet
  <2> QED
    BY <1>4, <1>5, <2>1 DEF ToSet
<1>11. PacketsOf(d.list) = PacketsOf(c.list) \cup PacketsAt(c.tree, keys \ frags)
  BY <1>6, <1>10 DEF PacketsOf, PacketsAt
<1>12. PacketsAt(c.tree, DOMAIN c.tree)
         = PacketsAt(d.tree, DOMAIN d.tree) \cup PacketsAt(c.tree, keys \ frags) \cup PacketsAt(c.tree, frags)
  <2>1. PacketsAt(d.tree, DOMAIN d.tree) = PacketsAt(c.tree, DOMAIN c.tree \ keys)
    BY <1>8 DEF PacketsAt
  <2>2. \A A, B : PacketsAt(c.tree, A \cup B) = PacketsAt(c.tree, A) \cup PacketsAt(c.tree, B)
    BY DEF PacketsAt
  <2> DEFINE D == DOMAIN c.tree \ keys
             E == keys \ frags
  <2>3. DOMAIN c.tree = (D \cup E) \cup frags
    OBVIOUS
  <2> HIDE DEF D, E
  <2>4. PacketsAt(c.tree, DOMAIN c.tree) = PacketsAt(c.tree, D \cup E) \cup PacketsAt(c.tree, frags)
    BY <2>2, <2>3, Zenon
  <2>5. PacketsAt(c.tree, D \cup E) = PacketsAt(c.tree, D) \cup PacketsAt(c.tree, E)
    BY <2>2, Zenon
  <2> QED
    BY <2>1, <2>4, <2>5, Zenon DEF D, E
<1>13. InCache(d) = InCache(c)
  BY <1>2, <1>11, <1>12 DEF InCache
<1> QED
  BY <1>9, <1>13

LEMMA RemovedFacts ==
  ASSUME NEW c, CacheOK(c), NEW keys \in SUBSET DOMAIN c.tree
  PROVE  Sifted(c, Removed(c, keys))
BY RemovedTypes, RemovedPackets DEF Sifted

LEMMA SetCacheFacts ==
  ASSUME NEW c, CacheOK(c), SetCache(c)
  PROVE  Cache' = c
BY DEF SetCache, Cache, CacheOK, IsCache

(* CacheCheck and the end of ProcessPacket take nothing but expired nodes  *)
(* out of the tree.                                                        *)
LEMMA ExpireFacts ==
  ASSUME NEW c, CacheOK(c), NEW when
  PROVE  Sifted(c, Expire_FlowTree(c, when)) /\ CacheOK(Expire_FlowTree(c, when))
<1>1. PICK keys \in SUBSET DOMAIN c.tree : Expire_FlowTree(c, when) = Removed(c, keys)
  BY DEF Expire_FlowTree
<1> QED
  BY <1>1, RemovedFacts DEF Sifted

LEMMA CheckFacts ==
  ASSUME NEW c, CacheOK(c), NEW when, CacheCheck(c, when)
  PROVE  Sifted(c, Cache')
<1>1. CASE SetCache(c)
  BY <1>1, SetCacheFacts, SiftedItself
<1>2. CASE SetCache(Expire_FlowTree(c, when))
  BY <1>2, SetCacheFacts, ExpireFacts
<1> QED
  BY <1>1, <1>2 DEF CacheCheck

LEMMA CachedFacts ==
  ASSUME NEW c, CacheOK(c), Cached(c)
  PROVE  Sifted(c, Cache')
<1>1. CASE SetCache(c)
  BY <1>1, SetCacheFacts, SiftedItself
<1>2. CASE CacheCheck(c, now)
  BY <1>2, CheckFacts
<1> QED
  BY <1>1, <1>2 DEF Cached

(* d is c with the packets P in the node of key k, which gets the value v. *)
Inserts(c, k, P, v, d) ==
    /\ CacheOK(c) /\ Apart(c) /\ k \in TreeKeys
    /\ P \subseteq Nat /\ P \cap InCache(c) = {}
    /\ v \in Nodes /\ v.type \in {"flow", "frag"}
    /\ v.packets = (IF k \in DOMAIN c.tree THEN c.tree[k].packets ELSE {}) \cup P
    /\ IsCache(d) /\ d.tree = Put(c.tree, k, v) /\ d.list = c.list
    /\ d.allocated \in Int /\ d.uncounted = c.uncounted

LEMMA InsertFacts ==
  ASSUME NEW c, NEW k, NEW P, NEW v, NEW d, Inserts(c, k, P, v, d)
  PROVE  /\ CacheOK(d) /\ Apart(d) /\ InCache(d) = InCache(c) \cup P
         /\ Cardinality(DOMAIN d.tree) = Cardinality(DOMAIN c.tree) + (IF k \in DOMAIN c.tree THEN 0 ELSE 1)
<1>0. /\ CacheOK(c) /\ Apart(c) /\ k \in TreeKeys
      /\ P \subseteq Nat /\ P \cap InCache(c) = {}
      /\ v \in Nodes /\ v.type \in {"flow", "frag"}
      /\ v.packets = (IF k \in DOMAIN c.tree THEN c.tree[k].packets ELSE {}) \cup P
      /\ IsCache(d) /\ d.tree = Put(c.tree, k, v) /\ d.list = c.list
      /\ d.allocated \in Int /\ d.uncounted = c.uncounted
  BY DEF Inserts
<1>1. d.tree = Put(c.tree, k, v) /\ d.list = c.list /\ d.uncounted = c.uncounted
  BY <1>0
<1>2. /\ DOMAIN d.tree = DOMAIN c.tree \cup {k} /\ d.tree = [x \in DOMAIN d.tree |-> d.tree[x]]
      /\ d.tree[k] = v /\ \A x \in DOMAIN c.tree : x # k => d.tree[x] = c.tree[x]
  BY <1>1 DEF Put
<1>3. IsFiniteSet(DOMAIN c.tree) /\ DOMAIN c.tree \subseteq TreeKeys /\ \A x \in DOMAIN c.tree : c.tree[x] \in Nodes /\ c.tree[x].type \in {"flow", "frag"}
  BY <1>0 DEF CacheOK, TreeOK
<1>4. /\ IsFiniteSet(DOMAIN d.tree)
      /\ Cardinality(DOMAIN d.tree) = Cardinality(DOMAIN c.tree) + (IF k \in DOMAIN c.tree THEN 0 ELSE 1)
  <2>1. Cardinality(DOMAIN c.tree) \in Nat
    BY <1>3, FS_CardinalityType
  <2>2. /\ IsFiniteSet(DOMAIN c.tree \cup {k})
        /\ Cardinality(DOMAIN c.tree \cup {k})
             = IF k \in DOMAIN c.tree THEN Cardinality(DOMAIN c.tree) ELSE Cardinality(DOMAIN c.tree) + 1
    BY <1>3, FS_AddElement
  <2> QED
    BY <1>2, <2>1, <2>2
<1>5. CacheOK(d)
  <2>1. TreeOK(d.tree)
    BY <1>0, <1>2, <1>3, <1>4 DEF TreeOK
  <2> QED
    BY <1>0, <1>1, <2>1 DEF CacheOK
<1>6. \A x \in DOMAIN c.tree : c.tree[x].packets \cap P = {}
  BY <1>0 DEF InCache, PacketsAt
<1>7. \A i \in DOMAIN c.list : c.list[i].packets \cap P = {}
  <2>1. ASSUME NEW i \in DOMAIN c.list PROVE c.list[i].packets \subseteq PacketsOf(c.list)
    BY DEF PacketsOf, ToSet
  <2> QED
    BY <1>0, <2>1 DEF InCache
<1>8. Apart(d)
  <2>1. ASSUME NEW x \in DOMAIN d.tree, NEW y \in DOMAIN d.tree, x # y
        PROVE  d.tree[x].packets \cap d.tree[y].packets = {}
    <3>1. CASE x # k /\ y # k
      BY <1>0, <1>2, <2>1, <3>1 DEF Apart
    <3>2. CASE x = k
      <4>1. y \in DOMAIN c.tree /\ d.tree[y] = c.tree[y]
        BY <1>2, <2>1, <3>2
      <4> QED
        BY <1>0, <1>2, <1>6, <2>1, <3>2, <4>1 DEF Apart
    <3>3. CASE y = k
      <4>1. x \in DOMAIN c.tree /\ d.tree[x] = c.tree[x]
        BY <1>2, <2>1, <3>3
      <4> QED
        BY <1>0, <1>2, <1>6, <2>1, <3>3, <4>1 DEF Apart
    <3> QED
      BY <3>1, <3>2, <3>3
  <2>2. ASSUME NEW x \in DOMAIN d.tree, NEW i \in DOMAIN d.list
        PROVE  d.tree[x].packets \cap d.list[i].packets = {}
    <3>1. CASE x # k
      BY <1>0, <1>1, <1>2, <3>1 DEF Apart
    <3>2. CASE x = k
      BY <1>0, <1>1, <1>2, <1>7, <3>2 DEF Apart
    <3> QED
      BY <3>1, <3>2
  <2>3. ASSUME NEW x \in DOMAIN d.tree PROVE d.tree[x].packets \cap d.uncounted = {}
    <3>1. CASE x # k
      BY <1>0, <1>1, <1>2, <3>1 DEF Apart
    <3>2. CASE x = k
      BY <1>0, <1>1, <1>2, <3>2 DEF Apart, InCache
    <3> QED
      BY <3>1, <3>2
  <2> QED
    BY <1>0, <1>1, <2>1, <2>2, <2>3 DEF Apart
<1>9. PacketsAt(d.tree, DOMAIN d.tree) = PacketsAt(c.tree, DOMAIN c.tree) \cup P
  <2>1. ASSUME NEW n, n \in PacketsAt(d.tree, DOMAIN d.tree)
        PROVE  n \in PacketsAt(c.tree, DOMAIN c.tree) \cup P
    <3>1. PICK x \in DOMAIN d.tree : n \in d.tree[x].packets
      BY <2>1 DEF PacketsAt
    <3>2. CASE x = k
      BY <1>0, <1>2, <3>1, <3>2 DEF PacketsAt
    <3>3. CASE x # k
      BY <1>2, <3>1, <3>3 DEF PacketsAt
    <3> QED
      BY <3>2, <3>3
  <2>2. ASSUME NEW x \in DOMAIN c.tree, NEW n \in c.tree[x].packets
        PROVE  n \in d.tree[x].packets /\ x \in DOMAIN d.tree
    BY <1>0, <1>2
  <2>3. P \subseteq d.tree[k].packets /\ k \in DOMAIN d.tree
    BY <1>0, <1>2
  <2>4. PacketsAt(c.tree, DOMAIN c.tree) \subseteq PacketsAt(d.tree, DOMAIN d.tree)
    BY <2>2 DEF PacketsAt
  <2>5. P \subseteq PacketsAt(d.tree, DOMAIN d.tree)
    BY <2>3 DEF PacketsAt
  <2> QED
    BY <2>1, <2>4, <2>5
<1>10. InCache(d) = InCache(c) \cup P
  BY <1>1, <1>9 DEF InCache
<1> QED
  BY <1>4, <1>5, <1>8, <1>10

(* d is the cache with one more packet and that many nodes more in use.    *)
Takes(d, n, nodes) ==
    /\ CacheOK(d) /\ Apart(d)
    /\ InCache(d) = InCache(Cache) \cup {n}
    /\ d.allocated - Cardinality(DOMAIN d.tree) - Len(d.list)
         = Allocated - Cardinality(DOMAIN FlowTree) - Len(NodeList) + nodes
    /\ d.allocated <= MaxNodes
    /\ Extends(NodeList, d.list)

LEMMA TakesSifted ==
  ASSUME NEW c, NEW d, NEW n, NEW nodes \in Int, NodeList \in Seq(Nodes), Takes(c, n, nodes), Sifted(c, d)
  PROVE  Takes(d, n, nodes)
<1>1. c.allocated \in Int /\ d.allocated \in Int /\ MaxNodes \in Int
  BY CaptureAssumption DEF Takes, Sifted, CacheOK
<1>2. Extends(NodeList, d.list)
  BY ExtendsFurther DEF Takes, Sifted
<1>3. d.allocated <= MaxNodes
  BY <1>1 DEF Takes, Sifted
<1> QED
  BY <1>2, <1>3 DEF Takes, Sifted

(* What is known when a packet is processed                                *)
LEMMA AtProcess ==
  ASSUME Inductive, packet = "process"
  PROVE  /\ CacheOK(Cache) /\ Apart(Cache)
         /\ Number \in Nat /\ current.kind \in Kinds /\ current.key \in Keys /\ now \in Nat
         /\ Number \notin InCache(Cache)
         /\ FlowKey(current.key) \in TreeKeys /\ FragKey(current.key) \in TreeKeys
         /\ NodeList \in Seq(Nodes) /\ Allocated \in Int /\ Allocated <= MaxNodes
         /\ Cardinality(DOMAIN FlowTree) \in Nat /\ Len(NodeList) \in Nat
<1>1. current \in Packets
  BY DEF Inductive, Threads
<1>2. Number \in Nat /\ current.kind \in Kinds /\ current.key \in Keys
  BY <1>1 DEF Packets, Number
<1>3. CacheOK(Cache) /\ Apart(Cache) /\ Allocated <= MaxNodes /\ now \in Nat
  BY DEF Inductive, Storage, Counted, Threads
<1>4. Waiting
  BY DEF Inductive, Threads, Waiting
<1>5. NodeList \in Seq(Nodes) /\ Allocated \in Int /\ IsFiniteSet(DOMAIN FlowTree)
  BY <1>3 DEF CacheOK, Cache, TreeOK
<1>6. Cardinality(DOMAIN FlowTree) \in Nat /\ Len(NodeList) \in Nat
  BY <1>5, FS_CardinalityType
<1>7. Number \notin InCache(Cache)
  BY <1>4 DEF Inductive, Counted
<1> QED
  BY <1>2, <1>3, <1>5, <1>6, <1>7 DEF TreeKeys

(* The packet at hand joins the node of key k, which gets the value v.     *)
LEMMA InsertTakes ==
  ASSUME Inductive, packet = "process", NEW k \in TreeKeys,
         NEW v \in Nodes, v.type \in {"flow", "frag"},
         v.packets = (IF k \in DOMAIN FlowTree THEN FlowTree[k].packets ELSE {}) \cup {Number},
         NEW outer \in Nat, NEW c, IsCache(c),
         c.tree = Put(FlowTree, k, v), c.list = NodeList, c.uncounted = uncounted,
         c.allocated = Allocated + (IF k \in DOMAIN FlowTree THEN 0 ELSE 1) + outer,
         c.allocated <= MaxNodes
  PROVE  Takes(c, Number, outer) /\ k \in DOMAIN c.tree
<1> DEFINE P == {Number}
<1>1. /\ CacheOK(Cache) /\ Apart(Cache) /\ Number \in Nat /\ Number \notin InCache(Cache)
      /\ NodeList \in Seq(Nodes) /\ Allocated \in Int
      /\ Cardinality(DOMAIN FlowTree) \in Nat /\ Len(NodeList) \in Nat
  BY AtProcess
<1>2. /\ Cache.tree = FlowTree /\ Cache.list = NodeList /\ Cache.allocated = Allocated /\ Cache.uncounted = uncounted
  BY DEF Cache
<1>3. Inserts(Cache, k, P, v, c)
  BY <1>1, <1>2 DEF Inserts
<1> HIDE DEF P
<1>5. /\ CacheOK(c) /\ Apart(c) /\ InCache(c) = InCache(Cache) \cup P
      /\ Cardinality(DOMAIN c.tree) = Cardinality(DOMAIN Cache.tree) + (IF k \in DOMAIN Cache.tree THEN 0 ELSE 1)
  BY <1>3, InsertFacts
<1>6. Extends(NodeList, c.list)
  BY <1>1, ExtendsItself
<1>7. c.allocated - Cardinality(DOMAIN c.tree) - Len(c.list)
         = Allocated - Cardinality(DOMAIN FlowTree) - Len(NodeList) + outer
  BY <1>1, <1>2, <1>5
<1>8. k \in DOMAIN c.tree
  BY DEF Put
<1> QED
  BY <1>5, <1>6, <1>7, <1>8 DEF Takes, P

(* Each kind of packet is taken into the cache once.                       *)
LEMMA FlowPacketTakes ==
  ASSUME Inductive, packet = "process", FlowPacket
  PROVE  Takes(Cache', Number, leaked' - leaked)
<1> DEFINE k == FlowKey(current.key)
           v == IF k \in DOMAIN FlowTree
                  THEN [FlowTree[k] EXCEPT !.packets = @ \cup {Number}, !.t_last = now]
                  ELSE Flow("flow", {Number}, now, now)
           c == [Cache EXCEPT !.tree = Insert(FlowTree, k, {Number}, now, now),
                              !.allocated = @ + Kept(Known(k))]
<1>1. /\ FreeNodes(1) /\ Cached(IF current.kind = "fin" THEN Removed(c, {k}) ELSE c) /\ leaked' = leaked
  BY DEF FlowPacket
<1>2. /\ CacheOK(Cache) /\ Number \in Nat /\ now \in Nat
      /\ k \in TreeKeys /\ NodeList \in Seq(Nodes) /\ Allocated \in Int /\ Allocated + 1 <= MaxNodes
      /\ MaxNodes \in Nat /\ leaked \in Nat
  BY <1>1, AtProcess, CaptureAssumption DEF FreeNodes, Inductive, Storage
<1>3. /\ IsCache(c)
      /\ c.tree = Put(FlowTree, k, v) /\ c.list = NodeList /\ c.uncounted = uncounted
      /\ c.allocated = Allocated + (IF k \in DOMAIN FlowTree THEN 0 ELSE 1)
  <2> HIDE DEF v, k
  <2>1. v = IF k \in DOMAIN FlowTree
              THEN [FlowTree[k] EXCEPT !.packets = @ \cup {Number}, !.t_last = now]
              ELSE Flow("flow", {Number}, now, now)
    BY DEF v
  <2>2. Insert(FlowTree, k, {Number}, now, now) = Put(FlowTree, k, v)
    BY <2>1, Zenon DEF Insert
  <2>3. c = [Cache EXCEPT !.tree = Put(FlowTree, k, v),
                          !.allocated = @ + (IF k \in DOMAIN FlowTree THEN 0 ELSE 1)]
    BY <2>2, Zenon DEF Kept, Known
  <2> HIDE DEF c
  <2> QED
    BY <2>3 DEF Cache, IsCache
<1>4. /\ v \in Nodes /\ v.type \in {"flow", "frag"}
      /\ v.packets = (IF k \in DOMAIN FlowTree THEN FlowTree[k].packets ELSE {}) \cup {Number}
  <2> HIDE DEF k, c
  <2>1. k \in DOMAIN FlowTree => FlowTree[k] \in Nodes /\ FlowTree[k].type \in {"flow", "frag"}
    BY <1>2 DEF CacheOK, TreeOK, Cache
  <2> QED
    BY <1>2, <2>1 DEF Nodes, Flow
<1> HIDE DEF c, v, k
<1>5. Takes(c, Number, 0) /\ k \in DOMAIN c.tree
  <2>1. /\ c.allocated = Allocated + (IF k \in DOMAIN FlowTree THEN 0 ELSE 1) + 0
        /\ c.allocated <= MaxNodes
    BY <1>2, <1>3
  <2> QED
    BY <1>2, <1>3, <1>4, <2>1, InsertTakes
<1>6. CacheOK(c) /\ Sifted(c, Removed(c, {k})) /\ CacheOK(Removed(c, {k}))
  BY <1>5, RemovedFacts DEF Sifted, Takes
<1>7. Sifted(c, Cache')
  <2>1. CASE Cached(c)
    BY <1>6, <2>1, CachedFacts
  <2>2. CASE Cached(Removed(c, {k}))
    BY <1>6, <2>2, CachedFacts, SiftedFurther
  <2> QED
    BY <1>1, <2>1, <2>2
<1> QED
  BY <1>1, <1>2, <1>5, <1>7, TakesSifted

LEMMA SinglePacketTakes ==
  ASSUME Inductive, packet = "process", SinglePacket
  PROVE  Takes(Cache', Number, leaked' - leaked)
<1> DEFINE n == Flow("flow", {Number}, now, now)
           c == [Cache EXCEPT !.list = Append(@, n), !.allocated = @ + 1]
<1>1. FreeNodes(1) /\ Cached(c) /\ leaked' = leaked
  BY DEF SinglePacket
<1>2. /\ CacheOK(Cache) /\ Apart(Cache) /\ Number \in Nat /\ now \in Nat /\ Number \notin InCache(Cache)
      /\ NodeList \in Seq(Nodes) /\ Allocated \in Int /\ Allocated + 1 <= MaxNodes
      /\ Cardinality(DOMAIN FlowTree) \in Nat /\ Len(NodeList) \in Nat /\ MaxNodes \in Nat
      /\ leaked \in Nat
  BY <1>1, AtProcess, CaptureAssumption DEF FreeNodes, Inductive, Storage
<1>3. /\ IsCache(c)
      /\ c.tree = FlowTree /\ c.list = Append(NodeList, n) /\ c.uncounted = uncounted
      /\ c.allocated = Allocated + 1
  <2> HIDE DEF n
  <2>1. c = [Cache EXCEPT !.list = Append(@, n), !.allocated = @ + 1]
    OBVIOUS
  <2> HIDE DEF c
  <2> QED
    BY <2>1 DEF Cache, IsCache
<1>4. n \in Nodes /\ n.type = "flow" /\ n.packets = {Number}
  BY <1>2 DEF Nodes, Flow
<1> HIDE DEF c, n
<1>5. /\ c.list \in Seq(Nodes) /\ DOMAIN c.list = 1 .. Len(NodeList) + 1 /\ Len(c.list) = Len(NodeList) + 1
      /\ \A i \in 1 .. Len(NodeList) : c.list[i] = NodeList[i]
      /\ c.list[Len(NodeList) + 1] = n /\ ToSet(c.list) = ToSet(NodeList) \cup {n}
      /\ DOMAIN NodeList = 1 .. Len(NodeList)
  BY <1>2, <1>3, <1>4, SeqAppend
<1>6. CacheOK(c)
  <2>1. ASSUME NEW i \in DOMAIN c.list PROVE Listed(c.list[i])
    <3>1. CASE i \in DOMAIN NodeList
      BY <1>2, <1>5, <3>1 DEF CacheOK, Cache
    <3>2. CASE i = Len(NodeList) + 1
      BY <1>4, <1>5, <3>2 DEF Listed
    <3> QED
      BY <1>2, <1>5, <3>1, <3>2
  <2> QED
    BY <1>2, <1>3, <1>5, <2>1 DEF CacheOK, Cache
<1>7. InCache(c) = InCache(Cache) \cup {Number}
  BY <1>3, <1>4, <1>5 DEF InCache, PacketsOf, Cache
<1>8. Apart(c)
  <2>1. ASSUME NEW i \in DOMAIN NodeList PROVE NodeList[i].packets \cap {Number} = {}
    <3>1. NodeList[i].packets \subseteq PacketsOf(NodeList)
      BY DEF PacketsOf, ToSet
    <3> QED
      BY <1>2, <3>1 DEF InCache, Cache
  <2>2. \A k \in DOMAIN FlowTree : FlowTree[k].packets \cap {Number} = {}
    BY <1>2 DEF InCache, PacketsAt, Cache
  <2>3. {Number} \cap uncounted = {}
    BY <1>2 DEF InCache, Cache
  <2>4. ASSUME NEW i \in DOMAIN c.list, NEW j \in DOMAIN c.list, i # j
        PROVE  c.list[i].packets \cap c.list[j].packets = {}
    <3>1. CASE i \in DOMAIN NodeList /\ j \in DOMAIN NodeList
      BY <1>2, <1>5, <2>4, <3>1 DEF Apart, Cache
    <3>2. CASE i = Len(NodeList) + 1
      <4>1. j \in DOMAIN NodeList
        BY <1>2, <1>5, <2>4, <3>2
      <4> QED
        BY <1>4, <1>5, <2>1, <3>2, <4>1
    <3>3. CASE j = Len(NodeList) + 1
      <4>1. i \in DOMAIN NodeList
        BY <1>2, <1>5, <2>4, <3>3
      <4> QED
        BY <1>4, <1>5, <2>1, <3>3, <4>1
    <3>4. /\ i \in DOMAIN NodeList \/ i = Len(NodeList) + 1
          /\ j \in DOMAIN NodeList \/ j = Len(NodeList) + 1
      BY <1>2, <1>5
    <3> QED
      BY <3>1, <3>2, <3>3, <3>4
  <2>5. ASSUME NEW i \in DOMAIN c.list
        PROVE  /\ \A k \in DOMAIN c.tree : c.tree[k].packets \cap c.list[i].packets = {}
               /\ c.list[i].packets \cap c.uncounted = {}
    <3>1. CASE i \in DOMAIN NodeList
      BY <1>2, <1>3, <1>5, <3>1 DEF Apart, Cache
    <3>2. CASE i = Len(NodeList) + 1
      BY <1>3, <1>4, <1>5, <2>2, <2>3, <3>2
    <3> QED
      BY <1>2, <1>5, <3>1, <3>2
  <2> QED
    BY <1>2, <1>3, <2>4, <2>5 DEF Apart, Cache
<1>9. Takes(c, Number, 0)
  <2>1. Extends(NodeList, c.list)
    <3>1. c.list = NodeList \o <<n>> /\ <<n>> \in Seq(Nodes) /\ DOMAIN <<n>> = {1} /\ <<n>>[1].type = "flow"
      BY <1>2, <1>3, <1>4
    <3> QED
      BY <3>1 DEF Extends
  <2>2. c.allocated - Cardinality(DOMAIN c.tree) - Len(c.list)
         = Allocated - Cardinality(DOMAIN FlowTree) - Len(NodeList) + 0
    BY <1>2, <1>3, <1>5
  <2>3. c.allocated <= MaxNodes
    BY <1>2, <1>3
  <2> QED
    BY <1>6, <1>7, <1>8, <2>1, <2>2, <2>3 DEF Takes
<1> QED
  BY <1>1, <1>2, <1>6, <1>9, CachedFacts, TakesSifted

(* A packet without a flow, and one whose fragments are not known, count   *)
(* for nothing.                                                            *)
LEMMA UncountedTakes ==
  ASSUME Inductive, packet = "process", NEW outer \in Nat, Allocated + outer <= MaxNodes,
         NEW c, IsCache(c),
         c.tree = FlowTree, c.list = NodeList, c.uncounted = uncounted \cup {Number},
         c.allocated = Allocated + outer
  PROVE  Takes(c, Number, outer)
<1>2. /\ CacheOK(Cache) /\ Apart(Cache) /\ Number \in Nat /\ Number \notin InCache(Cache)
      /\ NodeList \in Seq(Nodes) /\ Allocated \in Int
      /\ Cardinality(DOMAIN FlowTree) \in Nat /\ Len(NodeList) \in Nat
  BY AtProcess
<1>3. /\ IsCache(c)
      /\ c.tree = FlowTree /\ c.list = NodeList /\ c.uncounted = uncounted \cup {Number}
      /\ c.allocated = Allocated + outer
  OBVIOUS
<1>4. CacheOK(c)
  BY <1>2, <1>3 DEF CacheOK, Cache
<1>5. InCache(c) = InCache(Cache) \cup {Number}
  BY <1>3 DEF InCache, Cache
<1>6. Apart(c)
  <2>1. ASSUME NEW i \in DOMAIN NodeList PROVE NodeList[i].packets \cap {Number} = {}
    <3>1. NodeList[i].packets \subseteq PacketsOf(NodeList)
      BY DEF PacketsOf, ToSet
    <3> QED
      BY <1>2, <3>1 DEF InCache, Cache
  <2>2. \A k \in DOMAIN FlowTree : FlowTree[k].packets \cap {Number} = {}
    BY <1>2 DEF InCache, PacketsAt, Cache
  <2> QED
    BY <1>2, <1>3, <2>1, <2>2 DEF Apart, Cache
<1>7. Extends(NodeList, c.list)
  BY <1>2, <1>3, ExtendsItself
<1>8. c.allocated - Cardinality(DOMAIN c.tree) - Len(c.list)
         = Allocated - Cardinality(DOMAIN FlowTree) - Len(NodeList) + outer
  BY <1>2, <1>3
<1> QED
  BY <1>3, <1>4, <1>5, <1>6, <1>7, <1>8 DEF Takes

LEMMA NoFlowTakes ==
  ASSUME Inductive, packet = "process", NoFlow
  PROVE  Takes(Cache', Number, leaked' - leaked)
<1> DEFINE c == [Cache EXCEPT !.uncounted = @ \cup {Number}]
<1>1. (Cached(c) \/ SetCache(c)) /\ leaked' = leaked
  BY DEF NoFlow
<1>2. Allocated \in Int /\ Allocated <= MaxNodes /\ NodeList \in Seq(Nodes) /\ leaked \in Nat
  BY AtProcess DEF Inductive, Storage
<1>3. /\ IsCache(c)
      /\ c.tree = FlowTree /\ c.list = NodeList /\ c.uncounted = uncounted \cup {Number}
      /\ c.allocated = Allocated + 0 /\ Allocated + 0 <= MaxNodes
  <2>1. c.allocated = Allocated
    BY DEF Cache
  <2>2. Allocated = Allocated + 0
    BY <1>2
  <2>3. IsCache(c) /\ c.tree = FlowTree /\ c.list = NodeList /\ c.uncounted = uncounted \cup {Number}
    BY DEF Cache, IsCache
  <2> HIDE DEF c
  <2> QED
    BY <1>2, <2>1, <2>2, <2>3
<1> HIDE DEF c
<1>4. Takes(c, Number, 0)
  BY <1>2, <1>3, UncountedTakes
<1>5. CacheOK(c)
  BY <1>4 DEF Takes
<1>6. Sifted(c, Cache')
  BY <1>1, <1>5, CachedFacts, SetCacheFacts, SiftedItself
<1> QED
  BY <1>1, <1>2, <1>4, <1>6, TakesSifted

LEMMA FirstFragmentTakes ==
  ASSUME Inductive, packet = "process", FirstFragment
  PROVE  Takes(Cache', Number, leaked' - leaked)
<1> DEFINE k == FragKey(current.key)
           outer == IF current.kind = "tunnel" THEN 1 ELSE 0
           v == Flow("frag", {Number}, now, now)
           a == [Cache EXCEPT !.uncounted = @ \cup {Number}, !.allocated = @ + outer]
           c == [Cache EXCEPT !.tree = Put(@, k, v), !.allocated = @ + 1 + outer]
<1>1. /\ FreeNodes(1 + outer) /\ leaked' = leaked + outer
      /\ Cached(IF Known(k) THEN a ELSE c)
  BY DEF FirstFragment
<1>2. /\ CacheOK(Cache) /\ Number \in Nat /\ now \in Nat
      /\ k \in TreeKeys /\ NodeList \in Seq(Nodes) /\ Allocated \in Int
      /\ leaked \in Nat /\ outer \in Nat /\ MaxNodes \in Nat
  BY AtProcess, CaptureAssumption DEF Inductive, Storage
<1>3. IsCache(a) /\ a.tree = FlowTree /\ a.list = NodeList /\ a.uncounted = uncounted \cup {Number}
      /\ a.allocated = Allocated + outer
  <2> HIDE DEF outer
  <2>1. a = [Cache EXCEPT !.uncounted = @ \cup {Number}, !.allocated = @ + outer]
    OBVIOUS
  <2> HIDE DEF a
  <2> QED
    BY <2>1 DEF Cache, IsCache
<1>4. IsCache(c) /\ c.tree = Put(FlowTree, k, v) /\ c.list = NodeList /\ c.uncounted = uncounted
      /\ c.allocated = Allocated + 1 + outer
  <2> HIDE DEF k, v, outer
  <2>1. c = [Cache EXCEPT !.tree = Put(@, k, v), !.allocated = @ + 1 + outer]
    OBVIOUS
  <2> HIDE DEF c
  <2> QED
    BY <2>1 DEF Cache, IsCache
<1>5. v \in Nodes /\ v.type = "frag" /\ v.packets = {Number}
  BY <1>2 DEF Nodes, Flow
<1> HIDE DEF a, c, v, k, outer
<1>6. Allocated + 1 + outer <= MaxNodes
  BY <1>1, <1>2 DEF FreeNodes
<1>7. CASE Known(k)
  <2>1. Allocated + outer <= MaxNodes
    BY <1>2, <1>6
  <2>2. Takes(a, Number, outer)
    BY <1>2, <1>3, <2>1, UncountedTakes
  <2>3. Sifted(a, Cache')
    BY <1>1, <1>7, <2>2, CachedFacts DEF Takes
  <2> QED
    BY <1>1, <1>2, <2>2, <2>3, TakesSifted
<1>8. CASE ~Known(k)
  <2>1. /\ c.allocated = Allocated + (IF k \in DOMAIN FlowTree THEN 0 ELSE 1) + outer
        /\ v.packets = (IF k \in DOMAIN FlowTree THEN FlowTree[k].packets ELSE {}) \cup {Number}
        /\ c.allocated <= MaxNodes /\ v.type \in {"flow", "frag"}
    BY <1>2, <1>4, <1>5, <1>6, <1>8 DEF Known
  <2>2. Takes(c, Number, outer)
    BY <1>2, <1>4, <1>5, <2>1, InsertTakes
  <2>3. Sifted(c, Cache')
    BY <1>1, <1>8, <2>2, CachedFacts DEF Takes
  <2> QED
    BY <1>1, <1>2, <2>2, <2>3, TakesSifted
<1> QED
  BY <1>7, <1>8

LEMMA NextFragmentTakes ==
  ASSUME Inductive, packet = "process", NextFragment
  PROVE  Takes(Cache', Number, leaked' - leaked)
<1> DEFINE k == FragKey(current.key)
           v == [FlowTree[k] EXCEPT !.packets = @ \cup {Number}]
           a == [Cache EXCEPT !.uncounted = @ \cup {Number}]
           c == [Cache EXCEPT !.tree[k].packets = @ \cup {Number}]
<1>1. leaked' = leaked /\ Cached(IF Known(k) THEN c ELSE a)
  BY DEF NextFragment
<1>2. /\ CacheOK(Cache) /\ Number \in Nat /\ now \in Nat
      /\ k \in TreeKeys /\ NodeList \in Seq(Nodes) /\ Allocated \in Int /\ Allocated <= MaxNodes
      /\ leaked \in Nat /\ MaxNodes \in Nat
  BY AtProcess, CaptureAssumption DEF Inductive, Storage
<1>3. IsCache(a) /\ a.tree = FlowTree /\ a.list = NodeList /\ a.uncounted = uncounted \cup {Number}
      /\ a.allocated = Allocated
  BY DEF Cache, IsCache
<1>4. IsCache(c) /\ c.tree = [FlowTree EXCEPT ![k].packets = @ \cup {Number}] /\ c.list = NodeList
      /\ c.uncounted = uncounted /\ c.allocated = Allocated
  <2> HIDE DEF k
  <2> QED
    BY DEF Cache, IsCache
<1>5. CASE ~Known(k)
  <2> HIDE DEF a, c, v, k
  <2>1. a.allocated = Allocated + 0 /\ Allocated + 0 <= MaxNodes
    BY <1>2, <1>3
  <2>2. Takes(a, Number, 0)
    BY <1>2, <1>3, <2>1, UncountedTakes
  <2>3. Sifted(a, Cache')
    BY <1>1, <1>5, <2>2, CachedFacts DEF Takes
  <2> QED
    BY <1>1, <1>2, <2>2, <2>3, TakesSifted
<1>6. CASE Known(k)
  <2>1. k \in DOMAIN FlowTree /\ FlowTree[k] \in Nodes /\ FlowTree[k].type \in {"flow", "frag"}
        /\ FlowTree = [x \in DOMAIN FlowTree |-> FlowTree[x]]
    <3> HIDE DEF k, a, c, v
    <3> QED
      BY <1>2, <1>6 DEF CacheOK, TreeOK, Cache, Known
  <2>2. v \in Nodes /\ v.type \in {"flow", "frag"} /\ v.packets = FlowTree[k].packets \cup {Number}
    <3> HIDE DEF k, a, c
    <3> QED
      BY <1>2, <2>1 DEF Nodes
  <2>3. c.tree = Put(FlowTree, k, v)
    <3>1. v = [FlowTree[k] EXCEPT !.packets = @ \cup {Number}]
      OBVIOUS
    <3> HIDE DEF k, a, c, v
    <3>2. c.tree = [x \in DOMAIN FlowTree |-> IF x = k THEN v ELSE FlowTree[x]]
      BY <1>4, <2>1, <3>1
    <3>3. DOMAIN FlowTree \cup {k} = DOMAIN FlowTree
      BY <2>1
    <3> QED
      BY <3>2, <3>3, Zenon DEF Put
  <2> HIDE DEF a, c, v, k
  <2>4. /\ c.allocated = Allocated + (IF k \in DOMAIN FlowTree THEN 0 ELSE 1) + 0
        /\ v.packets = (IF k \in DOMAIN FlowTree THEN FlowTree[k].packets ELSE {}) \cup {Number}
        /\ c.allocated <= MaxNodes
    BY <1>2, <1>4, <2>1, <2>2
  <2>5. Takes(c, Number, 0)
    BY <1>2, <1>4, <2>2, <2>3, <2>4, InsertTakes
  <2>6. Sifted(c, Cache')
    BY <1>1, <1>6, <2>5, CachedFacts DEF Takes
  <2> QED
    BY <1>1, <1>2, <2>5, <2>6, TakesSifted
<1> QED
  BY <1>5, <1>6

(* The cache without the node of one key                                   *)
Without(c, k, d) ==
    /\ CacheOK(c) /\ Apart(c) /\ k \in DOMAIN c.tree
    /\ IsCache(d) /\ d.tree = Restrict(c.tree, DOMAIN c.tree \ {k}) /\ d.list = c.list
    /\ d.allocated = c.allocated - 1 /\ d.uncounted = c.uncounted

LEMMA WithoutNode ==
  ASSUME NEW c, NEW k, NEW d, Without(c, k, d)
  PROVE  /\ CacheOK(d) /\ Apart(d)
         /\ InCache(c) = InCache(d) \cup c.tree[k].packets
         /\ InCache(d) \cap c.tree[k].packets = {}
         /\ Cardinality(DOMAIN d.tree) = Cardinality(DOMAIN c.tree) - 1
<1>0. /\ CacheOK(c) /\ Apart(c) /\ k \in DOMAIN c.tree
      /\ IsCache(d) /\ d.tree = Restrict(c.tree, DOMAIN c.tree \ {k}) /\ d.list = c.list
      /\ d.allocated = c.allocated - 1 /\ d.uncounted = c.uncounted
  BY DEF Without
<1>1. DOMAIN d.tree = DOMAIN c.tree \ {k} /\ \A x \in DOMAIN d.tree : d.tree[x] = c.tree[x]
  BY <1>0 DEF Restrict
<1>2. IsFiniteSet(DOMAIN c.tree) /\ DOMAIN c.tree \subseteq TreeKeys /\ \A x \in DOMAIN c.tree : c.tree[x] \in Nodes /\ c.tree[x].type \in {"flow", "frag"}
  BY <1>0 DEF CacheOK, TreeOK
<1>3. IsFiniteSet(DOMAIN d.tree) /\ Cardinality(DOMAIN d.tree) = Cardinality(DOMAIN c.tree) - 1
  <2>1. /\ IsFiniteSet(DOMAIN c.tree \ {k})
        /\ Cardinality(DOMAIN c.tree \ {k})
             = IF k \in DOMAIN c.tree THEN Cardinality(DOMAIN c.tree) - 1 ELSE Cardinality(DOMAIN c.tree)
    BY <1>2, FS_RemoveElement
  <2> QED
    BY <1>0, <1>1, <2>1
<1>4. CacheOK(d)
  <2>1. d.tree = [x \in DOMAIN d.tree |-> d.tree[x]]
    BY <1>0, <1>1 DEF Restrict
  <2>2. TreeOK(d.tree)
    BY <1>1, <1>2, <1>3, <2>1 DEF TreeOK
  <2>3. c.list \in Seq(Nodes) /\ (\A i \in DOMAIN c.list : Listed(c.list[i])) /\ c.allocated \in Int /\ c.uncounted \subseteq Nat
    BY <1>0 DEF CacheOK
  <2>4. IsCache(d) /\ d.list = c.list /\ d.uncounted = c.uncounted /\ d.allocated \in Int
    BY <1>0, <2>3
  <2> QED
    BY <2>2, <2>3, <2>4 DEF CacheOK
<1>5. Apart(d)
  <2>1. d.list = c.list /\ d.uncounted = c.uncounted
    BY <1>0
  <2> QED
    BY <1>0, <1>1, <2>1, Zenon DEF Apart
<1>6. PacketsAt(c.tree, DOMAIN c.tree) = PacketsAt(d.tree, DOMAIN d.tree) \cup c.tree[k].packets
  <2>1. ASSUME NEW n, n \in PacketsAt(c.tree, DOMAIN c.tree)
        PROVE  n \in PacketsAt(d.tree, DOMAIN d.tree) \cup c.tree[k].packets
    <3>1. PICK x \in DOMAIN c.tree : n \in c.tree[x].packets
      BY <2>1 DEF PacketsAt
    <3>2. CASE x = k
      BY <3>1, <3>2
    <3>3. CASE x # k
      <4>1. x \in DOMAIN d.tree /\ n \in d.tree[x].packets
        BY <1>1, <3>1, <3>3
      <4> QED
        BY <4>1 DEF PacketsAt
    <3> QED
      BY <3>2, <3>3
  <2>2. PacketsAt(d.tree, DOMAIN d.tree) \subseteq PacketsAt(c.tree, DOMAIN c.tree)
    BY <1>1, Zenon DEF PacketsAt
  <2>3. c.tree[k].packets \subseteq PacketsAt(c.tree, DOMAIN c.tree)
    BY <1>0 DEF PacketsAt
  <2> QED
    BY <2>1, <2>2, <2>3
<1>7. InCache(c) = InCache(d) \cup c.tree[k].packets
  BY <1>0, <1>6 DEF InCache
<1>8. InCache(d) \cap c.tree[k].packets = {}
  <2>1. PacketsAt(d.tree, DOMAIN d.tree) \cap c.tree[k].packets = {}
    <3>1. ASSUME NEW x \in DOMAIN d.tree PROVE d.tree[x].packets \cap c.tree[k].packets = {}
      <4>1. x # k /\ x \in DOMAIN c.tree /\ d.tree[x] = c.tree[x]
        BY <1>1
      <4> QED
        BY <1>0, <4>1 DEF Apart
    <3> QED
      BY <3>1, Zenon DEF PacketsAt
  <2>2. PacketsOf(d.list) \cap c.tree[k].packets = {}
    BY <1>0 DEF PacketsOf, ToSet, Apart
  <2>3. d.uncounted \cap c.tree[k].packets = {}
    BY <1>0 DEF Apart
  <2> QED
    BY <2>1, <2>2, <2>3 DEF InCache
<1> QED
  BY <1>3, <1>4, <1>5, <1>7, <1>8


LEMMA LastFragmentTakes ==
  ASSUME Inductive, packet = "process", LastFragment
  PROVE  Takes(Cache', Number, leaked' - leaked)
<1> DEFINE k == FlowKey(current.key)
           l == FragKey(current.key)
           frag == FlowTree[l]
           others == Restrict(FlowTree, DOMAIN FlowTree \ {l})
           P == frag.packets \cup {Number}
           v == IF k \in DOMAIN others
                  THEN [others[k] EXCEPT !.packets = @ \cup P, !.t_last = frag.t_last]
                  ELSE Flow("flow", P, frag.t_first, frag.t_last)
           d == [tree |-> others, list |-> NodeList, allocated |-> Allocated - 1, uncounted |-> uncounted]
           c == [Cache EXCEPT !.tree = Insert(others, k, P, frag.t_first, frag.t_last),
                              !.allocated = @ + Kept(Known(k)) - 1]
<1>1. l \in DOMAIN FlowTree /\ Cached(c) /\ leaked' = leaked
  BY DEF LastFragment, Known
<1>2. /\ CacheOK(Cache) /\ Apart(Cache) /\ Number \in Nat /\ now \in Nat /\ Number \notin InCache(Cache)
      /\ k \in TreeKeys /\ NodeList \in Seq(Nodes) /\ Allocated \in Int /\ Allocated <= MaxNodes
      /\ MaxNodes \in Nat /\ leaked \in Nat
      /\ Cardinality(DOMAIN FlowTree) \in Nat /\ Len(NodeList) \in Nat
  BY AtProcess, CaptureAssumption DEF Inductive, Storage
<1>3. k # l
  BY DEF FlowKey, FragKey
<1>4. /\ IsCache(d) /\ d.tree = others /\ d.list = NodeList /\ d.allocated = Allocated - 1
      /\ d.uncounted = uncounted
  <2> HIDE DEF others
  <2> QED
    BY DEF IsCache
<1>5. /\ IsCache(c) /\ c.tree = Put(others, k, v) /\ c.list = NodeList /\ c.uncounted = uncounted
      /\ c.allocated = Allocated + (IF k \in DOMAIN FlowTree THEN 0 ELSE 1) - 1
  <2> HIDE DEF P, k, l, others, frag
  <2>1. v = IF k \in DOMAIN others
              THEN [others[k] EXCEPT !.packets = @ \cup P, !.t_last = frag.t_last]
              ELSE Flow("flow", P, frag.t_first, frag.t_last)
    OBVIOUS
  <2> HIDE DEF v
  <2>2. Insert(others, k, P, frag.t_first, frag.t_last) = Put(others, k, v)
    BY <2>1, Zenon DEF Insert
  <2>3. c = [Cache EXCEPT !.tree = Put(others, k, v),
                          !.allocated = @ + (IF k \in DOMAIN FlowTree THEN 0 ELSE 1) - 1]
    BY <2>2, Zenon DEF Kept, Known
  <2> HIDE DEF c
  <2> QED
    BY <2>3 DEF Cache, IsCache
<1>6. DOMAIN others = DOMAIN FlowTree \ {l} /\ \A x \in DOMAIN others : others[x] = FlowTree[x]
  <2> HIDE DEF l
  <2> QED
    BY DEF Restrict
<1>7. \A x \in DOMAIN FlowTree : FlowTree[x] \in Nodes /\ FlowTree[x].type \in {"flow", "frag"}
  <2> HIDE DEF c, d, v, others, k, l
  <2> QED
    BY <1>2 DEF CacheOK, TreeOK, Cache
<1>8. /\ v \in Nodes /\ v.type \in {"flow", "frag"}
      /\ v.packets = (IF k \in DOMAIN others THEN others[k].packets ELSE {}) \cup P
      /\ P \subseteq Nat
  <2> HIDE DEF k, l, others, c, d
  <2>1. frag \in Nodes
    BY <1>1, <1>7
  <2> HIDE DEF frag
  <2>2. P \subseteq Nat /\ frag.t_first \in Nat /\ frag.t_last \in Nat
    BY <1>2, <2>1 DEF Nodes
  <2>3. k \in DOMAIN others => others[k] \in Nodes /\ others[k].type \in {"flow", "frag"}
    BY <1>6, <1>7
  <2> HIDE DEF P
  <2> QED
    BY <2>2, <2>3 DEF Nodes, Flow
<1>9. frag = FlowTree[l] /\ P = frag.packets \cup {Number} /\ others = Restrict(FlowTree, DOMAIN FlowTree \ {l})
  OBVIOUS
<1> HIDE DEF k, l, frag, others, P, v, d, c
<1>10. Cache.tree = FlowTree /\ Cache.list = NodeList /\ Cache.allocated = Allocated /\ Cache.uncounted = uncounted
  BY DEF Cache
<1>11. /\ CacheOK(d) /\ Apart(d)
       /\ InCache(Cache) = InCache(d) \cup frag.packets
       /\ InCache(d) \cap frag.packets = {}
       /\ Cardinality(DOMAIN d.tree) = Cardinality(DOMAIN FlowTree) - 1
  <2>1. Without(Cache, l, d)
    BY <1>1, <1>2, <1>4, <1>9, <1>10 DEF Without
  <2>2. /\ CacheOK(d) /\ Apart(d)
        /\ InCache(Cache) = InCache(d) \cup Cache.tree[l].packets
        /\ InCache(d) \cap Cache.tree[l].packets = {}
        /\ Cardinality(DOMAIN d.tree) = Cardinality(DOMAIN Cache.tree) - 1
    BY <2>1, WithoutNode
  <2> QED
    BY <1>9, <1>10, <2>2
<1>12. Inserts(d, k, P, v, c)
  <2>1. P \cap InCache(d) = {}
    BY <1>2, <1>9, <1>11
  <2>2. c.allocated \in Int
    BY <1>2, <1>5
  <2> QED
    BY <1>2, <1>4, <1>5, <1>8, <1>11, <2>1, <2>2 DEF Inserts
<1>13. /\ CacheOK(c) /\ Apart(c) /\ InCache(c) = InCache(d) \cup P
       /\ Cardinality(DOMAIN c.tree) = Cardinality(DOMAIN d.tree) + (IF k \in DOMAIN d.tree THEN 0 ELSE 1)
  BY <1>12, InsertFacts
<1>14. InCache(c) = InCache(Cache) \cup {Number}
  BY <1>9, <1>11, <1>13
<1>15. k \in DOMAIN d.tree <=> k \in DOMAIN FlowTree
  BY <1>3, <1>4, <1>6
<1>16. /\ c.allocated - Cardinality(DOMAIN c.tree) - Len(c.list)
            = Allocated - Cardinality(DOMAIN FlowTree) - Len(NodeList) + 0
       /\ c.allocated <= MaxNodes
  <2>1. Cardinality(DOMAIN c.tree)
          = Cardinality(DOMAIN FlowTree) - 1 + (IF k \in DOMAIN FlowTree THEN 0 ELSE 1)
    BY <1>11, <1>13, <1>15
  <2>2. CASE k \in DOMAIN FlowTree
    <3>1. c.allocated = Allocated - 1 /\ Cardinality(DOMAIN c.tree) = Cardinality(DOMAIN FlowTree) - 1
      BY <1>2, <1>5, <2>1, <2>2
    <3> QED
      BY <1>2, <1>5, <3>1
  <2>3. CASE k \notin DOMAIN FlowTree
    <3>1. c.allocated = Allocated /\ Cardinality(DOMAIN c.tree) = Cardinality(DOMAIN FlowTree)
      BY <1>2, <1>5, <2>1, <2>3
    <3> QED
      BY <1>2, <1>5, <3>1
  <2> QED
    BY <2>2, <2>3
<1>17. Takes(c, Number, 0)
  BY <1>2, <1>5, <1>13, <1>14, <1>16, ExtendsItself DEF Takes
<1>18. Sifted(c, Cache')
  BY <1>1, <1>13, CachedFacts
<1> QED
  BY <1>1, <1>2, <1>17, <1>18, TakesSifted

LEMMA ProcessTakes ==
  ASSUME Inductive, packet = "process", ProcessPacket
  PROVE  Takes(Cache', Number, leaked' - leaked) /\ leaked' \in Nat
<1>1. leaked \in Nat
  BY DEF Inductive, Storage
<1>2. leaked' \in Nat
  BY <1>1 DEF ProcessPacket, FlowPacket, SinglePacket, NoFlow, FirstFragment, NextFragment, LastFragment
<1> QED
  BY <1>2, FlowPacketTakes, SinglePacketTakes, NoFlowTakes, FirstFragmentTakes, NextFragmentTakes,
     LastFragmentTakes DEF ProcessPacket
-------------------------------------------------------------------------------
(* Where the threads are, and the times                                    *)

LEMMA StartFacts == Start \in Nat /\ Slot(Start) = Start /\ Twin \in Nat \ {0} /\ Twin < Start
<1>1. Twin \in Nat \ {0}
  BY CaptureAssumption
<1>2. Start \in Nat /\ Start = Twin * 2 /\ Twin < Start
  BY <1>1 DEF Start
<1>3. Slot(Start) \in Nat /\ Slot(Start) <= Start /\ Start < Slot(Start) + Twin /\ Slot(Start) = Twin * (Start \div Twin)
      /\ Start \div Twin \in Nat
  BY <1>2, SlotFacts, Division
<1>4. Twin * 2 <= Twin * (Start \div Twin)
  BY <1>2, <1>3, Multiples
<1> QED
  BY <1>1, <1>2, <1>3, <1>4

(* The slot after a slot that is over is a later one.                      *)
LEMMA NextSlot ==
  ASSUME NEW t \in Nat, NEW s \in Nat, Slot(s) = s, s <= t
  PROVE  s <= Slot(t) /\ Slot(t) \in Nat /\ Slot(t) <= t
<1>1. /\ Slot(t) \in Nat /\ t < Slot(t) + Twin /\ Slot(t) = Twin * (t \div Twin) /\ Slot(t) <= t
      /\ s = Twin * (s \div Twin) /\ t \div Twin \in Nat /\ s \div Twin \in Nat /\ Twin \in Nat
  BY SlotFacts, Division, CaptureAssumption
<1>2. Twin * (s \div Twin) < Twin * (t \div Twin) + Twin
  BY <1>1
<1> QED
  BY <1>1, <1>2, Multiples

(* The steps of the packet thread that only get it to another place        *)
Moves ==
    \/ FirstBuffer \/ IdleAfterSlot \/ RotateDump \/ Refill
    \/ PcapDump \/ BufferFull \/ SwapBuffer \/ Finish \/ EndOfCapture

LEMMA MovesThreads ==
  ASSUME Threads, Times, Moves
  PROVE  Threads' /\ Times' /\ (Waiting' <=> Waiting) /\ (Waiting => Number' = Number)
         /\ UNCHANGED <<mode, dueIn, t_start>>
<1>1. CASE FirstBuffer
  BY <1>1 DEF FirstBuffer, Threads, Times, Waiting, setup, Number, mainVars
<1>2. CASE IdleAfterSlot
  <2>1. PICK t \in MinTime .. MaxTime : t - t_start >= Twin /\ now' = t
    BY <1>2 DEF IdleAfterSlot
  <2>2. t_start \in Nat /\ MinTime \in Nat /\ MaxTime \in Nat /\ Twin \in Nat
    BY CaptureAssumption DEF Threads, Times
  <2>3. t \in Nat /\ t >= t_start + Twin
    BY <2>1, <2>2
  <2>4. /\ packet = "next" /\ packet' = "rotate" /\ current' = None
        /\ now' \in Nat /\ now' >= t_start + Twin
        /\ UNCHANGED <<mode, dump, t_start, t_win, stream, dueIn, main>>
    BY <1>2, <2>1, <2>3 DEF IdleAfterSlot, setup, mainVars
  <2> QED
    BY <2>4 DEF Threads, Times, Waiting, Number
<1>3. CASE RotateDump
  BY <1>3 DEF RotateDump, PushBuffer, Threads, Times, Waiting, setup, Number, mainVars
<1>4. CASE Refill
  BY <1>4 DEF Refill, Threads, Times, Waiting, setup, Number, mainVars
<1>5. CASE PcapDump
  BY <1>5 DEF PcapDump, NextTurn, Threads, Times, Waiting, setup, Number, mainVars
<1>6. CASE BufferFull
  BY <1>6 DEF BufferFull, PushBuffer, Threads, Times, Waiting, setup, Number, mainVars
<1>7. CASE SwapBuffer
  BY <1>7 DEF SwapBuffer, Threads, Times, Waiting, setup, Number, mainVars
<1>8. CASE Finish
  BY <1>8 DEF Finish, PushBuffer, Threads, Times, Waiting, setup, Number, mainVars
<1>9. CASE EndOfCapture
  BY <1>9 DEF EndOfCapture, Threads, Times, Waiting, setup, Number, mainVars
<1> QED
  BY <1>1, <1>2, <1>3, <1>4, <1>5, <1>6, <1>7, <1>8, <1>9 DEF Moves

LEMMA NextPacketThreads ==
  ASSUME Threads, Times, NextPacket
  PROVE  /\ Threads' /\ Times' /\ ~Waiting /\ Waiting'
         /\ SlotFor(now') \in Nat /\ dueIn' = Append(dueIn, SlotFor(now')) /\ Number' = Len(dueIn) + 1
         /\ UNCHANGED <<mode, t_start>>
<1>1. PICK t \in Stamps :
         /\ now' = t /\ dueIn' = Append(dueIn, SlotFor(t))
         /\ packet' = IF t - t_start >= Twin THEN "rotate" ELSE "process"
  BY DEF NextPacket
<1>2. /\ packet \in {"next", "block"} /\ stream # <<>>
      /\ current' = [number |-> Len(dueIn) + 1, kind |-> Head(stream).kind, key |-> Head(stream).key]
      /\ stream' = Tail(stream) /\ UNCHANGED <<mode, dump, t_start, t_win, main>>
  BY DEF NextPacket, setup, mainVars
<1>3. /\ stream \in Seq(Traffic) /\ dueIn \in Seq(Nat) /\ t_start \in Nat /\ Slot(t_start) = t_start
      /\ MinTime \in Nat /\ MaxTime \in Nat /\ Twin \in Nat \ {0} /\ Start \in Nat
  BY CaptureAssumption, StartFacts DEF Threads, Times
<1>4. t \in Nat
  BY <1>3 DEF Stamps
<1>5. SlotFor(t) \in Nat
  BY <1>3, <1>4, SlotFacts DEF SlotFor
<1>6. /\ stream' \in Seq(Traffic) /\ Head(stream) \in Traffic
  BY <1>2, <1>3
<1>7. current' \in Packets /\ current'.number = Len(dueIn) + 1
  BY <1>2, <1>3, <1>6 DEF Packets, Traffic
<1>8. /\ dueIn' \in Seq(Nat) /\ Len(dueIn') = Len(dueIn) + 1 /\ dueIn'[Len(dueIn) + 1] = SlotFor(t)
      /\ dueIn' # <<>>
  <2> DEFINE x == SlotFor(t)
  <2>1. x \in Nat /\ dueIn' = Append(dueIn, x)
    BY <1>1, <1>5
  <2> HIDE DEF x
  <2>2. /\ Append(dueIn, x) \in Seq(Nat) /\ Len(Append(dueIn, x)) = Len(dueIn) + 1
        /\ Append(dueIn, x)[Len(dueIn) + 1] = x /\ Len(dueIn) \in Nat
    BY <1>3, <2>1
  <2>3. dueIn' \in Seq(Nat) /\ Len(dueIn') = Len(dueIn) + 1 /\ dueIn'[Len(dueIn) + 1] = x /\ dueIn' # <<>>
    BY <2>1, <2>2
  <2> QED
    BY <2>3 DEF x
<1>9. packet' = "process" => SlotFor(t) = t_start
  <2>1. CASE t < t_start
    BY <2>1 DEF SlotFor
  <2>2. CASE ~(t < t_start) /\ packet' = "process"
    <3>1. t_start <= t /\ t < t_start + Twin
      BY <1>1, <1>3, <1>4, <2>2
    <3>2. Slot(t) = t_start
      BY <1>3, <1>4, <3>1, SlotSame
    <3> QED
      BY <2>2, <3>2 DEF SlotFor
  <2> QED
    BY <2>1, <2>2
<1>10. packet' = "rotate" => t >= t_start + Twin /\ SlotFor(t) = Slot(t)
  <2>1. packet' = "rotate" => t >= t_start + Twin /\ ~(t < t_start)
    BY <1>1, <1>3, <1>4
  <2> QED
    BY <2>1 DEF SlotFor
<1>11. packet' \in {"rotate", "process"}
  BY <1>1
<1>12. current' # None
  BY <1>7, CaptureAssumption
<1>13. Threads'
  BY <1>1, <1>2, <1>4, <1>6, <1>7, <1>8, <1>11, <1>12 DEF Threads
<1>14. Times'
  <2>1. Slot(now)' = Slot(t)
    BY <1>1 DEF Slot
  <2> HIDE DEF Slot, SlotFor
  <2> QED
    BY <1>1, <1>2, <1>4, <1>7, <1>8, <1>9, <1>10, <1>11, <2>1 DEF Times, Number, Waiting
<1> QED
  BY <1>1, <1>2, <1>5, <1>7, <1>11, <1>12, <1>13, <1>14 DEF Waiting, Number

LEMMA IdleInSlotThreads ==
  ASSUME Threads, Times, IdleInSlot
  PROVE  Threads' /\ Times' /\ ~Waiting /\ ~Waiting' /\ UNCHANGED <<mode, dueIn, t_start>>
<1>1. /\ packet = "next" /\ packet' \in {"next", "finish"}
      /\ UNCHANGED <<mode, dump, current, now, t_start, t_win, stream, dueIn, main>>
  BY DEF IdleInSlot, IdleDone, Threads, Times, setup, mainVars
<1> QED
  BY <1>1 DEF Threads, Times, Waiting

LEMMA SyncFlowsThreads ==
  ASSUME Threads, Times, SyncFlows
  PROVE  /\ Threads' /\ Times' /\ t_start <= t_start'
         /\ (Waiting' <=> Waiting) /\ (Waiting => Number' = Number)
         /\ UNCHANGED <<mode, dueIn>>
<1>1. /\ packet = "sync" /\ t_start' = Slot(now)
      /\ (current = None => packet' \in {"next", "finish"}) /\ (current # None => packet' = "process")
      /\ UNCHANGED <<mode, dump, current, now, t_win, stream, dueIn, main>>
  BY DEF SyncFlows, IdleDone, setup, mainVars
<1>2. now \in Nat /\ t_start \in Nat /\ Slot(t_start) = t_start /\ t_start <= now /\ Start <= t_start /\ Start \in Nat
  BY <1>1, StartFacts DEF Threads, Times
<1>3. t_start <= t_start' /\ t_start' \in Nat /\ Start <= t_start'
  BY <1>1, <1>2, NextSlot
<1>4. Slot(t_start') = t_start'
  BY <1>1, <1>2, SlotOfSlot
<1> QED
  BY <1>1, <1>2, <1>3, <1>4 DEF Threads, Times, Waiting, Number

LEMMA ProcessThreads ==
  ASSUME Threads, Times, Process
  PROVE  Threads' /\ Times' /\ ~Waiting' /\ Waiting /\ UNCHANGED <<mode, dueIn, t_start>>
<1>1. /\ packet = "process" /\ ((dump /\ packet' = "store") \/ packet' \in {"next", "finish", "block"})
      /\ UNCHANGED <<mode, dump, current, now, t_start, t_win, stream, dueIn, main>>
  BY DEF Process, NextTurn, setup, mainVars
<1> QED
  BY <1>1 DEF Threads, Times, Waiting, Number

(* The other threads leave the packet thread where it is; only the signal  *)
(* gets it out of poll.                                                    *)
LEMMA OthersThreads ==
  ASSUME Threads, Times, FlushThread \/ FlowThread \/ MainThread \/ Terminate \/ UNCHANGED vars
  PROVE  Threads' /\ Times' /\ (Waiting' <=> Waiting) /\ Number' = Number
         /\ UNCHANGED <<mode, dueIn, t_start>>
<1>1. CASE FlushThread \/ FlowThread
  <2>1. UNCHANGED <<setup, packetVars, mainVars>>
    BY <1>1 DEF FlushThread, FlowThread, FlushPop, FlushEnd, OpenDumpFile, OpenDumpFileFails,
       WriteBuffer, WriteBufferFails, ReturnBuffer, CloseDumpFile, ClearTimeStamp,
       OpenNewFile, OpenNewFileFails, Pop_Node, StorePcapFlow, CloseFlowFile
  <2> QED
    BY <2>1 DEF setup, packetVars, mainVars, Threads, Times, Waiting, Number
<1>2. CASE MainThread
  <2>1. CASE SignalPacketThread
    BY <2>1 DEF SignalPacketThread, setup, Threads, Times, Waiting, Number
  <2>2. CASE JoinThreads
    BY <2>2 DEF JoinThreads, setup, packetVars, Threads, Times, Waiting, Number
  <2>3. CASE WaitDone \/ Flush_FlowTree \/ SignalFlowThread \/ JoinFlowThread
    BY <2>3 DEF WaitDone, Flush_FlowTree, SignalFlowThread, JoinFlowThread, setup, packetVars, Threads, Times, Waiting, Number
  <2> QED
    BY <1>2, <2>1, <2>2, <2>3 DEF MainThread
<1>3. CASE Terminate
  BY <1>3 DEF Terminate, setup, packetVars, Threads, Times, Waiting, Number
<1>4. CASE UNCHANGED vars
  BY <1>4 DEF vars, setup, packetVars, mainVars, Threads, Times, Waiting, Number
<1> QED
  BY <1>1, <1>2, <1>3, <1>4
-------------------------------------------------------------------------------
(* The pool of buffers                                                     *)

poolState == <<bufferQueue, flushQueue, packetBuffer, content, timeStamp, flush, flushed, dropped>>

LEMMA PoolKept ==
  ASSUME Pool, UNCHANGED poolState, HasBuffer' <=> HasBuffer
  PROVE  Pool'
<1>1. UNCHANGED <<bufferQueue, flushQueue, packetBuffer, content, timeStamp, flush, flushed, dropped>>
  BY DEF poolState
<1>2. Held' = Held /\ Taken' = Taken /\ ToSet(bufferQueue)' = ToSet(bufferQueue) /\ ToSet(flushQueue)' = ToSet(flushQueue)
  BY <1>1 DEF Held, Taken, ToSet
<1>3. PoolTypes'
  BY <1>1 DEF Pool, PoolTypes
<1>4. NoRepeats(bufferQueue)' /\ NoRepeats(flushQueue)'
  BY <1>1 DEF Pool, NoRepeats
<1> QED
  BY <1>1, <1>2, <1>3, <1>4 DEF Pool

(* The packet thread takes a buffer from the pool, ...                     *)
LEMMA TakesBuffer ==
  ASSUME Pool, ~HasBuffer, HasBuffer', bufferQueue # <<>>,
         packetBuffer' = Head(bufferQueue), bufferQueue' = Tail(bufferQueue),
         UNCHANGED <<flushQueue, content, timeStamp, flush, flushed, dropped>>
  PROVE  Pool'
<1> DEFINE b == Head(bufferQueue)
<1>1. bufferQueue \in Seq(Buffers) /\ NoRepeats(bufferQueue)
  BY DEF Pool, PoolTypes
<1>2. /\ b \in Buffers /\ Tail(bufferQueue) \in Seq(Buffers) /\ NoRepeats(Tail(bufferQueue))
      /\ ToSet(bufferQueue) = {b} \cup ToSet(Tail(bufferQueue)) /\ b \notin ToSet(Tail(bufferQueue))
  BY <1>1, SeqHeadTail
<1> HIDE DEF b
<1>3. packetBuffer' = b /\ b # None /\ packetBuffer = None
  BY <1>2, CaptureAssumption DEF b, Pool, PoolTypes
<1>4. Held = {} /\ Held' = {b} /\ Taken' = Taken
  BY <1>3 DEF Held, Taken
<1>5. PoolTypes'
  BY <1>2, <1>3 DEF Pool, PoolTypes
<1>6. ToSet(bufferQueue)' = ToSet(Tail(bufferQueue)) /\ ToSet(flushQueue)' = ToSet(flushQueue)
  BY DEF ToSet
<1>7. Split(ToSet(bufferQueue), ToSet(flushQueue), Held, Taken, dropped)
  BY DEF Pool
<1>8. Split(ToSet(bufferQueue)', ToSet(flushQueue)', Held', Taken', dropped')
  <2> HIDE DEF b
  <2> QED
    BY <1>2, <1>4, <1>6, <1>7 DEF Split
<1>9. NoRepeats(bufferQueue)' /\ NoRepeats(flushQueue)'
  BY <1>2 DEF Pool, NoRepeats
<1>10. \A x \in ToSet(bufferQueue)' \cup dropped' : content'[x] = <<>>
  BY <1>2, <1>6 DEF Pool
<1> QED
  BY <1>5, <1>8, <1>9, <1>10 DEF Pool

(* ... puts packets into it ...                                            *)
LEMMA FillsBuffer ==
  ASSUME Pool, HasBuffer, HasBuffer', NEW n \in Nat, Len(content[packetBuffer]) < BufferSize,
         content' = [content EXCEPT ![packetBuffer] = Append(@, n)],
         UNCHANGED <<bufferQueue, flushQueue, packetBuffer, timeStamp, flush, flushed, dropped>>
  PROVE  Pool'
<1>1. packetBuffer \in Buffers /\ packetBuffer # None /\ Held = {packetBuffer} /\ BufferSize \in Nat
  BY CaptureAssumption DEF Pool, PoolTypes, Held
<1>2. content \in [Buffers -> Seq(Nat)]
  BY DEF Pool, PoolTypes
<1>3. /\ Append(content[packetBuffer], n) \in Seq(Nat)
      /\ Len(Append(content[packetBuffer], n)) <= BufferSize
  BY <1>1, <1>2
<1>4. /\ content' \in [Buffers -> Seq(Nat)]
      /\ \A b \in Buffers : b # packetBuffer => content'[b] = content[b]
      /\ content'[packetBuffer] = Append(content[packetBuffer], n)
  BY <1>1, <1>2, <1>3
<1>5. \A b \in Buffers : Len(content'[b]) <= BufferSize
  BY <1>3, <1>4 DEF Pool, PoolTypes
<1>6. PoolTypes'
  BY <1>4, <1>5 DEF Pool, PoolTypes
<1>7. ToSet(bufferQueue)' = ToSet(bufferQueue) /\ ToSet(flushQueue)' = ToSet(flushQueue) /\ Held' = Held /\ Taken' = Taken
  BY DEF ToSet, Held, Taken
<1>8. packetBuffer \notin ToSet(bufferQueue) \cup dropped /\ ToSet(bufferQueue) \cup dropped \subseteq Buffers
  BY <1>1 DEF Pool, Split
<1>9. \A x \in ToSet(bufferQueue)' \cup dropped' : content'[x] = <<>>
  BY <1>4, <1>7, <1>8 DEF Pool
<1> QED
  BY <1>6, <1>7, <1>9 DEF Pool, NoRepeats

(* ... and pushes it to the flush thread.                                  *)
LEMMA PushesBuffer ==
  ASSUME Pool, HasBuffer, ~HasBuffer', NEW mark \in Nat, PushBuffer(mark),
         UNCHANGED <<bufferQueue, content, flush, flushed, dropped>>
  PROVE  Pool'
<1>1. packetBuffer \in Buffers /\ packetBuffer # None /\ Held = {packetBuffer}
  BY DEF Pool, PoolTypes, Held
<1>2. /\ timeStamp' = [timeStamp EXCEPT ![packetBuffer] = mark]
      /\ flushQueue' = Append(flushQueue, packetBuffer) /\ packetBuffer' = None
  BY DEF PushBuffer
<1>3. flushQueue \in Seq(Buffers) /\ timeStamp \in [Buffers -> Nat] /\ NoRepeats(flushQueue)
  BY DEF Pool, PoolTypes
<1>4. /\ Append(flushQueue, packetBuffer) \in Seq(Buffers)
      /\ ToSet(Append(flushQueue, packetBuffer)) = ToSet(flushQueue) \cup {packetBuffer}
  BY <1>1, <1>3, SeqAppend
<1>5. Split(ToSet(bufferQueue), ToSet(flushQueue), Held, Taken, dropped)
  BY DEF Pool
<1>6. NoRepeats(Append(flushQueue, packetBuffer))
  <2>1. packetBuffer \notin ToSet(flushQueue)
    BY <1>1, <1>5 DEF Split
  <2> QED
    BY <1>1, <1>3, <2>1, NoRepeatsAppend
<1>7. /\ ToSet(bufferQueue)' = ToSet(bufferQueue) /\ ToSet(flushQueue)' = ToSet(flushQueue) \cup {packetBuffer}
      /\ Held' = {} /\ Taken' = Taken
  BY <1>2, <1>4 DEF ToSet, Held, Taken
<1>8. Split(ToSet(bufferQueue)', ToSet(flushQueue)', Held', Taken', dropped')
  BY <1>1, <1>5, <1>7 DEF Split
<1>9. PoolTypes'
  BY <1>2, <1>3, <1>4 DEF Pool, PoolTypes
<1>10. \A x \in ToSet(bufferQueue)' \cup dropped' : content'[x] = <<>>
  BY <1>7 DEF Pool
<1>11. NoRepeats(bufferQueue)' /\ NoRepeats(flushQueue)'
  BY <1>2, <1>6 DEF Pool, NoRepeats
<1> QED
  BY <1>8, <1>9, <1>10, <1>11 DEF Pool

LEMMA MovesPool ==
  ASSUME Threads, Pool, Moves
  PROVE  Pool'
<1>0. t_start \in Nat
  BY DEF Threads
<1>1. CASE FirstBuffer
  <2>1. packet = "start" /\ packet' \in {"finish", "next"} /\ dump' = dump
        /\ UNCHANGED <<flushQueue, content, timeStamp, flush, flushed, dropped>>
    BY <1>1 DEF FirstBuffer, setup, flushVars
  <2>2. CASE dump
    <3>1. bufferQueue # <<>> /\ packetBuffer' = Head(bufferQueue) /\ bufferQueue' = Tail(bufferQueue)
      BY <1>1, <2>2 DEF FirstBuffer
    <3>2. ~HasBuffer /\ HasBuffer'
      BY <2>1, <2>2 DEF HasBuffer
    <3> QED
      BY <2>1, <3>1, <3>2, TakesBuffer
  <2>3. CASE ~dump
    BY <1>1, <2>1, <2>3, PoolKept DEF FirstBuffer, poolState, HasBuffer
  <2> QED
    BY <2>2, <2>3
<1>2. CASE IdleAfterSlot
  BY <1>2, PoolKept DEF IdleAfterSlot, poolState, HasBuffer, setup, poolVars, flushVars
<1>3. CASE RotateDump
  <2>1. packet = "rotate" /\ dump' = dump /\ UNCHANGED <<bufferQueue, content, flush, flushed, dropped>>
    BY <1>3 DEF RotateDump, setup, flushVars
  <2>2. CASE dump
    <3>1. PushBuffer(t_start) /\ HasBuffer /\ ~HasBuffer'
      BY <1>3, <2>1, <2>2 DEF RotateDump, HasBuffer
    <3> QED
      BY <1>0, <2>1, <3>1, PushesBuffer
  <2>3. CASE ~dump
    BY <1>3, <2>1, <2>3, PoolKept DEF RotateDump, poolState, HasBuffer
  <2> QED
    BY <2>2, <2>3
<1>4. CASE Refill \/ SwapBuffer
  <2>1. /\ bufferQueue # <<>> /\ packetBuffer' = Head(bufferQueue) /\ bufferQueue' = Tail(bufferQueue)
        /\ UNCHANGED <<flushQueue, content, timeStamp, flush, flushed, dropped>>
    BY <1>4 DEF Refill, SwapBuffer, flushVars
  <2>2. ~HasBuffer /\ HasBuffer'
    BY <1>4 DEF Refill, SwapBuffer, HasBuffer, setup, Threads
  <2> QED
    BY <2>1, <2>2, TakesBuffer
<1>5. CASE PcapDump
  <2>1. /\ Len(content[packetBuffer]) < BufferSize
        /\ content' = [content EXCEPT ![packetBuffer] = Append(@, Number)]
        /\ UNCHANGED <<bufferQueue, flushQueue, packetBuffer, timeStamp, flush, flushed, dropped>>
    BY <1>5 DEF PcapDump, flushVars
  <2>2. HasBuffer /\ HasBuffer'
    BY <1>5 DEF PcapDump, NextTurn, HasBuffer, setup, Threads
  <2>3. Number \in Nat
    BY <1>5 DEF PcapDump, Threads, Packets, Number
  <2> QED
    BY <2>1, <2>2, <2>3, FillsBuffer
<1>6. CASE BufferFull
  <2>1. PushBuffer(0) /\ UNCHANGED <<bufferQueue, content, flush, flushed, dropped>>
    BY <1>6 DEF BufferFull, flushVars
  <2>2. HasBuffer /\ ~HasBuffer'
    BY <1>6 DEF BufferFull, HasBuffer, setup, Threads
  <2> QED
    BY <2>1, <2>2, PushesBuffer
<1>7. CASE Finish
  <2>1. packet = "finish" /\ packet' = "exited" /\ dump' = dump /\ UNCHANGED <<bufferQueue, content, flush, flushed, dropped>>
    BY <1>7 DEF Finish, setup, flushVars
  <2>2. CASE dump
    <3>1. PushBuffer(t_start) /\ HasBuffer /\ ~HasBuffer'
      BY <1>7, <2>1, <2>2 DEF Finish, HasBuffer
    <3> QED
      BY <1>0, <2>1, <3>1, PushesBuffer
  <2>3. CASE ~dump
    BY <1>7, <2>1, <2>3, PoolKept DEF Finish, poolState, HasBuffer
  <2> QED
    BY <2>2, <2>3
<1>8. CASE EndOfCapture
  BY <1>8, PoolKept DEF EndOfCapture, poolState, HasBuffer, setup, poolVars, flushVars
<1> QED
  BY <1>1, <1>2, <1>3, <1>4, <1>5, <1>6, <1>7, <1>8 DEF Moves

LEMMA OtherPool ==
  ASSUME Threads, Pool,
         NextPacket \/ IdleInSlot \/ SyncFlows \/ Process \/ FlowThread \/ MainThread \/ Terminate
           \/ UNCHANGED vars
  PROVE  Pool'
<1>1. CASE NextPacket
  BY <1>1, PoolKept DEF NextPacket, poolState, HasBuffer, setup, poolVars, flushVars
<1>2. CASE IdleInSlot
  BY <1>2, PoolKept DEF IdleInSlot, IdleDone, poolState, HasBuffer, setup, poolVars, flushVars
<1>3. CASE SyncFlows
  BY <1>3, PoolKept DEF SyncFlows, IdleDone, poolState, HasBuffer, setup, poolVars, flushVars
<1>4. CASE Process
  BY <1>4, PoolKept DEF Process, NextTurn, poolState, HasBuffer, setup, poolVars, flushVars
<1>5. CASE FlowThread
  <2>1. UNCHANGED <<setup, packetVars, poolVars, flushVars>>
    BY <1>5 DEF FlowThread, OpenNewFile, OpenNewFileFails, Pop_Node, StorePcapFlow, CloseFlowFile
  <2> QED
    BY <2>1, PoolKept DEF setup, packetVars, poolVars, flushVars, poolState, HasBuffer
<1>6. CASE MainThread
  <2>1. CASE SignalPacketThread
    BY <2>1, PoolKept DEF SignalPacketThread, setup, poolVars, flushVars, poolState, HasBuffer
  <2>2. CASE WaitDone \/ JoinThreads \/ Flush_FlowTree \/ SignalFlowThread \/ JoinFlowThread
    BY <2>2, PoolKept DEF WaitDone, JoinThreads, Flush_FlowTree, SignalFlowThread, JoinFlowThread, setup, packetVars,
       poolVars, flushVars, poolState, HasBuffer
  <2> QED
    BY <1>6, <2>1, <2>2 DEF MainThread
<1>7. CASE Terminate
  BY <1>7, PoolKept DEF Terminate, setup, packetVars, poolVars, flushVars, poolState, HasBuffer
<1>8. CASE UNCHANGED vars
  BY <1>8, PoolKept DEF vars, setup, packetVars, poolVars, flushVars, poolState, HasBuffer
<1> QED
  BY <1>1, <1>2, <1>3, <1>4, <1>5, <1>6, <1>7, <1>8

(* The flush thread gives a buffer with packets back empty, and drops one  *)
(* without packets.                                                        *)
LEMMA FlushPopPool ==
  ASSUME Pool, FlushPop
  PROVE  Pool'
<1> DEFINE b == Head(flushQueue)
<1>1. /\ flush = "pop" /\ flushQueue # <<>> /\ flushQueue' = Tail(flushQueue)
      /\ flushed' = [buffer |-> b, timeStamp |-> timeStamp[b]]
      /\ flush' = IF content[b] # <<>> THEN "open" ELSE IF timeStamp[b] # 0 THEN "close" ELSE "pop"
      /\ dropped' = IF content[b] # <<>> THEN dropped ELSE dropped \cup {b}
      /\ UNCHANGED <<bufferQueue, content, timeStamp, packetBuffer, packet, dump>>
  BY DEF FlushPop, setup, packetVars
<1>2. flushQueue \in Seq(Buffers) /\ timeStamp \in [Buffers -> Nat] /\ NoRepeats(flushQueue)
  BY DEF Pool, PoolTypes
<1>3. /\ b \in Buffers /\ Tail(flushQueue) \in Seq(Buffers) /\ NoRepeats(Tail(flushQueue))
      /\ ToSet(flushQueue) = {b} \cup ToSet(Tail(flushQueue)) /\ b \notin ToSet(Tail(flushQueue))
  BY <1>1, <1>2, SeqHeadTail
<1> HIDE DEF b
<1>4. flushed' \in [buffer : Buffers, timeStamp : Nat] /\ flushed'.buffer = b
  BY <1>1, <1>2, <1>3
<1>5. /\ Taken = {} /\ Taken' = (IF content[b] # <<>> THEN {b} ELSE {}) /\ Held' = Held
      /\ dropped' = IF content[b] # <<>> THEN dropped ELSE dropped \cup {b}
  BY <1>1, <1>4 DEF Taken, Held
<1>6. ToSet(bufferQueue)' = ToSet(bufferQueue) /\ ToSet(flushQueue)' = ToSet(Tail(flushQueue))
  BY <1>1 DEF ToSet
<1>7. Split(ToSet(bufferQueue), ToSet(flushQueue), Held, Taken, dropped)
  BY DEF Pool
<1>8. Split(ToSet(bufferQueue)', ToSet(flushQueue)', Held', Taken', dropped')
  BY <1>3, <1>5, <1>6, <1>7 DEF Split
<1>10. PoolTypes'
  <2>1. HasBuffer' <=> HasBuffer
    BY <1>1 DEF HasBuffer
  <2>2. flush' \in {"open", "close", "pop"}
    BY <1>1
  <2> QED
    BY <1>1, <1>3, <1>4, <2>1, <2>2 DEF Pool, PoolTypes
<1>11. NoRepeats(bufferQueue)' /\ NoRepeats(flushQueue)'
  BY <1>1, <1>3 DEF Pool, NoRepeats
<1>12. \A x \in ToSet(bufferQueue)' \cup dropped' : content'[x] = <<>>
  BY <1>1, <1>5, <1>6 DEF Pool
<1> QED
  BY <1>8, <1>10, <1>11, <1>12 DEF Pool

LEMMA ReturnBufferPool ==
  ASSUME Pool, flush = "write", ReturnBuffer
  PROVE  Pool'
<1> DEFINE b == flushed.buffer
<1>1. /\ content' = [content EXCEPT ![b] = <<>>] /\ bufferQueue' = Append(bufferQueue, b)
      /\ flush' \in {"close", "pop"}
      /\ UNCHANGED <<flushQueue, timeStamp, flushed, dropped, packetBuffer, packet, dump>>
  BY DEF ReturnBuffer, setup, packetVars
<1>2. /\ flushed \in [buffer : Buffers, timeStamp : Nat] /\ b \in Buffers
      /\ bufferQueue \in Seq(Buffers) /\ NoRepeats(bufferQueue)
      /\ content \in [Buffers -> Seq(Nat)]
  BY DEF Pool, PoolTypes
<1>3. Taken = {b}
  BY DEF Taken
<1> HIDE DEF b
<1>4. Taken' = {} /\ Held' = Held
  BY <1>1 DEF Taken, Held
<1>5. Split(ToSet(bufferQueue), ToSet(flushQueue), Held, Taken, dropped)
  BY DEF Pool
<1>6. /\ Append(bufferQueue, b) \in Seq(Buffers)
      /\ ToSet(Append(bufferQueue, b)) = ToSet(bufferQueue) \cup {b}
  BY <1>2, SeqAppend
<1>7. NoRepeats(Append(bufferQueue, b))
  <2>1. b \notin ToSet(bufferQueue)
    BY <1>3, <1>5 DEF Split
  <2> QED
    BY <1>2, <2>1, NoRepeatsAppend
<1>8. ToSet(bufferQueue)' = ToSet(bufferQueue) \cup {b} /\ ToSet(flushQueue)' = ToSet(flushQueue)
  BY <1>1, <1>6 DEF ToSet
<1>9. Split(ToSet(bufferQueue)', ToSet(flushQueue)', Held', Taken', dropped')
  BY <1>1, <1>3, <1>4, <1>5, <1>8 DEF Split
<1>10. content' \in [Buffers -> Seq(Nat)] /\ content'[b] = <<>> /\ \A x \in Buffers : x # b => content'[x] = content[x]
  <2>1. <<>> \in Seq(Nat)
    OBVIOUS
  <2> QED
    BY <1>1, <1>2, <2>1
<1>11. \A x \in Buffers : Len(content'[x]) <= BufferSize
  <2>1. Len(<<>>) <= BufferSize
    BY CaptureAssumption
  <2> QED
    BY <1>10, <2>1 DEF Pool, PoolTypes
<1>12. PoolTypes'
  <2>1. HasBuffer' <=> HasBuffer
    BY <1>1 DEF HasBuffer
  <2> QED
    BY <1>1, <1>2, <1>6, <1>10, <1>11, <2>1 DEF Pool, PoolTypes
<1>13. NoRepeats(bufferQueue)' /\ NoRepeats(flushQueue)'
  BY <1>1, <1>7 DEF Pool, NoRepeats
<1>14. \A x \in ToSet(bufferQueue)' \cup dropped' : content'[x] = <<>>
  <2>1. ToSet(bufferQueue) \cup dropped \subseteq Buffers
    BY <1>5 DEF Split
  <2> QED
    BY <1>1, <1>8, <1>10, <2>1 DEF Pool
<1> QED
  BY <1>9, <1>12, <1>13, <1>14 DEF Pool

LEMMA FlushThreadPool ==
  ASSUME Pool, FlushThread
  PROVE  Pool'
<1>1. CASE FlushPop
  BY <1>1, FlushPopPool
<1>2. CASE WriteBuffer \/ WriteBufferFails
  BY <1>2, ReturnBufferPool DEF WriteBuffer, WriteBufferFails
<1>3. ASSUME \/ FlushEnd \/ OpenDumpFile \/ OpenDumpFileFails \/ CloseDumpFile \/ ClearTimeStamp
      PROVE  Pool'
  <2>1. UNCHANGED <<bufferQueue, flushQueue, content, flushed, dropped, packetBuffer, packet, dump>>
    BY <1>3 DEF FlushEnd, OpenDumpFile, OpenDumpFileFails, CloseDumpFile, ClearTimeStamp, poolVars, setup, packetVars
  <2>2. /\ Taken' = Taken /\ flush' \in {"exited", "write", "dead", "clear", "pop"}
        /\ flush \in {"pop", "open", "write", "close", "clear"} /\ (flush = "pop" => flush' = "exited")
    BY <1>3, <2>1 DEF FlushEnd, OpenDumpFile, OpenDumpFileFails, CloseDumpFile, ClearTimeStamp, Taken
  <2>3. timeStamp' \in [Buffers -> Nat]
    <3>1. CASE ClearTimeStamp
      <4>1. timeStamp' = [timeStamp EXCEPT ![flushed.buffer] = 0] /\ timeStamp \in [Buffers -> Nat]
        BY <3>1 DEF ClearTimeStamp, Pool, PoolTypes
      <4> QED
        BY <4>1
    <3>2. CASE FlushEnd \/ OpenDumpFile \/ OpenDumpFileFails \/ CloseDumpFile
      BY <3>2 DEF FlushEnd, OpenDumpFile, OpenDumpFileFails, CloseDumpFile, poolVars, Pool, PoolTypes
    <3> QED
      BY <1>3, <3>1, <3>2
  <2>4. HasBuffer' <=> HasBuffer
    BY <2>1 DEF HasBuffer
  <2>5. PoolTypes'
    BY <2>1, <2>2, <2>3, <2>4 DEF Pool, PoolTypes
  <2>6. Held' = Held /\ ToSet(bufferQueue)' = ToSet(bufferQueue) /\ ToSet(flushQueue)' = ToSet(flushQueue)
    BY <2>1 DEF Held, ToSet
  <2> QED
    BY <2>1, <2>2, <2>5, <2>6 DEF Pool, NoRepeats
<1> QED
  BY <1>1, <1>2, <1>3 DEF FlushThread
-------------------------------------------------------------------------------
(* What is stored, how many nodes there are, and where the packets are     *)

Books == Storage /\ NodesAccounted /\ Counted /\ Ordered

LEMMA UptoFacts ==
  ASSUME dueIn \in Seq(Nat), NEW P \in SUBSET Numbers, NEW s \in Int, Upto(P, s)
  PROVE  /\ \A t \in Int : s <= t => Upto(P, t)
         /\ \A Q \in SUBSET P : Upto(Q, s)
<1>1. \A n \in P : dueIn[n] \in Nat /\ dueIn[n] <= s
  BY DEF Upto, Numbers
<1> QED
  BY <1>1 DEF Upto

(* Nothing moves.                                                          *)
LEMMA BooksKept ==
  ASSUME Books, UNCHANGED <<cacheVars, flowVars, mode, dueIn, t_start>>,
         lost' = [pcap |-> lost'.pcap, flow |-> lost.flow],
         Waiting' <=> Waiting, Waiting => Number' = Number
  PROVE  Books'
<1>1. /\ UNCHANGED <<FlowTree, NodeList, Allocated, uncounted, leaked, flow, node, nffile, archive, mode, dueIn, t_start>>
      /\ lost'.flow = lost.flow /\ lost' = [pcap |-> lost'.pcap, flow |-> lost'.flow]
  BY DEF cacheVars, flowVars
<1>2. /\ Cache' = Cache /\ InHand' = InHand /\ InFiles' = InFiles /\ Passed' = Passed /\ Numbers' = Numbers
      /\ PacketsOf(nffile)' = PacketsOf(nffile)
  BY <1>1 DEF Cache, InHand, InFiles, Passed, Numbers, PacketsOf, ToSet
<1>3. Storage'
  BY <1>1, <1>2 DEF Books, Storage
<1>4. NodesAccounted'
  BY <1>1 DEF Books, NodesAccounted
<1>5. Counted'
  BY <1>1, <1>2 DEF Books, Counted
<1>6. Ordered'
  BY <1>1, <1>2 DEF Books, Ordered, Upto, Behind, PacketsOf, ToSet
<1> QED
  BY <1>3, <1>4, <1>5, <1>6 DEF Books

(* A packet comes.                                                         *)
LEMMA NextPacketBooks ==
  ASSUME Threads, Times, Books, NextPacket
  PROVE  Books'
<1> DEFINE x == SlotFor(now')
<1>1. /\ ~Waiting /\ Waiting' /\ x \in Nat /\ dueIn' = Append(dueIn, x)
      /\ Number' = Len(dueIn) + 1 /\ UNCHANGED <<mode, t_start>> /\ dueIn \in Seq(Nat)
  BY NextPacketThreads DEF Threads
<1> HIDE DEF x
<1>2. UNCHANGED <<FlowTree, NodeList, Allocated, uncounted, leaked, flow, node, nffile, archive, lost>>
  BY DEF NextPacket, cacheVars, flowVars
<1>3. /\ Cache' = Cache /\ InHand' = InHand /\ InFiles' = InFiles /\ Passed' = Passed
      /\ PacketsOf(nffile)' = PacketsOf(nffile)
  BY <1>2 DEF Cache, InHand, InFiles, Passed, PacketsOf, ToSet
<1>4. /\ DOMAIN dueIn' = Numbers \cup {Number'} /\ Number' \notin Numbers
      /\ \A n \in Numbers : dueIn'[n] = dueIn[n]
  <2>1. /\ DOMAIN Append(dueIn, x) = 1 .. Len(dueIn) + 1 /\ Len(dueIn) \in Nat
        /\ \A i \in 1 .. Len(dueIn) : Append(dueIn, x)[i] = dueIn[i] /\ DOMAIN dueIn = 1 .. Len(dueIn)
    BY <1>1, SeqAppend
  <2> HIDE DEF Number
  <2> QED
    BY <1>1, <2>1 DEF Numbers
<1>5. InCache(Cache) \cup Passed = Numbers
  BY <1>1 DEF Books, Counted
<1>6. Storage' /\ NodesAccounted'
  BY <1>2, <1>3 DEF Books, Storage, NodesAccounted
<1>7. Counted'
  <2>1. Numbers' = Numbers \cup {Number'}
    BY <1>4 DEF Numbers
  <2> QED
    BY <1>1, <1>2, <1>3, <1>4, <1>5, <2>1 DEF Books, Counted
<1>8. ASSUME NEW P \in SUBSET Numbers, NEW s, Upto(P, s) PROVE Upto(P, s)'
  BY <1>4, <1>8 DEF Upto
<1>9. Ordered'
  <2>1. InCache(Cache) \cup InHand \cup PacketsOf(nffile) \subseteq Numbers /\ InFiles \subseteq Numbers
    BY <1>5 DEF Passed
  <2>2. ASSUME NEW i \in DOMAIN NodeList PROVE NodeList[i].packets \subseteq Numbers
    <3>1. NodeList[i].packets \subseteq PacketsOf(NodeList)
      BY DEF PacketsOf, ToSet
    <3> QED
      BY <2>1, <3>1 DEF InCache, Cache
  <2>3. ASSUME NEW s \in DOMAIN archive PROVE PacketsOf(archive[s]) \subseteq Numbers
    BY <2>1 DEF InFiles
  <2>4. Upto(InCache(Cache) \cup InHand \cup PacketsOf(nffile), t_start)'
    <3>1. Upto(InCache(Cache) \cup InHand \cup PacketsOf(nffile), t_start)
      BY DEF Books, Ordered
    <3> QED
      BY <1>1, <1>3, <1>4, <2>1, <3>1 DEF Upto
  <2>5. \A i, j \in DOMAIN NodeList : i < j => Behind(NodeList[i].packets, NodeList[j])'
    BY <1>1, <1>2, <1>4, <2>2 DEF Books, Ordered, Behind, Upto
  <2>6. \A j \in DOMAIN NodeList : Behind(InHand \cup PacketsOf(nffile), NodeList[j])'
    BY <1>1, <1>2, <1>3, <1>4, <2>1 DEF Books, Ordered, Behind, Upto
  <2>7. flow \in {"sync", "done"} => Behind(PacketsOf(nffile), node)'
    BY <1>1, <1>2, <1>3, <1>4, <2>1 DEF Books, Ordered, Behind, Upto
  <2>8. ASSUME NEW s \in DOMAIN archive PROVE Upto(PacketsOf(archive[s]), s)' \/ (mode = "ring" /\ s < Start)
    <3>1. Upto(PacketsOf(archive[s]), s) \/ (mode = "ring" /\ s < Start)
      BY DEF Books, Ordered
    <3>2. PacketsOf(archive[s])' = PacketsOf(archive[s])
      BY <1>2 DEF PacketsOf, ToSet
    <3> QED
      BY <1>4, <2>3, <3>1, <3>2 DEF Upto
  <2> QED
    BY <1>1, <1>2, <2>4, <2>5, <2>6, <2>7, <2>8 DEF Ordered
<1> QED
  BY <1>6, <1>7, <1>9 DEF Books

(* A node that says that the slot of all packets so far is over            *)
Closes(n) == n.t_first >= t_start \/ (mode = "ring" /\ n.t_first < Start)

Prolongs(s, t) ==
    \E r \in Seq(Nodes) : t = s \o r /\ \A i \in DOMAIN r : r[i].type # "flow" => Closes(r[i])

(* A step of the cache to d: it takes the packets N, and the books are kept *)
Keeps(d, N) ==
    /\ CacheOK(d) /\ Apart(d)
    /\ InCache(d) = InCache(Cache) \cup N
    /\ d.allocated - Cardinality(DOMAIN d.tree) - Len(d.list)
         = Allocated - Cardinality(DOMAIN FlowTree) - Len(NodeList) + (leaked' - leaked)
    /\ d.allocated <= MaxNodes
    /\ Prolongs(NodeList, d.list)

LEMMA CacheStep ==
  ASSUME Threads, Times, Books, NEW N, Keeps(Cache', N), leaked' \in Nat,
         N = IF Waiting /\ ~Waiting' THEN {Number} ELSE {}, Waiting' => Waiting /\ Number' = Number,
         N # {} => packet = "process",
         UNCHANGED <<flowVars, lost, mode, dueIn>>,
         t_start' \in Nat, t_start <= t_start'
  PROVE  Books'
<1>1. /\ UNCHANGED <<flow, node, nffile, archive, lost, mode, dueIn>>
      /\ dueIn \in Seq(Nat) /\ t_start \in Nat
  BY DEF flowVars, Threads
<1>2. /\ InHand' = InHand /\ InFiles' = InFiles /\ Passed' = Passed /\ Numbers' = Numbers
      /\ PacketsOf(nffile)' = PacketsOf(nffile)
  BY <1>1 DEF InHand, InFiles, Passed, Numbers, PacketsOf, ToSet
<1>3. /\ Cache'.tree = FlowTree' /\ Cache'.list = NodeList' /\ Cache'.allocated = Allocated' /\ Cache'.uncounted = uncounted'
  BY DEF Cache
<1>4. CacheOK(Cache') /\ Apart(Cache') /\ InCache(Cache') = InCache(Cache) \cup N
  BY DEF Keeps
<1>5. Storage'
  <2>1. Allocated' <= MaxNodes
    BY <1>3 DEF Keeps
  <2> QED
    BY <1>1, <1>2, <1>4, <2>1 DEF Books, Storage
<1>6. NodesAccounted'
  <2>1. Allocated' - Cardinality(DOMAIN FlowTree') - Len(NodeList')
         = Allocated - Cardinality(DOMAIN FlowTree) - Len(NodeList) + (leaked' - leaked)
    BY <1>3 DEF Keeps
  <2>2. Allocated' \in Int /\ IsFiniteSet(DOMAIN FlowTree') /\ NodeList' \in Seq(Nodes)
    BY <1>3, <1>4 DEF CacheOK, TreeOK
  <2>3. Allocated \in Int /\ IsFiniteSet(DOMAIN FlowTree) /\ NodeList \in Seq(Nodes) /\ leaked \in Nat
    BY DEF CacheOK, TreeOK, Books, Storage, Cache
  <2>4. Cardinality(DOMAIN FlowTree') \in Nat /\ Cardinality(DOMAIN FlowTree) \in Nat
    BY <2>2, <2>3, FS_CardinalityType
  <2>5. Len(NodeList') \in Nat /\ Len(NodeList) \in Nat
    BY <2>2, <2>3
  <2>6. Allocated = Cardinality(DOMAIN FlowTree) + Len(NodeList) + (IF node = None THEN 0 ELSE 1) + leaked
    BY DEF Books, NodesAccounted
  <2>7. Allocated' = Cardinality(DOMAIN FlowTree') + Len(NodeList') + (IF node = None THEN 0 ELSE 1) + leaked'
    <3> DEFINE T == Cardinality(DOMAIN FlowTree)  U == Cardinality(DOMAIN FlowTree')
               m == Len(NodeList)  n == Len(NodeList')  h == IF node = None THEN 0 ELSE 1
    <3>1. /\ Allocated' - U - n = Allocated - T - m + (leaked' - leaked) /\ Allocated = T + m + h + leaked
          /\ T \in Nat /\ U \in Nat /\ m \in Nat /\ n \in Nat /\ h \in Nat /\ leaked \in Nat /\ leaked' \in Nat
          /\ Allocated' \in Int /\ Allocated \in Int
      BY <2>1, <2>2, <2>3, <2>4, <2>5, <2>6
    <3> HIDE DEF T, U, m, n, h
    <3>2. PICK a \in Int : a = Allocated'
      BY <3>1
    <3>3. PICK l \in Nat : l = leaked'
      BY <3>1
    <3>4. Allocated - T - m = h + leaked
      BY <3>1
    <3>5. a - U - n = h + l
      BY <3>1, <3>2, <3>3, <3>4
    <3>6. a = U + n + h + l
      BY <3>1, <3>5
    <3> QED
      BY <3>2, <3>3, <3>6 DEF U, n, h
  <2> QED
    BY <1>1, <2>7 DEF NodesAccounted
<1>7. Counted'
  <2>1. /\ Stored(InHand, PacketsOf(nffile), InFiles, lost.flow)
        /\ InCache(Cache) \cap Passed = {}
        /\ Numbers = InCache(Cache) \cup Passed \cup (IF Waiting THEN {Number} ELSE {})
        /\ Waiting => Number \notin InCache(Cache) \cup Passed
    BY DEF Books, Counted
  <2>2. InCache(Cache') \cap Passed = {}
    BY <1>4, <2>1
  <2>3. Numbers = InCache(Cache') \cup Passed \cup (IF Waiting' THEN {Number'} ELSE {})
    BY <1>4, <2>1
  <2>4. Waiting' => Number' \notin InCache(Cache') \cup Passed
    BY <1>4, <2>1
  <2> QED
    BY <1>1, <1>2, <1>4, <2>1, <2>2, <2>3, <2>4 DEF Counted
<1>8. InCache(Cache) \cup Passed \cup N \subseteq Numbers
  BY DEF Books, Counted
<1>9. /\ Upto(InCache(Cache') \cup InHand \cup PacketsOf(nffile), t_start)
      /\ InCache(Cache') \cup InHand \cup PacketsOf(nffile) \subseteq Numbers
  <2>1. Upto(N, t_start)
    <3>1. CASE N = {}
      BY <3>1 DEF Upto
    <3>2. CASE Waiting /\ N = {Number}
      <4>1. packet = "process" /\ dueIn[Number] = t_start
        BY <3>2 DEF Times
      <4> QED
        BY <1>1, <3>2, <4>1 DEF Upto
    <3> QED
      BY <3>1, <3>2
  <2>2. Upto(InCache(Cache) \cup InHand \cup PacketsOf(nffile), t_start)
    BY DEF Books, Ordered
  <2>3. Upto(InCache(Cache') \cup InHand \cup PacketsOf(nffile), t_start)
    BY <1>4, <2>1, <2>2 DEF Upto
  <2> QED
    BY <1>4, <1>8, <2>3 DEF Passed
<1>10. PICK r \in Seq(Nodes) : NodeList' = NodeList \o r /\ \A i \in DOMAIN r : r[i].type # "flow" => Closes(r[i])
  BY <1>3 DEF Keeps, Prolongs
<1>11. NodeList \in Seq(Nodes) /\ Len(NodeList) \in Nat
  BY DEF Books, Storage, CacheOK, Cache
<1>12. /\ DOMAIN NodeList' = 1 .. Len(NodeList) + Len(r) /\ DOMAIN NodeList = 1 .. Len(NodeList)
       /\ \A i \in 1 .. Len(NodeList) : NodeList'[i] = NodeList[i]
       /\ \A i \in 1 .. Len(r) : NodeList'[Len(NodeList) + i] = r[i]
       /\ DOMAIN r = 1 .. Len(r)
  BY <1>10, <1>11, SeqConcat
<1>13. ASSUME NEW P \in SUBSET (InCache(Cache') \cup InHand \cup PacketsOf(nffile)),
              NEW j \in DOMAIN NodeList', j \notin 1 .. Len(NodeList)
       PROVE  Behind(P, NodeList'[j])
  <2>1. j - Len(NodeList) \in DOMAIN r /\ NodeList'[j] = r[j - Len(NodeList)]
    <3>1. j - Len(NodeList) \in 1 .. Len(r) /\ Len(NodeList) + (j - Len(NodeList)) = j
      BY <1>10, <1>11, <1>12, <1>13
    <3> QED
      BY <1>12, <3>1
  <2>2. NodeList'[j].type # "flow" => Closes(NodeList'[j])
    BY <1>10, <2>1
  <2>3. NodeList'[j] \in Nodes
    BY <1>10, <2>1
  <2>4. NodeList'[j].t_first \in Nat
    BY <2>3 DEF Nodes
  <2>5. P \subseteq Numbers /\ Upto(P, t_start)
    BY <1>9, UptoFacts, <1>1, <1>13
  <2>6. NodeList'[j].t_first >= t_start => Upto(P, NodeList'[j].t_first)
    BY <2>4, <2>5, <1>1, UptoFacts
  <2> QED
    BY <2>2, <2>6 DEF Behind, Closes
<1>14. Ordered'
  <2>1. Upto(InCache(Cache') \cup InHand \cup PacketsOf(nffile), t_start')
    BY <1>1, <1>9, UptoFacts
  <2>2. ASSUME NEW i \in DOMAIN NodeList', NEW j \in DOMAIN NodeList', i < j
        PROVE  Behind(NodeList'[i].packets, NodeList'[j])
    <3>1. CASE j \in 1 .. Len(NodeList)
      <4>1. i \in DOMAIN NodeList /\ j \in DOMAIN NodeList /\ NodeList'[i] = NodeList[i] /\ NodeList'[j] = NodeList[j]
        BY <1>11, <1>12, <2>2, <3>1
      <4> QED
        BY <2>2, <4>1 DEF Books, Ordered
    <3>2. CASE j \notin 1 .. Len(NodeList)
      <4>1. NodeList'[i].packets \subseteq PacketsOf(NodeList')
        BY DEF PacketsOf, ToSet
      <4>2. NodeList'[i].packets \subseteq InCache(Cache')
        BY <1>3, <4>1 DEF InCache
      <4> QED
        BY <1>13, <3>2, <4>2
    <3> QED
      BY <3>1, <3>2
  <2>3. ASSUME NEW j \in DOMAIN NodeList'
        PROVE  Behind(InHand \cup PacketsOf(nffile), NodeList'[j])
    <3>1. CASE j \in 1 .. Len(NodeList)
      BY <1>12, <3>1 DEF Books, Ordered
    <3>2. CASE j \notin 1 .. Len(NodeList)
      BY <1>13, <3>2
    <3> QED
      BY <3>1, <3>2
  <2>4. flow \in {"sync", "done"} => Behind(PacketsOf(nffile), node)
    BY DEF Books, Ordered
  <2>5. \A s \in DOMAIN archive : Upto(PacketsOf(archive[s]), s) \/ (mode = "ring" /\ s < Start)
    BY DEF Books, Ordered
  <2>6. /\ (\A P, s : Upto(P, s)' <=> Upto(P', s'))
        /\ (\A P, n : Behind(P, n)' <=> Behind(P', n'))
    BY <1>1 DEF Upto, Behind
  <2> QED
    BY <1>1, <1>2, <2>1, <2>2, <2>3, <2>4, <2>5, <2>6 DEF Ordered
<1> QED
  BY <1>5, <1>6, <1>7, <1>14 DEF Books

LEMMA ExtendsProlongs ==
  ASSUME NEW s, NEW t, Extends(s, t)
  PROVE  Prolongs(s, t)
BY DEF Extends, Prolongs

LEMMA ProlongsFurther ==
  ASSUME NEW s \in Seq(Nodes), NEW t, NEW u, Prolongs(s, t), Prolongs(t, u)
  PROVE  Prolongs(s, u)
<1>1. PICK r \in Seq(Nodes) : t = s \o r /\ \A i \in DOMAIN r : r[i].type # "flow" => Closes(r[i])
  BY DEF Prolongs
<1>2. PICK q \in Seq(Nodes) : u = t \o q /\ \A i \in DOMAIN q : q[i].type # "flow" => Closes(q[i])
  BY DEF Prolongs
<1>3. u = s \o (r \o q) /\ r \o q \in Seq(Nodes)
  BY <1>1, <1>2
<1>4. ASSUME NEW i \in DOMAIN (r \o q) PROVE (r \o q)[i].type # "flow" => Closes((r \o q)[i])
  <2>1. CASE i \in 1 .. Len(r)
    <3>1. (r \o q)[i] = r[i] /\ i \in DOMAIN r
      BY <2>1
    <3> QED
      BY <1>1, <3>1
  <2>2. CASE i > Len(r)
    <3>1. i - Len(r) \in DOMAIN q /\ (r \o q)[i] = q[i - Len(r)]
      BY <2>2
    <3> QED
      BY <1>2, <3>1
  <2> QED
    BY <2>1, <2>2, SeqConcat
<1> QED
  BY <1>3, <1>4 DEF Prolongs

(* A signal behind the list                                                *)
Signals(c, n, d) ==
    /\ CacheOK(c) /\ Apart(c)
    /\ n \in Nodes /\ n.type \in {"sync", "done"} /\ n.packets = {}
    /\ IsCache(d) /\ d.tree = c.tree /\ d.list = Append(c.list, n)
    /\ d.allocated = c.allocated + 1 /\ d.uncounted = c.uncounted

LEMMA SignalFacts ==
  ASSUME NEW c, NEW n, NEW d, Signals(c, n, d)
  PROVE  /\ CacheOK(d) /\ Apart(d) /\ InCache(d) = InCache(c)
         /\ d.allocated - Cardinality(DOMAIN d.tree) - Len(d.list)
              = c.allocated - Cardinality(DOMAIN c.tree) - Len(c.list)
         /\ Closes(n) => Prolongs(c.list, d.list)
<1>1. /\ CacheOK(c) /\ Apart(c)
      /\ n \in Nodes /\ n.type \in {"sync", "done"} /\ n.packets = {}
      /\ IsCache(d) /\ d.tree = c.tree /\ d.list = Append(c.list, n)
      /\ d.allocated = c.allocated + 1 /\ d.uncounted = c.uncounted
  BY DEF Signals
<1>2. /\ c.list \in Seq(Nodes) /\ (\A i \in DOMAIN c.list : Listed(c.list[i])) /\ c.allocated \in Int
      /\ c.uncounted \subseteq Nat /\ TreeOK(c.tree) /\ IsFiniteSet(DOMAIN c.tree) /\ Len(c.list) \in Nat
  BY <1>1 DEF CacheOK, TreeOK
<1>3. /\ d.list \in Seq(Nodes) /\ DOMAIN d.list = 1 .. Len(c.list) + 1 /\ Len(d.list) = Len(c.list) + 1
      /\ \A i \in 1 .. Len(c.list) : d.list[i] = c.list[i]
      /\ d.list[Len(c.list) + 1] = n /\ ToSet(d.list) = ToSet(c.list) \cup {n}
      /\ DOMAIN c.list = 1 .. Len(c.list)
  BY <1>1, <1>2, SeqAppend
<1>4. CacheOK(d)
  <2>1. ASSUME NEW i \in DOMAIN d.list PROVE Listed(d.list[i])
    <3>1. CASE i \in DOMAIN c.list
      BY <1>2, <1>3, <3>1
    <3>2. CASE i = Len(c.list) + 1
      BY <1>1, <1>3, <3>2 DEF Listed
    <3> QED
      BY <1>2, <1>3, <3>1, <3>2
  <2> QED
    BY <1>1, <1>2, <1>3, <2>1 DEF CacheOK
<1>5. InCache(d) = InCache(c)
  BY <1>1, <1>3 DEF InCache, PacketsOf
<1>6. Apart(d)
  <2>1. ASSUME NEW i \in DOMAIN d.list
        PROVE  \/ i \in DOMAIN c.list /\ d.list[i] = c.list[i]
               \/ d.list[i].packets = {}
    BY <1>1, <1>2, <1>3
  <2> QED
    BY <1>1, <2>1 DEF Apart
<1>7. d.allocated - Cardinality(DOMAIN d.tree) - Len(d.list)
        = c.allocated - Cardinality(DOMAIN c.tree) - Len(c.list)
  <2>1. Cardinality(DOMAIN c.tree) \in Nat
    BY <1>2, FS_CardinalityType
  <2>2. PICK a \in Int, t \in Nat, m \in Nat :
             a = c.allocated /\ t = Cardinality(DOMAIN c.tree) /\ m = Len(c.list)
    BY <1>2, <2>1
  <2>3. d.allocated = a + 1 /\ Cardinality(DOMAIN d.tree) = t /\ Len(d.list) = m + 1
    BY <1>1, <1>3, <2>2
  <2>4. (a + 1) - t - (m + 1) = a - t - m
    OBVIOUS
  <2> QED
    BY <2>2, <2>3, <2>4, Zenon
<1>8. Closes(n) => Prolongs(c.list, d.list)
  <2>1. d.list = c.list \o <<n>> /\ <<n>> \in Seq(Nodes) /\ DOMAIN <<n>> = {1} /\ <<n>>[1] = n
    BY <1>1, <1>2
  <2> QED
    BY <2>1 DEF Prolongs
<1> QED
  BY <1>4, <1>5, <1>6, <1>7, <1>8

(* The types of the books                                                  *)
LEMMA BooksTypes ==
  ASSUME Books, Threads
  PROVE  /\ CacheOK(Cache) /\ Apart(Cache) /\ NodeList \in Seq(Nodes) /\ Allocated \in Int /\ Allocated <= MaxNodes
         /\ MaxNodes \in Nat /\ leaked \in Nat /\ t_start \in Nat
         /\ Cardinality(DOMAIN FlowTree) \in Nat /\ Len(NodeList) \in Nat
         /\ Cache.tree = FlowTree /\ Cache.list = NodeList /\ Cache.allocated = Allocated /\ Cache.uncounted = uncounted
<1>1. CacheOK(Cache) /\ Apart(Cache) /\ Allocated <= MaxNodes /\ leaked \in Nat /\ t_start \in Nat /\ MaxNodes \in Nat
  BY CaptureAssumption DEF Books, Storage, Counted, Threads
<1>2. NodeList \in Seq(Nodes) /\ Allocated \in Int /\ IsFiniteSet(DOMAIN FlowTree)
  BY <1>1 DEF CacheOK, Cache, TreeOK
<1>3. Cardinality(DOMAIN FlowTree) \in Nat /\ Len(NodeList) \in Nat
  BY <1>2, FS_CardinalityType
<1> QED
  BY <1>1, <1>2, <1>3 DEF Cache

LEMMA SiftedKeeps ==
  ASSUME Books, Threads, NEW c, NEW d, Sifted(c, d), CacheOK(c), Apart(c), leaked' = leaked,
         InCache(c) = InCache(Cache), c.allocated <= MaxNodes, Prolongs(NodeList, c.list),
         c.allocated - Cardinality(DOMAIN c.tree) - Len(c.list)
           = Allocated - Cardinality(DOMAIN FlowTree) - Len(NodeList)
  PROVE  Keeps(d, {})
<1>1. /\ NodeList \in Seq(Nodes) /\ Allocated \in Int /\ MaxNodes \in Nat /\ leaked \in Nat
      /\ Cardinality(DOMAIN FlowTree) \in Nat /\ Len(NodeList) \in Nat
  BY BooksTypes
<1>2. /\ CacheOK(d) /\ Apart(d) /\ InCache(d) = InCache(c) /\ d.allocated <= c.allocated /\ Extends(c.list, d.list)
      /\ d.allocated - Cardinality(DOMAIN d.tree) - Len(d.list)
           = c.allocated - Cardinality(DOMAIN c.tree) - Len(c.list)
  BY DEF Sifted
<1>3. Prolongs(NodeList, d.list)
  BY <1>1, <1>2, ExtendsProlongs, ProlongsFurther
<1>4. d.allocated <= MaxNodes
  <2>1. d.allocated \in Int /\ c.allocated \in Int
    BY <1>2 DEF CacheOK
  <2> QED
    BY <1>1, <1>2, <2>1
<1>5. d.allocated - Cardinality(DOMAIN d.tree) - Len(d.list)
        = Allocated - Cardinality(DOMAIN FlowTree) - Len(NodeList) + (leaked' - leaked)
  <2>1. leaked' - leaked = 0
    BY <1>1
  <2> QED
    BY <1>1, <1>2, <2>1
<1> QED
  BY <1>2, <1>3, <1>4, <1>5 DEF Keeps

LEMMA IdleInSlotBooks ==
  ASSUME Threads, Times, Books, IdleInSlot
  PROVE  Books'
<1>1. /\ CacheOK(Cache) /\ Apart(Cache) /\ Cache.list = NodeList /\ NodeList \in Seq(Nodes) /\ t_start \in Nat
      /\ leaked \in Nat /\ Cache.allocated = Allocated /\ Cache.tree = FlowTree /\ Allocated <= MaxNodes
  BY BooksTypes
<1>2. /\ CacheCheck(Cache, t_start) /\ leaked' = leaked
      /\ UNCHANGED <<flowVars, lost, mode, dueIn, t_start>>
  BY DEF IdleInSlot, setup
<1>3. Sifted(Cache, Cache')
  BY <1>1, <1>2, CheckFacts
<1>4. Prolongs(NodeList, Cache.list)
  BY <1>1, ExtendsItself, ExtendsProlongs
<1>5. Keeps(Cache', {})
  BY <1>1, <1>2, <1>3, <1>4, SiftedKeeps
<1>6. ~Waiting /\ ~Waiting'
  BY IdleInSlotThreads
<1> DEFINE N == IF Waiting /\ ~Waiting' THEN {Number} ELSE {}
<1>7. N = {} /\ leaked' \in Nat /\ t_start' \in Nat /\ t_start <= t_start'
  BY <1>1, <1>2, <1>6
<1> QED
  BY <1>2, <1>5, <1>6, <1>7, CacheStep

Signalled(n) == [Cache EXCEPT !.list = Append(@, n), !.allocated = @ + 1]

LEMMA SignalledFacts ==
  ASSUME Threads, Books, FreeNodes(1), NEW n \in Nodes, n.type \in {"sync", "done"}, n.packets = {}, Closes(n)
  PROVE  /\ CacheOK(Signalled(n)) /\ Apart(Signalled(n)) /\ InCache(Signalled(n)) = InCache(Cache)
         /\ Prolongs(NodeList, Signalled(n).list) /\ Signalled(n).allocated <= MaxNodes
         /\ Signalled(n).allocated - Cardinality(DOMAIN Signalled(n).tree) - Len(Signalled(n).list)
              = Allocated - Cardinality(DOMAIN FlowTree) - Len(NodeList)
<1> DEFINE c == Signalled(n)
<1>1. /\ CacheOK(Cache) /\ Apart(Cache) /\ Cache.list = NodeList /\ Cache.allocated = Allocated /\ Cache.tree = FlowTree
      /\ Allocated \in Int /\ MaxNodes \in Nat
  BY BooksTypes
<1>2. Signals(Cache, n, c)
  <2>1. c = [Cache EXCEPT !.list = Append(@, n), !.allocated = @ + 1]
    BY DEF Signalled
  <2> HIDE DEF c
  <2>2. /\ IsCache(c) /\ c.tree = Cache.tree /\ c.list = Append(Cache.list, n)
        /\ c.allocated = Cache.allocated + 1 /\ c.uncounted = Cache.uncounted
    BY <2>1 DEF Cache, IsCache
  <2> QED
    BY <1>1, <2>2 DEF Signals
<1> HIDE DEF c
<1>3. /\ CacheOK(c) /\ Apart(c) /\ InCache(c) = InCache(Cache) /\ Prolongs(NodeList, c.list)
      /\ c.allocated - Cardinality(DOMAIN c.tree) - Len(c.list)
              = Allocated - Cardinality(DOMAIN FlowTree) - Len(NodeList)
  BY <1>1, <1>2, SignalFacts
<1>4. c.allocated <= MaxNodes
  BY <1>1, <1>2 DEF Signals, FreeNodes
<1> QED
  BY <1>3, <1>4 DEF c

LEMMA SyncFlowsBooks ==
  ASSUME Threads, Times, Books, SyncFlows
  PROVE  Books'
<1> DEFINE n == Signal("sync", t_start)
           c == Signalled(n)
<1>1. t_start \in Nat /\ leaked \in Nat
  BY BooksTypes
<1>2. /\ FreeNodes(1) /\ leaked' = leaked
      /\ CacheCheck(c, Slot(now)) \/ SetCache(c)
      /\ UNCHANGED <<flowVars, lost, mode, dueIn>>
  BY DEF SyncFlows, setup, Signalled
<1>3. n \in Nodes /\ n.type = "sync" /\ n.packets = {} /\ Closes(n)
  BY <1>1 DEF Nodes, Signal, Flow, Closes
<1> HIDE DEF n
<1>4. /\ CacheOK(c) /\ Apart(c) /\ InCache(c) = InCache(Cache) /\ Prolongs(NodeList, c.list)
      /\ c.allocated - Cardinality(DOMAIN c.tree) - Len(c.list)
              = Allocated - Cardinality(DOMAIN FlowTree) - Len(NodeList)
      /\ c.allocated <= MaxNodes
  BY <1>2, <1>3, SignalledFacts
<1> HIDE DEF c
<1>5. Sifted(c, Cache')
  BY <1>2, <1>4, CheckFacts, SetCacheFacts, SiftedItself
<1>6. Keeps(Cache', {})
  BY <1>2, <1>4, <1>5, SiftedKeeps
<1>7. (Waiting' <=> Waiting) /\ (Waiting => Number' = Number) /\ t_start <= t_start' /\ t_start' \in Nat
  BY SyncFlowsThreads DEF Threads
<1> DEFINE N == IF Waiting /\ ~Waiting' THEN {Number} ELSE {}
<1>8. N = {} /\ leaked' \in Nat
  BY <1>1, <1>2, <1>7
<1> QED
  BY <1>2, <1>6, <1>7, <1>8, CacheStep

LEMMA ProcessBooks ==
  ASSUME Inductive, Process
  PROVE  Books'
<1>1. packet = "process" /\ ProcessPacket /\ UNCHANGED <<flowVars, lost, mode, dueIn, t_start>>
  BY DEF Process, setup
<1>2. Takes(Cache', Number, leaked' - leaked) /\ leaked' \in Nat
  BY <1>1, ProcessTakes
<1>3. Threads /\ Times /\ Books
  BY DEF Inductive, Books
<1>4. Waiting /\ ~Waiting' /\ t_start \in Nat
  BY <1>3, ProcessThreads DEF Threads
<1> DEFINE N == IF Waiting /\ ~Waiting' THEN {Number} ELSE {}
<1>5. N = {Number}
  BY <1>4
<1> HIDE DEF N
<1>6. Prolongs(NodeList, Cache'.list)
  BY <1>2, ExtendsProlongs DEF Takes
<1>7. Keeps(Cache', N)
  BY <1>2, <1>5, <1>6 DEF Takes, Keeps
<1>8. t_start' \in Nat /\ t_start <= t_start'
  BY <1>1, <1>4
<1>9. N = IF Waiting /\ ~Waiting' THEN {Number} ELSE {}
  BY DEF N
<1> QED
  BY <1>1, <1>2, <1>3, <1>4, <1>7, <1>8, <1>9, CacheStep

LEMMA FlushTreeBooks ==
  ASSUME Threads, Times, Books, Flush_FlowTree
  PROVE  Books'
<1> DEFINE K == DOMAIN FlowTree
           c == Removed(Cache, K)
<1>1. /\ CacheOK(Cache) /\ Apart(Cache) /\ Cache.list = NodeList /\ NodeList \in Seq(Nodes) /\ t_start \in Nat
      /\ leaked \in Nat /\ Cache.allocated = Allocated /\ Cache.tree = FlowTree /\ Allocated <= MaxNodes
  BY BooksTypes
<1>2. /\ SetCache(c) /\ leaked' = leaked
      /\ UNCHANGED <<flowVars, lost, mode, dueIn, t_start, packet, current>>
  BY DEF Flush_FlowTree, setup, packetVars
<1>3. Sifted(Cache, c)
  <2>1. K \in SUBSET DOMAIN Cache.tree
    BY <1>1
  <2> HIDE DEF K
  <2> QED
    BY <1>1, <2>1, RemovedFacts
<1> HIDE DEF c
<1>4. Cache' = c
  BY <1>2, <1>3, SetCacheFacts DEF Sifted
<1>5. Prolongs(NodeList, Cache.list)
  BY <1>1, ExtendsItself, ExtendsProlongs
<1>6. Keeps(Cache', {})
  BY <1>1, <1>2, <1>3, <1>4, <1>5, SiftedKeeps
<1>7. (Waiting' <=> Waiting) /\ Number' = Number
  BY <1>2 DEF Waiting, Number
<1> DEFINE N == IF Waiting /\ ~Waiting' THEN {Number} ELSE {}
<1>8. N = {} /\ leaked' \in Nat /\ t_start' \in Nat /\ t_start <= t_start'
  BY <1>1, <1>2, <1>7
<1> QED
  BY <1>2, <1>6, <1>7, <1>8, CacheStep

LEMMA SignalFlowThreadBooks ==
  ASSUME Threads, Times, Books, SignalFlowThread
  PROVE  Books'
<1> DEFINE n == Signal("done", t_win)
           c == Signalled(n)
<1>1. t_start \in Nat /\ leaked \in Nat
  BY BooksTypes
<1>2. /\ main = "signal" /\ FreeNodes(1) /\ leaked' = leaked /\ SetCache(c)
      /\ UNCHANGED <<flowVars, lost, mode, dueIn, t_start, packet, current>>
  BY DEF SignalFlowThread, setup, packetVars, Signalled
<1>3. n \in Nodes /\ n.type = "done" /\ n.packets = {} /\ Closes(n)
  <2>1. packet = "exited" /\ t_win \in Nat /\ t_win = IF mode # "ring" THEN t_start ELSE Twin
    BY <1>2 DEF Threads, Times
  <2> QED
    BY <1>1, <2>1, StartFacts DEF Nodes, Signal, Flow, Closes
<1> HIDE DEF n
<1>4. /\ CacheOK(c) /\ Apart(c) /\ InCache(c) = InCache(Cache) /\ Prolongs(NodeList, c.list)
      /\ c.allocated - Cardinality(DOMAIN c.tree) - Len(c.list)
              = Allocated - Cardinality(DOMAIN FlowTree) - Len(NodeList)
      /\ c.allocated <= MaxNodes
  BY <1>2, <1>3, SignalledFacts
<1> HIDE DEF c
<1>5. Sifted(c, Cache')
  BY <1>2, <1>4, SetCacheFacts, SiftedItself
<1>6. Keeps(Cache', {})
  BY <1>2, <1>4, <1>5, SiftedKeeps
<1>7. (Waiting' <=> Waiting) /\ Number' = Number
  BY <1>2 DEF Waiting, Number
<1> DEFINE N == IF Waiting /\ ~Waiting' THEN {Number} ELSE {}
<1>8. N = {} /\ leaked' \in Nat /\ t_start' \in Nat /\ t_start <= t_start'
  BY <1>1, <1>2, <1>7
<1> QED
  BY <1>2, <1>6, <1>7, <1>8, CacheStep
-------------------------------------------------------------------------------
(* The flow thread                                                         *)

(* What it leaves alone                                                    *)
Unmoved == UNCHANGED <<mode, dueIn, t_start, packet, current, FlowTree, uncounted, leaked>>

LEMMA UnmovedFacts ==
  ASSUME Unmoved
  PROVE  /\ (Waiting' <=> Waiting) /\ Number' = Number /\ Numbers' = Numbers
         /\ (\A P, s : Upto(P, s)' <=> Upto(P', s')) /\ (\A P, n : Behind(P, n)' <=> Behind(P', n'))
BY DEF Unmoved, Waiting, Number, Numbers, Upto, Behind

LEMMA OpenNewFileBooks ==
  ASSUME Threads, Times, Books, OpenNewFile
  PROVE  Books'
<1>1. /\ flow \in {"open", "reopen"} /\ nffile' = <<>> /\ flow' = "pop" /\ node' = None
      /\ Allocated' = (IF flow = "reopen" THEN Allocated - 1 ELSE Allocated)
      /\ UNCHANGED <<NodeList, archive, lost>> /\ Unmoved
  BY DEF OpenNewFile, setup, packetVars, Unmoved
<1>2. /\ Allocated \in Int /\ Allocated <= MaxNodes /\ NodeList \in Seq(Nodes) /\ leaked \in Nat /\ MaxNodes \in Nat
      /\ CacheOK(Cache) /\ Cardinality(DOMAIN FlowTree) \in Nat /\ Len(NodeList) \in Nat
  BY BooksTypes
<1>3. /\ nffile = <<>> /\ (flow = "open" => node = None) /\ (flow = "reopen" => node # None)
  BY <1>1 DEF Books, Storage
<1>4. /\ InHand = {} /\ InHand' = {} /\ InFiles' = InFiles /\ PacketsOf(nffile)' = PacketsOf(nffile)
      /\ UNCHANGED <<FlowTree, NodeList, uncounted, leaked, lost, archive, nffile>>
  BY <1>1, <1>3 DEF InHand, InFiles, PacketsOf, ToSet, Unmoved
<1>5. Passed' = Passed
  BY <1>4 DEF Passed
<1>6. CacheOK(Cache') /\ InCache(Cache') = InCache(Cache) /\ (Apart(Cache) => Apart(Cache'))
  <2>1. Allocated' \in Int
    BY <1>1, <1>2
  <2>2. Cache' = [tree |-> FlowTree, list |-> NodeList, allocated |-> Allocated', uncounted |-> uncounted]
    BY <1>4 DEF Cache
  <2> QED
    BY <1>2, <2>1, <2>2 DEF CacheOK, InCache, Apart, Cache, IsCache
<1>7. Storage'
  BY <1>1, <1>2, <1>4, <1>6 DEF Books, Storage
<1>8. NodesAccounted'
  BY <1>1, <1>2, <1>3, <1>4 DEF Books, NodesAccounted
<1>9. Counted'
  BY <1>1, <1>4, <1>5, <1>6, UnmovedFacts DEF Books, Counted
<1>10. Ordered'
  <2>1. Upto(InCache(Cache') \cup InHand' \cup PacketsOf(nffile)', t_start)
    BY <1>4, <1>6 DEF Books, Ordered
  <2>2. \A j \in DOMAIN NodeList : Behind(InHand' \cup PacketsOf(nffile)', NodeList[j])
    BY <1>4 DEF Books, Ordered
  <2> QED
    BY <1>1, <1>4, <2>1, <2>2, UnmovedFacts DEF Books, Ordered, Unmoved
<1> QED
  BY <1>7, <1>8, <1>9, <1>10 DEF Books

LEMMA OpenNewFileFailsBooks ==
  ASSUME Threads, Times, Books, OpenNewFileFails
  PROVE  Books'
<1>1. /\ flow \in {"open", "reopen"} /\ flow' = "dead"
      /\ UNCHANGED <<FlowTree, NodeList, uncounted, leaked, Allocated, node, nffile, archive, lost>> /\ Unmoved
  BY DEF OpenNewFileFails, setup, packetVars, cacheVars, Unmoved
<1>2. /\ InHand = {} /\ InHand' = {}
  <2>1. (flow = "open" => node = None) /\ (flow = "reopen" => node.packets = {})
    BY DEF Books, Storage
  <2> QED
    BY <1>1, <2>1 DEF InHand
<1>3. InFiles' = InFiles /\ PacketsOf(nffile)' = PacketsOf(nffile) /\ Cache' = Cache
  BY <1>1 DEF InFiles, PacketsOf, ToSet, Cache
<1>4. Passed' = Passed
  BY <1>1, <1>2, <1>3 DEF Passed
<1>5. Storage'
  BY <1>1, <1>3 DEF Books, Storage
<1>6. NodesAccounted'
  BY <1>1 DEF Books, NodesAccounted
<1>7. Counted'
  BY <1>1, <1>2, <1>3, <1>4, UnmovedFacts DEF Books, Counted
<1>8. Ordered'
  BY <1>1, <1>2, <1>3, UnmovedFacts DEF Books, Ordered, Unmoved
<1> QED
  BY <1>5, <1>6, <1>7, <1>8 DEF Books

LEMMA PopNodeBooks ==
  ASSUME Threads, Times, Books, Pop_Node
  PROVE  Books'
<1>1. /\ flow = "pop" /\ NodeList # <<>> /\ node' = Head(NodeList) /\ NodeList' = Tail(NodeList)
      /\ flow' = Head(NodeList).type
      /\ UNCHANGED <<Allocated, nffile, archive, lost>> /\ Unmoved
  BY DEF Pop_Node, setup, packetVars, Unmoved
<1>2. /\ Allocated \in Int /\ NodeList \in Seq(Nodes) /\ leaked \in Nat
      /\ CacheOK(Cache) /\ Apart(Cache) /\ Cardinality(DOMAIN FlowTree) \in Nat /\ Len(NodeList) \in Nat
      /\ \A i \in DOMAIN NodeList : Listed(NodeList[i])
  BY BooksTypes DEF CacheOK, Cache
<1>3. /\ Head(NodeList) = NodeList[1] /\ Tail(NodeList) \in Seq(Nodes) /\ Len(Tail(NodeList)) = Len(NodeList) - 1
      /\ DOMAIN Tail(NodeList) = 1 .. Len(NodeList) - 1 /\ DOMAIN NodeList = 1 .. Len(NodeList)
      /\ \A i \in 1 .. Len(NodeList) - 1 : Tail(NodeList)[i] = NodeList[i + 1]
      /\ ToSet(NodeList) = {Head(NodeList)} \cup ToSet(Tail(NodeList)) /\ Len(NodeList) \in Nat \ {0}
  BY <1>1, <1>2, SeqHeadTail
<1>4. /\ \A i \in DOMAIN NodeList' : i + 1 \in DOMAIN NodeList /\ 1 < i + 1 /\ NodeList'[i] = NodeList[i + 1]
      /\ 1 \in DOMAIN NodeList /\ node' = NodeList[1] /\ NodeList' \in Seq(Nodes)
  BY <1>1, <1>3
<1>5. Listed(node') /\ node' \in Nodes /\ flow' = node'.type /\ flow' \in {"flow", "sync", "done"} /\ node = None
  <2>1. Listed(node')
    BY <1>2, <1>4
  <2> QED
    BY <1>1, <2>1 DEF Listed, Nodes, Books, Storage
<1>6. node' # None
  BY <1>5, CaptureAssumption
<1>7. /\ InHand = {} /\ InHand' = NodeList[1].packets /\ InFiles' = InFiles /\ PacketsOf(nffile)' = PacketsOf(nffile)
      /\ PacketsOf(NodeList) = NodeList[1].packets \cup PacketsOf(NodeList')
      /\ UNCHANGED <<FlowTree, uncounted, leaked, lost, archive, nffile>>
  <2>1. UNCHANGED <<FlowTree, uncounted, leaked, lost, archive, nffile>>
    BY <1>1 DEF Unmoved
  <2>2. InFiles' = InFiles /\ PacketsOf(nffile)' = PacketsOf(nffile)
    BY <2>1 DEF InFiles, PacketsOf, ToSet
  <2>3. InHand = {} /\ InHand' = NodeList[1].packets
    BY <1>4, <1>5, <1>6 DEF InHand
  <2>4. PacketsOf(NodeList) = NodeList[1].packets \cup PacketsOf(Tail(NodeList))
    BY <1>3 DEF PacketsOf
  <2> QED
    BY <1>1, <2>1, <2>2, <2>3, <2>4
<1>8. Cache' = [tree |-> FlowTree, list |-> NodeList', allocated |-> Allocated, uncounted |-> uncounted]
  BY <1>1, <1>7 DEF Cache
<1>9. CacheOK(Cache') /\ Apart(Cache')
  <2>1. ASSUME NEW i \in DOMAIN NodeList' PROVE Listed(NodeList'[i])
    BY <1>2, <1>4
  <2>2. CacheOK(Cache')
    BY <1>2, <1>4, <1>8, <2>1 DEF CacheOK, Cache, IsCache
  <2>3. ASSUME NEW i \in DOMAIN NodeList', NEW j \in DOMAIN NodeList', i # j
        PROVE  NodeList'[i].packets \cap NodeList'[j].packets = {}
    <3>1. i + 1 # j + 1
      BY <1>1, <1>3, <2>3
    <3> QED
      BY <1>2, <1>4, <3>1 DEF Apart, Cache
  <2>4. Apart(Cache')
    BY <1>2, <1>4, <1>8, <2>3 DEF Apart, Cache
  <2> QED
    BY <2>2, <2>4
<1>10. InCache(Cache) = InCache(Cache') \cup InHand' /\ InCache(Cache') \cap InHand' = {}
  <2>1. PacketsOf(NodeList') \cap NodeList[1].packets = {}
    <3>1. ASSUME NEW i \in DOMAIN NodeList' PROVE NodeList'[i].packets \cap NodeList[1].packets = {}
      <4>1. i + 1 # 1
        BY <1>1, <1>3
      <4> QED
        BY <1>2, <1>4, <4>1 DEF Apart, Cache
    <3> QED
      BY <3>1 DEF PacketsOf, ToSet
  <2>2. PacketsAt(FlowTree, DOMAIN FlowTree) \cap NodeList[1].packets = {}
    BY <1>2, <1>4 DEF Apart, Cache, PacketsAt
  <2>3. uncounted \cap NodeList[1].packets = {}
    BY <1>2, <1>4 DEF Apart, Cache
  <2>4. /\ InCache(Cache') = PacketsAt(FlowTree, DOMAIN FlowTree) \cup PacketsOf(NodeList') \cup uncounted
        /\ InCache(Cache) = PacketsAt(FlowTree, DOMAIN FlowTree) \cup PacketsOf(NodeList) \cup uncounted
    BY <1>8 DEF InCache, Cache
  <2> QED
    BY <1>7, <2>1, <2>2, <2>3, <2>4
<1>11. Storage'
  BY <1>1, <1>5, <1>6, <1>7, <1>9 DEF Books, Storage
<1>12. NodesAccounted'
  <2>1. Len(NodeList') = Len(NodeList) - 1
    BY <1>1, <1>3
  <2>2. Allocated = Cardinality(DOMAIN FlowTree) + Len(NodeList) + 0 + leaked
    BY <1>5 DEF Books, NodesAccounted
  <2>3. Allocated = Cardinality(DOMAIN FlowTree) + (Len(NodeList) - 1) + 1 + leaked
    BY <1>2, <1>3, <2>2
  <2> QED
    BY <1>1, <1>6, <1>7, <2>1, <2>3 DEF NodesAccounted
<1>13. Counted'
  <2>1. /\ Stored(InHand, PacketsOf(nffile), InFiles, lost.flow)
        /\ InCache(Cache) \cap Passed = {}
        /\ Numbers = InCache(Cache) \cup Passed \cup (IF Waiting THEN {Number} ELSE {})
        /\ Waiting => Number \notin InCache(Cache) \cup Passed
    BY DEF Books, Counted
  <2>2. Passed' = Passed \cup InHand'
    BY <1>1, <1>7 DEF Passed
  <2>3. Stored(InHand', PacketsOf(nffile), InFiles, lost.flow)
    BY <1>7, <1>10, <2>1 DEF Stored, Passed
  <2>4. /\ InCache(Cache') \cap Passed' = {}
        /\ Numbers = InCache(Cache') \cup Passed' \cup (IF Waiting THEN {Number} ELSE {})
        /\ Waiting => Number \notin InCache(Cache') \cup Passed'
    BY <1>10, <2>1, <2>2
  <2> QED
    BY <1>1, <1>7, <1>9, <2>3, <2>4, UnmovedFacts DEF Counted
<1>14. Ordered'
  <2>1. Upto(InCache(Cache') \cup InHand' \cup PacketsOf(nffile), t_start)
    <3>1. InCache(Cache') \cup InHand' \cup PacketsOf(nffile) \subseteq InCache(Cache) \cup InHand \cup PacketsOf(nffile)
      BY <1>10
    <3> QED
      BY <3>1 DEF Books, Ordered, Upto
  <2>2. \A i, j \in DOMAIN NodeList' : i < j => Behind(NodeList'[i].packets, NodeList'[j])
    <3>1. ASSUME NEW i \in DOMAIN NodeList', NEW j \in DOMAIN NodeList', i < j
          PROVE  Behind(NodeList'[i].packets, NodeList'[j])
      <4>1. i + 1 < j + 1
        BY <1>1, <1>3, <3>1
      <4> QED
        BY <1>4, <4>1 DEF Books, Ordered
    <3> QED
      BY <3>1
  <2>3. ASSUME NEW j \in DOMAIN NodeList
        PROVE  Behind(PacketsOf(nffile), NodeList[j])
    <3>1. Behind(InHand \cup PacketsOf(nffile), NodeList[j])
      BY DEF Books, Ordered
    <3> QED
      BY <3>1 DEF Behind, Upto
  <2>4. ASSUME NEW j \in DOMAIN NodeList'
        PROVE  Behind(InHand' \cup PacketsOf(nffile), NodeList'[j])
    <3>1. Behind(NodeList[1].packets, NodeList'[j])
      BY <1>4 DEF Books, Ordered
    <3>2. Behind(PacketsOf(nffile), NodeList'[j])
      BY <1>4, <2>3
    <3> QED
      BY <1>7, <3>1, <3>2 DEF Behind, Upto
  <2>5. Behind(PacketsOf(nffile), node')
    BY <1>4, <2>3
  <2>6. \A s \in DOMAIN archive : Upto(PacketsOf(archive[s]), s) \/ (mode = "ring" /\ s < Start)
    BY DEF Books, Ordered
  <2> QED
    BY <1>1, <1>7, <2>1, <2>2, <2>4, <2>5, <2>6, UnmovedFacts DEF Ordered, Unmoved
<1> QED
  BY <1>11, <1>12, <1>13, <1>14 DEF Books

LEMMA StoreFlowBooks ==
  ASSUME Threads, Times, Books, StorePcapFlow
  PROVE  Books'
<1>1. /\ flow = "flow" /\ nffile' = Append(nffile, node) /\ flow' = "pop" /\ node' = None
      /\ Allocated' = Allocated - 1
      /\ UNCHANGED <<NodeList, archive, lost>> /\ Unmoved
  BY DEF StorePcapFlow, setup, packetVars, Unmoved
<1>2. /\ Allocated \in Int /\ Allocated <= MaxNodes /\ NodeList \in Seq(Nodes) /\ leaked \in Nat /\ MaxNodes \in Nat
      /\ CacheOK(Cache) /\ Cardinality(DOMAIN FlowTree) \in Nat /\ Len(NodeList) \in Nat
  BY BooksTypes
<1>3. node # None /\ node \in Nodes /\ nffile \in Seq(Nodes)
  BY <1>1 DEF Books, Storage, Listed
<1>4. nffile' \in Seq(Nodes) /\ ToSet(nffile') = ToSet(nffile) \cup {node}
  BY <1>1, <1>3, SeqAppend
<1>5. /\ InHand = node.packets /\ InHand' = {} /\ InFiles' = InFiles
      /\ PacketsOf(nffile') = PacketsOf(nffile) \cup node.packets
      /\ UNCHANGED <<FlowTree, NodeList, uncounted, leaked, lost, archive>>
  <2>1. UNCHANGED <<FlowTree, NodeList, uncounted, leaked, lost, archive>>
    BY <1>1 DEF Unmoved
  <2>2. InFiles' = InFiles
    BY <2>1 DEF InFiles, PacketsOf, ToSet
  <2>3. InHand = node.packets /\ InHand' = {}
    BY <1>1, <1>3 DEF InHand
  <2>4. PacketsOf(nffile') = PacketsOf(nffile) \cup node.packets
    BY <1>4 DEF PacketsOf
  <2> QED
    BY <2>1, <2>2, <2>3, <2>4
<1>6. CacheOK(Cache') /\ InCache(Cache') = InCache(Cache) /\ (Apart(Cache) => Apart(Cache'))
  <2>1. Allocated' \in Int
    BY <1>1, <1>2
  <2>2. Cache' = [tree |-> FlowTree, list |-> NodeList, allocated |-> Allocated', uncounted |-> uncounted]
    BY <1>5 DEF Cache
  <2> QED
    BY <1>2, <2>1, <2>2 DEF CacheOK, InCache, Apart, Cache, IsCache
<1>7. Storage'
  BY <1>1, <1>2, <1>4, <1>5, <1>6 DEF Books, Storage
<1>8. NodesAccounted'
  BY <1>1, <1>2, <1>3, <1>5 DEF Books, NodesAccounted
<1>9. Counted'
  <2>1. /\ Stored(InHand, PacketsOf(nffile), InFiles, lost.flow)
        /\ InCache(Cache) \cap Passed = {}
        /\ Numbers = InCache(Cache) \cup Passed \cup (IF Waiting THEN {Number} ELSE {})
        /\ Waiting => Number \notin InCache(Cache) \cup Passed
    BY DEF Books, Counted
  <2>2. Passed' = Passed
    BY <1>1, <1>5 DEF Passed
  <2>3. Stored(InHand', PacketsOf(nffile'), InFiles, lost.flow)
    BY <1>5, <2>1 DEF Stored
  <2>4. Apart(Cache')
    BY <1>6 DEF Books, Counted
  <2> QED
    BY <1>5, <1>6, <1>1, <2>1, <2>2, <2>3, <2>4, UnmovedFacts DEF Counted
<1>10. Ordered'
  <2>1. Upto(InCache(Cache') \cup InHand' \cup PacketsOf(nffile'), t_start)
    <3>1. InCache(Cache') \cup InHand' \cup PacketsOf(nffile') = InCache(Cache) \cup InHand \cup PacketsOf(nffile)
      BY <1>5, <1>6
    <3> QED
      BY <3>1 DEF Books, Ordered
  <2>2. \A j \in DOMAIN NodeList : Behind(InHand' \cup PacketsOf(nffile'), NodeList[j])
    <3>1. InHand' \cup PacketsOf(nffile') = InHand \cup PacketsOf(nffile)
      BY <1>5
    <3> QED
      BY <3>1 DEF Books, Ordered
  <2>3. \A i, j \in DOMAIN NodeList : i < j => Behind(NodeList[i].packets, NodeList[j])
    BY DEF Books, Ordered
  <2>4. \A s \in DOMAIN archive : Upto(PacketsOf(archive[s]), s) \/ (mode = "ring" /\ s < Start)
    BY DEF Books, Ordered
  <2> QED
    BY <1>1, <1>5, <2>1, <2>2, <2>3, <2>4, UnmovedFacts DEF Ordered, Unmoved
<1> QED
  BY <1>7, <1>8, <1>9, <1>10 DEF Books

LEMMA CloseFlowFileBooks ==
  ASSUME Threads, Times, Books, CloseFlowFile
  PROVE  Books'
<1> DEFINE s == node.t_first
           file == IF s \in DOMAIN archive THEN archive[s] \o nffile ELSE nffile
<1>1. /\ flow \in {"sync", "done"} /\ nffile' = <<>> /\ flow' \in {"reopen", "exited"}
      /\ \/ archive' = Put(archive, s, file) /\ lost' = lost
         \/ lost' = [lost EXCEPT !.flow = @ \cup PacketsOf(nffile)] /\ archive' = archive
      /\ UNCHANGED <<Allocated, NodeList, node>> /\ Unmoved
  BY DEF CloseFlowFile, setup, packetVars, cacheVars, Unmoved
<1>2. /\ node # None /\ node \in Nodes /\ node.type \in {"sync", "done"} /\ node.packets = {} /\ nffile \in Seq(Nodes)
      /\ archive = [x \in DOMAIN archive |-> archive[x]] /\ DOMAIN archive \subseteq Nat
      /\ (\A x \in DOMAIN archive : archive[x] \in Seq(Nodes))
      /\ lost = [pcap |-> lost.pcap, flow |-> lost.flow]
  BY <1>1 DEF Books, Storage, Listed
<1>3. s \in Nat
  BY <1>2 DEF Nodes
<1>4. /\ file \in Seq(Nodes)
      /\ PacketsOf(file) = PacketsOf(nffile) \cup (IF s \in DOMAIN archive THEN PacketsOf(archive[s]) ELSE {})
  <2> HIDE DEF s
  <2>1. CASE s \in DOMAIN archive
    <3>1. archive[s] \in Seq(Nodes) /\ file = archive[s] \o nffile
      BY <1>2, <2>1
    <3>2. archive[s] \o nffile \in Seq(Nodes) /\ ToSet(archive[s] \o nffile) = ToSet(archive[s]) \cup ToSet(nffile)
      BY <1>2, <3>1, SeqConcat
    <3> QED
      BY <2>1, <3>1, <3>2 DEF PacketsOf
  <2>2. CASE s \notin DOMAIN archive
    BY <1>2, <2>2
  <2> QED
    BY <2>1, <2>2
<1>5. Upto(PacketsOf(nffile), s) \/ (mode = "ring" /\ s < Start)
  BY <1>1, <1>2 DEF Books, Ordered, Behind
<1>6. s = node.t_first
  OBVIOUS
<1> HIDE DEF s, file
<1>7. /\ InHand = {} /\ InHand' = {} /\ PacketsOf(nffile)' = {} /\ Cache' = Cache
      /\ UNCHANGED <<FlowTree, NodeList, uncounted, leaked, Allocated, node>>
  <2>1. UNCHANGED <<FlowTree, NodeList, uncounted, leaked, Allocated, node>>
    BY <1>1 DEF Unmoved
  <2>2. InHand = {} /\ InHand' = {}
    BY <1>1, <1>2 DEF InHand
  <2>3. PacketsOf(nffile)' = {}
    BY <1>1 DEF PacketsOf, ToSet
  <2> QED
    BY <2>1, <2>2, <2>3 DEF Cache
<1>8. /\ archive' = [x \in DOMAIN archive' |-> archive'[x]] /\ DOMAIN archive' \subseteq Nat
      /\ \A x \in DOMAIN archive' : archive'[x] \in Seq(Nodes)
      /\ lost' = [pcap |-> lost'.pcap, flow |-> lost'.flow]
      /\ \A x \in DOMAIN archive' : Upto(PacketsOf(archive'[x]), x) \/ (mode = "ring" /\ x < Start)
      /\ InFiles' \cup lost'.flow = InFiles \cup lost.flow \cup PacketsOf(nffile)
      /\ InFiles' \cap lost'.flow = {}
  <2>0. /\ \A x \in DOMAIN archive : Upto(PacketsOf(archive[x]), x) \/ (mode = "ring" /\ x < Start)
        /\ PacketsOf(nffile) \cap (InFiles \cup lost.flow) = {} /\ InFiles \cap lost.flow = {}
    BY DEF Books, Ordered, Counted, Stored
  <2>1. CASE archive' = Put(archive, s, file) /\ lost' = lost
    <3>1. /\ DOMAIN archive' = DOMAIN archive \cup {s} /\ archive' = [x \in DOMAIN archive' |-> archive'[x]]
          /\ archive'[s] = file /\ \A x \in DOMAIN archive : x # s => archive'[x] = archive[x]
      BY <2>1 DEF Put
    <3>2. \A x \in DOMAIN archive' : archive'[x] \in Seq(Nodes)
      BY <1>2, <1>4, <3>1
    <3>3. ASSUME NEW x \in DOMAIN archive' PROVE Upto(PacketsOf(archive'[x]), x) \/ (mode = "ring" /\ x < Start)
      <4>1. CASE x = s
        BY <1>4, <1>5, <2>0, <3>1, <4>1 DEF Upto
      <4>2. CASE x # s
        BY <2>0, <3>1, <4>2
      <4> QED
        BY <4>1, <4>2
    <3>4. InFiles' = InFiles \cup PacketsOf(nffile)
      <4>1. InFiles' = UNION {PacketsOf(archive'[x]) : x \in DOMAIN archive'}
        BY DEF InFiles, PacketsOf, ToSet
      <4>2. ASSUME NEW x \in DOMAIN archive' PROVE PacketsOf(archive'[x]) \subseteq InFiles \cup PacketsOf(nffile)
        <5>1. CASE x = s
          BY <1>4, <3>1, <5>1 DEF InFiles
        <5>2. CASE x # s
          BY <3>1, <5>2 DEF InFiles
        <5> QED
          BY <5>1, <5>2
      <4>3. ASSUME NEW x \in DOMAIN archive PROVE PacketsOf(archive[x]) \subseteq InFiles'
        <5>1. PacketsOf(archive[x]) \subseteq PacketsOf(archive'[x]) /\ x \in DOMAIN archive'
          BY <1>4, <3>1
        <5> QED
          BY <4>1, <5>1
      <4>4. PacketsOf(nffile) \subseteq InFiles'
        BY <1>4, <3>1, <4>1
      <4>5. InFiles \subseteq InFiles'
        BY <4>3 DEF InFiles
      <4>6. InFiles' \subseteq InFiles \cup PacketsOf(nffile)
        BY <4>1, <4>2
      <4> QED
        BY <4>4, <4>5, <4>6
    <3> QED
      BY <1>2, <1>3, <2>0, <2>1, <3>1, <3>2, <3>3, <3>4
  <2>2. CASE lost' = [lost EXCEPT !.flow = @ \cup PacketsOf(nffile)] /\ archive' = archive
    <3>1. lost' = [pcap |-> lost.pcap, flow |-> lost.flow \cup PacketsOf(nffile)]
      BY <1>2, <2>2
    <3>2. InFiles' = InFiles
      BY <2>2 DEF InFiles, PacketsOf, ToSet
    <3> QED
      BY <1>2, <2>0, <2>2, <3>1, <3>2
  <2> QED
    BY <1>1, <2>1, <2>2
<1>9. Passed' = Passed
  BY <1>7, <1>8 DEF Passed
<1>10. Storage'
  <2>1. nffile' \in Seq(Nodes)
    BY <1>1
  <2> QED
    BY <1>1, <1>2, <1>7, <1>8, <2>1 DEF Books, Storage
<1>11. NodesAccounted'
  BY <1>7 DEF Books, NodesAccounted
<1>12. Counted'
  <2>1. Stored(InHand', PacketsOf(nffile)', InFiles', lost'.flow)
    BY <1>7, <1>8 DEF Stored
  <2>2. /\ Apart(Cache) /\ InCache(Cache) \cap Passed = {}
        /\ Numbers = InCache(Cache) \cup Passed \cup (IF Waiting THEN {Number} ELSE {})
        /\ Waiting => Number \notin InCache(Cache) \cup Passed
    BY DEF Books, Counted
  <2>3. (Waiting' <=> Waiting) /\ Number' = Number /\ Numbers' = Numbers
    BY <1>1, UnmovedFacts
  <2> QED
    BY <1>7, <1>9, <2>1, <2>2, <2>3 DEF Counted
<1>13. Ordered'
  <2>1. Upto(InCache(Cache) \cup {} \cup {}, t_start)
    BY DEF Books, Ordered, Upto
  <2>2. \A j \in DOMAIN NodeList : Behind({} \cup {}, NodeList[j])
    BY DEF Behind, Upto
  <2>3. \A i, j \in DOMAIN NodeList : i < j => Behind(NodeList[i].packets, NodeList[j])
    BY DEF Books, Ordered
  <2>4. t_start' = t_start /\ mode' = mode /\ flow' \notin {"sync", "done"}
    BY <1>1 DEF Unmoved
  <2>5. \A x : PacketsOf(archive[x])' = PacketsOf(archive'[x])
    BY DEF PacketsOf, ToSet
  <2> QED
    BY <1>1, <1>7, <1>8, <2>1, <2>2, <2>3, <2>4, <2>5, UnmovedFacts DEF Ordered
<1> QED
  BY <1>10, <1>11, <1>12, <1>13 DEF Books
-------------------------------------------------------------------------------
(* All steps                                                               *)

LEMMA StillBooks ==
  ASSUME Threads, Times, Books,
         Moves \/ FlushThread \/ WaitDone \/ SignalPacketThread \/ JoinThreads \/ JoinFlowThread
           \/ Terminate \/ UNCHANGED vars
  PROVE  Books'
<1>1. lost = [pcap |-> lost.pcap, flow |-> lost.flow]
  BY DEF Books, Storage
<1>2. CASE Moves
  <2>1. UNCHANGED <<cacheVars, flowVars, lost>>
    BY <1>2 DEF Moves, FirstBuffer, IdleAfterSlot, RotateDump, Refill, PcapDump, BufferFull, SwapBuffer, Finish,
       EndOfCapture
  <2>2. (Waiting' <=> Waiting) /\ (Waiting => Number' = Number) /\ UNCHANGED <<mode, dueIn, t_start>>
    BY <1>2, MovesThreads
  <2> QED
    BY <1>1, <2>1, <2>2, BooksKept
<1>3. CASE FlushThread
  <2>1. UNCHANGED <<cacheVars, flowVars>>
    BY <1>3 DEF FlushThread, FlushPop, FlushEnd, OpenDumpFile, OpenDumpFileFails, WriteBuffer, WriteBufferFails,
       ReturnBuffer, CloseDumpFile, ClearTimeStamp
  <2>2. lost' = lost \/ \E P : lost' = [lost EXCEPT !.pcap = @ \cup P]
    BY <1>3 DEF FlushThread, FlushPop, FlushEnd, OpenDumpFile, OpenDumpFileFails, WriteBuffer, WriteBufferFails,
       ReturnBuffer, CloseDumpFile, ClearTimeStamp
  <2>3. lost' = [pcap |-> lost'.pcap, flow |-> lost.flow]
    BY <1>1, <2>2
  <2>4. (Waiting' <=> Waiting) /\ Number' = Number /\ UNCHANGED <<mode, dueIn, t_start>>
    BY <1>3, OthersThreads
  <2> QED
    BY <2>1, <2>3, <2>4, BooksKept
<1>4. CASE WaitDone \/ SignalPacketThread \/ JoinThreads \/ JoinFlowThread \/ Terminate \/ UNCHANGED vars
  <2>1. UNCHANGED <<cacheVars, flowVars, lost>>
    BY <1>4 DEF WaitDone, SignalPacketThread, JoinThreads, JoinFlowThread, Terminate, vars
  <2>2. (Waiting' <=> Waiting) /\ Number' = Number /\ UNCHANGED <<mode, dueIn, t_start>>
    BY <1>4, OthersThreads DEF MainThread
  <2> QED
    BY <1>1, <2>1, <2>2, BooksKept
<1> QED
  BY <1>2, <1>3, <1>4

LEMMA InductiveStep ==
  ASSUME Inductive, [Next]_vars
  PROVE  Inductive'
<1>1. Threads /\ Times /\ Pool /\ Books
  BY DEF Inductive, Books
<1>2. ASSUME Threads', Times', Pool', Books'
      PROVE  Inductive'
  BY <1>2 DEF Inductive, Books
<1>3. CASE Moves
  BY <1>1, <1>2, <1>3, MovesThreads, MovesPool, StillBooks
<1>4. CASE NextPacket
  BY <1>1, <1>2, <1>4, NextPacketThreads, OtherPool, NextPacketBooks
<1>5. CASE IdleInSlot
  BY <1>1, <1>2, <1>5, IdleInSlotThreads, OtherPool, IdleInSlotBooks
<1>6. CASE SyncFlows
  BY <1>1, <1>2, <1>6, SyncFlowsThreads, OtherPool, SyncFlowsBooks
<1>7. CASE Process
  BY <1>1, <1>2, <1>7, ProcessThreads, OtherPool, ProcessBooks
<1>8. CASE FlushThread
  BY <1>1, <1>2, <1>8, OthersThreads, FlushThreadPool, StillBooks
<1>9. CASE FlowThread
  <2>1. Books'
    BY <1>1, <1>9, OpenNewFileBooks, OpenNewFileFailsBooks, PopNodeBooks, StoreFlowBooks, CloseFlowFileBooks
       DEF FlowThread
  <2> QED
    BY <1>1, <1>2, <1>9, <2>1, OthersThreads, OtherPool
<1>10. CASE MainThread
  <2>1. Books'
    BY <1>1, <1>10, FlushTreeBooks, SignalFlowThreadBooks, StillBooks DEF MainThread
  <2> QED
    BY <1>1, <1>2, <1>10, <2>1, OthersThreads, OtherPool
<1>11. CASE Terminate \/ UNCHANGED vars
  BY <1>1, <1>2, <1>11, OthersThreads, OtherPool, StillBooks
<1> QED
  BY <1>3, <1>4, <1>5, <1>6, <1>7, <1>8, <1>9, <1>10, <1>11 DEF Next, PacketThread, Moves

LEMMA InductiveInit ==
  ASSUME Init
  PROVE  Inductive
<1>1. PICK s \in Setups :
        /\ mode = s.mode /\ dump = s.dump /\ stream = s.packets
        /\ pcaps = (IF s.again THEN [t \in {Start} |-> <<>>] ELSE <<>>) /\ archive = pcaps
  BY DEF Init
<1>2. s.mode \in Modes /\ s.dump \in BOOLEAN /\ s.packets \in Seq(Traffic)
  BY CaptureAssumption
<1>3. /\ dueIn = <<>> /\ now = Start /\ packet = "start" /\ t_start = Start /\ t_win = Twin
      /\ current = None /\ packetBuffer = None
      /\ bufferQueue = SetToSeq(Buffers) /\ flushQueue = <<>>
      /\ content = [b \in Buffers |-> <<>>] /\ timeStamp = [b \in Buffers |-> 0]
      /\ flush = (IF dump THEN "pop" ELSE "exited")
      /\ FlowTree = <<>> /\ NodeList = <<>> /\ Allocated = 0
      /\ flow = "open" /\ node = None /\ nffile = <<>>
      /\ main = "wait" /\ lost = [pcap |-> {}, flow |-> {}]
      /\ uncounted = {} /\ leaked = 0 /\ dropped = {}
  BY DEF Init
<1>4. Start \in Nat /\ Slot(Start) = Start /\ Twin \in Nat \ {0} /\ MaxNodes \in Nat /\ BufferSize \in Nat
      /\ IsFiniteSet(Buffers)
  BY StartFacts, CaptureAssumption
<1>5. Threads
  BY <1>1, <1>2, <1>3, <1>4 DEF Threads
<1>6. Times
  BY <1>3, <1>4 DEF Times, Waiting
<1>7. Pool
  <2>1. /\ bufferQueue \in Seq(Buffers) /\ NoRepeats(bufferQueue) /\ ToSet(bufferQueue) = Buffers
    BY <1>3, <1>4, SetToSeqFacts
  <2>2. /\ flushQueue \in Seq(Buffers) /\ NoRepeats(flushQueue) /\ ToSet(flushQueue) = {} /\ Held = {} /\ Taken = {}
    BY <1>3 DEF NoRepeats, ToSet, Held, Taken
  <2>3. content \in [Buffers -> Seq(Nat)] /\ timeStamp \in [Buffers -> Nat] /\ \A b \in Buffers : content[b] = <<>>
    BY <1>3
  <2>4. \A b \in Buffers : Len(content[b]) <= BufferSize
    BY <1>4, <2>3
  <2>5. PoolTypes
    BY <1>3, <2>1, <2>2, <2>3, <2>4 DEF PoolTypes, HasBuffer
  <2> QED
    BY <1>3, <2>1, <2>2, <2>3, <2>5 DEF Pool, Split
<1>8. /\ archive = [x \in DOMAIN archive |-> archive[x]] /\ DOMAIN archive \subseteq {Start}
      /\ \A x \in DOMAIN archive : archive[x] = <<>>
  <2>1. CASE s.again
    BY <1>1, <2>1
  <2>2. CASE ~s.again
    BY <1>1, <2>2
  <2> QED
    BY <2>1, <2>2
<1>9. PacketsOf(<<>>) = {}
  BY DEF PacketsOf, ToSet
<1>10. InHand = {} /\ InFiles = {} /\ Numbers = {} /\ ~Waiting /\ PacketsOf(nffile) = {}
  BY <1>3, <1>8, <1>9 DEF InHand, InFiles, Numbers, Waiting
<1>11. Cache = [tree |-> <<>>, list |-> <<>>, allocated |-> 0, uncounted |-> {}]
  BY <1>3 DEF Cache
<1>12. CacheOK(Cache) /\ Apart(Cache) /\ InCache(Cache) = {}
  <2>1. /\ Cache.tree = <<>> /\ Cache.list = <<>> /\ Cache.allocated = 0 /\ Cache.uncounted = {} /\ IsCache(Cache)
    BY <1>11 DEF IsCache
  <2>2. DOMAIN <<>> = {} /\ IsFiniteSet({}) /\ <<>> = [k \in DOMAIN <<>> |-> <<>>[k]] /\ <<>> \in Seq(Nodes)
    BY FS_EmptySet
  <2> QED
    BY <1>9, <2>1, <2>2 DEF CacheOK, TreeOK, Apart, InCache, PacketsAt
<1>13. Storage
  <2>1. nffile \in Seq(Nodes) /\ \A x \in DOMAIN archive : archive[x] \in Seq(Nodes)
    <3>1. <<>> \in Seq(Nodes)
      OBVIOUS
    <3> QED
      BY <1>3, <1>8, <3>1, Zenon
  <2> QED
    BY <1>3, <1>4, <1>8, <1>12, <2>1 DEF Storage
<1>14. NodesAccounted
  <2>1. Cardinality(DOMAIN <<>>) = 0
    BY FS_EmptySet
  <2> QED
    BY <1>3, <2>1 DEF NodesAccounted
<1>15. Counted
  BY <1>3, <1>10, <1>12 DEF Counted, Stored, Passed
<1>16. Ordered
  <2>1. \A x : Upto({}, x)
    BY DEF Upto
  <2>2. \A x \in DOMAIN archive : PacketsOf(archive[x]) = {}
    BY <1>8, <1>9
  <2>3. InCache(Cache) \cup InHand \cup PacketsOf(nffile) = {} /\ DOMAIN NodeList = {} /\ flow = "open"
    BY <1>3, <1>10, <1>12
  <2>4. Upto(InCache(Cache) \cup InHand \cup PacketsOf(nffile), t_start)
    BY <2>1, <2>3, Zenon
  <2>5. \A x \in DOMAIN archive : Upto(PacketsOf(archive[x]), x)
    BY <2>1, <2>2, Zenon
  <2> QED
    BY <2>3, <2>4, <2>5 DEF Ordered
<1> QED
  BY <1>5, <1>6, <1>7, <1>13, <1>14, <1>15, <1>16 DEF Inductive

(* The bookkeeping of the buffers, the nodes and the packets holds in every *)
(* reachable state: every thread's step preserves it (packet_thread,       *)
(* flush_thread, flow thread, main loop).                                  *)
THEOREM CaptureInductive == Spec => []Inductive
<1>1. Init => Inductive
  BY InductiveInit
<1>2. Inductive /\ [Next]_vars => Inductive'
  BY InductiveStep
<1> QED
  BY <1>1, <1>2, PTL DEF Spec
-------------------------------------------------------------------------------
(* What the runs check                                                     *)

LEMMA InductiveTypes ==
  ASSUME Inductive
  PROVE  TypeOK
<1>1. /\ NodeList \in Seq(Nodes) /\ Allocated \in Int /\ Allocated <= MaxNodes /\ leaked \in Nat
      /\ Cardinality(DOMAIN FlowTree) \in Nat /\ Len(NodeList) \in Nat /\ CacheOK(Cache) /\ MaxNodes \in Nat
  BY BooksTypes DEF Inductive, Books
<1>2. Allocated \in 0 .. MaxNodes
  <2>1. Allocated = Cardinality(DOMAIN FlowTree) + Len(NodeList) + (IF node = None THEN 0 ELSE 1) + leaked
    BY DEF Inductive, NodesAccounted
  <2> QED
    BY <1>1, <2>1
<1>3. DOMAIN FlowTree \subseteq {FlowKey(k) : k \in Keys} \cup {FragKey(k) : k \in Keys}
  BY <1>1 DEF CacheOK, TreeOK, Cache, TreeKeys
<1> QED
  BY <1>2, <1>3 DEF TypeOK, Inductive, Threads, Pool, PoolTypes, Storage

LEMMA InductiveBuffers ==
  ASSUME Inductive
  PROVE  BuffersAccounted
<1> DEFINE held == IF packetBuffer # None THEN {packetBuffer} ELSE {}
           taken == IF flush \in {"open", "write", "dead"} THEN {flushed.buffer} ELSE {}
           places == <<ToSet(bufferQueue), ToSet(flushQueue), held, taken, dropped>>
<1>1. /\ held = Held /\ taken = Taken
  BY DEF Held, Taken
<1>2. /\ Split(ToSet(bufferQueue), ToSet(flushQueue), held, taken, dropped)
      /\ bufferQueue \in Seq(Buffers) /\ flushQueue \in Seq(Buffers)
      /\ NoRepeats(bufferQueue) /\ NoRepeats(flushQueue)
      /\ \A b \in ToSet(bufferQueue) : content[b] = <<>>
  BY <1>1 DEF Inductive, Pool, PoolTypes
<1>3. Len(bufferQueue) = Cardinality(ToSet(bufferQueue)) /\ Len(flushQueue) = Cardinality(ToSet(flushQueue))
  BY <1>2, NoRepeatsLen
<1> DEFINE free == ToSet(bufferQueue)
           queued == ToSet(flushQueue)
<1>4. places = <<free, queued, held, taken, dropped>> /\ Split(free, queued, held, taken, dropped)
  BY <1>2
<1> HIDE DEF held, taken, free, queued, places
<1>5. /\ DOMAIN places = 1 .. 5 /\ places[1] = free /\ places[2] = queued /\ places[3] = held
      /\ places[4] = taken /\ places[5] = dropped
  BY <1>4
<1>6. \A i, j \in DOMAIN places : i # j => places[i] \cap places[j] = {}
  <2>1. ASSUME NEW i \in 1 .. 5, NEW j \in 1 .. 5, i < j PROVE places[i] \cap places[j] = {}
    <3>1. /\ free \cap queued = {} /\ free \cap held = {} /\ free \cap taken = {} /\ free \cap dropped = {}
          /\ queued \cap held = {} /\ queued \cap taken = {} /\ queued \cap dropped = {}
          /\ held \cap taken = {} /\ held \cap dropped = {} /\ taken \cap dropped = {}
      BY <1>4 DEF Split
    <3>2. i \in {1, 2, 3, 4} /\ j \in {2, 3, 4, 5}
      BY <2>1
    <3>3. CASE i = 1
      BY <1>5, <2>1, <3>1, <3>2, <3>3
    <3>4. CASE i = 2
      BY <1>5, <2>1, <3>1, <3>2, <3>4
    <3>5. CASE i = 3
      BY <1>5, <2>1, <3>1, <3>2, <3>5
    <3>6. CASE i = 4
      BY <1>5, <2>1, <3>1, <3>2, <3>6
    <3> QED
      BY <3>2, <3>3, <3>4, <3>5, <3>6
  <2>2. ASSUME NEW i \in 1 .. 5, NEW j \in 1 .. 5, i # j PROVE places[i] \cap places[j] = {}
    <3>1. i < j \/ j < i
      BY <2>2
    <3> QED
      BY <2>1, <3>1
  <2> QED
    BY <1>5, <2>2
<1>7. UNION ToSet(places) = Buffers
  <2>1. ToSet(places) = {places[1], places[2], places[3], places[4], places[5]}
    BY <1>5 DEF ToSet
  <2> QED
    BY <1>4, <1>5, <2>1 DEF Split
<1>8. Len(bufferQueue) = Cardinality(places[1]) /\ Len(flushQueue) = Cardinality(places[2])
  BY <1>3, <1>5 DEF free, queued
<1>9. \A b \in places[1] : content[b] = <<>>
  BY <1>2, <1>5 DEF free
<1>10. places = <<ToSet(bufferQueue), ToSet(flushQueue), held, taken, dropped>>
  BY <1>4 DEF free, queued
<1> QED
  BY <1>6, <1>7, <1>8, <1>9, <1>10 DEF BuffersAccounted, held, taken, places

LEMMA InductiveCounted ==
  ASSUME Inductive
  PROVE  PacketsCounted
<1> DEFINE a == InTree  b == PacketsOf(NodeList)  c == InHand  d == PacketsOf(nffile)
           e == InFiles  f == lost.flow  g == uncounted
           places == <<a, b, c, d, e, f, g>>
<1>1. /\ a \cap b = {} /\ a \cap g = {} /\ b \cap g = {}
  <2>1. Apart(Cache) /\ Cache.tree = FlowTree /\ Cache.list = NodeList /\ Cache.uncounted = uncounted
    BY DEF Inductive, Counted, Cache
  <2> QED
    BY <2>1 DEF Apart, InTree, PacketsOf, ToSet
<1>2. InCache(Cache) = a \cup b \cup g /\ Passed = c \cup d \cup e \cup f
  BY DEF InCache, Cache, PacketsAt, InTree, Passed
<1>3. /\ Stored(c, d, e, f) /\ InCache(Cache) \cap Passed = {}
      /\ Numbers = InCache(Cache) \cup Passed \cup (IF Waiting THEN {Number} ELSE {})
  BY DEF Inductive, Counted
<1>4. places = <<a, b, c, d, e, f, g>>
  OBVIOUS
<1> HIDE DEF a, b, c, d, e, f, g, places
<1>5. /\ DOMAIN places = 1 .. 7 /\ places[1] = a /\ places[2] = b /\ places[3] = c
      /\ places[4] = d /\ places[5] = e /\ places[6] = f /\ places[7] = g
  BY <1>4
<1>6. /\ a \cap b = {} /\ a \cap c = {} /\ a \cap d = {} /\ a \cap e = {} /\ a \cap f = {} /\ a \cap g = {}
      /\ b \cap c = {} /\ b \cap d = {} /\ b \cap e = {} /\ b \cap f = {} /\ b \cap g = {}
      /\ c \cap d = {} /\ c \cap e = {} /\ c \cap f = {} /\ c \cap g = {}
      /\ d \cap e = {} /\ d \cap f = {} /\ d \cap g = {}
      /\ e \cap f = {} /\ e \cap g = {} /\ f \cap g = {}
  BY <1>1, <1>2, <1>3 DEF Stored
<1>7. ASSUME NEW i \in 1 .. 7, NEW j \in 1 .. 7, i < j PROVE places[i] \cap places[j] = {}
  <2>1. i \in {1, 2, 3, 4, 5, 6} /\ j \in {2, 3, 4, 5, 6, 7}
    BY <1>7
  <2>2. CASE i = 1
    BY <1>5, <1>6, <1>7, <2>1, <2>2
  <2>3. CASE i = 2
    BY <1>5, <1>6, <1>7, <2>1, <2>3
  <2>4. CASE i = 3
    BY <1>5, <1>6, <1>7, <2>1, <2>4
  <2>5. CASE i = 4
    BY <1>5, <1>6, <1>7, <2>1, <2>5
  <2>6. CASE i = 5
    BY <1>5, <1>6, <1>7, <2>1, <2>6
  <2>7. CASE i = 6
    BY <1>5, <1>6, <1>7, <2>1, <2>7
  <2> QED
    BY <2>1, <2>2, <2>3, <2>4, <2>5, <2>6, <2>7
<1>8. \A i, j \in DOMAIN places : i # j => places[i] \cap places[j] = {}
  <2>1. ASSUME NEW i \in 1 .. 7, NEW j \in 1 .. 7, i # j PROVE places[i] \cap places[j] = {}
    <3>1. i < j \/ j < i
      BY <2>1
    <3> QED
      BY <1>7, <3>1
  <2> QED
    BY <1>5, <2>1
<1>9. UNION ToSet(places) = a \cup b \cup c \cup d \cup e \cup f \cup g
  <2>1. ToSet(places) = {places[1], places[2], places[3], places[4], places[5], places[6], places[7]}
    BY <1>5 DEF ToSet
  <2> QED
    BY <1>5, <2>1
<1>10. Numbers = (UNION ToSet(places)) \cup (IF packet \in {"rotate", "refill", "sync", "process"} /\ current # None
                                             THEN {Number} ELSE {})
  <2> DEFINE w == IF Waiting THEN {Number} ELSE {}
  <2>1. Numbers = (a \cup b \cup g) \cup (c \cup d \cup e \cup f) \cup w
    BY <1>2, <1>3, Zenon
  <2>2. w = IF packet \in {"rotate", "refill", "sync", "process"} /\ current # None THEN {Number} ELSE {}
    BY Zenon DEF Waiting
  <2> HIDE DEF w
  <2>3. Numbers = (UNION ToSet(places)) \cup w
    BY <1>9, <2>1
  <2> QED
    BY <2>2, <2>3, Zenon
<1>11. ASSUME NEW s \in DOMAIN archive, NEW n \in PacketsOf(archive[s])
       PROVE  dueIn[n] <= s \/ (mode = "ring" /\ s < Start)
  BY DEF Inductive, Ordered, Upto
<1>12. places = <<InTree, PacketsOf(NodeList), InHand, PacketsOf(nffile), InFiles, lost.flow, uncounted>>
  BY <1>4 DEF a, b, c, d, e, f, g
<1> QED
  BY <1>8, <1>10, <1>11, <1>12, Zenon DEF PacketsCounted

(* The locations of the threads are known, no buffer is over-full, no more *)
(* nodes are in use than there may be, each buffer is in one place and     *)
(* those to take are empty, and each node in use is in the tree, on the    *)
(* list, with the flow thread, or was forgotten in a tunnel (packet_thread,*)
(* flush_thread, flowtree.c).                                              *)
THEOREM CaptureAccounts == Spec => []IInv
<1>1. Inductive => IInv
  BY InductiveTypes, InductiveBuffers DEF IInv, Inductive
<1> QED
  BY <1>1, CaptureInductive, PTL

(* Every packet is counted by one flow or by none, on its way from the     *)
(* cache to the files, and no file of a slot has packets of a later one    *)
(* (ProcessPacket, Push_SyncNode, CloseFlowFile).                          *)
THEOREM CaptureCounts == Spec => []PacketsCounted
<1>1. Inductive => PacketsCounted
  BY InductiveCounted
<1> QED
  BY <1>1, CaptureInductive, PTL
-------------------------------------------------------------------------------
(* The dump.  Packets are in line, in the order in which they came: in the *)
(* pcap files, the dump file, the buffer the flush thread has, those in    *)
(* the queue, the buffer of the packet thread, and its hand.               *)

AtFlush == IF flush \in {"open", "write", "dead"} THEN content[flushed.buffer] ELSE <<>>
Queued  == [i \in DOMAIN flushQueue |-> ToSet(content[flushQueue[i]])]
Filling == IF packetBuffer = None THEN <<>> ELSE content[packetBuffer]
ToStore == IF Waiting \/ packet \in {"store", "swap"} THEN {Number} ELSE {}
InPcaps == UNION {ToSet(pcaps[s]) : s \in DOMAIN pcaps}

Ascending(s) == \A i, j \in DOMAIN s : i < j => s[i] < s[j]
Before(A, B) == \A m \in A, n \in B : m < n

InLine(p, d, t, q, h, x) ==
    /\ Before(p, d) /\ Before(p, t) /\ Before(p, h) /\ Before(p, x)
    /\ Before(d, t) /\ Before(d, h) /\ Before(d, x)
    /\ Before(t, h) /\ Before(t, x) /\ Before(h, x)
    /\ \A i \in DOMAIN q :
         /\ Before(p, q[i]) /\ Before(d, q[i]) /\ Before(t, q[i])
         /\ Before(q[i], h) /\ Before(q[i], x)
    /\ \A i, j \in DOMAIN q : i < j => Before(q[i], q[j])

Present(p, d, t, q, h) == p \cup d \cup t \cup h \cup UNION {q[i] : i \in DOMAIN q}
InPlace == Present(InPcaps, ToSet(pcap_dumpfile), ToSet(AtFlush), Queued, ToSet(Filling))

DumpTypes ==
    /\ pd \in BOOLEAN /\ pcap_dumpfile \in Seq(Nat)
    /\ \A s \in DOMAIN pcaps : pcaps[s] \in Seq(Nat)
    /\ flush = "write" => pd
    /\ flush = "close" => flushed.timeStamp # 0
    /\ ~dump => flush = "exited" /\ ~pd /\ flushQueue = <<>>

Line ==
    /\ InLine(InPcaps, ToSet(pcap_dumpfile), ToSet(AtFlush), Queued, ToSet(Filling), ToStore)
    /\ Ascending(pcap_dumpfile) /\ \A b \in Buffers : Ascending(content[b])
    /\ \A s \in DOMAIN pcaps : Ascending(pcaps[s])
    /\ \A s, u \in DOMAIN pcaps : s # u => ToSet(pcaps[s]) \cap ToSet(pcaps[u]) = {}

(* No packet is lost and there, and each is somewhere.                     *)
Gathered ==
    /\ lost.pcap \cap (InPlace \cup ToStore) = {}
    /\ InPlace \cup lost.pcap \cup ToStore \subseteq Numbers
    /\ dump => Numbers \subseteq InPlace \cup lost.pcap \cup ToStore \cup duplicates

(* The marks: the slots to close after the flush thread's buffer and after *)
(* those in the queue.  A packet is of the current slot, the mark of its   *)
(* slot is behind it, or was taken off: of c for the packets of F, and of  *)
(* m for those of q; h are the last packets.                               *)
Marks   == [i \in DOMAIN flushQueue |-> timeStamp[flushQueue[i]]]
Closing == IF flush \in {"open", "write", "close"} THEN flushed.timeStamp ELSE 0
ToClose == (IF pd THEN ToSet(pcap_dumpfile) ELSE {})
           \cup (IF flush \in {"open", "write"} THEN ToSet(content[flushed.buffer]) ELSE {})
SlotOf  == [n \in Numbers |-> dueIn[n]]
Current == IF packet \in {"refill", "sync", "exited"} THEN {} ELSE {t_start}

MarksRise(c, q, m, t, open) ==
    /\ t \in Nat \ {0} /\ open \subseteq {t}
    /\ c \in Nat /\ c <= t /\ c \notin open
    /\ DOMAIN m = DOMAIN q
    /\ \A i \in DOMAIN q :
         /\ m[i] \in Nat /\ m[i] <= t /\ m[i] \notin open
         /\ m[i] # 0 => c < m[i]
    /\ \A i, j \in DOMAIN q : i < j /\ m[j] # 0 => m[i] < m[j]
PastSlots(P, t, s) == \A n \in P : s[n] \in Nat \ {0} /\ s[n] <= t
FrontSlots(c, F, q, m, open, un, s) ==
    \A n \in F :
      /\ c # 0 => s[n] <= c
      /\ \A j \in DOMAIN q : m[j] # 0 => s[n] <= m[j]
      /\ s[n] \in open \cup un \cup {c} \/ \E j \in DOMAIN q : m[j] = s[n]
QueueSlots(q, m, open, un, s) ==
    \A i \in DOMAIN q : \A n \in q[i] :
      /\ \A j \in DOMAIN q : i <= j /\ m[j] # 0 => s[n] <= m[j]
      /\ s[n] \in open \cup un \/ \E j \in DOMAIN q : i <= j /\ m[j] = s[n]

InSlots(c, F, q, m, h, t, open, un, s) ==
    /\ MarksRise(c, q, m, t, open)
    /\ PastSlots(F, t, s) /\ PastSlots(h, t, s) /\ \A i \in DOMAIN q : PastSlots(q[i], t, s)
    /\ FrontSlots(c, F, q, m, open, un, s)
    /\ QueueSlots(q, m, open, un, s)
    /\ \A n \in h : s[n] \in open \cup un

Slots == InSlots(Closing, ToClose, Queued, Marks, ToSet(Filling), t_start, Current, unmarked, SlotOf)

FileSlots ==
    \A s \in DOMAIN pcaps : \A n \in ToSet(pcaps[s]) :
      SlotOf[n] = s \/ (SlotOf[n] < s /\ SlotOf[n] \in unmarked)

Dumping == DumpTypes /\ Line /\ Gathered /\ Slots /\ FileSlots

-------------------------------------------------------------------------------
(* Moves along the line                                                    *)

LEMMA LineShrinks ==
  ASSUME NEW p, NEW d, NEW t, NEW q, NEW h, NEW x, InLine(p, d, t, q, h, x),
         NEW d2 \in SUBSET d, NEW t2 \in SUBSET t, NEW h2 \in SUBSET h, NEW x2 \in SUBSET x
  PROVE  InLine(p, d2, t2, q, h2, x2)
BY DEF InLine, Before

(* A packet comes, and is put behind the others.                           *)
LEMMA LineGrows ==
  ASSUME NEW p, NEW d, NEW t, NEW q, NEW h, NEW x, InLine(p, d, t, q, h, {}),
         Before(Present(p, d, t, q, h), x)
  PROVE  InLine(p, d, t, q, h, x)
BY DEF InLine, Before, Present

LEMMA LineStores ==
  ASSUME NEW p, NEW d, NEW t, NEW q, NEW h, NEW x, NEW h2, InLine(p, d, t, q, h, x), h2 = h \cup x
  PROVE  /\ InLine(p, d, t, q, h2, {})
         /\ Present(p, d, t, q, h2) = Present(p, d, t, q, h) \cup x
<1>1. InLine(p, d, t, q, h2, {})
  BY DEF InLine, Before
<1> QED
  BY <1>1 DEF Present

(* What is added to the end of a sequence, and taken from its front        *)
Added(q, h, r) ==
    /\ \E k \in Nat : DOMAIN q = 1 .. k /\ DOMAIN r = 1 .. k + 1 /\ r[k + 1] = h
    /\ \A i \in DOMAIN q : r[i] = q[i]
Shifted(q, r) ==
    /\ \E k \in Nat : DOMAIN q = 1 .. k + 1 /\ DOMAIN r = 1 .. k
    /\ \A i \in DOMAIN r : r[i] = q[i + 1]

LEMMA LinePushes ==
  ASSUME NEW p, NEW d, NEW t, NEW q, NEW h, NEW x, NEW r, InLine(p, d, t, q, h, x), Added(q, h, r)
  PROVE  /\ InLine(p, d, t, r, {}, x)
         /\ Present(p, d, t, r, {}) = Present(p, d, t, q, h)
<1>1. PICK k \in Nat : DOMAIN q = 1 .. k /\ DOMAIN r = 1 .. k + 1 /\ r[k + 1] = h
  BY DEF Added
<1>2. /\ \A i \in DOMAIN r : (i \in DOMAIN q /\ r[i] = q[i]) \/ (i = k + 1 /\ r[i] = h)
      /\ \A i \in DOMAIN q : i \in DOMAIN r /\ r[i] = q[i]
      /\ k + 1 \in DOMAIN r /\ r[k + 1] = h
  BY <1>1 DEF Added
<1>3. ASSUME NEW i \in DOMAIN r, NEW j \in DOMAIN r, i < j PROVE Before(r[i], r[j])
  <2>1. i \in DOMAIN q /\ r[i] = q[i]
    BY <1>1, <1>2, <1>3
  <2> QED
    BY <1>2, <1>3, <2>1 DEF InLine
<1>4. InLine(p, d, t, r, {}, x)
  BY <1>2, <1>3 DEF InLine, Before
<1>5. UNION {r[i] : i \in DOMAIN r} = h \cup UNION {q[i] : i \in DOMAIN q}
  BY <1>2
<1> QED
  BY <1>4, <1>5 DEF Present

LEMMA LinePops ==
  ASSUME NEW p, NEW d, NEW q, NEW h, NEW x, NEW r, InLine(p, d, {}, q, h, x), Shifted(q, r)
  PROVE  /\ InLine(p, d, q[1], r, h, x)
         /\ Present(p, d, q[1], r, h) = Present(p, d, {}, q, h)
<1>1. PICK k \in Nat : DOMAIN q = 1 .. k + 1 /\ DOMAIN r = 1 .. k
  BY DEF Shifted
<1>2. /\ \A i \in DOMAIN r : i + 1 \in DOMAIN q /\ r[i] = q[i + 1] /\ 1 < i + 1 /\ i \in Nat
      /\ \A i \in DOMAIN q : i = 1 \/ (i - 1 \in DOMAIN r /\ r[i - 1] = q[i])
      /\ 1 \in DOMAIN q
  BY <1>1 DEF Shifted
<1>3. ASSUME NEW i \in DOMAIN r, NEW j \in DOMAIN r, i < j PROVE Before(r[i], r[j])
  <2>1. i + 1 < j + 1
    BY <1>2, <1>3
  <2> QED
    BY <1>2, <2>1 DEF InLine
<1>4. \A i \in DOMAIN r : Before(q[1], r[i])
  BY <1>2 DEF InLine
<1>5. InLine(p, d, q[1], r, h, x)
  BY <1>2, <1>3, <1>4 DEF InLine
<1>6. UNION {q[i] : i \in DOMAIN q} = q[1] \cup UNION {r[i] : i \in DOMAIN r}
  BY <1>2
<1> QED
  BY <1>5, <1>6 DEF Present

LEMMA LineWrites ==
  ASSUME NEW p, NEW d, NEW t, NEW q, NEW h, NEW x, NEW d2, InLine(p, d, t, q, h, x), d2 = d \cup t
  PROVE  /\ InLine(p, d2, {}, q, h, x)
         /\ Present(p, d2, {}, q, h) = Present(p, d, t, q, h)
<1>1. InLine(p, d2, {}, q, h, x)
  BY DEF InLine, Before
<1> QED
  BY <1>1 DEF Present

LEMMA LineCloses ==
  ASSUME NEW p, NEW d, NEW t, NEW q, NEW h, NEW x, NEW p2, InLine(p, d, t, q, h, x), p2 = p \cup d
  PROVE  /\ InLine(p2, {}, t, q, h, x)
         /\ Present(p2, {}, t, q, h) = Present(p, d, t, q, h)
<1>1. InLine(p2, {}, t, q, h, x)
  BY DEF InLine, Before
<1> QED
  BY <1>1 DEF Present

(* What a failing call costs is not somewhere else in line.                *)
LEMMA LineLosesFile ==
  ASSUME NEW p, NEW d, NEW t, NEW q, NEW h, NEW x, InLine(p, d, t, q, h, x), d \subseteq Nat,
         NEW o, o = Present(p, {}, t, q, h)
  PROVE  /\ InLine(p, {}, t, q, h, x)
         /\ \A n \in d : n \notin o /\ n \notin x
         /\ Present(p, d, t, q, h) = o \cup d
<1>1. InLine(p, {}, t, q, h, x)
  BY LineShrinks
<1>2. \A n \in d : n \notin p /\ n \notin t /\ n \notin h /\ n \notin x /\ \A i \in DOMAIN q : n \notin q[i]
  BY DEF InLine, Before
<1>3. \A n \in d : n \notin o /\ n \notin x
  BY <1>2 DEF Present
<1>4. Present(p, d, t, q, h) = o \cup d
  BY DEF Present
<1> QED
  BY <1>1, <1>3, <1>4

LEMMA LineLosesBuffer ==
  ASSUME NEW p, NEW d, NEW t, NEW q, NEW h, NEW x, InLine(p, d, t, q, h, x), t \subseteq Nat,
         NEW o, o = Present(p, d, {}, q, h)
  PROVE  /\ InLine(p, d, {}, q, h, x)
         /\ \A n \in t : n \notin o /\ n \notin x
         /\ Present(p, d, t, q, h) = o \cup t
<1>1. InLine(p, d, {}, q, h, x)
  BY LineShrinks
<1>2. \A n \in t : n \notin p /\ n \notin d /\ n \notin h /\ n \notin x /\ \A i \in DOMAIN q : n \notin q[i]
  BY DEF InLine, Before
<1>3. \A n \in t : n \notin o /\ n \notin x
  BY <1>2 DEF Present
<1>4. Present(p, d, t, q, h) = o \cup t
  BY DEF Present
<1> QED
  BY <1>1, <1>3, <1>4

-------------------------------------------------------------------------------
(* The slots of the packets in line                                        *)

(* The slots of these packets are the same.                                *)
LEMMA SlotsAgree ==
  ASSUME NEW c, NEW F, NEW q, NEW m, NEW h, NEW t, NEW open, NEW un, NEW s, NEW s2,
         InSlots(c, F, q, m, h, t, open, un, s),
         \A n \in F \cup h : s2[n] = s[n],
         \A i \in DOMAIN q : \A n \in q[i] : s2[n] = s[n]
  PROVE  InSlots(c, F, q, m, h, t, open, un, s2)
<1>1. PastSlots(F, t, s2) /\ PastSlots(h, t, s2) /\ (\A i \in DOMAIN q : PastSlots(q[i], t, s2))
  BY DEF InSlots, PastSlots
<1>2. FrontSlots(c, F, q, m, open, un, s2)
  BY DEF InSlots, FrontSlots
<1>3. QueueSlots(q, m, open, un, s2)
  BY DEF InSlots, QueueSlots
<1> QED
  BY <1>1, <1>2, <1>3 DEF InSlots

LEMMA SlotsShrink ==
  ASSUME NEW c, NEW F, NEW q, NEW m, NEW h, NEW t, NEW open, NEW un, NEW s,
         InSlots(c, F, q, m, h, t, open, un, s),
         NEW F2 \in SUBSET F
  PROVE  InSlots(c, F2, q, m, h, t, open, un, s)
BY DEF InSlots, FrontSlots, PastSlots

(* A later slot begins.                                                    *)
LEMMA SlotsLater ==
  ASSUME NEW c, NEW F, NEW q, NEW m, NEW h, NEW t, NEW un, NEW s, NEW t2 \in Nat, NEW open \in SUBSET {t2},
         InSlots(c, F, q, m, h, t, {}, un, s), t < t2
  PROVE  InSlots(c, F, q, m, h, t2, open, un, s)
<1>1. MarksRise(c, q, m, t2, open)
  <2>1. t \in Nat /\ c \in Nat /\ c <= t /\ \A i \in DOMAIN q : m[i] \in Nat /\ m[i] <= t
    BY DEF InSlots, MarksRise
  <2>2. t2 # 0 /\ c <= t2 /\ c # t2 /\ \A i \in DOMAIN q : m[i] <= t2 /\ m[i] # t2
    BY <2>1
  <2> QED
    BY <2>2 DEF InSlots, MarksRise
<1>2. ASSUME NEW P, PastSlots(P, t, s) PROVE PastSlots(P, t2, s)
  BY <1>2 DEF InSlots, MarksRise, PastSlots
<1>3. FrontSlots(c, F, q, m, open, un, s)
  BY DEF InSlots, FrontSlots
<1>4. QueueSlots(q, m, open, un, s)
  BY DEF InSlots, QueueSlots
<1> QED
  BY <1>1, <1>2, <1>3, <1>4 DEF InSlots

LEMMA SlotsNone ==
  ASSUME NEW q, NEW m, NEW t \in Nat \ {0}, NEW open \in SUBSET {t}, NEW un, NEW s, DOMAIN q = {}, DOMAIN m = {}
  PROVE  InSlots(0, {}, q, m, {}, t, open, un, s)
BY DEF InSlots, MarksRise, PastSlots, FrontSlots, QueueSlots

(* The flush thread's buffer has no mark, or is done with.                 *)
LEMMA SlotsDone ==
  ASSUME NEW c, NEW F, NEW q, NEW m, NEW h, NEW t, NEW open, NEW un, NEW s,
         InSlots(c, F, q, m, h, t, open, un, s)
  PROVE  InSlots(0, {}, q, m, h, t, open, un, s)
<1>1. MarksRise(0, q, m, t, open)
  BY DEF InSlots, MarksRise
<1> QED
  BY <1>1 DEF InSlots, PastSlots, FrontSlots

LEMMA SlotsStore ==
  ASSUME NEW c, NEW F, NEW q, NEW m, NEW h, NEW t, NEW un, NEW s, NEW n, NEW h2,
         InSlots(c, F, q, m, h, t, {t}, un, s), s[n] = t, h2 = h \cup {n}
  PROVE  InSlots(c, F, q, m, h2, t, {t}, un, s)
<1>1. PastSlots(h2, t, s)
  BY DEF InSlots, PastSlots, MarksRise
<1> QED
  BY <1>1 DEF InSlots

(* A buffer is pushed, with the mark of the slot that is over or none.     *)
LEMMA SlotsPush ==
  ASSUME NEW c, NEW F, NEW q, NEW m, NEW h, NEW t, NEW open, NEW un, NEW s, NEW k, NEW r, NEW l, NEW open2,
         InSlots(c, F, q, m, h, t, open, un, s), Added(q, h, r), Added(m, k, l),
         \/ k = t /\ open = {t} /\ open2 = {}
         \/ k = 0 /\ open2 = open
  PROVE  InSlots(c, F, r, l, {}, t, open2, un, s)
<1>1. PICK e \in Nat : DOMAIN q = 1 .. e /\ DOMAIN r = 1 .. e + 1 /\ r[e + 1] = h
  BY DEF Added
<1>2. PICK f \in Nat : DOMAIN m = 1 .. f /\ DOMAIN l = 1 .. f + 1 /\ l[f + 1] = k
  BY DEF Added
<1>3. f = e
  <2>1. 1 .. f = 1 .. e
    BY <1>1, <1>2 DEF InSlots, MarksRise
  <2> QED
    BY <2>1
<1>4. /\ \A i \in DOMAIN r : (i \in DOMAIN q /\ r[i] = q[i] /\ l[i] = m[i]) \/ (i = e + 1 /\ r[i] = h /\ l[i] = k)
      /\ \A i \in DOMAIN q : i \in DOMAIN r /\ r[i] = q[i] /\ l[i] = m[i] /\ i < e + 1 /\ i <= e + 1
      /\ e + 1 \in DOMAIN r /\ r[e + 1] = h /\ l[e + 1] = k
      /\ DOMAIN l = DOMAIN r /\ e + 1 \notin DOMAIN q
  BY <1>1, <1>2, <1>3 DEF Added, InSlots, MarksRise
<1>5. /\ t \in Nat \ {0} /\ open \subseteq {t} /\ open2 \subseteq open
      /\ c \in Nat /\ c <= t /\ c \notin open
      /\ k \in Nat /\ k <= t /\ k \notin open2 /\ (k # 0 => c < k /\ \A i \in DOMAIN q : m[i] < k)
  BY DEF InSlots, MarksRise
<1>6. MarksRise(c, r, l, t, open2)
  <2>1. \A i \in DOMAIN r : l[i] \in Nat /\ l[i] <= t /\ l[i] \notin open2 /\ (l[i] # 0 => c < l[i])
    BY <1>4, <1>5 DEF InSlots, MarksRise
  <2>2. ASSUME NEW i \in DOMAIN r, NEW j \in DOMAIN r, i < j, l[j] # 0 PROVE l[i] < l[j]
    <3>1. i \in DOMAIN q /\ l[i] = m[i]
      BY <1>1, <1>4, <2>2
    <3> QED
      BY <1>4, <1>5, <2>2, <3>1 DEF InSlots, MarksRise
  <2> QED
    BY <1>4, <1>5, <2>1, <2>2 DEF MarksRise
<1>7. \A i \in DOMAIN r : PastSlots(r[i], t, s)
  BY <1>4 DEF InSlots
(* What was current has the new mark, or is current still.                 *)
<1>8. \A x : x \in open => x \in open2 \/ x = l[e + 1]
  BY <1>4, <1>5
<1>9. FrontSlots(c, F, r, l, open2, un, s)
  <2> SUFFICES ASSUME NEW n \in F
               PROVE  /\ c # 0 => s[n] <= c
                      /\ \A j \in DOMAIN r : l[j] # 0 => s[n] <= l[j]
                      /\ s[n] \in open2 \cup un \cup {c} \/ \E j \in DOMAIN r : l[j] = s[n]
    BY DEF FrontSlots
  <2>1. /\ c # 0 => s[n] <= c
        /\ \A j \in DOMAIN q : m[j] # 0 => s[n] <= m[j]
        /\ s[n] \in open \cup un \cup {c} \/ \E j \in DOMAIN q : m[j] = s[n]
        /\ s[n] <= t
    BY DEF InSlots, FrontSlots, PastSlots
  <2>2. \A j \in DOMAIN r : l[j] # 0 => s[n] <= l[j]
    BY <1>4, <2>1
  <2>3. s[n] \in open2 \cup un \cup {c} \/ \E j \in DOMAIN r : l[j] = s[n]
    BY <1>4, <1>8, <2>1
  <2> QED
    BY <2>1, <2>2, <2>3
<1>10. QueueSlots(r, l, open2, un, s)
  <2> SUFFICES ASSUME NEW i \in DOMAIN r, NEW n \in r[i]
               PROVE  /\ \A j \in DOMAIN r : i <= j /\ l[j] # 0 => s[n] <= l[j]
                      /\ s[n] \in open2 \cup un \/ \E j \in DOMAIN r : i <= j /\ l[j] = s[n]
    BY DEF QueueSlots
  <2>0. s[n] <= t
    BY <1>7 DEF PastSlots
  <2>1. CASE i \in DOMAIN q
    <3>1. n \in q[i] /\ i <= e + 1
      BY <1>4, <2>1
    <3>2. /\ \A j \in DOMAIN q : i <= j /\ m[j] # 0 => s[n] <= m[j]
          /\ s[n] \in open \cup un \/ \E j \in DOMAIN q : i <= j /\ m[j] = s[n]
      BY <2>1, <3>1 DEF InSlots, QueueSlots
    <3>3. \A j \in DOMAIN r : i <= j /\ l[j] # 0 => s[n] <= l[j]
      BY <1>4, <2>0, <3>2
    <3>4. s[n] \in open2 \cup un \/ \E j \in DOMAIN r : i <= j /\ l[j] = s[n]
      BY <1>4, <1>8, <3>1, <3>2
    <3> QED
      BY <3>3, <3>4
  <2>2. CASE i = e + 1
    <3>1. n \in h /\ s[n] \in open \cup un
      BY <1>4, <2>2 DEF InSlots
    <3>2. \A j \in DOMAIN r : i <= j => j = e + 1
      BY <1>1, <2>2
    <3>3. \A j \in DOMAIN r : i <= j /\ l[j] # 0 => s[n] <= l[j]
      BY <1>4, <2>0, <3>2
    <3>4. s[n] \in open2 \cup un \/ \E j \in DOMAIN r : i <= j /\ l[j] = s[n]
      <4>1. e + 1 <= e + 1
        BY <1>1
      <4> QED
        BY <1>4, <1>8, <2>2, <3>1, <4>1
    <3> QED
      BY <3>3, <3>4
  <2> QED
    BY <1>4, <2>1, <2>2
<1>11. PastSlots({}, t, s)
  BY DEF PastSlots
<1> QED
  BY <1>6, <1>7, <1>9, <1>10, <1>11 DEF InSlots

(* The flush thread takes the first buffer.                                *)
LEMMA SlotsPop ==
  ASSUME NEW F, NEW q, NEW m, NEW h, NEW t, NEW open, NEW un, NEW s, NEW r, NEW l,
         NEW F2, InSlots(0, F, q, m, h, t, open, un, s), Shifted(q, r), Shifted(m, l), F2 = F \cup q[1]
  PROVE  InSlots(m[1], F2, r, l, h, t, open, un, s)
<1>1. PICK e \in Nat : DOMAIN q = 1 .. e + 1 /\ DOMAIN r = 1 .. e
  BY DEF Shifted
<1>2. PICK f \in Nat : DOMAIN m = 1 .. f + 1 /\ DOMAIN l = 1 .. f
  BY DEF Shifted
<1>3. f = e
  <2>1. 1 .. f + 1 = 1 .. e + 1
    BY <1>1, <1>2 DEF InSlots, MarksRise
  <2> QED
    BY <2>1
<1>4. /\ \A i \in DOMAIN r : i \in Nat /\ i + 1 \in DOMAIN q /\ r[i] = q[i + 1] /\ l[i] = m[i + 1] /\ 1 < i + 1
      /\ \A i \in DOMAIN q : i = 1 \/ (i \in Nat /\ i - 1 \in DOMAIN r /\ l[i - 1] = m[i])
      /\ 1 \in DOMAIN q /\ DOMAIN l = DOMAIN r /\ 1 <= 1 /\ \A i \in DOMAIN q : 1 <= i
  BY <1>1, <1>2, <1>3 DEF Shifted
<1>5. /\ m[1] \in Nat /\ m[1] <= t /\ m[1] \notin open
      /\ \A i \in DOMAIN q : m[i] \in Nat /\ (1 < i /\ m[i] # 0 => m[1] < m[i])
  BY <1>4 DEF InSlots, MarksRise
<1>6. MarksRise(m[1], r, l, t, open)
  <2>1. ASSUME NEW i \in DOMAIN r, NEW j \in DOMAIN r, i < j, l[j] # 0 PROVE l[i] < l[j]
    <3>1. i + 1 < j + 1 /\ i + 1 \in DOMAIN q /\ j + 1 \in DOMAIN q /\ m[j + 1] # 0
      BY <1>4, <2>1
    <3>2. m[i + 1] < m[j + 1]
      BY <3>1 DEF InSlots, MarksRise
    <3> QED
      BY <1>4, <3>2
  <2>2. \A i \in DOMAIN r : l[i] \in Nat /\ l[i] <= t /\ l[i] \notin open /\ (l[i] # 0 => m[1] < l[i])
    BY <1>4, <1>5 DEF InSlots, MarksRise
  <2>3. t \in Nat \ {0} /\ open \subseteq {t}
    BY DEF InSlots, MarksRise
  <2> QED
    BY <1>4, <1>5, <2>1, <2>2, <2>3 DEF MarksRise
<1>7. PastSlots(F2, t, s) /\ \A i \in DOMAIN r : PastSlots(r[i], t, s)
  <2>1. \A i \in DOMAIN r : PastSlots(r[i], t, s)
    BY <1>4 DEF InSlots
  <2> QED
    BY <1>4, <2>1 DEF InSlots, PastSlots
<1>8. FrontSlots(m[1], F2, r, l, open, un, s)
  <2> SUFFICES ASSUME NEW n \in F2
               PROVE  /\ m[1] # 0 => s[n] <= m[1]
                      /\ \A j \in DOMAIN r : l[j] # 0 => s[n] <= l[j]
                      /\ s[n] \in open \cup un \cup {m[1]} \/ \E j \in DOMAIN r : l[j] = s[n]
    BY DEF FrontSlots
  <2>1. /\ \A j \in DOMAIN q : m[j] # 0 => s[n] <= m[j]
        /\ s[n] \in open \cup un \/ \E j \in DOMAIN q : m[j] = s[n]
    <3>1. CASE n \in F
      <4>1. s[n] # 0
        BY <3>1 DEF InSlots, PastSlots
      <4> QED
        BY <3>1, <4>1 DEF InSlots, FrontSlots
    <3>2. CASE n \in q[1]
      BY <1>4, <3>2 DEF InSlots, QueueSlots
    <3> QED
      BY <3>1, <3>2
  <2>2. \A j \in DOMAIN r : l[j] # 0 => s[n] <= l[j]
    BY <1>4, <2>1
  <2>3. s[n] \in open \cup un \cup {m[1]} \/ \E j \in DOMAIN r : l[j] = s[n]
    BY <1>4, <2>1
  <2> QED
    BY <1>4, <2>1, <2>2, <2>3
<1>9. QueueSlots(r, l, open, un, s)
  <2> SUFFICES ASSUME NEW i \in DOMAIN r, NEW n \in r[i]
               PROVE  /\ \A j \in DOMAIN r : i <= j /\ l[j] # 0 => s[n] <= l[j]
                      /\ s[n] \in open \cup un \/ \E j \in DOMAIN r : i <= j /\ l[j] = s[n]
    BY DEF QueueSlots
  <2>1. i + 1 \in DOMAIN q /\ n \in q[i + 1]
    BY <1>4
  <2>2. /\ \A j \in DOMAIN q : i + 1 <= j /\ m[j] # 0 => s[n] <= m[j]
        /\ s[n] \in open \cup un \/ \E j \in DOMAIN q : i + 1 <= j /\ m[j] = s[n]
    BY <2>1 DEF InSlots, QueueSlots
  <2>3. \A j \in DOMAIN r : i <= j => i + 1 <= j + 1
    BY <1>4
  <2>4. \A j \in DOMAIN r : i <= j /\ l[j] # 0 => s[n] <= l[j]
    BY <1>4, <2>2, <2>3
  <2>5. s[n] \in open \cup un \/ \E j \in DOMAIN r : i <= j /\ l[j] = s[n]
    <3>1. ASSUME NEW j \in DOMAIN q, i + 1 <= j, m[j] = s[n] PROVE \E x \in DOMAIN r : i <= x /\ l[x] = s[n]
      <4>1. j # 1 /\ j - 1 \in DOMAIN r /\ l[j - 1] = m[j] /\ i <= j - 1
        BY <1>4, <3>1
      <4> QED
        BY <3>1, <4>1
    <3> QED
      BY <2>2, <3>1
  <2> QED
    BY <2>4, <2>5
<1> QED
  BY <1>6, <1>7, <1>8, <1>9 DEF InSlots

(* The mark of a buffer is taken off.                                      *)
LEMMA SlotsUnmark ==
  ASSUME NEW c, NEW F, NEW q, NEW m, NEW h, NEW t, NEW open, NEW un, NEW s, NEW k \in DOMAIN q, NEW l, NEW un2,
         InSlots(c, F, q, m, h, t, open, un, s),
         DOMAIN l = DOMAIN m, l[k] = 0, \A i \in DOMAIN m : i # k => l[i] = m[i],
         un2 = un \cup ({m[k]} \ {0})
  PROVE  InSlots(c, F, q, l, h, t, open, un2, s)
<1>1. MarksRise(c, q, l, t, open)
  BY DEF InSlots, MarksRise
<1>2. \A j \in DOMAIN q : l[j] # 0 => l[j] = m[j]
  BY DEF InSlots, MarksRise
<1>3. ASSUME NEW x \in Nat \ {0}, NEW j \in DOMAIN q, m[j] = x PROVE x \in un2 \/ l[j] = x
  BY <1>3 DEF InSlots, MarksRise
<1>4. un \subseteq un2
  OBVIOUS
<1>5. FrontSlots(c, F, q, l, open, un2, s)
  <2> SUFFICES ASSUME NEW n \in F
               PROVE  /\ c # 0 => s[n] <= c
                      /\ \A j \in DOMAIN q : l[j] # 0 => s[n] <= l[j]
                      /\ s[n] \in open \cup un2 \cup {c} \/ \E j \in DOMAIN q : l[j] = s[n]
    BY DEF FrontSlots
  <2>1. /\ c # 0 => s[n] <= c
        /\ \A j \in DOMAIN q : m[j] # 0 => s[n] <= m[j]
        /\ s[n] \in open \cup un \cup {c} \/ \E j \in DOMAIN q : m[j] = s[n]
        /\ s[n] \in Nat \ {0}
    BY DEF InSlots, FrontSlots, PastSlots
  <2>2. s[n] \in open \cup un2 \cup {c} \/ \E j \in DOMAIN q : l[j] = s[n]
    BY <1>3, <1>4, <2>1
  <2> QED
    BY <1>2, <2>1, <2>2
<1>6. QueueSlots(q, l, open, un2, s)
  <2> SUFFICES ASSUME NEW i \in DOMAIN q, NEW n \in q[i]
               PROVE  /\ \A j \in DOMAIN q : i <= j /\ l[j] # 0 => s[n] <= l[j]
                      /\ s[n] \in open \cup un2 \/ \E j \in DOMAIN q : i <= j /\ l[j] = s[n]
    BY DEF QueueSlots
  <2>1. /\ \A j \in DOMAIN q : i <= j /\ m[j] # 0 => s[n] <= m[j]
        /\ s[n] \in open \cup un \/ \E j \in DOMAIN q : i <= j /\ m[j] = s[n]
        /\ s[n] \in Nat \ {0}
    BY DEF InSlots, QueueSlots, PastSlots
  <2>2. s[n] \in open \cup un2 \/ \E j \in DOMAIN q : i <= j /\ l[j] = s[n]
    BY <1>3, <1>4, <2>1
  <2> QED
    BY <1>2, <2>1, <2>2
<1>7. \A n \in h : s[n] \in open \cup un2
  BY <1>4 DEF InSlots
<1> QED
  BY <1>1, <1>5, <1>6, <1>7 DEF InSlots

(* When a slot is closed the packets in front are of this slot, or of one  *)
(* that has lost its mark.                                                 *)
LEMMA SlotsClosed ==
  ASSUME NEW c, NEW F, NEW q, NEW m, NEW h, NEW t, NEW open, NEW un, NEW s,
         InSlots(c, F, q, m, h, t, open, un, s), c # 0
  PROVE  \A n \in F : s[n] = c \/ (s[n] < c /\ s[n] \in un)
<1> TAKE n \in F
<1>1. /\ s[n] <= c /\ s[n] \in Nat \ {0} /\ c \in Nat
      /\ s[n] \in open \cup un \cup {c} \/ \E j \in DOMAIN q : m[j] = s[n]
  BY DEF InSlots, FrontSlots, PastSlots, MarksRise
<1>2. CASE s[n] \in open
  <2>1. s[n] = t /\ c <= t /\ t \in Nat
    BY <1>2 DEF InSlots, MarksRise
  <2> QED
    BY <1>1, <2>1
<1>3. CASE \E j \in DOMAIN q : m[j] = s[n]
  <2>1. c < s[n]
    BY <1>1, <1>3 DEF InSlots, MarksRise
  <2> QED
    BY <1>1, <2>1
<1> QED
  BY <1>1, <1>2, <1>3

-------------------------------------------------------------------------------
(* Steps that leave the dump alone                                         *)

dumpState == <<dump, flushQueue, content, timeStamp, flush, flushed, pd, pcap_dumpfile, pcaps, unmarked, lost.pcap>>

LEMMA DumpViews ==
  ASSUME UNCHANGED dumpState
  PROVE  /\ UNCHANGED <<dump, flushQueue, content, timeStamp, flush, flushed, pd, pcap_dumpfile, pcaps, unmarked>>
         /\ lost.pcap' = lost.pcap
         /\ AtFlush' = AtFlush /\ Queued' = Queued /\ Marks' = Marks /\ Closing' = Closing /\ ToClose' = ToClose
         /\ InPcaps' = InPcaps /\ ToSet(pcap_dumpfile)' = ToSet(pcap_dumpfile)
<1>1. /\ UNCHANGED <<dump, flushQueue, content, timeStamp, flush, flushed, pd, pcap_dumpfile, pcaps, unmarked>>
      /\ lost.pcap' = lost.pcap
  BY DEF dumpState
<1>2. AtFlush' = AtFlush /\ Queued' = Queued /\ Marks' = Marks /\ Closing' = Closing
  BY <1>1 DEF AtFlush, Queued, Marks, Closing, ToSet
<1>3. ToClose' = ToClose
  BY <1>1 DEF ToClose, ToSet
<1>4. InPcaps' = InPcaps /\ ToSet(pcap_dumpfile)' = ToSet(pcap_dumpfile)
  BY <1>1 DEF InPcaps, ToSet
<1> QED
  BY <1>1, <1>2, <1>3, <1>4

(* Without a dump there is nothing in line.                                *)
LEMMA NoDump ==
  ASSUME Threads, Pool, DumpTypes, ~dump
  PROVE  /\ Closing = 0 /\ ToClose = {} /\ DOMAIN Queued = {} /\ DOMAIN Marks = {}
         /\ Filling = <<>> /\ ToSet(Filling) = {} /\ AtFlush = <<>> /\ packetBuffer = None
<1>1. flush = "exited" /\ ~pd /\ flushQueue = <<>> /\ packetBuffer = None
  BY DEF DumpTypes, Pool, PoolTypes, HasBuffer
<1> QED
  BY <1>1 DEF Closing, ToClose, Queued, Marks, Filling, AtFlush, ToSet

LEMMA DumpKept ==
  ASSUME Threads, Times, Pool, Dumping, UNCHANGED dumpState, UNCHANGED dueIn, Filling' = Filling,
         ToStore' \subseteq ToStore, duplicates \subseteq duplicates',
         dump => ToStore \subseteq ToStore' \cup duplicates',
         \/ UNCHANGED <<t_start, Current>>
         \/ ~dump /\ t_start' \in Nat \ {0}
         \/ Current = {} /\ t_start' \in Nat /\ t_start < t_start'
  PROVE  Dumping'
<1>1. /\ UNCHANGED <<dump, flushQueue, content, timeStamp, flush, flushed, pd, pcap_dumpfile, pcaps, unmarked>>
      /\ lost.pcap' = lost.pcap
      /\ AtFlush' = AtFlush /\ Queued' = Queued /\ Marks' = Marks /\ Closing' = Closing /\ ToClose' = ToClose
      /\ InPcaps' = InPcaps /\ ToSet(pcap_dumpfile)' = ToSet(pcap_dumpfile)
  BY DumpViews
<1>2. /\ ToSet(AtFlush)' = ToSet(AtFlush) /\ ToSet(Filling)' = ToSet(Filling)
      /\ Numbers' = Numbers /\ SlotOf' = SlotOf
  BY <1>1 DEF ToSet, Numbers, SlotOf
<1>3. DumpTypes'
  BY <1>1 DEF Dumping, DumpTypes
<1>4. Line'
  <2>1. InLine(InPcaps, ToSet(pcap_dumpfile), ToSet(AtFlush), Queued, ToSet(Filling), ToStore')
    BY LineShrinks DEF Dumping, Line
  <2> QED
    BY <1>1, <1>2, <2>1 DEF Dumping, Line, Ascending, ToSet
<1>5. Gathered'
  <2>1. InPlace' = InPlace
    BY <1>1, <1>2 DEF InPlace
  <2> QED
    BY <1>1, <1>2, <2>1 DEF Dumping, Gathered
<1>6. Slots'
  <2>0. InSlots(Closing, ToClose, Queued, Marks, ToSet(Filling), t_start, Current, unmarked, SlotOf)
    BY DEF Dumping, Slots
  <2>1. CASE UNCHANGED <<t_start, Current>>
    BY <1>1, <1>2, <2>0, <2>1 DEF Slots
  <2>2. CASE ~dump /\ t_start' \in Nat \ {0}
    <3>1. Closing = 0 /\ ToClose = {} /\ DOMAIN Queued = {} /\ DOMAIN Marks = {} /\ ToSet(Filling) = {}
      BY <2>2, NoDump DEF Dumping
    <3>2. Current' \in SUBSET {t_start'}
      BY DEF Current
    <3>3. InSlots(0, {}, Queued, Marks, {}, t_start', Current', unmarked, SlotOf)
      BY <2>2, <3>1, <3>2, SlotsNone
    <3> QED
      BY <1>1, <1>2, <3>1, <3>3 DEF Slots
  <2>3. CASE Current = {} /\ t_start' \in Nat /\ t_start < t_start'
    <3>1. Current' \in SUBSET {t_start'}
      BY DEF Current
    <3>2. InSlots(Closing, ToClose, Queued, Marks, ToSet(Filling), t_start', Current', unmarked, SlotOf)
      BY <2>0, <2>3, <3>1, SlotsLater
    <3> QED
      BY <1>1, <1>2, <3>2 DEF Slots
  <2> QED
    BY <2>1, <2>2, <2>3
<1>7. FileSlots'
  BY <1>1, <1>2 DEF Dumping, FileSlots, ToSet
<1> QED
  BY <1>3, <1>4, <1>5, <1>6, <1>7 DEF Dumping

LEMMA NextPacketDump ==
  ASSUME Threads, Times, Pool, Dumping, NextPacket
  PROVE  Dumping'
<1> DEFINE x == SlotFor(now')
<1>0. /\ ~Waiting /\ Waiting' /\ x \in Nat /\ dueIn' = Append(dueIn, x)
      /\ Number' = Len(dueIn) + 1 /\ UNCHANGED t_start /\ dueIn \in Seq(Nat)
  BY NextPacketThreads DEF Threads
<1> HIDE DEF x
<1>1. UNCHANGED dumpState /\ packetBuffer' = packetBuffer /\ duplicates' = duplicates
      /\ packet \in {"next", "block"} /\ packet' \in {"rotate", "process"}
  BY DEF NextPacket, dumpState, setup, poolVars, flushVars
<1>2. /\ UNCHANGED <<dump, flushQueue, content, timeStamp, flush, flushed, pd, pcap_dumpfile, pcaps, unmarked>>
      /\ lost.pcap' = lost.pcap
      /\ AtFlush' = AtFlush /\ Queued' = Queued /\ Marks' = Marks /\ Closing' = Closing /\ ToClose' = ToClose
      /\ InPcaps' = InPcaps /\ ToSet(pcap_dumpfile)' = ToSet(pcap_dumpfile)
  BY <1>1, DumpViews
<1>3. Filling' = Filling /\ ToSet(AtFlush)' = ToSet(AtFlush) /\ ToSet(Filling)' = ToSet(Filling) /\ Current' = Current
  BY <1>0, <1>1, <1>2 DEF Filling, ToSet, Current
<1>4. ToStore = {} /\ ToStore' = {Number'}
  BY <1>0, <1>1 DEF ToStore
<1>5. /\ Numbers' = Numbers \cup {Number'} /\ Numbers \subseteq Nat /\ Number' \notin Numbers
      /\ Before(Numbers, {Number'}) /\ \A n \in Numbers : dueIn'[n] = dueIn[n]
  <2>1. /\ DOMAIN Append(dueIn, x) = 1 .. Len(dueIn) + 1 /\ Len(dueIn) \in Nat
        /\ \A i \in 1 .. Len(dueIn) : Append(dueIn, x)[i] = dueIn[i] /\ DOMAIN dueIn = 1 .. Len(dueIn)
    BY <1>0, SeqAppend
  <2>2. DOMAIN dueIn = 1 .. Len(dueIn)
    BY <1>0
  <2> HIDE DEF Number
  <2>3. Numbers' = DOMAIN Append(dueIn, x)
    BY <1>0 DEF Numbers
  <2> QED
    BY <1>0, <2>1, <2>2, <2>3 DEF Numbers, Before
<1>6. \A n \in Numbers : SlotOf'[n] = SlotOf[n]
  BY <1>5 DEF SlotOf
<1>7. InPlace' = InPlace /\ InPlace \subseteq Numbers
  BY <1>2, <1>3 DEF InPlace, Dumping, Gathered
<1>8. DumpTypes'
  BY <1>2 DEF Dumping, DumpTypes
<1>9. Line'
  <2>1. Before(InPlace, ToStore')
    BY <1>4, <1>5, <1>7 DEF Before
  <2>2. InLine(InPcaps, ToSet(pcap_dumpfile), ToSet(AtFlush), Queued, ToSet(Filling), ToStore')
    BY <1>4, <2>1, LineGrows DEF Dumping, Line, InPlace
  <2> QED
    BY <1>2, <1>3, <2>2 DEF Dumping, Line, Ascending, ToSet
<1>10. Gathered'
  BY <1>1, <1>2, <1>4, <1>5, <1>7 DEF Dumping, Gathered
<1>11. Slots'
  <2>0. InSlots(Closing, ToClose, Queued, Marks, ToSet(Filling), t_start, Current, unmarked, SlotOf)
    BY DEF Dumping, Slots
  <2>1. ToClose \subseteq InPlace /\ ToSet(Filling) \subseteq InPlace /\ \A i \in DOMAIN Queued : Queued[i] \subseteq InPlace
    BY DEF InPlace, Present, ToClose, AtFlush
  <2>2. InSlots(Closing, ToClose, Queued, Marks, ToSet(Filling), t_start, Current, unmarked, SlotOf')
    BY <1>6, <1>7, <2>0, <2>1, SlotsAgree
  <2> QED
    BY <1>0, <1>2, <1>3, <2>2 DEF Slots
<1>12. FileSlots'
  <2>1. \A s \in DOMAIN pcaps : ToSet(pcaps[s]) \subseteq InPlace
    BY DEF InPlace, Present, InPcaps
  <2>2. \A s \in DOMAIN pcaps : ToSet(pcaps[s])' = ToSet(pcaps[s])
    BY <1>2 DEF ToSet
  <2> QED
    BY <1>2, <1>6, <1>7, <2>1, <2>2 DEF Dumping, FileSlots
<1> QED
  BY <1>8, <1>9, <1>10, <1>11, <1>12 DEF Dumping


(* Steps of the packet thread that leave the queue and the buffers alone   *)
LEMMA BuffersTaken ==
  ASSUME Threads, Times, Pool, Dumping, FirstBuffer \/ Refill \/ SwapBuffer
  PROVE  Dumping'
<1>1. /\ UNCHANGED dumpState /\ UNCHANGED <<dueIn, duplicates, t_start, current, dump>>
      /\ packet \in {"start", "refill", "swap"}
  BY DEF FirstBuffer, Refill, SwapBuffer, dumpState, setup, flushVars
<1>2. content' = content
  BY <1>1 DEF dumpState
<1>3. Filling' = Filling
  <2>1. CASE packetBuffer' = packetBuffer
    BY <1>2, <2>1 DEF Filling
  <2>2. CASE packetBuffer' # packetBuffer
    <3>1. bufferQueue # <<>> /\ packetBuffer' = Head(bufferQueue)
      BY <2>2 DEF FirstBuffer, Refill, SwapBuffer
    <3>2. /\ bufferQueue \in Seq(Buffers) /\ \A b \in ToSet(bufferQueue) : content[b] = <<>>
          /\ packetBuffer = None
      BY <1>1 DEF Pool, PoolTypes, HasBuffer
    <3>3. Head(bufferQueue) \in Buffers /\ Head(bufferQueue) \in ToSet(bufferQueue)
      BY <3>1, <3>2, SeqHeadTail
    <3>4. content[Head(bufferQueue)] = <<>>
      BY <3>2, <3>3
    <3>5. Filling' = <<>>
      BY <1>2, <3>1, <3>4 DEF Filling
    <3> QED
      BY <3>2, <3>5 DEF Filling
  <2> QED
    BY <2>1, <2>2
<1>4. ToStore' = ToStore /\ Current' = Current
  BY <1>1 DEF FirstBuffer, Refill, SwapBuffer, ToStore, Waiting, Number, Current
<1> QED
  BY <1>1, <1>3, <1>4, DumpKept

LEMMA QuietMoves ==
  ASSUME Threads, Times, Pool, Dumping,
         EndOfCapture \/ IdleInSlot \/ IdleAfterSlot \/ (~dump /\ (RotateDump \/ Finish))
  PROVE  Dumping'
<1>1. /\ UNCHANGED dumpState /\ UNCHANGED <<dueIn, duplicates, t_start, packetBuffer, dump>>
  BY DEF EndOfCapture, IdleInSlot, IdleAfterSlot, RotateDump, Finish, dumpState, setup, poolVars, flushVars
<1>2. Filling' = Filling
  BY <1>1 DEF Filling, dumpState
<1>3. ToStore' = ToStore
  BY DEF EndOfCapture, IdleInSlot, IdleDone, IdleAfterSlot, RotateDump, Finish, ToStore, Waiting, Number
<1>4. ~dump \/ Current' = Current
  BY <1>1 DEF EndOfCapture, IdleInSlot, IdleDone, IdleAfterSlot, Current
<1>5. t_start \in Nat \ {0}
  BY StartFacts DEF Threads, Times
<1> QED
  BY <1>1, <1>2, <1>3, <1>4, <1>5, DumpKept

LEMMA SyncFlowsDump ==
  ASSUME Threads, Times, Pool, Dumping, SyncFlows
  PROVE  Dumping'
<1>1. /\ UNCHANGED dumpState /\ UNCHANGED <<dueIn, duplicates, packetBuffer, dump, current>>
      /\ packet = "sync" /\ packet' \in {"next", "finish", "process"} /\ t_start' = Slot(now)
      /\ packet' = "process" <=> current # None
  BY DEF SyncFlows, IdleDone, dumpState, setup, poolVars, flushVars
<1>2. Filling' = Filling
  BY <1>1 DEF Filling, dumpState
<1>3. ToStore' = ToStore
  BY <1>1 DEF ToStore, Waiting, Number
<1>4. Current = {}
  BY <1>1 DEF Current
<1>5. t_start' \in Nat /\ t_start < t_start'
  <2>1. now \in Nat /\ t_start \in Nat /\ now >= t_start + Twin /\ Twin \in Nat \ {0}
    BY <1>1, CaptureAssumption DEF Threads, Times
  <2>2. Slot(now) \in Nat /\ now < Slot(now) + Twin
    BY <2>1, SlotFacts
  <2>3. t_start < Slot(now)
    BY <2>1, <2>2
  <2> QED
    BY <1>1, <2>2, <2>3
<1> QED
  BY <1>1, <1>2, <1>3, <1>4, <1>5, DumpKept

LEMMA ProcessDump ==
  ASSUME Threads, Times, Pool, Dumping, Process
  PROVE  Dumping'
<1>1. /\ UNCHANGED dumpState /\ UNCHANGED <<dueIn, t_start, packetBuffer, dump, current>>
      /\ packet = "process" /\ packet' \in {"store", "next", "finish", "block"}
      /\ dump /\ current.kind # "duplicate" => packet' = "store"
      /\ duplicates' = IF current.kind = "duplicate" THEN duplicates \cup {Number} ELSE duplicates
  BY DEF Process, NextTurn, dumpState, setup, poolVars, flushVars
<1>2. Filling' = Filling
  BY <1>1 DEF Filling, dumpState
<1>3. Waiting /\ ~Waiting' /\ Number' = Number
  BY <1>1 DEF Waiting, Threads, Number
<1>4. ToStore = {Number} /\ ToStore' = IF packet' = "store" THEN {Number} ELSE {}
  BY <1>1, <1>3 DEF ToStore
<1>5. Current' = Current
  BY <1>1 DEF Current
<1> QED
  BY <1>1, <1>2, <1>4, <1>5, DumpKept

(* The other threads                                                       *)
LEMMA OthersDump ==
  ASSUME Threads, Times, Pool, Storage, Dumping, FlowThread \/ MainThread \/ Terminate \/ UNCHANGED vars
  PROVE  Dumping'
<1>1. /\ UNCHANGED <<dueIn, t_start, duplicates, packetBuffer, dump, current, poolVars, flushVars>>
      /\ packet' = packet \/ (packet = "next" /\ packet' = "finish")
  <2>1. CASE FlowThread
    BY <2>1 DEF FlowThread, OpenNewFile, OpenNewFileFails, Pop_Node, StorePcapFlow, CloseFlowFile, packetVars, setup
  <2>2. CASE MainThread
    BY <2>2 DEF MainThread, WaitDone, SignalPacketThread, JoinThreads, Flush_FlowTree, SignalFlowThread, JoinFlowThread, packetVars, setup
  <2>3. CASE Terminate \/ UNCHANGED vars
    BY <2>3 DEF Terminate, vars, packetVars, setup
  <2> QED
    BY <2>1, <2>2, <2>3
<1>2. lost.pcap' = lost.pcap
  <2>1. CASE lost' = lost
    BY <2>1
  <2>2. CASE lost' # lost
    <3>1. CloseFlowFile
      BY <2>2 DEF FlowThread, OpenNewFile, OpenNewFileFails, Pop_Node, StorePcapFlow, MainThread, WaitDone,
         SignalPacketThread, JoinThreads, Flush_FlowTree, SignalFlowThread, JoinFlowThread, Terminate, vars
    <3>2. lost' = [lost EXCEPT !.flow = @ \cup PacketsOf(nffile)]
      BY <2>2, <3>1 DEF CloseFlowFile
    <3>3. lost = [pcap |-> lost.pcap, flow |-> lost.flow]
      BY DEF Storage
    <3> QED
      BY <3>2, <3>3
  <2> QED
    BY <2>1, <2>2
<1>3. UNCHANGED dumpState
  BY <1>1, <1>2 DEF dumpState, poolVars, flushVars
<1>4. Filling' = Filling
  BY <1>1 DEF Filling, poolVars
<1>5. ToStore' = ToStore /\ Current' = Current
  BY <1>1 DEF ToStore, Waiting, Number, Current
<1> QED
  BY <1>1, <1>3, <1>4, <1>5, DumpKept

(* A buffer is pushed.                                                     *)
LEMMA PushDump ==
  ASSUME Threads, Pool, Dumping, HasBuffer, ~HasBuffer', NEW mark \in Nat, PushBuffer(mark),
         UNCHANGED <<dump, content, flush, flushed, pd, pcap_dumpfile, pcaps, unmarked, lost>>,
         UNCHANGED <<dueIn, duplicates, t_start>>, ToStore' = ToStore,
         \/ mark = t_start /\ Current = {t_start} /\ Current' = {}
         \/ mark = 0 /\ Current' = Current
  PROVE  Dumping'
<1> DEFINE b == packetBuffer
<1>1. /\ timeStamp' = [timeStamp EXCEPT ![b] = mark]
      /\ flushQueue' = Append(flushQueue, b) /\ packetBuffer' = None
  BY DEF PushBuffer
<1>2. /\ flushQueue \in Seq(Buffers) /\ timeStamp \in [Buffers -> Nat] /\ b \in Buffers /\ b # None
      /\ b \notin ToSet(flushQueue) /\ dump
  BY DEF Pool, PoolTypes, Split, Held, HasBuffer
<1>3. /\ Filling = content[b] /\ Filling' = <<>> /\ ToSet(Filling)' = {}
  BY <1>1, <1>2 DEF Filling, ToSet
<1> HIDE DEF b
<1>4. PICK k \in Nat : /\ k = Len(flushQueue) /\ DOMAIN flushQueue = 1 .. k /\ DOMAIN flushQueue' = 1 .. k + 1
                       /\ flushQueue'[k + 1] = b
                       /\ \A i \in 1 .. k : flushQueue'[i] = flushQueue[i] /\ flushQueue[i] \in Buffers /\ flushQueue[i] # b
  <2>1. /\ Len(flushQueue) \in Nat /\ DOMAIN flushQueue = 1 .. Len(flushQueue)
        /\ \A i \in DOMAIN flushQueue : flushQueue[i] \in Buffers /\ flushQueue[i] # b
    BY <1>2 DEF ToSet
  <2>2. /\ DOMAIN Append(flushQueue, b) = 1 .. Len(flushQueue) + 1 /\ Append(flushQueue, b)[Len(flushQueue) + 1] = b
        /\ \A i \in 1 .. Len(flushQueue) : Append(flushQueue, b)[i] = flushQueue[i]
    BY <1>2, SeqAppend
  <2> QED
    BY <1>1, <2>1, <2>2
<1>5. Added(Queued, ToSet(Filling), Queued')
  <2>1. Queued = [i \in 1 .. k |-> ToSet(content[flushQueue[i]])]
    BY <1>4 DEF Queued
  <2>2. Queued' = [i \in 1 .. k + 1 |-> ToSet(content[flushQueue'[i]])]
    BY <1>4 DEF Queued, ToSet
  <2>3. \A i \in 1 .. k : i \in 1 .. k + 1
    BY <1>4
  <2>4. k + 1 \in 1 .. k + 1
    BY <1>4
  <2>5. DOMAIN Queued = 1 .. k /\ DOMAIN Queued' = 1 .. k + 1
    BY <2>1, <2>2
  <2>6. Queued'[k + 1] = ToSet(Filling)
    BY <1>3, <1>4, <2>2, <2>4
  <2>7. \A i \in DOMAIN Queued : Queued'[i] = Queued[i]
    BY <1>4, <2>1, <2>2, <2>3, <2>5
  <2> QED
    BY <1>4, <2>5, <2>6, <2>7 DEF Added
<1>6. Added(Marks, mark, Marks')
  <2>1. Marks = [i \in 1 .. k |-> timeStamp[flushQueue[i]]]
    BY <1>4 DEF Marks
  <2>2. Marks' = [i \in 1 .. k + 1 |-> timeStamp'[flushQueue'[i]]]
    BY <1>4 DEF Marks
  <2>3. \A i \in 1 .. k : i \in 1 .. k + 1
    BY <1>4
  <2>4. k + 1 \in 1 .. k + 1
    BY <1>4
  <2>5. timeStamp'[b] = mark /\ \A x \in Buffers : x # b => timeStamp'[x] = timeStamp[x]
    BY <1>1, <1>2
  <2>6. DOMAIN Marks = 1 .. k /\ DOMAIN Marks' = 1 .. k + 1
    BY <2>1, <2>2
  <2>7. Marks'[k + 1] = mark
    BY <1>4, <2>2, <2>4, <2>5
  <2>8. \A i \in DOMAIN Marks : Marks'[i] = Marks[i]
    BY <1>4, <2>1, <2>2, <2>3, <2>5, <2>6
  <2> QED
    BY <1>4, <2>6, <2>7, <2>8 DEF Added
<1>7. /\ AtFlush' = AtFlush /\ Closing' = Closing /\ ToClose' = ToClose /\ InPcaps' = InPcaps
      /\ ToSet(pcap_dumpfile)' = ToSet(pcap_dumpfile) /\ ToSet(AtFlush)' = ToSet(AtFlush)
      /\ Numbers' = Numbers /\ SlotOf' = SlotOf
  BY DEF AtFlush, Closing, ToClose, InPcaps, ToSet, Numbers, SlotOf
<1>8. DumpTypes'
  BY <1>2 DEF Dumping, DumpTypes
<1>9. /\ InLine(InPcaps, ToSet(pcap_dumpfile), ToSet(AtFlush), Queued', {}, ToStore)
      /\ Present(InPcaps, ToSet(pcap_dumpfile), ToSet(AtFlush), Queued', {}) = InPlace
  <2>1. InLine(InPcaps, ToSet(pcap_dumpfile), ToSet(AtFlush), Queued, ToSet(Filling), ToStore)
    BY DEF Dumping, Line
  <2> QED
    BY <1>5, <2>1, LinePushes DEF InPlace
<1>10. Line'
  <2>1. InLine(InPcaps', ToSet(pcap_dumpfile)', ToSet(AtFlush)', Queued', ToSet(Filling)', ToStore')
    BY <1>3, <1>7, <1>9
  <2>2. Ascending(pcap_dumpfile)'
    BY DEF Dumping, Line, Ascending
  <2>3. (\A a \in Buffers : Ascending(content[a]))'
    BY DEF Dumping, Line, Ascending
  <2>4. /\ (\A s \in DOMAIN pcaps : Ascending(pcaps[s]))'
        /\ (\A s, u \in DOMAIN pcaps : s # u => ToSet(pcaps[s]) \cap ToSet(pcaps[u]) = {})'
    BY DEF Dumping, Line, Ascending, ToSet
  <2> QED
    BY <2>1, <2>2, <2>3, <2>4 DEF Line
<1>11. Gathered'
  <2>1. InPlace' = InPlace
    BY <1>3, <1>7, <1>9 DEF InPlace
  <2> QED
    BY <1>7, <2>1 DEF Dumping, Gathered
<1>12. Slots'
  <2>1. InSlots(Closing, ToClose, Queued, Marks, ToSet(Filling), t_start, Current, unmarked, SlotOf)
    BY DEF Dumping, Slots
  <2>2. InSlots(Closing, ToClose, Queued', Marks', {}, t_start, Current', unmarked, SlotOf)
    BY <1>5, <1>6, <2>1, SlotsPush
  <2> QED
    BY <1>3, <1>7, <2>2 DEF Slots
<1>13. FileSlots'
  BY <1>7 DEF Dumping, FileSlots, ToSet
<1> QED
  BY <1>8, <1>10, <1>11, <1>12, <1>13 DEF Dumping

LEMMA PushesDump ==
  ASSUME Threads, Times, Pool, Dumping, BufferFull \/ (dump /\ (RotateDump \/ Finish))
  PROVE  Dumping'
<1>1. t_start \in Nat
  BY DEF Threads
<1>2. /\ UNCHANGED <<dump, content, flush, flushed, pd, pcap_dumpfile, pcaps, unmarked, lost>>
      /\ UNCHANGED <<dueIn, duplicates, t_start>>
  BY DEF BufferFull, RotateDump, Finish, setup, flushVars
<1>3. CASE BufferFull
  <2>1. PushBuffer(0) /\ packet = "store" /\ packet' = "swap" /\ current' = current /\ dump /\ dump' = dump
    BY <1>3 DEF BufferFull, setup, Threads
  <2>2. HasBuffer /\ ~HasBuffer' /\ ToStore' = ToStore /\ Current' = Current
    BY <1>2, <2>1 DEF HasBuffer, ToStore, Waiting, Number, Current
  <2> QED
    BY <1>2, <2>1, <2>2, PushDump
<1>4. CASE dump /\ RotateDump
  <2>1. PushBuffer(t_start) /\ packet = "rotate" /\ packet' = "refill" /\ current' = current /\ dump' = dump
    BY <1>4 DEF RotateDump, setup
  <2>2. HasBuffer /\ ~HasBuffer' /\ ToStore' = ToStore /\ Current = {t_start} /\ Current' = {}
    BY <1>4, <2>1 DEF HasBuffer, ToStore, Waiting, Number, Current
  <2> QED
    BY <1>1, <1>2, <2>1, <2>2, PushDump
<1>5. CASE dump /\ Finish
  <2>1. PushBuffer(t_start) /\ packet = "finish" /\ packet' = "exited" /\ dump' = dump
    BY <1>5 DEF Finish, setup
  <2>2. HasBuffer /\ ~HasBuffer' /\ ToStore' = ToStore /\ Current = {t_start} /\ Current' = {}
    BY <1>5, <2>1 DEF HasBuffer, ToStore, Waiting, Number, Current
  <2> QED
    BY <1>1, <1>2, <2>1, <2>2, PushDump
<1> QED
  BY <1>3, <1>4, <1>5

(* A packet is put into the buffer.                                        *)
LEMMA PcapDumpDump ==
  ASSUME Threads, Times, Pool, Dumping, PcapDump
  PROVE  Dumping'
<1> DEFINE b == packetBuffer
<1>1. /\ content' = [content EXCEPT ![b] = Append(@, Number)] /\ packet = "store"
      /\ packet' \in {"finish", "next", "block"}
      /\ UNCHANGED <<dump, flushQueue, timeStamp, flush, flushed, pd, pcap_dumpfile, pcaps, unmarked, lost>>
      /\ UNCHANGED <<dueIn, duplicates, t_start, packetBuffer, current>>
  BY DEF PcapDump, NextTurn, setup, flushVars
<1>2. /\ b \in Buffers /\ b # None /\ b \notin ToSet(flushQueue) /\ b \notin Taken
      /\ content \in [Buffers -> Seq(Nat)] /\ flushQueue \in Seq(Buffers) /\ dump
  BY <1>1 DEF Pool, PoolTypes, Split, Held, HasBuffer, Threads
<1>3. Number \in Nat /\ Number \in Numbers /\ SlotOf[Number] = t_start /\ dueIn \in Seq(Nat)
  <2>1. dueIn # <<>> /\ Number = Len(dueIn) /\ dueIn[Len(dueIn)] = t_start /\ dueIn \in Seq(Nat)
    BY <1>1 DEF Times, Threads
  <2>2. Len(dueIn) \in DOMAIN dueIn /\ Len(dueIn) \in Nat
    BY <2>1
  <2> HIDE DEF Number
  <2> QED
    BY <2>1, <2>2 DEF Numbers, SlotOf
<1> HIDE DEF Number
<1>4. ToStore = {Number} /\ ToStore' = {} /\ Current = {t_start} /\ Current' = {t_start}
  BY <1>1 DEF ToStore, Waiting, Current
<1>5. /\ Filling = content[b] /\ Filling \in Seq(Nat) /\ Filling' = Append(Filling, Number)
      /\ content'[b] = Append(content[b], Number) /\ \A x \in Buffers : x # b => content'[x] = content[x]
  <2>1. Filling = content[b] /\ Filling \in Seq(Nat)
    BY <1>2 DEF Filling
  <2>2. content'[b] = Append(content[b], Number) /\ \A x \in Buffers : x # b => content'[x] = content[x]
    BY <1>1, <1>2
  <2>3. Filling' = content'[b]
    BY <1>1, <1>2 DEF Filling
  <2> QED
    BY <2>1, <2>2, <2>3
<1>6. ToSet(Filling)' = ToSet(Filling) \cup {Number}
  <2>1. ToSet(Append(Filling, Number)) = ToSet(Filling) \cup {Number}
    BY <1>3, <1>5, SeqAppend
  <2>2. ToSet(Filling)' = ToSet(Append(Filling, Number))
    BY <1>5 DEF ToSet
  <2> QED
    BY <2>1, <2>2
<1>7. \A i \in DOMAIN flushQueue : flushQueue[i] \in Buffers /\ flushQueue[i] # b
  BY <1>2 DEF ToSet
<1>8. Queued' = Queued /\ Marks' = Marks
  BY <1>1, <1>5, <1>7 DEF Queued, Marks, ToSet
<1>9. flush \in {"open", "write", "dead"} => flushed.buffer \in Buffers /\ flushed.buffer # b
  BY <1>2 DEF Taken, Pool, PoolTypes
<1>10. /\ AtFlush' = AtFlush /\ Closing' = Closing /\ InPcaps' = InPcaps
       /\ ToSet(pcap_dumpfile)' = ToSet(pcap_dumpfile)
  BY <1>1, <1>5, <1>9 DEF AtFlush, Closing, InPcaps, ToSet
<1>11. ToClose' = ToClose
  BY <1>1, <1>5, <1>9 DEF ToClose, ToSet
<1>12. ToSet(AtFlush)' = ToSet(AtFlush) /\ Numbers' = Numbers /\ SlotOf' = SlotOf
  BY <1>1, <1>10 DEF ToSet, Numbers, SlotOf
<1>13. DumpTypes'
  BY <1>1 DEF Dumping, DumpTypes
<1>14. /\ InLine(InPcaps, ToSet(pcap_dumpfile), ToSet(AtFlush), Queued, ToSet(Filling)', {})
       /\ InPlace' = InPlace \cup {Number}
  <2>1. InLine(InPcaps, ToSet(pcap_dumpfile), ToSet(AtFlush), Queued, ToSet(Filling), {Number})
    BY <1>4 DEF Dumping, Line
  <2>2. /\ InLine(InPcaps, ToSet(pcap_dumpfile), ToSet(AtFlush), Queued, ToSet(Filling)', {})
        /\ Present(InPcaps, ToSet(pcap_dumpfile), ToSet(AtFlush), Queued, ToSet(Filling)')
           = Present(InPcaps, ToSet(pcap_dumpfile), ToSet(AtFlush), Queued, ToSet(Filling)) \cup {Number}
    BY <1>6, <2>1, LineStores
  <2> QED
    BY <1>8, <1>10, <1>12, <2>2 DEF InPlace
<1>15. Ascending(Append(Filling, Number))
  <2>1. Ascending(Filling) /\ Before(ToSet(Filling), {Number})
    BY <1>2, <1>4, <1>5 DEF Dumping, Line, InLine
  <2>2. /\ DOMAIN Append(Filling, Number) = 1 .. Len(Filling) + 1 /\ Append(Filling, Number)[Len(Filling) + 1] = Number
        /\ \A i \in 1 .. Len(Filling) : Append(Filling, Number)[i] = Filling[i]
        /\ DOMAIN Filling = 1 .. Len(Filling) /\ Len(Filling) \in Nat
    BY <1>3, <1>5, SeqAppend
  <2>3. ASSUME NEW i \in 1 .. Len(Filling) + 1, NEW j \in 1 .. Len(Filling) + 1, i < j
        PROVE  Append(Filling, Number)[i] < Append(Filling, Number)[j]
    <3>1. i \in 1 .. Len(Filling) /\ (j = Len(Filling) + 1 \/ j \in 1 .. Len(Filling))
      BY <2>2, <2>3
    <3>2. i \in DOMAIN Filling /\ Filling[i] \in ToSet(Filling) /\ Append(Filling, Number)[i] = Filling[i]
      BY <2>2, <3>1 DEF ToSet
    <3>3. CASE j = Len(Filling) + 1
      BY <2>1, <2>2, <3>2, <3>3 DEF Before
    <3>4. CASE j \in 1 .. Len(Filling)
      BY <2>1, <2>2, <2>3, <3>2, <3>4 DEF Ascending
    <3> QED
      BY <3>1, <3>3, <3>4
  <2> QED
    BY <2>2, <2>3 DEF Ascending
<1>16. \A x \in Buffers : Ascending(content'[x])
  <2>1. \A x \in Buffers : Ascending(content[x])
    BY DEF Dumping, Line
  <2>2. content'[b] = Append(Filling, Number)
    BY <1>5
  <2> QED
    BY <1>5, <1>15, <2>1, <2>2
<1>17. Line'
  <2>1. InLine(InPcaps', ToSet(pcap_dumpfile)', ToSet(AtFlush)', Queued', ToSet(Filling)', ToStore')
    BY <1>4, <1>6, <1>8, <1>10, <1>12, <1>14
  <2>2. (\A x \in Buffers : Ascending(content[x]))'
    BY <1>16 DEF Ascending
  <2>3. UNCHANGED <<pcap_dumpfile, pcaps>>
    BY <1>1
  <2>4. /\ Ascending(pcap_dumpfile)' /\ (\A s \in DOMAIN pcaps : Ascending(pcaps[s]))'
        /\ (\A s, u \in DOMAIN pcaps : s # u => ToSet(pcaps[s]) \cap ToSet(pcaps[u]) = {})'
    BY <2>3 DEF Dumping, Line, Ascending, ToSet
  <2> QED
    BY <2>1, <2>2, <2>4 DEF Line
<1>18. Gathered'
  BY <1>1, <1>3, <1>4, <1>12, <1>14 DEF Dumping, Gathered
<1>19. Slots'
  <2>1. InSlots(Closing, ToClose, Queued, Marks, ToSet(Filling), t_start, {t_start}, unmarked, SlotOf)
    BY <1>4 DEF Dumping, Slots
  <2>2. InSlots(Closing, ToClose, Queued, Marks, ToSet(Filling)', t_start, {t_start}, unmarked, SlotOf)
    BY <1>3, <1>6, <2>1, SlotsStore
  <2> QED
    BY <1>1, <1>4, <1>8, <1>10, <1>11, <1>12, <2>2 DEF Slots
<1>20. FileSlots'
  BY <1>1, <1>12 DEF Dumping, FileSlots, ToSet
<1> QED
  BY <1>13, <1>17, <1>18, <1>19, <1>20 DEF Dumping

(* The flush thread                                                        *)
LEMMA FlushViews ==
  ASSUME Threads, Pool, DumpTypes, FlushThread
  PROVE  /\ UNCHANGED <<dump, dueIn, duplicates, t_start, packetBuffer, current, packet>> /\ dump
         /\ ToStore' = ToStore /\ Current' = Current /\ Numbers' = Numbers /\ SlotOf' = SlotOf
         /\ Filling' = Filling /\ ToSet(Filling)' = ToSet(Filling)
<1>1. /\ UNCHANGED <<dump, dueIn, duplicates, t_start, packetBuffer, current, packet>>
      /\ flush # "exited"
  BY DEF FlushThread, FlushPop, FlushEnd, OpenDumpFile, OpenDumpFileFails, WriteBuffer, WriteBufferFails,
     ReturnBuffer, CloseDumpFile, ClearTimeStamp, setup, packetVars
<1>2. ToStore' = ToStore /\ Current' = Current /\ Numbers' = Numbers /\ SlotOf' = SlotOf /\ dump
  BY <1>1 DEF ToStore, Waiting, Number, Current, Numbers, SlotOf, DumpTypes
<1>3. Filling' = Filling
  <2>1. CASE WriteBuffer \/ WriteBufferFails
    <3>1. content' = [content EXCEPT ![flushed.buffer] = <<>>] /\ flush = "write"
      BY <2>1 DEF WriteBuffer, WriteBufferFails, ReturnBuffer
    <3>2. packetBuffer # None => packetBuffer # flushed.buffer /\ packetBuffer \in Buffers
      BY <3>1 DEF Pool, PoolTypes, Split, Held, Taken
    <3>3. content \in [Buffers -> Seq(Nat)]
      BY DEF Pool, PoolTypes
    <3> QED
      BY <1>1, <3>1, <3>2, <3>3 DEF Filling
  <2>2. CASE FlushPop \/ FlushEnd \/ OpenDumpFile \/ OpenDumpFileFails \/ CloseDumpFile \/ ClearTimeStamp
    <3>1. content' = content
      BY <2>2 DEF FlushPop, FlushEnd, OpenDumpFile, OpenDumpFileFails, CloseDumpFile, ClearTimeStamp, poolVars
    <3> QED
      BY <1>1, <3>1 DEF Filling
  <2> QED
    BY <2>1, <2>2 DEF FlushThread
<1> QED
  BY <1>1, <1>2, <1>3 DEF ToSet

LEMMA FlushPopDump ==
  ASSUME Threads, Pool, Dumping, FlushPop
  PROVE  Dumping'
<1> DEFINE b == Head(flushQueue)
<1>0. /\ UNCHANGED <<dump, dueIn, duplicates, t_start, packetBuffer, current, packet>> /\ dump
      /\ ToStore' = ToStore /\ Current' = Current /\ Numbers' = Numbers /\ SlotOf' = SlotOf
      /\ Filling' = Filling /\ ToSet(Filling)' = ToSet(Filling)
  BY FlushViews DEF FlushThread, Dumping
<1>1. /\ flush = "pop" /\ flushQueue # <<>> /\ flushQueue' = Tail(flushQueue)
      /\ flushed' = [buffer |-> b, timeStamp |-> timeStamp[b]]
      /\ flush' = IF content[b] # <<>> THEN "open" ELSE IF timeStamp[b] # 0 THEN "close" ELSE "pop"
      /\ UNCHANGED <<content, timeStamp, pd, pcap_dumpfile, pcaps, unmarked, lost>>
  BY DEF FlushPop
<1>2. flushQueue \in Seq(Buffers) /\ content \in [Buffers -> Seq(Nat)]
  BY DEF Pool, PoolTypes
<1>3. /\ b = flushQueue[1] /\ b \in Buffers
      /\ \E k \in Nat : DOMAIN flushQueue = 1 .. k + 1 /\ DOMAIN flushQueue' = 1 .. k
      /\ \A i \in DOMAIN flushQueue' : flushQueue'[i] = flushQueue[i + 1]
  <2>1. /\ Head(flushQueue) = flushQueue[1] /\ Head(flushQueue) \in Buffers /\ Len(flushQueue) \in Nat \ {0}
        /\ DOMAIN flushQueue = 1 .. Len(flushQueue) /\ DOMAIN Tail(flushQueue) = 1 .. Len(flushQueue) - 1
        /\ \A i \in 1 .. Len(flushQueue) - 1 : Tail(flushQueue)[i] = flushQueue[i + 1]
    BY <1>1, <1>2, SeqHeadTail
  <2>2. PICK k \in Nat : Len(flushQueue) = k + 1
    <3>1. Len(flushQueue) - 1 \in Nat /\ Len(flushQueue) = (Len(flushQueue) - 1) + 1
      BY <2>1
    <3> QED
      BY <3>1
  <2>3. Len(flushQueue) - 1 = k
    BY <2>2
  <2> QED
    BY <1>1, <2>1, <2>2, <2>3
<1> HIDE DEF b
<1>4. PICK k \in Nat : DOMAIN flushQueue = 1 .. k + 1 /\ DOMAIN flushQueue' = 1 .. k
  BY <1>3
<1>5. \A i \in 1 .. k : i + 1 \in 1 .. k + 1 /\ flushQueue'[i] = flushQueue[i + 1]
  BY <1>3, <1>4
<1>6. 1 \in 1 .. k + 1
  BY <1>4
<1>7. Shifted(Queued, Queued') /\ Queued[1] = ToSet(content[b])
  <2>1. Queued = [i \in 1 .. k + 1 |-> ToSet(content[flushQueue[i]])]
    BY <1>4 DEF Queued
  <2>2. Queued' = [i \in 1 .. k |-> ToSet(content[flushQueue'[i]])]
    BY <1>1, <1>4 DEF Queued, ToSet
  <2>3. \A i \in 1 .. k : Queued'[i] = Queued[i + 1]
    BY <1>5, <2>1, <2>2
  <2> QED
    BY <1>3, <1>4, <1>6, <2>1, <2>2, <2>3 DEF Shifted
<1>8. Shifted(Marks, Marks') /\ Marks[1] = timeStamp[b]
  <2>1. Marks = [i \in 1 .. k + 1 |-> timeStamp[flushQueue[i]]]
    BY <1>4 DEF Marks
  <2>2. Marks' = [i \in 1 .. k |-> timeStamp[flushQueue'[i]]]
    BY <1>1, <1>4 DEF Marks
  <2>3. \A i \in 1 .. k : Marks'[i] = Marks[i + 1]
    BY <1>5, <2>1, <2>2
  <2> QED
    BY <1>3, <1>4, <1>6, <2>1, <2>2, <2>3 DEF Shifted
<1>9. AtFlush = <<>> /\ ToSet(AtFlush) = {} /\ Closing = 0
  BY <1>1 DEF AtFlush, ToSet, Closing
<1>10. AtFlush' = content[b] /\ Closing' = timeStamp[b]
  BY <1>1 DEF AtFlush, Closing
<1>11. ToSet(AtFlush)' = Queued[1]
  BY <1>7, <1>10 DEF ToSet
<1>12. ToClose' = ToClose \cup Queued[1]
  <2>1. content[b] = <<>> => ToSet(content[b]) = {}
    BY DEF ToSet
  <2>2. ToClose = (IF pd THEN ToSet(pcap_dumpfile) ELSE {}) \cup {}
    BY <1>1 DEF ToClose
  <2>3. ToClose' = (IF pd THEN ToSet(pcap_dumpfile) ELSE {}) \cup (IF content[b] # <<>> THEN ToSet(content[b]) ELSE {})
    BY <1>1 DEF ToClose, ToSet
  <2> QED
    BY <1>7, <2>1, <2>2, <2>3
<1>13. InPcaps' = InPcaps /\ ToSet(pcap_dumpfile)' = ToSet(pcap_dumpfile)
  BY <1>1 DEF InPcaps, ToSet
<1>14. DumpTypes'
  BY <1>0, <1>1 DEF Dumping, DumpTypes
<1>15. /\ InLine(InPcaps, ToSet(pcap_dumpfile), Queued[1], Queued', ToSet(Filling), ToStore)
       /\ Present(InPcaps, ToSet(pcap_dumpfile), Queued[1], Queued', ToSet(Filling)) = InPlace
  <2>1. InLine(InPcaps, ToSet(pcap_dumpfile), {}, Queued, ToSet(Filling), ToStore)
    BY <1>9 DEF Dumping, Line
  <2>2. InPlace = Present(InPcaps, ToSet(pcap_dumpfile), {}, Queued, ToSet(Filling))
    BY <1>9 DEF InPlace
  <2> QED
    BY <1>7, <2>1, <2>2, LinePops
<1>16. Line'
  <2>1. InLine(InPcaps', ToSet(pcap_dumpfile)', ToSet(AtFlush)', Queued', ToSet(Filling)', ToStore')
    BY <1>0, <1>11, <1>13, <1>15
  <2>2. UNCHANGED <<content, pcap_dumpfile, pcaps>>
    BY <1>1
  <2> QED
    BY <2>1, <2>2 DEF Dumping, Line, Ascending, ToSet
<1>17. Gathered'
  <2>1. InPlace' = InPlace
    BY <1>0, <1>11, <1>13, <1>15 DEF InPlace
  <2> QED
    BY <1>0, <1>1, <2>1 DEF Dumping, Gathered
<1>18. Slots'
  <2>1. InSlots(0, ToClose, Queued, Marks, ToSet(Filling), t_start, Current, unmarked, SlotOf)
    BY <1>9 DEF Dumping, Slots
  <2>2. InSlots(Marks[1], ToClose', Queued', Marks', ToSet(Filling), t_start, Current, unmarked, SlotOf)
    BY <1>7, <1>8, <1>12, <2>1, SlotsPop
  <2> QED
    BY <1>0, <1>1, <1>8, <1>10, <2>2 DEF Slots
<1>19. FileSlots'
  BY <1>0, <1>1 DEF Dumping, FileSlots, ToSet
<1> QED
  BY <1>14, <1>16, <1>17, <1>18, <1>19 DEF Dumping

(* The flush thread ends, or opens the dump file.                          *)
LEMMA FlushOpensDump ==
  ASSUME Threads, Pool, Storage, Dumping, FlushEnd \/ OpenDumpFile \/ OpenDumpFileFails
  PROVE  Dumping'
<1>0. /\ UNCHANGED <<dump, dueIn, duplicates, t_start, packetBuffer, current, packet>> /\ dump
      /\ ToStore' = ToStore /\ Current' = Current /\ Numbers' = Numbers /\ SlotOf' = SlotOf
      /\ Filling' = Filling /\ ToSet(Filling)' = ToSet(Filling)
  BY FlushViews DEF FlushThread, Dumping
<1>1. UNCHANGED <<flushQueue, content, timeStamp, flushed, pcaps, unmarked>>
  BY DEF FlushEnd, OpenDumpFile, OpenDumpFileFails, poolVars
<1>2. /\ Queued' = Queued /\ Marks' = Marks /\ InPcaps' = InPcaps
  BY <1>1 DEF Queued, Marks, InPcaps, ToSet
<1>3. AtFlush' = AtFlush /\ ToSet(AtFlush)' = ToSet(AtFlush)
  BY <1>1 DEF FlushEnd, OpenDumpFile, OpenDumpFileFails, AtFlush, ToSet
<1>4. FileSlots'
  BY <1>0, <1>1 DEF Dumping, FileSlots, ToSet
<1>5. InLine(InPcaps, ToSet(pcap_dumpfile), ToSet(AtFlush), Queued, ToSet(Filling), ToStore)
  BY DEF Dumping, Line
<1>6. InSlots(Closing, ToClose, Queued, Marks, ToSet(Filling), t_start, Current, unmarked, SlotOf)
  BY DEF Dumping, Slots
<1>7. CASE FlushEnd \/ OpenDumpFileFails \/ (OpenDumpFile /\ pd)
  <2>1. UNCHANGED <<pd, pcap_dumpfile, lost>> /\ (flush' = "write" => pd)
    BY <1>7 DEF FlushEnd, OpenDumpFile, OpenDumpFileFails
  <2>2. DumpTypes'
    BY <1>0, <1>1, <1>7, <2>1 DEF FlushEnd, OpenDumpFile, OpenDumpFileFails, Dumping, DumpTypes
  <2>3. Line'
    BY <1>0, <1>1, <1>2, <1>3, <1>5, <2>1 DEF Dumping, Line, Ascending, ToSet
  <2>4. Gathered'
    <3>1. InPlace' = InPlace
      BY <1>0, <1>2, <1>3, <2>1 DEF InPlace, ToSet
    <3> QED
      BY <1>0, <2>1, <3>1 DEF Dumping, Gathered
  <2>5. Slots'
    <3>1. CASE FlushEnd \/ OpenDumpFileFails
      <4>1. Closing' = 0 /\ ToClose' \in SUBSET ToClose
        BY <1>1, <2>1, <3>1 DEF FlushEnd, OpenDumpFileFails, Closing, ToClose, ToSet
      <4>2. InSlots(0, {}, Queued, Marks, ToSet(Filling), t_start, Current, unmarked, SlotOf)
        BY <1>6, SlotsDone
      <4>3. CASE OpenDumpFileFails
        <5>1. ToClose' = {}
          BY <2>1, <4>3 DEF OpenDumpFileFails, ToClose
        <5> QED
          BY <1>0, <1>1, <1>2, <4>1, <4>2, <5>1 DEF Slots
      <4>4. CASE FlushEnd
        <5>1. Closing = 0
          BY <4>4 DEF FlushEnd, Closing
        <5>2. InSlots(0, ToClose', Queued, Marks, ToSet(Filling), t_start, Current, unmarked, SlotOf)
          BY <1>6, <4>1, <5>1, SlotsShrink
        <5> QED
          BY <1>0, <1>1, <1>2, <4>1, <5>2 DEF Slots
      <4> QED
        BY <3>1, <4>3, <4>4
    <3>2. CASE OpenDumpFile /\ pd
      <4>1. Closing' = Closing /\ ToClose' = ToClose
        BY <1>1, <2>1, <3>2 DEF OpenDumpFile, Closing, ToClose, ToSet
      <4> QED
        BY <1>0, <1>1, <1>2, <1>6, <4>1 DEF Slots
    <3> QED
      BY <1>7, <3>1, <3>2
  <2> QED
    BY <1>4, <2>2, <2>3, <2>4, <2>5 DEF Dumping
(* What a failed rename has left is cut off.                               *)
<1>8. CASE OpenDumpFile /\ ~pd
  <2>1. /\ flush = "open" /\ flush' = "write" /\ pd' = TRUE /\ pcap_dumpfile' = <<>>
        /\ lost' = [lost EXCEPT !.pcap = @ \cup ToSet(pcap_dumpfile)]
    BY <1>8 DEF OpenDumpFile
  <2>2. lost.pcap' = lost.pcap \cup ToSet(pcap_dumpfile)
    BY <2>1 DEF Storage
  <2>3. ToSet(pcap_dumpfile)' = {} /\ Ascending(pcap_dumpfile)'
    BY <2>1 DEF ToSet, Ascending
  <2>4. DumpTypes'
    BY <1>0, <1>1, <2>1 DEF Dumping, DumpTypes
  <2>5. ToSet(pcap_dumpfile) \subseteq Nat
    BY DEF Dumping, DumpTypes, ToSet
  <2>6. InPlace' = Present(InPcaps, {}, ToSet(AtFlush), Queued, ToSet(Filling))
    BY <1>0, <1>2, <1>3, <2>3 DEF InPlace
  <2>7. /\ InLine(InPcaps, {}, ToSet(AtFlush), Queued, ToSet(Filling), ToStore)
        /\ \A n \in ToSet(pcap_dumpfile) : n \notin InPlace' /\ n \notin ToStore
        /\ Present(InPcaps, ToSet(pcap_dumpfile), ToSet(AtFlush), Queued, ToSet(Filling))
           = InPlace' \cup ToSet(pcap_dumpfile)
    BY <1>5, <2>5, <2>6, LineLosesFile
  <2>8. Line' /\ Gathered'
    <3>1. InLine(InPcaps', ToSet(pcap_dumpfile)', ToSet(AtFlush)', Queued', ToSet(Filling)', ToStore')
      BY <1>0, <1>2, <1>3, <2>3, <2>7
    <3>2. Line'
      BY <1>1, <2>3, <3>1 DEF Dumping, Line, Ascending, ToSet
    <3>3. InPlace = InPlace' \cup ToSet(pcap_dumpfile)
      BY <2>7 DEF InPlace
    <3> QED
      BY <1>0, <2>2, <2>7, <3>2, <3>3 DEF Dumping, Gathered
  <2>9. Slots'
    <3>1. Closing' = Closing /\ ToClose' = ToClose
      BY <1>1, <1>8, <2>1, <2>3 DEF Closing, ToClose, ToSet
    <3> QED
      BY <1>0, <1>1, <1>2, <1>6, <3>1 DEF Slots
  <2> QED
    BY <1>4, <2>4, <2>8, <2>9 DEF Dumping
<1> QED
  BY <1>7, <1>8

(* One sequence of packets behind another                                  *)
LEMMA AscendingConcat ==
  ASSUME NEW s \in Seq(Nat), NEW r \in Seq(Nat), Ascending(s), Ascending(r), Before(ToSet(s), ToSet(r))
  PROVE  Ascending(s \o r)
<1>1. /\ DOMAIN (s \o r) = 1 .. Len(s) + Len(r) /\ DOMAIN s = 1 .. Len(s) /\ DOMAIN r = 1 .. Len(r)
      /\ \A i \in 1 .. Len(s) : (s \o r)[i] = s[i]
      /\ \A i \in 1 .. Len(r) : (s \o r)[Len(s) + i] = r[i]
      /\ Len(s) \in Nat /\ Len(r) \in Nat
  BY SeqConcat
<1>2. ASSUME NEW i \in 1 .. Len(s) + Len(r), NEW j \in 1 .. Len(s) + Len(r), i < j
      PROVE  (s \o r)[i] < (s \o r)[j]
  <2>1. CASE j <= Len(s)
    <3>1. i \in DOMAIN s /\ j \in DOMAIN s /\ (s \o r)[i] = s[i] /\ (s \o r)[j] = s[j]
      BY <1>1, <1>2, <2>1
    <3> QED
      BY <1>2, <3>1 DEF Ascending
  <2>2. CASE j > Len(s)
    <3>1. j - Len(s) \in DOMAIN r /\ j = Len(s) + (j - Len(s))
      BY <1>1, <2>2
    <3>2. (s \o r)[j] = r[j - Len(s)]
      BY <1>1, <3>1
    <3>3. CASE i <= Len(s)
      <4>1. i \in DOMAIN s /\ (s \o r)[i] = s[i]
        BY <1>1, <3>3
      <4>2. s[i] \in ToSet(s) /\ r[j - Len(s)] \in ToSet(r)
        BY <3>1, <4>1 DEF ToSet
      <4> QED
        BY <3>2, <4>1, <4>2 DEF Before
    <3>4. CASE i > Len(s)
      <4>1. i - Len(s) \in DOMAIN r /\ i = Len(s) + (i - Len(s)) /\ i - Len(s) < j - Len(s)
        BY <1>1, <1>2, <3>4
      <4>2. (s \o r)[i] = r[i - Len(s)]
        BY <1>1, <4>1
      <4> QED
        BY <3>1, <3>2, <4>1, <4>2 DEF Ascending
    <3> QED
      BY <1>1, <3>3, <3>4
  <2> QED
    BY <1>1, <2>1, <2>2
<1> QED
  BY <1>1, <1>2 DEF Ascending

(* The buffer is written, or not, and returned.                            *)
LEMMA ReturnViews ==
  ASSUME Pool, Dumping, flush = "write", ReturnBuffer
  PROVE  /\ UNCHANGED <<flushQueue, timeStamp, flushed, pd, pcaps, unmarked>> /\ pd
         /\ AtFlush = content[flushed.buffer] /\ AtFlush' = <<>> /\ ToSet(AtFlush)' = {}
         /\ AtFlush \in Seq(Nat) /\ Ascending(AtFlush)
         /\ \A b \in Buffers : Ascending(content'[b])
         /\ Queued' = Queued /\ Marks' = Marks /\ Closing' = Closing /\ InPcaps' = InPcaps
         /\ ToClose = ToSet(pcap_dumpfile) \cup ToSet(AtFlush) /\ ToClose' = ToSet(pcap_dumpfile)'
         /\ flush' = "pop" \/ (flush' = "close" /\ flushed.timeStamp # 0)
<1> DEFINE b == flushed.buffer
<1>1. /\ content' = [content EXCEPT ![b] = <<>>]
      /\ flush' = IF flushed.timeStamp # 0 THEN "close" ELSE "pop"
      /\ UNCHANGED <<flushQueue, timeStamp, flushed, pd, pcaps, unmarked>>
  BY DEF ReturnBuffer, Marked
<1>2. /\ b \in Buffers /\ b \notin ToSet(flushQueue) /\ content \in [Buffers -> Seq(Nat)]
      /\ flushQueue \in Seq(Buffers) /\ pd /\ \A x \in Buffers : Ascending(content[x])
  BY DEF Pool, PoolTypes, Split, Taken, Dumping, DumpTypes, Line
<1>3. AtFlush = content[b] /\ AtFlush \in Seq(Nat) /\ Ascending(AtFlush)
  BY <1>2 DEF AtFlush
<1>4. AtFlush' = <<>> /\ ToSet(AtFlush)' = {} /\ Closing' = Closing
  BY <1>1 DEF AtFlush, ToSet, Closing
<1>5. ToClose = ToSet(pcap_dumpfile) \cup ToSet(AtFlush) /\ ToClose' = ToSet(pcap_dumpfile)'
  BY <1>1, <1>2, <1>3 DEF ToClose, ToSet
<1> HIDE DEF b
<1>6. content'[b] = <<>> /\ \A x \in Buffers : x # b => content'[x] = content[x]
  BY <1>1, <1>2
<1>7. \A i \in DOMAIN flushQueue : flushQueue[i] \in Buffers /\ flushQueue[i] # b
  BY <1>2 DEF ToSet
<1>8. Queued' = Queued /\ Marks' = Marks /\ InPcaps' = InPcaps
  BY <1>1, <1>6, <1>7 DEF Queued, Marks, InPcaps, ToSet
<1>9. \A x \in Buffers : Ascending(content'[x])
  <2>1. Ascending(<<>>)
    BY DEF Ascending
  <2> QED
    BY <1>2, <1>6, <2>1
<1> QED
  BY <1>1, <1>2, <1>3, <1>4, <1>5, <1>8, <1>9 DEF b

LEMMA WriteBufferDump ==
  ASSUME Threads, Pool, Storage, Dumping, WriteBuffer \/ WriteBufferFails
  PROVE  Dumping'
<1>0. /\ UNCHANGED <<dump, dueIn, duplicates, t_start, packetBuffer, current, packet>> /\ dump
      /\ ToStore' = ToStore /\ Current' = Current /\ Numbers' = Numbers /\ SlotOf' = SlotOf
      /\ Filling' = Filling /\ ToSet(Filling)' = ToSet(Filling)
  BY FlushViews DEF FlushThread, Dumping
<1>1. flush = "write" /\ ReturnBuffer
  BY DEF WriteBuffer, WriteBufferFails
<1>2. /\ UNCHANGED <<flushQueue, timeStamp, flushed, pd, pcaps, unmarked>> /\ pd
      /\ AtFlush = content[flushed.buffer] /\ AtFlush' = <<>> /\ ToSet(AtFlush)' = {}
      /\ AtFlush \in Seq(Nat) /\ Ascending(AtFlush)
      /\ \A b \in Buffers : Ascending(content'[b])
      /\ Queued' = Queued /\ Marks' = Marks /\ Closing' = Closing /\ InPcaps' = InPcaps
      /\ ToClose = ToSet(pcap_dumpfile) \cup ToSet(AtFlush) /\ ToClose' = ToSet(pcap_dumpfile)'
      /\ flush' = "pop" \/ (flush' = "close" /\ flushed.timeStamp # 0)
  BY <1>1, ReturnViews
<1>3. FileSlots'
  BY <1>0, <1>2 DEF Dumping, FileSlots, ToSet
<1>4. InLine(InPcaps, ToSet(pcap_dumpfile), ToSet(AtFlush), Queued, ToSet(Filling), ToStore)
  BY DEF Dumping, Line
<1>5. InSlots(Closing, ToClose, Queued, Marks, ToSet(Filling), t_start, Current, unmarked, SlotOf)
  BY DEF Dumping, Slots
<1>6. pcap_dumpfile \in Seq(Nat) /\ Ascending(pcap_dumpfile)
  BY DEF Dumping, DumpTypes, Line
<1>7. ASSUME Ascending(pcap_dumpfile)',
             InLine(InPcaps', ToSet(pcap_dumpfile)', ToSet(AtFlush)', Queued', ToSet(Filling)', ToStore')
      PROVE  Line'
  <2>1. (\A b \in Buffers : Ascending(content[b]))'
    BY <1>2 DEF Ascending
  <2>2. UNCHANGED pcaps
    BY <1>2
  <2>3. /\ (\A s \in DOMAIN pcaps : Ascending(pcaps[s]))'
        /\ (\A s, u \in DOMAIN pcaps : s # u => ToSet(pcaps[s]) \cap ToSet(pcaps[u]) = {})'
    BY <2>2 DEF Dumping, Line, Ascending, ToSet
  <2> QED
    BY <1>7, <2>1, <2>3 DEF Line
<1>8. CASE WriteBuffer
  <2>1. pcap_dumpfile' = pcap_dumpfile \o AtFlush /\ lost' = lost
    BY <1>2, <1>8 DEF WriteBuffer
  <2>2. /\ pcap_dumpfile \o AtFlush \in Seq(Nat)
        /\ ToSet(pcap_dumpfile \o AtFlush) = ToSet(pcap_dumpfile) \cup ToSet(AtFlush)
    BY <1>2, <1>6, SeqConcat
  <2>3. ToSet(pcap_dumpfile)' = ToSet(pcap_dumpfile \o AtFlush)
    BY <2>1 DEF ToSet
  <2>4. Ascending(pcap_dumpfile)'
    <3>1. Before(ToSet(pcap_dumpfile), ToSet(AtFlush))
      BY <1>4 DEF InLine
    <3>2. Ascending(pcap_dumpfile \o AtFlush)
      BY <1>2, <1>6, <3>1, AscendingConcat
    <3> QED
      BY <2>1, <3>2 DEF Ascending
  <2>5. DumpTypes'
    BY <1>0, <1>2, <2>1, <2>2 DEF Dumping, DumpTypes
  <2>6. /\ InLine(InPcaps, ToSet(pcap_dumpfile)', {}, Queued, ToSet(Filling), ToStore)
        /\ Present(InPcaps, ToSet(pcap_dumpfile)', {}, Queued, ToSet(Filling))
           = Present(InPcaps, ToSet(pcap_dumpfile), ToSet(AtFlush), Queued, ToSet(Filling))
    <3>1. ToSet(pcap_dumpfile)' = ToSet(pcap_dumpfile) \cup ToSet(AtFlush)
      BY <2>2, <2>3
    <3> QED
      BY <1>4, <3>1, LineWrites
  <2>7. Line'
    <3>1. InLine(InPcaps', ToSet(pcap_dumpfile)', ToSet(AtFlush)', Queued', ToSet(Filling)', ToStore')
      <4>1. /\ InPcaps' = InPcaps /\ ToSet(AtFlush)' = {} /\ Queued' = Queued
            /\ ToSet(Filling)' = ToSet(Filling) /\ ToStore' = ToStore
        BY <1>0, <1>2
      <4> QED
        BY <2>6, <4>1, Zenon
    <3> QED
      BY <1>7, <2>4, <3>1
  <2>8. Gathered'
    <3>1. InPlace' = InPlace
      BY <1>0, <1>2, <2>6 DEF InPlace
    <3> QED
      BY <1>0, <2>1, <3>1 DEF Dumping, Gathered
  <2>9. Slots'
    <3>1. ToClose' = ToClose
      BY <1>2, <2>2, <2>3
    <3> QED
      BY <1>0, <1>2, <1>5, <3>1 DEF Slots
  <2> QED
    BY <1>3, <2>5, <2>7, <2>8, <2>9 DEF Dumping
<1>9. CASE WriteBufferFails
  <2>1. pcap_dumpfile' = pcap_dumpfile /\ lost' = [lost EXCEPT !.pcap = @ \cup ToSet(AtFlush)]
    BY <1>2, <1>9 DEF WriteBufferFails
  <2>2. lost.pcap' = lost.pcap \cup ToSet(AtFlush)
    BY <2>1 DEF Storage
  <2>3. ToSet(pcap_dumpfile)' = ToSet(pcap_dumpfile) /\ Ascending(pcap_dumpfile)'
    BY <1>6, <2>1 DEF ToSet, Ascending
  <2>4. DumpTypes'
    BY <1>0, <1>2, <2>1 DEF Dumping, DumpTypes
  <2>5. ToSet(AtFlush) \subseteq Nat
    BY <1>2 DEF ToSet
  <2>6. InPlace' = Present(InPcaps, ToSet(pcap_dumpfile), {}, Queued, ToSet(Filling))
    BY <1>0, <1>2, <2>3 DEF InPlace
  <2>7. /\ InLine(InPcaps, ToSet(pcap_dumpfile), {}, Queued, ToSet(Filling), ToStore)
        /\ \A n \in ToSet(AtFlush) : n \notin InPlace' /\ n \notin ToStore
        /\ Present(InPcaps, ToSet(pcap_dumpfile), ToSet(AtFlush), Queued, ToSet(Filling))
           = InPlace' \cup ToSet(AtFlush)
    BY <1>4, <2>5, <2>6, LineLosesBuffer
  <2>8. Line'
    BY <1>0, <1>2, <1>7, <2>3, <2>7
  <2>9. Gathered'
    <3>1. InPlace = InPlace' \cup ToSet(AtFlush)
      BY <2>7 DEF InPlace
    <3> QED
      BY <1>0, <2>2, <2>7, <3>1 DEF Dumping, Gathered
  <2>10. Slots'
    <3>1. ToClose' \in SUBSET ToClose
      BY <1>2, <2>3
    <3>2. InSlots(Closing, ToClose', Queued, Marks, ToSet(Filling), t_start, Current, unmarked, SlotOf)
      BY <1>5, <3>1, SlotsShrink
    <3> QED
      BY <1>0, <1>2, <3>2 DEF Slots
  <2> QED
    BY <1>3, <2>4, <2>8, <2>9, <2>10 DEF Dumping
<1> QED
  BY <1>8, <1>9

(* The dump file is closed: it becomes the file of the slot, is appended  *)
(* to it, stays where it is, or is lost.                                   *)
LEMMA CloseViews ==
  ASSUME Threads, Pool, Dumping, CloseDumpFile
  PROVE  /\ UNCHANGED <<dump, dueIn, duplicates, t_start, packetBuffer, current, packet>> /\ dump
         /\ ToStore' = ToStore /\ Current' = Current /\ Numbers' = Numbers /\ SlotOf' = SlotOf
         /\ Filling' = Filling /\ ToSet(Filling)' = ToSet(Filling)
         /\ UNCHANGED <<flushQueue, content, timeStamp, flushed, unmarked>> /\ pd' = FALSE /\ flush' = "clear"
         /\ Queued' = Queued /\ Marks' = Marks /\ ToSet(AtFlush) = {} /\ ToSet(AtFlush)' = {}
         /\ InLine(InPcaps, ToSet(pcap_dumpfile), {}, Queued, ToSet(Filling), ToStore)
         /\ InPlace = Present(InPcaps, ToSet(pcap_dumpfile), {}, Queued, ToSet(Filling))
         /\ Slots'
<1>0. /\ UNCHANGED <<dump, dueIn, duplicates, t_start, packetBuffer, current, packet>> /\ dump
      /\ ToStore' = ToStore /\ Current' = Current /\ Numbers' = Numbers /\ SlotOf' = SlotOf
      /\ Filling' = Filling /\ ToSet(Filling)' = ToSet(Filling)
  BY FlushViews DEF FlushThread, Dumping
<1>1. /\ flush = "close" /\ flush' = "clear" /\ pd' = FALSE
      /\ UNCHANGED <<flushQueue, content, timeStamp, flushed, unmarked>>
  BY DEF CloseDumpFile, poolVars
<1>2. Queued' = Queued /\ Marks' = Marks
  BY <1>1 DEF Queued, Marks, ToSet
<1>3. ToSet(AtFlush) = {} /\ ToSet(AtFlush)' = {} /\ Closing' = 0 /\ ToClose' = {}
  BY <1>1 DEF AtFlush, ToSet, Closing, ToClose
<1>4. InLine(InPcaps, ToSet(pcap_dumpfile), {}, Queued, ToSet(Filling), ToStore)
  BY <1>3 DEF Dumping, Line
<1>5. InPlace = Present(InPcaps, ToSet(pcap_dumpfile), {}, Queued, ToSet(Filling))
  BY <1>3 DEF InPlace
<1>6. Slots'
  <2>1. InSlots(Closing, ToClose, Queued, Marks, ToSet(Filling), t_start, Current, unmarked, SlotOf)
    BY DEF Dumping, Slots
  <2>2. InSlots(0, {}, Queued, Marks, ToSet(Filling), t_start, Current, unmarked, SlotOf)
    BY <2>1, SlotsDone
  <2> QED
    BY <1>0, <1>1, <1>2, <1>3, <2>2 DEF Slots
<1> QED
  BY <1>0, <1>1, <1>2, <1>3, <1>4, <1>5, <1>6

Written(f) == UNION {ToSet(f[s]) : s \in DOMAIN f}

(* The file of slot k has the packets d at its end.                        *)
Closed(f, k, d, g) ==
    /\ DOMAIN g = DOMAIN f \cup {k}
    /\ \A s \in DOMAIN f : s # k => g[s] = f[s]
    /\ g[k] = IF k \in DOMAIN f THEN f[k] \o d ELSE d

Separate(f) ==
    /\ \A s \in DOMAIN f : f[s] \in Seq(Nat) /\ Ascending(f[s])
    /\ \A s, u \in DOMAIN f : s # u => ToSet(f[s]) \cap ToSet(f[u]) = {}
FromEither(f, k, d, g) ==
    \A s \in DOMAIN g : \A n \in ToSet(g[s]) : (s \in DOMAIN f /\ n \in ToSet(f[s])) \/ (s = k /\ n \in ToSet(d))

LEMMA ClosedFacts ==
  ASSUME NEW f, NEW k, NEW d \in Seq(Nat), NEW g, Closed(f, k, d, g), NEW all,
         all = Written(f), Before(all, ToSet(d)), Ascending(d), Separate(f)
  PROVE  Separate(g) /\ Written(g) = all \cup ToSet(d) /\ FromEither(f, k, d, g)
<1>0. /\ \A s \in DOMAIN f : f[s] \in Seq(Nat) /\ Ascending(f[s])
      /\ \A s, u \in DOMAIN f : s # u => ToSet(f[s]) \cap ToSet(f[u]) = {}
  BY DEF Separate
<1>1. /\ g[k] \in Seq(Nat) /\ Ascending(g[k])
      /\ ToSet(g[k]) = (IF k \in DOMAIN f THEN ToSet(f[k]) ELSE {}) \cup ToSet(d)
  <2>1. CASE k \in DOMAIN f
    <3>1. Before(ToSet(f[k]), ToSet(d))
      BY <2>1 DEF Before, Written
    <3>2. f[k] \o d \in Seq(Nat) /\ ToSet(f[k] \o d) = ToSet(f[k]) \cup ToSet(d)
      BY <1>0, <2>1, SeqConcat
    <3>3. Ascending(f[k] \o d)
      BY <1>0, <2>1, <3>1, AscendingConcat
    <3> QED
      BY <2>1, <3>2, <3>3 DEF Closed
  <2>2. CASE k \notin DOMAIN f
    BY <2>2 DEF Closed
  <2> QED
    BY <2>1, <2>2
<1>2. /\ DOMAIN g = DOMAIN f \cup {k} /\ \A s \in DOMAIN f : s # k => g[s] = f[s]
      /\ \A s \in DOMAIN f : ToSet(f[s]) \subseteq all
  BY DEF Closed, Written
<1>3. \A s \in DOMAIN g : g[s] \in Seq(Nat) /\ Ascending(g[s])
  BY <1>0, <1>1, <1>2
<1>4. \A n \in all : n \notin ToSet(d)
  <2> SUFFICES ASSUME NEW n \in all, n \in ToSet(d) PROVE FALSE
    OBVIOUS
  <2>1. n \in Nat
    BY DEF ToSet
  <2>2. n < n
    BY DEF Before
  <2> QED
    BY <2>1, <2>2
<1>5. \A s \in DOMAIN f : s # k => ToSet(g[k]) \cap ToSet(f[s]) = {}
  BY <1>0, <1>1, <1>2, <1>4
<1>6. \A s, u \in DOMAIN g : s # u => ToSet(g[s]) \cap ToSet(g[u]) = {}
  BY <1>0, <1>2, <1>5
<1>7. \A s \in DOMAIN g : \A n \in ToSet(g[s]) : (s \in DOMAIN f /\ n \in ToSet(f[s])) \/ (s = k /\ n \in ToSet(d))
  BY <1>1, <1>2
<1>8. Written(g) = all \cup ToSet(d)
  <2>1. ASSUME NEW n \in all PROVE \E s \in DOMAIN g : n \in ToSet(g[s])
    <3>1. PICK s \in DOMAIN f : n \in ToSet(f[s])
      BY <2>1 DEF Written
    <3>2. n \in ToSet(g[s])
      BY <1>1, <1>2, <3>1
    <3> QED
      BY <1>2, <3>2
  <2>2. ASSUME NEW n \in ToSet(d) PROVE k \in DOMAIN g /\ n \in ToSet(g[k])
    BY <1>1, <1>2, <2>2
  <2>3. ASSUME NEW s \in DOMAIN g, NEW n \in ToSet(g[s]) PROVE n \in all \cup ToSet(d)
    BY <1>2, <1>7, <2>3
  <2> QED
    BY <2>1, <2>2, <2>3 DEF Written
<1> QED
  BY <1>3, <1>6, <1>7, <1>8 DEF Separate, FromEither

LEMMA CloseDumpFileDump ==
  ASSUME Threads, Pool, Storage, Dumping, CloseDumpFile
  PROVE  Dumping'
<1> DEFINE slot == flushed.timeStamp
<1>1. /\ UNCHANGED <<dump, dueIn, duplicates, t_start, packetBuffer, current, packet>> /\ dump
      /\ ToStore' = ToStore /\ Current' = Current /\ Numbers' = Numbers /\ SlotOf' = SlotOf
      /\ Filling' = Filling /\ ToSet(Filling)' = ToSet(Filling)
      /\ UNCHANGED <<flushQueue, content, timeStamp, flushed, unmarked>> /\ pd' = FALSE /\ flush' = "clear"
      /\ Queued' = Queued /\ Marks' = Marks /\ ToSet(AtFlush) = {} /\ ToSet(AtFlush)' = {}
      /\ InLine(InPcaps, ToSet(pcap_dumpfile), {}, Queued, ToSet(Filling), ToStore)
      /\ InPlace = Present(InPcaps, ToSet(pcap_dumpfile), {}, Queued, ToSet(Filling))
      /\ Slots'
  BY CloseViews
<1>2. /\ pcap_dumpfile \in Seq(Nat) /\ Ascending(pcap_dumpfile)
      /\ \A s \in DOMAIN pcaps : pcaps[s] \in Seq(Nat) /\ Ascending(pcaps[s])
      /\ \A s, u \in DOMAIN pcaps : s # u => ToSet(pcaps[s]) \cap ToSet(pcaps[u]) = {}
  BY DEF Dumping, DumpTypes, Line
<1>3. ToSet(<<>>) = {} /\ Ascending(<<>>) /\ <<>> \in Seq(Nat)
  BY DEF ToSet, Ascending
<1>4. ASSUME pcap_dumpfile' = pcap_dumpfile \/ pcap_dumpfile' = <<>>,
             InLine(InPcaps', ToSet(pcap_dumpfile)', {}, Queued, ToSet(Filling), ToStore),
             (\A s \in DOMAIN pcaps : pcaps[s] \in Seq(Nat))',
             (\A s \in DOMAIN pcaps : Ascending(pcaps[s]))',
             (\A s, u \in DOMAIN pcaps : s # u => ToSet(pcaps[s]) \cap ToSet(pcaps[u]) = {})'
      PROVE  DumpTypes' /\ Line'
  <2>1. pcap_dumpfile' \in Seq(Nat) /\ Ascending(pcap_dumpfile)'
    BY <1>2, <1>3, <1>4 DEF Ascending
  <2>2. DumpTypes'
    BY <1>1, <1>4, <2>1 DEF Dumping, DumpTypes
  <2>3. (\A b \in Buffers : Ascending(content[b]))'
    BY <1>1 DEF Dumping, Line, Ascending
  <2> QED
    BY <1>1, <1>4, <2>1, <2>2, <2>3 DEF Line
<1>5. ASSUME UNCHANGED pcaps
      PROVE  /\ InPcaps' = InPcaps /\ FileSlots'
             /\ (\A s \in DOMAIN pcaps : pcaps[s] \in Seq(Nat))'
             /\ (\A s \in DOMAIN pcaps : Ascending(pcaps[s]))'
             /\ (\A s, u \in DOMAIN pcaps : s # u => ToSet(pcaps[s]) \cap ToSet(pcaps[u]) = {})'
  <2>1. InPcaps' = InPcaps
    BY <1>5 DEF InPcaps, ToSet
  <2>2. (\A s \in DOMAIN pcaps : pcaps[s] \in Seq(Nat))'
    BY <1>2, <1>5
  <2>3. /\ (\A s \in DOMAIN pcaps : Ascending(pcaps[s]))'
        /\ (\A s, u \in DOMAIN pcaps : s # u => ToSet(pcaps[s]) \cap ToSet(pcaps[u]) = {})'
    BY <1>5 DEF Dumping, Line, Ascending, ToSet
  <2>4. FileSlots'
    BY <1>1, <1>5 DEF Dumping, FileSlots, ToSet
  <2> QED
    BY <2>1, <2>2, <2>3, <2>4
<1>6. CASE UNCHANGED <<pcaps, pcap_dumpfile, lost>>
  <2>1. ToSet(pcap_dumpfile)' = ToSet(pcap_dumpfile)
    BY <1>6 DEF ToSet
  <2>2. DumpTypes' /\ Line'
    BY <1>1, <1>4, <1>5, <1>6, <2>1
  <2>3. InPlace' = InPlace
    BY <1>1, <1>5, <1>6, <2>1 DEF InPlace
  <2>4. Gathered'
    BY <1>1, <1>6, <2>3 DEF Dumping, Gathered
  <2> QED
    BY <1>1, <1>5, <1>6, <2>2, <2>4 DEF Dumping
<1>7. CASE pcaps' = pcaps /\ pcap_dumpfile' = <<>> /\ lost' = [lost EXCEPT !.pcap = @ \cup ToSet(pcap_dumpfile)]
  <2>1. ToSet(pcap_dumpfile)' = {} /\ ToSet(pcap_dumpfile) \subseteq Nat
    BY <1>2, <1>7 DEF ToSet
  <2>2. lost.pcap' = lost.pcap \cup ToSet(pcap_dumpfile)
    BY <1>7 DEF Storage
  <2>3. InPlace' = Present(InPcaps, {}, {}, Queued, ToSet(Filling))
    BY <1>1, <1>5, <1>7, <2>1 DEF InPlace
  <2>4. /\ InLine(InPcaps, {}, {}, Queued, ToSet(Filling), ToStore)
        /\ \A n \in ToSet(pcap_dumpfile) : n \notin InPlace' /\ n \notin ToStore
        /\ Present(InPcaps, ToSet(pcap_dumpfile), {}, Queued, ToSet(Filling)) = InPlace' \cup ToSet(pcap_dumpfile)
    BY <1>1, <2>1, <2>3, LineLosesFile
  <2>5. DumpTypes' /\ Line'
    BY <1>4, <1>5, <1>7, <2>1, <2>4
  <2>6. Gathered'
    BY <1>1, <2>2, <2>4 DEF Dumping, Gathered
  <2> QED
    BY <1>1, <1>5, <1>7, <2>5, <2>6 DEF Dumping
<1>8. CASE /\ pd /\ pcap_dumpfile' = <<>> /\ lost' = lost
           /\ pcaps' = Put(pcaps, slot, IF slot \in DOMAIN pcaps THEN pcaps[slot] \o pcap_dumpfile ELSE pcap_dumpfile)
  <2>1. Closed(pcaps, slot, pcap_dumpfile, pcaps')
    <3> DEFINE v == IF slot \in DOMAIN pcaps THEN pcaps[slot] \o pcap_dumpfile ELSE pcap_dumpfile
    <3>1. pcaps' = Put(pcaps, slot, v)
      BY <1>8
    <3> HIDE DEF v, slot
    <3>2. /\ DOMAIN pcaps' = DOMAIN pcaps \cup {slot} /\ pcaps'[slot] = v
          /\ \A x \in DOMAIN pcaps : x # slot => pcaps'[x] = pcaps[x]
      BY <3>1 DEF Put
    <3> QED
      BY <3>2 DEF Closed, v
  <2>2. InPcaps = Written(pcaps) /\ Before(InPcaps, ToSet(pcap_dumpfile))
    BY <1>1 DEF InPcaps, InLine, Written
  <2> HIDE DEF slot
  <2>3. /\ \A s \in DOMAIN pcaps' : pcaps'[s] \in Seq(Nat) /\ Ascending(pcaps'[s])
        /\ \A s, u \in DOMAIN pcaps' : s # u => ToSet(pcaps'[s]) \cap ToSet(pcaps'[u]) = {}
        /\ Written(pcaps') = InPcaps \cup ToSet(pcap_dumpfile)
        /\ \A s \in DOMAIN pcaps' : \A n \in ToSet(pcaps'[s]) :
             (s \in DOMAIN pcaps /\ n \in ToSet(pcaps[s])) \/ (s = slot /\ n \in ToSet(pcap_dumpfile))
    <3>1. Separate(pcaps)
      BY <1>2 DEF Separate
    <3>2. Separate(pcaps') /\ Written(pcaps') = InPcaps \cup ToSet(pcap_dumpfile)
          /\ FromEither(pcaps, slot, pcap_dumpfile, pcaps')
      BY <1>2, <2>1, <2>2, <3>1, ClosedFacts
    <3> QED
      BY <3>2 DEF Separate, FromEither
  <2>4. InPcaps' = InPcaps \cup ToSet(pcap_dumpfile)
    BY <2>3 DEF InPcaps, Written, ToSet
  <2>5. ToSet(pcap_dumpfile)' = {}
    BY <1>8 DEF ToSet
  <2>6. /\ InLine(InPcaps', {}, {}, Queued, ToSet(Filling), ToStore)
        /\ Present(InPcaps', {}, {}, Queued, ToSet(Filling))
           = Present(InPcaps, ToSet(pcap_dumpfile), {}, Queued, ToSet(Filling))
    BY <1>1, <2>4, LineCloses
  <2>7. /\ (\A s \in DOMAIN pcaps : pcaps[s] \in Seq(Nat))'
        /\ (\A s \in DOMAIN pcaps : Ascending(pcaps[s]))'
        /\ (\A s, u \in DOMAIN pcaps : s # u => ToSet(pcaps[s]) \cap ToSet(pcaps[u]) = {})'
    BY <2>3 DEF Ascending, ToSet
  <2>8. DumpTypes' /\ Line'
    BY <1>4, <1>8, <2>5, <2>6, <2>7
  <2>9. Gathered'
    <3>1. InPlace' = InPlace
      BY <1>1, <2>5, <2>6 DEF InPlace
    <3> QED
      BY <1>1, <1>8, <3>1 DEF Dumping, Gathered
  <2>10. FileSlots'
    <3>1. InSlots(slot, ToSet(pcap_dumpfile), Queued, Marks, ToSet(Filling), t_start, Current, unmarked, SlotOf)
      <4>1. Closing = slot /\ ToClose = ToSet(pcap_dumpfile)
        BY <1>8 DEF CloseDumpFile, Closing, ToClose, slot
      <4> QED
        BY <4>1 DEF Dumping, Slots
    <3>2. slot # 0
      BY DEF CloseDumpFile, Dumping, DumpTypes, slot
    <3>3. \A n \in ToSet(pcap_dumpfile) : SlotOf[n] = slot \/ (SlotOf[n] < slot /\ SlotOf[n] \in unmarked)
      BY <3>1, <3>2, SlotsClosed
    <3>4. \A s \in DOMAIN pcaps : \A n \in ToSet(pcaps[s]) : SlotOf[n] = s \/ (SlotOf[n] < s /\ SlotOf[n] \in unmarked)
      BY DEF Dumping, FileSlots
    <3>5. \A s \in DOMAIN pcaps' : \A n \in ToSet(pcaps'[s]) : SlotOf[n] = s \/ (SlotOf[n] < s /\ SlotOf[n] \in unmarked)
      BY <2>3, <3>3, <3>4
    <3> QED
      BY <1>1, <3>5 DEF FileSlots, ToSet
  <2> QED
    BY <1>1, <2>8, <2>9, <2>10 DEF Dumping
<1> QED
  BY <1>6, <1>7, <1>8 DEF CloseDumpFile

(* The mark is taken off the flush thread's last buffer, wherever it is.   *)
LEMMA ClearDump ==
  ASSUME Threads, Pool, Dumping, ClearTimeStamp
  PROVE  Dumping'
<1> DEFINE b == flushed.buffer
           un == unmarked \cup (IF b \in ToSet(flushQueue) THEN {timeStamp[b]} \ {0} ELSE {})
<1>0. /\ UNCHANGED <<dump, dueIn, duplicates, t_start, packetBuffer, current, packet>> /\ dump
      /\ ToStore' = ToStore /\ Current' = Current /\ Numbers' = Numbers /\ SlotOf' = SlotOf
      /\ Filling' = Filling /\ ToSet(Filling)' = ToSet(Filling)
  BY FlushViews DEF FlushThread, Dumping
<1>1. /\ flush = "clear" /\ flush' = "pop" /\ timeStamp' = [timeStamp EXCEPT ![b] = 0] /\ unmarked' = un
      /\ UNCHANGED <<flushQueue, content, flushed, pd, pcap_dumpfile, pcaps, lost>>
  BY DEF ClearTimeStamp
<1>2. /\ b \in Buffers /\ timeStamp \in [Buffers -> Nat] /\ flushQueue \in Seq(Buffers) /\ NoRepeats(flushQueue)
  BY <1>1 DEF Pool, PoolTypes
<1> HIDE DEF b
<1>3. /\ Queued' = Queued /\ InPcaps' = InPcaps /\ ToSet(pcap_dumpfile)' = ToSet(pcap_dumpfile)
  BY <1>1 DEF Queued, InPcaps, ToSet
<1>4. /\ ToSet(AtFlush) = {} /\ ToSet(AtFlush)' = {} /\ Closing = 0 /\ Closing' = 0 /\ ToClose' = ToClose
  BY <1>1 DEF AtFlush, ToSet, Closing, ToClose
<1>5. DumpTypes'
  BY <1>0, <1>1 DEF Dumping, DumpTypes
<1>6. Line'
  <2>1. UNCHANGED <<content, pcap_dumpfile, pcaps>>
    BY <1>1
  <2>2. InLine(InPcaps', ToSet(pcap_dumpfile)', ToSet(AtFlush)', Queued', ToSet(Filling)', ToStore')
    BY <1>0, <1>3, <1>4 DEF Dumping, Line
  <2>3. /\ (\A x \in Buffers : Ascending(content[x]))'
        /\ Ascending(pcap_dumpfile)' /\ (\A s \in DOMAIN pcaps : Ascending(pcaps[s]))'
        /\ (\A s, u \in DOMAIN pcaps : s # u => ToSet(pcaps[s]) \cap ToSet(pcaps[u]) = {})'
    BY <2>1 DEF Dumping, Line, Ascending, ToSet
  <2> QED
    BY <2>2, <2>3 DEF Line
<1>7. Gathered'
  <2>1. InPlace' = InPlace
    BY <1>0, <1>3, <1>4 DEF InPlace
  <2> QED
    BY <1>0, <1>1, <2>1 DEF Dumping, Gathered
<1>8. timeStamp'[b] = 0 /\ \A x \in Buffers : x # b => timeStamp'[x] = timeStamp[x]
  BY <1>1, <1>2
<1>9. Slots'
  <2>1. InSlots(0, ToClose, Queued, Marks, ToSet(Filling), t_start, Current, unmarked, SlotOf)
    BY <1>4 DEF Dumping, Slots
  <2>2. InSlots(0, ToClose, Queued, Marks', ToSet(Filling), t_start, Current, un, SlotOf)
    <3>1. CASE b \in ToSet(flushQueue)
      <4>1. PICK k \in DOMAIN flushQueue : flushQueue[k] = b
        BY <3>1 DEF ToSet
      <4>2. \A i \in DOMAIN flushQueue : flushQueue[i] \in Buffers /\ (i # k => flushQueue[i] # b)
        BY <1>2, <4>1 DEF NoRepeats
      <4>3. /\ DOMAIN Queued = DOMAIN flushQueue /\ DOMAIN Marks = DOMAIN flushQueue
            /\ Marks[k] = timeStamp[b] /\ \A i \in DOMAIN flushQueue : Marks[i] = timeStamp[flushQueue[i]]
        BY <4>1 DEF Queued, Marks
      <4>4. /\ DOMAIN Marks' = DOMAIN flushQueue /\ Marks'[k] = 0
            /\ \A i \in DOMAIN flushQueue : i # k => Marks'[i] = Marks[i]
        BY <1>1, <1>8, <4>1, <4>2 DEF Marks
      <4>5. un = unmarked \cup ({Marks[k]} \ {0})
        BY <3>1, <4>3
      <4> HIDE DEF un
      <4> QED
        BY <2>1, <4>1, <4>3, <4>4, <4>5, SlotsUnmark
    <3>2. CASE b \notin ToSet(flushQueue)
      <4>1. un = unmarked
        BY <3>2
      <4>2. \A i \in DOMAIN flushQueue : flushQueue[i] \in Buffers /\ flushQueue[i] # b
        BY <1>2, <3>2 DEF ToSet
      <4>3. Marks' = Marks
        BY <1>1, <1>8, <4>2 DEF Marks
      <4> QED
        BY <2>1, <4>1, <4>3
    <3> QED
      BY <3>1, <3>2
  <2> QED
    BY <1>0, <1>1, <1>3, <1>4, <2>2 DEF Slots
<1>10. FileSlots'
  <2>1. unmarked \subseteq unmarked'
    BY <1>1
  <2> HIDE DEF un
  <2>2. \A s \in DOMAIN pcaps : \A n \in ToSet(pcaps[s]) : SlotOf[n] = s \/ (SlotOf[n] < s /\ SlotOf[n] \in unmarked')
    BY <2>1 DEF Dumping, FileSlots
  <2> QED
    BY <1>0, <1>1, <2>2 DEF FileSlots, ToSet
<1> QED
  BY <1>5, <1>6, <1>7, <1>9, <1>10 DEF Dumping

LEMMA DumpInit ==
  ASSUME Init
  PROVE  Dumping
<1>1. PICK s \in Setups : pcaps = (IF s.again THEN [t \in {Start} |-> <<>>] ELSE <<>>) /\ dump = s.dump
  BY DEF Init
<1>2. /\ dueIn = <<>> /\ duplicates = {} /\ packet = "start" /\ t_start = Start /\ current = None /\ packetBuffer = None
      /\ flushQueue = <<>> /\ content = [b \in Buffers |-> <<>>] /\ timeStamp = [b \in Buffers |-> 0]
      /\ flush = (IF dump THEN "pop" ELSE "exited") /\ pd = FALSE /\ pcap_dumpfile = <<>>
      /\ lost = [pcap |-> {}, flow |-> {}] /\ unmarked = {}
  BY DEF Init
<1>3. ToSet(<<>>) = {} /\ Ascending(<<>>) /\ <<>> \in Seq(Nat)
  BY DEF ToSet, Ascending
<1>4. \A x \in DOMAIN pcaps : pcaps[x] = <<>>
  BY <1>1
<1>5. InPcaps = {}
  BY <1>3, <1>4 DEF InPcaps
<1>6. /\ ToSet(pcap_dumpfile) = {} /\ AtFlush = <<>> /\ ToSet(AtFlush) = {} /\ Filling = <<>> /\ ToSet(Filling) = {}
      /\ DOMAIN Queued = {} /\ DOMAIN Marks = {} /\ ToStore = {} /\ Closing = 0 /\ ToClose = {} /\ Numbers = {}
  BY <1>2, <1>3 DEF AtFlush, Filling, Queued, Marks, ToStore, Waiting, Closing, ToClose, Numbers
<1>7. DumpTypes
  BY <1>2, <1>3, <1>4 DEF DumpTypes
<1>8. Line
  <2>1. InLine({}, {}, {}, Queued, {}, {})
    BY <1>6 DEF InLine, Before
  <2>2. \A b \in Buffers : Ascending(content[b])
    BY <1>2, <1>3
  <2>3. \A x \in DOMAIN pcaps : Ascending(pcaps[x]) /\ ToSet(pcaps[x]) = {}
    BY <1>3, <1>4
  <2> QED
    BY <1>2, <1>3, <1>5, <1>6, <2>1, <2>2, <2>3 DEF Line
<1>9. Gathered
  <2>1. InPlace = {}
    BY <1>5, <1>6 DEF InPlace, Present
  <2> QED
    BY <1>2, <1>6, <2>1 DEF Gathered
<1>10. Slots
  <2>1. t_start \in Nat \ {0} /\ Current \in SUBSET {t_start}
    BY <1>2, StartFacts DEF Current
  <2>2. InSlots(0, {}, Queued, Marks, {}, t_start, Current, unmarked, SlotOf)
    BY <1>6, <2>1, SlotsNone
  <2> QED
    BY <1>6, <2>2, Zenon DEF Slots
<1>11. FileSlots
  BY <1>3, <1>4 DEF FileSlots
<1> QED
  BY <1>7, <1>8, <1>9, <1>10, <1>11 DEF Dumping

LEMMA DumpStep ==
  ASSUME Inductive, Dumping, [Next]_vars
  PROVE  Dumping'
<1>1. Threads /\ Times /\ Pool /\ Storage
  BY DEF Inductive
<1>2. CASE FirstBuffer \/ Refill \/ SwapBuffer
  BY <1>1, <1>2, BuffersTaken
<1>3. CASE RotateDump \/ Finish \/ BufferFull \/ EndOfCapture \/ IdleInSlot \/ IdleAfterSlot
  BY <1>1, <1>3, PushesDump, QuietMoves
<1>4. CASE NextPacket \/ SyncFlows \/ Process \/ PcapDump
  BY <1>1, <1>4, NextPacketDump, SyncFlowsDump, ProcessDump, PcapDumpDump
<1>5. CASE FlushThread
  BY <1>1, <1>5, FlushPopDump, FlushOpensDump, WriteBufferDump, CloseDumpFileDump, ClearDump DEF FlushThread
<1>6. CASE FlowThread \/ MainThread \/ Terminate \/ UNCHANGED vars
  BY <1>1, <1>6, OthersDump
<1> QED
  BY <1>2, <1>3, <1>4, <1>5, <1>6 DEF Next, PacketThread

(* The strengthening of PacketsDumped that a step preserves: each packet   *)
(* that is not a duplicate is in the packet thread's hand, in a buffer, in *)
(* the dump file or in a pcap file, the places stand in the order of the   *)
(* packets, and the slots they are due in only rise along them, but across *)
(* a mark the flush thread took off (pcap_packet_thread, flush_thread,     *)
(* PcapDump, CloseDumpFile).                                               *)
THEOREM CaptureDumping == Spec => []Dumping
<1>1. Init => Dumping
  BY DumpInit
<1>2. Inductive /\ Dumping /\ [Next]_vars => Dumping'
  BY DumpStep
<1> QED
  BY <1>1, <1>2, CaptureInductive, PTL DEF Spec

(* A buffer with packets is in line.                                       *)
LEMMA BufferInLine ==
  ASSUME Pool, NEW b \in Buffers
  PROVE  \/ content[b] = <<>>
         \/ b = packetBuffer /\ content[b] = Filling
         \/ Taken = {b} /\ content[b] = AtFlush
         \/ \E i \in DOMAIN flushQueue : b = flushQueue[i] /\ ToSet(content[b]) = Queued[i]
<1>1. CASE b \in ToSet(bufferQueue) \cup dropped
  BY <1>1 DEF Pool
<1>2. CASE b \in Held
  BY <1>2 DEF Held, Filling
<1>3. CASE b \in Taken
  BY <1>3 DEF Taken, AtFlush
<1>4. CASE b \in ToSet(flushQueue)
  BY <1>4 DEF ToSet, Queued
<1> QED
  BY <1>1, <1>2, <1>3, <1>4 DEF Pool, Split

LEMMA BeforeDisjoint ==
  ASSUME NEW A \in SUBSET Nat, NEW B, Before(A, B)
  PROVE  A \cap B = {} /\ B \cap A = {}
<1> SUFFICES ASSUME NEW n \in A, n \in B PROVE FALSE
  OBVIOUS
<1>1. n < n /\ n \in Nat
  BY DEF Before
<1> QED
  BY <1>1

LEMMA DumpDisjoint ==
  ASSUME Inductive, Dumping
  PROVE  /\ InPlace \subseteq Nat
         /\ \A b \in Buffers : ToSet(content[b]) \subseteq InPlace
         /\ \A b, c \in Buffers : b # c => ToSet(content[b]) \cap ToSet(content[c]) = {}
         /\ \A b \in Buffers : ToSet(content[b]) \cap ToSet(pcap_dumpfile) = {}
         /\ \A b \in Buffers : ToSet(content[b]) \cap InPcaps = {}
         /\ ToSet(pcap_dumpfile) \cap InPcaps = {}
<1>1. Pool
  BY DEF Inductive
<1>2. InLine(InPcaps, ToSet(pcap_dumpfile), ToSet(AtFlush), Queued, ToSet(Filling), ToStore)
  BY DEF Dumping, Line
<1>3. InPlace \subseteq Nat
  BY DEF Inductive, Threads, Dumping, Gathered, Numbers
<1>4. /\ InPcaps \subseteq InPlace /\ ToSet(pcap_dumpfile) \subseteq InPlace /\ ToSet(AtFlush) \subseteq InPlace
      /\ ToSet(Filling) \subseteq InPlace /\ \A i \in DOMAIN Queued : Queued[i] \subseteq InPlace
  BY DEF InPlace, Present
<1>5. /\ InPcaps \in SUBSET Nat /\ ToSet(pcap_dumpfile) \in SUBSET Nat /\ ToSet(AtFlush) \in SUBSET Nat
      /\ ToSet(Filling) \in SUBSET Nat /\ \A i \in DOMAIN Queued : Queued[i] \in SUBSET Nat
  BY <1>3, <1>4
<1>6. /\ ToSet(pcap_dumpfile) \cap InPcaps = {} /\ ToSet(AtFlush) \cap InPcaps = {} /\ ToSet(Filling) \cap InPcaps = {}
      /\ ToSet(AtFlush) \cap ToSet(pcap_dumpfile) = {} /\ ToSet(Filling) \cap ToSet(pcap_dumpfile) = {}
      /\ ToSet(AtFlush) \cap ToSet(Filling) = {} /\ ToSet(Filling) \cap ToSet(AtFlush) = {}
  BY <1>2, <1>5, BeforeDisjoint DEF InLine
<1>7. \A i \in DOMAIN Queued :
        /\ Queued[i] \cap InPcaps = {} /\ Queued[i] \cap ToSet(pcap_dumpfile) = {}
        /\ Queued[i] \cap ToSet(AtFlush) = {} /\ ToSet(AtFlush) \cap Queued[i] = {}
        /\ Queued[i] \cap ToSet(Filling) = {} /\ ToSet(Filling) \cap Queued[i] = {}
  <2> TAKE i \in DOMAIN Queued
  <2>1. /\ Before(InPcaps, Queued[i]) /\ Before(ToSet(pcap_dumpfile), Queued[i]) /\ Before(ToSet(AtFlush), Queued[i])
        /\ Before(Queued[i], ToSet(Filling)) /\ Queued[i] \in SUBSET Nat
    BY <1>2, <1>5 DEF InLine
  <2> QED
    BY <1>5, <2>1, BeforeDisjoint
<1>8. \A i, j \in DOMAIN Queued : i # j => Queued[i] \cap Queued[j] = {}
  <2> SUFFICES ASSUME NEW i \in DOMAIN Queued, NEW j \in DOMAIN Queued, i # j PROVE Queued[i] \cap Queued[j] = {}
    OBVIOUS
  <2>1. i < j \/ j < i
    <3>1. DOMAIN Queued = 1 .. Len(flushQueue) /\ Len(flushQueue) \in Nat
      BY <1>1 DEF Queued, Pool, PoolTypes
    <3> QED
      BY <3>1
  <2>2. Before(Queued[i], Queued[j]) \/ Before(Queued[j], Queued[i])
    BY <1>2, <2>1 DEF InLine
  <2> QED
    BY <1>5, <2>2, BeforeDisjoint
<1>9. ToSet(<<>>) = {}
  BY DEF ToSet
<1>10. DOMAIN Queued = DOMAIN flushQueue
  BY DEF Queued
<1>11. ASSUME NEW b \in Buffers
       PROVE  /\ ToSet(content[b]) \subseteq InPlace
              /\ ToSet(content[b]) \cap ToSet(pcap_dumpfile) = {} /\ ToSet(content[b]) \cap InPcaps = {}
  BY <1>1, <1>4, <1>6, <1>7, <1>9, <1>10, BufferInLine
<1>12. ASSUME NEW b \in Buffers, NEW c \in Buffers, b # c
       PROVE  ToSet(content[b]) \cap ToSet(content[c]) = {}
  <2>1. CASE content[b] = <<>> \/ content[c] = <<>>
    BY <1>9, <2>1
  <2>2. CASE b = packetBuffer /\ content[b] = Filling
    BY <1>1, <1>6, <1>7, <1>9, <1>10, <1>12, <2>2, BufferInLine
  <2>3. CASE Taken = {b} /\ content[b] = AtFlush
    <3>1. Taken # {c}
      BY <1>12, <2>3
    <3> QED
      BY <1>1, <1>6, <1>7, <1>9, <1>10, <2>3, <3>1, BufferInLine
  <2>4. CASE \E i \in DOMAIN flushQueue : b = flushQueue[i] /\ ToSet(content[b]) = Queued[i]
    <3>1. PICK i \in DOMAIN Queued : b = flushQueue[i] /\ ToSet(content[b]) = Queued[i]
      BY <1>10, <2>4
    <3>2. \A j \in DOMAIN Queued : c = flushQueue[j] => Queued[i] \cap Queued[j] = {}
      BY <1>8, <1>12, <3>1
    <3> QED
      BY <1>1, <1>7, <1>9, <1>10, <3>1, <3>2, BufferInLine
  <2> QED
    BY <1>1, <2>1, <2>2, <2>3, <2>4, BufferInLine
<1> QED
  BY <1>3, <1>6, <1>11, <1>12

LEMMA AscendingOnce ==
  ASSUME NEW s \in Seq(Nat), Ascending(s), NEW i \in DOMAIN s, NEW j \in DOMAIN s, s[i] = s[j]
  PROVE  i = j
<1>1. i \in Nat /\ j \in Nat /\ s[i] \in Nat /\ s[j] \in Nat
  OBVIOUS
<1>2. ~(i < j) /\ ~(j < i)
  BY <1>1 DEF Ascending
<1> QED
  BY <1>1, <1>2

(* Two positions of the dump that hold the same packet are the same one.   *)
LEMMA DumpedOnce ==
  ASSUME Inductive, Dumping, NEW p \in Places, NEW q \in Places,
         NEW i \in DOMAIN Dumped(p), NEW j \in DOMAIN Dumped(q), Dumped(p)[i] = Dumped(q)[j]
  PROVE  p = q /\ i = j
<1>1. /\ \A b, c \in Buffers : b # c => ToSet(content[b]) \cap ToSet(content[c]) = {}
      /\ \A b \in Buffers : ToSet(content[b]) \cap ToSet(pcap_dumpfile) = {}
      /\ \A b \in Buffers : ToSet(content[b]) \cap InPcaps = {}
      /\ ToSet(pcap_dumpfile) \cap InPcaps = {}
  BY DumpDisjoint
<1>2. \A s, u \in DOMAIN pcaps : s # u => ToSet(pcaps[s]) \cap ToSet(pcaps[u]) = {}
  BY DEF Dumping, Line
<1>3. \A s \in DOMAIN pcaps : ToSet(pcaps[s]) \subseteq InPcaps
  BY DEF InPcaps
<1>4. Dumped(p)[i] \in ToSet(Dumped(p)) /\ Dumped(p)[i] \in ToSet(Dumped(q))
  BY DEF ToSet
<1>5. /\ Dumped(<<"file">>) = pcap_dumpfile
      /\ \A b : Dumped(<<"buffer", b>>) = content[b]
      /\ \A s : Dumped(<<"slot", s>>) = pcaps[s]
  BY DEF Dumped
<1>6. ASSUME NEW x \in Places
      PROVE  \/ x = <<"file">> /\ Dumped(x) = pcap_dumpfile
             \/ \E b \in Buffers : x = <<"buffer", b>> /\ Dumped(x) = content[b]
             \/ \E s \in DOMAIN pcaps : x = <<"slot", s>> /\ Dumped(x) = pcaps[s]
  BY <1>5 DEF Places
<1>7. ASSUME NEW x \in Places
      PROVE  Dumped(x) \in Seq(Nat) /\ Ascending(Dumped(x))
  <2>1. /\ pcap_dumpfile \in Seq(Nat) /\ Ascending(pcap_dumpfile)
        /\ \A b \in Buffers : content[b] \in Seq(Nat) /\ Ascending(content[b])
        /\ \A s \in DOMAIN pcaps : pcaps[s] \in Seq(Nat) /\ Ascending(pcaps[s])
    BY DEF Dumping, DumpTypes, Line, Inductive, Pool, PoolTypes
  <2> QED
    BY <1>6, <2>1
<1>8. p = q
  <2>1. CASE Dumped(p) = pcap_dumpfile /\ p = <<"file">>
    BY <1>1, <1>3, <1>4, <1>6, <2>1
  <2>2. CASE \E b \in Buffers : p = <<"buffer", b>> /\ Dumped(p) = content[b]
    <3>1. PICK b \in Buffers : p = <<"buffer", b>> /\ Dumped(p) = content[b]
      BY <2>2
    <3>2. ~\E s \in DOMAIN pcaps : Dumped(q) = pcaps[s]
      BY <1>1, <1>3, <1>4, <3>1
    <3>3. Dumped(q) # pcap_dumpfile
      BY <1>1, <1>4, <3>1
    <3>4. \A c \in Buffers : Dumped(q) = content[c] => c = b
      BY <1>1, <1>4, <3>1
    <3> QED
      BY <1>6, <3>1, <3>2, <3>3, <3>4
  <2>3. CASE \E s \in DOMAIN pcaps : p = <<"slot", s>> /\ Dumped(p) = pcaps[s]
    <3>1. PICK s \in DOMAIN pcaps : p = <<"slot", s>> /\ Dumped(p) = pcaps[s]
      BY <2>3
    <3>2. ~\E b \in Buffers : Dumped(q) = content[b]
      BY <1>1, <1>3, <1>4, <3>1
    <3>3. Dumped(q) # pcap_dumpfile
      BY <1>1, <1>3, <1>4, <3>1
    <3>4. \A u \in DOMAIN pcaps : Dumped(q) = pcaps[u] => u = s
      BY <1>2, <1>4, <3>1
    <3> QED
      BY <1>6, <3>1, <3>2, <3>3, <3>4
  <2> QED
    BY <1>6, <2>1, <2>2, <2>3
<1>9. i = j
  <2> DEFINE s == Dumped(p)
  <2>1. s \in Seq(Nat) /\ Ascending(s) /\ i \in DOMAIN s /\ j \in DOMAIN s /\ s[i] = s[j]
    BY <1>7, <1>8
  <2> HIDE DEF s
  <2> QED
    BY <2>1, AscendingOnce
<1> QED
  BY <1>8, <1>9

LEMMA InDumpInPlace ==
  ASSUME Inductive, Dumping
  PROVE  InDump = InPlace
<1>1. Pool
  BY DEF Inductive
<1>2. /\ Dumped(<<"file">>) = pcap_dumpfile
      /\ \A b : Dumped(<<"buffer", b>>) = content[b]
      /\ \A s : Dumped(<<"slot", s>>) = pcaps[s]
  BY DEF Dumped
<1>3. /\ <<"file">> \in Places
      /\ \A b \in Buffers : <<"buffer", b>> \in Places
      /\ \A s \in DOMAIN pcaps : <<"slot", s>> \in Places
  BY DEF Places
<1>4. ToSet(pcap_dumpfile) \subseteq InDump /\ InPcaps \subseteq InDump
      /\ \A b \in Buffers : ToSet(content[b]) \subseteq InDump
  BY <1>2, <1>3 DEF InDump, InPcaps
<1>5. InPlace \subseteq InDump
  <2>1. ToSet(<<>>) = {}
    BY DEF ToSet
  <2>2. ToSet(AtFlush) \subseteq InDump
    BY <1>1, <1>4, <2>1 DEF AtFlush, Pool, PoolTypes
  <2>3. ToSet(Filling) \subseteq InDump
    BY <1>1, <1>4, <2>1 DEF Filling, Pool, PoolTypes
  <2>4. \A i \in DOMAIN Queued : Queued[i] \subseteq InDump
    <3>1. \A i \in DOMAIN flushQueue : flushQueue[i] \in Buffers
      BY <1>1 DEF Pool, PoolTypes
    <3> QED
      BY <1>4, <3>1 DEF Queued
  <2> QED
    BY <1>4, <2>2, <2>3, <2>4 DEF InPlace, Present
<1>6. InDump \subseteq InPlace
  <2>1. /\ ToSet(pcap_dumpfile) \subseteq InPlace /\ \A s \in DOMAIN pcaps : ToSet(pcaps[s]) \subseteq InPlace
    BY DEF InPlace, Present, InPcaps
  <2>2. \A b \in Buffers : ToSet(content[b]) \subseteq InPlace
    BY DumpDisjoint
  <2>3. \A x \in Places : ToSet(Dumped(x)) \subseteq InPlace
    BY <1>2, <2>1, <2>2 DEF Places
  <2> QED
    BY <2>3 DEF InDump
<1> QED
  BY <1>5, <1>6

LEMMA DumpingDumped ==
  ASSUME Inductive, Dumping
  PROVE  PacketsDumped
<1>1. InDump = InPlace
  BY InDumpInPlace
<1>2. \A p, q \in Places : \A i \in DOMAIN Dumped(p), j \in DOMAIN Dumped(q) :
        Dumped(p)[i] = Dumped(q)[j] => p = q /\ i = j
  BY DumpedOnce
<1>3. InDump \cap lost.pcap = {}
  BY <1>1 DEF Dumping, Gathered
<1>4. ASSUME dump, NEW n \in Numbers \ (duplicates \cup lost.pcap), n \notin InDump
      PROVE  /\ packet \in {"rotate", "refill", "sync", "process", "store", "swap"}
             /\ current # None /\ n = Number
  <2>1. n \in ToStore
    BY <1>1, <1>4 DEF Dumping, Gathered
  <2>2. packet \in {"store", "swap"} => current # None
    BY DEF Inductive, Threads
  <2> QED
    BY <2>1, <2>2 DEF ToStore, Waiting
<1>5. ASSUME NEW s \in DOMAIN pcaps, NEW i \in DOMAIN pcaps[s]
      PROVE  LET slot == dueIn[pcaps[s][i]]
             IN /\ slot = s \/ (slot < s /\ slot \in unmarked)
                /\ i > 1 => pcaps[s][i - 1] < pcaps[s][i]
  <2> DEFINE n == pcaps[s][i]
  <2>1. n \in ToSet(pcaps[s])
    BY DEF ToSet
  <2>2. n \in Numbers
    BY <2>1 DEF Dumping, Gathered, InPlace, Present, InPcaps
  <2>3. SlotOf[n] = s \/ (SlotOf[n] < s /\ SlotOf[n] \in unmarked)
    BY <2>1 DEF Dumping, FileSlots
  <2>4. SlotOf[n] = dueIn[n]
    BY <2>2 DEF SlotOf
  <2>5. i > 1 => pcaps[s][i - 1] < pcaps[s][i]
    <3>1. pcaps[s] \in Seq(Nat) /\ Ascending(pcaps[s])
      BY DEF Dumping, DumpTypes, Line
    <3>2. i > 1 => i - 1 \in DOMAIN pcaps[s] /\ i - 1 < i
      BY <3>1
    <3> QED
      BY <3>1, <3>2 DEF Ascending
  <2> QED
    BY <2>3, <2>4, <2>5
<1> QED
  BY <1>2, <1>3, <1>4, <1>5 DEF PacketsDumped

(* Every packet but duplicates is put into a buffer and from then on is in *)
(* one place of the dump, once, unless a call failed for it; the pcap file *)
(* of a slot has, in the order in which they came, the packets due in it,  *)
(* which are its own and those stamped earlier that came while it was the  *)
(* one at hand, and none of another slot but of those whose mark the flush *)
(* thread took off (pcap_packet_thread, flush_thread, CloseDumpFile).      *)
THEOREM CaptureDumps == Spec => []PacketsDumped
<1>1. Inductive /\ Dumping => PacketsDumped
  BY DumpingDumped
<1> QED
  BY <1>1, CaptureInductive, CaptureDumping, PTL
================================================================================
