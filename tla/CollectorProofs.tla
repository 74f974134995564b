--------------------------- MODULE CollectorProofs ----------------------------
(***************************************************************************)
(* Machine-checked proofs about Collector and Exporters, for all sources,  *)
(* routers, templates, samplers and packets, any length of the time slots  *)
(* and any size of the socket buffer.                                      *)
(***************************************************************************)
EXTENDS Collector, FiniteSetTheorems, SequenceTheorems, WellFoundedInduction, TLAPS

-------------------------------------------------------------------------------
(* The inductive invariant                                                 *)

(* The records of a file                                                   *)
Stats == [sysid : 0 .. MaxSysId, packets : Nat, flows : Nat, failures : Nat]

ExporterRecords == [kind : {"exporter"}, sysid : 0 .. MaxSysId]
SamplerRecords  == [kind : {"sampler"}, sysid : 0 .. MaxSysId,
                    id : {Generic} \cup SamplerIds, interval : Intervals]
FlowRecords     == [kind : {"flow"}, number : Nat \ {0}, at : Nat, sysid : 0 .. MaxSysId,
                    sampler : {0} \cup SamplerIds, interval : Nat]
FileRecords     == ExporterRecords \cup SamplerRecords \cup FlowRecords
                   \cup [kind : {"stats"}, stat : Seq(Stats)]

Archived == [start : Nat, records : Seq(FileRecords)]

FileTypes ==
    /\ file \in [Sources -> Seq(FileRecords)]
    /\ archive \in [Sources -> Seq(Archived)]

(* what the main loop has in its hands                                     *)
Places ==
    /\ main \in {"dispatch", "packet", "sets"} => packet \in Packets
    /\ main \in {"packet", "sets"} => fs \in ToSet(FlowSource) /\ received = t_now
    /\ main = "sets" => exporter \in DOMAIN exporter_data[fs] /\ setNo \in Nat \ {0}
    /\ \A s \in Sources \ ToSet(FlowSource) : exporter_data[s] = <<>> /\ file[s] = <<>>

(* A packet belongs to the slot that has begun, and a slot that is closed  *)
(* while nfcapd goes on is over.                                           *)
Clock ==
    /\ t_start <= t_now /\ t_now <= now
    /\ main \in {"rotate", "rotated"} /\ ~done => t_start + Twin <= t_now

(* The files are those of the slot: they were not just closed for good.    *)
Open == main \notin {"exited", "dead"} /\ (main = "rotated" => ~done)

(* after a rotation the counters are 0 and no file has a flow              *)
Fresh ==
    main = "rotated" /\ ~done =>
        \A s \in Sources :
            /\ NumbersOf(file[s]) = {}
            /\ ~dynamic => /\ exporter_count[s] = Len(exporter_data[s])
                           /\ \A i \in DOMAIN exporter_data[s] : exporter_data[s][i].flows = 0

(* Records name exporters that have got an id.                             *)
Named(records) ==
    \A q \in DOMAIN records : records[q].kind # "stats" => records[q].sysid <= exporter_sysid

RecordsNamed == \A s \in Sources : \A records \in Files(s) : Named(records)

(* An exporter's list of templates, as long as none was freed under it     *)
Once(list) == \A i, j \in DOMAIN list : list[i].id = list[j].id => i = j

TemplatesOK(e) ==
    /\ Once(e.template)
    /\ e.currentTemplate # None => e.currentTemplate \in ToSet(e.template)
    /\ \A id \in TemplateIds : e.announced[id] = None => \A t \in ToSet(e.template) : t.id # id
    /\ \A id \in TemplateIds : e.announced[id] # None =>
            [id |-> id, layout |-> e.announced[id]] \in ToSet(e.template)

TemplateLists ==
    ~dangling => \A s \in Sources : \A i \in DOMAIN exporter_data[s] : TemplatesOK(exporter_data[s][i])

Inductive == IInv /\ FileTypes /\ Places /\ Clock /\ Fresh /\ RecordsNamed /\ TemplateLists

(* What is in the files: flows                                             *)
Content(p) == IF p[2] = 0 THEN file[p[1]] ELSE archive[p[1]][p[2]].records
Stores == UNION {{s} \X (0 .. Len(archive[s])) : s \in Sources}

FlowsIn(records) == {i \in DOMAIN records : records[i].kind = "flow"}

Distinct(records) ==
    \A i, j \in FlowsIn(records) : records[i].number = records[j].number => i = j

(* no call failed, and nfcapd did not die of freed templates               *)
Spared == faults = 0 /\ main # "dead"

InOnePlace ==
    /\ \A p \in Stores : NumbersOf(Content(p)) \subseteq 1 .. decoded \ lost
    /\ \A n \in 1 .. decoded \ lost : \E p \in Stores : n \in NumbersOf(Content(p))
    /\ \A p, q \in Stores : NumbersOf(Content(p)) \cap NumbersOf(Content(q)) # {} => p = q
    /\ \A p \in Stores : Distinct(Content(p))
    /\ lost \subseteq 1 .. decoded
    /\ Spared => lost = {}

InTime ==
    /\ main \notin {"rotated", "exited", "dead"} =>
         \A s \in Sources : \A i \in FlowsIn(file[s]) : file[s][i].at >= t_start
    /\ \A s \in Sources : \A i \in DOMAIN archive[s] :
         /\ archive[s][i].start <= t_start
         /\ archive[s][i].start = t_start => main \in {"rotated", "exited", "dead"}
         /\ \A j \in DOMAIN archive[s] : i < j => archive[s][i].start < archive[s][j].start
         /\ \A q \in FlowsIn(archive[s][i].records) :
                archive[s][i].records[q].at >= archive[s][i].start

(* What is in the files: exporters and their samplers                      *)
SamplersAt(records, sysid, id) ==
    {q \in DOMAIN records : records[q].kind = "sampler" /\ records[q].sysid = sysid /\ records[q].id = id}

LastSampler(records, sysid, id) == records[Max(SamplersAt(records, sysid, id))]

SamplersWritten(records, e) ==
    \A id \in {Generic, 0} \cup SamplerIds :
        LET known == IndexOfSampler(e.sampler, id)
        IN /\ SamplersAt(records, e.sysid, id) = {} <=> known = {}
           /\ \A i \in known : LastSampler(records, e.sysid, id).interval = e.sampler[i].interval

Described ==
    Open => \A s \in Sources :
        /\ \A i \in DOMAIN exporter_data[s] :
              /\ ExporterInfo(exporter_data[s][i]) \in ToSet(file[s])
              /\ Version(exporter_data[s][i]) = 9 /\ exporter_data[s][i].sysid # 0 =>
                     SamplersWritten(file[s], exporter_data[s][i])
        /\ \A q \in DOMAIN file[s] : file[s][q].kind = "exporter" =>
              \E i \in DOMAIN exporter_data[s] : exporter_data[s][i].sysid = file[s][q].sysid

SamplersOnce ==
    \A s \in Sources : \A k \in DOMAIN exporter_data[s] :
        Once(exporter_data[s][k].sampler)

-------------------------------------------------------------------------------
(* Facts about numbers and sequences                                       *)

(* A nonempty set of numbers has a least member.                           *)
LEMMA LeastNumber ==
  ASSUME NEW S, S \subseteq Nat, S # {}
  PROVE  \E x \in S : \A y \in S : x <= y
<1> DEFINE R == {p \in Nat \X Nat : p[1] < p[2]}
<1>1. IsWellFoundedOn(R, Nat)
  BY NatLessThanWellFounded DEF OpToRel
<1>2. PICK x \in S : \A y \in S : ~ (<<y, x>> \in R)
  <2> HIDE DEF R
  <2> QED
    BY <1>1, WFMin
<1>3. ASSUME NEW y \in S PROVE x <= y
  <2>1. x \in Nat /\ y \in Nat /\ ~ (<<y, x>> \in R)
    BY <1>2
  <2> QED
    BY <2>1
<1> QED
  BY <1>3

LEMMA MinInSet ==
  ASSUME NEW S, S \subseteq Nat, S # {}
  PROVE  Min(S) \in S /\ \A y \in S : Min(S) <= y
BY LeastNumber DEF Min

(* A nonempty set of positions has a last one.                             *)
LEMMA MaxInSet ==
  ASSUME NEW n \in Nat, NEW S, S \subseteq 1 .. n, S # {}
  PROVE  Max(S) \in S /\ \A y \in S : y <= Max(S)
<1> DEFINE T == {n - x : x \in S}
<1>1. T \subseteq Nat /\ T # {}
  <2>1. ASSUME NEW x \in S PROVE n - x \in Nat
    OBVIOUS
  <2> QED
    BY <2>1
<1>2. PICK m \in T : \A t \in T : m <= t
  <2> HIDE DEF T
  <2> QED
    BY <1>1, LeastNumber
<1>3. PICK x \in S : m = n - x
  OBVIOUS
<1>4. ASSUME NEW y \in S PROVE x >= y
  <2>1. n - y \in T
    OBVIOUS
  <2>2. m <= n - y
    BY <1>2, <2>1
  <2> QED
    BY <1>3, <2>2
<1>5. \E z \in S : \A y \in S : z >= y
  BY <1>4
<1>6. Max(S) \in S /\ \A y \in S : Max(S) >= y
  BY <1>5 DEF Max
<1> QED
  BY <1>6

(* What may begin at 0 and goes on from each number to the next holds for  *)
(* all numbers up to n: there is no least one without it.                  *)
LEMMA CountingUp ==
  ASSUME NEW n \in Nat, NEW S, 0 \in S,
         \A k \in 0 .. n - 1 : k \in S => k + 1 \in S
  PROVE  \A k \in 0 .. n : k \in S
<1> DEFINE T == (0 .. n) \ S
<1> SUFFICES ASSUME T # {} PROVE FALSE
  OBVIOUS
<1>1. PICK m \in T : \A t \in T : m <= t
  <2>1. T \subseteq Nat
    OBVIOUS
  <2> HIDE DEF T
  <2> QED
    BY <2>1, LeastNumber
<1>2. m \in 1 .. n /\ m \notin S
  OBVIOUS
<1>3. m - 1 \in S
  BY <1>1, <1>2
<1> QED
  BY <1>2, <1>3

(* The function FlattenSeq is defined by exists.                           *)
LEMMA FlattenExists ==
  ASSUME NEW ss, NEW n \in Nat
  PROVE  \E g : g = [i \in 1 .. n |-> IF i = 1 THEN ss[i] ELSE g[i - 1] \o ss[i]]
<1> DEFINE Steps(g, k) == [i \in 1 .. k |-> IF i = 1 THEN ss[i] ELSE g[i - 1] \o ss[i]]
           Has(k) == \E g : g = Steps(g, k)
           S == {k \in 0 .. n : Has(k)}
<1>1. Has(0)
  <2> DEFINE g == [i \in 1 .. 0 |-> 0]
  <2>1. g = Steps(g, 0)
    OBVIOUS
  <2> HIDE DEF Steps
  <2> QED
    BY <2>1
<1>2. ASSUME NEW k \in 0 .. n - 1, Has(k) PROVE Has(k + 1)
  <2>1. PICK g : g = Steps(g, k)
    BY <1>2
  <2> DEFINE v == IF k = 0 THEN ss[1] ELSE g[k] \o ss[k + 1]
             h == [i \in 1 .. k + 1 |-> IF i = k + 1 THEN v ELSE g[i]]
  <2>2. ASSUME NEW i \in 1 .. k + 1
        PROVE  h[i] = IF i = 1 THEN ss[i] ELSE h[i - 1] \o ss[i]
    <3>1. CASE i = k + 1
      <4>1. h[i] = v
        BY <3>1
      <4>2. CASE k = 0
        BY <3>1, <4>1, <4>2
      <4>3. CASE k > 0
        <5>1. h[i - 1] = g[k]
          BY <3>1, <4>3
        <5> QED
          BY <3>1, <4>1, <4>3, <5>1
      <4> QED
        BY <4>2, <4>3
    <3>2. CASE i <= k
      <4>1. h[i] = g[i] /\ i \in 1 .. k
        BY <3>2
      <4>2. g[i] = IF i = 1 THEN ss[i] ELSE g[i - 1] \o ss[i]
        BY <2>1, <4>1
      <4>3. i # 1 => h[i - 1] = g[i - 1]
        BY <3>2
      <4> QED
        BY <4>1, <4>2, <4>3
    <3> QED
      BY <3>1, <3>2
  <2>3. h = Steps(h, k + 1)
    <3> HIDE DEF h
    <3>1. h = [i \in 1 .. k + 1 |-> h[i]]
      BY DEF h
    <3> QED
      BY <2>2, <3>1
  <2> HIDE DEF h, Steps
  <2> QED
    BY <2>3
<1>3. n \in S
  <2> HIDE DEF Has
  <2>1. 0 \in S /\ \A k \in 0 .. n - 1 : k \in S => k + 1 \in S
    BY <1>1, <1>2
  <2> HIDE DEF S
  <2> QED
    BY <2>1, CountingUp
<1> QED
  BY <1>3

(* FlattenSeq returns the elements of the sequences.                       *)
LEMMA FlattenElements ==
  ASSUME NEW R, NEW ss \in Seq(Seq(R))
  PROVE  /\ FlattenSeq(ss) \in Seq(R)
         /\ ToSet(FlattenSeq(ss)) = UNION {ToSet(ss[i]) : i \in DOMAIN ss}
<1> DEFINE n == Len(ss)
           Steps(g) == [i \in 1 .. n |-> IF i = 1 THEN ss[i] ELSE g[i - 1] \o ss[i]]
           f == CHOOSE g : g = Steps(g)
           Elements(i) == UNION {ToSet(ss[j]) : j \in 1 .. i}
           Good(i) == f[i] \in Seq(R) /\ ToSet(f[i]) = Elements(i)
           S == {0} \cup {i \in 1 .. n : Good(i)}
<1>0. n \in Nat /\ DOMAIN ss = 1 .. n /\ \A i \in 1 .. n : ss[i] \in Seq(R)
  OBVIOUS
<1>1. CASE n = 0
  <2>1. ss = <<>>
    BY <1>1
  <2>2. FlattenSeq(ss) = <<>>
    BY <1>1, <2>1 DEF FlattenSeq
  <2>3. ToSet(<<>>) = {} /\ DOMAIN ss = {} /\ <<>> \in Seq(R)
    BY <2>1 DEF ToSet
  <2> QED
    BY <2>2, <2>3
<1>2. CASE n > 0
  <2>1. f = Steps(f)
    <3>1. \E g : g = Steps(g)
      BY <1>0, FlattenExists
    <3> QED
      BY <3>1
  <2>2. FlattenSeq(ss) = f[n]
    BY <1>2 DEF FlattenSeq
  <2>3. ASSUME NEW i \in 1 .. n
        PROVE  f[i] = IF i = 1 THEN ss[i] ELSE f[i - 1] \o ss[i]
    <3> HIDE DEF f
    <3> QED
      BY <2>1
  <2> HIDE DEF f
  <2>4. ASSUME NEW k \in 0 .. n - 1, k \in S PROVE k + 1 \in S
    <3>1. CASE k = 0
      <4>1. 1 \in 1 .. n /\ f[1] = ss[1]
        BY <2>3, <1>0, <1>2
      <4>2. Elements(1) = ToSet(ss[1])
        <5>1. 1 .. 1 = {1}
          OBVIOUS
        <5> QED
          BY <5>1
      <4> QED
        BY <1>0, <3>1, <4>1, <4>2
    <3>2. CASE k > 0
      <4>1. Good(k)
        BY <2>4, <3>2
      <4>2. f[k + 1] = f[k] \o ss[k + 1] /\ k + 1 \in 1 .. n
        <5>1. k + 1 \in 1 .. n /\ k + 1 # 1 /\ (k + 1) - 1 = k
          BY <1>0, <3>2
        <5> HIDE DEF n
        <5> QED
          BY <2>3, <5>1
      <4>3. ss[k + 1] \in Seq(R)
        BY <1>0, <4>2
      <4>4. f[k + 1] \in Seq(R)
        BY <4>1, <4>2, <4>3
      <4>5. ToSet(f[k + 1]) = ToSet(f[k]) \cup ToSet(ss[k + 1])
        <5> DEFINE a == f[k]
                   b == ss[k + 1]
        <5>1. a \in Seq(R) /\ b \in Seq(R)
          BY <4>1, <4>3
        <5> HIDE DEF a, b
        <5>2. ToSet(a \o b) = ToSet(a) \cup ToSet(b)
          <6>1. ToSet(a) = Range(a) /\ ToSet(b) = Range(b) /\ ToSet(a \o b) = Range(a \o b)
            BY DEF ToSet, Range
          <6> QED
            BY <5>1, <6>1, RangeConcatenation
        <5> QED
          BY <4>2, <5>2 DEF a, b
      <4>6. Elements(k + 1) = Elements(k) \cup ToSet(ss[k + 1])
        <5>1. 1 .. k + 1 = (1 .. k) \cup {k + 1}
          BY <1>0, <3>2
        <5> QED
          BY <5>1
      <4>7. Good(k + 1)
        <5> HIDE DEF Elements
        <5> QED
          BY <4>1, <4>4, <4>5, <4>6
      <4> QED
        BY <4>2, <4>7
    <3> QED
      BY <3>1, <3>2
  <2>5. n \in S
    <3>1. 0 \in S
      OBVIOUS
    <3>2. \A k \in 0 .. n - 1 : k \in S => k + 1 \in S
      BY <2>4
    <3>3. n \in Nat
      OBVIOUS
    <3> HIDE DEF S, n
    <3>4. \A k \in 0 .. n : k \in S
      BY <3>1, <3>2, <3>3, CountingUp
    <3> QED
      BY <3>3, <3>4
  <2>6. Good(n)
    BY <1>2, <2>5
  <2> QED
    BY <1>0, <2>2, <2>6
<1> QED
  BY <1>0, <1>1, <1>2

-------------------------------------------------------------------------------
(* Facts about the records of a file                                       *)

LEMMA SeqAppend ==
  ASSUME NEW R, NEW s \in Seq(R), NEW x \in R
  PROVE  /\ Append(s, x) \in Seq(R)
         /\ Len(Append(s, x)) = Len(s) + 1
         /\ DOMAIN Append(s, x) = (DOMAIN s) \cup {Len(s) + 1}
         /\ DOMAIN s = 1 .. Len(s) /\ Len(s) \in Nat
         /\ \A i \in DOMAIN s : Append(s, x)[i] = s[i]
         /\ Append(s, x)[Len(s) + 1] = x
BY AppendProperties, LenProperties

LEMMA SeqConcat ==
  ASSUME NEW R, NEW s \in Seq(R), NEW t \in Seq(R)
  PROVE  /\ s \o t \in Seq(R)
         /\ Len(s \o t) = Len(s) + Len(t)
         /\ DOMAIN (s \o t) = (DOMAIN s) \cup {Len(s) + i : i \in DOMAIN t}
         /\ DOMAIN s = 1 .. Len(s) /\ Len(s) \in Nat
         /\ DOMAIN t = 1 .. Len(t) /\ Len(t) \in Nat
         /\ \A i \in DOMAIN s : (s \o t)[i] = s[i]
         /\ \A i \in DOMAIN t : (s \o t)[Len(s) + i] = t[i]
<1>1. /\ s \o t \in Seq(R) /\ Len(s \o t) = Len(s) + Len(t)
      /\ \A i \in 1 .. Len(s) + Len(t) : (s \o t)[i] = IF i <= Len(s) THEN s[i] ELSE t[i - Len(s)]
  BY ConcatProperties
<1>2. /\ DOMAIN s = 1 .. Len(s) /\ Len(s) \in Nat
      /\ DOMAIN t = 1 .. Len(t) /\ Len(t) \in Nat
      /\ DOMAIN (s \o t) = 1 .. Len(s) + Len(t)
  BY <1>1, LenProperties
<1> DEFINE n == Len(s)
           m == Len(t)
<1>3. ASSUME NEW a \in Nat, NEW b \in Nat
      PROVE  1 .. a + b = (1 .. a) \cup {a + i : i \in 1 .. b}
  <2>1. ASSUME NEW x \in 1 .. a + b, x \notin 1 .. a PROVE x \in {a + i : i \in 1 .. b}
    <3>1. x - a \in 1 .. b /\ x = a + (x - a)
      BY <2>1
    <3> QED
      BY <3>1
  <2>2. \A i \in 1 .. b : a + i \in 1 .. a + b
    OBVIOUS
  <2>3. 1 .. a \subseteq 1 .. a + b
    OBVIOUS
  <2> QED
    BY <2>1, <2>2, <2>3
<1>4. DOMAIN (s \o t) = (DOMAIN s) \cup {Len(s) + i : i \in DOMAIN t}
  BY <1>2, <1>3
<1>5. \A i \in DOMAIN s : (s \o t)[i] = s[i]
  BY <1>1, <1>2
<1>6. ASSUME NEW i \in DOMAIN t PROVE (s \o t)[Len(s) + i] = t[i]
  <2>1. i \in 1 .. m /\ n \in Nat /\ n + i \in 1 .. n + m /\ ~(n + i <= n) /\ (n + i) - n = i
    BY <1>2
  <2> QED
    BY <1>1, <2>1
<1> QED
  BY <1>1, <1>2, <1>4, <1>5, <1>6

LEMMA NumbersAt ==
  ASSUME NEW records, NEW n
  PROVE  n \in NumbersOf(records) <=> \E i \in FlowsIn(records) : records[i].number = n
BY DEF NumbersOf, FlowsIn, ToSet

(* A flow more in a file is one number more.                               *)
LEMMA AppendFlow ==
  ASSUME NEW records \in Seq(FileRecords), NEW r \in FileRecords, r.kind = "flow"
  PROVE  /\ FlowsIn(Append(records, r)) = FlowsIn(records) \cup {Len(records) + 1}
         /\ NumbersOf(Append(records, r)) = NumbersOf(records) \cup {r.number}
         /\ \A id : Count(Append(records, r), id) = IF r.sysid = id THEN Count(records, id) + 1
                                                                    ELSE Count(records, id)
<1> DEFINE after == Append(records, r)
<1>1. /\ DOMAIN after = (DOMAIN records) \cup {Len(records) + 1}
      /\ DOMAIN records = 1 .. Len(records) /\ Len(records) \in Nat
      /\ \A i \in DOMAIN records : after[i] = records[i]
      /\ after[Len(records) + 1] = r
  BY SeqAppend
<1> HIDE DEF after
<1>2. FlowsIn(after) = FlowsIn(records) \cup {Len(records) + 1}
  BY <1>1 DEF FlowsIn
<1>3. NumbersOf(after) = NumbersOf(records) \cup {r.number}
  <2>1. ASSUME NEW n PROVE n \in NumbersOf(after) <=> n \in NumbersOf(records) \/ n = r.number
    <3>1. \A i \in FlowsIn(records) : after[i] = records[i]
      BY <1>1 DEF FlowsIn
    <3> QED
      BY <1>1, <1>2, <3>1, NumbersAt
  <2> QED
    BY <2>1
<1>4. ASSUME NEW id PROVE Count(after, id) = IF r.sysid = id THEN Count(records, id) + 1
                                                             ELSE Count(records, id)
  <2> DEFINE Of(rs) == {i \in DOMAIN rs : rs[i].kind = "flow" /\ rs[i].sysid = id}
  <2>1. Of(after) = IF r.sysid = id THEN Of(records) \cup {Len(records) + 1} ELSE Of(records)
    BY <1>1
  <2>2. IsFiniteSet(Of(records)) /\ Len(records) + 1 \notin Of(records)
    <3>1. IsFiniteSet(1 .. Len(records))
      BY <1>1, FS_Interval
    <3> QED
      BY <1>1, <3>1, FS_Subset
  <2> HIDE DEF Of
  <2>3. r.sysid = id => Cardinality(Of(after)) = Cardinality(Of(records)) + 1
    BY <2>1, <2>2, FS_AddElement
  <2> QED
    BY <2>1, <2>3 DEF Count, Of
<1> QED
  BY <1>2, <1>3, <1>4 DEF after

(* Records that are not flows do not change the flows of a file.           *)
LEMMA AppendOthers ==
  ASSUME NEW records \in Seq(FileRecords), NEW t \in Seq(FileRecords),
         \A i \in DOMAIN t : t[i].kind # "flow"
  PROVE  /\ FlowsIn(records \o t) = FlowsIn(records)
         /\ NumbersOf(records \o t) = NumbersOf(records)
         /\ \A id : Count(records \o t, id) = Count(records, id)
<1> DEFINE after == records \o t
<1>1. /\ DOMAIN after = (DOMAIN records) \cup {Len(records) + i : i \in DOMAIN t}
      /\ \A i \in DOMAIN records : after[i] = records[i]
      /\ \A i \in DOMAIN t : after[Len(records) + i] = t[i]
  BY SeqConcat
<1> HIDE DEF after
<1>2. FlowsIn(after) = FlowsIn(records)
  BY <1>1 DEF FlowsIn
<1>3. NumbersOf(after) = NumbersOf(records)
  <2>1. \A i \in FlowsIn(records) : after[i] = records[i]
    BY <1>1 DEF FlowsIn
  <2>2. \A n : n \in NumbersOf(after) <=> n \in NumbersOf(records)
    BY <1>2, <2>1, NumbersAt
  <2> QED
    BY <2>2
<1>4. ASSUME NEW id PROVE Count(after, id) = Count(records, id)
  <2>1. {i \in DOMAIN after : after[i].kind = "flow" /\ after[i].sysid = id}
          = {i \in DOMAIN records : records[i].kind = "flow" /\ records[i].sysid = id}
    BY <1>1
  <2> QED
    BY <2>1 DEF Count
<1> QED
  BY <1>2, <1>3, <1>4 DEF after

LEMMA AppendOther ==
  ASSUME NEW records \in Seq(FileRecords), NEW r \in FileRecords, r.kind # "flow"
  PROVE  /\ FlowsIn(Append(records, r)) = FlowsIn(records)
         /\ NumbersOf(Append(records, r)) = NumbersOf(records)
         /\ \A id : Count(Append(records, r), id) = Count(records, id)
<1>1. Append(records, r) = records \o <<r>>
  BY AppendIsConcat
<1> DEFINE t == <<r>>
<1>2. t \in Seq(FileRecords) /\ \A i \in DOMAIN t : t[i].kind # "flow"
  OBVIOUS
<1> HIDE DEF t
<1>3. /\ FlowsIn(records \o t) = FlowsIn(records)
      /\ NumbersOf(records \o t) = NumbersOf(records)
      /\ \A id : Count(records \o t, id) = Count(records, id)
  BY <1>2, AppendOthers
<1> QED
  BY <1>1, <1>3 DEF t

(* A file without flows                                                    *)
LEMMA NoFlows ==
  ASSUME NEW records
  PROVE  /\ (\A i \in DOMAIN records : records[i].kind # "flow") <=> FlowsIn(records) = {}
         /\ FlowsIn(records) = {} <=> NumbersOf(records) = {}
         /\ FlowsIn(records) = {} => \A id : Count(records, id) = 0
<1>1. (\A i \in DOMAIN records : records[i].kind # "flow") <=> FlowsIn(records) = {}
  BY DEF FlowsIn
<1>2. FlowsIn(records) = {} <=> NumbersOf(records) = {}
  BY NumbersAt
<1>3. ASSUME FlowsIn(records) = {}, NEW id PROVE Count(records, id) = 0
  <2>1. {i \in DOMAIN records : records[i].kind = "flow" /\ records[i].sysid = id} = {}
    BY <1>3 DEF FlowsIn
  <2> QED
    BY <2>1, FS_EmptySet DEF Count
<1> QED
  BY <1>1, <1>2, <1>3

(* A record of this sampler comes last; any other leaves what the file     *)
(* says of it alone.                                                       *)
Samples(r, sysid, id) == r.kind = "sampler" /\ r.sysid = sysid /\ r.id = id

LEMMA AppendSampler ==
  ASSUME NEW records \in Seq(FileRecords), NEW r \in FileRecords, NEW sysid, NEW id,
         Samples(r, sysid, id)
  PROVE  /\ SamplersAt(Append(records, r), sysid, id) # {}
         /\ LastSampler(Append(records, r), sysid, id) = r
<1> DEFINE new == Append(records, r)
           after == SamplersAt(new, sysid, id)
           n == Len(records)
<1>1. DOMAIN new = (DOMAIN records) \cup {n + 1} /\ DOMAIN records = 1 .. n /\ n \in Nat /\ new[n + 1] = r
  BY SeqAppend
<1> HIDE DEF new, n
<1>2. after \subseteq 1 .. n + 1 /\ n + 1 \in after /\ n + 1 \in Nat
  BY <1>1 DEF SamplersAt, Samples
<1> HIDE DEF after
<1>3. Max(after) \in after /\ n + 1 <= Max(after)
  BY <1>2, MaxInSet
<1>4. Max(after) = n + 1
  <2>1. Max(after) \in 1 .. n + 1
    BY <1>2, <1>3
  <2> QED
    BY <1>1, <1>3, <2>1
<1> QED
  BY <1>1, <1>2, <1>4 DEF new, after, LastSampler

LEMMA AppendNoSampler ==
  ASSUME NEW records \in Seq(FileRecords), NEW r \in FileRecords, NEW sysid, NEW id,
         ~Samples(r, sysid, id)
  PROVE  /\ SamplersAt(Append(records, r), sysid, id) = SamplersAt(records, sysid, id)
         /\ SamplersAt(records, sysid, id) # {} =>
              LastSampler(Append(records, r), sysid, id) = LastSampler(records, sysid, id)
<1> DEFINE new == Append(records, r)
           at == SamplersAt(records, sysid, id)
           n == Len(records)
<1>1. /\ DOMAIN new = (DOMAIN records) \cup {n + 1} /\ DOMAIN records = 1 .. n /\ n \in Nat
      /\ \A i \in DOMAIN records : new[i] = records[i]
      /\ new[n + 1] = r
  BY SeqAppend
<1> HIDE DEF new, n
<1>2. SamplersAt(new, sysid, id) = at
  BY <1>1 DEF SamplersAt, Samples
<1>3. at \subseteq 1 .. n
  BY <1>1 DEF SamplersAt
<1> HIDE DEF at
<1>4. at # {} => Max(at) \in 1 .. n
  BY <1>1, <1>3, MaxInSet
<1> QED
  BY <1>1, <1>2, <1>4 DEF new, at, LastSampler

(* A record of another exporter, or none of a sampler, changes nothing.    *)
LEMMA SamplersKept ==
  ASSUME NEW records \in Seq(FileRecords), NEW r \in FileRecords, NEW e, NEW f,
         e.sysid = f.sysid, e.sampler = f.sampler,
         r.kind = "sampler" => r.sysid # e.sysid,
         SamplersWritten(records, e)
  PROVE  SamplersWritten(Append(records, r), f)
<1> DEFINE new == Append(records, r)
           x == e.sysid
           Still(id) == /\ SamplersAt(new, x, id) = SamplersAt(records, x, id)
                        /\ SamplersAt(records, x, id) # {} =>
                              LastSampler(new, x, id) = LastSampler(records, x, id)
<1>1. ASSUME NEW id PROVE Still(id)
  <2>1. ~Samples(r, x, id)
    BY DEF Samples
  <2> HIDE DEF x
  <2> QED
    BY <2>1, AppendNoSampler
<1>2. f.sysid = x /\ f.sampler = e.sampler
  OBVIOUS
<1> HIDE DEF new
<1>3. ASSUME NEW id \in {Generic, 0} \cup SamplerIds
      PROVE  /\ SamplersAt(new, x, id) = {} <=> IndexOfSampler(e.sampler, id) = {}
             /\ \A i \in IndexOfSampler(e.sampler, id) :
                   LastSampler(new, x, id).interval = e.sampler[i].interval
  <2>1. /\ SamplersAt(records, x, id) = {} <=> IndexOfSampler(e.sampler, id) = {}
        /\ \A i \in IndexOfSampler(e.sampler, id) :
              LastSampler(records, x, id).interval = e.sampler[i].interval
    BY DEF SamplersWritten
  <2> HIDE DEF x
  <2>2. /\ SamplersAt(new, x, id) = SamplersAt(records, x, id)
        /\ SamplersAt(records, x, id) # {} =>
               LastSampler(new, x, id) = LastSampler(records, x, id)
    BY <1>1
  <2> QED
    BY <2>1, <2>2
<1> HIDE DEF x
<1>4. SamplersWritten(new, f)
  BY <1>2, <1>3 DEF SamplersWritten
<1> QED
  BY <1>4 DEF new

-------------------------------------------------------------------------------
(* Facts about an exporter and its templates                               *)

(* What template handling leaves alone                                     *)
Same(e, f) ==
    e.key = f.key /\ e.sysid = f.sysid /\ e.sampler = f.sampler /\ e.flows = f.flows

LEMMA PositionFacts ==
  ASSUME NEW list \in Seq(Templates), NEW id
  PROVE  /\ Position(list, id) = 0 => \A t \in ToSet(list) : t.id # id
         /\ Position(list, id) # 0 => /\ Position(list, id) \in DOMAIN list
                                      /\ list[Position(list, id)].id = id
<1> DEFINE I == {i \in 1 .. Len(list) : list[i].id = id}
<1>1. Position(list, id) = IF I # {} THEN Min(I) ELSE 0
  BY DEF Position, SelectInSeq
<1>2. I \subseteq Nat /\ I \subseteq DOMAIN list /\ DOMAIN list = 1 .. Len(list)
  OBVIOUS
<1>3. I = {} => \A t \in ToSet(list) : t.id # id
  BY <1>2 DEF ToSet
<1>4. I # {} => Min(I) \in I
  <2> HIDE DEF I
  <2> QED
    BY <1>2, MinInSet
<1>5. \A i \in I : i # 0 /\ list[i].id = id
  OBVIOUS
<1> HIDE DEF I
<1> QED
  BY <1>1, <1>2, <1>3, <1>4, <1>5

LEMMA RemoveAtFacts ==
  ASSUME NEW R, NEW s \in Seq(R), NEW i \in DOMAIN s
  PROVE  /\ RemoveAt(s, i) \in Seq(R)
         /\ Len(RemoveAt(s, i)) = Len(s) - 1
         /\ \A j \in 1 .. i - 1 : RemoveAt(s, i)[j] = s[j]
         /\ \A j \in i .. Len(s) - 1 : RemoveAt(s, i)[j] = s[j + 1]
<1> DEFINE a == SubSeq(s, 1, i - 1)
           b == SubSeq(s, i + 1, Len(s))
           n == Len(s)
<1>1. n \in Nat /\ i \in 1 .. n /\ DOMAIN s = 1 .. n
  BY LenProperties
<1>2. \A j \in 1 .. n : s[j] \in R
  BY ElementOfSeq
<1>3. a \in Seq(R) /\ Len(a) = i - 1 /\ \A j \in 1 .. i - 1 : a[j] = s[j]
  <2>1. 1 \in Int /\ i - 1 \in Int /\ \A j \in 1 .. i - 1 : s[j] \in R
    BY <1>1, <1>2
  <2>2. /\ SubSeq(s, 1, i - 1) \in Seq(R)
        /\ Len(SubSeq(s, 1, i - 1)) = IF 1 <= i - 1 THEN (i - 1) - 1 + 1 ELSE 0
        /\ \A j \in 1 .. (i - 1) - 1 + 1 : SubSeq(s, 1, i - 1)[j] = s[1 + j - 1]
    BY <2>1, SubSeqProperties
  <2> QED
    BY <1>1, <2>2
<1>4. b \in Seq(R) /\ Len(b) = n - i /\ \A j \in 1 .. n - i : b[j] = s[i + j]
  <2>1. i + 1 \in Int /\ n \in Int /\ \A j \in i + 1 .. n : s[j] \in R
    BY <1>1, <1>2
  <2>2. /\ SubSeq(s, i + 1, n) \in Seq(R)
        /\ Len(SubSeq(s, i + 1, n)) = IF i + 1 <= n THEN n - (i + 1) + 1 ELSE 0
        /\ \A j \in 1 .. n - (i + 1) + 1 : SubSeq(s, i + 1, n)[j] = s[(i + 1) + j - 1]
    <3> HIDE DEF n
    <3> QED
      BY <2>1, SubSeqProperties
  <2> QED
    BY <1>1, <2>2
<1>5. RemoveAt(s, i) = a \o b
  BY DEF RemoveAt
<1> HIDE DEF a, b, n
<1>6. /\ a \o b \in Seq(R) /\ Len(a \o b) = (i - 1) + (n - i)
      /\ \A j \in 1 .. (i - 1) + (n - i) : (a \o b)[j] = IF j <= i - 1 THEN a[j] ELSE b[j - (i - 1)]
  <2>1. /\ a \o b \in Seq(R) /\ Len(a \o b) = Len(a) + Len(b)
        /\ \A j \in 1 .. Len(a) + Len(b) : (a \o b)[j] = IF j <= Len(a) THEN a[j] ELSE b[j - Len(a)]
    <3>1. a \in Seq(R) /\ b \in Seq(R)
      BY <1>3, <1>4
    <3> QED
      BY <3>1, ConcatProperties
  <2> QED
    BY <1>3, <1>4, <2>1
<1>7. ASSUME NEW j \in i .. n - 1 PROVE (a \o b)[j] = s[j + 1]
  <2>1. (a \o b)[j] = b[j - (i - 1)] /\ j - (i - 1) \in 1 .. n - i /\ i + (j - (i - 1)) = j + 1
    BY <1>1, <1>6
  <2> QED
    BY <1>4, <2>1
<1>8. ASSUME NEW j \in 1 .. i - 1 PROVE (a \o b)[j] = s[j]
  BY <1>1, <1>3, <1>6
<1>9. (i - 1) + (n - i) = n - 1
  BY <1>1
<1> QED
  BY <1>5, <1>6, <1>7, <1>8, <1>9 DEF n


(* The entry with this id is taken out of a list.                          *)
LEMMA RemoveFromList ==
  ASSUME NEW list \in Seq(Templates), Once(list), NEW i \in DOMAIN list
  PROVE  /\ Once(RemoveAt(list, i))
         /\ ToSet(RemoveAt(list, i)) = {t \in ToSet(list) : t.id # list[i].id}
<1> DEFINE short == RemoveAt(list, i)
           n == Len(list)
           Old(j) == IF j < i THEN j ELSE j + 1
<1>1. /\ n \in Nat /\ i \in 1 .. n /\ DOMAIN list = 1 .. n
      /\ DOMAIN short = 1 .. n - 1
      /\ \A j \in 1 .. n - 1 : short[j] = list[Old(j)]
  <2>1. /\ short \in Seq(Templates) /\ Len(short) = n - 1
        /\ \A j \in 1 .. i - 1 : short[j] = list[j]
        /\ \A j \in i .. n - 1 : short[j] = list[j + 1]
    BY RemoveAtFacts
  <2>2. n \in Nat /\ i \in 1 .. n /\ DOMAIN list = 1 .. n /\ DOMAIN short = 1 .. Len(short)
    BY <2>1, LenProperties
  <2> HIDE DEF short, n
  <2> QED
    BY <2>1, <2>2
<1> HIDE DEF short, n
<1>2. \A j \in 1 .. n - 1 : Old(j) \in 1 .. n /\ Old(j) # i
  BY <1>1
<1>3. \A j, k \in 1 .. n - 1 : Old(j) = Old(k) => j = k
  BY <1>1
<1>4. \A j \in (1 .. n) \ {i} : \E k \in 1 .. n - 1 : Old(k) = j
  <2> SUFFICES ASSUME NEW j \in (1 .. n) \ {i} PROVE \E k \in 1 .. n - 1 : Old(k) = j
    OBVIOUS
  <2>1. CASE j < i
    <3>1. j \in 1 .. n - 1 /\ Old(j) = j
      BY <1>1, <2>1
    <3> QED
      BY <3>1
  <2>2. CASE j > i
    <3>1. j - 1 \in 1 .. n - 1 /\ Old(j - 1) = j
      BY <1>1, <2>2
    <3> QED
      BY <3>1
  <2> QED
    BY <1>1, <2>1, <2>2
<1> HIDE DEF Old
<1>5. Once(short)
  BY <1>1, <1>2, <1>3 DEF Once
<1>6. ASSUME NEW t PROVE t \in ToSet(short) <=> t \in ToSet(list) /\ t.id # list[i].id
  <2>1. ASSUME NEW j \in 1 .. n - 1, t = short[j] PROVE t \in ToSet(list) /\ t.id # list[i].id
    BY <1>1, <1>2, <2>1 DEF ToSet, Once
  <2>2. ASSUME NEW j \in 1 .. n, t = list[j], t.id # list[i].id PROVE t \in ToSet(short)
    BY <1>1, <1>4, <2>2 DEF ToSet
  <2> QED
    BY <1>1, <2>1, <2>2 DEF ToSet
<1> QED
  BY <1>5, <1>6 DEF short

(* removeTemplate returns an exporter that has no template with this id.   *)
LEMMA RemoveTemplateTypes ==
  ASSUME NEW e \in Exporters, NEW id \in TemplateIds
  PROVE  /\ RemoveTemplate(e, id) \in Exporters
         /\ Same(RemoveTemplate(e, id), e)
         /\ RemoveTemplate(e, id).announced = e.announced
<1> DEFINE i == Position(e.template, id)
<1>1. e.template \in Seq(Templates)
  BY DEF Exporters
<1>2. CASE i = 0
  BY <1>2 DEF RemoveTemplate, Same
<1>3. CASE i # 0
  <2> DEFINE list == RemoveAt(e.template, i)
             cur == IF e.currentTemplate = e.template[i] THEN None ELSE e.currentTemplate
  <2>1. i \in DOMAIN e.template
    BY <1>1, <1>3, PositionFacts
  <2>2. list \in Seq(Templates)
    BY <1>1, <2>1, RemoveAtFacts
  <2>3. cur \in Templates \cup {None}
    BY DEF Exporters
  <2>4. RemoveTemplate(e, id) = [e EXCEPT !.template = list, !.currentTemplate = cur]
    BY <1>3 DEF RemoveTemplate
  <2> HIDE DEF list, cur, i
  <2> QED
    BY <2>2, <2>3, <2>4 DEF Exporters, Same
<1> QED
  BY <1>2, <1>3

LEMMA RemoveTemplateList ==
  ASSUME NEW e \in Exporters, NEW id \in TemplateIds, Once(e.template),
         e.currentTemplate # None => e.currentTemplate \in ToSet(e.template)
  PROVE  LET new == RemoveTemplate(e, id)
         IN /\ Once(new.template)
            /\ ToSet(new.template) = {t \in ToSet(e.template) : t.id # id}
            /\ new.currentTemplate # None => new.currentTemplate \in ToSet(new.template)
<1> DEFINE new == RemoveTemplate(e, id)
           i == Position(e.template, id)
<1>1. e.template \in Seq(Templates)
  BY DEF Exporters
<1>2. CASE i = 0
  <2>1. new = e
    BY <1>2 DEF RemoveTemplate
  <2>2. \A t \in ToSet(e.template) : t.id # id
    BY <1>1, <1>2, PositionFacts
  <2> QED
    BY <2>1, <2>2
<1>3. CASE i # 0
  <2>1. i \in DOMAIN e.template /\ e.template[i].id = id
    BY <1>1, <1>3, PositionFacts
  <2>2. /\ new.template = RemoveAt(e.template, i)
        /\ new.currentTemplate = IF e.currentTemplate = e.template[i] THEN None ELSE e.currentTemplate
    BY <1>3 DEF RemoveTemplate, Exporters
  <2> HIDE DEF i, new
  <2>3. Once(new.template) /\ ToSet(new.template) = {t \in ToSet(e.template) : t.id # id}
    BY <1>1, <2>1, <2>2, RemoveFromList
  <2>4. ASSUME new.currentTemplate # None PROVE new.currentTemplate \in ToSet(new.template)
    <3>1. new.currentTemplate = e.currentTemplate /\ e.currentTemplate # e.template[i]
      BY <2>2, <2>4
    <3>2. PICK j \in DOMAIN e.template : e.currentTemplate = e.template[j]
      BY <2>4, <3>1 DEF ToSet
    <3>3. e.currentTemplate.id # id
      BY <2>1, <3>1, <3>2 DEF Once
    <3> QED
      BY <2>3, <2>4, <3>1, <3>3
  <2> QED
    BY <2>3, <2>4 DEF new
<1> QED
  BY <1>2, <1>3

(* newTemplate puts a template at the head of the list.                    *)
LEMMA AddTemplateTypes ==
  ASSUME NEW e \in Exporters, NEW id \in TemplateIds, NEW layout \in Layouts \cup {"sampler"}
  PROVE  /\ AddTemplate(e, id, layout) \in Exporters
         /\ Same(AddTemplate(e, id, layout), e)
         /\ AddTemplate(e, id, layout).announced = e.announced
<1> DEFINE r == RemoveTemplate(e, id)
           list == <<[id |-> id, layout |-> layout]>> \o r.template
<1>1. r \in Exporters /\ Same(r, e) /\ r.announced = e.announced
  BY RemoveTemplateTypes
<1>2. AddTemplate(e, id, layout) = [r EXCEPT !.template = list]
  BY DEF AddTemplate
<1> HIDE DEF r
<1>3. list \in Seq(Templates)
  BY <1>1 DEF Exporters, Templates
<1> HIDE DEF list
<1> QED
  BY <1>1, <1>2, <1>3 DEF Exporters, Same

LEMMA AddTemplateList ==
  ASSUME NEW e \in Exporters, NEW id \in TemplateIds, NEW layout \in Layouts \cup {"sampler"},
         Once(e.template),
         e.currentTemplate # None => e.currentTemplate \in ToSet(e.template)
  PROVE  LET new == AddTemplate(e, id, layout)
         IN /\ Once(new.template)
            /\ ToSet(new.template) = {t \in ToSet(e.template) : t.id # id} \cup {[id |-> id, layout |-> layout]}
            /\ new.currentTemplate # None => new.currentTemplate \in ToSet(new.template)
<1> DEFINE r == RemoveTemplate(e, id)
           t0 == [id |-> id, layout |-> layout]
           list == <<t0>> \o r.template
           new == AddTemplate(e, id, layout)
<1>1. r \in Exporters
  BY RemoveTemplateTypes
<1>2. /\ Once(r.template)
      /\ ToSet(r.template) = {t \in ToSet(e.template) : t.id # id}
      /\ r.currentTemplate # None => r.currentTemplate \in ToSet(r.template)
  BY RemoveTemplateList
<1>3. new = [r EXCEPT !.template = list]
  BY DEF AddTemplate
<1> HIDE DEF r, new
<1>4. new.template = list /\ new.currentTemplate = r.currentTemplate
  BY <1>1, <1>3 DEF Exporters
<1>5. r.template \in Seq(Templates) /\ t0 \in Templates /\ t0.id = id
  BY <1>1 DEF Exporters, Templates
<1> HIDE DEF t0
<1>6. /\ DOMAIN list = 1 .. Len(r.template) + 1 /\ list[1] = t0
      /\ DOMAIN r.template = 1 .. Len(r.template) /\ Len(r.template) \in Nat
      /\ \A i \in 2 .. Len(r.template) + 1 : list[i] = r.template[i - 1]
  BY <1>5
<1> HIDE DEF list
<1>7. ToSet(list) = ToSet(r.template) \cup {t0}
  <2>1. ASSUME NEW i \in DOMAIN list PROVE list[i] \in ToSet(r.template) \cup {t0}
    <3>1. CASE i = 1
      BY <1>6, <3>1
    <3>2. CASE i # 1
      <4>1. i - 1 \in DOMAIN r.template /\ list[i] = r.template[i - 1]
        BY <1>6, <3>2
      <4> QED
        BY <4>1 DEF ToSet
    <3> QED
      BY <3>1, <3>2
  <2>2. ASSUME NEW i \in DOMAIN r.template PROVE r.template[i] \in ToSet(list)
    <3>1. i + 1 \in DOMAIN list /\ i + 1 \in 2 .. Len(r.template) + 1 /\ (i + 1) - 1 = i
      BY <1>6
    <3>2. list[i + 1] = r.template[i]
      BY <1>6, <3>1
    <3> QED
      BY <3>1, <3>2 DEF ToSet
  <2>3. t0 \in ToSet(list)
    <3>1. 1 \in DOMAIN list
      BY <1>6
    <3> QED
      BY <1>6, <3>1 DEF ToSet
  <2>4. ToSet(list) = {list[i] : i \in DOMAIN list} /\ ToSet(r.template) = {r.template[i] : i \in DOMAIN r.template}
    BY DEF ToSet
  <2> QED
    BY <2>1, <2>2, <2>3, <2>4
<1>8. Once(list)
  <2>1. \A i \in DOMAIN r.template : r.template[i].id # id
    BY <1>2 DEF ToSet
  <2> SUFFICES ASSUME NEW i \in DOMAIN list, NEW j \in DOMAIN list, list[i].id = list[j].id, i # j
               PROVE  FALSE
    BY DEF Once
  <2>2. \A k \in DOMAIN list : k # 1 => k - 1 \in DOMAIN r.template /\ list[k] = r.template[k - 1]
    BY <1>6
  <2>3. i # 1 /\ j # 1
    BY <1>5, <1>6, <2>1, <2>2
  <2>4. i - 1 = j - 1
    BY <1>2, <2>2, <2>3 DEF Once
  <2> QED
    BY <1>6, <2>4
<1> QED
  BY <1>2, <1>4, <1>7, <1>8 DEF t0, new

(* getTemplate returns a template with this id if there is one.            *)
LEMMA GetTemplateTypes ==
  ASSUME NEW e \in Exporters, NEW id
  PROVE  GetTemplate(e, id) \in Templates \cup {None}
<1>1. e.template \in Seq(Templates) /\ e.currentTemplate \in Templates \cup {None}
  BY DEF Exporters
<1>2. Position(e.template, id) # 0 => e.template[Position(e.template, id)] \in Templates
  BY <1>1, PositionFacts
<1> QED
  BY <1>1, <1>2 DEF GetTemplate

LEMMA GetTemplateFacts ==
  ASSUME NEW e \in Exporters, NEW id, TemplatesOK(e)
  PROVE  /\ GetTemplate(e, id) = None => \A t \in ToSet(e.template) : t.id # id
         /\ GetTemplate(e, id) # None => /\ GetTemplate(e, id) \in ToSet(e.template)
                                         /\ GetTemplate(e, id) \in Templates
                                         /\ GetTemplate(e, id).id = id
<1> DEFINE i == Position(e.template, id)
<1>1. e.template \in Seq(Templates) /\ e.currentTemplate \in Templates \cup {None}
  BY DEF Exporters
<1>2. i = 0 => \A t \in ToSet(e.template) : t.id # id
  BY <1>1, PositionFacts
<1>3. i # 0 => /\ e.template[i] \in ToSet(e.template) /\ e.template[i].id = id
               /\ e.template[i] \in Templates
  BY <1>1, PositionFacts DEF ToSet
<1>4. None \notin Templates
  BY ExportersAssumption DEF Templates
<1>5. e.currentTemplate # None => e.currentTemplate \in ToSet(e.template)
  BY DEF TemplatesOK
<1> QED
  BY <1>1, <1>2, <1>3, <1>4, <1>5 DEF GetTemplate

(* An announced template is the one of the list for its id.                *)
LEMMA Announced ==
  ASSUME NEW e \in Exporters, NEW id \in TemplateIds, NEW layout \in Layouts \cup {"sampler"}
  PROVE  LET new == Announce(AddTemplate(e, id, layout), id, layout)
         IN new \in Exporters /\ Same(new, e) /\ (TemplatesOK(e) => TemplatesOK(new))
<1> DEFINE a == AddTemplate(e, id, layout)
           new == Announce(a, id, layout)
           t0 == [id |-> id, layout |-> layout]
<1>1. a \in Exporters /\ Same(a, e) /\ a.announced = e.announced
  BY AddTemplateTypes
<1>2. TemplatesOK(e) => /\ Once(a.template)
                        /\ ToSet(a.template) = {t \in ToSet(e.template) : t.id # id} \cup {t0}
                        /\ a.currentTemplate # None => a.currentTemplate \in ToSet(a.template)
  BY AddTemplateList DEF TemplatesOK
<1>3. new = [a EXCEPT !.announced[id] = layout]
  BY DEF Announce
<1> HIDE DEF a, new
<1>4. new \in Exporters /\ Same(new, e)
  BY <1>1, <1>3 DEF Exporters, Same
<1>5. /\ new.template = a.template /\ new.currentTemplate = a.currentTemplate
      /\ \A k \in TemplateIds : new.announced[k] = IF k = id THEN layout ELSE e.announced[k]
  BY <1>1, <1>3 DEF Exporters
<1>6. ASSUME TemplatesOK(e) PROVE TemplatesOK(new)
  <2>1. layout # None
    BY ExportersAssumption
  <2>2. ASSUME NEW k \in TemplateIds, new.announced[k] = None
        PROVE  \A t \in ToSet(new.template) : t.id # k
    <3>1. k # id /\ e.announced[k] = None
      BY <1>5, <2>1, <2>2
    <3>2. \A t \in ToSet(e.template) : t.id # k
      BY <1>6, <3>1 DEF TemplatesOK
    <3> QED
      BY <1>2, <1>5, <1>6, <3>1, <3>2
  <2>3. ASSUME NEW k \in TemplateIds, new.announced[k] # None
        PROVE  [id |-> k, layout |-> new.announced[k]] \in ToSet(new.template)
    <3>1. CASE k = id
      BY <1>2, <1>5, <1>6, <3>1
    <3>2. CASE k # id
      <4>1. [id |-> k, layout |-> e.announced[k]] \in ToSet(e.template)
        BY <1>5, <1>6, <2>3, <3>2 DEF TemplatesOK
      <4> QED
        BY <1>2, <1>5, <1>6, <3>2, <4>1
    <3> QED
      BY <3>1, <3>2
  <2> QED
    BY <1>2, <1>5, <1>6, <2>2, <2>3 DEF TemplatesOK
<1> QED
  BY <1>4, <1>6 DEF a, new

(* A withdrawn template, or one that options without a known field have    *)
(* taken the place of, is gone.                                            *)
LEMMA Withdrawn ==
  ASSUME NEW e \in Exporters, NEW id \in TemplateIds
  PROVE  LET new == Announce(RemoveTemplate(e, id), id, None)
         IN new \in Exporters /\ Same(new, e) /\ (TemplatesOK(e) => TemplatesOK(new))
<1> DEFINE a == RemoveTemplate(e, id)
           new == Announce(a, id, None)
<1>1. a \in Exporters /\ Same(a, e) /\ a.announced = e.announced
  BY RemoveTemplateTypes
<1>2. TemplatesOK(e) => /\ Once(a.template)
                        /\ ToSet(a.template) = {t \in ToSet(e.template) : t.id # id}
                        /\ a.currentTemplate # None => a.currentTemplate \in ToSet(a.template)
  BY RemoveTemplateList DEF TemplatesOK
<1>3. new = [a EXCEPT !.announced[id] = None]
  BY DEF Announce
<1> HIDE DEF a, new
<1>4. new \in Exporters /\ Same(new, e)
  BY <1>1, <1>3 DEF Exporters, Same
<1>5. /\ new.template = a.template /\ new.currentTemplate = a.currentTemplate
      /\ \A k \in TemplateIds : new.announced[k] = IF k = id THEN None ELSE e.announced[k]
  BY <1>1, <1>3 DEF Exporters
<1>6. ASSUME TemplatesOK(e) PROVE TemplatesOK(new)
  <2>1. ASSUME NEW k \in TemplateIds, new.announced[k] = None
        PROVE  \A t \in ToSet(new.template) : t.id # k
    <3>1. k = id \/ \A t \in ToSet(e.template) : t.id # k
      BY <1>5, <1>6, <2>1 DEF TemplatesOK
    <3> QED
      BY <1>2, <1>5, <1>6, <3>1
  <2>2. ASSUME NEW k \in TemplateIds, new.announced[k] # None
        PROVE  [id |-> k, layout |-> new.announced[k]] \in ToSet(new.template)
    <3>1. k # id /\ new.announced[k] = e.announced[k]
      BY <1>5, <2>2
    <3>2. [id |-> k, layout |-> e.announced[k]] \in ToSet(e.template)
      BY <1>6, <2>2, <3>1 DEF TemplatesOK
    <3> QED
      BY <1>2, <1>5, <1>6, <3>1, <3>2
  <2> QED
    BY <1>2, <1>5, <1>6, <2>1, <2>2 DEF TemplatesOK
<1> QED
  BY <1>4, <1>6 DEF a, new

(* Looking an id up changes the cache only.                                *)
LEMMA LookedUp ==
  ASSUME NEW e \in Exporters, NEW t \in Templates \cup {None}, NEW id
  PROVE  LET new == [e EXCEPT !.currentTemplate = t]
         IN /\ new \in Exporters /\ Same(new, e)
            /\ t = GetTemplate(e, id) => (TemplatesOK(e) => TemplatesOK(new))
<1> DEFINE new == [e EXCEPT !.currentTemplate = t]
<1>1. TemplatesOK(e) /\ t = GetTemplate(e, id) => (t # None => t \in ToSet(e.template))
  BY GetTemplateFacts
<1>2. new \in Exporters /\ Same(new, e)
  BY DEF Exporters, Same
<1>3. new.template = e.template /\ new.currentTemplate = t /\ new.announced = e.announced
  BY DEF Exporters
<1> HIDE DEF new
<1>4. t = GetTemplate(e, id) => (TemplatesOK(e) => TemplatesOK(new))
  BY <1>1, <1>3 DEF TemplatesOK
<1> QED
  BY <1>2, <1>4 DEF new

(* The list gives what was announced, by whatever way it is looked up.     *)
LEMMA ListGivesAnnounced ==
  ASSUME NEW e \in Exporters, TemplatesOK(e), NEW id \in TemplateIds
  PROVE  IF GetTemplate(e, id) = None THEN e.announced[id] = None
                                      ELSE e.announced[id] = GetTemplate(e, id).layout
<1> DEFINE t == GetTemplate(e, id)
<1>1. t = None => \A u \in ToSet(e.template) : u.id # id
  BY GetTemplateFacts
<1>2. t # None => t \in ToSet(e.template) /\ t \in Templates /\ t.id = id
  BY GetTemplateFacts
<1> HIDE DEF t
<1> DEFINE a == e.announced[id]
           u == [id |-> id, layout |-> a]
<1>3. a = None => \A v \in ToSet(e.template) : v.id # id
  BY DEF TemplatesOK
<1>4. a # None => u \in ToSet(e.template)
  BY DEF TemplatesOK
<1>5. u.id = id /\ u.layout = a
  OBVIOUS
<1> HIDE DEF u, a
<1>6. CASE t = None
  BY <1>1, <1>4, <1>5, <1>6 DEF t, a
<1>7. CASE t # None
  <2>1. a # None
    BY <1>2, <1>3, <1>7
  <2>2. u = t
    <3>1. PICK i \in DOMAIN e.template : u = e.template[i]
      BY <1>4, <2>1 DEF ToSet
    <3>2. PICK j \in DOMAIN e.template : t = e.template[j]
      BY <1>2, <1>7 DEF ToSet
    <3> QED
      BY <1>2, <1>5, <1>7, <3>1, <3>2 DEF TemplatesOK, Once
  <2> QED
    BY <1>5, <1>7, <2>2 DEF t, a
<1> QED
  BY <1>6, <1>7

-------------------------------------------------------------------------------
(* Facts about an exporter and its samplers                                *)

LEMMA SamplingType ==
  ASSUME NEW samplers \in Seq(Samplers), NEW id
  PROVE  SamplingOf(samplers, id) \in Nat
<1>1. \A i \in DOMAIN samplers : samplers[i].interval \in Nat
  <2>1. \A i \in DOMAIN samplers : samplers[i] \in Samplers
    BY LenProperties, ElementOfSeq
  <2> QED
    BY <2>1, ExportersAssumption DEF Samplers
<1> QED
  BY <1>1 DEF SamplingOf, IndexOfSampler

(* A sampler that is not known yet is put at the end of the list.          *)
LEMMA NewSampler ==
  ASSUME NEW e \in Exporters, NEW s \in Samplers, IndexOfSampler(e.sampler, s.id) = {}
  PROVE  LET new == [e EXCEPT !.sampler = Append(@, s)]
         IN /\ new \in Exporters /\ new.key = e.key /\ new.sysid = e.sysid /\ new.flows = e.flows
            /\ TemplatesOK(e) => TemplatesOK(new)
            /\ Once(e.sampler) => Once(new.sampler)
            /\ IndexOfSampler(new.sampler, s.id) = {Len(e.sampler) + 1}
            /\ new.sampler[Len(e.sampler) + 1] = s
            /\ \A id : id # s.id => IndexOfSampler(new.sampler, id) = IndexOfSampler(e.sampler, id)
            /\ \A i \in DOMAIN e.sampler : new.sampler[i] = e.sampler[i]
<1> DEFINE list == Append(e.sampler, s)
           new == [e EXCEPT !.sampler = list]
           n == Len(e.sampler)
<1>1. e.sampler \in Seq(Samplers)
  BY DEF Exporters
<1>2. /\ list \in Seq(Samplers)
      /\ DOMAIN list = (DOMAIN e.sampler) \cup {n + 1} /\ DOMAIN e.sampler = 1 .. n /\ n \in Nat
      /\ \A i \in DOMAIN e.sampler : list[i] = e.sampler[i]
      /\ list[n + 1] = s
  BY <1>1, SeqAppend
<1>3. [e EXCEPT !.sampler = Append(@, s)] = new
  OBVIOUS
<1> HIDE DEF list, n
<1>4. /\ new \in Exporters /\ new.key = e.key /\ new.sysid = e.sysid /\ new.flows = e.flows
      /\ new.sampler = list /\ new.template = e.template /\ new.currentTemplate = e.currentTemplate
      /\ new.announced = e.announced
  BY <1>2 DEF Exporters
<1>5. TemplatesOK(e) => TemplatesOK(new)
  <2> HIDE DEF new
  <2> QED
    BY <1>4 DEF TemplatesOK
<1>6. \A i \in DOMAIN e.sampler : e.sampler[i].id # s.id
  BY DEF IndexOfSampler
<1>7. Once(e.sampler) => Once(list)
  BY <1>2, <1>6 DEF Once
<1>8. IndexOfSampler(list, s.id) = {n + 1}
  BY <1>2, <1>6 DEF IndexOfSampler
<1>9. \A id : id # s.id => IndexOfSampler(list, id) = IndexOfSampler(e.sampler, id)
  BY <1>2 DEF IndexOfSampler
<1> QED
  BY <1>2, <1>3, <1>4, <1>5, <1>7, <1>8, <1>9 DEF n

(* A sampler that is known is changed in place.                            *)
LEMMA ChangedSampler ==
  ASSUME NEW e \in Exporters, NEW s \in Samplers, NEW i \in IndexOfSampler(e.sampler, s.id)
  PROVE  LET new == [e EXCEPT !.sampler[i] = s]
         IN /\ new \in Exporters /\ new.key = e.key /\ new.sysid = e.sysid /\ new.flows = e.flows
            /\ TemplatesOK(e) => TemplatesOK(new)
            /\ Once(e.sampler) => Once(new.sampler)
            /\ \A id : IndexOfSampler(new.sampler, id) = IndexOfSampler(e.sampler, id)
            /\ \A j \in DOMAIN e.sampler : new.sampler[j] = IF j = i THEN s ELSE e.sampler[j]
<1> DEFINE list == [e.sampler EXCEPT ![i] = s]
           new == [e EXCEPT !.sampler = list]
<1>1. e.sampler \in Seq(Samplers) /\ i \in DOMAIN e.sampler /\ e.sampler[i].id = s.id
  BY DEF Exporters, IndexOfSampler
<1>2. /\ list \in Seq(Samplers) /\ DOMAIN list = DOMAIN e.sampler
      /\ \A j \in DOMAIN e.sampler : list[j] = IF j = i THEN s ELSE e.sampler[j]
  BY <1>1
<1>3. [e EXCEPT !.sampler[i] = s] = new
  OBVIOUS
<1> HIDE DEF list
<1>4. /\ new \in Exporters /\ new.key = e.key /\ new.sysid = e.sysid /\ new.flows = e.flows
      /\ new.sampler = list /\ new.template = e.template /\ new.currentTemplate = e.currentTemplate
      /\ new.announced = e.announced
  BY <1>2 DEF Exporters
<1>5. TemplatesOK(e) => TemplatesOK(new)
  <2> HIDE DEF new
  <2> QED
    BY <1>4 DEF TemplatesOK
<1>6. \A j \in DOMAIN e.sampler : list[j].id = e.sampler[j].id
  BY <1>1, <1>2
<1>7. Once(e.sampler) => Once(list)
  BY <1>2, <1>6 DEF Once
<1>8. \A id : IndexOfSampler(list, id) = IndexOfSampler(e.sampler, id)
  BY <1>2, <1>6 DEF IndexOfSampler
<1> QED
  BY <1>2, <1>3, <1>4, <1>5, <1>7, <1>8

-------------------------------------------------------------------------------
(* The steps that change nothing but the tables of the exporters           *)

(* The templates of an exporter stay in order, unless they were freed.     *)
Sound(new, e) == dangling' \/ (TemplatesOK(e) => TemplatesOK(new))

(* An exporter keeps its name, its samplers and its count of flows, and    *)
(* its templates stay in order.                                            *)
Alike(new, e) == Same(new, e) /\ Sound(new, e)

(* No record is written, no exporter comes and no file is closed.          *)
Quiet ==
    /\ exporter_data' \in [Sources -> Seq(Exporters)]
    /\ \A s \in Sources : /\ DOMAIN exporter_data'[s] = DOMAIN exporter_data[s]
                          /\ \A i \in DOMAIN exporter_data[s] : Alike(exporter_data'[s][i], exporter_data[s][i])
    /\ dangling' \in BOOLEAN /\ (dangling => dangling')
    /\ UNCHANGED <<exporter_count, exporter_sysid, file, decoded, archive, lost, faults>>

LEMMA AlikeItself ==
  ASSUME NEW e
  PROVE  Alike(e, e)
BY DEF Alike, Same, Sound

LEMMA SeqDomain ==
  ASSUME NEW R, NEW s \in Seq(R), NEW t \in Seq(R), DOMAIN s = DOMAIN t
  PROVE  Len(s) = Len(t)
BY LenProperties

LEMMA UnchangedIsQuiet ==
  ASSUME TypeOK, UNCHANGED <<exporterVars, archive, lost, faults>>
  PROVE  Quiet
<1>1. /\ exporter_data' = exporter_data /\ exporter_data \in [Sources -> Seq(Exporters)]
      /\ dangling' = dangling /\ dangling \in BOOLEAN
      /\ UNCHANGED <<exporter_count, exporter_sysid, file, decoded, archive, lost, faults>>
  BY DEF TypeOK, exporterVars
<1> QED
  BY <1>1, AlikeItself DEF Quiet

LEMMA QuietKeeps ==
  ASSUME TypeOK, SysidsUnique, RecordsNamed, TemplateLists, FileTypes, Quiet
  PROVE  SysidsUnique' /\ RecordsNamed' /\ TemplateLists' /\ FileTypes'
<1>1. \A s \in Sources : /\ DOMAIN exporter_data'[s] = DOMAIN exporter_data[s]
                         /\ \A i \in DOMAIN exporter_data[s] : Alike(exporter_data'[s][i], exporter_data[s][i])
  BY DEF Quiet
<1>2. UNCHANGED <<exporter_count, exporter_sysid, file, decoded, archive, lost, faults>>
  BY DEF Quiet
<1>3. SysidsUnique'
  <2> SUFFICES ASSUME NEW s \in Sources, NEW t \in Sources,
                      NEW i \in DOMAIN exporter_data'[s], NEW j \in DOMAIN exporter_data'[t]
               PROVE  LET e == exporter_data'[s][i]
                          f == exporter_data'[t][j]
                      IN /\ e.sysid <= exporter_sysid'
                         /\ e.sysid = f.sysid /\ e.sysid # 0 => s = t /\ i = j
                         /\ s = t /\ e.key = f.key => i = j
    BY DEF SysidsUnique
  <2>1. /\ i \in DOMAIN exporter_data[s] /\ j \in DOMAIN exporter_data[t]
        /\ Alike(exporter_data'[s][i], exporter_data[s][i]) /\ Alike(exporter_data'[t][j], exporter_data[t][j])
    BY <1>1
  <2> QED
    BY <1>2, <2>1 DEF SysidsUnique, Alike, Same
<1>4. RecordsNamed'
  BY <1>2 DEF RecordsNamed, Named, Files
<1>5. TemplateLists'
  <2>1. dangling => dangling'
    BY DEF Quiet
  <2> QED
    BY <1>1, <2>1 DEF TemplateLists, Alike, Sound
<1>6. FileTypes'
  BY <1>2 DEF FileTypes
<1> QED
  BY <1>3, <1>4, <1>5, <1>6

(* The counters stay those of the file, if no new slot begins.             *)
LEMMA QuietCounts ==
  ASSUME TypeOK, CountersMatch, Quiet, dynamic' = dynamic,
         main' \in {"rotated", "exited", "dead"} \/ main \notin {"rotated", "exited", "dead"}
  PROVE  CountersMatch'
<1>1. /\ exporter_data \in [Sources -> Seq(Exporters)] /\ exporter_data' \in [Sources -> Seq(Exporters)]
      /\ \A s \in Sources : /\ DOMAIN exporter_data'[s] = DOMAIN exporter_data[s]
                            /\ \A i \in DOMAIN exporter_data[s] : Alike(exporter_data'[s][i], exporter_data[s][i])
      /\ UNCHANGED <<exporter_count, exporter_sysid, file, decoded, archive, lost, faults>>
  BY DEF Quiet, TypeOK
<1>2. \A s \in Sources : Len(exporter_data'[s]) = Len(exporter_data[s])
  <2> SUFFICES ASSUME NEW s \in Sources PROVE Len(exporter_data'[s]) = Len(exporter_data[s])
    OBVIOUS
  <2>1. exporter_data[s] \in Seq(Exporters) /\ exporter_data'[s] \in Seq(Exporters)
    BY <1>1
  <2> QED
    BY <1>1, <2>1, SeqDomain
<1> SUFFICES ASSUME NEW s \in Sources
             PROVE  /\ exporter_count'[s] <= Len(exporter_data'[s])
                    /\ ~dynamic' /\ main' \notin {"rotated", "exited", "dead"} =>
                          /\ exporter_count'[s] = Len(exporter_data'[s])
                          /\ \A i \in DOMAIN exporter_data'[s] :
                                LET e == exporter_data'[s][i]
                                IN e.sysid # 0 => e.flows = Count(file'[s], e.sysid)
  BY DEF CountersMatch, Count
<1>3. exporter_count[s] <= Len(exporter_data[s])
  BY DEF CountersMatch
<1>4. ASSUME ~dynamic', main' \notin {"rotated", "exited", "dead"}
      PROVE  /\ exporter_count'[s] = Len(exporter_data'[s])
             /\ \A i \in DOMAIN exporter_data'[s] :
                    LET e == exporter_data'[s][i]
                    IN e.sysid # 0 => e.flows = Count(file'[s], e.sysid)
  <2>1. /\ exporter_count[s] = Len(exporter_data[s])
        /\ \A i \in DOMAIN exporter_data[s] :
              LET e == exporter_data[s][i]
              IN e.sysid # 0 => e.flows = Count(file[s], e.sysid)
    BY <1>4 DEF CountersMatch
  <2> QED
    BY <1>1, <1>2, <2>1 DEF Alike, Same
<1> QED
  BY <1>1, <1>2, <1>3, <1>4

-------------------------------------------------------------------------------
(* The steps of decoding                                                   *)

LEMMA AtSets ==
  ASSUME TypeOK, Places, main = "sets"
  PROVE  /\ fs \in Sources /\ fs \in ToSet(FlowSource) /\ received = t_now
         /\ packet \in Packets
         /\ exporter \in DOMAIN exporter_data[fs]
         /\ exporter_data[fs] \in Seq(Exporters)
         /\ TheExporter \in Exporters
         /\ setNo \in Nat \ {0}
<1>1. /\ fs \in ToSet(FlowSource) /\ received = t_now /\ packet \in Packets
      /\ exporter \in DOMAIN exporter_data[fs] /\ setNo \in Nat \ {0}
  BY DEF Places
<1>2. FlowSource \in Seq(Sources) /\ exporter_data \in [Sources -> Seq(Exporters)]
  BY DEF TypeOK
<1>3. fs \in Sources
  <2>1. PICK i \in DOMAIN FlowSource : fs = FlowSource[i]
    BY <1>1 DEF ToSet
  <2> QED
    BY <1>2, <2>1
<1>4. exporter_data[fs] \in Seq(Exporters)
  BY <1>2, <1>3
<1>5. exporter_data[fs][exporter] \in Exporters
  BY <1>1, <1>4
<1> QED
  BY <1>1, <1>3, <1>4, <1>5 DEF TheExporter

LEMMA TheSetType ==
  ASSUME TypeOK, Places, main = "sets", setNo <= Len(packet.sets)
  PROVE  TheSet \in Sets
<1>1. packet \in Packets /\ setNo \in Nat \ {0}
  BY AtSets
<1>2. packet.sets \in Seq(Sets)
  BY <1>1 DEF Packets
<1>3. setNo \in DOMAIN packet.sets
  BY <1>1, <1>2
<1> QED
  BY <1>2, <1>3 DEF TheSet

(* Update changes the exporter of the packet and no other.                 *)
LEMMA UpdateOne ==
  ASSUME TypeOK, Places, main = "sets", NEW new \in Exporters, Update(new)
  PROVE  /\ exporter_data' \in [Sources -> Seq(Exporters)]
         /\ \A s \in Sources :
               /\ DOMAIN exporter_data'[s] = DOMAIN exporter_data[s]
               /\ Len(exporter_data'[s]) = Len(exporter_data[s])
               /\ \A i \in DOMAIN exporter_data[s] :
                     exporter_data'[s][i] = IF s = fs /\ i = exporter THEN new ELSE exporter_data[s][i]
<1>1. /\ fs \in Sources /\ exporter \in DOMAIN exporter_data[fs] /\ exporter_data[fs] \in Seq(Exporters)
      /\ exporter_data \in [Sources -> Seq(Exporters)]
  BY AtSets DEF TypeOK
<1> DEFINE list == [exporter_data[fs] EXCEPT ![exporter] = new]
<1>2. exporter_data' = [exporter_data EXCEPT ![fs] = list]
  BY DEF Update
<1>3. /\ list \in Seq(Exporters) /\ DOMAIN list = DOMAIN exporter_data[fs]
      /\ \A i \in DOMAIN exporter_data[fs] : list[i] = IF i = exporter THEN new ELSE exporter_data[fs][i]
  BY <1>1
<1>4. Len(list) = Len(exporter_data[fs])
  BY <1>1, <1>3, SeqDomain
<1> HIDE DEF list
<1>5. exporter_data' \in [Sources -> Seq(Exporters)]
  BY <1>1, <1>2, <1>3
<1>6. ASSUME NEW s \in Sources
      PROVE  exporter_data'[s] = IF s = fs THEN list ELSE exporter_data[s]
  BY <1>1, <1>2
<1> QED
  BY <1>3, <1>4, <1>5, <1>6

LEMMA UpdateQuiet ==
  ASSUME TypeOK, Places, main = "sets", NEW new \in Exporters, Update(new),
         Alike(new, TheExporter), dangling' \in BOOLEAN, dangling => dangling',
         UNCHANGED <<exporter_count, exporter_sysid, file, decoded, archive, lost, faults>>
  PROVE  Quiet
<1>1. fs \in Sources
  BY AtSets
<1> QED
  BY <1>1, UpdateOne, AlikeItself DEF Quiet, TheExporter

(* What getTemplate finds                                                  *)
LEMMA FoundFacts ==
  ASSUME TheExporter \in Exporters, NEW id, NEW t \in Found(id)
  PROVE  /\ t \in Templates \cup {None}
         /\ dangling \/ t = GetTemplate(TheExporter, id)
BY GetTemplateTypes DEF Found

LEMMA CachedFacts ==
  ASSUME TheExporter \in Exporters, NEW id, NEW t \in Found(id), dangling' = dangling
  PROVE  Cached(t) \in Exporters /\ Same(Cached(t), TheExporter) /\ Sound(Cached(t), TheExporter)
<1>1. t \in Templates \cup {None} /\ (dangling \/ t = GetTemplate(TheExporter, id))
  BY FoundFacts
<1>2. /\ Cached(t) \in Exporters /\ Same(Cached(t), TheExporter)
      /\ t = GetTemplate(TheExporter, id) => (TemplatesOK(TheExporter) => TemplatesOK(Cached(t)))
  BY <1>1, LookedUp DEF Cached
<1> QED
  BY <1>1, <1>2 DEF Sound

(* All templates are withdrawn: there were none, or they are freed.        *)
LEMMA AllWithdrawn ==
  ASSUME NEW e \in Exporters, dangling' \/ e.template = <<>>
  PROVE  LET new == [e EXCEPT !.announced = [id \in TemplateIds |-> None]]
         IN new \in Exporters /\ Alike(new, e)
<1> DEFINE nothing == [id \in TemplateIds |-> None]
           new == [e EXCEPT !.announced = nothing]
<1>1. nothing \in [TemplateIds -> Layouts \cup {"sampler", None}] /\ \A id \in TemplateIds : nothing[id] = None
  OBVIOUS
<1> HIDE DEF nothing
<1>2. new \in Exporters /\ Same(new, e)
  BY <1>1 DEF Exporters, Same
<1>3. new.template = e.template /\ new.currentTemplate = e.currentTemplate /\ new.announced = nothing
  BY DEF Exporters
<1> HIDE DEF new
<1>4. e.template = <<>> => ToSet(e.template) = {}
  BY DEF ToSet
<1>5. e.template = <<>> => (TemplatesOK(e) => TemplatesOK(new))
  BY <1>1, <1>3, <1>4 DEF TemplatesOK
<1> QED
  BY <1>2, <1>5 DEF new, nothing, Alike, Sound

TemplateSets == DataTemplate \/ OptionTemplate \/ WithdrawTemplate \/ WithdrawAllTemplates \/ UnknownData

(* What a template set, or a data set without a template, does             *)
LEMMA TemplateStep ==
  ASSUME TypeOK, Places, TemplateSets,
         UNCHANGED <<archive, lost, faults>>
  PROVE  Quiet
<1>1. /\ main = "sets" /\ setNo <= Len(packet.sets)
      /\ UNCHANGED <<exporter_count, exporter_sysid, file, decoded>>
      /\ dangling' = dangling \/ (WithdrawAllTemplates /\ dangling' = (dangling \/ TheExporter.template # <<>>))
  BY DEF TemplateSets, DataTemplate, OptionTemplate, WithdrawTemplate, WithdrawAllTemplates, UnknownData, AtSet, NextSet
<1>2. TheExporter \in Exporters /\ TheSet \in Sets
  BY <1>1, AtSets, TheSetType
<1>a. dangling' \in BOOLEAN /\ (dangling => dangling')
  <2>1. dangling \in BOOLEAN
    BY DEF TypeOK
  <2>2. CASE dangling' = dangling
    BY <2>1, <2>2
  <2>3. CASE dangling' = (dangling \/ TheExporter.template # <<>>)
    BY <2>1, <2>3, Zenon
  <2> QED
    BY <1>1, <2>2, <2>3
<1> DEFINE e == TheExporter
           st == TheSet
<1>3. \E new \in Exporters : Update(new) /\ Alike(new, e)
  <2>1. CASE DataTemplate
    <3>1. st.id \in TemplateIds /\ st.layout \in Layouts \cup {"unknown"}
      <4>1. st \in Sets /\ st.type = "template"
        BY <1>2, <2>1 DEF DataTemplate, AtSet
      <4> QED
        BY <4>1 DEF Sets
    <3>2. Update(IF st.layout = "unknown" THEN e
                 ELSE Announce(AddTemplate(e, st.id, st.layout), st.id, st.layout))
      BY <2>1 DEF DataTemplate
    <3> HIDE DEF e, st
    <3>3. e \in Exporters
      BY <1>2 DEF e
    <3>4. CASE st.layout = "unknown"
      BY <3>2, <3>3, <3>4, AlikeItself
    <3>5. CASE st.layout # "unknown"
      <4>1. st.layout \in Layouts \cup {"sampler"}
        BY <3>1, <3>5
      <4> QED
        BY <3>1, <3>2, <3>3, <3>5, <4>1, Announced DEF Alike, Sound
    <3> QED
      BY <3>4, <3>5
  <2>2. CASE OptionTemplate
    <3>1. st.id \in TemplateIds /\ st.layout \in {"sampler", "unknown"}
      <4>1. st \in Sets /\ st.type = "options"
        BY <1>2, <2>2 DEF OptionTemplate, AtSet
      <4> QED
        BY <4>1 DEF Sets
    <3>2. Update(IF st.layout = "unknown"
                   THEN Announce(RemoveTemplate(e, st.id), st.id, None)
                   ELSE Announce(AddTemplate(e, st.id, st.layout), st.id, st.layout))
      BY <2>2 DEF OptionTemplate
    <3> HIDE DEF e, st
    <3>3. e \in Exporters
      BY <1>2 DEF e
    <3>4. CASE st.layout = "unknown"
      BY <3>1, <3>2, <3>3, <3>4, Withdrawn DEF Alike, Sound
    <3>5. CASE st.layout # "unknown"
      <4>1. st.layout \in Layouts \cup {"sampler"}
        BY <3>1, <3>5
      <4> QED
        BY <3>1, <3>2, <3>3, <3>5, <4>1, Announced DEF Alike, Sound
    <3> QED
      BY <3>4, <3>5
  <2>3. CASE WithdrawTemplate
    <3>1. st.id \in TemplateIds
      <4>1. st \in Sets /\ st.type = "withdraw"
        BY <1>2, <2>3 DEF WithdrawTemplate, AtSet
      <4> QED
        BY <4>1 DEF Sets
    <3>2. Update(Announce(RemoveTemplate(e, st.id), st.id, None))
      BY <2>3 DEF WithdrawTemplate
    <3> HIDE DEF e, st
    <3> QED
      BY <1>2, <3>1, <3>2, Withdrawn DEF Alike, Sound, e
  <2>4. CASE WithdrawAllTemplates
    <3>1. Update([e EXCEPT !.announced = [id \in TemplateIds |-> None]])
      BY <2>4 DEF WithdrawAllTemplates
    <3>2. dangling' \/ e.template = <<>>
      BY <2>4 DEF WithdrawAllTemplates
    <3> HIDE DEF e, st
    <3> QED
      BY <1>2, <3>1, <3>2, AllWithdrawn DEF e
  <2>5. CASE UnknownData
    <3>1. Update(Cached(None)) /\ None \in Found(TheSet.id) /\ dangling' = dangling
      BY <2>5 DEF UnknownData
    <3> QED
      BY <1>2, <3>1, CachedFacts DEF Alike
  <2> QED
    BY <2>1, <2>2, <2>3, <2>4, <2>5 DEF TemplateSets
<1> QED
  BY <1>1, <1>3, <1>a, UpdateQuiet

(* A flow is written to the file of the source and counted.                *)
FlowRecord(e, sampler) ==
    [kind |-> "flow", number |-> decoded + 1, at |-> received, sysid |-> e.sysid,
     sampler |-> sampler, interval |-> SamplingOf(e.sampler, sampler)]

Flow ==
    \E new \in Exporters, sampler \in {0} \cup SamplerIds :
        /\ Update(new)
        /\ new.key = TheExporter.key /\ new.sysid = TheExporter.sysid
        /\ new.sampler = TheExporter.sampler /\ new.flows = TheExporter.flows + 1
        /\ Sound(new, TheExporter)
        /\ AppendToBuffer(fs, FlowRecord(TheExporter, sampler))
        /\ decoded' = decoded + 1 /\ dangling' = dangling

LEMMA FlowRecordFacts ==
  ASSUME TypeOK, NEW e \in Exporters, NEW sampler \in {0} \cup SamplerIds
  PROVE  LET r == FlowRecord(e, sampler)
         IN /\ r \in FlowRecords /\ r \in FileRecords /\ r.kind = "flow" /\ r.number = decoded + 1
            /\ r.at = received /\ r.sysid = e.sysid /\ r.sampler = sampler
            /\ r.interval = SamplingOf(e.sampler, sampler)
<1>1. decoded + 1 \in Nat \ {0} /\ received \in Nat
  BY DEF TypeOK
<1>2. e.sampler \in Seq(Samplers) /\ e.sysid \in 0 .. MaxSysId
  BY DEF Exporters
<1>3. SamplingOf(e.sampler, sampler) \in Nat
  BY <1>2, SamplingType
<1> QED
  BY <1>1, <1>2, <1>3 DEF FlowRecord, FlowRecords, FileRecords

LEMMA FlowStep ==
  ASSUME TypeOK, Places, FlowData
  PROVE  Flow /\ main = "sets"
<1>1. main = "sets" /\ setNo <= Len(packet.sets) /\ TheSet.type = "data"
  BY DEF FlowData, AtSet
<1>2. TheExporter \in Exporters /\ TheSet \in Sets
  BY <1>1, AtSets, TheSetType
<1>a. dangling' = dangling
  BY DEF FlowData
<1>b. PICK t \in Found(TheSet.id) :
         Update([Cached(t) EXCEPT !.flows = @ + 1, !.synced = TRUE,
                    !.sequence = IF Version(TheExporter) = 10 THEN (@ + 1) % SeqModulus ELSE @])
  BY Zenon DEF FlowData
<1> DEFINE e == TheExporter
           c == Cached(t)
           flows == c.flows + 1
           sequence == IF Version(e) = 10 THEN (c.sequence + 1) % SeqModulus ELSE c.sequence
           new == [c EXCEPT !.flows = flows, !.synced = TRUE, !.sequence = sequence]
<1>3. TheSet.sampler \in {0} \cup SamplerIds
  BY <1>1, <1>2 DEF Sets
<1>4. Update(new) /\ decoded' = decoded + 1
  BY <1>b DEF FlowData
<1>5. AppendToBuffer(fs, [kind |-> "flow", number |-> decoded', at |-> received, sysid |-> e.sysid,
                          sampler |-> TheSet.sampler, interval |-> SamplingOf(e.sampler, TheSet.sampler)])
  BY DEF FlowData
<1>6. c \in Exporters /\ Same(c, e) /\ Sound(c, e)
  BY <1>2, <1>a, CachedFacts
<1> HIDE DEF c, e
<1>7. flows \in Nat /\ sequence \in 0 .. SeqModulus - 1
  <2>1. c.flows \in Nat /\ c.sequence \in 0 .. SeqModulus - 1 /\ SeqModulus \in Nat \ {0}
    BY <1>6, ExportersAssumption DEF Exporters
  <2> QED
    BY <2>1
<1> HIDE DEF flows, sequence
<1>8. /\ new \in Exporters /\ new.key = c.key /\ new.sysid = c.sysid /\ new.sampler = c.sampler
      /\ new.flows = flows
      /\ new.template = c.template /\ new.currentTemplate = c.currentTemplate /\ new.announced = c.announced
  BY <1>6, <1>7 DEF Exporters
<1> HIDE DEF new
<1>9. TemplatesOK(c) => TemplatesOK(new)
  BY <1>8 DEF TemplatesOK
<1>10. AppendToBuffer(fs, FlowRecord(e, TheSet.sampler))
  BY <1>4, <1>5 DEF FlowRecord
<1>11. Sound(new, e)
  BY <1>6, <1>9 DEF Sound
<1> QED
  BY <1>1, <1>3, <1>4, <1>6, <1>8, <1>10, <1>11, <1>a DEF Flow, Same, flows, e

(* The exporter has this sampler at this place, and the others it had.     *)
Kept(new, e, s, k) ==
    /\ new.sysid = e.sysid
    /\ IndexOfSampler(new.sampler, s.id) = {k} /\ new.sampler[k] = s
    /\ \A id : id # s.id => /\ IndexOfSampler(new.sampler, id) = IndexOfSampler(e.sampler, id)
                            /\ \A i \in IndexOfSampler(e.sampler, id) : new.sampler[i] = e.sampler[i]

(* A sampler is kept and written; the file of a v9 exporter says what the  *)
(* exporter has.                                                           *)
LEMMA SamplerWritten ==
  ASSUME NEW records \in Seq(FileRecords), NEW e \in Exporters, NEW new \in Exporters,
         NEW s \in Samplers, NEW k,
         SamplersWritten(records, e), Kept(new, e, s, k),
         SamplerRecord(e, s) \in FileRecords
  PROVE  SamplersWritten(Append(records, SamplerRecord(e, s)), new)
<1> DEFINE r == SamplerRecord(e, s)
           after == Append(records, r)
           x == e.sysid
<1>1. /\ r.kind = "sampler" /\ r.sysid = x /\ r.id = s.id /\ r.interval = s.interval
      /\ r \in FileRecords
  BY DEF SamplerRecord
<1> HIDE DEF r, x
<1>2. ASSUME NEW id PROVE Samples(r, x, id) => /\ SamplersAt(after, x, id) # {}
                                                /\ LastSampler(after, x, id) = r
  BY <1>1, AppendSampler
<1>3. ASSUME NEW id PROVE ~Samples(r, x, id) =>
                             /\ SamplersAt(after, x, id) = SamplersAt(records, x, id)
                             /\ SamplersAt(records, x, id) # {} =>
                                    LastSampler(after, x, id) = LastSampler(records, x, id)
  BY <1>1, AppendNoSampler
<1> HIDE DEF after
<1>4. ASSUME NEW id, id \in {Generic, 0} \cup SamplerIds
      PROVE  /\ SamplersAt(after, x, id) = {} <=> IndexOfSampler(new.sampler, id) = {}
             /\ \A i \in IndexOfSampler(new.sampler, id) :
                   LastSampler(after, x, id).interval = new.sampler[i].interval
  <2>1. CASE id = s.id
    <3>1. Samples(r, x, id)
      BY <1>1, <2>1 DEF Samples
    <3>2. IndexOfSampler(new.sampler, id) = {k} /\ new.sampler[k] = s
      BY <2>1 DEF Kept
    <3> QED
      BY <1>1, <1>2, <3>1, <3>2
  <2>2. CASE id # s.id
    <3>1. ~Samples(r, x, id)
      BY <1>1, <2>2 DEF Samples
    <3>2. /\ SamplersAt(records, x, id) = {} <=> IndexOfSampler(e.sampler, id) = {}
          /\ \A i \in IndexOfSampler(e.sampler, id) :
                LastSampler(records, x, id).interval = e.sampler[i].interval
      BY <1>4 DEF SamplersWritten, x
    <3>3. /\ IndexOfSampler(new.sampler, id) = IndexOfSampler(e.sampler, id)
          /\ \A i \in IndexOfSampler(e.sampler, id) : new.sampler[i] = e.sampler[i]
      BY <2>2 DEF Kept
    <3> QED
      BY <1>3, <3>1, <3>2, <3>3
  <2> QED
    BY <2>1, <2>2
<1>5. new.sysid = x
  BY DEF x, Kept
<1>6. SamplersWritten(after, new)
  BY <1>4, <1>5 DEF SamplersWritten
<1> QED
  BY <1>6 DEF after, r

Sampler ==
    \E new \in Exporters, r \in SamplerRecords :
        /\ Update(new)
        /\ new.key = TheExporter.key /\ new.sysid = TheExporter.sysid /\ new.flows = TheExporter.flows
        /\ Sound(new, TheExporter) /\ dangling' = dangling
        /\ Once(TheExporter.sampler) => Once(new.sampler)
        /\ AppendToBuffer(fs, r) /\ r.sysid = TheExporter.sysid
        /\ Once(TheExporter.sampler) /\ Version(TheExporter) = 9 /\ SamplersWritten(file[fs], TheExporter) =>
                SamplersWritten(Append(file[fs], r), new)
        /\ decoded' = decoded

LEMMA SamplerStep ==
  ASSUME TypeOK, FileTypes, Places, SamplerData, UNCHANGED <<archive, lost, faults>>
  PROVE  (Quiet \/ Sampler) /\ main = "sets"
<1>1. /\ main = "sets" /\ setNo <= Len(packet.sets) /\ TheSet.type = "data"
      /\ UNCHANGED <<exporter_count, exporter_sysid, decoded, dangling>>
  BY DEF SamplerData, AtSet, NextSet
<1>2. TheExporter \in Exporters /\ TheSet \in Sets /\ fs \in Sources /\ file[fs] \in Seq(FileRecords)
  BY <1>1, AtSets, TheSetType DEF FileTypes
<1>a. dangling' = dangling /\ dangling' \in BOOLEAN
  BY <1>1 DEF TypeOK
<1>b. PICK found \in Found(TheSet.id) :
         InsertSampler(Cached(found), [id |-> IF TheSet.sampler = 0 THEN Generic ELSE TheSet.sampler,
                                   interval |-> TheSet.interval])
  BY DEF SamplerData
<1> DEFINE o == TheExporter
           e == Cached(found)
           s == [id |-> IF TheSet.sampler = 0 THEN Generic ELSE TheSet.sampler, interval |-> TheSet.interval]
           known == IndexOfSampler(e.sampler, s.id)
           i == CHOOSE j \in known : TRUE
           records == file[fs]
<1>3. s \in Samplers
  <2>1. TheSet.sampler \in {0} \cup SamplerIds /\ TheSet.interval \in Intervals
    BY <1>1, <1>2 DEF Sets
  <2> QED
    BY <2>1 DEF Samplers
<1>4. InsertSampler(e, s)
  BY <1>b
<1>5. e \in Exporters /\ Same(e, o) /\ Sound(e, o)
  BY <1>2, <1>a, CachedFacts
<1>6. e.sampler = o.sampler /\ e.sysid = o.sysid /\ e.key = o.key /\ e.flows = o.flows
  BY <1>5 DEF Same
<1>7. SamplersWritten(records, o) => SamplersWritten(records, e)
  BY <1>6 DEF SamplersWritten
<1>8. e.sampler \in Seq(Samplers) /\ e.sysid \in 0 .. MaxSysId
  BY <1>5 DEF Exporters
<1>9. \A t \in Samplers : SamplerRecord(e, t) \in SamplerRecords /\ SamplerRecord(e, t) \in FileRecords
                          /\ SamplerRecord(e, t).sysid = e.sysid
  BY <1>8 DEF SamplerRecord, SamplerRecords, Samplers, FileRecords
<1>10. records \in Seq(FileRecords)
  BY <1>2
<1>11. CASE known = {}
  <2> DEFINE new == [e EXCEPT !.sampler = Append(@, s)]
  <2>1. Update(new) /\ AppendToBuffer(fs, SamplerRecord(e, s))
    BY <1>4, <1>11 DEF InsertSampler
  <2> HIDE DEF e, s, records, o
  <2>2. /\ new \in Exporters /\ new.key = e.key /\ new.sysid = e.sysid /\ new.flows = e.flows
        /\ TemplatesOK(e) => TemplatesOK(new)
        /\ Once(e.sampler) => Once(new.sampler)
        /\ IndexOfSampler(new.sampler, s.id) = {Len(e.sampler) + 1}
        /\ new.sampler[Len(e.sampler) + 1] = s
        /\ \A id : id # s.id => IndexOfSampler(new.sampler, id) = IndexOfSampler(e.sampler, id)
        /\ \A j \in DOMAIN e.sampler : new.sampler[j] = e.sampler[j]
    BY <1>3, <1>5, <1>11, NewSampler
  <2> HIDE DEF new
  <2>3. \A id : id # s.id => /\ IndexOfSampler(new.sampler, id) = IndexOfSampler(e.sampler, id)
                             /\ \A j \in IndexOfSampler(e.sampler, id) : new.sampler[j] = e.sampler[j]
    BY <2>2 DEF IndexOfSampler
  <2>4. SamplersWritten(records, e) => SamplersWritten(Append(records, SamplerRecord(e, s)), new)
    <3>1. Kept(new, e, s, Len(e.sampler) + 1)
      BY <2>2, <2>3 DEF Kept
    <3> QED
      BY <1>3, <1>5, <1>9, <1>10, <2>2, <3>1, SamplerWritten
  <2>5. Sampler
    <3>1. /\ new.key = o.key /\ new.sysid = o.sysid /\ new.flows = o.flows
          /\ Sound(new, o)
          /\ Once(o.sampler) => Once(new.sampler)
      BY <1>5, <1>6, <2>2 DEF Sound
    <3>2. /\ SamplerRecord(e, s) \in SamplerRecords
          /\ SamplerRecord(e, s).sysid = o.sysid
      BY <1>3, <1>6, <1>9
    <3>3. SamplersWritten(records, o) => SamplersWritten(Append(records, SamplerRecord(e, s)), new)
      BY <1>7, <2>4
    <3> QED
      BY <1>1, <2>1, <2>2, <3>1, <3>2, <3>3 DEF Sampler, o, records
  <2> QED
    BY <1>1, <2>5
<1>12. CASE known # {} /\ e.sampler[i] = s
  <2>1. Update(e) /\ UNCHANGED file
    BY <1>4, <1>12 DEF InsertSampler
  <2>2. Alike(e, o)
    BY <1>5 DEF Alike
  <2> HIDE DEF e
  <2> QED
    BY <1>1, <1>5, <1>a, <2>1, <2>2, UpdateQuiet
<1>13. CASE known # {} /\ e.sampler[i] # s
  <2> DEFINE new == [e EXCEPT !.sampler[i] = s]
             r == SamplerRecord(e, IF Version(e) = 9 THEN s ELSE e.sampler[i])
  <2>1. Update(new) /\ AppendToBuffer(fs, r)
    BY <1>4, <1>13 DEF InsertSampler
  <2>2. i \in IndexOfSampler(e.sampler, s.id)
    BY <1>13
  <2>3. i \in DOMAIN e.sampler /\ e.sampler[i] \in Samplers
    <3>1. i \in DOMAIN e.sampler
      BY <2>2 DEF IndexOfSampler
    <3> HIDE DEF e, i
    <3> QED
      BY <1>8, <3>1
  <2> HIDE DEF e, s, records, o, i
  <2>4. /\ new \in Exporters /\ new.key = e.key /\ new.sysid = e.sysid /\ new.flows = e.flows
        /\ TemplatesOK(e) => TemplatesOK(new)
        /\ Once(e.sampler) => Once(new.sampler)
        /\ \A id : IndexOfSampler(new.sampler, id) = IndexOfSampler(e.sampler, id)
        /\ \A j \in DOMAIN e.sampler : new.sampler[j] = IF j = i THEN s ELSE e.sampler[j]
    BY <1>3, <1>5, <2>2, ChangedSampler
  <2> HIDE DEF new
  <2>5. ASSUME Once(e.sampler), Version(e) = 9, SamplersWritten(records, e)
        PROVE  SamplersWritten(Append(records, r), new)
    <3>1. IndexOfSampler(new.sampler, s.id) = {i}
      <4>1. \A j \in IndexOfSampler(e.sampler, s.id) : j = i
        BY <2>2, <2>5 DEF Once, IndexOfSampler
      <4> QED
        BY <2>2, <2>4, <4>1
    <3>2. \A id : id # s.id => /\ IndexOfSampler(new.sampler, id) = IndexOfSampler(e.sampler, id)
                               /\ \A j \in IndexOfSampler(e.sampler, id) : new.sampler[j] = e.sampler[j]
      BY <2>2, <2>4 DEF IndexOfSampler
    <3>3. new.sampler[i] = s
      BY <2>3, <2>4
    <3>4. Kept(new, e, s, i)
      BY <2>4, <3>1, <3>2, <3>3 DEF Kept
    <3>5. SamplersWritten(Append(records, SamplerRecord(e, s)), new)
      BY <1>3, <1>5, <1>9, <1>10, <2>4, <2>5, <3>4, SamplerWritten
    <3> QED
      BY <2>5, <3>5
  <2>6. Sampler
    <3>1. /\ new.key = o.key /\ new.sysid = o.sysid /\ new.flows = o.flows
          /\ Sound(new, o)
          /\ Once(o.sampler) => Once(new.sampler)
      BY <1>5, <1>6, <2>4 DEF Sound
    <3>2. r \in SamplerRecords /\ r.sysid = o.sysid
      BY <1>3, <1>6, <1>9, <2>3
    <3>3. Version(e) = Version(o)
      BY <1>6 DEF Version
    <3> HIDE DEF r
    <3>4. Once(o.sampler) /\ Version(o) = 9 /\ SamplersWritten(records, o) =>
              SamplersWritten(Append(records, r), new)
      BY <1>6, <1>7, <2>5, <3>3 DEF r
    <3> QED
      BY <1>1, <2>1, <2>4, <3>1, <3>2, <3>4 DEF Sampler, o, records
  <2> QED
    BY <1>1, <2>6
<1> QED
  BY <1>11, <1>12, <1>13

(* The first packet of an exporter                                         *)
Newcomer ==
    \E new \in Exporters :
        /\ exporter_data' = [exporter_data EXCEPT ![fs] = Append(@, new)]
        /\ exporter_count' = [exporter_count EXCEPT ![fs] = @ + 1]
        /\ exporter_sysid' = IF new.sysid = 0 THEN exporter_sysid ELSE new.sysid
        /\ new.sysid = AssignExporterID /\ new.flows = 0 /\ new.sampler = <<>>
        /\ \A i \in DOMAIN exporter_data[fs] : exporter_data[fs][i].key # new.key
        /\ TemplatesOK(new)
        /\ AppendToBuffer(fs, ExporterInfo(new))
        /\ decoded' = decoded /\ dangling' = dangling

LEMMA AtPacket ==
  ASSUME TypeOK, Places, main = "packet"
  PROVE  /\ fs \in Sources /\ fs \in ToSet(FlowSource) /\ received = t_now
         /\ packet \in Packets /\ packet.key \in Keys /\ packet.seq \in 0 .. SeqModulus - 1
         /\ exporter_data[fs] \in Seq(Exporters)
<1>1. fs \in ToSet(FlowSource) /\ received = t_now /\ packet \in Packets
  BY DEF Places
<1>2. FlowSource \in Seq(Sources) /\ exporter_data \in [Sources -> Seq(Exporters)]
  BY DEF TypeOK
<1>3. fs \in Sources
  <2>1. PICK i \in DOMAIN FlowSource : fs = FlowSource[i]
    BY <1>1 DEF ToSet
  <2> QED
    BY <1>2, <2>1
<1>4. packet.key \in Keys /\ packet.seq \in 0 .. SeqModulus - 1
  BY <1>1 DEF Packets
<1> QED
  BY <1>1, <1>2, <1>3, <1>4

LEMMA Sequenced ==
  ASSUME NEW e \in Exporters, NEW seq \in 0 .. SeqModulus - 1
  PROVE  /\ SequenceCheck(e, seq) \in Exporters
         /\ Same(SequenceCheck(e, seq), e)
         /\ TemplatesOK(e) => TemplatesOK(SequenceCheck(e, seq))
<1> DEFINE failed == e.synced /\ Distance(e.sequence, seq) # (IF Version(e) = 9 THEN 1 ELSE 0)
           packets == e.packets + 1
           synced == e.synced \/ Version(e) = 9
           failures == IF failed THEN e.failures + 1 ELSE e.failures
           new == [e EXCEPT !.packets = packets, !.sequence = seq, !.synced = synced, !.failures = failures]
<1>1. SequenceCheck(e, seq) = new
  BY DEF SequenceCheck
<1>2. packets \in Nat /\ failures \in Nat
  <2>1. e.packets \in Nat /\ e.failures \in Nat
    BY DEF Exporters
  <2> HIDE DEF failed
  <2> QED
    BY <2>1
<1>3. synced \in BOOLEAN
  BY DEF Exporters
<1> HIDE DEF packets, synced, failures
<1>4. new \in Exporters /\ Same(new, e)
  BY <1>2, <1>3 DEF Exporters, Same
<1>5. new.template = e.template /\ new.currentTemplate = e.currentTemplate /\ new.announced = e.announced
  BY DEF Exporters
<1> HIDE DEF new
<1>6. TemplatesOK(e) => TemplatesOK(new)
  BY <1>5 DEF TemplatesOK
<1> QED
  BY <1>1, <1>4, <1>6

LEMMA NewExporterFacts ==
  ASSUME NEW key \in Keys, NEW sysid \in 0 .. MaxSysId
  PROVE  /\ NewExporter(key, sysid) \in Exporters
         /\ NewExporter(key, sysid).key = key /\ NewExporter(key, sysid).sysid = sysid
         /\ NewExporter(key, sysid).flows = 0 /\ NewExporter(key, sysid).sampler = <<>>
         /\ TemplatesOK(NewExporter(key, sysid))
<1> DEFINE e == NewExporter(key, sysid)
<1>1. /\ e.key = key /\ e.sysid = sysid /\ e.flows = 0 /\ e.sampler = <<>>
      /\ e.template = <<>> /\ e.currentTemplate = None
      /\ \A id \in TemplateIds : e.announced[id] = None
  BY DEF NewExporter
<1>2. e \in Exporters
  <2>1. 0 \in 0 .. SeqModulus - 1
    BY ExportersAssumption
  <2> QED
    BY <2>1 DEF NewExporter, Exporters
<1>3. ToSet(e.template) = {} /\ Once(e.template)
  BY <1>1 DEF ToSet, Once
<1> HIDE DEF e
<1>4. TemplatesOK(e)
  BY <1>1, <1>3 DEF TemplatesOK
<1> QED
  BY <1>1, <1>2, <1>4 DEF e

LEMMA OpenPacketStep ==
  ASSUME TypeOK, Places, OpenPacket, UNCHANGED <<archive, lost, faults>>
  PROVE  /\ (Quiet /\ exporter' \in DOMAIN exporter_data[fs]) \/ (Newcomer /\ exporter' = Len(exporter_data[fs]) + 1)
         /\ main = "packet" /\ main' = "sets" /\ setNo' = 1 /\ UNCHANGED <<packet, fs, received>>
<1>1. main = "packet" /\ main' = "sets" /\ setNo' = 1
      /\ UNCHANGED <<packet, fs, received, decoded, dangling>> /\ dangling' \in BOOLEAN
  BY DEF OpenPacket, packetVars, TypeOK
<1>2. /\ fs \in Sources /\ packet.key \in Keys /\ packet.seq \in 0 .. SeqModulus - 1
      /\ exporter_data[fs] \in Seq(Exporters)
      /\ exporter_data \in [Sources -> Seq(Exporters)]
  BY <1>1, AtPacket DEF TypeOK
<1> DEFINE list == exporter_data[fs]
           known == {i \in DOMAIN list : list[i].key = packet.key}
<1>3. CASE known # {}
  <2>1. PICK i \in known : /\ exporter' = i
                           /\ exporter_data' = [exporter_data EXCEPT ![fs][i] = SequenceCheck(@, packet.seq)]
                           /\ UNCHANGED <<exporter_count, exporter_sysid, file>>
    BY <1>3 DEF OpenPacket
  <2> DEFINE e == list[i]
             new == SequenceCheck(e, packet.seq)
             short == [list EXCEPT ![i] = new]
  <2>2. i \in DOMAIN list /\ e \in Exporters
    BY <1>2, <2>1
  <2>3. new \in Exporters /\ Alike(new, e)
    BY <1>2, <2>2, Sequenced DEF Alike, Sound
  <2>4. exporter_data' = [exporter_data EXCEPT ![fs] = short]
    BY <1>2, <2>1
  <2> HIDE DEF new
  <2>5. /\ short \in Seq(Exporters) /\ DOMAIN short = DOMAIN list
        /\ \A j \in DOMAIN list : short[j] = IF j = i THEN new ELSE list[j]
    BY <1>2, <2>2, <2>3
  <2> HIDE DEF short
  <2>6. exporter_data' \in [Sources -> Seq(Exporters)]
    BY <1>2, <2>4, <2>5
  <2>7. ASSUME NEW s \in Sources
        PROVE  /\ DOMAIN exporter_data'[s] = DOMAIN exporter_data[s]
               /\ \A j \in DOMAIN exporter_data[s] : Alike(exporter_data'[s][j], exporter_data[s][j])
    <3>1. exporter_data'[s] = IF s = fs THEN short ELSE exporter_data[s]
      BY <1>2, <2>4
    <3> QED
      BY <2>3, <2>5, <3>1, AlikeItself
  <2>8. Quiet
    BY <1>1, <2>1, <2>6, <2>7 DEF Quiet
  <2> QED
    BY <1>1, <2>1, <2>8
<1>4. CASE known = {}
  <2> DEFINE e == NewExporter(packet.key, AssignExporterID)
             new == SequenceCheck(e, packet.seq)
  <2>1. /\ exporter' = Len(list) + 1
        /\ exporter_data' = [exporter_data EXCEPT ![fs] = Append(@, new)]
        /\ exporter_count' = [exporter_count EXCEPT ![fs] = @ + 1]
        /\ exporter_sysid' = IF e.sysid = 0 THEN exporter_sysid ELSE e.sysid
        /\ AppendToBuffer(fs, ExporterInfo(e))
    BY <1>4 DEF OpenPacket
  <2>2. AssignExporterID \in 0 .. MaxSysId
    <3>1. exporter_sysid \in 0 .. MaxSysId /\ MaxSysId \in Nat
      BY ExportersAssumption DEF TypeOK
    <3> QED
      BY <3>1 DEF AssignExporterID
  <2>3. /\ e \in Exporters /\ e.key = packet.key /\ e.sysid = AssignExporterID
        /\ e.flows = 0 /\ e.sampler = <<>> /\ TemplatesOK(e)
    BY <1>2, <2>2, NewExporterFacts
  <2>4. new \in Exporters /\ Same(new, e) /\ TemplatesOK(new)
    BY <1>2, <2>3, Sequenced
  <2> HIDE DEF e, new
  <2>5. ExporterInfo(new) = ExporterInfo(e)
    BY <2>4 DEF ExporterInfo, Same
  <2>6. Newcomer
    BY <1>1, <1>4, <2>1, <2>3, <2>4, <2>5 DEF Newcomer, Same
  <2> QED
    BY <1>1, <2>1, <2>6
<1> QED
  BY <1>3, <1>4

-------------------------------------------------------------------------------
(* What the steps of decoding keep                                         *)

LEMMA RecordKinds ==
  ASSUME NEW r \in FileRecords, r.kind # "stats"
  PROVE  r.sysid \in 0 .. MaxSysId
BY DEF FileRecords, ExporterRecords, SamplerRecords, FlowRecords

LEMMA AppendsOne ==
  ASSUME FileTypes, fs \in Sources, NEW r \in FileRecords, AppendToBuffer(fs, r), archive' = archive
  PROVE  /\ FileTypes'
         /\ \A s \in Sources : file'[s] = IF s = fs THEN Append(file[fs], r) ELSE file[s]
<1>1. file \in [Sources -> Seq(FileRecords)]
  BY DEF FileTypes
<1>2. Append(file[fs], r) \in Seq(FileRecords)
  BY <1>1, SeqAppend
<1>3. file' = [file EXCEPT ![fs] = Append(file[fs], r)]
  BY DEF AppendToBuffer
<1> DEFINE new == Append(file[fs], r)
<1> HIDE DEF new
<1>4. /\ file' \in [Sources -> Seq(FileRecords)]
      /\ \A s \in Sources : file'[s] = IF s = fs THEN new ELSE file[s]
  BY <1>1, <1>2, <1>3 DEF new
<1> QED
  BY <1>4 DEF FileTypes, new

LEMMA FilesTyped ==
  ASSUME FileTypes, NEW s \in Sources, NEW records \in Files(s)
  PROVE  records \in Seq(FileRecords)
<1>1. file[s] \in Seq(FileRecords) /\ archive[s] \in Seq(Archived)
  BY DEF FileTypes
<1>2. ASSUME NEW i \in DOMAIN archive[s] PROVE archive[s][i].records \in Seq(FileRecords)
  <2>1. archive[s][i] \in Archived
    BY <1>1, LenProperties, ElementOfSeq
  <2> QED
    BY <2>1 DEF Archived
<1> QED
  BY <1>1, <1>2 DEF Files

LEMMA NamesOne ==
  ASSUME FileTypes, RecordsNamed, fs \in Sources, NEW r \in FileRecords, AppendToBuffer(fs, r),
         archive' = archive,
         exporter_sysid \in Nat, exporter_sysid' \in Nat, exporter_sysid <= exporter_sysid',
         r.sysid <= exporter_sysid'
  PROVE  RecordsNamed'
<1>1. ASSUME NEW records \in Seq(FileRecords), Named(records)
      PROVE  \A q \in DOMAIN records : records[q].kind # "stats" => records[q].sysid <= exporter_sysid'
  <2> SUFFICES ASSUME NEW q \in DOMAIN records, records[q].kind # "stats"
               PROVE  records[q].sysid <= exporter_sysid'
    OBVIOUS
  <2>1. records[q] \in FileRecords
    BY LenProperties, ElementOfSeq
  <2>2. records[q].sysid \in 0 .. MaxSysId
    BY <2>1, RecordKinds
  <2>3. records[q].sysid <= exporter_sysid
    BY <1>1 DEF Named
  <2> QED
    BY <2>2, <2>3
<1>2. ASSUME NEW s \in Sources, NEW records \in Files(s)
      PROVE  records \in Seq(FileRecords) /\ Named(records)
  <2>1. records \in Seq(FileRecords)
    BY FilesTyped
  <2> QED
    BY <2>1 DEF RecordsNamed
<1>3. \A s \in Sources : file'[s] = IF s = fs THEN Append(file[fs], r) ELSE file[s]
  BY AppendsOne
<1> SUFFICES ASSUME NEW s \in Sources, NEW records \in Files(s)', NEW q \in DOMAIN records,
                    records[q].kind # "stats"
             PROVE  records[q].sysid <= exporter_sysid'
  BY DEF RecordsNamed, Named
<1>4. CASE records \in Files(s)
  BY <1>1, <1>2, <1>4
<1>5. CASE records \notin Files(s)
  <2>1. s = fs /\ records = Append(file[fs], r)
    BY <1>3, <1>5 DEF Files
  <2>2. file[fs] \in Files(fs) /\ file[fs] \in Seq(FileRecords)
    BY DEF Files, FileTypes
  <2>3. /\ DOMAIN records = (DOMAIN file[fs]) \cup {Len(file[fs]) + 1}
        /\ \A i \in DOMAIN file[fs] : records[i] = file[fs][i]
        /\ records[Len(file[fs]) + 1] = r
    BY <2>1, <2>2, SeqAppend
  <2>4. \A i \in DOMAIN file[fs] : file[fs][i].kind # "stats" => file[fs][i].sysid <= exporter_sysid'
    BY <1>1, <1>2, <2>2
  <2> QED
    BY <2>3, <2>4
<1> QED
  BY <1>4, <1>5

LEMMA UpdateKeeps ==
  ASSUME TypeOK, Places, main = "sets", SysidsUnique, TemplateLists,
         NEW new \in Exporters, Update(new), exporter_sysid' = exporter_sysid,
         new.key = TheExporter.key, new.sysid = TheExporter.sysid,
         Sound(new, TheExporter), dangling' = dangling
  PROVE  SysidsUnique' /\ TemplateLists'
<1>1. fs \in Sources /\ exporter \in DOMAIN exporter_data[fs]
  BY AtSets
<1>2. \A s \in Sources :
         /\ DOMAIN exporter_data'[s] = DOMAIN exporter_data[s]
         /\ \A i \in DOMAIN exporter_data[s] :
               exporter_data'[s][i] = IF s = fs /\ i = exporter THEN new ELSE exporter_data[s][i]
  BY UpdateOne
<1>3. \A s \in Sources : \A i \in DOMAIN exporter_data[s] :
         /\ exporter_data'[s][i].key = exporter_data[s][i].key
         /\ exporter_data'[s][i].sysid = exporter_data[s][i].sysid
  BY <1>2 DEF TheExporter
<1>4. SysidsUnique'
  <2> SUFFICES ASSUME NEW s \in Sources, NEW t \in Sources,
                      NEW i \in DOMAIN exporter_data'[s], NEW j \in DOMAIN exporter_data'[t]
               PROVE  LET e == exporter_data'[s][i]
                          f == exporter_data'[t][j]
                      IN /\ e.sysid <= exporter_sysid'
                         /\ e.sysid = f.sysid /\ e.sysid # 0 => s = t /\ i = j
                         /\ s = t /\ e.key = f.key => i = j
    BY DEF SysidsUnique
  <2>1. /\ i \in DOMAIN exporter_data[s] /\ j \in DOMAIN exporter_data[t]
    BY <1>2
  <2> QED
    BY <1>3, <2>1 DEF SysidsUnique
<1>5. TemplateLists'
  <2> SUFFICES ASSUME ~dangling PROVE TemplateLists'
    BY DEF TemplateLists
  <2>1. TemplatesOK(new)
    BY <1>1 DEF TemplateLists, TheExporter, Sound
  <2>2. ASSUME NEW s \in Sources, NEW i \in DOMAIN exporter_data'[s] PROVE TemplatesOK(exporter_data'[s][i])
    BY <1>2, <2>1 DEF TemplateLists
  <2> QED
    BY <2>2 DEF TemplateLists
<1> QED
  BY <1>4, <1>5

(* A record that is no flow, of an exporter whose count stays              *)
LEMMA SamplerCounts ==
  ASSUME TypeOK, FileTypes, Places, main = "sets", main' = "sets", CountersMatch,
         NEW new \in Exporters, Update(new), new.sysid = TheExporter.sysid,
         new.flows = TheExporter.flows,
         NEW r \in FileRecords, r.kind # "flow", AppendToBuffer(fs, r),
         UNCHANGED <<exporter_count, dynamic, archive>>
  PROVE  CountersMatch'
<1>1. fs \in Sources /\ exporter \in DOMAIN exporter_data[fs]
  BY AtSets
<1>2. \A s \in Sources :
         /\ DOMAIN exporter_data'[s] = DOMAIN exporter_data[s]
         /\ Len(exporter_data'[s]) = Len(exporter_data[s])
         /\ \A i \in DOMAIN exporter_data[s] :
               exporter_data'[s][i] = IF s = fs /\ i = exporter THEN new ELSE exporter_data[s][i]
  BY UpdateOne
<1>3. \A s \in Sources : \A i \in DOMAIN exporter_data[s] :
         /\ exporter_data'[s][i].sysid = exporter_data[s][i].sysid
         /\ exporter_data'[s][i].flows = exporter_data[s][i].flows
  BY <1>2 DEF TheExporter
<1>4. \A s \in Sources : \A id : Count(file'[s], id) = Count(file[s], id)
  <2>1. \A s \in Sources : file'[s] = IF s = fs THEN Append(file[fs], r) ELSE file[s]
    BY <1>1, AppendsOne
  <2>2. file[fs] \in Seq(FileRecords)
    BY <1>1 DEF FileTypes
  <2> QED
    BY <2>1, <2>2, AppendOther
<1> SUFFICES ASSUME NEW s \in Sources
             PROVE  /\ exporter_count'[s] <= Len(exporter_data'[s])
                    /\ ~dynamic' =>
                          /\ exporter_count'[s] = Len(exporter_data'[s])
                          /\ \A i \in DOMAIN exporter_data'[s] :
                                LET e == exporter_data'[s][i]
                                IN e.sysid # 0 => e.flows = Count(file'[s], e.sysid)
  BY DEF CountersMatch, Count
<1>5. /\ exporter_count[s] <= Len(exporter_data[s])
      /\ ~dynamic =>
            /\ exporter_count[s] = Len(exporter_data[s])
            /\ \A i \in DOMAIN exporter_data[s] :
                  LET e == exporter_data[s][i]
                  IN e.sysid # 0 => e.flows = Count(file[s], e.sysid)
  BY DEF CountersMatch
<1>6. ASSUME ~dynamic, NEW i \in DOMAIN exporter_data[s], exporter_data[s][i].sysid # 0
      PROVE  exporter_data'[s][i].flows = Count(file'[s], exporter_data[s][i].sysid)
  BY <1>3, <1>4, <1>5, <1>6
<1> QED
  BY <1>2, <1>3, <1>5, <1>6

(* A flow more in the file and in the count of its exporter                *)
LEMMA FlowCounts ==
  ASSUME TypeOK, FileTypes, Places, main = "sets", main' = "sets", CountersMatch, SysidsUnique,
         NEW new \in Exporters, Update(new), new.sysid = TheExporter.sysid,
         new.flows = TheExporter.flows + 1,
         NEW r \in FileRecords, r.kind = "flow", r.sysid = TheExporter.sysid, AppendToBuffer(fs, r),
         UNCHANGED <<exporter_count, dynamic, archive>>
  PROVE  CountersMatch'
<1>1. fs \in Sources /\ exporter \in DOMAIN exporter_data[fs]
  BY AtSets
<1>2. \A s \in Sources :
         /\ DOMAIN exporter_data'[s] = DOMAIN exporter_data[s]
         /\ Len(exporter_data'[s]) = Len(exporter_data[s])
         /\ \A i \in DOMAIN exporter_data[s] :
               exporter_data'[s][i] = IF s = fs /\ i = exporter THEN new ELSE exporter_data[s][i]
  BY UpdateOne
<1>3. \A s \in Sources : \A i \in DOMAIN exporter_data[s] :
         /\ exporter_data'[s][i].sysid = exporter_data[s][i].sysid
         /\ exporter_data'[s][i].flows = IF s = fs /\ i = exporter THEN exporter_data[s][i].flows + 1
                                                                   ELSE exporter_data[s][i].flows
  BY <1>2 DEF TheExporter
<1>4. \A s \in Sources : \A id :
         Count(file'[s], id) = IF s = fs /\ id = r.sysid THEN Count(file[s], id) + 1 ELSE Count(file[s], id)
  <2>1. \A s \in Sources : file'[s] = IF s = fs THEN Append(file[fs], r) ELSE file[s]
    BY <1>1, AppendsOne
  <2>2. file[fs] \in Seq(FileRecords)
    BY <1>1 DEF FileTypes
  <2>3. \A id : Count(Append(file[fs], r), id) =
                   IF r.sysid = id THEN Count(file[fs], id) + 1 ELSE Count(file[fs], id)
    BY <2>2, AppendFlow
  <2> QED
    BY <2>1, <2>3
<1> SUFFICES ASSUME NEW s \in Sources
             PROVE  /\ exporter_count'[s] <= Len(exporter_data'[s])
                    /\ ~dynamic' =>
                          /\ exporter_count'[s] = Len(exporter_data'[s])
                          /\ \A i \in DOMAIN exporter_data'[s] :
                                LET e == exporter_data'[s][i]
                                IN e.sysid # 0 => e.flows = Count(file'[s], e.sysid)
  BY DEF CountersMatch, Count
<1>5. /\ exporter_count[s] <= Len(exporter_data[s])
      /\ ~dynamic =>
            /\ exporter_count[s] = Len(exporter_data[s])
            /\ \A i \in DOMAIN exporter_data[s] :
                  LET e == exporter_data[s][i]
                  IN e.sysid # 0 => e.flows = Count(file[s], e.sysid)
  BY DEF CountersMatch
<1>6. ASSUME ~dynamic, NEW i \in DOMAIN exporter_data[s], exporter_data[s][i].sysid # 0
      PROVE  exporter_data'[s][i].flows = Count(file'[s], exporter_data[s][i].sysid)
  <2>1. s = fs /\ exporter_data[s][i].sysid = r.sysid => i = exporter
    BY <1>1, <1>6 DEF SysidsUnique, TheExporter
  <2>2. s = fs /\ i = exporter => exporter_data[s][i].sysid = r.sysid
    BY DEF TheExporter
  <2>3. exporter_data[s][i].flows = Count(file[s], exporter_data[s][i].sysid)
    BY <1>5, <1>6
  <2> QED
    BY <1>3, <1>4, <2>1, <2>2, <2>3
<1> QED
  BY <1>2, <1>3, <1>5, <1>6

(* An exporter gets the next id, and nothing was written for it yet.       *)
LEMMA NewcomerList ==
  ASSUME TypeOK, Places, main = "packet", NEW new \in Exporters,
         exporter_data' = [exporter_data EXCEPT ![fs] = Append(@, new)]
  PROVE  /\ exporter_data' \in [Sources -> Seq(Exporters)]
         /\ \A s \in Sources :
               /\ Len(exporter_data'[s]) = IF s = fs THEN Len(exporter_data[s]) + 1 ELSE Len(exporter_data[s])
               /\ DOMAIN exporter_data'[s] = IF s = fs THEN (DOMAIN exporter_data[s]) \cup {Len(exporter_data[s]) + 1}
                                                       ELSE DOMAIN exporter_data[s]
               /\ \A i \in DOMAIN exporter_data[s] : exporter_data'[s][i] = exporter_data[s][i]
               /\ Len(exporter_data[s]) \in Nat /\ DOMAIN exporter_data[s] = 1 .. Len(exporter_data[s])
         /\ exporter_data'[fs][Len(exporter_data[fs]) + 1] = new
<1>1. fs \in Sources /\ exporter_data \in [Sources -> Seq(Exporters)]
  BY AtPacket DEF TypeOK
<1> DEFINE list == Append(exporter_data[fs], new)
<1>2. /\ list \in Seq(Exporters)
      /\ Len(list) = Len(exporter_data[fs]) + 1
      /\ DOMAIN list = (DOMAIN exporter_data[fs]) \cup {Len(exporter_data[fs]) + 1}
      /\ \A i \in DOMAIN exporter_data[fs] : list[i] = exporter_data[fs][i]
      /\ list[Len(exporter_data[fs]) + 1] = new
  BY <1>1, SeqAppend
<1>3. exporter_data' = [exporter_data EXCEPT ![fs] = list]
  OBVIOUS
<1> HIDE DEF list
<1>4. /\ exporter_data' \in [Sources -> Seq(Exporters)]
      /\ \A s \in Sources : exporter_data'[s] = IF s = fs THEN list ELSE exporter_data[s]
  BY <1>1, <1>2, <1>3
<1>5. \A s \in Sources : Len(exporter_data[s]) \in Nat /\ DOMAIN exporter_data[s] = 1 .. Len(exporter_data[s])
  BY <1>1, LenProperties
<1> QED
  BY <1>1, <1>2, <1>4, <1>5

LEMMA IdsFacts ==
  ASSUME TypeOK
  PROVE  /\ exporter_sysid \in Nat /\ exporter_sysid <= MaxSysId
         /\ AssignExporterID \in 0 .. MaxSysId
         /\ AssignExporterID # 0 => AssignExporterID = exporter_sysid + 1
<1>1. exporter_sysid \in 0 .. MaxSysId /\ MaxSysId \in Nat
  BY ExportersAssumption DEF TypeOK
<1> QED
  BY <1>1 DEF AssignExporterID

LEMMA NoFlowsYet ==
  ASSUME TypeOK, FileTypes, RecordsNamed, NEW s \in Sources, NEW id \in Nat, exporter_sysid < id
  PROVE  /\ Count(file[s], id) = 0
         /\ \A records \in Files(s) : \A q \in DOMAIN records :
                records[q].kind # "stats" => records[q].sysid # id
<1>1. exporter_sysid \in Nat
  BY IdsFacts
<1>2. ASSUME NEW records \in Files(s), NEW q \in DOMAIN records, records[q].kind # "stats"
      PROVE  records[q].sysid # id
  <2>1. records \in Seq(FileRecords)
    BY FilesTyped
  <2>2. records[q] \in FileRecords
    BY <2>1, LenProperties, ElementOfSeq
  <2>3. records[q].sysid \in 0 .. MaxSysId /\ records[q].sysid <= exporter_sysid
    BY <1>2, <2>2, RecordKinds DEF RecordsNamed, Named
  <2> QED
    BY <1>1, <2>3
<1>3. {q \in DOMAIN file[s] : file[s][q].kind = "flow" /\ file[s][q].sysid = id} = {}
  BY <1>2 DEF Files
<1> QED
  BY <1>2, <1>3, FS_EmptySet DEF Count

LEMMA NewcomerKeeps ==
  ASSUME TypeOK, FileTypes, Places, SysidsUnique, RecordsNamed, TemplateLists, CountersMatch,
         main = "packet", main' = "sets", Newcomer, UNCHANGED <<archive, dynamic>>
  PROVE  /\ SysidsUnique' /\ RecordsNamed' /\ TemplateLists' /\ FileTypes' /\ CountersMatch'
         /\ exporter_data' \in [Sources -> Seq(Exporters)]
         /\ exporter_count' \in [Sources -> Nat]
         /\ exporter_sysid' \in 0 .. MaxSysId
<1> PICK new \in Exporters :
        /\ exporter_data' = [exporter_data EXCEPT ![fs] = Append(@, new)]
        /\ exporter_count' = [exporter_count EXCEPT ![fs] = @ + 1]
        /\ exporter_sysid' = IF new.sysid = 0 THEN exporter_sysid ELSE new.sysid
        /\ new.sysid = AssignExporterID /\ new.flows = 0 /\ new.sampler = <<>>
        /\ \A i \in DOMAIN exporter_data[fs] : exporter_data[fs][i].key # new.key
        /\ TemplatesOK(new)
        /\ AppendToBuffer(fs, ExporterInfo(new))
        /\ decoded' = decoded /\ dangling' = dangling
  BY DEF Newcomer
<1> DEFINE n == Len(exporter_data[fs]) + 1
           r == ExporterInfo(new)
<1>1. fs \in Sources /\ exporter_data \in [Sources -> Seq(Exporters)] /\ exporter_count \in [Sources -> Nat]
  BY AtPacket DEF TypeOK
<1>2. /\ exporter_data' \in [Sources -> Seq(Exporters)]
      /\ \A s \in Sources :
            /\ Len(exporter_data'[s]) = IF s = fs THEN Len(exporter_data[s]) + 1 ELSE Len(exporter_data[s])
            /\ DOMAIN exporter_data'[s] = IF s = fs THEN (DOMAIN exporter_data[s]) \cup {n}
                                                    ELSE DOMAIN exporter_data[s]
            /\ \A i \in DOMAIN exporter_data[s] : exporter_data'[s][i] = exporter_data[s][i]
            /\ Len(exporter_data[s]) \in Nat /\ DOMAIN exporter_data[s] = 1 .. Len(exporter_data[s])
      /\ exporter_data'[fs][n] = new
  BY NewcomerList
<1>3. /\ new.sysid \in 0 .. MaxSysId /\ exporter_sysid \in Nat /\ MaxSysId \in Nat
      /\ new.sysid # 0 => new.sysid = exporter_sysid + 1
      /\ exporter_sysid' \in 0 .. MaxSysId /\ exporter_sysid <= exporter_sysid' /\ new.sysid <= exporter_sysid'
  <2>1. exporter_sysid \in 0 .. MaxSysId /\ MaxSysId \in Nat
    BY ExportersAssumption DEF TypeOK
  <2>2. new.sysid \in 0 .. MaxSysId /\ (new.sysid # 0 => new.sysid = exporter_sysid + 1)
    BY IdsFacts
  <2>3. exporter_sysid' = IF new.sysid = 0 THEN exporter_sysid ELSE new.sysid
    OBVIOUS
  <2> QED
    BY <2>1, <2>2, <2>3
<1>4. exporter_count' \in [Sources -> Nat]
  BY <1>1
<1>5. /\ r \in FileRecords /\ r.kind = "exporter" /\ r.sysid = new.sysid
  BY <1>3 DEF ExporterInfo, FileRecords, ExporterRecords
<1> HIDE DEF r, n
<1>6. AppendToBuffer(fs, r)
  BY DEF r
<1>7. FileTypes' /\ \A s \in Sources : file'[s] = IF s = fs THEN Append(file[fs], r) ELSE file[s]
  BY <1>1, <1>5, <1>6, AppendsOne
<1>8. RecordsNamed'
  <2>1. exporter_sysid' \in Nat
    BY <1>3
  <2> QED
    BY <1>1, <1>3, <1>5, <1>6, <2>1, NamesOne
<1>9. ASSUME NEW s \in Sources, NEW i \in DOMAIN exporter_data'[s]
      PROVE  \/ i \in DOMAIN exporter_data[s] /\ exporter_data'[s][i] = exporter_data[s][i]
             \/ s = fs /\ i = n /\ exporter_data'[s][i] = new
  <2>1. CASE i \in DOMAIN exporter_data[s]
    BY <1>2, <2>1
  <2>2. CASE i \notin DOMAIN exporter_data[s]
    <3>1. DOMAIN exporter_data'[s] = IF s = fs THEN (DOMAIN exporter_data[s]) \cup {n}
                                               ELSE DOMAIN exporter_data[s]
      BY <1>2
    <3>2. s = fs /\ i = n
      BY <1>9, <2>2, <3>1
    <3>3. exporter_data'[fs][n] = new
      BY <1>2
    <3> QED
      BY <3>2, <3>3
  <2> QED
    BY <2>1, <2>2
<1>10. TemplateLists'
  <2> SUFFICES ASSUME ~dangling PROVE TemplateLists'
    BY DEF TemplateLists
  <2>1. ASSUME NEW s \in Sources, NEW i \in DOMAIN exporter_data'[s] PROVE TemplatesOK(exporter_data'[s][i])
    BY <1>9 DEF TemplateLists
  <2> QED
    BY <2>1 DEF TemplateLists
<1>11. ASSUME NEW s \in Sources, NEW i \in DOMAIN exporter_data[s]
       PROVE  exporter_data[s][i].sysid \in Nat /\ exporter_data[s][i].sysid <= exporter_sysid
  <2>1. exporter_data[s] \in Seq(Exporters)
    BY <1>1
  <2>2. exporter_data[s][i] \in Exporters
    BY <2>1, LenProperties, ElementOfSeq
  <2>3. exporter_data[s][i].sysid \in 0 .. MaxSysId
    BY <2>2 DEF Exporters
  <2> QED
    BY <2>3 DEF SysidsUnique
<1>12. SysidsUnique'
  <2> SUFFICES ASSUME NEW s \in Sources, NEW t \in Sources,
                      NEW i \in DOMAIN exporter_data'[s], NEW j \in DOMAIN exporter_data'[t]
               PROVE  /\ exporter_data'[s][i].sysid <= exporter_sysid'
                      /\ exporter_data'[s][i].sysid = exporter_data'[t][j].sysid
                           /\ exporter_data'[s][i].sysid # 0 => s = t /\ i = j
                      /\ s = t /\ exporter_data'[s][i].key = exporter_data'[t][j].key => i = j
    BY DEF SysidsUnique
  <2>1. CASE i \in DOMAIN exporter_data[s] /\ exporter_data'[s][i] = exporter_data[s][i]
    <3>1. CASE j \in DOMAIN exporter_data[t] /\ exporter_data'[t][j] = exporter_data[t][j]
      <4>1. exporter_data[s][i].sysid <= exporter_sysid'
        BY <1>3, <1>11, <2>1
      <4> QED
        BY <2>1, <3>1, <4>1 DEF SysidsUnique
    <3>2. CASE t = fs /\ j = n /\ exporter_data'[t][j] = new
      BY <1>3, <1>11, <2>1, <3>2
    <3> QED
      BY <1>9, <3>1, <3>2
  <2>2. CASE s = fs /\ i = n /\ exporter_data'[s][i] = new
    <3>1. CASE j \in DOMAIN exporter_data[t] /\ exporter_data'[t][j] = exporter_data[t][j]
      BY <1>3, <1>11, <2>2, <3>1
    <3>2. CASE t = fs /\ j = n /\ exporter_data'[t][j] = new
      BY <1>3, <2>2, <3>2
    <3> QED
      BY <1>9, <3>1, <3>2
  <2> QED
    BY <1>9, <2>1, <2>2
<1>13. \A s \in Sources : \A id : Count(file'[s], id) = Count(file[s], id)
  <2>1. file[fs] \in Seq(FileRecords)
    BY <1>1 DEF FileTypes
  <2> QED
    BY <1>5, <1>7, <2>1, AppendOther
<1>14. new.sysid # 0 => Count(file[fs], new.sysid) = 0
  <2>1. new.sysid # 0 => new.sysid \in Nat /\ exporter_sysid < new.sysid
    BY <1>3
  <2> QED
    BY <1>1, <2>1, NoFlowsYet
<1>15. CountersMatch'
  <2> SUFFICES ASSUME NEW s \in Sources
               PROVE  /\ exporter_count'[s] <= Len(exporter_data'[s])
                      /\ ~dynamic' =>
                            /\ exporter_count'[s] = Len(exporter_data'[s])
                            /\ \A i \in DOMAIN exporter_data'[s] :
                                  LET e == exporter_data'[s][i]
                                  IN e.sysid # 0 => e.flows = Count(file'[s], e.sysid)
    BY DEF CountersMatch, Count
  <2>1. /\ exporter_count[s] <= Len(exporter_data[s])
        /\ ~dynamic =>
              /\ exporter_count[s] = Len(exporter_data[s])
              /\ \A i \in DOMAIN exporter_data[s] :
                    LET e == exporter_data[s][i]
                    IN e.sysid # 0 => e.flows = Count(file[s], e.sysid)
    BY DEF CountersMatch
  <2>2. exporter_count'[s] = IF s = fs THEN exporter_count[s] + 1 ELSE exporter_count[s]
    BY <1>1
  <2>3. exporter_count[s] \in Nat
    BY <1>1
  <2>4. /\ exporter_count'[s] <= Len(exporter_data'[s])
        /\ ~dynamic' => exporter_count'[s] = Len(exporter_data'[s])
    BY <1>2, <2>1, <2>2, <2>3
  <2>5. ASSUME ~dynamic', NEW i \in DOMAIN exporter_data'[s], exporter_data'[s][i].sysid # 0
        PROVE  exporter_data'[s][i].flows = Count(file'[s], exporter_data'[s][i].sysid)
    <3>1. CASE i \in DOMAIN exporter_data[s] /\ exporter_data'[s][i] = exporter_data[s][i]
      BY <1>13, <2>1, <2>5, <3>1
    <3>2. CASE s = fs /\ i = n /\ exporter_data'[s][i] = new
      BY <1>13, <1>14, <2>5, <3>2
    <3> QED
      BY <1>9, <3>1, <3>2
  <2> QED
    BY <2>4, <2>5
<1> QED
  BY <1>2, <1>3, <1>4, <1>7, <1>8, <1>10, <1>12, <1>15

-------------------------------------------------------------------------------
(* What a file begins and ends with                                        *)

StdOf(e) == <<ExporterInfo(e)>> \o [i \in DOMAIN e.sampler |-> SamplerRecord(e, e.sampler[i])]

LEMMA StdOfFacts ==
  ASSUME NEW e \in Exporters
  PROVE  /\ StdOf(e) \in Seq(FileRecords)
         /\ ToSet(StdOf(e)) = {ExporterInfo(e)} \cup {SamplerRecord(e, e.sampler[i]) : i \in DOMAIN e.sampler}
<1> DEFINE a == <<ExporterInfo(e)>>
           b == [i \in DOMAIN e.sampler |-> SamplerRecord(e, e.sampler[i])]
<1>1. e.sampler \in Seq(Samplers) /\ e.sysid \in 0 .. MaxSysId
  BY DEF Exporters
<1>2. ExporterInfo(e) \in FileRecords
  BY <1>1 DEF ExporterInfo, FileRecords, ExporterRecords
<1>3. \A i \in DOMAIN e.sampler : SamplerRecord(e, e.sampler[i]) \in FileRecords
  <2> SUFFICES ASSUME NEW i \in DOMAIN e.sampler PROVE SamplerRecord(e, e.sampler[i]) \in FileRecords
    OBVIOUS
  <2>1. e.sampler[i] \in Samplers
    BY <1>1
  <2> QED
    BY <1>1, <2>1 DEF SamplerRecord, FileRecords, SamplerRecords, Samplers
<1>4. a \in Seq(FileRecords) /\ Range(a) = {ExporterInfo(e)}
  BY <1>2 DEF Range
<1>5. b \in Seq(FileRecords)
  <2>1. DOMAIN e.sampler = 1 .. Len(e.sampler) /\ Len(e.sampler) \in Nat
    BY <1>1
  <2> QED
    BY <1>3, <2>1
<1>6. Range(b) = {SamplerRecord(e, e.sampler[i]) : i \in DOMAIN e.sampler}
  BY DEF Range
<1>7. StdOf(e) = a \o b
  BY DEF StdOf
<1> HIDE DEF a, b
<1>8. a \o b \in Seq(FileRecords) /\ Range(a \o b) = Range(a) \cup Range(b)
  BY <1>4, <1>5, RangeConcatenation, ConcatProperties
<1>9. ToSet(a \o b) = Range(a \o b)
  BY DEF ToSet, Range
<1> QED
  BY <1>4, <1>6, <1>7, <1>8, <1>9

(* A new file names every exporter of the source and its samplers.         *)
LEMMA StdFacts ==
  ASSUME NEW s \in Sources, exporter_data[s] \in Seq(Exporters)
  PROVE  /\ StdRecords(s) \in Seq(FileRecords)
         /\ \A i \in DOMAIN exporter_data[s] :
               /\ ExporterInfo(exporter_data[s][i]) \in ToSet(StdRecords(s))
               /\ \A j \in DOMAIN exporter_data[s][i].sampler :
                     SamplerRecord(exporter_data[s][i], exporter_data[s][i].sampler[j]) \in ToSet(StdRecords(s))
         /\ \A q \in DOMAIN StdRecords(s) : \E i \in DOMAIN exporter_data[s] :
               \/ StdRecords(s)[q] = ExporterInfo(exporter_data[s][i])
               \/ \E j \in DOMAIN exporter_data[s][i].sampler :
                     StdRecords(s)[q] = SamplerRecord(exporter_data[s][i], exporter_data[s][i].sampler[j])
<1> DEFINE list == exporter_data[s]
           ss == [i \in DOMAIN list |-> StdOf(list[i])]
<1>1. StdRecords(s) = FlattenSeq(ss)
  BY DEF StdRecords, StdOf
<1>2. DOMAIN list = 1 .. Len(list) /\ Len(list) \in Nat /\ \A i \in DOMAIN list : list[i] \in Exporters
  OBVIOUS
<1> HIDE DEF list
<1>3. \A i \in DOMAIN list :
         /\ StdOf(list[i]) \in Seq(FileRecords)
         /\ ToSet(StdOf(list[i])) = {ExporterInfo(list[i])}
               \cup {SamplerRecord(list[i], list[i].sampler[j]) : j \in DOMAIN list[i].sampler}
  BY <1>2, StdOfFacts
<1>4. ss \in Seq(Seq(FileRecords)) /\ DOMAIN ss = DOMAIN list /\ \A i \in DOMAIN list : ss[i] = StdOf(list[i])
  BY <1>2, <1>3
<1> HIDE DEF ss
<1> DEFINE all == FlattenSeq(ss)
<1>5. all \in Seq(FileRecords) /\ ToSet(all) = UNION {ToSet(ss[i]) : i \in DOMAIN ss}
  BY <1>4, FlattenElements
<1> HIDE DEF all
<1>6. \A i \in DOMAIN list :
         /\ ExporterInfo(list[i]) \in ToSet(all)
         /\ \A j \in DOMAIN list[i].sampler : SamplerRecord(list[i], list[i].sampler[j]) \in ToSet(all)
  BY <1>3, <1>4, <1>5
<1>7. ASSUME NEW q \in DOMAIN all
      PROVE  \E i \in DOMAIN list :
               \/ all[q] = ExporterInfo(list[i])
               \/ \E j \in DOMAIN list[i].sampler : all[q] = SamplerRecord(list[i], list[i].sampler[j])
  <2>1. all[q] \in ToSet(all)
    BY DEF ToSet
  <2>2. PICK i \in DOMAIN list : all[q] \in ToSet(StdOf(list[i]))
    BY <1>4, <1>5, <2>1
  <2> QED
    BY <1>3, <2>2
<1> QED
  BY <1>1, <1>5, <1>6, <1>7 DEF list, all

LEMMA StdKinds ==
  ASSUME NEW s \in Sources, exporter_data[s] \in Seq(Exporters)
  PROVE  \A q \in DOMAIN StdRecords(s) :
            /\ StdRecords(s)[q].kind \in {"exporter", "sampler"}
            /\ \E i \in DOMAIN exporter_data[s] : StdRecords(s)[q].sysid = exporter_data[s][i].sysid
<1> SUFFICES ASSUME NEW q \in DOMAIN StdRecords(s)
             PROVE  /\ StdRecords(s)[q].kind \in {"exporter", "sampler"}
                    /\ \E i \in DOMAIN exporter_data[s] : StdRecords(s)[q].sysid = exporter_data[s][i].sysid
  OBVIOUS
<1>1. PICK i \in DOMAIN exporter_data[s] :
         \/ StdRecords(s)[q] = ExporterInfo(exporter_data[s][i])
         \/ \E j \in DOMAIN exporter_data[s][i].sampler :
               StdRecords(s)[q] = SamplerRecord(exporter_data[s][i], exporter_data[s][i].sampler[j])
  BY StdFacts
<1>2. CASE StdRecords(s)[q] = ExporterInfo(exporter_data[s][i])
  BY <1>2 DEF ExporterInfo
<1>3. CASE \E j \in DOMAIN exporter_data[s][i].sampler :
               StdRecords(s)[q] = SamplerRecord(exporter_data[s][i], exporter_data[s][i].sampler[j])
  BY <1>3 DEF SamplerRecord
<1> QED
  BY <1>1, <1>2, <1>3

LEMMA StdNoFlows ==
  ASSUME NEW s \in Sources, exporter_data[s] \in Seq(Exporters)
  PROVE  FlowsIn(StdRecords(s)) = {} /\ NumbersOf(StdRecords(s)) = {}
<1>1. \A q \in DOMAIN StdRecords(s) : StdRecords(s)[q].kind # "flow"
  <2>1. \A q \in DOMAIN StdRecords(s) : StdRecords(s)[q].kind \in {"exporter", "sampler"}
    BY StdKinds
  <2> QED
    BY <2>1
<1> QED
  BY <1>1, NoFlows

(* The statistics end a file; they are no flows.                           *)
LEMMA StatFacts ==
  ASSUME NEW s \in Sources, exporter_data[s] \in Seq(Exporters),
         exporter_count[s] \in Nat, exporter_count[s] <= Len(exporter_data[s])
  PROVE  /\ StatRecords(s) \in Seq(FileRecords)
         /\ \A i \in DOMAIN StatRecords(s) : StatRecords(s)[i].kind = "stats"
         /\ exporter_count[s] # 0 =>
              /\ Len(StatRecords(s)) = 1
              /\ \A i \in 1 .. exporter_count[s] :
                    \E stat \in ToSet(StatRecords(s)[1].stat) :
                       /\ stat.sysid = exporter_data[s][i].sysid
                       /\ stat.flows = exporter_data[s][i].flows
<1> DEFINE n == exporter_count[s]
           Stat(e) == [sysid |-> e.sysid, packets |-> e.packets, flows |-> e.flows, failures |-> e.failures]
           stats == [i \in 1 .. n |-> Stat(exporter_data[s][i])]
           r == [kind |-> "stats", stat |-> stats]
<1>1. CASE n = 0
  BY <1>1 DEF StatRecords
<1>2. CASE n # 0
  <2>1. StatRecords(s) = <<r>>
    BY <1>2 DEF StatRecords, Counted
  <2>2. \A i \in 1 .. n : exporter_data[s][i] \in Exporters
    OBVIOUS
  <2>3. \A i \in 1 .. n : Stat(exporter_data[s][i]) \in Stats
    BY <2>2 DEF Stats, Exporters
  <2>4. n \in Nat
    OBVIOUS
  <2>5. \A i \in 1 .. n : /\ Stat(exporter_data[s][i]).sysid = exporter_data[s][i].sysid
                          /\ Stat(exporter_data[s][i]).flows = exporter_data[s][i].flows
    OBVIOUS
  <2> HIDE DEF n, Stat
  <2>6. stats \in Seq(Stats) /\ DOMAIN stats = 1 .. n /\ \A i \in 1 .. n : stats[i] = Stat(exporter_data[s][i])
    BY <2>3, <2>4
  <2> HIDE DEF stats
  <2>7. r \in FileRecords /\ r.kind = "stats" /\ r.stat = stats
    BY <2>6 DEF FileRecords
  <2> HIDE DEF r
  <2>8. /\ <<r>> \in Seq(FileRecords) /\ Len(<<r>>) = 1
        /\ <<r>>[1] = r
        /\ \A i \in DOMAIN <<r>> : <<r>>[i].kind = "stats"
    BY <2>7
  <2>9. ASSUME NEW i \in 1 .. n
        PROVE  \E stat \in ToSet(r.stat) : /\ stat.sysid = exporter_data[s][i].sysid
                                           /\ stat.flows = exporter_data[s][i].flows
    <3>1. stats[i] \in ToSet(r.stat)
      BY <2>6, <2>7 DEF ToSet
    <3> QED
      BY <2>5, <2>6, <3>1
  <2> QED
    BY <2>1, <2>8, <2>9 DEF n
<1> QED
  BY <1>1, <1>2

(* FlushExporterStats clears the counters of those it counts.              *)
LEMMA ResetFacts ==
  ASSUME NEW s \in Sources, exporter_data[s] \in Seq(Exporters)
  PROVE  /\ ResetCounters(s) \in Seq(Exporters)
         /\ DOMAIN ResetCounters(s) = DOMAIN exporter_data[s]
         /\ Len(ResetCounters(s)) = Len(exporter_data[s])
         /\ \A i \in DOMAIN exporter_data[s] :
               LET e == exporter_data[s][i]
                   new == ResetCounters(s)[i]
               IN /\ new.key = e.key /\ new.sysid = e.sysid /\ new.sampler = e.sampler
                  /\ TemplatesOK(e) => TemplatesOK(new)
                  /\ new.flows = IF i \in 1 .. exporter_count[s] THEN 0 ELSE e.flows
<1> DEFINE list == exporter_data[s]
           Cleared(e) == [e EXCEPT !.packets = 0, !.flows = 0, !.failures = 0]
           new == ResetCounters(s)
<1>1. ASSUME NEW e \in Exporters
      PROVE  /\ Cleared(e) \in Exporters
             /\ Cleared(e).key = e.key /\ Cleared(e).sysid = e.sysid /\ Cleared(e).sampler = e.sampler
             /\ Cleared(e).flows = 0
             /\ Cleared(e).template = e.template /\ Cleared(e).currentTemplate = e.currentTemplate
             /\ Cleared(e).announced = e.announced
  BY DEF Exporters
<1>2. new = [i \in DOMAIN list |-> IF i \in 1 .. exporter_count[s] THEN Cleared(list[i]) ELSE list[i]]
  BY DEF ResetCounters, Counted
<1>3. DOMAIN list = 1 .. Len(list) /\ Len(list) \in Nat /\ \A i \in DOMAIN list : list[i] \in Exporters
  OBVIOUS
<1> HIDE DEF list, Cleared, new
<1>4. ASSUME NEW e \in Exporters, TemplatesOK(e) PROVE TemplatesOK(Cleared(e))
  BY <1>1, <1>4 DEF TemplatesOK
<1>5. /\ new \in Seq(Exporters) /\ DOMAIN new = DOMAIN list
      /\ \A i \in DOMAIN list : new[i] = IF i \in 1 .. exporter_count[s] THEN Cleared(list[i]) ELSE list[i]
  BY <1>1, <1>2, <1>3
<1>6. Len(new) = Len(list)
  BY <1>3, <1>5
<1>7. ASSUME NEW i \in DOMAIN list
      PROVE  /\ new[i].key = list[i].key /\ new[i].sysid = list[i].sysid /\ new[i].sampler = list[i].sampler
             /\ TemplatesOK(list[i]) => TemplatesOK(new[i])
             /\ new[i].flows = IF i \in 1 .. exporter_count[s] THEN 0 ELSE list[i].flows
  BY <1>1, <1>3, <1>4, <1>5
<1> QED
  BY <1>5, <1>6, <1>7 DEF list, new

-------------------------------------------------------------------------------
(* The rotation                                                            *)

Closed(s) == file[s] \o StatRecords(s)

(* What RotateFlowFiles does to the sources it got to, those that have a   *)
(* new file, and those whose file was not moved                            *)
Rotation(rotated, opened, badRename) ==
    /\ rotated \subseteq ToSet(FlowSource) /\ opened \subseteq rotated /\ badRename \subseteq rotated
    /\ main = "rotate"
    /\ main' = "rotated" => rotated = ToSet(FlowSource) /\ opened = IF done THEN {} ELSE rotated
    /\ main' = "rotated" \/ (main' = "exited" /\ ~done)
    /\ faults' \in 0 .. MaxFaults
    /\ faults' = 0 => faults = 0 /\ badRename = {} /\ main' = "rotated"
    /\ archive' = [s \in Sources |-> IF s \in rotated \ badRename
                                       THEN Append(archive[s], [start |-> t_start, records |-> Closed(s)])
                                       ELSE archive[s]]
    /\ exporter_data' = [s \in Sources |-> IF s \in rotated THEN ResetCounters(s) ELSE exporter_data[s]]
    /\ file' = [s \in Sources |-> IF s \in opened THEN StdRecords(s)
                                  ELSE IF s \in rotated \cap badRename THEN Closed(s)
                                  ELSE <<>>]
    /\ lost' = lost \cup UNION {NumbersOf(file[s]) :
                    s \in (badRename \cap opened) \cup (ToSet(FlowSource) \ rotated)}
    /\ UNCHANGED <<exporter_count, exporter_sysid, decoded, dangling, packetVars, exporter, setNo,
                   clockVars, signalVars, netVars, sourceVars>>

LEMMA FiniteImage ==
  ASSUME NEW f, NEW S, IsFiniteSet(S)
  PROVE  IsFiniteSet({f[i] : i \in S})
<1> DEFINE T == {f[i] : i \in S}
           g == [i \in S |-> f[i]]
<1>1. g \in Surjection(S, T)
  BY DEF Surjection
<1> QED
  BY <1>1, FS_Surjection

LEMMA RotateFacts ==
  ASSUME TypeOK, RotateFlowFiles
  PROVE  \E rotated, opened, badRename : Rotation(rotated, opened, badRename)
<1>1. /\ FlowSource \in Seq(Sources) /\ faults \in 0 .. MaxFaults /\ MaxFaults \in Nat
      /\ DOMAIN FlowSource = 1 .. Len(FlowSource) /\ Len(FlowSource) \in Nat
  BY CollectorAssumption DEF TypeOK
<1>2. PICK badOpen \in 0 .. (IF done THEN 0 ELSE Len(FlowSource)) :
       LET turns   == IF badOpen = 0 THEN DOMAIN FlowSource ELSE 1 .. badOpen
           rotated == {FlowSource[i] : i \in turns}
           opened  == IF done THEN {} ELSE {FlowSource[i] : i \in turns \ {badOpen}}
       IN \E badRename \in SUBSET rotated :
          /\ faults' = faults + Cardinality(badRename) + (IF badOpen = 0 THEN 0 ELSE 1)
          /\ faults' <= MaxFaults
          /\ archive' = [s \in Sources |->
                IF s \in rotated \ badRename
                  THEN Append(archive[s], [start |-> t_start, records |-> Closed(s)])
                  ELSE archive[s]]
          /\ exporter_data' = [s \in Sources |->
                IF s \in rotated THEN ResetCounters(s) ELSE exporter_data[s]]
          /\ file' = [s \in Sources |->
                IF s \in opened THEN StdRecords(s)
                ELSE IF s \in rotated \cap badRename THEN Closed(s)
                ELSE <<>>]
          /\ lost' = lost \cup UNION {NumbersOf(file[s]) :
                s \in (badRename \cap opened) \cup (ToSet(FlowSource) \ rotated)}
          /\ main' = IF badOpen = 0 THEN "rotated" ELSE "exited"
  BY DEF RotateFlowFiles, Closed
<1> DEFINE turns   == IF badOpen = 0 THEN DOMAIN FlowSource ELSE 1 .. badOpen
           rotated == {FlowSource[i] : i \in turns}
           opened  == IF done THEN {} ELSE {FlowSource[i] : i \in turns \ {badOpen}}
<1>3. PICK badRename \in SUBSET rotated :
          /\ faults' = faults + Cardinality(badRename) + (IF badOpen = 0 THEN 0 ELSE 1)
          /\ faults' <= MaxFaults
          /\ archive' = [s \in Sources |->
                IF s \in rotated \ badRename
                  THEN Append(archive[s], [start |-> t_start, records |-> Closed(s)])
                  ELSE archive[s]]
          /\ exporter_data' = [s \in Sources |->
                IF s \in rotated THEN ResetCounters(s) ELSE exporter_data[s]]
          /\ file' = [s \in Sources |->
                IF s \in opened THEN StdRecords(s)
                ELSE IF s \in rotated \cap badRename THEN Closed(s)
                ELSE <<>>]
          /\ lost' = lost \cup UNION {NumbersOf(file[s]) :
                s \in (badRename \cap opened) \cup (ToSet(FlowSource) \ rotated)}
          /\ main' = IF badOpen = 0 THEN "rotated" ELSE "exited"
  BY <1>2
<1>4. badOpen \in 0 .. Len(FlowSource) /\ (done => badOpen = 0)
  BY <1>1
<1>5. turns \subseteq DOMAIN FlowSource /\ IsFiniteSet(turns) /\ (badOpen = 0 => turns = DOMAIN FlowSource)
  <2>1. turns \subseteq 1 .. Len(FlowSource)
    BY <1>1, <1>4
  <2>2. IsFiniteSet(1 .. Len(FlowSource))
    BY <1>1, FS_Interval
  <2> QED
    BY <1>1, <2>1, <2>2, FS_Subset
<1>6. badOpen = 0 => turns \ {badOpen} = turns
  BY <1>1
<1> HIDE DEF turns
<1>7. rotated \subseteq ToSet(FlowSource) /\ (badOpen = 0 => rotated = ToSet(FlowSource))
  BY <1>5 DEF ToSet
<1>8. opened \subseteq rotated /\ (badOpen = 0 => opened = IF done THEN {} ELSE rotated)
  BY <1>6
<1>9. IsFiniteSet(rotated)
  BY <1>5, FiniteImage
<1> HIDE DEF rotated, opened
<1>10. IsFiniteSet(badRename)
  BY <1>3, <1>9, FS_Subset
<1>11. Cardinality(badRename) \in Nat /\ (Cardinality(badRename) = 0 => badRename = {})
  BY <1>10, FS_EmptySet, FS_CardinalityType
<1>12. /\ faults' \in 0 .. MaxFaults
       /\ faults' = 0 => faults = 0 /\ badRename = {} /\ main' = "rotated"
  <2>1. CASE badOpen = 0
    BY <1>1, <1>3, <1>11, <2>1
  <2>2. CASE badOpen # 0
    BY <1>1, <1>3, <1>11, <2>2
  <2> QED
    BY <2>1, <2>2
<1>13. /\ main' = "rotated" => rotated = ToSet(FlowSource) /\ opened = IF done THEN {} ELSE rotated
       /\ main' = "rotated" \/ (main' = "exited" /\ ~done)
  BY <1>3, <1>4, <1>7, <1>8
<1>14. /\ main = "rotate"
       /\ UNCHANGED <<exporter_count, exporter_sysid, decoded, dangling, packetVars, exporter, setNo,
                      clockVars, signalVars, netVars, sourceVars>>
  BY DEF RotateFlowFiles
<1>15. Rotation(rotated, opened, badRename)
  BY <1>3, <1>7, <1>8, <1>12, <1>13, <1>14 DEF Rotation
<1> QED
  BY <1>15

LEMMA ClosedFacts ==
  ASSUME TypeOK, FileTypes, CountersMatch, NEW s \in Sources
  PROVE  /\ Closed(s) \in Seq(FileRecords) /\ file[s] \in Seq(FileRecords)
         /\ FlowsIn(Closed(s)) = FlowsIn(file[s]) /\ NumbersOf(Closed(s)) = NumbersOf(file[s])
         /\ \A id : Count(Closed(s), id) = Count(file[s], id)
         /\ \A q \in DOMAIN file[s] : q \in DOMAIN Closed(s) /\ Closed(s)[q] = file[s][q]
         /\ \A q \in DOMAIN Closed(s) : q \in DOMAIN file[s] \/ Closed(s)[q].kind = "stats"
<1>1. /\ file[s] \in Seq(FileRecords) /\ exporter_data[s] \in Seq(Exporters)
      /\ exporter_count[s] \in Nat /\ exporter_count[s] <= Len(exporter_data[s])
  BY DEF TypeOK, FileTypes, CountersMatch
<1>2. /\ StatRecords(s) \in Seq(FileRecords)
      /\ \A i \in DOMAIN StatRecords(s) : StatRecords(s)[i].kind = "stats"
  BY <1>1, StatFacts
<1> DEFINE t == StatRecords(s)
<1>3. t \in Seq(FileRecords) /\ (\A i \in DOMAIN t : t[i].kind = "stats") /\ (\A i \in DOMAIN t : t[i].kind # "flow")
  BY <1>2
<1> HIDE DEF t
<1>4. /\ FlowsIn(file[s] \o t) = FlowsIn(file[s]) /\ NumbersOf(file[s] \o t) = NumbersOf(file[s])
      /\ \A id : Count(file[s] \o t, id) = Count(file[s], id)
  BY <1>1, <1>3, AppendOthers
<1>5. /\ file[s] \o t \in Seq(FileRecords)
      /\ DOMAIN (file[s] \o t) = (DOMAIN file[s]) \cup {Len(file[s]) + i : i \in DOMAIN t}
      /\ \A i \in DOMAIN file[s] : (file[s] \o t)[i] = file[s][i]
      /\ \A i \in DOMAIN t : (file[s] \o t)[Len(file[s]) + i] = t[i]
  <2> DEFINE f == file[s]
  <2>1. f \in Seq(FileRecords) /\ t \in Seq(FileRecords)
    BY <1>1, <1>3
  <2> HIDE DEF f
  <2>2. /\ f \o t \in Seq(FileRecords)
        /\ DOMAIN (f \o t) = (DOMAIN f) \cup {Len(f) + i : i \in DOMAIN t}
        /\ \A i \in DOMAIN f : (f \o t)[i] = f[i]
        /\ \A i \in DOMAIN t : (f \o t)[Len(f) + i] = t[i]
    BY <2>1, SeqConcat
  <2> QED
    BY <2>2 DEF f
<1>6. Closed(s) = file[s] \o t
  BY DEF Closed, t
<1> QED
  BY <1>1, <1>3, <1>4, <1>5, <1>6

LEMMA NumbersTyped ==
  ASSUME FileTypes, NEW s \in Sources
  PROVE  NumbersOf(file[s]) \subseteq Nat
<1> SUFFICES ASSUME NEW n \in NumbersOf(file[s]) PROVE n \in Nat
  OBVIOUS
<1>1. PICK i \in DOMAIN file[s] : file[s][i].kind = "flow" /\ file[s][i].number = n
  BY NumbersAt DEF FlowsIn
<1>2. file[s] \in Seq(FileRecords)
  BY DEF FileTypes
<1>3. file[s][i] \in FileRecords
  BY <1>2, LenProperties, ElementOfSeq
<1>4. file[s][i] \in FlowRecords
  BY <1>1, <1>3 DEF FileRecords, ExporterRecords, SamplerRecords
<1> QED
  BY <1>1, <1>4 DEF FlowRecords

LEMMA RotationFiles ==
  ASSUME TypeOK, FileTypes, CountersMatch, NEW rotated, NEW opened, NEW badRename,
         Rotation(rotated, opened, badRename)
  PROVE  /\ FileTypes' /\ TypeOK'
         /\ \A s \in Sources :
               /\ file'[s] \in {StdRecords(s), Closed(s), <<>>}
               /\ s \in opened => file'[s] = StdRecords(s)
               /\ s \in badRename \ opened => file'[s] = Closed(s)
               /\ s \notin opened /\ s \notin badRename => file'[s] = <<>>
               /\ s \in rotated \ badRename =>
                     archive'[s] = Append(archive[s], [start |-> t_start, records |-> Closed(s)])
               /\ ~(s \in rotated \ badRename) => archive'[s] = archive[s]
<1> DEFINE entry(s) == [start |-> t_start, records |-> Closed(s)]
<1>1. /\ rotated \subseteq ToSet(FlowSource) /\ opened \subseteq rotated /\ badRename \subseteq rotated
      /\ archive' = [s \in Sources |-> IF s \in rotated \ badRename
                                       THEN Append(archive[s], entry(s))
                                       ELSE archive[s]]
      /\ file' = [s \in Sources |-> IF s \in opened THEN StdRecords(s)
                                  ELSE IF s \in rotated \cap badRename THEN Closed(s)
                                  ELSE <<>>]
      /\ exporter_data' = [s \in Sources |-> IF s \in rotated THEN ResetCounters(s) ELSE exporter_data[s]]
  BY DEF Rotation
<1>2. \A s \in Sources : exporter_data[s] \in Seq(Exporters) /\ archive[s] \in Seq(Archived)
  BY DEF TypeOK, FileTypes
<1>3. \A s \in Sources : Closed(s) \in Seq(FileRecords) /\ entry(s) \in Archived
  <2>1. t_start \in Nat
    BY DEF TypeOK
  <2>2. \A s \in Sources : Closed(s) \in Seq(FileRecords)
    BY ClosedFacts
  <2> QED
    BY <2>1, <2>2 DEF Archived
<1>4. \A s \in Sources : StdRecords(s) \in Seq(FileRecords)
  BY <1>2, StdFacts
<1> HIDE DEF entry
<1>5. \A s \in Sources : <<>> \in Seq(FileRecords) /\ Append(archive[s], entry(s)) \in Seq(Archived)
  <2>1. ASSUME NEW s \in Sources PROVE Append(archive[s], entry(s)) \in Seq(Archived)
    BY <1>2, <1>3
  <2>2. <<>> \in Seq(FileRecords)
    OBVIOUS
  <2> QED
    BY <2>1, <2>2
<1>6. file' \in [Sources -> Seq(FileRecords)]
  BY <1>1, <1>3, <1>4, <1>5
<1>7. archive' \in [Sources -> Seq(Archived)]
  BY <1>1, <1>2, <1>5
<1>8. FileTypes'
  BY <1>6, <1>7 DEF FileTypes
<1>9. exporter_data' \in [Sources -> Seq(Exporters)]
  <2>1. \A s \in Sources : ResetCounters(s) \in Seq(Exporters)
    BY <1>2, ResetFacts
  <2> QED
    BY <1>1, <1>2, <2>1
<1>10. lost' \subseteq Nat
  <2>1. \A s \in Sources : NumbersOf(file[s]) \subseteq Nat
    BY NumbersTyped
  <2>2. ToSet(FlowSource) \subseteq Sources
    <3>1. FlowSource \in Seq(Sources)
      BY DEF TypeOK
    <3> QED
      BY <3>1 DEF ToSet
  <2>3. \A s \in (badRename \cap opened) \cup (ToSet(FlowSource) \ rotated) : s \in Sources
    BY <1>1, <2>2
  <2>4. lost \subseteq Nat
    BY DEF TypeOK
  <2> QED
    BY <2>1, <2>3, <2>4 DEF Rotation
<1>11. TypeOK'
  <2>1. /\ main' \in {"rotated", "exited", "dead"} /\ faults' \in 0 .. MaxFaults
        /\ UNCHANGED <<exporter_count, exporter_sysid, decoded, dangling, packet, fs, received, exporter, setNo,
                       now, alarm, t_start, t_now, done, missed, stream, socket, FlowSource, dynamic>>
    BY DEF Rotation, packetVars, clockVars, signalVars, netVars, sourceVars
  <2> QED
    BY <1>9, <1>10, <2>1 DEF TypeOK
<1>12. ASSUME NEW s \in Sources
       PROVE  /\ file'[s] \in {StdRecords(s), Closed(s), <<>>}
              /\ s \in opened => file'[s] = StdRecords(s)
              /\ s \in badRename \ opened => file'[s] = Closed(s)
              /\ s \notin opened /\ s \notin badRename => file'[s] = <<>>
  BY <1>1
<1>13. ASSUME NEW s \in Sources
       PROVE  /\ s \in rotated \ badRename => archive'[s] = Append(archive[s], entry(s))
              /\ ~(s \in rotated \ badRename) => archive'[s] = archive[s]
  BY <1>1
<1> QED
  BY <1>8, <1>11, <1>12, <1>13 DEF entry

LEMMA RotationExporters ==
  ASSUME TypeOK, NEW rotated, NEW opened, NEW badRename, Rotation(rotated, opened, badRename),
         NEW s \in Sources
  PROVE  /\ DOMAIN exporter_data'[s] = DOMAIN exporter_data[s]
         /\ Len(exporter_data'[s]) = Len(exporter_data[s])
         /\ \A i \in DOMAIN exporter_data[s] :
               /\ exporter_data'[s][i].key = exporter_data[s][i].key
               /\ exporter_data'[s][i].sysid = exporter_data[s][i].sysid
               /\ exporter_data'[s][i].sampler = exporter_data[s][i].sampler
               /\ TemplatesOK(exporter_data[s][i]) => TemplatesOK(exporter_data'[s][i])
               /\ s \in rotated /\ i \in 1 .. exporter_count[s] => exporter_data'[s][i].flows = 0
<1>1. exporter_data' = [t \in Sources |-> IF t \in rotated THEN ResetCounters(t) ELSE exporter_data[t]]
  BY DEF Rotation
<1>2. exporter_data[s] \in Seq(Exporters)
  BY DEF TypeOK
<1>3. CASE s \in rotated
  <2>1. exporter_data'[s] = ResetCounters(s)
    BY <1>1, <1>3
  <2> QED
    BY <1>2, <2>1, ResetFacts
<1>4. CASE s \notin rotated
  BY <1>1, <1>4
<1> QED
  BY <1>3, <1>4

LEMMA RotationKeeps ==
  ASSUME Inductive, NEW rotated, NEW opened, NEW badRename, Rotation(rotated, opened, badRename)
  PROVE  Inductive'
<1>1. /\ TypeOK /\ CountersMatch /\ SysidsUnique /\ FileTypes /\ Places /\ Clock /\ RecordsNamed /\ TemplateLists
      /\ rotated \subseteq ToSet(FlowSource) /\ opened \subseteq rotated /\ badRename \subseteq rotated
      /\ main = "rotate" /\ main' \in {"rotated", "exited", "dead"}
      /\ UNCHANGED <<exporter_count, exporter_sysid, dangling, now, t_start, t_now, done, dynamic, FlowSource>>
  BY DEF Inductive, IInv, Rotation, clockVars, signalVars, sourceVars
<1>2. /\ FileTypes' /\ TypeOK'
      /\ \A s \in Sources :
            /\ file'[s] \in {StdRecords(s), Closed(s), <<>>}
            /\ s \in opened => file'[s] = StdRecords(s)
            /\ s \notin opened /\ s \notin badRename => file'[s] = <<>>
            /\ s \in rotated \ badRename =>
                  archive'[s] = Append(archive[s], [start |-> t_start, records |-> Closed(s)])
            /\ ~(s \in rotated \ badRename) => archive'[s] = archive[s]
  BY <1>1, RotationFiles
<1>3. ASSUME NEW s \in Sources
      PROVE  /\ DOMAIN exporter_data'[s] = DOMAIN exporter_data[s]
             /\ Len(exporter_data'[s]) = Len(exporter_data[s])
             /\ \A i \in DOMAIN exporter_data[s] :
                   /\ exporter_data'[s][i].key = exporter_data[s][i].key
                   /\ exporter_data'[s][i].sysid = exporter_data[s][i].sysid
                   /\ TemplatesOK(exporter_data[s][i]) => TemplatesOK(exporter_data'[s][i])
                   /\ s \in rotated /\ i \in 1 .. exporter_count[s] => exporter_data'[s][i].flows = 0
             /\ exporter_data[s] \in Seq(Exporters)
  BY <1>1, RotationExporters DEF TypeOK
<1>4. SysidsUnique'
  <2> SUFFICES ASSUME NEW s \in Sources, NEW t \in Sources,
                      NEW i \in DOMAIN exporter_data'[s], NEW j \in DOMAIN exporter_data'[t]
               PROVE  LET e == exporter_data'[s][i]
                          f == exporter_data'[t][j]
                      IN /\ e.sysid <= exporter_sysid'
                         /\ e.sysid = f.sysid /\ e.sysid # 0 => s = t /\ i = j
                         /\ s = t /\ e.key = f.key => i = j
    BY DEF SysidsUnique
  <2>1. i \in DOMAIN exporter_data[s] /\ j \in DOMAIN exporter_data[t]
    BY <1>3
  <2>2. /\ exporter_data'[s][i].key = exporter_data[s][i].key /\ exporter_data'[t][j].key = exporter_data[t][j].key
        /\ exporter_data'[s][i].sysid = exporter_data[s][i].sysid /\ exporter_data'[t][j].sysid = exporter_data[t][j].sysid
    BY <1>3, <2>1
  <2> QED
    BY <1>1, <2>1, <2>2 DEF SysidsUnique
<1>5. TemplateLists'
  <2> SUFFICES ASSUME ~dangling PROVE TemplateLists'
    BY <1>1 DEF TemplateLists
  <2>1. ASSUME NEW s \in Sources, NEW i \in DOMAIN exporter_data'[s] PROVE TemplatesOK(exporter_data'[s][i])
    <3>1. i \in DOMAIN exporter_data[s]
      BY <1>3
    <3> QED
      BY <1>1, <1>3, <3>1 DEF TemplateLists
  <2> QED
    BY <2>1 DEF TemplateLists
<1>6. ASSUME NEW s \in Sources PROVE Named(StdRecords(s)) /\ Named(Closed(s)) /\ Named(<<>>)
  <2>1. Named(StdRecords(s))
    <3>1. \A q \in DOMAIN StdRecords(s) :
             \E i \in DOMAIN exporter_data[s] : StdRecords(s)[q].sysid = exporter_data[s][i].sysid
      BY <1>3, StdKinds
    <3> QED
      BY <1>1, <3>1 DEF Named, SysidsUnique
  <2>2. Named(Closed(s))
    <3>1. Named(file[s])
      BY <1>1 DEF RecordsNamed, Files
    <3>2. /\ \A q \in DOMAIN file[s] : Closed(s)[q] = file[s][q]
          /\ \A q \in DOMAIN Closed(s) : q \in DOMAIN file[s] \/ Closed(s)[q].kind = "stats"
      BY <1>1, ClosedFacts
    <3> QED
      BY <3>1, <3>2 DEF Named
  <2> QED
    BY <2>1, <2>2 DEF Named
<1>7. RecordsNamed'
  <2> SUFFICES ASSUME NEW s \in Sources, NEW records \in Files(s)' PROVE Named(records)
    BY <1>1 DEF RecordsNamed, Named
  <2>1. CASE records = file'[s]
    BY <1>2, <1>6, <2>1
  <2>2. CASE records # file'[s]
    <3>1. PICK i \in DOMAIN archive'[s] : records = archive'[s][i].records
      BY <2>2 DEF Files
    <3>2. CASE s \in rotated \ badRename
      <4> DEFINE x == [start |-> t_start, records |-> Closed(s)]
      <4>1. x.records = Closed(s) /\ archive'[s] = Append(archive[s], x)
        BY <1>2, <3>2
      <4>2. x \in Archived
        <5>1. t_start \in Nat /\ Closed(s) \in Seq(FileRecords)
          BY <1>1, ClosedFacts DEF TypeOK
        <5> QED
          BY <5>1 DEF Archived
      <4> HIDE DEF x
      <4>3. /\ DOMAIN archive'[s] = (DOMAIN archive[s]) \cup {Len(archive[s]) + 1}
            /\ \A j \in DOMAIN archive[s] : archive'[s][j] = archive[s][j]
            /\ archive'[s][Len(archive[s]) + 1] = x
        <5>1. archive[s] \in Seq(Archived)
          BY <1>1 DEF FileTypes
        <5> QED
          BY <4>1, <4>2, <5>1, SeqAppend
      <4>4. CASE i \in DOMAIN archive[s]
        BY <1>1, <3>1, <4>3, <4>4 DEF RecordsNamed, Files
      <4>5. CASE i = Len(archive[s]) + 1
        BY <1>6, <3>1, <4>1, <4>3, <4>5
      <4> QED
        BY <3>1, <4>3, <4>4, <4>5
    <3>3. CASE ~(s \in rotated \ badRename)
      BY <1>1, <1>2, <3>1, <3>3 DEF RecordsNamed, Files
    <3> QED
      BY <3>2, <3>3
  <2> QED
    BY <2>1, <2>2
<1>8. CountersMatch'
  BY <1>1, <1>3 DEF CountersMatch
<1>9. Fresh'
  <2> SUFFICES ASSUME main' = "rotated", ~done, NEW s \in Sources
               PROVE  /\ NumbersOf(file'[s]) = {}
                      /\ ~dynamic => /\ exporter_count[s] = Len(exporter_data'[s])
                                     /\ \A i \in DOMAIN exporter_data'[s] : exporter_data'[s][i].flows = 0
    BY <1>1 DEF Fresh, NumbersOf
  <2>1. rotated = ToSet(FlowSource) /\ opened = rotated
    BY DEF Rotation
  <2>2. NumbersOf(file'[s]) = {}
    <3>1. s \notin badRename \/ s \in opened
      BY <1>1, <2>1
    <3>2. file'[s] \in {StdRecords(s), <<>>}
      BY <1>2, <3>1
    <3>3. NumbersOf(StdRecords(s)) = {}
      BY <1>3, StdNoFlows
    <3>4. NumbersOf(<<>>) = {}
      BY NumbersAt DEF FlowsIn
    <3> QED
      BY <3>2, <3>3, <3>4
  <2>3. ASSUME ~dynamic
        PROVE  /\ exporter_count[s] = Len(exporter_data'[s])
               /\ \A i \in DOMAIN exporter_data'[s] : exporter_data'[s][i].flows = 0
    <3>1. exporter_count[s] = Len(exporter_data[s])
      BY <1>1, <2>3 DEF CountersMatch
    <3>2. CASE s \in rotated
      <4>1. DOMAIN exporter_data[s] = 1 .. exporter_count[s]
        BY <1>3, <3>1, LenProperties
      <4> QED
        BY <1>3, <3>1, <3>2, <4>1
    <3>3. CASE s \notin rotated
      <4>1. exporter_data[s] = <<>>
        BY <1>1, <2>1, <3>3 DEF Places
      <4> QED
        BY <1>3, <3>1, <4>1
    <3> QED
      BY <3>2, <3>3
  <2> QED
    BY <2>2, <2>3
<1>10. Places'
  <2>1. ASSUME NEW s \in Sources \ ToSet(FlowSource) PROVE exporter_data'[s] = <<>> /\ file'[s] = <<>>
    <3>1. s \notin rotated /\ exporter_data[s] = <<>>
      BY <1>1 DEF Places
    <3>2. exporter_data'[s] = <<>>
      BY <3>1 DEF Rotation
    <3> QED
      BY <1>1, <1>2, <3>1, <3>2
  <2>2. main' \notin {"dispatch", "packet", "sets"}
    BY <1>1
  <2> QED
    BY <1>1, <2>1, <2>2 DEF Places
<1>11. Clock'
  BY <1>1 DEF Clock
<1> QED
  BY <1>2, <1>4, <1>5, <1>7, <1>8, <1>9, <1>10, <1>11 DEF Inductive, IInv

-------------------------------------------------------------------------------
(* The steps that write nothing                                            *)

LEMMA StillInductive ==
  ASSUME Inductive, UNCHANGED <<exporterVars, archive, lost, faults, dynamic>>,
         main' \in {"rotated", "exited", "dead"} \/ main \notin {"rotated", "exited", "dead"},
         main' = "rotated" => main = "rotated" /\ (done => done'),
         TypeOK', Places', Clock'
  PROVE  Inductive'
<1>1. /\ TypeOK /\ CountersMatch /\ SysidsUnique /\ FileTypes /\ Fresh /\ RecordsNamed /\ TemplateLists
  BY DEF Inductive, IInv
<1>2. Quiet
  BY <1>1, UnchangedIsQuiet
<1>3. SysidsUnique' /\ RecordsNamed' /\ TemplateLists' /\ FileTypes'
  BY <1>1, <1>2, QuietKeeps
<1>4. CountersMatch'
  BY <1>1, <1>2, QuietCounts
<1>5. Fresh'
  <2>1. UNCHANGED <<exporter_data, exporter_count, file, dynamic>>
    BY DEF exporterVars
  <2>2. main' = "rotated" /\ ~done' => main = "rotated" /\ ~done
    OBVIOUS
  <2> SUFFICES ASSUME main' = "rotated", ~done', NEW s \in Sources
               PROVE  /\ NumbersOf(file'[s]) = {}
                      /\ ~dynamic' => /\ exporter_count'[s] = Len(exporter_data'[s])
                                      /\ \A i \in DOMAIN exporter_data'[s] : exporter_data'[s][i].flows = 0
    BY DEF Fresh, NumbersOf
  <2> QED
    BY <1>1, <2>1, <2>2 DEF Fresh
<1> QED
  BY <1>3, <1>4, <1>5 DEF Inductive, IInv

LEMMA ClockFacts ==
  /\ MaxTime \in Nat /\ Twin \in Nat \ {0} /\ SocketSize \in Nat \ {0} /\ MaxFaults \in Nat
  /\ Never \in Nat
BY CollectorAssumption DEF Never

LEMMA AlarmType ==
  ASSUME NEW seconds \in Int, now \in Nat, AlarmIn(seconds)
  PROVE  alarm' \in Nat
<1>1. Never \in Nat
  BY ClockFacts
<1>2. CASE seconds > 0
  <2> DEFINE S == {now + seconds, Never}
  <2>1. S \subseteq Nat /\ S # {}
    BY <1>1, <1>2
  <2>2. alarm' = Min(S)
    BY <1>2 DEF AlarmIn
  <2> HIDE DEF S
  <2> QED
    BY <2>1, <2>2, MinInSet
<1>3. CASE ~(seconds > 0)
  BY <1>1, <1>3 DEF AlarmIn
<1> QED
  BY <1>2, <1>3

LEMMA DeliverFacts ==
  ASSUME TypeOK, NEW signal \in {"alarm", "term"}, NEW seen, Deliver(signal, seen)
  PROVE  /\ \/ main = "recv" /\ main' = "check" /\ packet' = None
            \/ main' = main /\ packet' = packet
         /\ missed' \subseteq {"alarm", "term"}
         /\ packet' \in Packets \cup {None}
BY DEF Deliver, TypeOK

LEMMA TickInductive ==
  ASSUME Inductive, Tick
  PROVE  Inductive'
<1>1. TypeOK /\ Places /\ Clock
  BY DEF Inductive, IInv
<1>2. /\ UNCHANGED <<exporterVars, fs, received, exporter, setNo, t_start, t_now, done,
                     netVars, sourceVars, storeVars>>
      /\ now' = now + 1 /\ now < MaxTime /\ main # "exited"
  BY DEF Tick
<1>3. /\ \/ main = "recv" /\ main' = "check" /\ packet' = None
         \/ main' = main /\ packet' = packet
      /\ missed' \subseteq {"alarm", "term"} /\ packet' \in Packets \cup {None}
      /\ alarm' \in Nat
  <2>1. CASE alarm = now'
    <3>1. Deliver("alarm", {"check"}) /\ alarm' = Never
      BY <2>1 DEF Tick
    <3> QED
      BY <1>1, <3>1, DeliverFacts, ClockFacts
  <2>2. CASE alarm # now'
    <3>1. UNCHANGED <<alarm, main, packet, missed>>
      BY <2>2 DEF Tick
    <3> QED
      BY <1>1, <3>1 DEF TypeOK
  <2> QED
    BY <2>1, <2>2
<1>4. now \in 0 .. MaxTime /\ t_now \in 0 .. MaxTime /\ t_start \in Nat /\ MaxTime \in Nat
  BY <1>1, ClockFacts DEF TypeOK
<1>5. TypeOK'
  <2>1. now' \in 0 .. MaxTime
    BY <1>2, <1>4
  <2>2. main' \in {"top", "call", "recv", "check", "rotate", "rotated", "dispatch", "packet", "sets",
               "exited", "dead"}
    BY <1>1, <1>3 DEF TypeOK
  <2> QED
    BY <1>1, <1>2, <1>3, <1>4, <2>1, <2>2 DEF TypeOK, exporterVars, netVars, sourceVars, storeVars
<1>6. Places'
  BY <1>1, <1>2, <1>3 DEF Places, exporterVars, sourceVars
<1>7. Clock'
  BY <1>1, <1>2, <1>3, <1>4 DEF Clock
<1> QED
  BY <1>2, <1>3, <1>5, <1>6, <1>7, StillInductive DEF sourceVars, storeVars

LEMMA TermInductive ==
  ASSUME Inductive, Term
  PROVE  Inductive'
<1>1. TypeOK /\ Places /\ Clock
  BY DEF Inductive, IInv
<1>2. /\ UNCHANGED <<exporterVars, fs, received, exporter, setNo, clockVars, netVars, sourceVars, storeVars>>
      /\ ~done /\ done' = TRUE /\ main # "exited"
  BY DEF Term
<1>3. /\ \/ main = "recv" /\ main' = "check" /\ packet' = None
         \/ main' = main /\ packet' = packet
      /\ missed' \subseteq {"alarm", "term"} /\ packet' \in Packets \cup {None}
  BY <1>1, DeliverFacts DEF Term
<1>4. TypeOK'
  <2>1. main' \in {"top", "call", "recv", "check", "rotate", "rotated", "dispatch", "packet", "sets",
               "exited", "dead"}
    BY <1>1, <1>3 DEF TypeOK
  <2> QED
    BY <1>1, <1>2, <1>3, <2>1 DEF TypeOK, exporterVars, clockVars, netVars, sourceVars, storeVars
<1>5. Places'
  BY <1>1, <1>2, <1>3 DEF Places, exporterVars, sourceVars, clockVars
<1>6. Clock'
  BY <1>1, <1>2, <1>3 DEF Clock, clockVars
<1> QED
  BY <1>2, <1>3, <1>4, <1>5, <1>6, StillInductive DEF sourceVars, storeVars

LEMMA ArriveInductive ==
  ASSUME Inductive, Arrive
  PROVE  Inductive'
<1>1. TypeOK /\ Places /\ Clock
  BY DEF Inductive, IInv
<1>2. /\ UNCHANGED <<decodeVars, main, clockVars, signalVars, sourceVars, storeVars>>
      /\ stream # <<>> /\ stream' = Tail(stream)
      /\ socket' = IF Len(socket) < SocketSize THEN Append(socket, Head(stream)) ELSE socket
  BY DEF Arrive
<1>3. stream \in Seq(Packets) /\ socket \in Seq(Packets) /\ Len(socket) <= SocketSize /\ SocketSize \in Nat
  BY <1>1, ClockFacts DEF TypeOK
<1>4. stream' \in Seq(Packets) /\ Head(stream) \in Packets
  BY <1>2, <1>3
<1>5. socket' \in Seq(Packets) /\ Len(socket') <= SocketSize
  <2>1. CASE Len(socket) < SocketSize
    <3>1. Append(socket, Head(stream)) \in Seq(Packets) /\ Len(Append(socket, Head(stream))) = Len(socket) + 1
      BY <1>3, <1>4, AppendProperties
    <3>2. Len(socket) \in Nat
      BY <1>3
    <3> QED
      BY <1>2, <1>3, <2>1, <3>1, <3>2
  <2>2. CASE ~(Len(socket) < SocketSize)
    BY <1>2, <1>3, <2>2
  <2> QED
    BY <2>1, <2>2
<1>6. TypeOK'
  BY <1>1, <1>2, <1>4, <1>5
     DEF TypeOK, decodeVars, exporterVars, packetVars, clockVars, signalVars, sourceVars, storeVars
<1>7. Places' /\ Clock'
  BY <1>1, <1>2 DEF Places, Clock, decodeVars, exporterVars, packetVars, clockVars, signalVars, sourceVars
<1> QED
  BY <1>2, <1>6, <1>7, StillInductive DEF decodeVars, signalVars, sourceVars, storeVars

LEMMA WaitInductive ==
  ASSUME Inductive, Top \/ Call \/ Receive
  PROVE  Inductive'
<1>1. TypeOK /\ Places /\ Clock
  BY DEF Inductive, IInv
<1>2. /\ UNCHANGED <<exporterVars, fs, received, exporter, setNo, clockVars, signalVars, stream,
                     sourceVars, storeVars>>
      /\ main' \in {"check", "call", "recv"} /\ main \notin {"rotated", "exited", "dead"}
  BY DEF Top, Call, Receive, decodeVars, packetVars, netVars
<1>3. packet' \in Packets \cup {None} /\ socket' \in Seq(Packets) /\ Len(socket') <= SocketSize
  <2>1. socket \in Seq(Packets) /\ Len(socket) <= SocketSize /\ packet \in Packets \cup {None} /\ SocketSize \in Nat
    BY <1>1, ClockFacts DEF TypeOK
  <2>2. CASE Top \/ Call
    BY <2>1, <2>2 DEF Top, Call, decodeVars, packetVars, netVars
  <2>3. CASE Receive
    <3>1. socket # <<>> /\ packet' = Head(socket) /\ socket' = Tail(socket)
      BY <2>3 DEF Receive
    <3>2. /\ Head(socket) \in Packets /\ Tail(socket) \in Seq(Packets)
          /\ Len(Tail(socket)) = Len(socket) - 1 /\ Len(socket) \in Nat
      BY <2>1, <3>1, HeadTailProperties
    <3> QED
      BY <2>1, <3>1, <3>2
  <2> QED
    BY <2>2, <2>3
<1>4. TypeOK'
  BY <1>1, <1>2, <1>3 DEF TypeOK, exporterVars, clockVars, signalVars, sourceVars, storeVars
<1>5. Places' /\ Clock'
  BY <1>1, <1>2 DEF Places, Clock, exporterVars, clockVars, signalVars, sourceVars
<1> QED
  BY <1>2, <1>4, <1>5, StillInductive DEF signalVars, sourceVars, storeVars

LEMMA CheckSlotInductive ==
  ASSUME Inductive, CheckSlot
  PROVE  Inductive'
<1>1. TypeOK /\ Places /\ Clock
  BY DEF Inductive, IInv
<1>2. /\ UNCHANGED <<decodeVars, now, t_start, signalVars, netVars, sourceVars, storeVars>>
      /\ t_now' = now /\ main = "check" /\ main' \in {"rotate", "top", "dispatch"}
      /\ main' = "dispatch" => packet # None
      /\ main' = "rotate" => now - t_start >= Twin \/ done
      /\ alarm' \in {alarm, Never}
  BY DEF CheckSlot
<1>3. /\ now \in 0 .. MaxTime /\ t_now \in 0 .. MaxTime /\ t_start \in Nat /\ MaxTime \in Nat /\ Twin \in Nat
      /\ alarm' \in Nat
  BY <1>1, <1>2, ClockFacts DEF TypeOK
<1>4. TypeOK'
  BY <1>1, <1>2, <1>3
     DEF TypeOK, decodeVars, exporterVars, packetVars, signalVars, netVars, sourceVars, storeVars
<1>5. Places'
  BY <1>1, <1>2 DEF Places, TypeOK, decodeVars, exporterVars, packetVars, sourceVars
<1>6. Clock'
  BY <1>1, <1>2, <1>3 DEF Clock, signalVars
<1> QED
  BY <1>2, <1>4, <1>5, <1>6, StillInductive DEF decodeVars, signalVars, sourceVars, storeVars

LEMMA NextSlotInductive ==
  ASSUME Inductive, NextSlot
  PROVE  Inductive'
<1>1. /\ TypeOK /\ CountersMatch /\ SysidsUnique /\ FileTypes /\ Fresh /\ RecordsNamed /\ TemplateLists
      /\ Places /\ Clock
  BY DEF Inductive, IInv
<1>2. /\ UNCHANGED <<decodeVars, now, t_now, done, netVars, sourceVars, storeVars>> /\ main = "rotated"
  BY DEF NextSlot
<1>3. /\ now \in 0 .. MaxTime /\ t_now \in 0 .. MaxTime /\ t_start \in Nat /\ MaxTime \in Nat /\ Twin \in Nat
      /\ alarm \in Nat
  BY <1>1, ClockFacts DEF TypeOK
<1>4. CASE done
  <2>1. main' = "exited" /\ UNCHANGED <<t_start, alarm, missed>>
    BY <1>4 DEF NextSlot
  <2>2. TypeOK'
    BY <1>1, <1>2, <2>1
       DEF TypeOK, decodeVars, exporterVars, packetVars, netVars, sourceVars, storeVars
  <2>3. Places' /\ Clock'
    BY <1>1, <1>2, <2>1 DEF Places, Clock, decodeVars, exporterVars, sourceVars
  <2> QED
    BY <1>2, <2>1, <2>2, <2>3, StillInductive DEF decodeVars, sourceVars, storeVars
<1>5. CASE ~done
  <2>1. /\ t_start' = t_start + Twin
        /\ AlarmIn(t_start' + Twin + 1 - t_now)
        /\ missed' \subseteq missed \cup {"alarm"}
        /\ main' = IF packet = None THEN "top" ELSE "dispatch"
    BY <1>5 DEF NextSlot
  <2>2. alarm' \in Nat
    <3>1. t_start' + Twin + 1 - t_now \in Int /\ now \in Nat
      BY <1>3, <2>1
    <3> QED
      BY <2>1, <3>1, AlarmType
  <2>3. TypeOK'
    <3>1. t_start' \in Nat
      BY <1>3, <2>1
    <3> QED
      BY <1>1, <1>2, <2>1, <2>2, <3>1
         DEF TypeOK, decodeVars, exporterVars, packetVars, netVars, sourceVars, storeVars
  <2>4. Places'
    BY <1>1, <1>2, <2>1 DEF Places, TypeOK, decodeVars, exporterVars, packetVars, sourceVars
  <2>5. Clock'
    BY <1>1, <1>2, <1>3, <1>5, <2>1 DEF Clock
  <2>6. Quiet
    BY <1>1, <1>2, UnchangedIsQuiet DEF decodeVars, storeVars
  <2>7. SysidsUnique' /\ RecordsNamed' /\ TemplateLists' /\ FileTypes'
    BY <1>1, <2>6, QuietKeeps
  <2>8. Fresh'
    BY <2>1 DEF Fresh
  <2>9. CountersMatch'
    <3>1. UNCHANGED <<exporter_data, exporter_count, file, dynamic>>
      BY <1>2 DEF decodeVars, exporterVars, sourceVars
    <3>2. ASSUME NEW s \in Sources, ~dynamic
          PROVE  /\ exporter_count[s] = Len(exporter_data[s])
                 /\ \A i \in DOMAIN exporter_data[s] :
                       exporter_data[s][i].flows = Count(file[s], exporter_data[s][i].sysid)
      <4>1. /\ NumbersOf(file[s]) = {} /\ exporter_count[s] = Len(exporter_data[s])
            /\ \A i \in DOMAIN exporter_data[s] : exporter_data[s][i].flows = 0
        BY <1>1, <1>2, <1>5, <3>2 DEF Fresh
      <4>2. \A id : Count(file[s], id) = 0
        BY <4>1, NoFlows
      <4> QED
        BY <4>1, <4>2
    <3>3. \A s \in Sources : exporter_count[s] <= Len(exporter_data[s])
      BY <1>1 DEF CountersMatch
    <3> QED
      BY Zenon, <3>1, <3>2, <3>3 DEF CountersMatch, Count
  <2> QED
    BY <2>3, <2>4, <2>5, <2>7, <2>8, <2>9 DEF Inductive, IInv
<1> QED
  BY <1>4, <1>5

LEMMA DispatchInductive ==
  ASSUME Inductive, Dispatch
  PROVE  Inductive'
<1>1. TypeOK /\ Places /\ Clock
  BY DEF Inductive, IInv
<1>2. /\ UNCHANGED <<exporterVars, packet, exporter, setNo, clockVars, signalVars, netVars, sourceVars, storeVars>>
      /\ main = "dispatch"
      /\ \/ fs' \in SourceOf(packet.key[1]) /\ received' = t_now /\ main' = "packet"
         \/ main' = "top" /\ UNCHANGED <<fs, received>>
  BY DEF Dispatch
<1>3. main' = "packet" => fs' \in ToSet(FlowSource) /\ fs' \in Sources
  <2>1. FlowSource \in Seq(Sources)
    BY <1>1 DEF TypeOK
  <2>2. ToSet(FlowSource) \subseteq Sources
    BY <2>1 DEF ToSet
  <2> QED
    BY <1>2, <2>2 DEF SourceOf
<1>4. fs' \in Sources \cup {None} /\ received' \in 0 .. MaxTime
  BY <1>1, <1>2, <1>3 DEF TypeOK
<1>5. TypeOK'
  BY <1>1, <1>2, <1>4
     DEF TypeOK, exporterVars, clockVars, signalVars, netVars, sourceVars, storeVars
<1>6. Places'
  BY <1>1, <1>2, <1>3 DEF Places, exporterVars, sourceVars, clockVars
<1>7. Clock'
  BY <1>1, <1>2 DEF Clock, clockVars
<1> QED
  BY <1>2, <1>5, <1>6, <1>7, StillInductive DEF sourceVars, storeVars

LEMMA PacketDoneInductive ==
  ASSUME Inductive, PacketDone,
         UNCHANGED <<clockVars, signalVars, netVars, sourceVars, storeVars>>
  PROVE  Inductive'
<1>1. TypeOK /\ Places /\ Clock
  BY DEF Inductive, IInv
<1>2. UNCHANGED <<exporterVars, packetVars, exporter, setNo>> /\ main = "sets" /\ main' = "top"
  BY DEF PacketDone
<1>3. TypeOK'
  BY <1>1, <1>2
     DEF TypeOK, exporterVars, packetVars, clockVars, signalVars, netVars, sourceVars, storeVars
<1>4. Places' /\ Clock'
  BY <1>1, <1>2 DEF Places, Clock, exporterVars, packetVars, clockVars, sourceVars
<1> QED
  BY <1>2, <1>3, <1>4, StillInductive DEF sourceVars, storeVars

(* What all steps of decoding leave alone                                  *)
LEMMA DecodeRest ==
  ASSUME Inductive, UNCHANGED <<clockVars, signalVars, netVars, sourceVars, storeVars, packetVars>>,
         main \in {"packet", "sets"}, main' = "sets", setNo' \in Nat \ {0},
         exporter' \in DOMAIN exporter_data'[fs], fs \in Sources,
         exporter_data' \in [Sources -> Seq(Exporters)],
         \A s \in Sources : s # fs => exporter_data'[s] = exporter_data[s] /\ file'[s] = file[s],
         exporter_count' \in [Sources -> Nat], exporter_sysid' \in 0 .. MaxSysId,
         decoded' \in Nat, dangling' \in BOOLEAN
  PROVE  TypeOK' /\ Places' /\ Clock' /\ Fresh'
<1>1. TypeOK /\ Places /\ Clock
  BY DEF Inductive, IInv
<1>2. UNCHANGED <<fs, packet, received>>
  BY DEF packetVars
<1>3. exporter' \in Nat
  <2>1. exporter_data'[fs] \in Seq(Exporters)
    OBVIOUS
  <2>2. DOMAIN exporter_data'[fs] \subseteq Nat
    BY <2>1
  <2> QED
    BY <2>2
<1>4. TypeOK'
  BY <1>1, <1>2, <1>3 DEF TypeOK, clockVars, signalVars, netVars, sourceVars, storeVars
<1>5. Places'
  <2>1. fs \in ToSet(FlowSource) /\ received = t_now /\ packet \in Packets
    BY <1>1 DEF Places
  <2>2. \A s \in Sources \ ToSet(FlowSource) : exporter_data'[s] = <<>> /\ file'[s] = <<>>
    BY <1>1, <2>1 DEF Places
  <2> QED
    BY <1>2, <2>1, <2>2 DEF Places, clockVars, sourceVars
<1>6. Clock'
  BY <1>1 DEF Clock, clockVars
<1>7. Fresh'
  BY DEF Fresh
<1> QED
  BY <1>4, <1>5, <1>6, <1>7

LEMMA OpenPacketInductive ==
  ASSUME Inductive, OpenPacket,
         UNCHANGED <<clockVars, signalVars, netVars, sourceVars, storeVars>>
  PROVE  Inductive'
<1>1. /\ TypeOK /\ CountersMatch /\ SysidsUnique /\ FileTypes /\ RecordsNamed /\ TemplateLists /\ Places
  BY DEF Inductive, IInv
<1>2. /\ (Quiet /\ exporter' \in DOMAIN exporter_data[fs]) \/ (Newcomer /\ exporter' = Len(exporter_data[fs]) + 1)
      /\ main = "packet" /\ main' = "sets" /\ setNo' = 1 /\ UNCHANGED <<packet, fs, received>>
  BY <1>1, OpenPacketStep DEF storeVars
<1>3. fs \in Sources /\ exporter_data[fs] \in Seq(Exporters)
  BY <1>1, <1>2, AtPacket
<1>4. UNCHANGED <<archive, lost, faults, dynamic>>
  BY DEF storeVars, sourceVars
<1>5. exporter_data' = [exporter_data EXCEPT ![fs] = exporter_data'[fs]]
  BY <1>1 DEF OpenPacket, TypeOK
<1>6. \A s \in Sources : s # fs => exporter_data'[s] = exporter_data[s]
  BY <1>1, <1>3, <1>5 DEF TypeOK
<1>7. CASE Quiet /\ exporter' \in DOMAIN exporter_data[fs]
  <2>1. SysidsUnique' /\ RecordsNamed' /\ TemplateLists' /\ FileTypes'
    BY <1>1, <1>7, QuietKeeps
  <2>2. CountersMatch'
    BY <1>1, <1>2, <1>4, <1>7, QuietCounts
  <2>3. /\ exporter_data' \in [Sources -> Seq(Exporters)]
        /\ DOMAIN exporter_data'[fs] = DOMAIN exporter_data[fs]
        /\ dangling' \in BOOLEAN
        /\ UNCHANGED <<exporter_count, exporter_sysid, file, decoded>>
    BY <1>3, <1>7 DEF Quiet
  <2>4. exporter_count' \in [Sources -> Nat] /\ exporter_sysid' \in 0 .. MaxSysId /\ decoded' \in Nat
    BY <1>1, <2>3 DEF TypeOK
  <2>5. TypeOK' /\ Places' /\ Clock' /\ Fresh'
    BY <1>2, <1>3, <1>6, <1>7, <2>3, <2>4, DecodeRest DEF packetVars
  <2> QED
    BY <2>1, <2>2, <2>5 DEF Inductive, IInv
<1>8. CASE Newcomer /\ exporter' = Len(exporter_data[fs]) + 1
  <2>1. /\ SysidsUnique' /\ RecordsNamed' /\ TemplateLists' /\ FileTypes' /\ CountersMatch'
        /\ exporter_data' \in [Sources -> Seq(Exporters)]
        /\ exporter_count' \in [Sources -> Nat]
        /\ exporter_sysid' \in 0 .. MaxSysId
    BY <1>1, <1>2, <1>4, <1>8, NewcomerKeeps
  <2>2. PICK new \in Exporters :
          /\ exporter_data' = [exporter_data EXCEPT ![fs] = Append(@, new)]
          /\ AppendToBuffer(fs, ExporterInfo(new))
          /\ decoded' = decoded /\ dangling' = dangling
    BY <1>8 DEF Newcomer
  <2>3. exporter' \in DOMAIN exporter_data'[fs]
    BY <1>1, <1>2, <1>3, <1>8, <2>2, NewcomerList
  <2>4. \A s \in Sources : s # fs => file'[s] = file[s]
    BY <1>1, <1>3, <2>2 DEF AppendToBuffer, FileTypes
  <2>5. decoded' \in Nat /\ dangling' \in BOOLEAN
    BY <1>1, <2>2 DEF TypeOK
  <2>6. TypeOK' /\ Places' /\ Clock' /\ Fresh'
    BY <1>2, <1>3, <1>6, <2>1, <2>3, <2>4, <2>5, DecodeRest DEF packetVars
  <2> QED
    BY <2>1, <2>6 DEF Inductive, IInv
<1> QED
  BY <1>2, <1>7, <1>8

(* The next set of the packet                                              *)
LEMMA SetRest ==
  ASSUME Inductive, UNCHANGED <<clockVars, signalVars, netVars, sourceVars, storeVars>>, NextSet, main = "sets",
         NEW new \in Exporters, Update(new),
         \A s \in Sources : s # fs => file'[s] = file[s], decoded' \in Nat, dangling' = dangling
  PROVE  TypeOK' /\ Places' /\ Clock' /\ Fresh'
<1>1. TypeOK /\ Places
  BY DEF Inductive, IInv
<1>2. /\ fs \in Sources /\ exporter \in DOMAIN exporter_data[fs] /\ setNo \in Nat \ {0}
  BY <1>1, AtSets
<1>3. /\ exporter_data' \in [Sources -> Seq(Exporters)]
      /\ \A s \in Sources : DOMAIN exporter_data'[s] = DOMAIN exporter_data[s]
  BY <1>1, UpdateOne
<1>4. \A s \in Sources : s # fs => exporter_data'[s] = exporter_data[s]
  BY <1>1, <1>2 DEF Update, TypeOK
<1>5. /\ setNo' \in Nat \ {0} /\ main' = "sets" /\ exporter' \in DOMAIN exporter_data'[fs]
      /\ exporter_count' \in [Sources -> Nat] /\ exporter_sysid' \in 0 .. MaxSysId
      /\ UNCHANGED packetVars /\ dangling' \in BOOLEAN
  BY <1>1, <1>2, <1>3 DEF NextSet, TypeOK
<1> QED
  BY <1>2, <1>3, <1>4, <1>5, DecodeRest

LEMMA TemplateInductive ==
  ASSUME Inductive, TemplateSets,
         UNCHANGED <<clockVars, signalVars, netVars, sourceVars, storeVars>>
  PROVE  Inductive'
<1>1. /\ TypeOK /\ CountersMatch /\ SysidsUnique /\ FileTypes /\ RecordsNamed /\ TemplateLists /\ Places
  BY DEF Inductive, IInv
<1>2. /\ main = "sets" /\ NextSet /\ UNCHANGED <<file, decoded>>
  BY DEF TemplateSets, DataTemplate, OptionTemplate, WithdrawTemplate, WithdrawAllTemplates, UnknownData, AtSet
<1>3. Quiet
  BY <1>1, TemplateStep DEF storeVars
<1>4. main' = "sets" /\ dynamic' = dynamic
  BY <1>2 DEF NextSet, sourceVars
<1>5. SysidsUnique' /\ RecordsNamed' /\ TemplateLists' /\ FileTypes'
  BY <1>1, <1>3, QuietKeeps
<1>6. CountersMatch'
  BY <1>1, <1>2, <1>3, <1>4, QuietCounts
<1>7. \E e : Update(e)
  BY DEF TemplateSets, DataTemplate, OptionTemplate, WithdrawTemplate, WithdrawAllTemplates, UnknownData
<1>8. TypeOK' /\ Places' /\ Clock' /\ Fresh'
  <2>1. /\ fs \in Sources /\ exporter \in DOMAIN exporter_data[fs] /\ setNo \in Nat \ {0}
    BY <1>1, <1>2, AtSets
  <2>2. /\ exporter_data' \in [Sources -> Seq(Exporters)]
        /\ \A s \in Sources : DOMAIN exporter_data'[s] = DOMAIN exporter_data[s]
        /\ dangling' \in BOOLEAN
    BY <1>3 DEF Quiet
  <2>3. \A s \in Sources : s # fs => exporter_data'[s] = exporter_data[s] /\ file'[s] = file[s]
    BY <1>1, <1>2, <1>7, <2>1 DEF Update, TypeOK
  <2>4. /\ setNo' \in Nat \ {0} /\ exporter' \in DOMAIN exporter_data'[fs]
        /\ exporter_count' \in [Sources -> Nat] /\ exporter_sysid' \in 0 .. MaxSysId
        /\ decoded' \in Nat /\ UNCHANGED packetVars
    BY <1>1, <1>2, <2>1, <2>2 DEF NextSet, TypeOK
  <2> QED
    BY <1>2, <1>4, <2>1, <2>2, <2>3, <2>4, DecodeRest
<1> QED
  BY <1>5, <1>6, <1>8 DEF Inductive, IInv

LEMMA FlowInductive ==
  ASSUME Inductive, FlowData,
         UNCHANGED <<clockVars, signalVars, netVars, sourceVars, storeVars>>
  PROVE  Inductive'
<1>1. /\ TypeOK /\ CountersMatch /\ SysidsUnique /\ FileTypes /\ RecordsNamed /\ TemplateLists /\ Places
  BY DEF Inductive, IInv
<1>2. Flow /\ main = "sets"
  BY <1>1, FlowStep
<1>3. NextSet
  BY DEF FlowData
<1>4. PICK new \in Exporters, sampler \in {0} \cup SamplerIds :
        /\ Update(new)
        /\ new.key = TheExporter.key /\ new.sysid = TheExporter.sysid
        /\ new.sampler = TheExporter.sampler /\ new.flows = TheExporter.flows + 1
        /\ Sound(new, TheExporter)
        /\ AppendToBuffer(fs, FlowRecord(TheExporter, sampler))
        /\ decoded' = decoded + 1 /\ dangling' = dangling
  BY <1>2 DEF Flow
<1> DEFINE r == FlowRecord(TheExporter, sampler)
<1>5. TheExporter \in Exporters /\ fs \in Sources
  BY <1>1, <1>2, AtSets
<1>6. r \in FileRecords /\ r.kind = "flow" /\ r.sysid = TheExporter.sysid
  BY <1>1, <1>5, FlowRecordFacts
<1>7. AppendToBuffer(fs, r)
  BY <1>4
<1> HIDE DEF r
<1>8. /\ UNCHANGED <<exporter_count, exporter_sysid, archive, dynamic>> /\ main' = "sets"
  BY <1>2, <1>3 DEF NextSet, storeVars, sourceVars
<1>9. FileTypes' /\ \A s \in Sources : file'[s] = IF s = fs THEN Append(file[fs], r) ELSE file[s]
  BY <1>1, <1>5, <1>6, <1>7, <1>8, AppendsOne
<1>10. SysidsUnique' /\ TemplateLists'
  BY <1>1, <1>2, <1>4, <1>8, UpdateKeeps
<1>11. RecordsNamed'
  <2>1. TheExporter.sysid <= exporter_sysid /\ exporter_sysid \in Nat
    <3>1. exporter \in DOMAIN exporter_data[fs]
      BY <1>1, <1>2, AtSets
    <3> QED
      BY <1>1, <1>5, <3>1, IdsFacts DEF SysidsUnique, TheExporter
  <2> QED
    BY <1>1, <1>5, <1>6, <1>7, <1>8, <2>1, NamesOne
<1>12. CountersMatch'
  BY <1>1, <1>2, <1>4, <1>6, <1>7, <1>8, FlowCounts
<1>13. TypeOK' /\ Places' /\ Clock' /\ Fresh'
  <2>1. decoded' \in Nat
    BY <1>1, <1>4 DEF TypeOK
  <2> QED
    BY <1>2, <1>3, <1>4, <1>9, <2>1, SetRest
<1> QED
  BY <1>9, <1>10, <1>11, <1>12, <1>13 DEF Inductive, IInv

LEMMA SamplerInductive ==
  ASSUME Inductive, SamplerData,
         UNCHANGED <<clockVars, signalVars, netVars, sourceVars, storeVars>>
  PROVE  Inductive'
<1>1. /\ TypeOK /\ CountersMatch /\ SysidsUnique /\ FileTypes /\ RecordsNamed /\ TemplateLists /\ Places
  BY DEF Inductive, IInv
<1>2. (Quiet \/ Sampler) /\ main = "sets"
  BY <1>1, SamplerStep DEF storeVars
<1>3. NextSet /\ decoded' = decoded /\ dangling' = dangling
  BY DEF SamplerData
<1>4. /\ UNCHANGED <<exporter_count, exporter_sysid, archive, dynamic>> /\ main' = "sets"
  BY <1>2, <1>3 DEF NextSet, storeVars, sourceVars
<1>5. decoded' \in Nat /\ dangling' \in BOOLEAN /\ fs \in Sources /\ exporter \in DOMAIN exporter_data[fs]
  BY <1>1, <1>2, <1>3, AtSets DEF TypeOK
<1>6. CASE Quiet
  <2>1. SysidsUnique' /\ RecordsNamed' /\ TemplateLists' /\ FileTypes'
    BY <1>1, <1>6, QuietKeeps
  <2>2. CountersMatch'
    BY <1>1, <1>2, <1>4, <1>6, QuietCounts
  <2>3. \E e : Update(e)
    BY DEF SamplerData, InsertSampler
  <2>4. TypeOK' /\ Places' /\ Clock' /\ Fresh'
    <3>1. /\ exporter_data' \in [Sources -> Seq(Exporters)]
          /\ \A s \in Sources : DOMAIN exporter_data'[s] = DOMAIN exporter_data[s]
          /\ file' = file
      BY <1>6 DEF Quiet
    <3>2. \A s \in Sources : s # fs => exporter_data'[s] = exporter_data[s] /\ file'[s] = file[s]
      BY <1>1, <1>5, <2>3, <3>1 DEF Update, TypeOK
    <3>3. /\ setNo' \in Nat \ {0} /\ exporter' \in DOMAIN exporter_data'[fs]
          /\ exporter_count' \in [Sources -> Nat] /\ exporter_sysid' \in 0 .. MaxSysId
          /\ UNCHANGED packetVars
      BY <1>1, <1>2, <1>3, <1>5, <3>1 DEF NextSet, TypeOK, Places
    <3> QED
      BY <1>2, <1>4, <1>5, <3>1, <3>2, <3>3, DecodeRest
  <2> QED
    BY <2>1, <2>2, <2>4 DEF Inductive, IInv
<1>7. CASE Sampler
  <2>1. PICK new \in Exporters, r \in SamplerRecords :
        /\ Update(new)
        /\ new.key = TheExporter.key /\ new.sysid = TheExporter.sysid /\ new.flows = TheExporter.flows
        /\ Sound(new, TheExporter) /\ dangling' = dangling
        /\ AppendToBuffer(fs, r) /\ r.sysid = TheExporter.sysid
    BY <1>7 DEF Sampler
  <2>2. r \in FileRecords /\ r.kind # "flow"
    BY DEF FileRecords, SamplerRecords
  <2>3. FileTypes' /\ \A s \in Sources : file'[s] = IF s = fs THEN Append(file[fs], r) ELSE file[s]
    BY <1>1, <1>4, <1>5, <2>1, <2>2, AppendsOne
  <2>4. SysidsUnique' /\ TemplateLists'
    BY <1>1, <1>2, <1>4, <2>1, UpdateKeeps
  <2>5. RecordsNamed'
    <3>1. TheExporter.sysid <= exporter_sysid /\ exporter_sysid \in Nat
      BY <1>1, <1>5, IdsFacts DEF SysidsUnique, TheExporter
    <3> QED
      BY <1>1, <1>4, <1>5, <2>1, <2>2, <3>1, NamesOne
  <2>6. CountersMatch'
    BY <1>1, <1>2, <1>4, <2>1, <2>2, SamplerCounts
  <2>7. TypeOK' /\ Places' /\ Clock' /\ Fresh'
    BY <1>2, <1>3, <1>5, <2>1, <2>3, SetRest
  <2> QED
    BY <2>3, <2>4, <2>5, <2>6, <2>7 DEF Inductive, IInv
<1> QED
  BY <1>2, <1>6, <1>7

(* A source is added, or its first file cannot be opened.                  *)
LEMMA AddedSource ==
  ASSUME TypeOK, Places, AddDynamicSource
  PROVE  /\ main = "dispatch" /\ dynamic
         /\ packet.key[1] \in Sources
         /\ FlowSource' \in Seq(Sources)
         /\ ToSet(FlowSource') = ToSet(FlowSource) \cup {packet.key[1]}
         /\ exporter_count' \in [Sources -> Nat]
         /\ \A s \in Sources : exporter_count'[s] \in {0, exporter_count[s]}
<1>1. /\ main = "dispatch" /\ dynamic /\ FlowSource' = Append(FlowSource, packet.key[1])
      /\ exporter_count' = [exporter_count EXCEPT ![Head(FlowSource')] = 0]
  BY DEF AddDynamicSource
<1>2. packet.key[1] \in Sources
  <2>1. packet \in Packets
    BY <1>1 DEF Places
  <2> QED
    BY <2>1 DEF Packets, Keys, Sources
<1>3. FlowSource \in Seq(Sources) /\ exporter_count \in [Sources -> Nat]
  BY DEF TypeOK
<1> DEFINE a == packet.key[1]
           new == Append(FlowSource, a)
<1>4. /\ new \in Seq(Sources)
      /\ DOMAIN new = (DOMAIN FlowSource) \cup {Len(FlowSource) + 1}
      /\ \A i \in DOMAIN FlowSource : new[i] = FlowSource[i]
      /\ new[Len(FlowSource) + 1] = a
  BY <1>2, <1>3, SeqAppend
<1> HIDE DEF a, new
<1>5. ToSet(new) = ToSet(FlowSource) \cup {a}
  BY <1>4 DEF ToSet
<1>6. exporter_count' \in [Sources -> Nat] /\ \A s \in Sources : exporter_count'[s] \in {0, exporter_count[s]}
  BY <1>1, <1>3
<1> QED
  BY <1>1, <1>2, <1>4, <1>5, <1>6 DEF a, new

LEMMA AddInductive ==
  ASSUME Inductive, AddDynamicSource
  PROVE  Inductive'
<1>1. /\ TypeOK /\ CountersMatch /\ SysidsUnique /\ FileTypes /\ RecordsNamed /\ TemplateLists /\ Places /\ Clock
  BY DEF Inductive, IInv
<1>2. /\ main = "dispatch" /\ dynamic
      /\ packet.key[1] \in Sources
      /\ FlowSource' \in Seq(Sources)
      /\ ToSet(FlowSource') = ToSet(FlowSource) \cup {packet.key[1]}
      /\ exporter_count' \in [Sources -> Nat]
      /\ \A s \in Sources : exporter_count'[s] \in {0, exporter_count[s]}
  BY <1>1, AddedSource
<1>3. UNCHANGED <<exporter_data, exporter_sysid, decoded, dangling, packet, exporter, setNo, dynamic,
                  archive, clockVars, signalVars, netVars>>
  BY DEF AddDynamicSource
<1>4. \/ /\ main' = "packet" /\ fs' = packet.key[1] /\ received' = t_now
         /\ UNCHANGED <<faults, lost, file>>
      \/ /\ faults < MaxFaults /\ faults' = faults + 1 /\ main' = "exited"
         /\ lost' = lost \cup UNION {NumbersOf(file[s]) : s \in ToSet(FlowSource)}
         /\ file' = [s \in Sources |-> <<>>]
         /\ UNCHANGED <<fs, received>>
  BY DEF AddDynamicSource
<1>5. /\ main' \in {"packet", "exited"} /\ faults' \in 0 .. MaxFaults
      /\ fs' \in Sources \cup {None} /\ received' \in 0 .. MaxTime
  <2>1. /\ faults \in 0 .. MaxFaults /\ MaxFaults \in Nat
        /\ fs \in Sources \cup {None} /\ received \in 0 .. MaxTime /\ t_now \in 0 .. MaxTime
    BY <1>1, CollectorAssumption DEF TypeOK
  <2>2. faults < MaxFaults => faults + 1 \in 0 .. MaxFaults
    BY <2>1
  <2> QED
    BY <1>2, <1>4, <2>1, <2>2
<1>6. lost' \subseteq Nat
  <2>1. FlowSource \in Seq(Sources)
    BY <1>1 DEF TypeOK
  <2>2. ToSet(FlowSource) \subseteq Sources
    BY <2>1 DEF ToSet
  <2>3. \A s \in Sources : NumbersOf(file[s]) \subseteq Nat
    BY <1>1, NumbersTyped
  <2>4. lost \subseteq Nat
    BY <1>1 DEF TypeOK
  <2> QED
    BY <1>4, <2>2, <2>3, <2>4
<1>7. TypeOK'
  BY <1>1, <1>2, <1>3, <1>5, <1>6 DEF TypeOK, clockVars, signalVars, netVars
<1>8. \A s \in Sources : file'[s] \in {file[s], <<>>}
  BY <1>4
<1>9. FileTypes'
  <2>1. file \in [Sources -> Seq(FileRecords)] /\ <<>> \in Seq(FileRecords)
    BY <1>1 DEF FileTypes
  <2>2. file' \in [Sources -> Seq(FileRecords)]
    BY <1>4, <2>1
  <2> QED
    BY <1>1, <1>3, <2>2 DEF FileTypes
<1>10. RecordsNamed'
  <2> SUFFICES ASSUME NEW s \in Sources, NEW records \in Files(s)' PROVE Named(records)
    BY <1>3 DEF RecordsNamed, Named
  <2>1. records \in Files(s) \/ records = <<>>
    BY <1>3, <1>8 DEF Files
  <2>2. Named(<<>>)
    BY DEF Named
  <2> QED
    BY <1>1, <2>1, <2>2 DEF RecordsNamed
<1>11. SysidsUnique' /\ TemplateLists'
  BY <1>1, <1>3 DEF SysidsUnique, TemplateLists
<1>12. CountersMatch'
  <2>1. \A s \in Sources : exporter_count'[s] <= Len(exporter_data'[s])
    <3> SUFFICES ASSUME NEW s \in Sources PROVE exporter_count'[s] <= Len(exporter_data'[s])
      OBVIOUS
    <3>1. exporter_count[s] <= Len(exporter_data[s])
      BY <1>1 DEF CountersMatch
    <3>2. exporter_data[s] \in Seq(Exporters)
      BY <1>1 DEF TypeOK
    <3>3. Len(exporter_data[s]) \in Nat
      BY <3>2
    <3> QED
      BY <1>2, <1>3, <3>1, <3>3
  <2> QED
    BY <1>2, <1>3, <2>1 DEF CountersMatch
<1>13. Fresh' /\ Clock'
  BY <1>1, <1>3, <1>5 DEF Fresh, Clock, clockVars
<1>14. Places'
  <2>1. \A s \in Sources \ ToSet(FlowSource') : exporter_data'[s] = <<>> /\ file'[s] = <<>>
    BY <1>1, <1>2, <1>3, <1>8 DEF Places
  <2>2. packet \in Packets
    BY <1>1, <1>2 DEF Places
  <2> QED
    BY <1>2, <1>3, <1>4, <2>1, <2>2 DEF Places, clockVars
<1> QED
  BY <1>7, <1>9, <1>10, <1>11, <1>12, <1>13, <1>14 DEF Inductive, IInv

(* nfcapd dies, and what it has of the open files is lost.                 *)
LEMMA PerishInductive ==
  ASSUME Inductive, Perish
  PROVE  Inductive'
<1>1. /\ TypeOK /\ CountersMatch /\ SysidsUnique /\ FileTypes /\ RecordsNamed /\ TemplateLists /\ Places /\ Clock
  BY DEF Inductive, IInv
<1>2. /\ main = "sets" /\ main' = "dead"
      /\ lost' = lost \cup UNION {NumbersOf(file[s]) : s \in ToSet(FlowSource)}
      /\ file' = [s \in Sources |-> <<>>]
      /\ UNCHANGED <<exporter_data, exporter_count, exporter_sysid, decoded, dangling, packetVars,
                     exporter, setNo, clockVars, signalVars, netVars, sourceVars, archive, faults>>
  BY DEF Perish
<1>3. lost' \subseteq Nat
  <2>1. FlowSource \in Seq(Sources)
    BY <1>1 DEF TypeOK
  <2>2. ToSet(FlowSource) \subseteq Sources
    BY <2>1 DEF ToSet
  <2>3. \A s \in Sources : NumbersOf(file[s]) \subseteq Nat
    BY <1>1, NumbersTyped
  <2>4. lost \subseteq Nat
    BY <1>1 DEF TypeOK
  <2> QED
    BY <1>2, <2>2, <2>3, <2>4
<1>4. TypeOK'
  BY <1>1, <1>2, <1>3 DEF TypeOK, packetVars, clockVars, signalVars, netVars, sourceVars
<1>5. \A s \in Sources : file'[s] = <<>>
  BY <1>2
<1>6. FileTypes'
  <2>1. <<>> \in Seq(FileRecords)
    OBVIOUS
  <2>2. file' \in [Sources -> Seq(FileRecords)]
    BY <1>2, <2>1
  <2> QED
    BY <1>1, <1>2, <2>2 DEF FileTypes
<1>7. RecordsNamed'
  <2> SUFFICES ASSUME NEW s \in Sources, NEW records \in Files(s)' PROVE Named(records)
    BY <1>2 DEF RecordsNamed, Named
  <2>1. records \in Files(s) \/ records = <<>>
    BY <1>2, <1>5 DEF Files
  <2>2. Named(<<>>)
    BY DEF Named
  <2> QED
    BY <1>1, <2>1, <2>2 DEF RecordsNamed
<1>8. SysidsUnique' /\ TemplateLists'
  BY <1>1, <1>2 DEF SysidsUnique, TemplateLists
<1>9. CountersMatch'
  BY <1>1, <1>2 DEF CountersMatch
<1>10. Fresh' /\ Clock'
  BY <1>1, <1>2 DEF Fresh, Clock, clockVars, signalVars
<1>11. Places'
  BY <1>1, <1>2, <1>5 DEF Places, sourceVars
<1> QED
  BY <1>4, <1>6, <1>7, <1>8, <1>9, <1>10, <1>11 DEF Inductive, IInv

LEMMA RotateInductive ==
  ASSUME Inductive, RotateFlowFiles
  PROVE  Inductive'
<1>1. TypeOK
  BY DEF Inductive, IInv
<1>2. PICK rotated, opened, badRename : Rotation(rotated, opened, badRename)
  BY <1>1, RotateFacts
<1> QED
  BY <1>2, RotationKeeps

-------------------------------------------------------------------------------
(* What the collector keeps of its exporters                               *)

LEMMA InitInductive ==
  ASSUME Init
  PROVE  Inductive
<1>1. /\ exporter_data = [s \in Sources |-> <<>>]
      /\ exporter_count = [s \in Sources |-> 0]
      /\ exporter_sysid = 0
      /\ file = [s \in Sources |-> <<>>]
      /\ received = 0 /\ decoded = 0 /\ dangling = FALSE
      /\ main = "top" /\ fs = None /\ packet = None /\ exporter = 0 /\ setNo = 1
      /\ now = 0 /\ t_start = 0 /\ t_now = 0 /\ alarm = Twin + 1
      /\ done = FALSE /\ missed = {} /\ socket = <<>>
      /\ archive = [s \in Sources |-> <<>>] /\ lost = {} /\ faults = 0
  BY DEF Init
<1>2. PICK setup \in Setups : FlowSource = setup.sources /\ stream = setup.stream
  BY DEF Init
<1>3. FlowSource \in Seq(Sources) /\ stream \in Seq(Packets)
  <2>1. setup \in [sources : Seq(Sources), stream : Seq(Packets)]
    BY CollectorAssumption
  <2> QED
    BY <1>2, <2>1
<1>4. TypeOK
  <2>1. /\ <<>> \in Seq(Exporters) /\ <<>> \in Seq(Packets) /\ Len(<<>>) = 0
        /\ 0 \in 0 .. MaxSysId /\ 0 \in 0 .. MaxTime /\ 0 \in 0 .. MaxFaults
        /\ Twin + 1 \in Nat /\ 0 <= SocketSize
    BY ClockFacts, ExportersAssumption
  <2>2. dynamic \in BOOLEAN
    BY DEF Init
  <2> QED
    BY <1>1, <1>3, <2>1, <2>2 DEF TypeOK
<1>5. \A s \in Sources : exporter_data[s] = <<>> /\ exporter_count[s] = 0 /\ file[s] = <<>> /\ archive[s] = <<>>
  BY <1>1
<1>6. CountersMatch
  <2>1. Len(<<>>) = 0 /\ DOMAIN <<>> = {}
    OBVIOUS
  <2> QED
    BY <1>5, <2>1 DEF CountersMatch
<1>7. SysidsUnique /\ TemplateLists
  BY <1>5 DEF SysidsUnique, TemplateLists
<1>8. FileTypes
  <2>1. <<>> \in Seq(FileRecords) /\ <<>> \in Seq(Archived)
    OBVIOUS
  <2> QED
    BY <1>1, <2>1 DEF FileTypes
<1>9. Places /\ Clock /\ Fresh
  BY <1>1, <1>5 DEF Places, Clock, Fresh
<1>10. RecordsNamed
  <2>1. \A s \in Sources : Files(s) = {<<>>}
    BY <1>5 DEF Files
  <2> QED
    BY <2>1 DEF RecordsNamed, Named
<1> QED
  BY <1>4, <1>6, <1>7, <1>8, <1>9, <1>10 DEF Inductive, IInv

LEMMA NextInductive ==
  ASSUME Inductive, [Next]_vars
  PROVE  Inductive'
<1>1. CASE Tick
  BY <1>1, TickInductive
<1>2. CASE Term
  BY <1>2, TermInductive
<1>3. CASE Arrive
  BY <1>3, ArriveInductive
<1>4. CASE Top \/ Call \/ Receive
  BY <1>4, WaitInductive
<1>5. CASE CheckSlot
  BY <1>5, CheckSlotInductive
<1>6. CASE RotateFlowFiles
  BY <1>6, RotateInductive
<1>7. CASE NextSlot
  BY <1>7, NextSlotInductive
<1>8. CASE Dispatch
  BY <1>8, DispatchInductive
<1>9. CASE AddDynamicSource
  BY <1>9, AddInductive
<1>10. CASE Process
  <2>1. Decode /\ UNCHANGED <<clockVars, signalVars, netVars, sourceVars, storeVars>>
    BY <1>10 DEF Process
  <2> QED
    BY <2>1, OpenPacketInductive, TemplateInductive, FlowInductive, SamplerInductive, PacketDoneInductive
       DEF Decode, TemplateSets
<1>11. CASE Perish
  BY <1>11, PerishInductive
<1>12. CASE UNCHANGED vars
  <2>1. TypeOK' /\ Places' /\ Clock'
    <3>1. TypeOK /\ Places /\ Clock
      BY DEF Inductive, IInv
    <3> QED
      BY <1>12, <3>1 DEF TypeOK, Places, Clock, vars, decodeVars, exporterVars, packetVars,
                         clockVars, signalVars, netVars, sourceVars, storeVars
  <2>2. UNCHANGED <<exporterVars, archive, lost, faults, dynamic>> /\ main' = main /\ done' = done
    BY <1>12 DEF vars, decodeVars, exporterVars, signalVars, sourceVars, storeVars
  <2> QED
    BY <2>1, <2>2, StillInductive
<1> QED
  BY <1>1, <1>2, <1>3, <1>4, <1>5, <1>6, <1>7, <1>8, <1>9, <1>10, <1>11, <1>12 DEF Next, Loop

(* In every reachable state the tables of the exporters are consistent:    *)
(* one entry and one id per exporter over all sources, lists of templates  *)
(* without doubles and counters that are those of the file, through slots, *)
(* new sources, signals and failing calls (getExporter, AssignExporterID,  *)
(* FlushExporterStats, RotateFlowFiles).                                   *)
THEOREM CollectorInductive == Spec => []Inductive
<1>1. Init => Inductive
  BY InitInductive
<1>2. Inductive /\ [Next]_vars => Inductive'
  BY NextInductive
<1> QED
  BY <1>1, <1>2, PTL DEF Spec

(* The exporters of a source are told apart, their ids are unique and      *)
(* their counters are those of the current file (getExporter,              *)
(* AssignExporterID, FlushExporterStats).                                  *)
THEOREM CollectorConsistent == Spec => []IInv
<1>1. Inductive => IInv
  BY DEF Inductive
<1> QED
  BY <1>1, CollectorInductive, PTL

(* Up to the first withdrawal of all templates, which frees them and       *)
(* leaves them in the list (removeAllTemplates), an id means what the      *)
(* router last announced for it, whether it is looked up in the list or in *)
(* the cache of the last template, and templates may be replaced or        *)
(* withdrawn one by one (newTemplate, removeTemplate, getTemplate).        *)
THEOREM CollectorTemplates == Spec => []TemplatesAsAnnounced
<1>1. Inductive => TemplatesAsAnnounced
  <2> SUFFICES ASSUME Inductive PROVE TemplatesAsAnnounced
    OBVIOUS
  <2>1. TypeOK /\ TemplateLists
    BY DEF Inductive, IInv
  <2> SUFFICES ASSUME ~dangling,
                      NEW s \in Sources, NEW e \in ToSet(exporter_data[s]), NEW id \in TemplateIds
               PROVE  IF GetTemplate(e, id) = None THEN e.announced[id] = None
                                                   ELSE e.announced[id] = GetTemplate(e, id).layout
    BY DEF TemplatesAsAnnounced
  <2>2. PICK i \in DOMAIN exporter_data[s] : e = exporter_data[s][i]
    BY DEF ToSet
  <2>3. exporter_data[s] \in Seq(Exporters)
    BY <2>1 DEF TypeOK
  <2>4. e \in Exporters /\ TemplatesOK(e)
    BY <2>1, <2>2, <2>3 DEF TemplateLists
  <2> QED
    BY <2>4, ListGivesAnnounced
<1> QED
  BY <1>1, CollectorInductive, PTL

-------------------------------------------------------------------------------
(* Every step of the collector, by what it does to the files               *)

(* The files and the exporters with their samplers stay.                   *)
Calm ==
    /\ exporter_data' \in [Sources -> Seq(Exporters)]
    /\ \A s \in Sources : /\ DOMAIN exporter_data'[s] = DOMAIN exporter_data[s]
                          /\ \A i \in DOMAIN exporter_data[s] : Alike(exporter_data'[s][i], exporter_data[s][i])
    /\ UNCHANGED <<file, decoded, archive, lost, faults>>

(* ... and a file that is closed is not opened again.                      *)
Still ==
    /\ Calm
    /\ t_start' = t_start
    /\ main \in {"rotated", "exited", "dead"} <=> main' \in {"rotated", "exited", "dead"}
    /\ Open' => Open
    /\ Spared' => Spared

(* The next slot begins.                                                   *)
GoesOn ==
    /\ Calm
    /\ main = "rotated" /\ ~done /\ main' \in {"top", "dispatch"}
    /\ t_start' = t_start + Twin

(* A record is put at the end of a file.                                   *)
Records ==
    /\ main \in {"packet", "sets"} /\ main' = "sets"
    /\ (main = "packet" /\ Newcomer) \/ (main = "sets" /\ (Flow \/ Sampler))
    /\ exporter_data' \in [Sources -> Seq(Exporters)]
    /\ UNCHANGED <<t_start, done, archive, lost, faults>>

(* OpenNewFile fails for a new source, or nfcapd dies of freed templates.  *)
Stops ==
    /\ main' \in {"exited", "dead"}
    /\ faults' = faults + 1 \/ main' = "dead"
    /\ lost' = lost \cup UNION {NumbersOf(file[s]) : s \in ToSet(FlowSource)}
    /\ file' = [s \in Sources |-> <<>>]
    /\ UNCHANGED <<exporter_data, decoded, archive, t_start>>

LEMMA StaysCalm ==
  ASSUME TypeOK, Quiet \/ UNCHANGED <<exporter_data, file, decoded, archive, lost, faults>>
  PROVE  Calm
<1>1. CASE Quiet
  BY <1>1 DEF Quiet, Calm
<1>2. CASE UNCHANGED <<exporter_data, file, decoded, archive, lost, faults>>
  BY <1>2, AlikeItself DEF TypeOK, Calm
<1> QED
  BY <1>1, <1>2

LEMMA StillWaits ==
  ASSUME Inductive, Tick \/ Term \/ Arrive \/ Top \/ Call \/ Receive
  PROVE  Still /\ dynamic' = dynamic
<1>1. TypeOK
  BY DEF Inductive, IInv
<1>2. /\ UNCHANGED <<exporterVars, archive, lost, faults, t_start, dynamic>>
      /\ main' = main \/ (main \in {"top", "call", "recv"} /\ main' \in {"call", "recv", "check"})
      /\ done => done'
  <2>1. CASE Tick
    BY <2>1 DEF Tick, Deliver, netVars, sourceVars, storeVars, exporterVars
  <2>2. CASE Term
    BY <2>2 DEF Term, Deliver, netVars, sourceVars, storeVars, clockVars, exporterVars
  <2>3. CASE Arrive
    BY <2>3 DEF Arrive, decodeVars, sourceVars, storeVars, clockVars, signalVars, exporterVars
  <2>4. CASE Top
    BY <2>4 DEF Top, decodeVars, sourceVars, storeVars, clockVars, signalVars, exporterVars
  <2>5. CASE Call
    BY <2>5 DEF Call, decodeVars, sourceVars, storeVars, clockVars, signalVars, exporterVars
  <2>6. CASE Receive
    BY <2>6 DEF Receive, sourceVars, storeVars, clockVars, signalVars, exporterVars
  <2> QED
    BY <2>1, <2>2, <2>3, <2>4, <2>5, <2>6
<1>3. Calm
  BY <1>1, <1>2, StaysCalm DEF exporterVars
<1> QED
  BY <1>2, <1>3 DEF Still, Open, Spared

LEMMA StillInSlot ==
  ASSUME Inductive, CheckSlot \/ Dispatch \/ (PacketDone /\ UNCHANGED <<clockVars, signalVars, netVars, sourceVars, storeVars>>)
  PROVE  Still /\ dynamic' = dynamic
<1>1. TypeOK
  BY DEF Inductive, IInv
<1>2. /\ UNCHANGED <<exporterVars, archive, lost, faults, t_start, dynamic, done>>
      /\ main \in {"check", "dispatch", "sets"} /\ main' \in {"rotate", "top", "dispatch", "packet"}
  <2>1. CASE CheckSlot
    BY <2>1 DEF CheckSlot, netVars, sourceVars, storeVars, signalVars, decodeVars, exporterVars
  <2>2. CASE Dispatch
    BY <2>2 DEF Dispatch, netVars, sourceVars, storeVars, clockVars, signalVars, exporterVars
  <2>3. CASE PacketDone /\ UNCHANGED <<clockVars, signalVars, netVars, sourceVars, storeVars>>
    BY <2>3 DEF PacketDone, sourceVars, storeVars, clockVars, signalVars, exporterVars
  <2> QED
    BY <2>1, <2>2, <2>3
<1>3. Calm
  BY <1>1, <1>2, StaysCalm DEF exporterVars
<1> QED
  BY <1>2, <1>3 DEF Still, Open, Spared

LEMMA SlotEnds ==
  ASSUME Inductive, NextSlot
  PROVE  (Still \/ GoesOn) /\ dynamic' = dynamic
<1>1. TypeOK
  BY DEF Inductive, IInv
<1>2. /\ UNCHANGED <<exporterVars, archive, lost, faults, dynamic, done>>
      /\ main = "rotated"
  BY DEF NextSlot, netVars, sourceVars, storeVars, decodeVars, exporterVars
<1>3. Calm
  BY <1>1, <1>2, StaysCalm DEF exporterVars
<1>4. CASE done
  BY <1>2, <1>3, <1>4 DEF NextSlot, Still, Open, Spared
<1>5. CASE ~done
  BY <1>2, <1>3, <1>5 DEF NextSlot, GoesOn
<1> QED
  BY <1>4, <1>5

LEMMA DecodeSteps ==
  ASSUME Inductive, Decode, UNCHANGED <<clockVars, signalVars, netVars, sourceVars, storeVars>>
  PROVE  Still \/ Records
<1>1. TypeOK /\ FileTypes /\ Places
  BY DEF Inductive, IInv
<1>2. Inductive'
  BY OpenPacketInductive, TemplateInductive, FlowInductive, SamplerInductive, PacketDoneInductive
     DEF Decode, TemplateSets
<1>3. exporter_data' \in [Sources -> Seq(Exporters)]
  BY <1>2 DEF Inductive, IInv, TypeOK
<1>4. UNCHANGED <<t_start, done, archive, lost, faults>>
  BY DEF clockVars, signalVars, storeVars
<1>5. ASSUME Quiet, main \in {"packet", "sets"}, main' = "sets" PROVE Still
  BY <1>1, <1>4, <1>5, StaysCalm DEF Still, Open, Spared
<1>6. CASE OpenPacket
  <2>1. (Quiet \/ Newcomer) /\ main = "packet" /\ main' = "sets"
    BY <1>1, <1>4, <1>6, OpenPacketStep
  <2> QED
    BY <1>3, <1>4, <1>5, <2>1 DEF Records
<1>7. CASE TemplateSets
  <2>1. Quiet
    BY <1>1, <1>4, <1>7, TemplateStep
  <2>2. main = "sets" /\ main' = "sets"
    BY <1>7 DEF TemplateSets, DataTemplate, OptionTemplate, WithdrawTemplate, WithdrawAllTemplates, UnknownData, AtSet,
                NextSet
  <2> QED
    BY <1>5, <2>1, <2>2
<1>8. CASE FlowData
  <2>1. Flow /\ main = "sets"
    BY <1>1, <1>8, FlowStep
  <2>2. main' = "sets"
    BY <1>8, <2>1 DEF FlowData, NextSet
  <2> QED
    BY <1>3, <1>4, <2>1, <2>2 DEF Records
<1>9. CASE SamplerData
  <2>1. (Quiet \/ Sampler) /\ main = "sets"
    BY <1>1, <1>4, <1>9, SamplerStep
  <2>2. main' = "sets"
    BY <1>9, <2>1 DEF SamplerData, NextSet
  <2> QED
    BY <1>3, <1>4, <1>5, <2>1, <2>2 DEF Records
<1>10. CASE PacketDone
  BY <1>10, StillInSlot
<1> QED
  BY <1>6, <1>7, <1>8, <1>9, <1>10 DEF Decode, TemplateSets

LEMMA Steps ==
  ASSUME Inductive, [Next]_vars
  PROVE  /\ \/ Still \/ GoesOn \/ Records \/ Stops
            \/ \E rotated, opened, badRename : Rotation(rotated, opened, badRename)
         /\ dynamic' = dynamic
<1>1. TypeOK
  BY DEF Inductive, IInv
<1>2. CASE Tick \/ Term \/ Arrive \/ Top \/ Call \/ Receive
  BY <1>2, StillWaits
<1>3. CASE CheckSlot \/ Dispatch
  BY <1>3, StillInSlot
<1>4. CASE NextSlot
  BY <1>4, SlotEnds
<1>5. CASE RotateFlowFiles
  <2>1. dynamic' = dynamic
    BY <1>5 DEF RotateFlowFiles, sourceVars
  <2> QED
    BY <1>1, <1>5, <2>1, RotateFacts
<1>6. CASE AddDynamicSource
  <2>1. /\ main = "dispatch" /\ dynamic /\ dynamic' = dynamic
        /\ UNCHANGED <<exporter_data, exporter_sysid, decoded, archive, t_start, done>>
    BY <1>6 DEF AddDynamicSource, clockVars, signalVars
  <2>2. \/ main' = "packet" /\ UNCHANGED <<faults, lost, file>>
        \/ Stops
    BY <1>6, <2>1 DEF AddDynamicSource, Stops
  <2>3. ASSUME main' = "packet", UNCHANGED <<faults, lost, file>> PROVE Still
    BY <1>1, <2>1, <2>3, StaysCalm DEF Still, Open, Spared
  <2> QED
    BY <2>1, <2>2, <2>3
<1>7. CASE Process
  <2>1. Decode /\ UNCHANGED <<clockVars, signalVars, netVars, sourceVars, storeVars>>
    BY <1>7 DEF Process
  <2>2. dynamic' = dynamic
    BY <2>1 DEF sourceVars
  <2> QED
    BY <2>1, <2>2, DecodeSteps
<1>8. CASE Perish
  BY <1>8 DEF Perish, Stops, clockVars, sourceVars
<1>9. CASE UNCHANGED vars
  <2>1. UNCHANGED <<exporterVars, archive, lost, faults, t_start, dynamic, main, done>>
    BY <1>9 DEF vars, decodeVars, clockVars, sourceVars, storeVars, signalVars
  <2>2. Calm
    BY <1>1, <2>1, StaysCalm DEF exporterVars
  <2> QED
    BY <2>1, <2>2 DEF Still, Open, Spared
<1> QED
  BY <1>2, <1>3, <1>4, <1>5, <1>6, <1>7, <1>8, <1>9 DEF Next, Loop

-------------------------------------------------------------------------------
(* Every flow is in one place                                              *)

SameFlows(old, new) ==
    FlowsIn(new) = FlowsIn(old) /\ \A i \in FlowsIn(old) : new[i] = old[i]

LEMMA SameFlowsFacts ==
  ASSUME NEW old, NEW new, SameFlows(old, new)
  PROVE  /\ NumbersOf(new) = NumbersOf(old)
         /\ Distinct(old) => Distinct(new)
<1>1. \A n : n \in NumbersOf(new) <=> n \in NumbersOf(old)
  BY NumbersAt DEF SameFlows
<1>2. NumbersOf(new) = NumbersOf(old)
  BY <1>1
<1>3. Distinct(old) => Distinct(new)
  BY DEF SameFlows, Distinct
<1> QED
  BY <1>2, <1>3

LEMMA SameFlowsAppended ==
  ASSUME NEW records \in Seq(FileRecords), NEW r \in FileRecords, r.kind # "flow"
  PROVE  SameFlows(records, Append(records, r))
<1>1. FlowsIn(Append(records, r)) = FlowsIn(records)
  BY AppendOther
<1>2. \A i \in DOMAIN records : Append(records, r)[i] = records[i]
  BY SeqAppend
<1> QED
  BY <1>1, <1>2 DEF SameFlows, FlowsIn

LEMMA Place ==
  ASSUME FileTypes, NEW p
  PROVE  /\ p \in Stores <=> \E s \in Sources : \E i \in 0 .. Len(archive[s]) : p = <<s, i>>
         /\ \A s \in Sources : <<s, 0>> \in Stores /\ Content(<<s, 0>>) = file[s]
         /\ \A s \in Sources : Len(archive[s]) \in Nat /\ DOMAIN archive[s] = 1 .. Len(archive[s])
         /\ \A s \in Sources : \A i \in DOMAIN archive[s] :
               <<s, i>> \in Stores /\ Content(<<s, i>>) = archive[s][i].records
<1>1. \A s \in Sources : archive[s] \in Seq(Archived)
  BY DEF FileTypes
<1>2. \A s \in Sources : Len(archive[s]) \in Nat /\ DOMAIN archive[s] = 1 .. Len(archive[s])
  BY <1>1
<1>3. p \in Stores <=> \E s \in Sources : \E i \in 0 .. Len(archive[s]) : p = <<s, i>>
  BY DEF Stores
<1>4. \A s \in Sources : <<s, 0>> \in Stores /\ Content(<<s, 0>>) = file[s]
  BY <1>2 DEF Stores, Content
<1>5. \A s \in Sources : \A i \in DOMAIN archive[s] :
         <<s, i>> \in Stores /\ Content(<<s, i>>) = archive[s][i].records
  BY <1>2 DEF Stores, Content
<1> QED
  BY <1>2, <1>3, <1>4, <1>5

(* Flows stay where they are, move to a place of their own or are dropped. *)
LEMMA PlacesMoved ==
  ASSUME InOnePlace, NEW dropped \in SUBSET Stores, NEW old,
         decoded' = decoded,
         lost' = lost \cup UNION {NumbersOf(Content(p)) : p \in dropped},
         Spared' => Spared /\ dropped = {},
         \A p \in Stores' : \/ NumbersOf(Content(p)') = {} /\ Distinct(Content(p)')
                            \/ /\ old[p] \in Stores \ dropped
                               /\ SameFlows(Content(old[p]), Content(p)'),
         \A p, q \in Stores' :
            NumbersOf(Content(p)') # {} /\ NumbersOf(Content(q)') # {} /\ old[p] = old[q] => p = q,
         \A p \in Stores \ dropped : NumbersOf(Content(p)) # {} =>
            \E q \in Stores' : NumbersOf(Content(q)') = NumbersOf(Content(p))
  PROVE  InOnePlace'
<1> DEFINE N(p) == NumbersOf(Content(p))
           M(p) == NumbersOf(Content(p)')
<1>1. \A p \in Stores' : M(p) # {} => old[p] \in Stores \ dropped /\ M(p) = N(old[p])
  BY SameFlowsFacts
<1>2. \A p \in Stores' : Distinct(Content(p)')
  <2> SUFFICES ASSUME NEW p \in Stores' PROVE Distinct(Content(p)')
    OBVIOUS
  <2>1. CASE NumbersOf(Content(p)') = {} /\ Distinct(Content(p)')
    BY <2>1
  <2>2. CASE old[p] \in Stores \ dropped /\ SameFlows(Content(old[p]), Content(p)')
    <3>1. Distinct(Content(old[p]))
      BY <2>2 DEF InOnePlace
    <3> QED
      BY <2>2, <3>1, SameFlowsFacts
  <2> QED
    BY <2>1, <2>2
<1>3. /\ \A p \in Stores : N(p) \subseteq 1 .. decoded \ lost
      /\ \A n \in 1 .. decoded \ lost : \E p \in Stores : n \in N(p)
      /\ \A p, q \in Stores : N(p) \cap N(q) # {} => p = q
      /\ lost \subseteq 1 .. decoded
      /\ Spared => lost = {}
  BY DEF InOnePlace
<1>4. lost' = lost \cup UNION {N(p) : p \in dropped}
  OBVIOUS
<1> HIDE DEF N, M
<1>5. \A p \in Stores' : M(p) \subseteq 1 .. decoded \ lost'
  <2> SUFFICES ASSUME NEW p \in Stores', NEW n \in M(p) PROVE n \in 1 .. decoded \ lost'
    OBVIOUS
  <2>1. old[p] \in Stores \ dropped /\ n \in N(old[p])
    BY <1>1
  <2>2. n \in 1 .. decoded \ lost
    BY <1>3, <2>1
  <2>3. ASSUME NEW q \in dropped, n \in N(q) PROVE FALSE
    BY <1>3, <2>1, <2>3
  <2> QED
    BY <1>4, <2>2, <2>3
<1>6. \A n \in 1 .. decoded \ lost' : \E p \in Stores' : n \in M(p)
  <2> SUFFICES ASSUME NEW n \in 1 .. decoded \ lost' PROVE \E p \in Stores' : n \in M(p)
    OBVIOUS
  <2>1. PICK p \in Stores : n \in N(p)
    BY <1>3, <1>4
  <2>2. p \notin dropped
    BY <1>4, <2>1
  <2>3. \E q \in Stores' : M(q) = N(p)
    BY <2>1, <2>2 DEF N, M
  <2> QED
    BY <2>1, <2>3
<1>7. \A p, q \in Stores' : M(p) \cap M(q) # {} => p = q
  <2> SUFFICES ASSUME NEW p \in Stores', NEW q \in Stores', M(p) \cap M(q) # {} PROVE p = q
    OBVIOUS
  <2>1. M(p) = N(old[p]) /\ M(q) = N(old[q]) /\ old[p] \in Stores /\ old[q] \in Stores
    BY <1>1
  <2>2. old[p] = old[q]
    BY <1>3, <2>1
  <2> QED
    BY <2>2 DEF M
<1>8. lost' \subseteq 1 .. decoded
  <2> SUFFICES ASSUME NEW n \in lost' PROVE n \in 1 .. decoded
    OBVIOUS
  <2>1. n \in lost \/ \E p \in dropped : n \in N(p)
    BY <1>4
  <2>2. dropped \subseteq Stores
    OBVIOUS
  <2> QED
    BY <1>3, <2>1, <2>2
<1>9. Spared' => lost' = {}
  <2> SUFFICES ASSUME Spared' PROVE lost' = {}
    OBVIOUS
  <2>1. dropped = {} /\ lost = {}
    BY <1>3
  <2>2. UNION {N(p) : p \in dropped} = {}
    BY <2>1
  <2> QED
    BY <1>4, <2>1, <2>2
<1> QED
  BY <1>2, <1>5, <1>6, <1>7, <1>8, <1>9 DEF InOnePlace, M

LEMMA StillInPlace ==
  ASSUME InOnePlace, UNCHANGED <<file, archive, decoded, lost>>, Spared' => Spared
  PROVE  InOnePlace'
<1>1. Stores' = Stores
  BY DEF Stores
<1>2. \A p : Content(p)' = Content(p)
  BY DEF Content
<1> QED
  BY <1>1, <1>2 DEF InOnePlace

LEMMA OtherInPlace ==
  ASSUME FileTypes, InOnePlace, fs \in Sources, NEW r \in FileRecords, r.kind # "flow",
         AppendToBuffer(fs, r), UNCHANGED <<archive, decoded, lost>>, Spared' => Spared
  PROVE  InOnePlace'
<1>1. Stores' = Stores
  BY DEF Stores
<1>2. \A s \in Sources : file'[s] = IF s = fs THEN Append(file[fs], r) ELSE file[s]
  BY AppendsOne
<1>3. \A s \in Sources : SameFlows(file[s], file'[s])
  <2> SUFFICES ASSUME NEW s \in Sources PROVE SameFlows(file[s], file'[s])
    OBVIOUS
  <2>1. CASE s = fs
    <3>1. file[fs] \in Seq(FileRecords)
      BY DEF FileTypes
    <3>2. SameFlows(file[fs], Append(file[fs], r))
      BY <3>1, SameFlowsAppended
    <3> QED
      BY <1>2, <2>1, <3>2
  <2>2. CASE s # fs
    <3>1. file'[s] = file[s]
      BY <1>2, <2>2
    <3> QED
      BY <3>1 DEF SameFlows
  <2> QED
    BY <2>1, <2>2
<1>4. \A p \in Stores : SameFlows(Content(p), Content(p)')
  <2> SUFFICES ASSUME NEW p \in Stores PROVE SameFlows(Content(p), Content(p)')
    OBVIOUS
  <2>1. PICK s \in Sources : \E i \in 0 .. Len(archive[s]) : p = <<s, i>>
    BY Place
  <2>2. CASE p[2] = 0
    BY <1>3, <2>1, <2>2 DEF Content
  <2>3. CASE p[2] # 0
    BY <2>3 DEF Content, SameFlows
  <2> QED
    BY <2>2, <2>3
<1>5. PICK old : old = [p \in Stores |-> p]
  OBVIOUS
<1>6. \A p \in Stores : old[p] = p
  BY <1>5
<1>7. \A p \in Stores \ {} : NumbersOf(Content(p)) # {} =>
         \E q \in Stores' : NumbersOf(Content(q)') = NumbersOf(Content(p))
  BY <1>1, <1>4, SameFlowsFacts
<1>8. \A p \in Stores' : old[p] \in Stores \ {} /\ SameFlows(Content(old[p]), Content(p)')
  BY <1>1, <1>4, <1>6
<1>9. PICK dropped \in SUBSET Stores : dropped = {}
  OBVIOUS
<1>10. lost' = lost \cup UNION {NumbersOf(Content(p)) : p \in dropped}
  BY <1>9
<1> QED
  BY <1>1, <1>6, <1>7, <1>8, <1>9, <1>10, PlacesMoved

LEMMA FlowInPlace ==
  ASSUME TypeOK, FileTypes, InOnePlace, fs \in Sources,
         NEW r \in FileRecords, r.kind = "flow", r.number = decoded + 1,
         AppendToBuffer(fs, r), decoded' = decoded + 1, UNCHANGED <<archive, lost>>,
         Spared' => Spared
  PROVE  InOnePlace'
<1>0. decoded \in Nat
  BY DEF TypeOK
<1>1. Stores' = Stores
  BY DEF Stores
<1>2. \A s \in Sources : file'[s] = IF s = fs THEN Append(file[fs], r) ELSE file[s]
  BY AppendsOne
<1>a. PICK here : here = <<fs, 0>>
  OBVIOUS
<1>3. here \in Stores /\ Content(here) = file[fs] /\ Content(here)' = Append(file[fs], r)
  <2>1. here \in Stores /\ Content(here) = file[fs]
    BY <1>a, Place
  <2>2. Content(here)' = file'[fs]
    <3>1. here[1] = fs /\ here[2] = 0
      BY <1>a
    <3> QED
      BY <3>1 DEF Content
  <2> QED
    BY <1>2, <2>1, <2>2
<1>4. \A p \in Stores : p # here => Content(p)' = Content(p)
  <2> SUFFICES ASSUME NEW p \in Stores, p # here PROVE Content(p)' = Content(p)
    OBVIOUS
  <2>1. PICK s \in Sources : \E i \in 0 .. Len(archive[s]) : p = <<s, i>>
    BY Place
  <2>2. CASE p[2] = 0
    BY <1>a, <1>2, <2>1, <2>2 DEF Content
  <2>3. CASE p[2] # 0
    BY <2>3 DEF Content
  <2> QED
    BY <2>2, <2>3
<1>5. file[fs] \in Seq(FileRecords)
  BY DEF FileTypes
<1>6. NumbersOf(Content(here)') = NumbersOf(Content(here)) \cup {decoded + 1}
  BY <1>3, <1>5, AppendFlow
<1>7. Distinct(Content(here)')
  <2>1. FlowsIn(Append(file[fs], r)) = FlowsIn(file[fs]) \cup {Len(file[fs]) + 1}
    BY <1>5, AppendFlow
  <2>2. /\ \A i \in FlowsIn(file[fs]) : Append(file[fs], r)[i] = file[fs][i]
        /\ Append(file[fs], r)[Len(file[fs]) + 1] = r
    BY <1>5, SeqAppend DEF FlowsIn
  <2>3. Distinct(file[fs]) /\ NumbersOf(file[fs]) \subseteq 1 .. decoded
    BY <1>3 DEF InOnePlace
  <2>4. \A i \in FlowsIn(file[fs]) : file[fs][i].number \in 1 .. decoded
    BY <2>3, NumbersAt
  <2>5. \A i \in FlowsIn(file[fs]) : file[fs][i].number # decoded + 1
    BY <1>0, <2>4
  <2>6. Distinct(Append(file[fs], r))
    <3> SUFFICES ASSUME NEW i \in FlowsIn(Append(file[fs], r)), NEW j \in FlowsIn(Append(file[fs], r)),
                        Append(file[fs], r)[i].number = Append(file[fs], r)[j].number
                 PROVE  i = j
      BY DEF Distinct
    <3>1. CASE i \in FlowsIn(file[fs]) /\ j \in FlowsIn(file[fs])
      BY <2>2, <2>3, <3>1 DEF Distinct
    <3>2. CASE ~(i \in FlowsIn(file[fs]) /\ j \in FlowsIn(file[fs]))
      BY <2>1, <2>2, <2>5, <3>2
    <3> QED
      BY <3>1, <3>2
  <2> QED
    BY <1>3, <2>6
<1>8. /\ \A p \in Stores : NumbersOf(Content(p)) \subseteq 1 .. decoded \ lost
      /\ \A n \in 1 .. decoded \ lost : \E p \in Stores : n \in NumbersOf(Content(p))
      /\ \A p, q \in Stores : NumbersOf(Content(p)) \cap NumbersOf(Content(q)) # {} => p = q
      /\ \A p \in Stores : Distinct(Content(p))
      /\ lost \subseteq 1 .. decoded
  BY DEF InOnePlace
<1>9. /\ 1 .. decoded + 1 = (1 .. decoded) \cup {decoded + 1} /\ decoded + 1 \notin 1 .. decoded
      /\ decoded + 1 \notin lost
  BY <1>0, <1>8
<1>10. \A p \in Stores : NumbersOf(Content(p)') = IF p = here THEN NumbersOf(Content(p)) \cup {decoded + 1}
                                                           ELSE NumbersOf(Content(p))
  <2> SUFFICES ASSUME NEW p \in Stores
               PROVE  NumbersOf(Content(p)') = IF p = here THEN NumbersOf(Content(p)) \cup {decoded + 1}
                                                           ELSE NumbersOf(Content(p))
    OBVIOUS
  <2>1. CASE p = here
    BY <1>6, <2>1
  <2>2. CASE p # here
    <3>1. Content(p)' = Content(p)
      BY <1>4, <2>2
    <3> QED
      BY <2>2, <3>1
  <2> QED
    BY <2>1, <2>2
<1>11. \A p \in Stores : NumbersOf(Content(p)') \subseteq 1 .. decoded' \ lost'
  BY <1>8, <1>9, <1>10
<1>12. \A n \in 1 .. decoded' \ lost' : \E p \in Stores : n \in NumbersOf(Content(p)')
  <2> SUFFICES ASSUME NEW n \in 1 .. decoded' \ lost' PROVE \E p \in Stores : n \in NumbersOf(Content(p)')
    OBVIOUS
  <2>1. CASE n = decoded + 1
    BY <1>3, <1>10, <2>1
  <2>2. CASE n # decoded + 1
    <3>1. n \in 1 .. decoded \ lost
      BY <1>9, <2>2
    <3> QED
      BY <1>8, <1>10, <3>1
  <2> QED
    BY <2>1, <2>2
<1>13. \A p, q \in Stores : NumbersOf(Content(p)') \cap NumbersOf(Content(q)') # {} => p = q
  <2> SUFFICES ASSUME NEW p \in Stores, NEW q \in Stores, NEW n \in NumbersOf(Content(p)') \cap NumbersOf(Content(q)')
               PROVE  p = q
    OBVIOUS
  <2>1. CASE n = decoded + 1
    <3>1. \A x \in Stores : decoded + 1 \notin NumbersOf(Content(x))
      BY <1>8, <1>9
    <3> QED
      BY <1>10, <2>1, <3>1
  <2>2. CASE n # decoded + 1
    BY <1>8, <1>10, <2>2
  <2> QED
    BY <2>1, <2>2
<1>14. \A p \in Stores : Distinct(Content(p)')
  <2> SUFFICES ASSUME NEW p \in Stores PROVE Distinct(Content(p)')
    OBVIOUS
  <2>1. CASE p = here
    BY <1>7, <2>1
  <2>2. CASE p # here
    <3>1. Content(p)' = Content(p)
      BY <1>4, <2>2
    <3>2. Distinct(Content(p))
      BY <1>8
    <3> QED
      BY <3>1, <3>2
  <2> QED
    BY <2>1, <2>2
<1>15. lost' \subseteq 1 .. decoded' /\ (Spared' => lost' = {})
  BY <1>8, <1>9 DEF InOnePlace
<1> QED
  BY <1>1, <1>11, <1>12, <1>13, <1>14, <1>15 DEF InOnePlace

LEMMA FilesDropped ==
  ASSUME FileTypes, NEW D \in SUBSET Sources
  PROVE  /\ {<<s, 0>> : s \in D} \subseteq Stores
         /\ UNION {NumbersOf(file[s]) : s \in D} = UNION {NumbersOf(Content(p)) : p \in {<<s, 0>> : s \in D}}
<1>1. \A s \in D : <<s, 0>> \in Stores /\ Content(<<s, 0>>) = file[s]
  BY Place
<1>2. {<<s, 0>> : s \in D} \subseteq Stores
  BY <1>1
<1>3. \A n : (\E s \in D : n \in NumbersOf(file[s]))
             <=> \E p \in {<<s, 0>> : s \in D} : n \in NumbersOf(Content(p))
  <2> SUFFICES ASSUME NEW n
               PROVE  (\E s \in D : n \in NumbersOf(file[s]))
                      <=> \E p \in {<<s, 0>> : s \in D} : n \in NumbersOf(Content(p))
    OBVIOUS
  <2>1. ASSUME NEW s \in D, n \in NumbersOf(file[s])
        PROVE  \E p \in {<<t, 0>> : t \in D} : n \in NumbersOf(Content(p))
    <3>1. n \in NumbersOf(Content(<<s, 0>>))
      BY <1>1, <2>1
    <3> QED
      BY <3>1
  <2>2. ASSUME NEW p \in {<<t, 0>> : t \in D}, n \in NumbersOf(Content(p))
        PROVE  \E s \in D : n \in NumbersOf(file[s])
    <3>1. PICK s \in D : p = <<s, 0>>
      BY <2>2
    <3>2. Content(p) = file[s]
      BY <1>1, <3>1
    <3> QED
      BY <2>2, <3>2
  <2> QED
    BY <2>1, <2>2
<1> DEFINE A == {NumbersOf(file[s]) : s \in D}
           B == {NumbersOf(Content(p)) : p \in {<<s, 0>> : s \in D}}
<1>4. \A n : n \in UNION A <=> \E s \in D : n \in NumbersOf(file[s])
  OBVIOUS
<1>5. \A n : n \in UNION B <=> \E p \in {<<s, 0>> : s \in D} : n \in NumbersOf(Content(p))
  OBVIOUS
<1>6. UNION A = UNION B
  <2> HIDE DEF A, B
  <2>1. \A n : n \in UNION A <=> n \in UNION B
    BY <1>3, <1>4, <1>5
  <2> QED
    BY <2>1
<1> QED
  BY <1>2, <1>6

LEMMA StopsInPlace ==
  ASSUME TypeOK, FileTypes, Places, InOnePlace, Stops
  PROVE  InOnePlace'
<1>1. ToSet(FlowSource) \in SUBSET Sources
  BY DEF TypeOK, ToSet
<1>2. PICK dropped : dropped = {<<s, 0>> : s \in ToSet(FlowSource)}
  OBVIOUS
<1>3. /\ dropped \in SUBSET Stores
      /\ lost' = lost \cup UNION {NumbersOf(Content(p)) : p \in dropped}
  BY <1>1, <1>2, FilesDropped DEF Stops
<1>4. /\ archive' = archive /\ decoded' = decoded /\ \A s \in Sources : file'[s] = <<>>
      /\ ~Spared'
  <2>1. faults \in Nat
    BY CollectorAssumption DEF TypeOK
  <2> QED
    BY <2>1 DEF Stops, Spared
<1>5. Stores' = Stores
  BY <1>4 DEF Stores
<1>6. PICK old : old = [p \in Stores |-> p]
  OBVIOUS
<1>7. NumbersOf(<<>>) = {} /\ Distinct(<<>>)
  BY DEF NumbersOf, Distinct, FlowsIn, ToSet
<1>8. ASSUME NEW p \in Stores
      PROVE  IF p[2] = 0 THEN Content(p)' = <<>> /\ (NumbersOf(Content(p)) = {} \/ p \in dropped)
                         ELSE Content(p)' = Content(p) /\ p \notin dropped
  <2>1. PICK s \in Sources : \E i \in 0 .. Len(archive[s]) : p = <<s, i>>
    BY Place
  <2>2. CASE p[2] = 0
    <3>1. Content(p)' = file'[s] /\ Content(p) = file[s] /\ p = <<s, 0>>
      BY <2>1, <2>2 DEF Content
    <3>2. s \in ToSet(FlowSource) \/ file[s] = <<>>
      BY <2>1 DEF Places
    <3>3. s \in ToSet(FlowSource) => p \in dropped
      BY <1>2, <3>1
    <3> QED
      BY <1>4, <1>7, <2>1, <2>2, <3>1, <3>2, <3>3
  <2>3. CASE p[2] # 0
    BY <1>2, <1>4, <2>3 DEF Content
  <2> QED
    BY <2>2, <2>3
<1>9. \A p \in Stores' : \/ NumbersOf(Content(p)') = {} /\ Distinct(Content(p)')
                         \/ old[p] \in Stores \ dropped /\ SameFlows(Content(old[p]), Content(p)')
  <2> SUFFICES ASSUME NEW p \in Stores
               PROVE  \/ NumbersOf(Content(p)') = {} /\ Distinct(Content(p)')
                      \/ old[p] \in Stores \ dropped /\ SameFlows(Content(old[p]), Content(p)')
    BY <1>5
  <2>1. CASE p[2] = 0
    BY <1>7, <1>8, <2>1
  <2>2. CASE p[2] # 0
    <3>1. Content(p)' = Content(p) /\ p \notin dropped /\ old[p] = p
      BY <1>6, <1>8, <2>2
    <3>2. SameFlows(Content(p), Content(p))
      BY DEF SameFlows
    <3> QED
      BY <3>1, <3>2
  <2> QED
    BY <2>1, <2>2
<1>10. \A p \in Stores \ dropped : NumbersOf(Content(p)) # {} =>
            \E q \in Stores' : NumbersOf(Content(q)') = NumbersOf(Content(p))
  <2> SUFFICES ASSUME NEW p \in Stores \ dropped, NumbersOf(Content(p)) # {}
               PROVE  \E q \in Stores : NumbersOf(Content(q)') = NumbersOf(Content(p))
    BY <1>5
  <2>1. Content(p)' = Content(p)
    BY <1>8
  <2>2. NumbersOf(Content(p)') = NumbersOf(Content(p))
    BY <2>1
  <2> QED
    BY <2>2
<1>11. \A p, q \in Stores' :
          NumbersOf(Content(p)') # {} /\ NumbersOf(Content(q)') # {} /\ old[p] = old[q] => p = q
  BY <1>5, <1>6
<1> QED
  BY <1>3, <1>4, <1>9, <1>10, <1>11, PlacesMoved

LEMMA RotationInPlace ==
  ASSUME TypeOK, FileTypes, Places, CountersMatch, InOnePlace,
         NEW rotated, NEW opened, NEW badRename, Rotation(rotated, opened, badRename)
  PROVE  InOnePlace'
<1>1. ToSet(FlowSource) \in SUBSET Sources
  BY DEF TypeOK, ToSet
<1>a. /\ rotated \subseteq ToSet(FlowSource) /\ opened \subseteq rotated /\ badRename \subseteq rotated
      /\ decoded' = decoded
      /\ lost' = lost \cup UNION {NumbersOf(file[s]) :
                    s \in (badRename \cap opened) \cup (ToSet(FlowSource) \ rotated)}
      /\ Spared' => Spared /\ badRename = {} /\ rotated = ToSet(FlowSource)
  BY DEF Rotation, Spared
<1>2. PICK D : D = (badRename \cap opened) \cup (ToSet(FlowSource) \ rotated)
  OBVIOUS
<1>3. PICK dropped : dropped = {<<s, 0>> : s \in D}
  OBVIOUS
<1>4. /\ D \in SUBSET Sources /\ dropped \in SUBSET Stores
      /\ lost' = lost \cup UNION {NumbersOf(Content(p)) : p \in dropped}
  <2>1. D \in SUBSET Sources
    BY <1>1, <1>a, <1>2
  <2> QED
    BY <1>a, <1>2, <1>3, <2>1, FilesDropped
<1>5. Spared' => Spared /\ dropped = {}
  BY <1>a, <1>2, <1>3
<1>6. \A s \in Sources :
         /\ s \in opened => file'[s] = StdRecords(s)
         /\ s \in badRename \ opened => file'[s] = Closed(s)
         /\ s \notin opened /\ s \notin badRename => file'[s] = <<>>
         /\ s \in rotated \ badRename =>
               archive'[s] = Append(archive[s], [start |-> t_start, records |-> Closed(s)])
         /\ ~(s \in rotated \ badRename) => archive'[s] = archive[s]
  BY RotationFiles
<1>7. FileTypes'
  BY RotationFiles
<1>8. \A s \in Sources : SameFlows(file[s], Closed(s))
  <2> SUFFICES ASSUME NEW s \in Sources PROVE SameFlows(file[s], Closed(s))
    OBVIOUS
  <2>1. FlowsIn(Closed(s)) = FlowsIn(file[s]) /\ \A q \in DOMAIN file[s] : Closed(s)[q] = file[s][q]
    BY ClosedFacts
  <2> QED
    BY <2>1 DEF SameFlows, FlowsIn
<1>9. NumbersOf(<<>>) = {} /\ Distinct(<<>>)
  BY DEF NumbersOf, Distinct, FlowsIn, ToSet
<1>10. \A s \in opened : NumbersOf(StdRecords(s)) = {} /\ Distinct(StdRecords(s))
  <2> SUFFICES ASSUME NEW s \in opened PROVE NumbersOf(StdRecords(s)) = {} /\ Distinct(StdRecords(s))
    OBVIOUS
  <2>1. s \in Sources /\ exporter_data[s] \in Seq(Exporters)
    BY <1>1, <1>a DEF TypeOK
  <2>2. FlowsIn(StdRecords(s)) = {} /\ NumbersOf(StdRecords(s)) = {}
    BY <2>1, StdNoFlows
  <2> QED
    BY <2>2 DEF Distinct
<1>11. \A s \in Sources :
          /\ Len(archive[s]) \in Nat
          /\ Len(archive'[s]) = IF s \in rotated \ badRename THEN Len(archive[s]) + 1 ELSE Len(archive[s])
          /\ \A i \in 1 .. Len(archive[s]) : archive'[s][i] = archive[s][i]
          /\ s \in rotated \ badRename => archive'[s][Len(archive[s]) + 1].records = Closed(s)
  <2> SUFFICES ASSUME NEW s \in Sources
               PROVE  /\ Len(archive[s]) \in Nat
                      /\ Len(archive'[s]) = IF s \in rotated \ badRename THEN Len(archive[s]) + 1
                                                                         ELSE Len(archive[s])
                      /\ \A i \in 1 .. Len(archive[s]) : archive'[s][i] = archive[s][i]
                      /\ s \in rotated \ badRename => archive'[s][Len(archive[s]) + 1].records = Closed(s)
    OBVIOUS
  <2>1. archive[s] \in Seq(Archived)
    BY DEF FileTypes
  <2>2. CASE s \in rotated \ badRename
    <3>1. [start |-> t_start, records |-> Closed(s)] \in Archived
      <4>1. Closed(s) \in Seq(FileRecords) /\ t_start \in Nat
        BY ClosedFacts DEF TypeOK
      <4> QED
        BY <4>1 DEF Archived
    <3>2. archive'[s] = Append(archive[s], [start |-> t_start, records |-> Closed(s)])
      BY <1>6, <2>2
    <3> QED
      BY <2>1, <2>2, <3>1, <3>2, SeqAppend
  <2>3. CASE s \notin rotated \ badRename
    <3>1. archive'[s] = archive[s]
      BY <1>6, <2>3
    <3>2. Len(archive[s]) \in Nat
      BY <2>1
    <3> QED
      BY <2>3, <3>1, <3>2
  <2> QED
    BY <2>2, <2>3
<1>12. PICK old : old = [p \in Stores' |-> IF p[2] > Len(archive[p[1]]) THEN <<p[1], 0>> ELSE p]
  OBVIOUS
<1>13. ASSUME NEW s \in Sources, NEW i \in 0 .. Len(archive'[s])
       PROVE  /\ <<s, i>> \in Stores'
              /\ old[<<s, i>>] = IF i > Len(archive[s]) THEN <<s, 0>> ELSE <<s, i>>
              /\ i \in Nat /\ (i > Len(archive[s]) => i = Len(archive[s]) + 1 /\ s \in rotated \ badRename)
  <2>1. <<s, i>> \in Stores'
    BY <1>13 DEF Stores
  <2>2. i \in Nat /\ (i > Len(archive[s]) => i = Len(archive[s]) + 1 /\ s \in rotated \ badRename)
    BY <1>11
  <2>3. old[<<s, i>>] = IF <<s, i>>[2] > Len(archive[<<s, i>>[1]]) THEN <<<<s, i>>[1], 0>> ELSE <<s, i>>
    BY <1>12, <2>1
  <2> QED
    BY <2>1, <2>2, <2>3
<1>14. ASSUME NEW s \in Sources
       PROVE  \/ NumbersOf(Content(<<s, 0>>)') = {} /\ Distinct(Content(<<s, 0>>)') /\ s \notin badRename \ opened
              \/ /\ s \in badRename \ opened /\ <<s, 0>> \in Stores \ dropped
                 /\ SameFlows(Content(<<s, 0>>), Content(<<s, 0>>)')
  <2>1. Content(<<s, 0>>)' = file'[s] /\ Content(<<s, 0>>) = file[s]
    BY DEF Content
  <2>2. <<s, 0>> \in Stores
    BY Place
  <2>3. CASE s \in badRename \ opened
    <3>1. s \notin D
      BY <1>a, <1>2, <2>3
    <3>2. <<s, 0>> \notin dropped
      BY <1>3, <3>1
    <3> QED
      BY <1>6, <1>8, <2>1, <2>2, <2>3, <3>2
  <2>4. CASE s \notin badRename \ opened
    BY <1>6, <1>9, <1>10, <2>1, <2>4
  <2> QED
    BY <2>3, <2>4
<1>15. ASSUME NEW s \in Sources, NEW i \in 1 .. Len(archive[s])
       PROVE  <<s, i>> \in Stores \ dropped /\ Content(<<s, i>>)' = Content(<<s, i>>)
  <2>1. i # 0 /\ i \in 0 .. Len(archive[s])
    BY <1>11
  <2>2. <<s, i>> \in Stores
    BY <2>1 DEF Stores
  <2>3. <<s, i>> \notin dropped
    BY <1>3, <2>1
  <2>4. Content(<<s, i>>)' = archive'[s][i].records /\ Content(<<s, i>>) = archive[s][i].records
    BY <2>1 DEF Content
  <2> QED
    BY <1>11, <2>2, <2>3, <2>4
<1>16. ASSUME NEW s \in rotated \ badRename
       PROVE  /\ \A i : i = Len(archive[s]) + 1 =>
                    <<s, i>> \in Stores' /\ SameFlows(Content(<<s, 0>>), Content(<<s, i>>)')
              /\ <<s, 0>> \in Stores \ dropped
  <2>1. s \in Sources
    BY <1>1, <1>a
  <2>2. <<s, 0>> \in Stores /\ Content(<<s, 0>>) = file[s]
    BY <2>1, Place
  <2>3. <<s, 0>> \notin dropped
    BY <1>2, <1>3
  <2>4. ASSUME NEW i, i = Len(archive[s]) + 1
        PROVE  <<s, i>> \in Stores' /\ SameFlows(Content(<<s, 0>>), Content(<<s, i>>)')
    <3>1. i # 0 /\ i \in 0 .. Len(archive'[s])
      BY <1>11, <2>1, <2>4
    <3>2. <<s, i>> \in Stores'
      BY <2>1, <3>1 DEF Stores
    <3>3. Content(<<s, i>>)' = archive'[s][i].records
      BY <3>1 DEF Content
    <3>4. archive'[s][i].records = Closed(s)
      BY <1>11, <2>1, <2>4
    <3> QED
      BY <1>8, <2>1, <2>2, <3>2, <3>3, <3>4
  <2> QED
    BY <2>2, <2>3, <2>4
<1>17. \A p \in Stores' : \E s \in Sources : \E i \in 0 .. Len(archive'[s]) : p = <<s, i>>
  BY DEF Stores
<1>18. \A p \in Stores' : \/ NumbersOf(Content(p)') = {} /\ Distinct(Content(p)')
                          \/ old[p] \in Stores \ dropped /\ SameFlows(Content(old[p]), Content(p)')
  <2> SUFFICES ASSUME NEW s \in Sources, NEW i \in 0 .. Len(archive'[s]), NEW p, p = <<s, i>>
               PROVE  \/ NumbersOf(Content(p)') = {} /\ Distinct(Content(p)')
                      \/ old[p] \in Stores \ dropped /\ SameFlows(Content(old[p]), Content(p)')
    BY <1>17
  <2>0. Len(archive[s]) \in Nat /\ i \in Nat
    BY <1>11, <1>13
  <2>1. CASE i = 0
    <3>1. old[p] = <<s, 0>> /\ p = <<s, 0>>
      BY <1>13, <2>0, <2>1
    <3> QED
      BY <1>14, <3>1
  <2>2. CASE i \in 1 .. Len(archive[s])
    <3>0. ~(i > Len(archive[s]))
      BY <2>0, <2>2
    <3>1. old[p] = p
      BY <1>13, <3>0
    <3>2. p \in Stores \ dropped /\ Content(p)' = Content(p)
      BY <1>15, <2>2
    <3>3. SameFlows(Content(p), Content(p))
      BY DEF SameFlows
    <3> QED
      BY <3>1, <3>2, <3>3
  <2>3. CASE i > Len(archive[s])
    <3>1. old[p] = <<s, 0>> /\ i = Len(archive[s]) + 1 /\ s \in rotated \ badRename
      BY <1>13, <2>3
    <3>2. SameFlows(Content(<<s, 0>>), Content(p)') /\ <<s, 0>> \in Stores \ dropped
      BY <1>16, <3>1
    <3> QED
      BY <3>1, <3>2
  <2> QED
    BY <2>0, <2>1, <2>2, <2>3
<1>19. \A p, q \in Stores' :
          NumbersOf(Content(p)') # {} /\ NumbersOf(Content(q)') # {} /\ old[p] = old[q] => p = q
  <2> SUFFICES ASSUME NEW s \in Sources, NEW i \in 0 .. Len(archive'[s]), NEW p, p = <<s, i>>,
                      NEW t \in Sources, NEW j \in 0 .. Len(archive'[t]), NEW q, q = <<t, j>>,
                      NumbersOf(Content(p)') # {}, NumbersOf(Content(q)') # {}, old[p] = old[q]
               PROVE  s = t /\ i = j
    BY <1>17
  <2>1. /\ old[p] = IF i > Len(archive[s]) THEN <<s, 0>> ELSE <<s, i>>
        /\ old[q] = IF j > Len(archive[t]) THEN <<t, 0>> ELSE <<t, j>>
        /\ i \in Nat /\ (i > Len(archive[s]) => i = Len(archive[s]) + 1 /\ s \in rotated \ badRename)
        /\ j \in Nat /\ (j > Len(archive[t]) => j = Len(archive[t]) + 1 /\ t \in rotated \ badRename)
    BY <1>13
  <2>2. s = t
    <3>1. \/ old[p] = <<s, 0>> \/ old[p] = <<s, i>>
      BY <2>1
    <3>2. \/ old[q] = <<t, 0>> \/ old[q] = <<t, j>>
      BY <2>1
    <3>3. \A a, b, c, d : <<a, b>> = <<c, d>> => a = c
      OBVIOUS
    <3> QED
      BY <3>1, <3>2, <3>3
  <2>a. Len(archive[s]) \in Nat /\ Len(archive[t]) \in Nat
    BY <1>11
  <2>b. (IF i > Len(archive[s]) THEN 0 ELSE i) = (IF j > Len(archive[t]) THEN 0 ELSE j)
    <3>1. old[p] = <<s, IF i > Len(archive[s]) THEN 0 ELSE i>>
      BY <2>1
    <3>2. old[q] = <<t, IF j > Len(archive[t]) THEN 0 ELSE j>>
      BY <2>1
    <3>3. \A a, b, c, d : <<a, b>> = <<c, d>> => b = d
      OBVIOUS
    <3> QED
      BY <3>1, <3>2, <3>3
  <2>3. (i = 0 => s \in badRename \ opened) /\ (j = 0 => t \in badRename \ opened)
    <3>1. i = 0 => p = <<s, 0>>
      OBVIOUS
    <3>2. j = 0 => q = <<t, 0>>
      OBVIOUS
    <3> QED
      BY <1>14, <3>1, <3>2
  <2>4. CASE i > Len(archive[s]) /\ j <= Len(archive[t])
    <3>1. j = 0
      BY <2>4, <2>a, <2>b
    <3>2. t \in badRename /\ s \notin badRename
      BY <2>1, <2>3, <2>4, <3>1
    <3> QED
      BY <2>2, <3>2
  <2>5. CASE j > Len(archive[t]) /\ i <= Len(archive[s])
    <3>1. i = 0
      BY <2>5, <2>a, <2>b
    <3>2. s \in badRename /\ t \notin badRename
      BY <2>1, <2>3, <2>5, <3>1
    <3> QED
      BY <2>2, <3>2
  <2>6. CASE i > Len(archive[s]) <=> j > Len(archive[t])
    <3>1. i > Len(archive[s]) => i = Len(archive[s]) + 1 /\ j = Len(archive[t]) + 1
      BY <2>1, <2>6
    <3>2. ~(i > Len(archive[s])) => i = j
      BY <2>6, <2>b
    <3> QED
      BY <2>2, <3>1, <3>2
  <2>c. i \in Nat /\ j \in Nat
    BY <2>1
  <2> QED
    BY <2>4, <2>5, <2>6, <2>a, <2>c
<1>20. \A p \in Stores \ dropped : NumbersOf(Content(p)) # {} =>
            \E q \in Stores' : NumbersOf(Content(q)') = NumbersOf(Content(p))
  <2> SUFFICES ASSUME NEW p \in Stores \ dropped, NumbersOf(Content(p)) # {}
               PROVE  \E q \in Stores' : NumbersOf(Content(q)') = NumbersOf(Content(p))
    OBVIOUS
  <2>1. PICK s \in Sources : \E i \in 0 .. Len(archive[s]) : p = <<s, i>>
    BY Place
  <2>2. PICK i \in 0 .. Len(archive[s]) : p = <<s, i>>
    BY <2>1
  <2>3. CASE i # 0
    <3>1. i \in 1 .. Len(archive[s]) /\ i \in 0 .. Len(archive'[s])
      BY <1>11, <2>3
    <3>2. Content(p)' = Content(p) /\ p \in Stores'
      BY <1>13, <1>15, <2>2, <3>1
    <3>3. NumbersOf(Content(p)') = NumbersOf(Content(p))
      BY <3>2
    <3> QED
      BY <3>2, <3>3
  <2>4. CASE i = 0
    <3>1. p = <<s, 0>> /\ Content(p) = file[s] /\ p \in Stores'
      <4>1. p = <<s, 0>> /\ 0 \in 0 .. Len(archive'[s])
        BY <1>11, <2>2, <2>4
      <4> QED
        BY <1>13, <4>1, Place
    <3>2. s \in ToSet(FlowSource)
      BY <1>9, <3>1 DEF Places
    <3>3. s \in rotated /\ ~(s \in badRename \cap opened)
      BY <1>2, <1>3, <3>1, <3>2
    <3>4. CASE s \in badRename
      <4>1. SameFlows(Content(p), Content(p)')
        BY <1>14, <3>1, <3>3, <3>4
      <4>2. NumbersOf(Content(p)') = NumbersOf(Content(p))
        BY <4>1, SameFlowsFacts
      <4> QED
        BY <3>1, <4>2
    <3>5. CASE s \notin badRename
      <4>1. PICK k : k = Len(archive[s]) + 1
        OBVIOUS
      <4>2. PICK q : q = <<s, k>>
        OBVIOUS
      <4>3. q \in Stores' /\ SameFlows(Content(p), Content(q)')
        BY <1>16, <3>1, <3>3, <3>5, <4>1, <4>2
      <4>4. NumbersOf(Content(q)') = NumbersOf(Content(p))
        BY <4>3, SameFlowsFacts
      <4> QED
        BY <4>3, <4>4
    <3> QED
      BY <3>4, <3>5
  <2> QED
    BY <2>3, <2>4
<1> QED
  BY <1>4, <1>5, <1>a, <1>18, <1>19, <1>20, PlacesMoved

-------------------------------------------------------------------------------
(* Flows are in the file of a slot that had begun                          *)

LEMMA ArchiveEntry ==
  ASSUME FileTypes, NEW s \in Sources, NEW i \in DOMAIN archive[s]
  PROVE  archive[s][i].start \in Nat /\ archive[s][i].records \in Seq(FileRecords)
<1>1. archive[s] \in Seq(Archived)
  BY DEF FileTypes
<1>2. archive[s][i] \in Archived
  BY <1>1
<1> QED
  BY <1>2 DEF Archived

FileInTime(records, start) == \A i \in FlowsIn(records) : records[i].at >= start

LEMMA InTimeParts ==
  InTime <=>
    /\ main \notin {"rotated", "exited", "dead"} => \A s \in Sources : FileInTime(file[s], t_start)
    /\ \A s \in Sources : \A i \in DOMAIN archive[s] :
         /\ archive[s][i].start <= t_start
         /\ archive[s][i].start = t_start => main \in {"rotated", "exited", "dead"}
         /\ \A j \in DOMAIN archive[s] : i < j => archive[s][i].start < archive[s][j].start
         /\ FileInTime(archive[s][i].records, archive[s][i].start)
BY DEF InTime, FileInTime

LEMMA SameInTime ==
  ASSUME NEW old, NEW new, NEW start, SameFlows(old, new), FileInTime(old, start)
  PROVE  FileInTime(new, start)
BY DEF SameFlows, FileInTime

LEMMA NoFlowsInTime ==
  ASSUME NEW records, NEW start, NumbersOf(records) = {}
  PROVE  FileInTime(records, start)
BY NoFlows DEF FileInTime

LEMMA StillInTime ==
  ASSUME InTime, UNCHANGED <<file, archive, t_start>>,
         main \in {"rotated", "exited", "dead"} <=> main' \in {"rotated", "exited", "dead"}
  PROVE  InTime'
BY DEF InTime

LEMMA GoesOnInTime ==
  ASSUME Inductive, InTime, GoesOn
  PROVE  InTime'
<1>1. /\ file' = file /\ archive' = archive /\ t_start' = t_start + Twin
      /\ main = "rotated" /\ ~done /\ main' \notin {"rotated", "exited", "dead"}
  BY DEF GoesOn, Calm
<1>2. \A s \in Sources : NumbersOf(file[s]) = {}
  BY <1>1 DEF Inductive, Fresh
<1>3. \A s \in Sources : FileInTime(file'[s], t_start')
  <2> SUFFICES ASSUME NEW s \in Sources PROVE FileInTime(file'[s], t_start')
    OBVIOUS
  <2>1. FileInTime(file[s], t_start + Twin)
    BY <1>2, NoFlowsInTime
  <2> QED
    BY <1>1, <2>1
<1>4. t_start \in Nat /\ Twin \in Nat \ {0}
  BY CollectorAssumption DEF Inductive, IInv, TypeOK
<1>5. ASSUME NEW s \in Sources, NEW i \in DOMAIN archive[s]
      PROVE  archive[s][i].start < t_start + Twin
  <2>2. archive[s][i].start \in Nat
    BY ArchiveEntry DEF Inductive
  <2>3. archive[s][i].start <= t_start
    BY DEF InTime
  <2> QED
    BY <1>4, <2>2, <2>3
<1>6. ASSUME NEW s \in Sources, NEW i \in DOMAIN archive[s]
      PROVE  /\ archive[s][i].start <= t_start + Twin /\ archive[s][i].start # t_start + Twin
  <2>2. archive[s][i].start \in Nat
    BY ArchiveEntry DEF Inductive
  <2> QED
    BY <1>4, <1>5, <2>2
<1>7. \A s \in Sources : \A i \in DOMAIN archive[s] :
         /\ \A j \in DOMAIN archive[s] : i < j => archive[s][i].start < archive[s][j].start
         /\ \A q \in FlowsIn(archive[s][i].records) : archive[s][i].records[q].at >= archive[s][i].start
  BY DEF InTime
<1>8. \A s \in Sources : \A i \in FlowsIn(file'[s]) : file'[s][i].at >= t_start'
  BY <1>3 DEF FileInTime
<1> QED
  BY <1>1, <1>6, <1>7, <1>8 DEF InTime

LEMMA StopsInTime ==
  ASSUME Inductive, InTime, Stops
  PROVE  InTime'
<1>1. archive' = archive /\ t_start' = t_start /\ main' \in {"exited", "dead"}
  BY DEF Stops
<1> QED
  BY <1>1 DEF InTime

LEMMA RecordsInTime ==
  ASSUME Inductive, InTime, Records
  PROVE  InTime'
<1>1. TypeOK /\ FileTypes /\ Places /\ Clock
  BY DEF Inductive, IInv
<1>2. main \in {"packet", "sets"} /\ main' = "sets" /\ archive' = archive /\ t_start' = t_start
  BY DEF Records
<1>3. fs \in Sources /\ received = t_now /\ t_start <= t_now
  BY <1>1, <1>2, AtSets, AtPacket DEF Clock
<1>4. PICK r \in FileRecords : AppendToBuffer(fs, r) /\ (r.kind = "flow" => r.at >= t_start)
  <2>1. CASE main = "packet" /\ Newcomer
    <3>1. PICK new \in Exporters : AppendToBuffer(fs, ExporterInfo(new))
      BY <2>1 DEF Newcomer
    <3>2. ExporterInfo(new) \in FileRecords /\ ExporterInfo(new).kind = "exporter"
      BY DEF Exporters, ExporterInfo, FileRecords, ExporterRecords
    <3> QED
      BY <3>1, <3>2
  <2>2. CASE main = "sets" /\ Flow
    <3>1. PICK sampler \in {0} \cup SamplerIds : AppendToBuffer(fs, FlowRecord(TheExporter, sampler))
      BY <2>2 DEF Flow
    <3>2. TheExporter \in Exporters
      BY <1>1, <2>2, AtSets
    <3>3. FlowRecord(TheExporter, sampler) \in FileRecords /\ FlowRecord(TheExporter, sampler).at = received
      BY <1>1, <3>2, FlowRecordFacts
    <3>4. t_start \in Nat /\ t_now \in Nat
      BY <1>1, ClockFacts DEF TypeOK
    <3> QED
      BY <1>3, <3>1, <3>3, <3>4
  <2>3. CASE main = "sets" /\ Sampler
    <3>1. PICK r \in SamplerRecords : AppendToBuffer(fs, r)
      BY <2>3 DEF Sampler
    <3>2. r \in FileRecords /\ r.kind = "sampler"
      BY DEF SamplerRecords, FileRecords
    <3> QED
      BY <3>1, <3>2
  <2> QED
    BY <2>1, <2>2, <2>3 DEF Records
<1>5. \A s \in Sources : file'[s] = IF s = fs THEN Append(file[fs], r) ELSE file[s]
  BY <1>1, <1>2, <1>3, <1>4, AppendsOne
<1>6. \A s \in Sources : \A i \in FlowsIn(file'[s]) : file'[s][i].at >= t_start
  <2> SUFFICES ASSUME NEW s \in Sources, NEW i \in FlowsIn(file'[s]) PROVE file'[s][i].at >= t_start
    OBVIOUS
  <2>0. \A j \in FlowsIn(file[s]) : file[s][j].at >= t_start
    BY <1>2 DEF InTime
  <2>1. file[s] \in Seq(FileRecords)
    BY <1>1 DEF FileTypes
  <2>2. CASE s = fs
    <3>1. file'[s] = Append(file[s], r)
      BY <1>5, <2>2
    <3>2. i \in DOMAIN Append(file[s], r) /\ Append(file[s], r)[i].kind = "flow"
      BY <3>1 DEF FlowsIn
    <3>3. CASE i \in DOMAIN file[s]
      <4>1. Append(file[s], r)[i] = file[s][i]
        BY <2>1, <3>3, SeqAppend
      <4>2. i \in FlowsIn(file[s])
        BY <3>2, <3>3, <4>1 DEF FlowsIn
      <4> QED
        BY <2>0, <3>1, <4>1, <4>2
    <3>4. CASE i \notin DOMAIN file[s]
      <4>1. Append(file[s], r)[i] = r
        BY <2>1, <3>2, <3>4, SeqAppend
      <4> QED
        BY <1>4, <3>1, <3>2, <4>1
    <3> QED
      BY <3>3, <3>4
  <2>3. CASE s # fs
    BY <1>5, <2>0, <2>3
  <2> QED
    BY <2>2, <2>3
<1> QED
  BY <1>2, <1>6 DEF InTime

LEMMA RotationInTime ==
  ASSUME Inductive, InTime, NEW rotated, NEW opened, NEW badRename,
         Rotation(rotated, opened, badRename)
  PROVE  InTime'
<1>1. TypeOK /\ FileTypes /\ CountersMatch
  BY DEF Inductive, IInv
<1>2. main = "rotate" /\ main' \in {"rotated", "exited", "dead"} /\ t_start' = t_start /\ t_start \in Nat
  BY <1>1 DEF Rotation, clockVars, TypeOK
<1>3. \A s \in Sources :
         /\ s \in rotated \ badRename =>
               archive'[s] = Append(archive[s], [start |-> t_start, records |-> Closed(s)])
         /\ ~(s \in rotated \ badRename) => archive'[s] = archive[s]
  BY <1>1, RotationFiles
<1>4. ASSUME NEW s \in Sources, NEW i \in DOMAIN archive[s]
      PROVE  /\ archive[s][i].start < t_start
             /\ \A j \in DOMAIN archive[s] : i < j => archive[s][i].start < archive[s][j].start
             /\ \A q \in FlowsIn(archive[s][i].records) : archive[s][i].records[q].at >= archive[s][i].start
  <2>1. /\ archive[s][i].start <= t_start /\ archive[s][i].start # t_start
        /\ \A j \in DOMAIN archive[s] : i < j => archive[s][i].start < archive[s][j].start
        /\ \A q \in FlowsIn(archive[s][i].records) : archive[s][i].records[q].at >= archive[s][i].start
    BY <1>2 DEF InTime
  <2>2. archive[s][i].start \in Nat
    BY <1>1, ArchiveEntry
  <2> QED
    BY <1>2, <2>1, <2>2
<1>5. ASSUME NEW s \in Sources
      PROVE  \A q \in FlowsIn(Closed(s)) : Closed(s)[q].at >= t_start
  <2> SUFFICES ASSUME NEW q \in FlowsIn(Closed(s)) PROVE Closed(s)[q].at >= t_start
    OBVIOUS
  <2>1. FlowsIn(Closed(s)) = FlowsIn(file[s]) /\ \A k \in DOMAIN file[s] : Closed(s)[k] = file[s][k]
    BY <1>1, ClosedFacts
  <2>2. q \in FlowsIn(file[s]) /\ q \in DOMAIN file[s]
    BY <2>1 DEF FlowsIn
  <2>3. file[s][q].at >= t_start
    BY <1>2, <2>2 DEF InTime
  <2> QED
    BY <2>1, <2>2, <2>3
<1>6. ASSUME NEW s \in Sources, NEW i \in DOMAIN archive'[s]
      PROVE  /\ archive'[s][i].start <= t_start
             /\ \A j \in DOMAIN archive'[s] : i < j => archive'[s][i].start < archive'[s][j].start
             /\ \A q \in FlowsIn(archive'[s][i].records) : archive'[s][i].records[q].at >= archive'[s][i].start
  <2>1. CASE ~(s \in rotated \ badRename)
    <3>1. archive'[s] = archive[s]
      BY <1>3, <2>1
    <3>2. archive[s][i].start \in Nat /\ archive[s][i].start < t_start
      BY <1>1, <1>4, <3>1, ArchiveEntry
    <3> QED
      BY <1>2, <1>4, <3>1, <3>2
  <2>2. CASE s \in rotated \ badRename
    <3> DEFINE entry == [start |-> t_start, records |-> Closed(s)]
               n == Len(archive[s]) + 1
               new == Append(archive[s], entry)
    <3>0. entry.start = t_start /\ entry.records = Closed(s)
      OBVIOUS
    <3>1. entry \in Archived /\ archive[s] \in Seq(Archived)
      <4>1. Closed(s) \in Seq(FileRecords)
        BY <1>1, ClosedFacts
      <4> QED
        BY <1>1, <1>2, <4>1 DEF Archived, FileTypes
    <3>2. archive'[s] = new
      BY <1>3, <2>2
    <3> HIDE DEF entry
    <3>3. /\ DOMAIN new = (DOMAIN archive[s]) \cup {n} /\ DOMAIN archive[s] = 1 .. n - 1 /\ n \in Nat
          /\ \A k \in DOMAIN archive[s] : new[k] = archive[s][k]
          /\ new[n] = entry
      BY <3>1, SeqAppend
    <3> HIDE DEF new, n
    <3>4. CASE i = n
      <4>1. new[i] = entry
        BY <3>3, <3>4
      <4>2. \A j \in DOMAIN new : ~(i < j)
        BY <3>3, <3>4
      <4> QED
        BY <1>2, <1>5, <3>0, <3>2, <4>1, <4>2
    <3>5. CASE i \in DOMAIN archive[s]
      <4>1. new[i] = archive[s][i]
        BY <3>3, <3>5
      <4>2. archive[s][i].start \in Nat /\ archive[s][i].start < t_start
        BY <1>1, <1>4, <3>5, ArchiveEntry
      <4>3. \A j \in DOMAIN new : i < j => new[i].start < new[j].start
        <5> SUFFICES ASSUME NEW j \in DOMAIN new, i < j PROVE new[i].start < new[j].start
          OBVIOUS
        <5>1. CASE j = n
          BY <3>0, <3>3, <4>1, <4>2, <5>1
        <5>2. CASE j \in DOMAIN archive[s]
          BY <1>4, <3>3, <3>5, <4>1, <5>2
        <5> QED
          BY <3>3, <5>1, <5>2
      <4>4. \A q \in FlowsIn(new[i].records) : new[i].records[q].at >= new[i].start
        BY <1>4, <3>5, <4>1
      <4>5. new[i].start <= t_start
        BY <1>2, <4>1, <4>2
      <4> QED
        BY <3>2, <4>3, <4>4, <4>5
    <3> QED
      BY <3>2, <3>3, <3>4, <3>5
  <2> QED
    BY <2>1, <2>2
<1> QED
  BY <1>2, <1>6 DEF InTime

-------------------------------------------------------------------------------
(* Flows are stored                                                        *)

LEMMA PlacedInit ==
  ASSUME Init
  PROVE  InOnePlace /\ InTime
<1>1. /\ \A s \in Sources : file[s] = <<>> /\ archive[s] = <<>>
      /\ decoded = 0 /\ lost = {}
  BY DEF Init
<1>2. FileTypes
  BY InitInductive DEF Inductive
<1>3. NumbersOf(<<>>) = {} /\ Distinct(<<>>) /\ FlowsIn(<<>>) = {} /\ Len(<<>>) = 0 /\ DOMAIN <<>> = {}
  BY DEF NumbersOf, Distinct, FlowsIn, ToSet
<1>4. \A p \in Stores : \E s \in Sources : p = <<s, 0>> /\ Content(p) = <<>>
  <2> SUFFICES ASSUME NEW p \in Stores PROVE \E s \in Sources : p = <<s, 0>> /\ Content(p) = <<>>
    OBVIOUS
  <2>1. PICK s \in Sources : \E i \in 0 .. Len(archive[s]) : p = <<s, i>>
    BY <1>2, Place
  <2>2. p = <<s, 0>>
    BY <1>1, <1>3, <2>1
  <2>3. Content(p) = file[s]
    BY <1>2, <2>2, Place
  <2> QED
    BY <1>1, <2>2, <2>3
<1>5. \A p \in Stores : NumbersOf(Content(p)) = {} /\ Distinct(Content(p))
  BY <1>3, <1>4
<1>6. 1 .. decoded = {}
  BY <1>1
<1>7. InOnePlace
  BY <1>1, <1>5, <1>6 DEF InOnePlace
<1>8. InTime
  BY <1>1, <1>3 DEF InTime
<1> QED
  BY <1>7, <1>8

LEMMA PlacedNext ==
  ASSUME Inductive, InOnePlace, InTime, [Next]_vars
  PROVE  InOnePlace' /\ InTime'
<1>1. TypeOK /\ FileTypes /\ Places /\ CountersMatch
  BY DEF Inductive, IInv
<1>2. CASE Still \/ GoesOn
  <2>1. UNCHANGED <<file, archive, decoded, lost>> /\ (Spared' => Spared)
    BY <1>2 DEF Still, GoesOn, Calm, Spared
  <2>2. InOnePlace'
    BY <2>1, StillInPlace
  <2>3. Still => InTime'
    BY <2>1, StillInTime DEF Still
  <2>4. GoesOn => InTime'
    BY GoesOnInTime
  <2> QED
    BY <1>2, <2>2, <2>3, <2>4
<1>3. CASE Stops
  BY <1>1, <1>3, StopsInPlace, StopsInTime
<1>4. CASE Records
  <2>1. main \in {"packet", "sets"} /\ UNCHANGED <<archive, lost>> /\ (Spared' => Spared)
    BY <1>4 DEF Records, Spared
  <2>2. fs \in Sources
    BY <1>1, <2>1, AtSets, AtPacket
  <2>3. CASE main = "packet" /\ Newcomer
    <3>1. PICK new \in Exporters : AppendToBuffer(fs, ExporterInfo(new)) /\ decoded' = decoded
      BY <2>3 DEF Newcomer
    <3>2. ExporterInfo(new) \in FileRecords /\ ExporterInfo(new).kind # "flow"
      BY DEF Exporters, ExporterInfo, FileRecords, ExporterRecords
    <3> QED
      BY <1>1, <1>4, <2>1, <2>2, <3>1, <3>2, OtherInPlace, RecordsInTime
  <2>4. CASE main = "sets" /\ Flow
    <3>1. PICK sampler \in {0} \cup SamplerIds :
             AppendToBuffer(fs, FlowRecord(TheExporter, sampler)) /\ decoded' = decoded + 1
      BY <2>4 DEF Flow
    <3>2. TheExporter \in Exporters
      BY <1>1, <2>4, AtSets
    <3>3. /\ FlowRecord(TheExporter, sampler) \in FileRecords /\ FlowRecord(TheExporter, sampler).kind = "flow"
          /\ FlowRecord(TheExporter, sampler).number = decoded + 1
      BY <1>1, <3>2, FlowRecordFacts
    <3> QED
      BY <1>1, <1>4, <2>1, <2>2, <3>1, <3>3, FlowInPlace, RecordsInTime
  <2>5. CASE main = "sets" /\ Sampler
    <3>1. PICK r \in SamplerRecords : AppendToBuffer(fs, r) /\ decoded' = decoded
      BY <2>5 DEF Sampler
    <3>2. r \in FileRecords /\ r.kind # "flow"
      BY DEF SamplerRecords, FileRecords
    <3> QED
      BY <1>1, <1>4, <2>1, <2>2, <3>1, <3>2, OtherInPlace, RecordsInTime
  <2> QED
    BY <1>4, <2>3, <2>4, <2>5 DEF Records
<1>5. CASE \E rotated, opened, badRename : Rotation(rotated, opened, badRename)
  BY <1>1, <1>5, RotationInPlace, RotationInTime
<1> QED
  BY <1>2, <1>3, <1>4, <1>5, Steps

(* A file without a repeated number has as many flows as numbers.          *)
LEMMA FlowsCounted ==
  ASSUME NEW records \in Seq(FileRecords), Distinct(records)
  PROVE  Cardinality(FlowsIn(records)) = Cardinality(NumbersOf(records))
<1> DEFINE S == FlowsIn(records)
           T == NumbersOf(records)
           g == [i \in S |-> records[i].number]
<1>1. IsFiniteSet(S)
  <2>1. DOMAIN records = 1 .. Len(records) /\ Len(records) \in Nat
    OBVIOUS
  <2>2. IsFiniteSet(1 .. Len(records))
    BY <2>1, FS_Interval
  <2>3. S \in SUBSET (1 .. Len(records))
    BY <2>1 DEF FlowsIn
  <2> QED
    BY <2>2, <2>3, FS_Subset
<1>2. \A n : n \in T <=> \E i \in S : records[i].number = n
  BY NumbersAt
<1>3. \A i, j \in S : records[i].number = records[j].number => i = j
  BY DEF Distinct
<1> HIDE DEF S, T
<1>4. g \in [S -> T] /\ (\A a, b \in S : g[a] = g[b] => a = b) /\ (\A t \in T : \E s \in S : g[s] = t)
  BY <1>2, <1>3
<1> HIDE DEF g
<1>5. g \in Bijection(S, T)
  <2>1. g \in Injection(S, T)
    BY <1>4 DEF Injection, IsInjective
  <2>2. g \in Surjection(S, T)
    BY <1>4 DEF Surjection
  <2> QED
    BY <2>1, <2>2 DEF Bijection
<1>6. ExistsBijection(S, T)
  BY <1>5 DEF ExistsBijection
<1> QED
  BY <1>1, <1>6, FS_Bijection DEF S, T

LEMMA PlacedStored ==
  ASSUME Inductive, InOnePlace, InTime
  PROVE  FlowsStored
<1>1. FileTypes
  BY DEF Inductive
<1> DEFINE archived == UNION {{s} \X DOMAIN archive[s] : s \in Sources}
           inArchive(n) == {p \in archived : n \in NumbersOf(archive[p[1]][p[2]].records)}
           inFiles(n) == {s \in Sources : n \in NumbersOf(file[s])}
<1>2. ASSUME NEW p \in archived
      PROVE  \E s \in Sources : \E i \in DOMAIN archive[s] :
                p = <<s, i>> /\ p[1] = s /\ p[2] = i /\ i \in Nat /\ i # 0
                /\ p \in Stores /\ Content(p) = archive[s][i].records
  <2>1. PICK s \in Sources : \E i \in DOMAIN archive[s] : p = <<s, i>>
    BY <1>2
  <2>2. PICK i \in DOMAIN archive[s] : p = <<s, i>>
    BY <2>1
  <2>3. DOMAIN archive[s] = 1 .. Len(archive[s]) /\ Len(archive[s]) \in Nat
    BY <1>1, Place
  <2>4. i \in Nat /\ i # 0
    BY <2>2, <2>3
  <2>5. p \in Stores /\ Content(p) = archive[s][i].records
    BY <1>1, <2>2, Place
  <2> QED
    BY <2>2, <2>4, <2>5
<1>3. \A s \in Sources : <<s, 0>> \in Stores /\ Content(<<s, 0>>) = file[s]
  BY <1>1, Place
<1>4. ASSUME NEW p \in Stores
      PROVE  \/ \E s \in Sources : p = <<s, 0>>
             \/ p \in archived /\ Content(p) = archive[p[1]][p[2]].records
  <2>1. PICK s \in Sources : \E i \in 0 .. Len(archive[s]) : p = <<s, i>>
    BY <1>1, <1>4, Place
  <2>2. PICK i \in 0 .. Len(archive[s]) : p = <<s, i>>
    BY <2>1
  <2>3. Len(archive[s]) \in Nat /\ DOMAIN archive[s] = 1 .. Len(archive[s])
    BY <1>1, Place
  <2>4. i = 0 \/ i \in DOMAIN archive[s]
    BY <2>3
  <2>5. i \in DOMAIN archive[s] => p \in archived
    BY <2>2
  <2>6. i \in DOMAIN archive[s] => Content(p) = archive[s][i].records
    BY <1>1, <2>2, Place
  <2> QED
    BY <2>2, <2>4, <2>5, <2>6
<1>5. \A p \in archived : p \in Stores /\ Content(p) = archive[p[1]][p[2]].records
                          /\ \A s : p # <<s, 0>>
  <2> SUFFICES ASSUME NEW p \in archived
               PROVE  p \in Stores /\ Content(p) = archive[p[1]][p[2]].records /\ \A s : p # <<s, 0>>
    OBVIOUS
  <2> HIDE DEF archived
  <2> QED
    BY <1>2
<1> HIDE DEF archived
<1>6. ASSUME NEW n, NEW p \in inArchive(n)
      PROVE  p \in Stores /\ n \in NumbersOf(Content(p)) /\ \A s : p # <<s, 0>>
  BY <1>5
<1>7. ASSUME NEW n, NEW s \in inFiles(n)
      PROVE  <<s, 0>> \in Stores /\ n \in NumbersOf(Content(<<s, 0>>))
  BY <1>3
<1>8. ASSUME NEW p \in Stores, NEW n \in NumbersOf(Content(p))
      PROVE  p \in inArchive(n) \/ \E s \in inFiles(n) : p = <<s, 0>>
  BY <1>3, <1>4
<1> HIDE DEF inArchive, inFiles
<1>9. ASSUME NEW n \in 1 .. decoded
      PROVE  IF n \in lost THEN inArchive(n) = {} /\ inFiles(n) = {}
                           ELSE Cardinality(inArchive(n)) + Cardinality(inFiles(n)) = 1
  <2>1. \A p, q \in Stores : n \in NumbersOf(Content(p)) /\ n \in NumbersOf(Content(q)) => p = q
    BY DEF InOnePlace
  <2>2. CASE n \in lost
    <3>1. \A p \in Stores : n \notin NumbersOf(Content(p))
      BY <2>2 DEF InOnePlace
    <3> QED
      BY <1>6, <1>7, <2>2, <3>1
  <2>3. CASE n \notin lost
    <3>1. PICK p \in Stores : n \in NumbersOf(Content(p))
      BY <2>3 DEF InOnePlace
    <3>2. CASE p \in inArchive(n)
      <4>1. inArchive(n) = {p}
        BY <1>6, <2>1, <3>1, <3>2
      <4>2. inFiles(n) = {}
        <5> SUFFICES ASSUME NEW s \in inFiles(n) PROVE FALSE
          OBVIOUS
        <5>1. <<s, 0>> = p
          BY <1>7, <2>1, <3>1
        <5> QED
          BY <1>6, <3>2, <5>1
      <4>3. Cardinality(inArchive(n)) = 1 /\ Cardinality(inFiles(n)) = 0
        BY <4>1, <4>2, FS_Singleton, FS_EmptySet
      <4> QED
        BY <2>3, <4>3
    <3>3. CASE \E s \in inFiles(n) : p = <<s, 0>>
      <4>1. PICK s \in inFiles(n) : p = <<s, 0>>
        BY <3>3
      <4>2. inArchive(n) = {}
        BY <1>6, <2>1, <3>1, <4>1
      <4>3. \A t \in inFiles(n) : <<t, 0>> = <<s, 0>>
        BY <1>7, <2>1, <3>1, <4>1
      <4>4. inFiles(n) = {s}
        BY <4>1, <4>3
      <4>5. Cardinality(inArchive(n)) = 0 /\ Cardinality(inFiles(n)) = 1
        BY <4>2, <4>4, FS_Singleton, FS_EmptySet
      <4> QED
        BY <2>3, <4>5
    <3> QED
      BY <1>8, <3>1, <3>2, <3>3
  <2> QED
    BY <2>2, <2>3
<1>10. ASSUME NEW s \in Sources, NEW records \in Files(s)
       PROVE  Cardinality(FlowsIn(records)) = Cardinality(NumbersOf(records))
  <2>1. records \in Seq(FileRecords)
    BY <1>1, FilesTyped
  <2>2. \E p \in Stores : records = Content(p)
    BY <1>1, <1>3, Place DEF Files
  <2>3. Distinct(records)
    BY <2>2 DEF InOnePlace
  <2> QED
    BY <2>1, <2>3, FlowsCounted
<1>11. ASSUME NEW p \in archived
       PROVE  LET f == archive[p[1]][p[2]]
              IN /\ \A i \in FlowsIn(f.records) : f.records[i].at >= f.start
                 /\ p[2] > 1 => archive[p[1]][p[2] - 1].start < f.start
  <2>1. PICK s \in Sources : \E i \in DOMAIN archive[s] : p[1] = s /\ p[2] = i
    BY <1>2 DEF archived
  <2>2. PICK i \in DOMAIN archive[s] : p[1] = s /\ p[2] = i
    BY <2>1
  <2>3. DOMAIN archive[s] = 1 .. Len(archive[s]) /\ Len(archive[s]) \in Nat
    BY <1>1, Place
  <2>4. i > 1 => i - 1 \in DOMAIN archive[s] /\ i - 1 < i
    BY <2>2, <2>3
  <2>5. i > 1 => archive[s][i - 1].start < archive[s][i].start
    BY <2>4 DEF InTime
  <2>6. \A q \in FlowsIn(archive[s][i].records) : archive[s][i].records[q].at >= archive[s][i].start
    BY DEF InTime
  <2> QED
    BY <2>2, <2>5, <2>6
<1>12. faults = 0 /\ main # "dead" => lost = {}
  BY DEF InOnePlace, Spared
<1> QED
  BY <1>9, <1>10, <1>11, <1>12 DEF FlowsStored, FlowsIn, archived, inArchive, inFiles

(* Every decoded flow is in exactly one file, of a slot that had begun     *)
(* when it was received, unless a call failed or nfcapd died, through any  *)
(* rotation, late slot or end of nfcapd (RotateFlowFiles, run).            *)
THEOREM CollectorStoresFlows == Spec => []FlowsStored
<1>1. Init => InOnePlace /\ InTime
  BY PlacedInit
<1>2. Inductive /\ (InOnePlace /\ InTime) /\ [Next]_vars => (InOnePlace /\ InTime)'
  BY PlacedNext
<1>3. Inductive /\ (InOnePlace /\ InTime) => FlowsStored
  BY PlacedStored
<1> QED
  BY <1>1, <1>2, <1>3, CollectorInductive, PTL DEF Spec

-------------------------------------------------------------------------------
(* Files that can be read by themselves                                    *)

V9(s) == {exporter_data[s][i].sysid : i \in {k \in DOMAIN exporter_data[s] : Version(exporter_data[s][k]) = 9}}

(* The exporter of a flow stands before it, and so does its sampling,      *)
(* which is asked for the exporters with an id in ids.                     *)
FileReads(ids, records) ==
    \A p \in DOMAIN records : records[p].kind = "flow" /\ records[p].sysid # 0 =>
        /\ \E q \in 1 .. p - 1 : records[q] = [kind |-> "exporter", sysid |-> records[p].sysid]
        /\ records[p].sysid \in ids => records[p].interval = ReadSampling(records, p)

Contained == \A s \in Sources : \A records \in Files(s) : FileReads(V9(s), records)

(* The statistics at the end of the file count its flows.                  *)
StatsCount(records) ==
    \A p \in DOMAIN records :
        records[p].kind = "exporter" /\ records[p].sysid # 0 =>
            /\ records[Len(records)].kind = "stats"
            /\ \E stat \in ToSet(records[Len(records)].stat) :
                  /\ stat.sysid = records[p].sysid
                  /\ stat.flows = Count(records, stat.sysid)

StatsFit == ~dynamic => \A s \in Sources : \A i \in DOMAIN archive[s] : StatsCount(archive[s][i].records)

LEMMA V9Facts ==
  ASSUME NEW s, NEW id
  PROVE  IsV9(s, id) <=> id \in V9(s)
BY DEF IsV9, V9, ToSet

LEMMA ContainedFiles ==
  ASSUME Contained, StatsFit
  PROVE  FilesSelfContained
<1>1. SamplingDescribed
  <2> SUFFICES ASSUME NEW s \in Sources, NEW records \in Files(s), NEW p \in DOMAIN records,
                      records[p].kind = "flow", records[p].sysid # 0, IsV9(s, records[p].sysid)
               PROVE  records[p].interval = ReadSampling(records, p)
    BY DEF SamplingDescribed
  <2>1. records[p].sysid \in V9(s)
    BY V9Facts
  <2> QED
    BY <2>1 DEF Contained, FileReads
<1>2. \A s \in Sources : \A records \in Files(s) : \A p \in DOMAIN records :
          records[p].kind = "flow" /\ records[p].sysid # 0 =>
              \E q \in 1 .. p - 1 : records[q] = [kind |-> "exporter", sysid |-> records[p].sysid]
  BY DEF Contained, FileReads
<1>3. ~dynamic => \A s \in Sources : \A i \in DOMAIN archive[s] :
          LET records == archive[s][i].records
          IN \A p \in DOMAIN records :
               records[p].kind = "exporter" /\ records[p].sysid # 0 =>
                 /\ records[Len(records)].kind = "stats"
                 /\ \E stat \in ToSet(records[Len(records)].stat) :
                       /\ stat.sysid = records[p].sysid
                       /\ stat.flows = Count(records, stat.sysid)
  BY DEF StatsFit, StatsCount
<1> QED
  BY <1>1, <1>2, <1>3 DEF FilesSelfContained

(* What is read of a flow depends on what stands before it.                *)
LEMMA ReadsBefore ==
  ASSUME NEW a, NEW b, NEW p \in Nat \ {0}, \A q \in 1 .. p : b[q] = a[q]
  PROVE  ReadSampling(b, p) = ReadSampling(a, p)
<1> DEFINE LastA(id) == {q \in 1 .. p - 1 : a[q].kind = "sampler" /\ a[q].sysid = a[p].sysid /\ a[q].id = id}
           LastB(id) == {q \in 1 .. p - 1 : b[q].kind = "sampler" /\ b[q].sysid = b[p].sysid /\ b[q].id = id}
<1>1. b[p] = a[p]
  OBVIOUS
<1>2. \A id : LastB(id) = LastA(id)
  BY <1>1
<1>3. ASSUME NEW id, LastA(id) # {}
      PROVE  b[Max(LastA(id))] = a[Max(LastA(id))]
  <2>1. LastA(id) \subseteq 1 .. p - 1 /\ p - 1 \in Nat
    OBVIOUS
  <2> HIDE DEF LastA
  <2>2. Max(LastA(id)) \in LastA(id)
    BY <1>3, <2>1, MaxInSet
  <2> QED
    BY <2>1, <2>2
<1>4. ReadSampling(a, p) =
        CASE LastA(a[p].sampler) # {} -> a[Max(LastA(a[p].sampler))].interval
          [] LastA(a[p].sampler) = {} /\ LastA(Generic) # {} -> a[Max(LastA(Generic))].interval
          [] OTHER -> 1
  BY DEF ReadSampling
<1>5. ReadSampling(b, p) =
        CASE LastB(b[p].sampler) # {} -> b[Max(LastB(b[p].sampler))].interval
          [] LastB(b[p].sampler) = {} /\ LastB(Generic) # {} -> b[Max(LastB(Generic))].interval
          [] OTHER -> 1
  BY DEF ReadSampling
<1> HIDE DEF LastA, LastB
<1> QED
  BY <1>1, <1>2, <1>3, <1>4, <1>5

LEMMA ReadsOn ==
  ASSUME NEW ids, NEW a \in Seq(FileRecords), NEW b \in Seq(FileRecords), FileReads(ids, a),
         \A q \in DOMAIN a : q \in DOMAIN b /\ b[q] = a[q],
         \A q \in DOMAIN b : q \in DOMAIN a \/ b[q].kind # "flow"
  PROVE  FileReads(ids, b)
<1> SUFFICES ASSUME NEW p \in DOMAIN b, b[p].kind = "flow", b[p].sysid # 0
             PROVE  /\ \E q \in 1 .. p - 1 : b[q] = [kind |-> "exporter", sysid |-> b[p].sysid]
                    /\ b[p].sysid \in ids => b[p].interval = ReadSampling(b, p)
  BY DEF FileReads
<1>1. p \in DOMAIN a /\ b[p] = a[p] /\ DOMAIN a = 1 .. Len(a) /\ Len(a) \in Nat
  OBVIOUS
<1>2. p \in Nat \ {0} /\ \A q \in 1 .. p : b[q] = a[q]
  BY <1>1
<1>3. ReadSampling(b, p) = ReadSampling(a, p)
  BY <1>2, ReadsBefore
<1>4. /\ \E q \in 1 .. p - 1 : a[q] = [kind |-> "exporter", sysid |-> a[p].sysid]
      /\ a[p].sysid \in ids => a[p].interval = ReadSampling(a, p)
  BY <1>1 DEF FileReads
<1>5. \A q \in 1 .. p - 1 : q \in 1 .. p
  BY <1>2
<1> QED
  BY <1>1, <1>2, <1>3, <1>4, <1>5

LEMMA ReadsFewer ==
  ASSUME NEW ids, NEW more, NEW records, FileReads(ids, records),
         \A p \in DOMAIN records : records[p].kind = "flow" /\ records[p].sysid # 0 =>
             (records[p].sysid \in more => records[p].sysid \in ids)
  PROVE  FileReads(more, records)
BY DEF FileReads

LEMMA ReadsNone ==
  ASSUME NEW ids, NEW records, FlowsIn(records) = {}
  PROVE  FileReads(ids, records)
BY DEF FileReads, FlowsIn

(* The record of a flow that is decoded agrees with the sampler records    *)
(* that are in the file.                                                   *)
LEMMA FlowReads ==
  ASSUME NEW ids, NEW records \in Seq(FileRecords), NEW e \in Exporters, NEW r \in FlowRecords,
         FileReads(ids, records),
         r.sysid = e.sysid, r.interval = SamplingOf(e.sampler, r.sampler),
         ExporterInfo(e) \in ToSet(records),
         r.sysid # 0 /\ r.sysid \in ids => SamplersWritten(records, e)
  PROVE  FileReads(ids, Append(records, r))
<1> DEFINE n == Len(records) + 1
           new == Append(records, r)
<1>1. r \in FileRecords /\ r.kind = "flow" /\ r.sampler \in {0} \cup SamplerIds
  BY DEF FlowRecords, FileRecords
<1>2. /\ DOMAIN new = (DOMAIN records) \cup {n} /\ DOMAIN records = 1 .. n - 1 /\ n \in Nat \ {0}
      /\ \A i \in DOMAIN records : new[i] = records[i]
      /\ new[n] = r
  BY <1>1, SeqAppend
<1> HIDE DEF new, n
<1>3. ASSUME NEW p \in DOMAIN records, records[p].kind = "flow", records[p].sysid # 0
      PROVE  /\ \E q \in 1 .. p - 1 : new[q] = [kind |-> "exporter", sysid |-> new[p].sysid]
             /\ new[p].sysid \in ids => new[p].interval = ReadSampling(new, p)
  <2>1. p \in Nat \ {0} /\ new[p] = records[p] /\ \A q \in 1 .. p : new[q] = records[q]
    BY <1>2
  <2>2. /\ \E q \in 1 .. p - 1 : records[q] = [kind |-> "exporter", sysid |-> records[p].sysid]
        /\ records[p].sysid \in ids => records[p].interval = ReadSampling(records, p)
    BY <1>3 DEF FileReads
  <2>3. ReadSampling(new, p) = ReadSampling(records, p)
    BY <2>1, ReadsBefore
  <2>4. \A q \in 1 .. p - 1 : q \in 1 .. p
    BY <2>1
  <2> QED
    BY <2>1, <2>2, <2>3, <2>4
<1>4. \E q \in 1 .. n - 1 : new[q] = [kind |-> "exporter", sysid |-> r.sysid]
  <2>1. PICK q \in DOMAIN records : records[q] = ExporterInfo(e)
    BY DEF ToSet
  <2> QED
    BY <1>2, <2>1 DEF ExporterInfo
<1>5. ASSUME SamplersWritten(records, e)
      PROVE  r.interval = ReadSampling(new, n)
  <2> DEFINE Prior(id) == {q \in 1 .. n - 1 : new[q].kind = "sampler" /\ new[q].sysid = new[n].sysid /\ new[q].id = id}
             Known(id) == IndexOfSampler(e.sampler, id)
  <2>1. \A id : Prior(id) = SamplersAt(records, e.sysid, id)
    <3> SUFFICES ASSUME NEW id PROVE Prior(id) = SamplersAt(records, e.sysid, id)
      OBVIOUS
    <3> QED
      BY <1>2 DEF SamplersAt
  <2>2. ReadSampling(new, n) =
          CASE Prior(new[n].sampler) # {} -> new[Max(Prior(new[n].sampler))].interval
            [] Prior(new[n].sampler) = {} /\ Prior(Generic) # {} -> new[Max(Prior(Generic))].interval
            [] OTHER -> 1
    BY DEF ReadSampling
  <2>3. ASSUME NEW id \in {Generic, 0} \cup SamplerIds
        PROVE  /\ Prior(id) = {} <=> Known(id) = {}
               /\ Prior(id) # {} => new[Max(Prior(id))].interval = e.sampler[CHOOSE i \in Known(id) : TRUE].interval
    <3>1. /\ SamplersAt(records, e.sysid, id) = {} <=> Known(id) = {}
          /\ \A i \in Known(id) : LastSampler(records, e.sysid, id).interval = e.sampler[i].interval
      BY <1>5 DEF SamplersWritten
    <3>2. Prior(id) = SamplersAt(records, e.sysid, id)
      BY <2>1
    <3>3. ASSUME Prior(id) # {}
          PROVE  new[Max(Prior(id))] = LastSampler(records, e.sysid, id)
      <4>1. Prior(id) \subseteq 1 .. n - 1 /\ n - 1 \in Nat
        BY <1>2
      <4>2. Max(Prior(id)) \in Prior(id)
        <5> HIDE DEF Prior
        <5> QED
          BY <3>3, <4>1, MaxInSet
      <4>3. Max(Prior(id)) \in DOMAIN records
        BY <1>2, <4>1, <4>2
      <4> HIDE DEF Prior
      <4> QED
        BY <1>2, <3>2, <4>3 DEF LastSampler
    <3> HIDE DEF Prior, Known
    <3> QED
      BY <3>1, <3>2, <3>3
  <2>4. SamplingOf(e.sampler, r.sampler) =
          CASE Known(r.sampler) # {} -> e.sampler[CHOOSE i \in Known(r.sampler) : TRUE].interval
            [] Known(r.sampler) = {} /\ Known(Generic) # {} -> e.sampler[CHOOSE i \in Known(Generic) : TRUE].interval
            [] OTHER -> 1
    BY DEF SamplingOf
  <2>5. new[n] = r /\ r.sampler \in {Generic, 0} \cup SamplerIds /\ Generic \in {Generic, 0} \cup SamplerIds
    BY <1>1, <1>2
  <2> HIDE DEF Prior, Known
  <2> QED
    BY <2>2, <2>3, <2>4, <2>5
<1> SUFFICES ASSUME NEW p \in DOMAIN new, new[p].kind = "flow", new[p].sysid # 0
             PROVE  /\ \E q \in 1 .. p - 1 : new[q] = [kind |-> "exporter", sysid |-> new[p].sysid]
                    /\ new[p].sysid \in ids => new[p].interval = ReadSampling(new, p)
  BY DEF FileReads, new
<1>6. CASE p \in DOMAIN records
  <2>1. records[p] = new[p]
    BY <1>2, <1>6
  <2> QED
    BY <1>3, <1>6, <2>1
<1>7. CASE p = n
  <2>1. new[p] = r
    BY <1>2, <1>7
  <2> QED
    BY <1>4, <1>5, <1>7, <2>1
<1> QED
  BY <1>2, <1>6, <1>7

(* StdRecords writes the samplers of all its exporters.                    *)
LEMMA StdSamplers ==
  ASSUME TypeOK, SysidsUnique, SamplersOnce, NEW s \in Sources, NEW i \in DOMAIN exporter_data[s],
         exporter_data[s][i].sysid # 0
  PROVE  SamplersWritten(StdRecords(s), exporter_data[s][i])
<1> DEFINE e == exporter_data[s][i]
           records == StdRecords(s)
<1>1. exporter_data[s] \in Seq(Exporters)
  BY DEF TypeOK
<1>2. e \in Exporters
  BY <1>1
<1>3. records \in Seq(FileRecords)
  BY <1>1, StdFacts
<1>4. \A j \in DOMAIN e.sampler : SamplerRecord(e, e.sampler[j]) \in ToSet(records)
  BY <1>1, StdFacts
<1>5. ASSUME NEW q \in DOMAIN records, records[q].kind = "sampler", records[q].sysid = e.sysid
      PROVE  \E j \in DOMAIN e.sampler : records[q] = SamplerRecord(e, e.sampler[j])
  <2>1. PICK k \in DOMAIN exporter_data[s] :
           \/ records[q] = ExporterInfo(exporter_data[s][k])
           \/ \E j \in DOMAIN exporter_data[s][k].sampler :
                 records[q] = SamplerRecord(exporter_data[s][k], exporter_data[s][k].sampler[j])
    BY <1>1, StdFacts
  <2>2. records[q] # ExporterInfo(exporter_data[s][k])
    BY <1>5 DEF ExporterInfo
  <2>3. PICK j \in DOMAIN exporter_data[s][k].sampler :
           records[q] = SamplerRecord(exporter_data[s][k], exporter_data[s][k].sampler[j])
    BY <2>1, <2>2
  <2>4. exporter_data[s][k].sysid = e.sysid
    BY <1>5, <2>3 DEF SamplerRecord
  <2>5. k = i
    BY <2>4 DEF SysidsUnique
  <2> QED
    BY <2>3, <2>5
<1>6. \A j, k \in DOMAIN e.sampler : e.sampler[j].id = e.sampler[k].id => j = k
  BY DEF SamplersOnce, Once
<1>7. ASSUME NEW j \in DOMAIN e.sampler
      PROVE  /\ SamplerRecord(e, e.sampler[j]).kind = "sampler" /\ SamplerRecord(e, e.sampler[j]).sysid = e.sysid
             /\ SamplerRecord(e, e.sampler[j]).id = e.sampler[j].id
             /\ SamplerRecord(e, e.sampler[j]).interval = e.sampler[j].interval
  BY DEF SamplerRecord
<1> HIDE DEF e, records
<1> SUFFICES ASSUME NEW id
             PROVE  /\ SamplersAt(records, e.sysid, id) = {} <=> IndexOfSampler(e.sampler, id) = {}
                    /\ \A j \in IndexOfSampler(e.sampler, id) :
                          LastSampler(records, e.sysid, id).interval = e.sampler[j].interval
  BY DEF SamplersWritten, e, records
<1>8. ASSUME NEW q \in SamplersAt(records, e.sysid, id)
      PROVE  \E j \in IndexOfSampler(e.sampler, id) : records[q].interval = e.sampler[j].interval
  <2>1. q \in DOMAIN records /\ records[q].kind = "sampler" /\ records[q].sysid = e.sysid /\ records[q].id = id
    BY <1>8 DEF SamplersAt
  <2>2. PICK j \in DOMAIN e.sampler : records[q] = SamplerRecord(e, e.sampler[j])
    BY <1>5, <2>1
  <2>3. e.sampler[j].id = id /\ records[q].interval = e.sampler[j].interval
    BY <1>7, <2>1, <2>2
  <2> QED
    BY <2>3 DEF IndexOfSampler
<1>9. ASSUME NEW j \in IndexOfSampler(e.sampler, id)
      PROVE  SamplersAt(records, e.sysid, id) # {}
  <2>1. j \in DOMAIN e.sampler /\ e.sampler[j].id = id
    BY <1>9 DEF IndexOfSampler
  <2>2. PICK q \in DOMAIN records : records[q] = SamplerRecord(e, e.sampler[j])
    BY <1>4, <2>1 DEF ToSet
  <2>3. q \in SamplersAt(records, e.sysid, id)
    BY <1>7, <2>1, <2>2 DEF SamplersAt
  <2> QED
    BY <2>3
<1>10. ASSUME NEW j \in IndexOfSampler(e.sampler, id)
       PROVE  LastSampler(records, e.sysid, id).interval = e.sampler[j].interval
  <2>1. SamplersAt(records, e.sysid, id) # {}
    BY <1>9
  <2>2. SamplersAt(records, e.sysid, id) \subseteq 1 .. Len(records) /\ Len(records) \in Nat
    BY <1>3 DEF SamplersAt
  <2>3. Max(SamplersAt(records, e.sysid, id)) \in SamplersAt(records, e.sysid, id)
    BY <2>1, <2>2, MaxInSet
  <2>4. PICK k \in IndexOfSampler(e.sampler, id) :
           records[Max(SamplersAt(records, e.sysid, id))].interval = e.sampler[k].interval
    BY <1>8, <2>3
  <2>5. k = j
    BY <1>6 DEF IndexOfSampler
  <2> QED
    BY <2>4, <2>5 DEF LastSampler
<1> QED
  BY <1>8, <1>9, <1>10

-------------------------------------------------------------------------------
(* What is written to the files stays readable                             *)

Readable == Described /\ SamplersOnce /\ Contained /\ StatsFit

LEMMA SameV9 ==
  ASSUME NEW s, DOMAIN exporter_data'[s] = DOMAIN exporter_data[s],
         \A i \in DOMAIN exporter_data[s] : /\ exporter_data'[s][i].key = exporter_data[s][i].key
                                            /\ exporter_data'[s][i].sysid = exporter_data[s][i].sysid
  PROVE  V9(s)' = V9(s)
<1>1. \A i \in DOMAIN exporter_data[s] : Version(exporter_data'[s][i]) = Version(exporter_data[s][i])
  BY DEF Version
<1>2. \A id : id \in V9(s)' <=> id \in V9(s)
  BY <1>1 DEF V9
<1> QED
  BY <1>2

LEMMA SameSamplers ==
  ASSUME NEW records, NEW e, NEW f, e.sysid = f.sysid, e.sampler = f.sampler, SamplersWritten(records, e)
  PROVE  SamplersWritten(records, f)
BY DEF SamplersWritten

LEMMA CalmReadable ==
  ASSUME Readable, Calm, dynamic' = dynamic, Open' => Open
  PROVE  Readable'
<1>1. /\ UNCHANGED <<file, archive>>
      /\ \A s \in Sources : DOMAIN exporter_data'[s] = DOMAIN exporter_data[s]
      /\ \A s \in Sources : \A i \in DOMAIN exporter_data[s] :
            /\ exporter_data'[s][i].key = exporter_data[s][i].key
            /\ exporter_data'[s][i].sysid = exporter_data[s][i].sysid
            /\ exporter_data'[s][i].sampler = exporter_data[s][i].sampler
  BY DEF Calm, Alike, Same
<1>2. Described'
  <2> SUFFICES ASSUME Open', NEW s \in Sources
               PROVE  /\ \A i \in DOMAIN exporter_data'[s] :
                            /\ ExporterInfo(exporter_data'[s][i]) \in ToSet(file'[s])
                            /\ Version(exporter_data'[s][i]) = 9 /\ exporter_data'[s][i].sysid # 0 =>
                                   SamplersWritten(file'[s], exporter_data'[s][i])
                      /\ \A q \in DOMAIN file'[s] : file'[s][q].kind = "exporter" =>
                            \E i \in DOMAIN exporter_data'[s] : exporter_data'[s][i].sysid = file'[s][q].sysid
    BY DEF Described
  <2>1. /\ \A i \in DOMAIN exporter_data[s] :
              /\ ExporterInfo(exporter_data[s][i]) \in ToSet(file[s])
              /\ Version(exporter_data[s][i]) = 9 /\ exporter_data[s][i].sysid # 0 =>
                     SamplersWritten(file[s], exporter_data[s][i])
        /\ \A q \in DOMAIN file[s] : file[s][q].kind = "exporter" =>
              \E i \in DOMAIN exporter_data[s] : exporter_data[s][i].sysid = file[s][q].sysid
    BY DEF Readable, Described
  <2>2. ASSUME NEW i \in DOMAIN exporter_data'[s]
        PROVE  /\ ExporterInfo(exporter_data'[s][i]) = ExporterInfo(exporter_data[s][i])
               /\ Version(exporter_data'[s][i]) = Version(exporter_data[s][i])
    BY <1>1 DEF ExporterInfo, Version
  <2>3. ASSUME NEW i \in DOMAIN exporter_data'[s], SamplersWritten(file[s], exporter_data[s][i])
        PROVE  SamplersWritten(file[s], exporter_data'[s][i])
    BY <1>1, <2>3, SameSamplers
  <2> QED
    BY <1>1, <2>1, <2>2, <2>3
<1>3. SamplersOnce'
  BY <1>1 DEF Readable, SamplersOnce
<1>4. Contained'
  <2> SUFFICES ASSUME NEW s \in Sources, NEW records \in Files(s)' PROVE FileReads(V9(s)', records)
    BY DEF Contained
  <2>1. records \in Files(s)
    BY <1>1 DEF Files
  <2>2. V9(s)' = V9(s)
    BY <1>1, SameV9
  <2> QED
    BY <2>1, <2>2 DEF Readable, Contained
<1>5. StatsFit'
  BY <1>1 DEF Readable, StatsFit
<1> QED
  BY <1>2, <1>3, <1>4, <1>5 DEF Readable

LEMMA StopsReadable ==
  ASSUME Inductive, Readable, Stops, dynamic' = dynamic
  PROVE  Readable'
<1>1. /\ UNCHANGED <<exporter_data, archive>> /\ main' \in {"exited", "dead"}
      /\ \A s \in Sources : file'[s] = <<>>
  BY DEF Stops
<1>2. Described'
  BY <1>1 DEF Described, Open
<1>3. SamplersOnce' /\ StatsFit'
  BY <1>1 DEF Readable, SamplersOnce, StatsFit
<1>4. Contained'
  <2> SUFFICES ASSUME NEW s \in Sources, NEW records \in Files(s)' PROVE FileReads(V9(s)', records)
    BY DEF Contained
  <2>1. records \in Files(s) \/ records = <<>>
    BY <1>1 DEF Files
  <2>2. V9(s)' = V9(s)
    BY <1>1 DEF V9
  <2>3. FlowsIn(<<>>) = {}
    BY DEF FlowsIn
  <2> QED
    BY <2>1, <2>2, <2>3, ReadsNone DEF Readable, Contained
<1> QED
  BY <1>2, <1>3, <1>4 DEF Readable

(* An appended record changes nothing for those before it.                 *)
LEMMA AppendReads ==
  ASSUME NEW ids, NEW records \in Seq(FileRecords), NEW r \in FileRecords, r.kind # "flow",
         FileReads(ids, records)
  PROVE  FileReads(ids, Append(records, r))
<1>1. /\ Append(records, r) \in Seq(FileRecords)
      /\ \A q \in DOMAIN records : q \in DOMAIN Append(records, r) /\ Append(records, r)[q] = records[q]
      /\ \A q \in DOMAIN Append(records, r) : q \in DOMAIN records \/ Append(records, r)[q].kind # "flow"
  BY SeqAppend
<1> QED
  BY <1>1, ReadsOn

LEMMA AppendedSet ==
  ASSUME NEW records \in Seq(FileRecords), NEW r \in FileRecords
  PROVE  ToSet(Append(records, r)) = ToSet(records) \cup {r}
<1> DEFINE new == Append(records, r)
<1>1. /\ DOMAIN new = (DOMAIN records) \cup {Len(records) + 1}
      /\ \A i \in DOMAIN records : new[i] = records[i]
      /\ new[Len(records) + 1] = r
  BY SeqAppend
<1> HIDE DEF new
<1>2. ToSet(new) = ToSet(records) \cup {r}
  BY <1>1 DEF ToSet
<1> QED
  BY <1>2 DEF new

LEMMA AppendContained ==
  ASSUME FileTypes, NEW here \in Sources, fs = here, NEW r \in FileRecords, AppendToBuffer(fs, r),
         archive' = archive,
         \A s \in Sources : \A records \in Files(s) : FileReads(V9(s)', records),
         FileReads(V9(here)', file[here]) => FileReads(V9(here)', Append(file[here], r))
  PROVE  Contained'
<1>1. \A s \in Sources : file'[s] = IF s = here THEN Append(file[here], r) ELSE file[s]
  BY AppendsOne
<1> SUFFICES ASSUME NEW s \in Sources, NEW records \in Files(s)' PROVE FileReads(V9(s)', records)
  BY DEF Contained
<1>2. CASE records \in Files(s)
  BY <1>2
<1>3. CASE records \notin Files(s)
  <2>1. s = here /\ records = Append(file[here], r)
    BY <1>1, <1>3 DEF Files
  <2>2. file[here] \in Files(here)
    BY DEF Files
  <2>3. FileReads(V9(here)', Append(file[here], r))
    BY <2>2
  <2> QED
    BY <2>1, <2>3
<1> QED
  BY <1>2, <1>3

LEMMA UpdateSame ==
  ASSUME TypeOK, Places, main = "sets", NEW new \in Exporters, Update(new),
         new.key = TheExporter.key, new.sysid = TheExporter.sysid,
         NEW s \in Sources
  PROVE  /\ V9(s)' = V9(s)
         /\ DOMAIN exporter_data'[s] = DOMAIN exporter_data[s]
         /\ \A i \in DOMAIN exporter_data[s] :
               /\ exporter_data'[s][i] = IF s = fs /\ i = exporter THEN new ELSE exporter_data[s][i]
               /\ exporter_data'[s][i].sysid = exporter_data[s][i].sysid
               /\ Version(exporter_data'[s][i]) = Version(exporter_data[s][i])
<1>1. /\ DOMAIN exporter_data'[s] = DOMAIN exporter_data[s]
      /\ \A i \in DOMAIN exporter_data[s] :
            exporter_data'[s][i] = IF s = fs /\ i = exporter THEN new ELSE exporter_data[s][i]
  BY UpdateOne
<1>2. \A i \in DOMAIN exporter_data[s] :
         exporter_data'[s][i].key = exporter_data[s][i].key /\ exporter_data'[s][i].sysid = exporter_data[s][i].sysid
  BY <1>1 DEF TheExporter
<1>3. V9(s)' = V9(s)
  BY <1>1, <1>2, SameV9
<1> QED
  BY <1>1, <1>2, <1>3 DEF Version

(* The file says of the samplers what the changed exporter has.            *)
SamplersFollow(r, new) ==
    /\ Once(TheExporter.sampler) /\ Version(TheExporter) = 9 /\ TheExporter.sysid # 0
    /\ SamplersWritten(file[fs], TheExporter)
    => SamplersWritten(Append(file[fs], r), new)

(* The file of the packet can be read with the record at its end.          *)
ReadsOnWith(r) ==
    \A ids : /\ FileReads(ids, file[fs]) /\ ExporterInfo(TheExporter) \in ToSet(file[fs])
             /\ (r.sysid # 0 /\ r.sysid \in ids => SamplersWritten(file[fs], TheExporter))
             => FileReads(ids, Append(file[fs], r))

(* A record is appended for the exporter at hand, which is changed to new. *)
LEMMA UpdateReadable ==
  ASSUME Inductive, Readable, main = "sets", main' = "sets", NEW new \in Exporters, Update(new),
         new.key = TheExporter.key, new.sysid = TheExporter.sysid,
         NEW r \in FileRecords, AppendToBuffer(fs, r), UNCHANGED <<archive, dynamic>>,
         r.kind \in {"flow", "sampler"}, r.sysid = TheExporter.sysid,
         Once(TheExporter.sampler) => Once(new.sampler),
         SamplersFollow(r, new), ReadsOnWith(r)
  PROVE  Readable'
<1>1. TypeOK /\ FileTypes /\ Places /\ SysidsUnique
  BY DEF Inductive, IInv
<1>2. fs \in Sources /\ exporter \in DOMAIN exporter_data[fs] /\ TheExporter = exporter_data[fs][exporter]
  BY <1>1, AtSets DEF TheExporter
<1>3. \A s \in Sources :
         /\ V9(s)' = V9(s)
         /\ DOMAIN exporter_data'[s] = DOMAIN exporter_data[s]
         /\ \A i \in DOMAIN exporter_data[s] :
               /\ exporter_data'[s][i] = IF s = fs /\ i = exporter THEN new ELSE exporter_data[s][i]
               /\ exporter_data'[s][i].sysid = exporter_data[s][i].sysid
               /\ Version(exporter_data'[s][i]) = Version(exporter_data[s][i])
  BY <1>1, UpdateSame
<1>4. \A s \in Sources : file'[s] = IF s = fs THEN Append(file[fs], r) ELSE file[s]
  BY <1>1, <1>2, AppendsOne
<1>5. file[fs] \in Seq(FileRecords)
  BY <1>1, <1>2 DEF FileTypes
<1>6. Open
  BY DEF Open
<1>7. SamplersOnce /\ Contained /\ StatsFit
  BY DEF Readable
<1>8. \A s \in Sources :
        /\ \A i \in DOMAIN exporter_data[s] :
              /\ ExporterInfo(exporter_data[s][i]) \in ToSet(file[s])
              /\ Version(exporter_data[s][i]) = 9 /\ exporter_data[s][i].sysid # 0 =>
                     SamplersWritten(file[s], exporter_data[s][i])
        /\ \A q \in DOMAIN file[s] : file[s][q].kind = "exporter" =>
              \E i \in DOMAIN exporter_data[s] : exporter_data[s][i].sysid = file[s][q].sysid
  BY <1>6 DEF Readable, Described
<1>9. SamplersOnce'
  BY <1>2, <1>3, <1>7 DEF SamplersOnce
<1>10. StatsFit'
  BY <1>7 DEF StatsFit
<1>11. Described'
  <2> SUFFICES ASSUME NEW s \in Sources
               PROVE  /\ \A i \in DOMAIN exporter_data'[s] :
                            /\ ExporterInfo(exporter_data'[s][i]) \in ToSet(file'[s])
                            /\ Version(exporter_data'[s][i]) = 9 /\ exporter_data'[s][i].sysid # 0 =>
                                   SamplersWritten(file'[s], exporter_data'[s][i])
                      /\ \A q \in DOMAIN file'[s] : file'[s][q].kind = "exporter" =>
                            \E i \in DOMAIN exporter_data'[s] : exporter_data'[s][i].sysid = file'[s][q].sysid
    BY DEF Described
  <2>1. ASSUME NEW i \in DOMAIN exporter_data'[s]
        PROVE  ExporterInfo(exporter_data'[s][i]) \in ToSet(file'[s])
    <3>1. ExporterInfo(exporter_data'[s][i]) = ExporterInfo(exporter_data[s][i]) /\ i \in DOMAIN exporter_data[s]
      BY <1>3 DEF ExporterInfo
    <3>2. ExporterInfo(exporter_data[s][i]) \in ToSet(file[s])
      BY <1>8, <3>1
    <3>3. ToSet(Append(file[fs], r)) = ToSet(file[fs]) \cup {r}
      BY <1>5, AppendedSet
    <3> QED
      BY <1>4, <3>1, <3>2, <3>3
  <2>2. ASSUME NEW i \in DOMAIN exporter_data'[s], Version(exporter_data'[s][i]) = 9, exporter_data'[s][i].sysid # 0
        PROVE  SamplersWritten(file'[s], exporter_data'[s][i])
    <3>1. /\ i \in DOMAIN exporter_data[s] /\ Version(exporter_data[s][i]) = 9 /\ exporter_data[s][i].sysid # 0
          /\ SamplersWritten(file[s], exporter_data[s][i])
      BY <1>3, <1>8, <2>2
    <3>2. CASE s = fs /\ i = exporter
      <4>1. Once(TheExporter.sampler)
        BY <1>2, <1>7 DEF SamplersOnce
      <4> QED
        BY <1>2, <1>3, <1>4, <3>1, <3>2, <4>1 DEF SamplersFollow
    <3>3. CASE s = fs /\ i # exporter
      <4>1. exporter_data[s][i].sysid # r.sysid
        BY <1>1, <1>2, <3>1, <3>3 DEF SysidsUnique
      <4>2. SamplersWritten(Append(file[fs], r), exporter_data[s][i])
        BY <1>5, <3>1, <3>3, <4>1, SamplersKept
      <4> QED
        BY <1>3, <1>4, <3>1, <3>3, <4>2
    <3>4. CASE s # fs
      BY <1>3, <1>4, <3>1, <3>4
    <3> QED
      BY <3>2, <3>3, <3>4
  <2>3. ASSUME NEW q \in DOMAIN file'[s], file'[s][q].kind = "exporter"
        PROVE  \E i \in DOMAIN exporter_data'[s] : exporter_data'[s][i].sysid = file'[s][q].sysid
    <3>1. q \in DOMAIN file[s] /\ file'[s][q] = file[s][q]
      <4>1. CASE s = fs
        <5>1. file'[s] = Append(file[s], r) /\ file[s] \in Seq(FileRecords)
          BY <1>4, <1>5, <4>1
        <5>2. q \in DOMAIN Append(file[s], r) /\ Append(file[s], r)[q].kind = "exporter"
          BY <2>3, <5>1
        <5>3. q # Len(file[s]) + 1
          BY <5>1, <5>2, SeqAppend
        <5>4. q \in DOMAIN file[s] /\ Append(file[s], r)[q] = file[s][q]
          BY <5>1, <5>2, <5>3, SeqAppend
        <5> QED
          BY <5>1, <5>4
      <4>2. CASE s # fs
        BY <1>4, <4>2
      <4> QED
        BY <4>1, <4>2
    <3>2. \E i \in DOMAIN exporter_data[s] : exporter_data[s][i].sysid = file[s][q].sysid
      BY <1>8, <2>3, <3>1
    <3> QED
      BY <1>3, <3>1, <3>2
  <2> QED
    BY <2>1, <2>2, <2>3
<1>12. Contained'
  <2>1. PICK here \in Sources : here = fs
    BY <1>2
  <2>2. \A s \in Sources : \A records \in Files(s) : FileReads(V9(s)', records)
    BY <1>3, <1>7 DEF Contained
  <2>3. ExporterInfo(TheExporter) \in ToSet(file[fs])
    BY <1>2, <1>8
  <2>4. r.sysid # 0 /\ r.sysid \in V9(here) => SamplersWritten(file[fs], TheExporter)
    <3> SUFFICES ASSUME r.sysid # 0, r.sysid \in V9(here) PROVE SamplersWritten(file[fs], TheExporter)
      OBVIOUS
    <3>1. PICK k \in DOMAIN exporter_data[fs] :
             Version(exporter_data[fs][k]) = 9 /\ exporter_data[fs][k].sysid = r.sysid
      BY <2>1 DEF V9
    <3>2. k = exporter
      BY <1>1, <1>2, <3>1 DEF SysidsUnique
    <3> QED
      BY <1>2, <1>8, <3>1, <3>2
  <2>5. FileReads(V9(here)', file[here]) => FileReads(V9(here)', Append(file[here], r))
    <3>1. V9(here)' = V9(here)
      BY <1>3
    <3> QED
      BY <2>1, <2>3, <2>4, <3>1 DEF ReadsOnWith
  <2> QED
    BY <1>1, <2>1, <2>2, <2>5, AppendContained
<1> QED
  BY <1>9, <1>10, <1>11, <1>12 DEF Readable

LEMMA FlowReadable ==
  ASSUME Inductive, Readable, main = "sets", main' = "sets", Flow, UNCHANGED <<archive, dynamic>>
  PROVE  Readable'
<1>1. TypeOK /\ FileTypes /\ Places
  BY DEF Inductive, IInv
<1>2. PICK new \in Exporters, sampler \in {0} \cup SamplerIds :
        /\ Update(new)
        /\ new.key = TheExporter.key /\ new.sysid = TheExporter.sysid
        /\ new.sampler = TheExporter.sampler
        /\ AppendToBuffer(fs, FlowRecord(TheExporter, sampler))
  BY DEF Flow
<1>3. TheExporter \in Exporters /\ fs \in Sources
  BY <1>1, AtSets
<1>4. PICK r \in FlowRecords : r = FlowRecord(TheExporter, sampler)
  BY <1>1, <1>3, FlowRecordFacts
<1>5. /\ r \in FileRecords /\ r.kind = "flow" /\ r.sysid = TheExporter.sysid /\ r.sampler = sampler
      /\ r.interval = SamplingOf(TheExporter.sampler, sampler)
  BY <1>1, <1>3, <1>4, FlowRecordFacts
<1>6. file[fs] \in Seq(FileRecords)
  BY <1>1, <1>3 DEF FileTypes
<1>7. Once(TheExporter.sampler) => Once(new.sampler)
  BY <1>2
<1>8. ASSUME TheExporter.sysid # 0, SamplersWritten(file[fs], TheExporter)
      PROVE  SamplersWritten(Append(file[fs], r), new)
  BY <1>2, <1>5, <1>6, <1>8, SamplersKept
<1>9. ASSUME NEW ids, FileReads(ids, file[fs]), ExporterInfo(TheExporter) \in ToSet(file[fs]),
             r.sysid # 0 /\ r.sysid \in ids => SamplersWritten(file[fs], TheExporter)
      PROVE  FileReads(ids, Append(file[fs], r))
  BY <1>3, <1>5, <1>6, <1>9, FlowReads
<1>10. AppendToBuffer(fs, r) /\ r.kind \in {"flow", "sampler"}
  BY <1>2, <1>4, <1>5
<1>11. SamplersFollow(r, new)
  BY <1>8 DEF SamplersFollow
<1>12. ReadsOnWith(r)
  BY <1>9 DEF ReadsOnWith
<1>13. r \in FileRecords /\ r.sysid = TheExporter.sysid /\ UNCHANGED <<archive, dynamic>>
  BY <1>5
<1>14. Update(new) /\ new.key = TheExporter.key /\ new.sysid = TheExporter.sysid
  BY <1>2
<1> QED
  BY <1>7, <1>10, <1>11, <1>12, <1>13, <1>14, UpdateReadable

LEMMA SamplerReadable ==
  ASSUME Inductive, Readable, main = "sets", main' = "sets", Sampler, UNCHANGED <<archive, dynamic>>
  PROVE  Readable'
<1>1. TypeOK /\ FileTypes /\ Places
  BY DEF Inductive, IInv
<1>2. PICK new \in Exporters, r \in SamplerRecords :
        /\ Update(new)
        /\ new.key = TheExporter.key /\ new.sysid = TheExporter.sysid
        /\ Once(TheExporter.sampler) => Once(new.sampler)
        /\ AppendToBuffer(fs, r) /\ r.sysid = TheExporter.sysid
        /\ Once(TheExporter.sampler) /\ Version(TheExporter) = 9 /\ SamplersWritten(file[fs], TheExporter) =>
                SamplersWritten(Append(file[fs], r), new)
  BY DEF Sampler
<1>3. fs \in Sources
  BY <1>1, AtSets
<1>4. r \in FileRecords /\ r.kind = "sampler"
  BY DEF FileRecords, SamplerRecords
<1>5. file[fs] \in Seq(FileRecords)
  BY <1>1, <1>3 DEF FileTypes
<1>6. ASSUME NEW ids, FileReads(ids, file[fs])
      PROVE  FileReads(ids, Append(file[fs], r))
  BY <1>4, <1>5, <1>6, AppendReads
<1>7. SamplersFollow(r, new)
  BY <1>2 DEF SamplersFollow
<1>8. ReadsOnWith(r)
  BY <1>6 DEF ReadsOnWith
<1>9. r \in FileRecords /\ r.kind \in {"flow", "sampler"} /\ UNCHANGED <<archive, dynamic>>
  BY <1>4
<1>10. /\ Update(new) /\ new.key = TheExporter.key /\ new.sysid = TheExporter.sysid
       /\ AppendToBuffer(fs, r) /\ r.sysid = TheExporter.sysid
       /\ Once(TheExporter.sampler) => Once(new.sampler)
  BY <1>2
<1> QED
  BY <1>7, <1>8, <1>9, <1>10, UpdateReadable

LEMMA NewcomerReadable ==
  ASSUME Inductive, Readable, main = "packet", main' = "sets", Newcomer, UNCHANGED <<archive, dynamic>>
  PROVE  Readable'
<1>1. TypeOK /\ FileTypes /\ Places /\ SysidsUnique /\ RecordsNamed
  BY DEF Inductive, IInv
<1>2. PICK new \in Exporters :
        /\ exporter_data' = [exporter_data EXCEPT ![fs] = Append(@, new)]
        /\ new.sysid = AssignExporterID /\ new.sampler = <<>>
        /\ AppendToBuffer(fs, ExporterInfo(new))
  BY DEF Newcomer
<1>3. fs \in Sources
  BY <1>1, AtPacket
<1>4. PICK r \in FileRecords : r = ExporterInfo(new) /\ r.kind = "exporter" /\ r.sysid = new.sysid
  <2>1. new.sysid \in 0 .. MaxSysId
    BY DEF Exporters
  <2>2. [kind |-> "exporter", sysid |-> new.sysid] \in FileRecords
    BY <2>1 DEF FileRecords, ExporterRecords
  <2> QED
    BY <2>2 DEF ExporterInfo
<1>5. new.sysid # 0 => new.sysid \in Nat /\ exporter_sysid < new.sysid
  BY <1>1, <1>2, IdsFacts
<1>6. file[fs] \in Seq(FileRecords)
  BY <1>1, <1>3 DEF FileTypes
<1>7. \A s \in Sources : file'[s] = IF s = fs THEN Append(file[fs], r) ELSE file[s]
  BY <1>1, <1>2, <1>3, <1>4, AppendsOne
<1> DEFINE n == Len(exporter_data[fs]) + 1
<1>8. \A s \in Sources :
         /\ DOMAIN exporter_data'[s] = IF s = fs THEN (DOMAIN exporter_data[s]) \cup {n} ELSE DOMAIN exporter_data[s]
         /\ \A i \in DOMAIN exporter_data[s] : exporter_data'[s][i] = exporter_data[s][i]
  BY <1>1, <1>2, NewcomerList
<1>9. exporter_data'[fs][n] = new
  BY <1>1, <1>2, NewcomerList
<1> HIDE DEF n
<1>10. SamplersOnce /\ Contained /\ StatsFit /\ Open
  BY DEF Readable, Open
<1>11. \A s \in Sources :
        /\ \A i \in DOMAIN exporter_data[s] :
              /\ ExporterInfo(exporter_data[s][i]) \in ToSet(file[s])
              /\ Version(exporter_data[s][i]) = 9 /\ exporter_data[s][i].sysid # 0 =>
                     SamplersWritten(file[s], exporter_data[s][i])
        /\ \A q \in DOMAIN file[s] : file[s][q].kind = "exporter" =>
              \E i \in DOMAIN exporter_data[s] : exporter_data[s][i].sysid = file[s][q].sysid
  BY <1>10 DEF Readable, Described
<1>12. /\ \A q \in DOMAIN file[fs] : q \in DOMAIN Append(file[fs], r) /\ Append(file[fs], r)[q] = file[fs][q]
       /\ \A q \in DOMAIN Append(file[fs], r) : q \in DOMAIN file[fs] \/ Append(file[fs], r)[q] = r
       /\ Append(file[fs], r) \in Seq(FileRecords)
       /\ ToSet(Append(file[fs], r)) = ToSet(file[fs]) \cup {r}
  BY <1>6, SeqAppend, AppendedSet
<1>13. SamplersOnce'
  <2> SUFFICES ASSUME NEW s \in Sources, NEW k \in DOMAIN exporter_data'[s]
               PROVE  Once(exporter_data'[s][k].sampler)
    BY DEF SamplersOnce
  <2>1. CASE k \in DOMAIN exporter_data[s]
    BY <1>8, <1>10, <2>1 DEF SamplersOnce
  <2>2. CASE k \notin DOMAIN exporter_data[s]
    <3>1. exporter_data'[s][k].sampler = <<>>
      BY <1>2, <1>8, <1>9, <2>2
    <3>2. Once(<<>>)
      BY DEF Once
    <3> QED
      BY <3>1, <3>2
  <2> QED
    BY <2>1, <2>2
<1>14. StatsFit'
  BY <1>10 DEF StatsFit
<1>15. ASSUME new.sysid # 0
       PROVE  SamplersWritten(Append(file[fs], r), new)
  <2>1. file[fs] \in Files(fs)
    BY DEF Files
  <2>2. \A q \in DOMAIN file[fs] : file[fs][q].kind # "stats" => file[fs][q].sysid # new.sysid
    BY <1>1, <1>3, <1>5, <1>15, <2>1, NoFlowsYet
  <2>3. \A id : SamplersAt(Append(file[fs], r), new.sysid, id) = {}
    <3> SUFFICES ASSUME NEW id, NEW q \in SamplersAt(Append(file[fs], r), new.sysid, id) PROVE FALSE
      OBVIOUS
    <3>1. /\ q \in DOMAIN Append(file[fs], r) /\ Append(file[fs], r)[q].kind = "sampler"
          /\ Append(file[fs], r)[q].sysid = new.sysid
      BY DEF SamplersAt
    <3> QED
      BY <1>4, <1>12, <2>2, <3>1
  <2>4. \A id : IndexOfSampler(new.sampler, id) = {}
    BY <1>2 DEF IndexOfSampler
  <2> QED
    BY <2>3, <2>4 DEF SamplersWritten
<1>16. Described'
  <2> SUFFICES ASSUME NEW s \in Sources
               PROVE  /\ \A i \in DOMAIN exporter_data'[s] :
                            /\ ExporterInfo(exporter_data'[s][i]) \in ToSet(file'[s])
                            /\ Version(exporter_data'[s][i]) = 9 /\ exporter_data'[s][i].sysid # 0 =>
                                   SamplersWritten(file'[s], exporter_data'[s][i])
                      /\ \A q \in DOMAIN file'[s] : file'[s][q].kind = "exporter" =>
                            \E i \in DOMAIN exporter_data'[s] : exporter_data'[s][i].sysid = file'[s][q].sysid
    BY DEF Described
  <2>1. CASE s # fs
    <3>1. /\ file'[s] = file[s] /\ DOMAIN exporter_data'[s] = DOMAIN exporter_data[s]
          /\ \A i \in DOMAIN exporter_data[s] : exporter_data'[s][i] = exporter_data[s][i]
      BY <1>7, <1>8, <2>1
    <3>2. ASSUME NEW i \in DOMAIN exporter_data'[s]
          PROVE  /\ ExporterInfo(exporter_data'[s][i]) \in ToSet(file'[s])
                 /\ Version(exporter_data'[s][i]) = 9 /\ exporter_data'[s][i].sysid # 0 =>
                        SamplersWritten(file'[s], exporter_data'[s][i])
      BY <1>11, <3>1
    <3>3. ASSUME NEW q \in DOMAIN file'[s], file'[s][q].kind = "exporter"
          PROVE  \E i \in DOMAIN exporter_data'[s] : exporter_data'[s][i].sysid = file'[s][q].sysid
      <4>1. PICK i \in DOMAIN exporter_data[s] : exporter_data[s][i].sysid = file[s][q].sysid
        BY <1>11, <3>1, <3>3
      <4> QED
        BY <3>1, <4>1
    <3> QED
      BY <3>2, <3>3
  <2>2. CASE s = fs
    <3>1. file'[s] = Append(file[fs], r) /\ DOMAIN exporter_data'[s] = (DOMAIN exporter_data[s]) \cup {n}
      BY <1>7, <1>8, <2>2
    <3>2. ASSUME NEW i \in DOMAIN exporter_data[s]
          PROVE  /\ ExporterInfo(exporter_data'[s][i]) \in ToSet(file'[s])
                 /\ Version(exporter_data'[s][i]) = 9 /\ exporter_data'[s][i].sysid # 0 =>
                        SamplersWritten(file'[s], exporter_data'[s][i])
      <4>1. exporter_data'[s][i] = exporter_data[s][i]
        BY <1>8
      <4>2. ExporterInfo(exporter_data[s][i]) \in ToSet(file'[s])
        BY <1>11, <1>12, <2>2, <3>1
      <4>3. ASSUME Version(exporter_data[s][i]) = 9, exporter_data[s][i].sysid # 0
            PROVE  SamplersWritten(Append(file[fs], r), exporter_data[s][i])
        <5>1. SamplersWritten(file[fs], exporter_data[s][i])
          BY <1>11, <2>2, <4>3
        <5> QED
          BY <1>4, <1>6, <5>1, SamplersKept
      <4> QED
        BY <3>1, <4>1, <4>2, <4>3
    <3>3. /\ ExporterInfo(exporter_data'[s][n]) \in ToSet(file'[s])
          /\ Version(exporter_data'[s][n]) = 9 /\ exporter_data'[s][n].sysid # 0 =>
                 SamplersWritten(file'[s], exporter_data'[s][n])
      BY <1>4, <1>9, <1>12, <1>15, <2>2, <3>1
    <3>4. ASSUME NEW q \in DOMAIN file'[s], file'[s][q].kind = "exporter"
          PROVE  \E i \in DOMAIN exporter_data'[s] : exporter_data'[s][i].sysid = file'[s][q].sysid
      <4>1. (q \in DOMAIN file[fs] /\ file'[s][q] = file[fs][q]) \/ file'[s][q] = r
        BY <1>12, <3>1
      <4>2. CASE file'[s][q] = r
        BY <1>4, <1>9, <2>2, <3>1, <4>2
      <4>3. CASE q \in DOMAIN file[fs] /\ file'[s][q] = file[fs][q]
        <5>1. PICK i \in DOMAIN exporter_data[s] : exporter_data[s][i].sysid = file'[s][q].sysid
          BY <1>11, <2>2, <3>4, <4>3
        <5> QED
          BY <1>8, <3>1, <5>1
      <4> QED
        BY <4>1, <4>2, <4>3
    <3> QED
      BY <3>1, <3>2, <3>3, <3>4
  <2> QED
    BY <2>1, <2>2
<1>17. Contained'
  <2>1. PICK here \in Sources : here = fs
    BY <1>3
  <2>2. ASSUME NEW s \in Sources, NEW records \in Files(s)
        PROVE  FileReads(V9(s)', records)
    <3>1. FileReads(V9(s), records)
      BY <1>10 DEF Contained
    <3>2. ASSUME NEW p \in DOMAIN records, records[p].kind = "flow", records[p].sysid # 0,
                 records[p].sysid \in V9(s)'
          PROVE  records[p].sysid \in V9(s)
      <4>1. PICK k \in DOMAIN exporter_data'[s] :
               Version(exporter_data'[s][k]) = 9 /\ exporter_data'[s][k].sysid = records[p].sysid
        BY <3>2 DEF V9
      <4>2. CASE k \in DOMAIN exporter_data[s]
        <5>1. exporter_data'[s][k] = exporter_data[s][k]
          BY <1>8, <4>2
        <5> QED
          BY <4>1, <4>2, <5>1 DEF V9
      <4>3. CASE k \notin DOMAIN exporter_data[s]
        <5>1. exporter_data'[s][k] = new
          BY <1>8, <1>9, <4>3
        <5>2. new.sysid # 0 /\ records[p].sysid = new.sysid
          BY <3>2, <4>1, <5>1
        <5>3. records[p].sysid # new.sysid
          BY <1>1, <1>5, <3>2, <5>2, NoFlowsYet
        <5> QED
          BY <5>2, <5>3
      <4> QED
        BY <4>2, <4>3
    <3> QED
      BY <3>1, <3>2, ReadsFewer
  <2>3. FileReads(V9(here)', file[here]) => FileReads(V9(here)', Append(file[here], r))
    BY <1>4, <1>6, <2>1, AppendReads
  <2>4. AppendToBuffer(fs, r)
    BY <1>2, <1>4
  <2> QED
    BY <1>1, <2>1, <2>2, <2>3, <2>4, AppendContained
<1> QED
  BY <1>13, <1>14, <1>16, <1>17 DEF Readable

(* What the rotation puts into the archive                                 *)
LEMMA RotationArchive ==
  ASSUME TypeOK, FileTypes, CountersMatch, NEW rotated, NEW opened, NEW badRename,
         Rotation(rotated, opened, badRename), NEW s \in Sources, NEW i \in DOMAIN archive'[s]
  PROVE  (i \in DOMAIN archive[s] /\ archive'[s][i] = archive[s][i]) \/ archive'[s][i].records = Closed(s)
<1> DEFINE entry == [start |-> t_start, records |-> Closed(s)]
<1>1. archive'[s] = Append(archive[s], entry) \/ archive'[s] = archive[s]
  BY RotationFiles
<1>2. entry \in Archived /\ archive[s] \in Seq(Archived) /\ entry.records = Closed(s)
  BY ClosedFacts DEF TypeOK, FileTypes, Archived
<1> HIDE DEF entry
<1>3. CASE archive'[s] = Append(archive[s], entry)
  <2>1. i \in DOMAIN Append(archive[s], entry)
    BY <1>3
  <2>2. i \in DOMAIN archive[s] \/ i = Len(archive[s]) + 1
    BY <1>2, <2>1, SeqAppend
  <2>3. i \in DOMAIN archive[s] => Append(archive[s], entry)[i] = archive[s][i]
    BY <1>2, SeqAppend
  <2>4. Append(archive[s], entry)[Len(archive[s]) + 1] = entry
    BY <1>2, SeqAppend
  <2> QED
    BY <1>2, <1>3, <2>2, <2>3, <2>4
<1> QED
  BY <1>1, <1>3

(* A new file describes its exporters.                                     *)
LEMMA RotationDescribed ==
  ASSUME Inductive, SamplersOnce, NEW rotated, NEW opened, NEW badRename,
         Rotation(rotated, opened, badRename)
  PROVE  Described'
<1>1. TypeOK /\ FileTypes /\ Places /\ CountersMatch /\ SysidsUnique
  BY DEF Inductive, IInv
<1> SUFFICES ASSUME Open', NEW s \in Sources
             PROVE  /\ \A i \in DOMAIN exporter_data'[s] :
                          /\ ExporterInfo(exporter_data'[s][i]) \in ToSet(file'[s])
                          /\ Version(exporter_data'[s][i]) = 9 /\ exporter_data'[s][i].sysid # 0 =>
                                 SamplersWritten(file'[s], exporter_data'[s][i])
                    /\ \A q \in DOMAIN file'[s] : file'[s][q].kind = "exporter" =>
                          \E i \in DOMAIN exporter_data'[s] : exporter_data'[s][i].sysid = file'[s][q].sysid
  BY DEF Described
<1>2. opened = ToSet(FlowSource) /\ badRename \subseteq opened
  BY DEF Open, Rotation, signalVars
<1>3. exporter_data[s] \in Seq(Exporters)
  BY <1>1 DEF TypeOK
<1>4. /\ DOMAIN exporter_data'[s] = DOMAIN exporter_data[s]
      /\ \A i \in DOMAIN exporter_data[s] :
            /\ exporter_data'[s][i].key = exporter_data[s][i].key
            /\ exporter_data'[s][i].sysid = exporter_data[s][i].sysid
            /\ exporter_data'[s][i].sampler = exporter_data[s][i].sampler
  BY <1>1, RotationExporters
<1>5. CASE s \in opened
  <2>1. file'[s] = StdRecords(s)
    BY <1>1, <1>5, RotationFiles
  <2>2. ASSUME NEW i \in DOMAIN exporter_data'[s]
        PROVE  ExporterInfo(exporter_data'[s][i]) \in ToSet(file'[s])
    <3>1. ExporterInfo(exporter_data'[s][i]) = ExporterInfo(exporter_data[s][i]) /\ i \in DOMAIN exporter_data[s]
      BY <1>4 DEF ExporterInfo
    <3> QED
      BY <1>3, <2>1, <3>1, StdFacts
  <2>3. ASSUME NEW i \in DOMAIN exporter_data'[s], exporter_data'[s][i].sysid # 0
        PROVE  SamplersWritten(file'[s], exporter_data'[s][i])
    <3>1. SamplersWritten(StdRecords(s), exporter_data[s][i])
      BY <1>1, <1>4, <2>3, StdSamplers
    <3> QED
      BY <1>4, <2>1, <3>1, SameSamplers
  <2>4. ASSUME NEW q \in DOMAIN file'[s]
        PROVE  \E i \in DOMAIN exporter_data'[s] : exporter_data'[s][i].sysid = file'[s][q].sysid
    <3>1. PICK i \in DOMAIN exporter_data[s] : StdRecords(s)[q].sysid = exporter_data[s][i].sysid
      BY <1>3, <2>1, StdKinds
    <3> QED
      BY <1>4, <2>1, <3>1
  <2> QED
    BY <2>2, <2>3, <2>4
<1>6. CASE s \notin opened
  <2>1. file'[s] = <<>>
    <3>1. s \notin opened /\ s \notin badRename
      BY <1>2, <1>6
    <3>2. s \notin opened /\ s \notin badRename => file'[s] = <<>>
      BY <1>1, RotationFiles
    <3> QED
      BY <3>1, <3>2
  <2>2. DOMAIN exporter_data'[s] = {}
    BY <1>1, <1>2, <1>4, <1>6 DEF Places
  <2> QED
    BY <2>1, <2>2
<1> QED
  BY <1>5, <1>6

LEMMA RotationContained ==
  ASSUME Inductive, Contained, NEW rotated, NEW opened, NEW badRename,
         Rotation(rotated, opened, badRename)
  PROVE  Contained'
<1>1. TypeOK /\ FileTypes /\ CountersMatch
  BY DEF Inductive, IInv
<1> SUFFICES ASSUME NEW s \in Sources, NEW records \in Files(s)' PROVE FileReads(V9(s)', records)
  BY DEF Contained
<1>2. V9(s)' = V9(s)
  BY <1>1, RotationExporters, SameV9
<1>3. FileReads(V9(s), Closed(s))
  <2>1. FileReads(V9(s), file[s])
    BY DEF Contained, Files
  <2>2. \A q \in DOMAIN Closed(s) : q \in DOMAIN file[s] \/ Closed(s)[q].kind # "flow"
    BY <1>1, ClosedFacts
  <2> QED
    BY <1>1, <2>1, <2>2, ClosedFacts, ReadsOn
<1>4. FileReads(V9(s), StdRecords(s))
  BY <1>1, StdNoFlows, ReadsNone DEF TypeOK
<1>5. FileReads(V9(s), <<>>)
  BY ReadsNone DEF FlowsIn
<1>6. FileReads(V9(s), file'[s])
  BY <1>1, <1>3, <1>4, <1>5, RotationFiles
<1>7. ASSUME NEW i \in DOMAIN archive'[s]
      PROVE  FileReads(V9(s), archive'[s][i].records)
  <2>1. CASE i \in DOMAIN archive[s] /\ archive'[s][i] = archive[s][i]
    BY <2>1 DEF Contained, Files
  <2> QED
    BY <1>1, <1>3, <2>1, RotationArchive
<1> QED
  BY <1>2, <1>6, <1>7 DEF Files

(* The statistics of a file that is closed count its flows, for every      *)
(* exporter that stands in it.                                             *)
LEMMA ClosedStats ==
  ASSUME TypeOK, FileTypes, CountersMatch, Described, main = "rotate", ~dynamic, NEW s \in Sources
  PROVE  StatsCount(Closed(s))
<1> SUFFICES ASSUME NEW p \in DOMAIN Closed(s), Closed(s)[p].kind = "exporter", Closed(s)[p].sysid # 0
             PROVE  /\ Closed(s)[Len(Closed(s))].kind = "stats"
                    /\ \E stat \in ToSet(Closed(s)[Len(Closed(s))].stat) :
                          /\ stat.sysid = Closed(s)[p].sysid
                          /\ stat.flows = Count(Closed(s), stat.sysid)
  BY DEF StatsCount
<1>1. p \in DOMAIN file[s] /\ Closed(s)[p] = file[s][p]
  BY ClosedFacts
<1>2. PICK i \in DOMAIN exporter_data[s] : exporter_data[s][i].sysid = Closed(s)[p].sysid
  BY <1>1 DEF Described, Open
<1>3. exporter_data[s] \in Seq(Exporters) /\ exporter_count[s] \in Nat /\ exporter_count[s] = Len(exporter_data[s])
  BY DEF TypeOK, CountersMatch
<1>4. i \in 1 .. exporter_count[s] /\ exporter_count[s] # 0
  BY <1>3
<1>5. exporter_data[s][i].flows = Count(Closed(s), Closed(s)[p].sysid)
  <2>1. exporter_data[s][i].flows = Count(file[s], exporter_data[s][i].sysid)
    BY <1>2 DEF CountersMatch
  <2> QED
    BY <1>2, <2>1, ClosedFacts
<1>6. /\ StatRecords(s) \in Seq(FileRecords) /\ Len(StatRecords(s)) = 1 /\ StatRecords(s)[1].kind = "stats"
      /\ \E stat \in ToSet(StatRecords(s)[1].stat) :
            stat.sysid = exporter_data[s][i].sysid /\ stat.flows = exporter_data[s][i].flows
  BY <1>3, <1>4, StatFacts
<1>7. Closed(s)[Len(Closed(s))] = StatRecords(s)[1]
  <2>1. file[s] \in Seq(FileRecords) /\ 1 \in DOMAIN StatRecords(s)
    BY <1>6 DEF FileTypes
  <2>2. /\ Len(file[s] \o StatRecords(s)) = Len(file[s]) + 1
        /\ (file[s] \o StatRecords(s))[Len(file[s]) + 1] = StatRecords(s)[1]
    BY <1>6, <2>1, SeqConcat
  <2> QED
    BY <2>2 DEF Closed
<1> QED
  BY <1>2, <1>5, <1>6, <1>7

LEMMA RotationReadable ==
  ASSUME Inductive, Readable, NEW rotated, NEW opened, NEW badRename, Rotation(rotated, opened, badRename)
  PROVE  Readable'
<1>1. TypeOK /\ FileTypes /\ CountersMatch
  BY DEF Inductive, IInv
<1>2. Described /\ SamplersOnce /\ Contained /\ StatsFit
  BY DEF Readable
<1>3. main = "rotate" /\ dynamic' = dynamic
  BY DEF Rotation, sourceVars
<1>4. SamplersOnce'
  BY <1>1, <1>2, RotationExporters DEF SamplersOnce
<1>5. StatsFit'
  <2> SUFFICES ASSUME ~dynamic, NEW s \in Sources, NEW i \in DOMAIN archive'[s]
               PROVE  StatsCount(archive'[s][i].records)
    BY <1>3 DEF StatsFit
  <2>1. CASE i \in DOMAIN archive[s] /\ archive'[s][i] = archive[s][i]
    BY <1>2, <2>1 DEF StatsFit
  <2>2. StatsCount(Closed(s))
    BY <1>1, <1>2, <1>3, ClosedStats
  <2> QED
    BY <1>1, <2>1, <2>2, RotationArchive
<1>6. Described' /\ Contained'
  BY <1>2, RotationDescribed, RotationContained
<1> QED
  BY <1>4, <1>5, <1>6 DEF Readable

LEMMA ReadableInit ==
  ASSUME Init
  PROVE  Readable
<1>1. /\ \A s \in Sources : exporter_data[s] = <<>> /\ file[s] = <<>> /\ archive[s] = <<>>
  BY DEF Init
<1>2. DOMAIN <<>> = {} /\ FlowsIn(<<>>) = {}
  BY DEF FlowsIn
<1>3. Described
  BY <1>1, <1>2 DEF Described
<1>4. SamplersOnce /\ StatsFit
  BY <1>1, <1>2 DEF SamplersOnce, StatsFit
<1>5. Contained
  <2> SUFFICES ASSUME NEW s \in Sources, NEW records \in Files(s) PROVE FileReads(V9(s), records)
    BY DEF Contained
  <2>1. records = <<>>
    BY <1>1, <1>2 DEF Files
  <2> QED
    BY <1>2, <2>1, ReadsNone
<1> QED
  BY <1>3, <1>4, <1>5 DEF Readable

LEMMA ReadableNext ==
  ASSUME Inductive, Readable, [Next]_vars
  PROVE  Readable'
<1>1. dynamic' = dynamic
  BY Steps
<1>2. CASE Still
  BY <1>1, <1>2, CalmReadable DEF Still
<1>3. CASE GoesOn
  <2>1. Calm /\ Open
    BY <1>3 DEF GoesOn, Open
  <2> QED
    BY <1>1, <2>1, CalmReadable
<1>4. CASE Stops
  BY <1>1, <1>4, StopsReadable
<1>5. CASE Records
  <2>1. main' = "sets" /\ UNCHANGED <<archive, dynamic>>
    BY <1>1, <1>5 DEF Records
  <2>2. \/ main = "packet" /\ Newcomer
        \/ main = "sets" /\ Flow
        \/ main = "sets" /\ Sampler
    BY <1>5 DEF Records
  <2> QED
    BY <2>1, <2>2, NewcomerReadable, FlowReadable, SamplerReadable
<1>6. CASE \E rotated, opened, badRename : Rotation(rotated, opened, badRename)
  BY <1>6, RotationReadable
<1> QED
  BY <1>2, <1>3, <1>4, <1>5, <1>6, Steps

(* A file can be read by itself: the exporter of a flow stands before it,  *)
(* the sampler records before it give the interval it was scaled with, and *)
(* the statistics at the end count its flows, whatever slots, exporters,   *)
(* sampler changes and failures came before (FlushStdRecords,              *)
(* InsertSampler, FlushExporterStats).                                     *)
THEOREM CollectorFilesSelfContained == Spec => []FilesSelfContained
<1>1. Init => Readable
  BY ReadableInit
<1>2. Inductive /\ Readable /\ [Next]_vars => Readable'
  BY ReadableNext
<1>3. Readable => FilesSelfContained
  BY ContainedFiles DEF Readable
<1> QED
  BY <1>1, <1>2, <1>3, CollectorInductive, PTL DEF Spec
===============================================================================
