------------------------- MODULE ReadPipelineProofs --------------------------
(***************************************************************************)
(* Machine-checked proofs about ReadPipeline, for every list of input      *)
(* files, every limit, any number of filter threads and every length of    *)
(* the queues.                                                             *)
(***************************************************************************)
EXTENDS ReadPipeline, FiniteSetTheorems, SequenceTheorems, WellFoundedInduction, TLAPS

(* What OneOwner and Closing rest on besides themselves: prepareThread     *)
(* reads from a file of the list, main has a handle while it processes     *)
(* one, and threads that were not started do nothing.                      *)
Places ==
    /\ prepare \in {"read", "test"} => file \in DOMAIN input
    /\ main = "process" => current # None
    /\ \A w \in Workers \ started : filter[w] = "done"

Inductive == IInv /\ Places

-------------------------------------------------------------------------------
(* Facts about data                                                        *)

(* A nonempty set of slots has a least member.                             *)
LEMMA MinInSet ==
  ASSUME NEW S, S \subseteq Nat, S # {}
  PROVE  Min(S) \in S
<1> DEFINE R == {p \in Nat \X Nat : p[1] < p[2]}
<1>1. IsWellFoundedOn(R, Nat)
  BY NatLessThanWellFounded DEF OpToRel
<1>2. PICK x \in S : \A y \in S : ~ (<<y, x>> \in R)
  <2> HIDE DEF R
  <2> QED
    BY <1>1, WFMin
<1>3. ASSUME NEW y \in S PROVE x <= y
  <2>1. x \in Nat /\ y \in Nat /\ ~ (<<y, x>> \in R)
    BY <1>2
  <2>2. ~ (y < x)
    BY <2>1
  <2> QED
    BY <2>1, <2>2
<1> QED
  BY <1>3 DEF Min

(* A file of the list and its blocks are what their types say.             *)
LEMMA InputTypes ==
  ASSUME TypeOK, file \in DOMAIN input, block \in DOMAIN input[file].blocks
  PROVE  /\ TheBlock.type \in BlockTypes
         /\ TheBlock.records \in Seq(Records)
         /\ NumRecords(TheBlock) \in Nat
         /\ NumRecords(TheBlock) >= Len(TheBlock.records)
         /\ NumRecords(TheBlock) > 0
<1>1. input \in Seq(Files) /\ input \in Inputs
  BY PipelineAssumption DEF TypeOK
<1>2. input[file] \in Files
  BY <1>1
<1>3. input[file].blocks \in Seq(Blocks)
  BY <1>2 DEF Files
<1>4. TheBlock \in Blocks
  BY <1>3 DEF TheBlock
<1>5. TheBlock.type \in BlockTypes /\ TheBlock.records \in Seq(Records) /\ TheBlock.surplus \in Nat
  BY <1>4 DEF Blocks
<1>6. NumRecords(TheBlock) \in Nat /\ NumRecords(TheBlock) >= Len(TheBlock.records)
  BY <1>5 DEF NumRecords
<1>7. NumRecords(TheBlock) > 0
  BY <1>1, BlockAssumption DEF TheBlock
<1> QED
  BY <1>5, <1>6, <1>7

(* Receiving moves the first item of a channel behind those received.      *)
LEMMA ReceiveKeepsOrder ==
  ASSUME NEW S, NEW s \in Seq(S), NEW c \in Seq(S), c # <<>>
  PROVE  Append(s, Head(c)) \o Tail(c) = s \o c
  OBVIOUS

(* Sending appends to what was sent.                                       *)
LEMMA SendAppends ==
  ASSUME NEW S, NEW s \in Seq(S), NEW c \in Seq(S), NEW x \in S
  PROVE  s \o Append(c, x) = Append(s \o c, x)
  OBVIOUS

LEMMA ValuesOfAppend ==
  ASSUME NEW S, NEW s \in Seq(S), NEW x \in S
  PROVE  Values(Append(s, x)) = Values(s) \cup {x}
<1>1. DOMAIN Append(s, x) = DOMAIN s \cup {Len(s) + 1}
  OBVIOUS
<1>2. \A i \in DOMAIN s : Append(s, x)[i] = s[i]
  OBVIOUS
<1>3. Append(s, x)[Len(s) + 1] = x
  OBVIOUS
<1> QED
  BY <1>1, <1>2, <1>3 DEF Values

LEMMA ValuesOfConcat ==
  ASSUME NEW S, NEW s \in Seq(S), NEW c \in Seq(S)
  PROVE  Values(s \o c) = Values(s) \cup Values(c)
<1>1. Values(s \o c) \subseteq Values(s) \cup Values(c)
  BY DEF Values
<1>2. \A i \in DOMAIN s : (s \o c)[i] = s[i] /\ i \in DOMAIN (s \o c)
  OBVIOUS
<1>3. \A i \in DOMAIN c : (s \o c)[Len(s) + i] = c[i] /\ Len(s) + i \in DOMAIN (s \o c)
  OBVIOUS
<1>4. Values(s) \subseteq Values(s \o c)
  BY <1>2 DEF Values
<1>5. Values(c) \subseteq Values(s \o c)
  BY <1>3 DEF Values
<1> QED
  BY <1>1, <1>4, <1>5

-------------------------------------------------------------------------------
(* Types                                                                   *)

LEMMA PrepareTypes ==
  ASSUME Inductive, PrepareThread
  PROVE  TypeOK'
<1>1. TypeOK /\ Places
  BY DEF Inductive, IInv
<1>2. CASE OpenFirst \/ ReadEOF
  <2>1. input \in Seq(Files)
    BY <1>1, PipelineAssumption DEF TypeOK
  <2>2. NextFile /\ UNCHANGED <<options, prepareVars, filtering, processVars, processing>>
    BY <1>2 DEF OpenFirst, ReadEOF
  <2>3. /\ prepare' \in {"start", "read", "test", "close", "done"}
        /\ file' \in 0 .. Len(input') /\ block' \in Nat \ {0}
        /\ recordCnt' \in Nat /\ skippedBlocks' \in Nat
    <3>1. /\ input' = input /\ Len(input) \in Nat /\ file \in 0 .. Len(input)
          /\ block \in Nat \ {0} /\ recordCnt \in Nat /\ skippedBlocks \in Nat
      BY <1>1, <2>1, <2>2 DEF TypeOK, options
    <3>2. CASE file < Len(input) /\ input[file + 1].opens
      BY <2>2, <3>1, <3>2 DEF NextFile
    <3>3. CASE ~(file < Len(input) /\ input[file + 1].opens)
      BY <2>2, <3>1, <3>3 DEF NextFile
    <3> QED
      BY <3>2, <3>3
  <2> QED
    BY <1>1, <2>2, <2>3 DEF TypeOK, options, prepareVars, filtering, processVars, processing
<1>3. CASE SkipBlock
  BY <1>1, <1>3 DEF SkipBlock, TypeOK, options, prepareVars, filtering, processVars, processing
<1>4. CASE PushBlock
  <2>1. block \in DOMAIN input[file].blocks /\ file \in DOMAIN input
    BY <1>1, <1>4 DEF PushBlock, AtEnd, Places
  <2>2. TheBlock.records \in Seq(Records) /\ NumRecords(TheBlock) \in Nat
    BY <1>1, <2>1, InputTypes
  <2>3. [records |-> TheBlock.records, first |-> recordCnt] \in Handles
    BY <1>1, <2>2 DEF Handles, TypeOK
  <2>4. prepareQueue' \in Seq(Handles) /\ recordCnt' \in Nat
    <3>1. /\ prepareQueue' = Append(prepareQueue, [records |-> TheBlock.records, first |-> recordCnt])
          /\ recordCnt' = recordCnt + NumRecords(TheBlock)
      BY <1>4 DEF PushBlock, Prepare!Send
    <3>2. prepareQueue \in Seq(Handles) /\ recordCnt \in Nat
      BY <1>1 DEF TypeOK
    <3> QED
      BY <2>2, <2>3, <3>1, <3>2
  <2> QED
    BY <1>1, <1>4, <2>4 DEF PushBlock, Prepare!Send, TypeOK, options, filtering,
      processVars, processing
<1>5. CASE TestAbort
  BY <1>1, <1>5 DEF TestAbort, TypeOK, options, prepareVars, filtering, processVars, processing
<1>6. CASE ClosePrepare
  BY <1>1, <1>6 DEF ClosePrepare, Prepare!Close, TypeOK, options, filtering, processVars, processing
<1> QED
  BY <1>2, <1>3, <1>4, <1>5, <1>6 DEF PrepareThread

LEMMA FilterTypes ==
  ASSUME Inductive, NEW w \in Workers, FilterThread(w)
  PROVE  TypeOK'
<1>1. TypeOK /\ OneOwner /\ Closing /\ Places
  BY DEF Inductive, IInv
<1>2. CASE FilterPop(w)
  <2>1. Head(prepareQueue) \in Handles /\ prepareQueue' \in Seq(Handles) /\ prepared' \in Seq(Handles)
    BY <1>1, <1>2 DEF FilterPop, Prepare!Receive, TypeOK
  <2> QED
    BY <1>1, <1>2, <2>1 DEF FilterPop, Prepare!Receive, TypeOK, options, reading, processVars, processing
<1>3. CASE FilterPush(w)
  <2>1. held[w] \in Handles /\ held[w].records \in Seq(Records)
    BY <1>1, <1>3 DEF FilterPush, OneOwner, TypeOK, Handles
  <2>2. processQueue' \in Seq(Handles) /\ processClosed' = processClosed /\ arrived' = arrived
    <3>1. CASE Dropped(held[w].records)
      BY <1>1, <1>3, <3>1 DEF FilterPush, processVars, TypeOK
    <3>2. CASE ~Dropped(held[w].records)
      <4>1. processQueue' = Append(processQueue, held[w])
            /\ processClosed' = processClosed /\ arrived' = arrived
        BY <1>3, <3>2 DEF FilterPush, Process!Send
      <4>2. processQueue' \in Seq(Handles)
        BY <1>1, <2>1, <4>1 DEF TypeOK
      <4> QED
        BY <4>1, <4>2
    <3> QED
      BY <3>1, <3>2
  <2>3. Matches(held[w].records) \in Nat
    <3>1. IsFiniteSet(DOMAIN held[w].records)
      <4>1. DOMAIN held[w].records = 1 .. Len(held[w].records) /\ Len(held[w].records) \in Nat
        BY <2>1
      <4> QED
        BY <4>1, FS_Interval
    <3>2. IsFiniteSet({i \in Sound(held[w].records) :
                          held[w].records[i].kind = "flow" /\ held[w].records[i].match})
      BY <3>1, FS_Subset DEF Sound
    <3> QED
      BY <3>2, FS_CardinalityType DEF Matches
  <2>4. /\ filter' = [filter EXCEPT ![w] = "pop"] /\ held' = [held EXCEPT ![w] = None]
        /\ passed' = [passed EXCEPT ![w] = @ + Matches(held[w].records)]
        /\ UNCHANGED <<passedRecords, producers, options, reading, prepareVars, processing>>
    BY <1>3 DEF FilterPush
  <2>5. /\ filter' \in [Workers -> {"pop", "filter", "close", "done"}]
        /\ held' \in [Workers -> Handles \cup {None}] /\ passed' \in [Workers -> Nat]
    BY <1>1, <2>3, <2>4 DEF TypeOK
  <2> QED
    BY <1>1, <2>2, <2>4, <2>5 DEF TypeOK, options, reading, prepareVars, processing
<1>4. CASE FilterEnd(w)
  BY <1>1, <1>4 DEF FilterEnd, TypeOK, options, reading, prepareVars, processVars, processing
<1>5. CASE FilterClose(w)
  <2>1. producers # 0
    <3>1. IsFiniteSet({v \in Workers : filter[v] # "done"})
      BY PipelineAssumption, FS_Subset
    <3>2. w \in {v \in Workers : filter[v] # "done"}
      BY <1>5 DEF FilterClose
    <3> QED
      BY <1>1, <3>1, <3>2, FS_EmptySet DEF Closing
  <2>2. Cardinality(started) \in Nat
    BY <1>1, PipelineAssumption, FS_Subset, FS_CardinalityType DEF TypeOK
  <2>3. producers' \in 0 .. Cardinality(started)
    BY <1>1, <1>5, <2>1, <2>2 DEF FilterClose, TypeOK
  <2>4. processClosed' \in BOOLEAN /\ processQueue' = processQueue /\ arrived' = arrived
    BY <1>1, <1>5 DEF FilterClose, Process!Close, processVars, TypeOK
  <2>5. /\ filter' = [filter EXCEPT ![w] = "done"] /\ passedRecords' = passedRecords + passed[w]
        /\ UNCHANGED <<held, passed, options, reading, prepareVars, processing>>
    BY <1>5 DEF FilterClose
  <2>6. filter' \in [Workers -> {"pop", "filter", "close", "done"}] /\ passedRecords' \in Nat
    BY <1>1, <2>5 DEF TypeOK
  <2> QED
    BY <1>1, <2>3, <2>4, <2>5, <2>6 DEF TypeOK, options, reading, prepareVars, processing
<1> QED
  BY <1>2, <1>3, <1>4, <1>5 DEF FilterThread

(* What -w writes has the type of its records.                             *)
LEMMA WrittenTypes ==
  ASSUME TypeOK, NEW kind \in {"exporter", "sampler"}, NEW s \in Slots, NEW who \in Exporters,
         WriteRecord(kind, s, who)
  PROVE  written' \in Seq([kind : {"exporter", "sampler"}, sysid : Slots, who : Exporters])
<1> DEFINE R == [kind : {"exporter", "sampler"}, sysid : Slots, who : Exporters]
           r == [kind |-> kind, sysid |-> s, who |-> who]
<1>1. r \in R
  OBVIOUS
<1>2. written \in Seq(R)
  BY DEF TypeOK
<1>3. written' = written \/ written' = Append(written, r)
  BY DEF WriteRecord
<1> HIDE DEF R, r
<1>4. Append(written, r) \in Seq(R)
  BY <1>1, <1>2
<1>5. written' \in Seq(R)
  BY <1>2, <1>3, <1>4
<1> QED
  BY <1>5 DEF R

(* The record main is at.                                                  *)
LEMMA RecordTypes ==
  ASSUME TypeOK, Places, main = "process", index <= Len(current.records)
  PROVE  current \in Handles /\ index \in DOMAIN current.records /\ TheRecord \in Records
<1>1. current \in Handles
  BY DEF TypeOK, Places
<1>2. current.records \in Seq(Records)
  BY <1>1 DEF Handles
<1> QED
  BY <1>1, <1>2 DEF TypeOK, TheRecord

(* The main thread changes nothing but its own variables.                  *)
LEMMA MainKeepsTypes ==
  ASSUME TypeOK, UNCHANGED <<options, reading, prepareVars, filtering, processVars>>,
         main' \in {"open", "pop", "process", "done", "failed"},
         current' \in Handles \cup {None}, index' \in Nat \ {0},
         abortProcessing' \in BOOLEAN, output' \in Seq(Nat),
         exporter_list' \in [Slots -> Info \cup {None}],
         written' \in Seq([kind : {"exporter", "sampler"}, sysid : Slots, who : Exporters])
  PROVE  TypeOK'
  BY DEF TypeOK, options, reading, prepareVars, filtering, processVars

(* A step to the next record of the block.                                 *)
LEMMA NextRecordTypes ==
  ASSUME TypeOK, NEW kind, ToProcess(kind)
  PROVE  /\ UNCHANGED <<options, reading, prepareVars, filtering, processVars>>
         /\ main' \in {"open", "pop", "process", "done", "failed"}
         /\ current' \in Handles \cup {None} /\ index' \in Nat \ {0}
<1>1. /\ UNCHANGED <<options, reading, prepareVars, filtering, processVars, main, current>>
      /\ index' = index + 1
  BY DEF ToProcess
<1> QED
  BY <1>1 DEF TypeOK

LEMMA MainTypes ==
  ASSUME Inductive, Main
  PROVE  TypeOK'
<1>1. TypeOK /\ Places
  BY DEF Inductive, IInv
<1>2. CASE OpenOutput \/ Join \/ BlockDone
  <2>1. /\ main' \in {"open", "pop", "process", "done", "failed"}
        /\ current' \in Handles \cup {None} /\ index' \in Nat \ {0}
    BY <1>1, <1>2 DEF OpenOutput, Join, BlockDone, TypeOK
  <2>2. UNCHANGED <<abortProcessing, output, exporter_list, written,
                    options, reading, prepareVars, filtering, processVars>>
    BY <1>2 DEF OpenOutput, Join, BlockDone
  <2>3. /\ abortProcessing' \in BOOLEAN /\ output' \in Seq(Nat)
        /\ exporter_list' \in [Slots -> Info \cup {None}]
        /\ written' \in Seq([kind : {"exporter", "sampler"}, sysid : Slots, who : Exporters])
    BY <1>1, <2>2 DEF TypeOK
  <2> QED
    BY <1>1, <2>1, <2>2, <2>3, MainKeepsTypes
<1>3. CASE MainPop
  <2>1. Head(processQueue) \in Handles /\ processQueue' \in Seq(Handles) /\ arrived' \in Seq(Handles)
    BY <1>1, <1>3 DEF MainPop, Process!Receive, TypeOK
  <2>2. /\ current' = Head(processQueue) /\ index' = 1 /\ main' = "process"
        /\ processClosed' = processClosed
        /\ UNCHANGED <<abortProcessing, output, exporter_list, written,
                       options, reading, prepareVars, filtering>>
    BY <1>3 DEF MainPop, Process!Receive
  <2> QED
    BY <1>1, <2>1, <2>2 DEF TypeOK, options, reading, prepareVars, filtering
<1>4. CASE ProcessFlow
  <2>1. current \in Handles
    BY <1>1, <1>4, RecordTypes DEF ProcessFlow, ToProcess
  <2>2. current.first + index \in Nat
    BY <1>1, <2>1 DEF Handles, TypeOK
  <2>3. output' \in Seq(Nat) /\ abortProcessing' \in BOOLEAN
    <3>1. CASE TheRecord.match
      <4>1. output' = Append(output, current.first + index)
            /\ abortProcessing' = (limit # 0 /\ Len(output') >= limit)
        BY <1>4, <3>1 DEF ProcessFlow
      <4>2. output' \in Seq(Nat)
        BY <1>1, <2>2, <4>1 DEF TypeOK
      <4>3. abortProcessing' \in BOOLEAN
        BY <4>1
      <4> QED
        BY <4>2, <4>3
    <3>2. CASE ~TheRecord.match
      BY <1>1, <1>4, <3>2 DEF ProcessFlow, TypeOK
    <3> QED
      BY <3>1, <3>2
  <2>4. ToProcess("flow") /\ UNCHANGED <<exporter_list, written>>
    BY <1>4 DEF ProcessFlow
  <2>5. /\ exporter_list' \in [Slots -> Info \cup {None}]
        /\ written' \in Seq([kind : {"exporter", "sampler"}, sysid : Slots, who : Exporters])
    BY <1>1, <2>4 DEF TypeOK
  <2> QED
    BY <1>1, <2>3, <2>4, <2>5, NextRecordTypes, MainKeepsTypes
<1>5. CASE ProcessExporter
  <2> DEFINE id == TheRecord.sysid
             who == TheRecord.who
  <2>1. id \in Slots /\ who \in Exporters
    BY <1>1, <1>5, RecordTypes DEF ProcessExporter, ToProcess, Records, Slots
  <2>2. FreeSlots(id) # {} => Min(FreeSlots(id)) \in Slots
    <3>1. FreeSlots(id) \subseteq Slots /\ FreeSlots(id) \subseteq Nat
      BY DEF FreeSlots, Slots
    <3> QED
      BY <3>1, MinInSet
  <2>3. ASSUME NEW kind \in {"exporter"}, NEW s \in Slots, WriteRecord(kind, s, who)
        PROVE  written' \in Seq([kind : {"exporter", "sampler"}, sysid : Slots, who : Exporters])
    BY <1>1, <2>1, <2>3, WrittenTypes
  <2>4. exporter_list' \in [Slots -> Info \cup {None}]
        /\ written' \in Seq([kind : {"exporter", "sampler"}, sysid : Slots, who : Exporters])
    <3>1. CASE exporter_list[id] = None
      <4>1. exporter_list' = [exporter_list EXCEPT ![id] = [who |-> who, sysid |-> id]]
            /\ WriteRecord("exporter", id, who)
        BY <1>5, <3>1 DEF ProcessExporter
      <4>2. [who |-> who, sysid |-> id] \in Info
        BY <2>1 DEF Info
      <4>3. exporter_list' \in [Slots -> Info \cup {None}]
        BY <1>1, <2>1, <4>1, <4>2 DEF TypeOK
      <4> QED
        BY <2>1, <2>3, <4>1, <4>3
    <3>2. CASE exporter_list[id] # None /\ exporter_list[id].who = who
      <4>1. exporter_list[id].sysid \in Slots
        BY <1>1, <2>1, <3>2 DEF TypeOK, Info
      <4> QED
        BY <1>1, <1>5, <2>1, <2>3, <3>2, <4>1 DEF ProcessExporter, TypeOK
    <3>3. CASE exporter_list[id] # None /\ exporter_list[id].who # who
      <4>1. CASE FreeSlots(id) = {}
        BY <1>1, <1>5, <3>3, <4>1 DEF ProcessExporter, TypeOK
      <4>2. CASE FreeSlots(id) # {}
        <5>1. MoveExporter(id, who)
          BY <1>5, <3>3, <4>2 DEF ProcessExporter
        <5>2. WriteRecord("exporter", Min(FreeSlots(id)), who)
          BY <5>1 DEF MoveExporter
        <5>3. exporter_list[id] \in Info \cup {None}
          BY <1>1, <2>1 DEF TypeOK
        <5>4. [who |-> who, sysid |-> Min(FreeSlots(id))] \in Info
          BY <2>1, <2>2, <4>2 DEF Info
        <5>5. exporter_list' \in [Slots -> Info \cup {None}]
          BY <1>1, <2>1, <2>2, <4>2, <5>1, <5>3, <5>4 DEF MoveExporter, TypeOK
        <5> QED
          BY <2>2, <2>3, <4>2, <5>2, <5>5
      <4> QED
        BY <4>1, <4>2
    <3> QED
      BY <3>1, <3>2, <3>3
  <2>5. ToProcess("exporter") /\ UNCHANGED <<output, abortProcessing>>
    BY <1>5 DEF ProcessExporter
  <2>6. output' \in Seq(Nat) /\ abortProcessing' \in BOOLEAN
    BY <1>1, <2>5 DEF TypeOK
  <2> QED
    BY <1>1, <2>4, <2>5, <2>6, NextRecordTypes, MainKeepsTypes
<1>6. CASE ProcessSampler
  <2>1. TheRecord.sysid \in Slots /\ TheRecord.who \in Exporters
    BY <1>1, <1>6, RecordTypes DEF ProcessSampler, ToProcess, Records, Slots
  <2>2. exporter_list[TheRecord.sysid] # None => exporter_list[TheRecord.sysid].sysid \in Slots
    BY <1>1, <2>1 DEF TypeOK, Info
  <2>3. written' \in Seq([kind : {"exporter", "sampler"}, sysid : Slots, who : Exporters])
    <3>1. CASE exporter_list[TheRecord.sysid] = None
      BY <1>1, <1>6, <3>1 DEF ProcessSampler, TypeOK
    <3>2. CASE exporter_list[TheRecord.sysid] # None
      <4>1. WriteRecord("sampler", exporter_list[TheRecord.sysid].sysid, TheRecord.who)
        BY <1>6, <3>2 DEF ProcessSampler
      <4> QED
        BY <1>1, <2>1, <2>2, <3>2, <4>1, WrittenTypes
    <3> QED
      BY <3>1, <3>2
  <2>4. ToProcess("sampler") /\ UNCHANGED <<exporter_list, output, abortProcessing>>
    BY <1>6 DEF ProcessSampler
  <2>5. /\ output' \in Seq(Nat) /\ abortProcessing' \in BOOLEAN
        /\ exporter_list' \in [Slots -> Info \cup {None}]
    BY <1>1, <2>4 DEF TypeOK
  <2> QED
    BY <1>1, <2>3, <2>4, <2>5, NextRecordTypes, MainKeepsTypes
<1>7. CASE ProcessOther
  BY <1>1, <1>7 DEF ProcessOther, ToProcess, TypeOK, options, reading, prepareVars,
    filtering, processVars
<1> QED
  BY <1>2, <1>3, <1>4, <1>5, <1>6, <1>7 DEF Main

-------------------------------------------------------------------------------
(* One owner                                                               *)

LEMMA HandleSequences ==
  ASSUME TypeOK
  PROVE  /\ prepared \in Seq(Handles) /\ prepareQueue \in Seq(Handles) /\ Pushed \in Seq(Handles)
         /\ arrived \in Seq(Handles) /\ processQueue \in Seq(Handles) /\ Delivered \in Seq(Handles)
  BY DEF TypeOK, Pushed, Delivered

LEMMA NoneIsNoHandle == None \notin Handles
  BY PipelineAssumption DEF Handles

(* The block read last is behind all others, and no block is empty.        *)
LEMMA PushKeepsOwners ==
  ASSUME Inductive, PushBlock
  PROVE  OneOwner'
<1>1. TypeOK /\ OneOwner /\ Places
  BY DEF Inductive, IInv
<1> DEFINE h == [records |-> TheBlock.records, first |-> recordCnt]
<1>2. TheBlock.records \in Seq(Records) /\ NumRecords(TheBlock) \in Nat /\ NumRecords(TheBlock) > 0
  <2>1. block \in DOMAIN input[file].blocks /\ file \in DOMAIN input
    BY <1>1 DEF PushBlock, AtEnd, Places
  <2> QED
    BY <1>1, <2>1, InputTypes
<1>3. h \in Handles /\ h.first = recordCnt /\ recordCnt \in Nat
  BY <1>1, <1>2 DEF Handles, TypeOK
<1> HIDE DEF h
<1>4. prepareQueue' = Append(prepareQueue, h) /\ prepared' = prepared
      /\ UNCHANGED <<filter, held, arrived, processQueue>>
  BY DEF PushBlock, Prepare!Send, h, filtering, processVars
<1>5. recordCnt' = recordCnt + NumRecords(TheBlock)
  BY DEF PushBlock
<1>6. Pushed' = Append(Pushed, h) /\ Pushed \in Seq(Handles)
  BY <1>1, <1>3, <1>4, HandleSequences, SendAppends DEF Pushed
<1>7. Delivered' = Delivered /\ Values(Delivered)' = Values(Delivered)
      /\ Values(prepared)' = Values(prepared)
  BY <1>4 DEF Delivered, Values
<1>8. \A i \in DOMAIN Pushed : Pushed[i].first \in Nat /\ Pushed[i].first < recordCnt
  <2>1. \A i \in DOMAIN Pushed : Pushed[i] \in Handles
    BY <1>6
  <2> QED
    BY <1>1, <2>1 DEF OneOwner, Handles
<1>9. /\ DOMAIN Pushed' = DOMAIN Pushed \cup {Len(Pushed) + 1}
      /\ \A i \in DOMAIN Pushed : Pushed'[i] = Pushed[i] /\ i < Len(Pushed) + 1
      /\ Pushed'[Len(Pushed) + 1] = h
      /\ DOMAIN Pushed \subseteq Nat /\ Len(Pushed) \in Nat
  BY <1>3, <1>6
<1>10. \A i, j \in DOMAIN Pushed' : i < j => Pushed'[i].first < Pushed'[j].first
  <2> SUFFICES ASSUME NEW i \in DOMAIN Pushed', NEW j \in DOMAIN Pushed', i < j
               PROVE  Pushed'[i].first < Pushed'[j].first
    OBVIOUS
  <2>1. i \in DOMAIN Pushed
    BY <1>9
  <2>2. CASE j \in DOMAIN Pushed
    BY <1>1, <1>9, <2>1, <2>2 DEF OneOwner
  <2>3. CASE j = Len(Pushed) + 1
    BY <1>3, <1>8, <1>9, <2>1, <2>3
  <2> QED
    BY <1>9, <2>2, <2>3
<1>11. \A i \in DOMAIN Pushed' : Pushed'[i].first < recordCnt'
  BY <1>2, <1>3, <1>5, <1>8, <1>9
<1> QED
  BY <1>1, <1>4, <1>7, <1>10, <1>11 DEF OneOwner

(* The block that is popped was in nobody's hands, since no two blocks     *)
(* have the same number of records in front of them.                       *)
LEMMA PopKeepsOwners ==
  ASSUME Inductive, NEW w \in Workers, FilterPop(w)
  PROVE  OneOwner'
<1>1. TypeOK /\ OneOwner
  BY DEF Inductive, IInv
<1> DEFINE h == Head(prepareQueue)
<1>2. prepareQueue # <<>> /\ prepareQueue' = Tail(prepareQueue) /\ prepared' = Append(prepared, h)
  BY DEF FilterPop, Prepare!Receive
<1>3. /\ held' = [held EXCEPT ![w] = h] /\ filter' = [filter EXCEPT ![w] = "filter"]
      /\ filter[w] = "pop"
      /\ UNCHANGED <<recordCnt, arrived, processQueue>>
  BY DEF FilterPop, reading, processVars
<1>4. h \in Handles /\ h # None
  <2>1. h \in Handles
    BY <1>1, <1>2 DEF TypeOK
  <2> QED
    BY <2>1, NoneIsNoHandle
<1>5. h \notin Values(prepared)
  <2> SUFFICES ASSUME NEW i \in DOMAIN prepared, prepared[i] = h
               PROVE  FALSE
    BY DEF Values
  <2>1. prepared \in Seq(Handles) /\ prepareQueue \in Seq(Handles)
    BY <1>1, HandleSequences
  <2>2. /\ i \in DOMAIN Pushed /\ Pushed[i] = h
        /\ Len(prepared) + 1 \in DOMAIN Pushed /\ Pushed[Len(prepared) + 1] = h
        /\ i < Len(prepared) + 1
    BY <1>2, <2>1 DEF Pushed
  <2>3. h.first < h.first
    BY <1>1, <2>2 DEF OneOwner
  <2> QED
    BY <1>4, <2>3 DEF Handles
<1> HIDE DEF h
<1>6. Pushed' = Pushed
  BY <1>1, <1>2, HandleSequences, ReceiveKeepsOrder DEF Pushed, h
<1>7. Delivered' = Delivered /\ Values(Delivered)' = Values(Delivered)
  BY <1>3 DEF Delivered, Values
<1>8. Values(prepared)' = Values(prepared) \cup {h}
  <2>1. Values(prepared') = Values(prepared) \cup {h}
    BY <1>1, <1>2, <1>4, HandleSequences, ValuesOfAppend
  <2> QED
    BY <2>1 DEF Values
<1>9. held[w] = None /\ held \in [Workers -> Handles \cup {None}]
      /\ filter \in [Workers -> {"pop", "filter", "close", "done"}]
  BY <1>1, <1>3 DEF OneOwner, TypeOK
<1>10. Values(Delivered) \subseteq Values(prepared)
  BY <1>1 DEF OneOwner
<1>11. \A v, x \in Workers : v # x /\ held'[v] # None => held'[v] # held'[x]
  BY <1>1, <1>3, <1>5, <1>9 DEF OneOwner
<1>12. \A v \in Workers : held'[v] # None <=> filter'[v] = "filter"
  BY <1>1, <1>3, <1>4, <1>9 DEF OneOwner
<1>13. \A v \in Workers : held'[v] # None => held'[v] \in Values(prepared)' \ Values(Delivered)'
  BY <1>1, <1>3, <1>5, <1>7, <1>8, <1>9, <1>10 DEF OneOwner
<1>14. \A x \in Values(prepared)' \ Values(Delivered)' :
          Dropped(x.records) \/ \E v \in Workers : held'[v] = x
  <2> SUFFICES ASSUME NEW x \in Values(prepared) \cup {h}, x \notin Values(Delivered),
                      ~Dropped(x.records)
               PROVE  \E v \in Workers : held'[v] = x
    BY <1>7, <1>8
  <2>1. CASE x = h
    BY <1>3, <1>9, <2>1
  <2>2. CASE x \in Values(prepared)
    <3>1. PICK v \in Workers : held[v] = x
      BY <1>1, <2>2 DEF OneOwner
    <3>2. x # None
      BY <1>1, <2>2, HandleSequences, NoneIsNoHandle DEF Values
    <3> QED
      BY <1>3, <1>9, <3>1, <3>2
  <2> QED
    BY <2>1, <2>2
<1> QED
  BY <1>1, <1>3, <1>6, <1>7, <1>8, <1>11, <1>12, <1>13, <1>14 DEF OneOwner

(* A block is handed on or dropped by the thread that has it.              *)
LEMMA HandOnKeepsOwners ==
  ASSUME Inductive, NEW w \in Workers, FilterPush(w)
  PROVE  OneOwner'
<1>1. TypeOK /\ OneOwner
  BY DEF Inductive, IInv
<1> DEFINE h == held[w]
<1>2. /\ held' = [held EXCEPT ![w] = None] /\ filter' = [filter EXCEPT ![w] = "pop"]
      /\ filter[w] = "filter" /\ arrived' = arrived
      /\ UNCHANGED <<recordCnt, prepared, prepareQueue>>
      /\ IF Dropped(h.records) THEN processQueue' = processQueue
         ELSE processQueue' = Append(processQueue, h)
  BY DEF FilterPush, Process!Send, reading, prepareVars, processVars
<1>3. h \in Handles /\ h # None /\ h \in Values(prepared) \ Values(Delivered)
  BY <1>1, <1>2 DEF OneOwner, TypeOK
<1> HIDE DEF h
<1>4. Pushed' = Pushed /\ Values(prepared)' = Values(prepared)
  BY <1>2 DEF Pushed, Values
<1>5. held \in [Workers -> Handles \cup {None}]
      /\ filter \in [Workers -> {"pop", "filter", "close", "done"}]
  BY <1>1 DEF TypeOK
<1>6. held[w] = h
  BY DEF h
<1>7. /\ \A v, x \in Workers : v # x /\ held'[v] # None => held'[v] # held'[x]
      /\ \A v \in Workers : held'[v] # None <=> filter'[v] = "filter"
      /\ \A v \in Workers : v # w => held'[v] = held[v] /\ (held[v] # None => held[v] # h)
  BY <1>1, <1>2, <1>3, <1>5, <1>6 DEF OneOwner
<1>8. CASE Dropped(h.records)
  <2>1. Delivered' = Delivered /\ Values(Delivered)' = Values(Delivered)
    BY <1>2, <1>8 DEF Delivered, Values
  <2>2. \A v \in Workers : held'[v] # None => held'[v] \in Values(prepared) \ Values(Delivered)
    BY <1>1, <1>2, <1>5, <1>7 DEF OneOwner
  <2>3. \A x \in Values(prepared) \ Values(Delivered) :
            Dropped(x.records) \/ \E v \in Workers : held'[v] = x
    BY <1>1, <1>6, <1>7, <1>8 DEF OneOwner
  <2> QED
    BY <1>1, <1>2, <1>4, <1>7, <2>1, <2>2, <2>3 DEF OneOwner
<1>9. CASE ~Dropped(h.records)
  <2>1. Delivered' = Append(Delivered, h) /\ Delivered \in Seq(Handles)
    <3>1. processQueue' = Append(processQueue, h) /\ arrived' = arrived
      BY <1>2, <1>9
    <3>2. arrived \in Seq(Handles) /\ processQueue \in Seq(Handles) /\ Delivered \in Seq(Handles)
      BY <1>1, HandleSequences
    <3>3. arrived \o Append(processQueue, h) = Append(arrived \o processQueue, h)
      BY <1>3, <3>2, SendAppends
    <3> QED
      BY <3>1, <3>2, <3>3 DEF Delivered
  <2>2. Values(Delivered)' = Values(Delivered) \cup {h}
    <3>1. Values(Delivered') = Values(Delivered) \cup {h}
      BY <1>3, <2>1, ValuesOfAppend
    <3> QED
      BY <3>1 DEF Values
  <2>3. \A i, j \in DOMAIN Delivered' : i # j => Delivered'[i] # Delivered'[j]
    <3>1. \A i \in DOMAIN Delivered : Delivered[i] # h
      BY <1>3 DEF Values
    <3>2. /\ DOMAIN Delivered' = DOMAIN Delivered \cup {Len(Delivered) + 1}
          /\ \A i \in DOMAIN Delivered : Delivered'[i] = Delivered[i]
          /\ Delivered'[Len(Delivered) + 1] = h
      BY <1>3, <2>1
    <3> QED
      BY <1>1, <3>1, <3>2 DEF OneOwner
  <2>4. \A v \in Workers : held'[v] # None =>
            held'[v] \in Values(prepared) \ (Values(Delivered) \cup {h})
    BY <1>1, <1>2, <1>5, <1>7 DEF OneOwner
  <2>5. \A x \in Values(prepared) \ (Values(Delivered) \cup {h}) :
            Dropped(x.records) \/ \E v \in Workers : held'[v] = x
    BY <1>1, <1>6, <1>7 DEF OneOwner
  <2>6. Values(Delivered) \cup {h} \subseteq Values(prepared)
    BY <1>1, <1>3 DEF OneOwner
  <2> QED
    BY <1>1, <1>2, <1>4, <1>7, <2>2, <2>3, <2>4, <2>5, <2>6 DEF OneOwner
<1> QED
  BY <1>8, <1>9

(* All other steps move no block.                                          *)
LEMMA OthersKeepOwners ==
  ASSUME Inductive,
         \/ OpenFirst \/ ReadEOF \/ SkipBlock \/ TestAbort \/ ClosePrepare
         \/ \E w \in Workers : FilterEnd(w) \/ FilterClose(w)
         \/ Main \/ UNCHANGED vars
  PROVE  OneOwner'
<1>1. TypeOK /\ OneOwner
  BY DEF Inductive, IInv
<1>2. UNCHANGED <<recordCnt, prepared, prepareQueue, held>>
  BY DEF OpenFirst, ReadEOF, SkipBlock, TestAbort, ClosePrepare, Prepare!Close, NextFile,
    FilterEnd, FilterClose, Main, OpenOutput, MainPop, ProcessFlow, ProcessExporter, ProcessSampler,
    ProcessOther, ToProcess, BlockDone, Join, vars, options, reading, prepareVars, filtering
<1>3. Delivered' = Delivered
  <2>1. CASE MainPop
    <3>1. /\ processQueue # <<>> /\ processQueue' = Tail(processQueue)
          /\ arrived' = Append(arrived, Head(processQueue))
      BY <2>1 DEF MainPop, Process!Receive
    <3> QED
      BY <1>1, <3>1, HandleSequences, ReceiveKeepsOrder DEF Delivered
  <2>2. CASE ~MainPop
    <3>1. UNCHANGED <<processQueue, arrived>>
      BY <2>2 DEF OpenFirst, ReadEOF, SkipBlock, TestAbort, ClosePrepare, FilterEnd, FilterClose,
        Process!Close, Main, OpenOutput, ProcessFlow, ProcessExporter, ProcessSampler,
        ProcessOther, ToProcess, BlockDone, Join, vars, processVars
    <3> QED
      BY <3>1 DEF Delivered
  <2> QED
    BY <2>1, <2>2
<1>4. \A w \in Workers : filter'[w] = "filter" <=> filter[w] = "filter"
  <2>1. CASE \E w \in Workers : FilterEnd(w) \/ FilterClose(w)
    BY <1>1, <2>1 DEF FilterEnd, FilterClose, TypeOK
  <2>2. CASE filter' = filter
    BY <2>2
  <2> QED
    BY <2>1, <2>2 DEF OpenFirst, ReadEOF, SkipBlock, TestAbort, ClosePrepare,
      Main, OpenOutput, MainPop, ProcessFlow, ProcessExporter, ProcessSampler,
      ProcessOther, ToProcess, BlockDone, Join, vars, filtering
<1>5. Pushed' = Pushed /\ Values(prepared)' = Values(prepared) /\ Values(Delivered)' = Values(Delivered)
  BY <1>2, <1>3 DEF Pushed, Values
<1> QED
  BY <1>1, <1>2, <1>3, <1>4, <1>5 DEF OneOwner

-------------------------------------------------------------------------------
(* The ends                                                                *)

LEMMA PlacesKept ==
  ASSUME Inductive, [Next]_vars
  PROVE  Places'
<1>1. TypeOK /\ Places
  BY DEF Inductive, IInv
<1>2. input \in Seq(Files)
  BY <1>1, PipelineAssumption DEF TypeOK
<1>3. CASE PrepareThread
  <2>1. prepare' \in {"read", "test"} => file' \in DOMAIN input
    <3>1. CASE NextFile
      BY <1>1, <1>2, <3>1 DEF NextFile, TypeOK
    <3>2. CASE ~NextFile
      BY <1>1, <1>3, <3>2 DEF PrepareThread, OpenFirst, ReadEOF, SkipBlock, PushBlock,
        TestAbort, ClosePrepare, Places
    <3> QED
      BY <3>1, <3>2
  <2>2. UNCHANGED <<input, started, main, current, filter>>
    BY <1>3 DEF PrepareThread, OpenFirst, ReadEOF, SkipBlock, PushBlock, TestAbort, ClosePrepare,
      options, filtering, processing
  <2> QED
    BY <1>1, <2>1, <2>2 DEF Places
<1>4. CASE \E w \in Workers : FilterThread(w)
  <2>1. PICK w \in Workers : FilterThread(w)
    BY <1>4
  <2>2. UNCHANGED <<input, started, prepare, file, main, current>> /\ filter[w] # "done"
    BY <2>1 DEF FilterThread, FilterPop, FilterPush, FilterEnd, FilterClose, options, reading, processing
  <2>3. \A v \in Workers : v # w => filter'[v] = filter[v]
    BY <1>1, <2>1 DEF FilterThread, FilterPop, FilterPush, FilterEnd, FilterClose, TypeOK
  <2>4. w \in started
    BY <1>1, <2>2 DEF Places
  <2> QED
    BY <1>1, <2>2, <2>3, <2>4 DEF Places
<1>5. CASE Main
  <2>1. UNCHANGED <<input, started, prepare, file, filter>>
    BY <1>5 DEF Main, OpenOutput, MainPop, ProcessFlow, ProcessExporter, ProcessSampler,
      ProcessOther, ToProcess, BlockDone, Join, options, reading, filtering
  <2>2. main' = "process" => current' # None
    <3>1. CASE MainPop
      <4>1. current' = Head(processQueue) /\ processQueue # <<>>
        BY <3>1 DEF MainPop, Process!Receive
      <4>2. current' \in Handles
        BY <1>1, <4>1 DEF TypeOK
      <4> QED
        BY <4>2, NoneIsNoHandle
    <3>2. CASE ~MainPop
      BY <1>1, <1>5, <3>2 DEF Main, OpenOutput, ProcessFlow, ProcessExporter, ProcessSampler,
        ProcessOther, ToProcess, BlockDone, Join, Places
    <3> QED
      BY <3>1, <3>2
  <2> QED
    BY <1>1, <2>1, <2>2 DEF Places
<1>6. CASE UNCHANGED vars
  BY <1>1, <1>6 DEF Places, vars, options, reading, filtering, processing
<1> QED
  BY <1>3, <1>4, <1>5, <1>6 DEF Next, Finished

(* Threads that have not closed the queue, and what counts them.           *)
AtWork == {w \in Workers : filter[w] # "done"}

LEMMA AtWorkFinite == IsFiniteSet(AtWork) /\ Cardinality(AtWork) \in Nat
  BY PipelineAssumption, FS_Subset, FS_CardinalityType DEF AtWork

LEMMA ClosingKept ==
  ASSUME Inductive, [Next]_vars
  PROVE  Closing'
<1>1. TypeOK /\ Closing /\ Places
  BY DEF Inductive, IInv
<1>2. CASE PrepareThread
  <2>1. UNCHANGED <<filter, started, producers, processClosed>>
    BY <1>2 DEF PrepareThread, OpenFirst, ReadEOF, SkipBlock, PushBlock, TestAbort, ClosePrepare,
      options, filtering, processVars
  <2>2. prepareClosed' <=> prepare' = "done"
    BY <1>1, <1>2 DEF PrepareThread, OpenFirst, ReadEOF, SkipBlock, PushBlock, TestAbort, ClosePrepare,
      NextFile, Prepare!Send, Prepare!Close, prepareVars, Closing
  <2>3. prepareClosed => prepareClosed' /\ prepareQueue' = prepareQueue
    BY <1>1, <1>2 DEF PrepareThread, OpenFirst, ReadEOF, SkipBlock, PushBlock, TestAbort, ClosePrepare,
      Prepare!Send, Prepare!Close, prepareVars, Closing
  <2>4. \A w \in started' : filter'[w] \in {"close", "done"} => prepareClosed' /\ prepareQueue' = <<>>
    BY <1>1, <2>1, <2>3 DEF Closing
  <2> QED
    BY <1>1, <2>1, <2>2, <2>4 DEF Closing
<1>3. ASSUME NEW w \in Workers, FilterPop(w) \/ FilterPush(w) \/ FilterEnd(w) PROVE Closing'
  <2>1. UNCHANGED <<started, producers, processClosed, prepareClosed, prepare>>
    BY <1>3 DEF FilterPop, FilterPush, FilterEnd, Prepare!Receive, Process!Send, options, reading,
      prepareVars, processVars
  <2>2. filter[w] # "done" /\ filter'[w] # "done" /\ w \in started
    BY <1>1, <1>3 DEF FilterPop, FilterPush, FilterEnd, TypeOK, Places
  <2>3. \A v \in Workers : v # w => filter'[v] = filter[v]
    BY <1>1, <1>3 DEF FilterPop, FilterPush, FilterEnd, TypeOK
  <2>4. AtWork' = AtWork
    BY <2>2, <2>3 DEF AtWork
  <2>5. \A v \in Workers : filter'[v] = "done" <=> filter[v] = "done"
    BY <2>2, <2>3
  <2>6. prepareQueue = <<>> => prepareQueue' = <<>>
    BY <1>3 DEF FilterPop, FilterPush, FilterEnd, Prepare!Receive, prepareVars
  <2>7. filter'[w] \in {"close", "done"} => prepareClosed /\ prepareQueue = <<>>
    BY <1>1, <1>3 DEF FilterPop, FilterPush, FilterEnd, TypeOK
  <2>8. \A v \in started' : filter'[v] \in {"close", "done"} => prepareClosed' /\ prepareQueue' = <<>>
    BY <1>1, <2>1, <2>3, <2>6, <2>7 DEF Closing, TypeOK
  <2> QED
    BY <1>1, <2>1, <2>4, <2>5, <2>8 DEF Closing, AtWork
<1>4. ASSUME NEW w \in Workers, FilterClose(w) PROVE Closing'
  <2>1. UNCHANGED <<started, prepare, prepareClosed, prepareQueue>>
    BY <1>4 DEF FilterClose, options, reading, prepareVars
  <2>2. filter' = [filter EXCEPT ![w] = "done"] /\ filter[w] = "close" /\ producers' = producers - 1
    BY <1>4 DEF FilterClose
  <2>3. AtWork' = AtWork \ {w} /\ w \in AtWork
    BY <1>1, <2>2 DEF AtWork, TypeOK
  <2>4. Cardinality(AtWork') = Cardinality(AtWork) - 1
    BY <2>3, AtWorkFinite, FS_RemoveElement
  <2>5. producers = Cardinality(AtWork)
    BY <1>1 DEF Closing, AtWork
  <2>6. producers' = Cardinality(AtWork')
    BY <2>2, <2>4, <2>5
  <2>7. producers' = 0 <=> AtWork' = {}
    BY <2>3, <2>6, AtWorkFinite, FS_Subset, FS_EmptySet
  <2>8. processClosed' <=> AtWork' = {}
    <3>1. ~processClosed
      BY <1>1, <2>2 DEF Closing
    <3> QED
      BY <1>4, <2>7, <3>1 DEF FilterClose, Process!Close, processVars
  <2>9. \A v \in started' : filter'[v] \in {"close", "done"} => prepareClosed' /\ prepareQueue' = <<>>
    <3>1. w \in started
      BY <1>1, <2>2 DEF Places
    <3> QED
      BY <1>1, <2>1, <2>2, <3>1 DEF Closing, TypeOK
  <2> QED
    BY <1>1, <2>1, <2>6, <2>8, <2>9 DEF Closing, AtWork
<1>5. CASE Main \/ UNCHANGED vars
  <2>1. UNCHANGED <<started, prepare, prepareClosed, prepareQueue, filter, producers, processClosed>>
    BY <1>5 DEF Main, OpenOutput, MainPop, Process!Receive, ProcessFlow, ProcessExporter, ProcessSampler,
      ProcessOther, ToProcess, BlockDone, Join, vars, options, reading, prepareVars, filtering, processVars
  <2> QED
    BY <1>1, <2>1 DEF Closing
<1> QED
  BY <1>2, <1>3, <1>4, <1>5 DEF Next, FilterThread, Finished

-------------------------------------------------------------------------------
(* The invariant                                                           *)

LEMMA InitInductive == Init => Inductive
<1> SUFFICES ASSUME Init PROVE Inductive
  OBVIOUS
<1>1. IsFiniteSet(started) /\ started # {} /\ started \subseteq Workers
  <2>1. started # {} /\ started \subseteq Workers
    BY DEF Init
  <2> QED
    BY <2>1, PipelineAssumption, FS_Subset
<1>2. AtWork = started
  BY <1>1 DEF Init, AtWork
<1>3. /\ prepareQueue = <<>> /\ prepared = <<>> /\ ~prepareClosed
      /\ processQueue = <<>> /\ arrived = <<>> /\ ~processClosed
  BY DEF Init, Prepare!Init, Process!Init
<1>4. Cardinality(started) \in Nat
  BY <1>1, FS_CardinalityType
<1>5. TypeOK
  <2>1. /\ prepareQueue \in Seq(Handles) /\ prepared \in Seq(Handles) /\ prepareClosed \in BOOLEAN
        /\ processQueue \in Seq(Handles) /\ arrived \in Seq(Handles) /\ processClosed \in BOOLEAN
    BY <1>3, EmptySeq DEF Init, Prepare!Init, Process!Init
  <2>2. /\ output \in Seq(Nat)
        /\ written \in Seq([kind : {"exporter", "sampler"}, sysid : Slots, who : Exporters])
    BY EmptySeq DEF Init
  <2>3. file \in 0 .. Len(input)
    <3>1. input \in Seq(Files)
      BY PipelineAssumption DEF Init
    <3> QED
      BY <3>1 DEF Init
  <2>4. producers \in 0 .. Cardinality(started)
    BY <1>4 DEF Init
  <2>5. /\ filter \in [Workers -> {"pop", "filter", "close", "done"}]
        /\ held \in [Workers -> Handles \cup {None}] /\ passed \in [Workers -> Nat]
    BY DEF Init
  <2>6. exporter_list \in [Slots -> Info \cup {None}] /\ current \in Handles \cup {None}
    BY DEF Init
  <2>7. /\ input \in Inputs /\ limit \in Limits /\ started \in (SUBSET Workers) \ {{}}
        /\ wfile \in {"none", "opens", "fails"} /\ prepare \in {"start", "read", "test", "close", "done"}
        /\ main \in {"open", "pop", "process", "done", "failed"}
    BY DEF Init
  <2>8. /\ block \in Nat \ {0} /\ recordCnt \in Nat /\ skippedBlocks \in Nat
        /\ passedRecords \in Nat /\ index \in Nat \ {0}
    BY DEF Init
  <2>9. abortProcessing \in BOOLEAN
    <3>1. abortProcessing = FALSE
      BY DEF Init
    <3> QED
      BY <3>1
  <2> QED
    BY <1>1, <2>1, <2>2, <2>3, <2>4, <2>5, <2>6, <2>7, <2>8, <2>9 DEF TypeOK
<1>6. OneOwner
  <2>1. Pushed = <<>> /\ Delivered = <<>> /\ Values(Delivered) = {} /\ Values(prepared) = {}
    BY <1>3 DEF Pushed, Delivered, Values
  <2> QED
    BY <2>1 DEF Init, OneOwner
<1>7. Closing
  BY <1>1, <1>2, <1>3 DEF Init, Closing, AtWork
<1>8. Places
  BY DEF Init, Places
<1> QED
  BY <1>5, <1>6, <1>7, <1>8 DEF Inductive, IInv

LEMMA StepInductive == Inductive /\ [Next]_vars => Inductive'
<1> SUFFICES ASSUME Inductive, [Next]_vars PROVE Inductive'
  OBVIOUS
<1>1. TypeOK'
  <2>1. CASE UNCHANGED vars
    BY <2>1 DEF Inductive, IInv, TypeOK, vars, options, reading, prepareVars, filtering,
      processVars, processing
  <2> QED
    BY <2>1, PrepareTypes, FilterTypes, MainTypes DEF Next, Finished
<1>2. OneOwner'
  BY PushKeepsOwners, PopKeepsOwners, HandOnKeepsOwners, OthersKeepOwners
    DEF Next, Finished, PrepareThread, FilterThread
<1> QED
  BY <1>1, <1>2, ClosingKept, PlacesKept DEF Inductive, IInv

LEMMA AlwaysInductive == Spec => []Inductive
  BY InitInductive, StepInductive, PTL DEF Spec

(* Every block prepareThread has read is waiting, with one thread, handed  *)
(* on once, or dropped as corrupt, and each queue is closed by the last of *)
(* its producers when nothing more can come (prepareThread, filterThread,  *)
(* process_data).                                                          *)
THEOREM PipelineInvariant == Spec => []IInv
<1>1. Inductive => IInv
  BY DEF Inductive
<1> QED
  BY <1>1, AlwaysInductive, PTL

-------------------------------------------------------------------------------
(* No flow twice                                                           *)

(* Blocks do not overlap, the numbers of the flows processed lie in blocks *)
(* that have arrived, in front of the record main is at, and processing    *)
(* stops exactly at the limit.                                             *)
Ending(h) == h.first + Len(h.records)

Disjoint ==
    /\ \A g, h \in Values(Pushed) : g # h => Ending(g) <= h.first \/ Ending(h) <= g.first
    /\ \A h \in Values(Pushed) : Ending(h) <= recordCnt

AtBlock == main = "process" => current \in Values(arrived)

Numbered ==
    \A i \in DOMAIN output : \E h \in Values(arrived) :
        /\ h.first < output[i] /\ output[i] <= Ending(h)
        /\ main = "process" /\ h = current => output[i] < h.first + index

StopsAtLimit == abortProcessing <=> limit # 0 /\ Len(output) >= limit

ProcessedInv == Disjoint /\ AtBlock /\ Numbered /\ StopsAtLimit /\ NoFlowTwice /\ LimitKept

LEMMA EndingType ==
  ASSUME NEW h \in Handles
  PROVE  h.first \in Nat /\ Len(h.records) \in Nat /\ Ending(h) \in Nat /\ h.first <= Ending(h)
<1>1. h.first \in Nat /\ h.records \in Seq(Records)
  BY DEF Handles
<1> QED
  BY <1>1 DEF Ending

LEMMA ArrivedPushed ==
  ASSUME TypeOK, OneOwner
  PROVE  Values(arrived) \subseteq Values(Pushed) /\ Values(Pushed) \subseteq Handles
<1>1. Values(arrived) \subseteq Values(Delivered)
  BY HandleSequences, ValuesOfConcat DEF Delivered
<1>2. Values(prepared) \subseteq Values(Pushed)
  BY HandleSequences, ValuesOfConcat DEF Pushed
<1>3. Values(Pushed) \subseteq Handles
  BY HandleSequences DEF Values
<1> QED
  BY <1>1, <1>2, <1>3 DEF OneOwner

LEMMA DisjointKept ==
  ASSUME Inductive, Disjoint, [Next]_vars
  PROVE  Disjoint'
<1>1. TypeOK /\ OneOwner /\ Places
  BY DEF Inductive, IInv
<1>2. CASE PushBlock
  <2> DEFINE h == [records |-> TheBlock.records, first |-> recordCnt]
  <2>1. TheBlock.records \in Seq(Records) /\ NumRecords(TheBlock) \in Nat
        /\ NumRecords(TheBlock) >= Len(TheBlock.records)
    <3>1. block \in DOMAIN input[file].blocks /\ file \in DOMAIN input
      BY <1>1, <1>2 DEF PushBlock, AtEnd, Places
    <3> QED
      BY <1>1, <3>1, InputTypes
  <2>2. /\ h \in Handles /\ h.first = recordCnt /\ recordCnt \in Nat
        /\ Ending(h) = recordCnt + Len(TheBlock.records)
    BY <1>1, <2>1 DEF Handles, TypeOK, Ending
  <2>3. prepareQueue' = Append(prepareQueue, h) /\ prepared' = prepared
        /\ recordCnt' = recordCnt + NumRecords(TheBlock)
    BY <1>2 DEF PushBlock, Prepare!Send
  <2> HIDE DEF h
  <2>4. Pushed' = Append(Pushed, h) /\ Pushed \in Seq(Handles)
    BY <1>1, <2>2, <2>3, HandleSequences, SendAppends DEF Pushed
  <2>5. Values(Pushed)' = Values(Pushed) \cup {h}
    <3>1. Values(Pushed') = Values(Pushed) \cup {h}
      BY <2>2, <2>4, ValuesOfAppend
    <3> QED
      BY <3>1 DEF Values
  <2>6. \A g \in Values(Pushed) : Ending(g) \in Nat /\ Ending(g) <= recordCnt
    BY <1>1, ArrivedPushed, EndingType DEF Disjoint
  <2>7. Ending(h) <= recordCnt' /\ recordCnt <= recordCnt' /\ recordCnt' \in Nat
    <3>1. Len(TheBlock.records) \in Nat
      BY <2>1
    <3> QED
      BY <2>1, <2>2, <2>3, <3>1
  <2>8. \A g \in Values(Pushed)' : Ending(g) <= recordCnt'
    BY <2>2, <2>5, <2>6, <2>7
  <2>9. \A f, g \in Values(Pushed)' : f # g => Ending(f) <= g.first \/ Ending(g) <= f.first
    BY <2>2, <2>5, <2>6 DEF Disjoint
  <2> QED
    BY <2>8, <2>9 DEF Disjoint, Ending
<1>3. CASE \E w \in Workers : FilterPop(w)
  <2>1. /\ prepareQueue # <<>> /\ prepareQueue' = Tail(prepareQueue)
        /\ prepared' = Append(prepared, Head(prepareQueue)) /\ recordCnt' = recordCnt
    BY <1>3 DEF FilterPop, Prepare!Receive, reading
  <2>2. Pushed' = Pushed
    BY <1>1, <2>1, HandleSequences, ReceiveKeepsOrder DEF Pushed
  <2> QED
    BY <2>1, <2>2 DEF Disjoint, Values, Ending
<1>4. CASE ~PushBlock /\ ~(\E w \in Workers : FilterPop(w))
  <2>1. UNCHANGED <<prepared, prepareQueue, recordCnt>>
    BY <1>4 DEF Next, Finished, PrepareThread, FilterThread, OpenFirst, ReadEOF, SkipBlock, TestAbort,
      ClosePrepare, Prepare!Close, NextFile, FilterPush, FilterEnd, FilterClose, Main, OpenOutput,
      MainPop, ProcessFlow, ProcessExporter, ProcessSampler, ProcessOther, ToProcess, BlockDone, Join,
      vars, reading, prepareVars
  <2> QED
    BY <2>1 DEF Disjoint, Pushed, Values, Ending
<1> QED
  BY <1>2, <1>3, <1>4

(* A new block has not arrived before; so none of its records has been     *)
(* processed.                                                              *)
LEMMA PopKeepsNumbers ==
  ASSUME Inductive, ProcessedInv, MainPop
  PROVE  AtBlock' /\ Numbered'
<1>1. TypeOK /\ OneOwner
  BY DEF Inductive, IInv
<1> DEFINE h == Head(processQueue)
<1>2. /\ processQueue # <<>> /\ arrived' = Append(arrived, h) /\ current' = h
      /\ main' = "process" /\ index' = 1 /\ output' = output /\ main = "pop"
  BY DEF MainPop, Process!Receive
<1>3. h \in Handles
  BY <1>1, <1>2 DEF TypeOK
<1>4. h \notin Values(arrived)
  <2> SUFFICES ASSUME NEW i \in DOMAIN arrived, arrived[i] = h
               PROVE  FALSE
    BY DEF Values
  <2>1. arrived \in Seq(Handles) /\ processQueue \in Seq(Handles)
    BY <1>1, HandleSequences
  <2>2. /\ i \in DOMAIN Delivered /\ Delivered[i] = h
        /\ Len(arrived) + 1 \in DOMAIN Delivered /\ Delivered[Len(arrived) + 1] = h
        /\ i # Len(arrived) + 1
    BY <1>2, <2>1 DEF Delivered
  <2> QED
    BY <1>1, <2>2 DEF OneOwner
<1> HIDE DEF h
<1>5. Values(arrived)' = Values(arrived) \cup {h}
  <2>1. Values(arrived') = Values(arrived) \cup {h}
    BY <1>1, <1>2, <1>3, HandleSequences, ValuesOfAppend
  <2> QED
    BY <2>1 DEF Values
<1>6. Numbered'
  <2> SUFFICES ASSUME NEW i \in DOMAIN output
               PROVE  \E g \in Values(arrived)' :
                        /\ g.first < output[i] /\ output[i] <= Ending(g)
                        /\ main' = "process" /\ g = current' => output[i] < g.first + index'
    BY <1>2 DEF Numbered, Ending
  <2>1. PICK g \in Values(arrived) : g.first < output[i] /\ output[i] <= Ending(g)
    BY DEF ProcessedInv, Numbered
  <2>2. g # h
    BY <1>4
  <2> QED
    BY <1>2, <1>5, <2>1, <2>2
<1> QED
  BY <1>2, <1>5, <1>6 DEF AtBlock

(* The number of a flow that is processed is that of no flow before.       *)
LEMMA FlowKeepsNumbers ==
  ASSUME Inductive, ProcessedInv, ProcessFlow
  PROVE  AtBlock' /\ Numbered' /\ StopsAtLimit' /\ NoFlowTwice' /\ LimitKept'
<1>1. TypeOK /\ OneOwner /\ Places
  BY DEF Inductive, IInv
<1>2. /\ main = "process" /\ index <= Len(current.records) /\ ~abortProcessing
      /\ index' = index + 1
      /\ UNCHANGED <<main, current, arrived, limit>>
  BY DEF ProcessFlow, ToProcess, options, processVars
<1>3. current \in Handles /\ index \in Nat \ {0} /\ output \in Seq(Nat) /\ limit \in Nat
  BY <1>1, <1>2, RecordTypes, PipelineAssumption DEF TypeOK
<1>4. current.first \in Nat /\ Ending(current) \in Nat /\ current.first + index <= Ending(current)
  <2>1. current.first \in Nat /\ Len(current.records) \in Nat /\ Ending(current) \in Nat
    BY <1>3, EndingType
  <2> QED
    BY <1>2, <1>3, <2>1 DEF Ending
<1>5. Values(arrived)' = Values(arrived) /\ current \in Values(arrived)
  BY <1>2 DEF Values, ProcessedInv, AtBlock
<1>6. AtBlock'
  BY <1>2, <1>5 DEF AtBlock
<1>7. \A i \in DOMAIN output : output[i] \in Nat
  BY <1>3
<1>8. \A i \in DOMAIN output : \E h \in Values(arrived) :
          /\ h.first < output[i] /\ output[i] <= Ending(h)
          /\ h = current => output[i] < h.first + index /\ output[i] < h.first + index'
  <2> TAKE i \in DOMAIN output
  <2>1. PICK h \in Values(arrived) :
          /\ h.first < output[i] /\ output[i] <= Ending(h)
          /\ main = "process" /\ h = current => output[i] < h.first + index
    BY DEF ProcessedInv, Numbered
  <2>2. h = current => output[i] < h.first + index /\ output[i] < h.first + index'
    BY <1>2, <1>3, <1>4, <1>7, <2>1
  <2> QED
    BY <2>1, <2>2
<1>9. CASE ~TheRecord.match
  <2>1. UNCHANGED <<output, abortProcessing>>
    BY <1>9 DEF ProcessFlow
  <2>2. Numbered'
    BY <1>2, <1>5, <1>8, <2>1 DEF Numbered, Ending
  <2> QED
    BY <1>2, <1>6, <2>1, <2>2 DEF ProcessedInv, StopsAtLimit, NoFlowTwice, LimitKept
<1>10. CASE TheRecord.match
  <2> DEFINE n == current.first + index
  <2>1. output' = Append(output, n)
        /\ (abortProcessing' <=> limit # 0 /\ Len(output') >= limit)
    BY <1>10 DEF ProcessFlow
  <2>2. n \in Nat /\ current.first < n /\ n <= Ending(current) /\ n < current.first + index'
    BY <1>2, <1>3, <1>4
  <2> HIDE DEF n
  <2>3. /\ DOMAIN output' = DOMAIN output \cup {Len(output) + 1}
        /\ \A i \in DOMAIN output : output'[i] = output[i]
        /\ output'[Len(output) + 1] = n /\ Len(output') = Len(output) + 1
    BY <1>3, <2>1, <2>2
  <2>4. \A i \in DOMAIN output : output[i] # n
    <3> SUFFICES ASSUME NEW i \in DOMAIN output
                 PROVE  output[i] # n
      OBVIOUS
    <3>1. PICK h \in Values(arrived) :
            /\ h.first < output[i] /\ output[i] <= Ending(h)
            /\ h = current => output[i] < h.first + index
      BY <1>8
    <3>2. CASE h = current
      BY <1>3, <1>4, <1>7, <3>1, <3>2 DEF n
    <3>3. CASE h # current
      <4>1. h \in Values(Pushed) /\ current \in Values(Pushed) /\ h \in Handles
        BY <1>1, <1>5, ArrivedPushed
      <4>2. Ending(h) <= current.first \/ Ending(current) <= h.first
        BY <3>3, <4>1 DEF ProcessedInv, Disjoint
      <4>3. h.first \in Nat /\ Ending(h) \in Nat
        BY <4>1, EndingType
      <4> QED
        BY <1>4, <1>7, <2>2, <3>1, <4>2, <4>3
    <3> QED
      BY <3>2, <3>3
  <2>5. Numbered'
    <3> SUFFICES ASSUME NEW i \in DOMAIN output'
                 PROVE  \E h \in Values(arrived) :
                          /\ h.first < output'[i] /\ output'[i] <= Ending(h)
                          /\ h = current => output'[i] < h.first + index'
      BY <1>2, <1>5 DEF Numbered, Ending
    <3>1. CASE i \in DOMAIN output
      BY <1>8, <2>3, <3>1
    <3>2. CASE i = Len(output) + 1
      BY <1>5, <2>2, <2>3, <3>2
    <3> QED
      BY <2>3, <3>1, <3>2
  <2>6. NoFlowTwice'
    BY <2>3, <2>4 DEF ProcessedInv, NoFlowTwice
  <2>7. LimitKept'
    <3>1. limit # 0 => Len(output) < limit
      <4>1. Len(output) \in Nat
        BY <1>3
      <4> QED
        BY <1>2, <1>3, <4>1 DEF ProcessedInv, StopsAtLimit
    <3>2. Len(output) \in Nat
      BY <1>3
    <3> QED
      BY <1>2, <1>3, <2>3, <3>1, <3>2 DEF LimitKept
  <2>8. StopsAtLimit'
    BY <1>2, <2>1 DEF StopsAtLimit
  <2> QED
    BY <1>6, <2>5, <2>6, <2>7, <2>8
<1> QED
  BY <1>9, <1>10

(* Steps that process no flow and take no block; the record main is at may *)
(* move on.                                                                *)
LEMMA OthersKeepNumbers ==
  ASSUME Inductive, ProcessedInv, [Next]_vars, ~MainPop, ~ProcessFlow
  PROVE  AtBlock' /\ Numbered' /\ StopsAtLimit' /\ NoFlowTwice' /\ LimitKept'
<1>1. TypeOK /\ Places
  BY DEF Inductive, IInv
<1>2. UNCHANGED <<arrived, limit, output, abortProcessing>>
  BY DEF Next, Finished, PrepareThread, FilterThread, OpenFirst, ReadEOF, SkipBlock, PushBlock, TestAbort,
    ClosePrepare, FilterPop, FilterPush, FilterEnd, FilterClose, Process!Send, Process!Close, Main,
    OpenOutput, ProcessExporter, ProcessSampler, ProcessOther, ToProcess, BlockDone, Join, vars,
    options, processVars, processing
<1>3. main' = "process" => main = "process" /\ current' = current /\ index' \in {index, index + 1}
  BY DEF Next, Finished, PrepareThread, FilterThread, OpenFirst, ReadEOF, SkipBlock, PushBlock, TestAbort,
    ClosePrepare, FilterPop, FilterPush, FilterEnd, FilterClose, Main,
    OpenOutput, ProcessExporter, ProcessSampler, ProcessOther, ToProcess, BlockDone, Join, vars, processing
<1>4. Values(arrived)' = Values(arrived)
  BY <1>2 DEF Values
<1>5. AtBlock'
  BY <1>3, <1>4 DEF ProcessedInv, AtBlock
<1>6. Numbered'
  <2> SUFFICES ASSUME NEW i \in DOMAIN output
               PROVE  \E h \in Values(arrived) :
                        /\ h.first < output[i] /\ output[i] <= Ending(h)
                        /\ main' = "process" /\ h = current' => output[i] < h.first + index'
    BY <1>2, <1>4 DEF Numbered, Ending
  <2>1. PICK h \in Values(arrived) :
          /\ h.first < output[i] /\ output[i] <= Ending(h)
          /\ main = "process" /\ h = current => output[i] < h.first + index
    BY DEF ProcessedInv, Numbered
  <2>2. main' = "process" /\ h = current' => output[i] < h.first + index'
    <3> SUFFICES ASSUME main' = "process", h = current'
                 PROVE  output[i] < h.first + index'
      OBVIOUS
    <3>1. h = current /\ output[i] < h.first + index /\ index' \in {index, index + 1}
      BY <1>3, <2>1
    <3>2. h \in Handles
      BY <1>1, <1>3, <3>1 DEF TypeOK, Places
    <3>3. h.first \in Nat /\ output[i] \in Nat /\ index \in Nat
      BY <1>1, <3>2, EndingType DEF TypeOK
    <3> QED
      BY <3>1, <3>3
  <2> QED
    BY <2>1, <2>2
<1> QED
  BY <1>2, <1>5, <1>6 DEF ProcessedInv, StopsAtLimit, NoFlowTwice, LimitKept

LEMMA InitProcessed == Init => ProcessedInv
<1> SUFFICES ASSUME Init PROVE ProcessedInv
  OBVIOUS
<1>1. prepareQueue = <<>> /\ prepared = <<>> /\ output = <<>> /\ main = "open"
  BY DEF Init, Prepare!Init
<1>2. Values(Pushed) = {}
  BY <1>1 DEF Pushed, Values
<1>3. limit \in Nat /\ ~abortProcessing
  BY PipelineAssumption DEF Init
<1>4. StopsAtLimit /\ LimitKept
  BY <1>1, <1>3 DEF StopsAtLimit, LimitKept
<1> QED
  BY <1>1, <1>2, <1>4 DEF ProcessedInv, Disjoint, AtBlock, Numbered, NoFlowTwice

LEMMA StepProcessed ==
  ASSUME Inductive, ProcessedInv, [Next]_vars
  PROVE  ProcessedInv'
<1>1. Disjoint'
  BY DisjointKept DEF ProcessedInv
<1>2. CASE MainPop
  <2>1. UNCHANGED <<output, abortProcessing, limit>>
    BY <1>2 DEF MainPop, options
  <2> QED
    BY <1>1, <1>2, <2>1, PopKeepsNumbers DEF ProcessedInv, StopsAtLimit, NoFlowTwice, LimitKept
<1> QED
  BY <1>1, <1>2, FlowKeepsNumbers, OthersKeepNumbers DEF ProcessedInv

(* Whatever order the filter threads deliver in, no flow is processed      *)
(* twice, and never more flows than option -c allows (process_data).       *)
THEOREM ProcessedOnce == Spec => [](NoFlowTwice /\ LimitKept)
<1>1. Init => Inductive /\ ProcessedInv
  BY InitInductive, InitProcessed
<1>2. (Inductive /\ ProcessedInv) /\ [Next]_vars => (Inductive /\ ProcessedInv)'
  BY StepInductive, StepProcessed
<1>3. Inductive /\ ProcessedInv => NoFlowTwice /\ LimitKept
  BY DEF ProcessedInv
<1> QED
  BY <1>1, <1>2, <1>3, PTL DEF Spec
-------------------------------------------------------------------------------
(* Sums over sets of blocks                                                *)

(* A set of subsets of a finite set has a smallest one.                    *)
LEMMA SmallestSubset ==
  ASSUME NEW S, IsFiniteSet(S), NEW C, C \subseteq SUBSET S, C # {}
  PROVE  \E T \in C : \A U \in C : ~(U \subseteq T /\ U # T)
<1>1. C \subseteq FiniteSubsetsOf(S)
  BY FS_FiniteSubsetsOfFinite
<1>2. PICK T \in C : \A U \in C : ~(<<U, T>> \in StrictSubsetOrdering(S))
  BY <1>1, FS_StrictSubsetOrderingWellFounded, WFMin, Zenon
<1>3. ASSUME NEW U \in C, U \subseteq T, U # T PROVE FALSE
  <2>1. <<U, T>> \in StrictSubsetOrdering(S)
    BY <1>3 DEF StrictSubsetOrdering
  <2> QED
    BY <1>2, <2>1
<1> QED
  BY <1>3, Zenon

(* What the recursion of SumFunction computes for the subsets of V         *)
Pick(s) == CHOOSE x \in s : TRUE
Sums(f, g, V) ==
    /\ g = [s \in SUBSET V |-> g[s]]
    /\ \A s \in SUBSET V : g[s] = IF s = {} THEN 0 ELSE f[Pick(s)] + g[s \ {Pick(s)}]

LEMMA PickIn == ASSUME NEW s, s # {} PROVE Pick(s) \in s
BY DEF Pick

(* A sum over a part of S is the same whether it is taken there or in S.   *)
LEMMA SumsAgree ==
  ASSUME NEW S, IsFiniteSet(S), NEW T \in SUBSET S, NEW f, NEW g, NEW h, NEW k,
         Sums(f, g, S), Sums(k, h, T), \A x \in T : f[x] = k[x]
  PROVE  g[T] = h[T]
<1> DEFINE C == {t \in SUBSET T : g[t] # h[t]}
<1> SUFFICES ASSUME C # {} PROVE FALSE
  OBVIOUS
<1>1. C \subseteq SUBSET S
  OBVIOUS
<1> HIDE DEF C
<1>2. PICK t \in C : \A u \in C : ~(u \subseteq t /\ u # t)
  BY <1>1, SmallestSubset
<1>3. t \in SUBSET S /\ t \in SUBSET T /\ g[t] # h[t]
  BY DEF C
<1>4. t # {}
  BY <1>3 DEF Sums
<1>5. Pick(t) \in t
  BY <1>4, PickIn
<1>6. g[t \ {Pick(t)}] = h[t \ {Pick(t)}]
  BY <1>2, <1>3, <1>5 DEF C
<1>7. g[t] = f[Pick(t)] + g[t \ {Pick(t)}] /\ h[t] = k[Pick(t)] + h[t \ {Pick(t)}]
  BY <1>3, <1>4 DEF Sums
<1> QED
  BY <1>3, <1>5, <1>6, <1>7

LEMMA SumsExist ==
  ASSUME NEW S, IsFiniteSet(S), NEW f
  PROVE  \E g : Sums(f, g, S)
<1> DEFINE C == {V \in SUBSET S : ~\E g : Sums(f, g, V)}
<1> SUFFICES ASSUME C # {} PROVE FALSE
  OBVIOUS
<1>1. C \subseteq SUBSET S
  OBVIOUS
<1> HIDE DEF C
<1>2. PICK V \in C : \A u \in C : ~(u \subseteq V /\ u # V)
  BY <1>1, SmallestSubset
<1>3. V \subseteq S /\ ~\E g : Sums(f, g, V)
  BY DEF C
<1> DEFINE G(U) == CHOOSE g : Sums(f, g, U)
<1>4. \A U \in SUBSET V : U # V => Sums(f, G(U), U)
  <2> SUFFICES ASSUME NEW U \in SUBSET V, U # V PROVE \E g : Sums(f, g, U)
    BY Zenon
  <2> QED
    BY <1>2, <1>3 DEF C
<1> DEFINE below(s) == G(s \ {Pick(s)})[s \ {Pick(s)}]
           g == [s \in SUBSET V |-> IF s = {} THEN 0 ELSE f[Pick(s)] + below(s)]
<1>5. \A s \in SUBSET V : s # V => g[s] = G(s)[s]
  <2> SUFFICES ASSUME NEW s \in SUBSET V, s # V PROVE g[s] = G(s)[s]
    OBVIOUS
  <2>1. Sums(f, G(s), s)
    BY <1>4
  <2>2. CASE s = {}
    <3>1. G(s)[s] = 0
      BY <2>1, <2>2 DEF Sums
    <3> QED
      BY <2>2, <3>1
  <2>3. CASE s # {}
    <3> DEFINE t == s \ {Pick(s)}
    <3>1. t \in SUBSET s /\ t \in SUBSET V /\ t # V
      BY <2>3, PickIn
    <3>2. G(s)[s] = f[Pick(s)] + G(s)[t]
      BY <2>1, <2>3 DEF Sums
    <3>3. Sums(f, G(t), t)
      BY <1>4, <3>1
    <3>4. G(s)[t] = G(t)[t]
      <4> HIDE DEF t, G
      <4>1. IsFiniteSet(s) /\ t \in SUBSET s
        BY <1>3, <3>1, FS_Subset
      <4>2. PICK a : a = G(s)
        OBVIOUS
      <4>3. PICK b : b = G(t)
        OBVIOUS
      <4>4. Sums(f, a, s) /\ Sums(f, b, t)
        BY <2>1, <3>3, <4>2, <4>3, Zenon
      <4>5. a[t] = b[t]
        BY <4>1, <4>4, SumsAgree
      <4> QED
        BY <4>2, <4>3, <4>5, Zenon
    <3>5. g[s] = f[Pick(s)] + G(t)[t]
      BY <2>3
    <3> QED
      BY <3>2, <3>4, <3>5
  <2> QED
    BY <2>2, <2>3
<1>6. \A s \in SUBSET V : g[s] = IF s = {} THEN 0 ELSE f[Pick(s)] + g[s \ {Pick(s)}]
  <2>1. ASSUME NEW s \in SUBSET V, s # {} PROVE g[s] = f[Pick(s)] + g[s \ {Pick(s)}]
    <3> DEFINE t == s \ {Pick(s)}
    <3>1. t \in SUBSET V /\ t # V
      BY <2>1, PickIn
    <3>2. g[t] = G(t)[t]
      BY <1>5, <3>1
    <3>3. g[s] = f[Pick(s)] + G(t)[t]
      BY <2>1
    <3> QED
      BY <3>2, <3>3
  <2>2. \A s \in SUBSET V : s = {} => g[s] = 0
    OBVIOUS
  <2> HIDE DEF g
  <2> QED
    BY <2>1, <2>2
<1>7. g = [s \in SUBSET V |-> g[s]]
  OBVIOUS
<1>8. Sums(f, g, V)
  <2> HIDE DEF g
  <2> QED
    BY <1>6, <1>7 DEF Sums
<1> QED
  BY <1>3, <1>8

(* The number of records in the blocks at the places S                     *)
Total(S)  == MapThenSumSet(LAMBDA y : NumRecords(At(y)), S)
Weight(S) == [x \in S |-> NumRecords(At(x))]

LEMMA TotalIsSums ==
  ASSUME NEW S, IsFiniteSet(S)
  PROVE  \E g : Sums(Weight(S), g, S) /\ Total(S) = g[S]
<1> DEFINE E(g) == g = [s \in SUBSET S |->
                    IF s = {} THEN 0
                    ELSE NumRecords(At(CHOOSE x \in s : TRUE)) + g[s \ {CHOOSE x \in s : TRUE}]]
<1>1. Total(S) = (CHOOSE g : E(g))[S]
  BY DEF Total, MapThenSumSet, MapThenFoldSet
<1>2. PICK g : Sums(Weight(S), g, S)
  BY SumsExist
<1>3. \A h : E(h) <=> Sums(Weight(S), h, S)
  <2>1. \A s \in SUBSET S : s # {} => Weight(S)[Pick(s)] = NumRecords(At(Pick(s)))
    BY PickIn DEF Weight
  <2> QED
    BY <2>1 DEF Sums, Pick
<1>4. E(CHOOSE h : E(h))
  <2>1. \E h : E(h)
    <3> HIDE DEF E
    <3>1. E(g)
      BY <1>2, <1>3
    <3> QED
      BY <3>1, Zenon
  <2> HIDE DEF E
  <2> QED
    BY <2>1, Zenon
<1> HIDE DEF E
<1> QED
  BY <1>1, <1>3, <1>4, Zenon

(* The order in which the elements are picked does not matter.             *)
LEMMA SumsInt ==
  ASSUME NEW S, IsFiniteSet(S), NEW f, NEW g, Sums(f, g, S), \A x \in S : f[x] \in Int
  PROVE  \A s \in SUBSET S : g[s] \in Int
<1> DEFINE C == {s \in SUBSET S : g[s] \notin Int}
<1> SUFFICES ASSUME C # {} PROVE FALSE
  OBVIOUS
<1>1. C \subseteq SUBSET S
  OBVIOUS
<1> HIDE DEF C
<1>2. PICK s \in C : \A u \in C : ~(u \subseteq s /\ u # s)
  BY <1>1, SmallestSubset
<1>3. s \in SUBSET S /\ g[s] \notin Int
  BY DEF C
<1>4. s # {}
  <2>1. {} \in SUBSET S => g[{}] = 0
    BY DEF Sums
  <2> QED
    BY <1>3, <2>1
<1>5. Pick(s) \in s
  BY <1>4, PickIn
<1>6. g[s \ {Pick(s)}] \in Int
  BY <1>2, <1>3, <1>5 DEF C
<1>7. g[s] = f[Pick(s)] + g[s \ {Pick(s)}]
  BY <1>3, <1>4 DEF Sums
<1> QED
  BY <1>3, <1>5, <1>6, <1>7

LEMMA SumsRemove ==
  ASSUME NEW S, IsFiniteSet(S), NEW f, NEW g, Sums(f, g, S), \A x \in S : f[x] \in Int
  PROVE  \A s \in SUBSET S : \A x \in s : g[s] = f[x] + g[s \ {x}]
<1> DEFINE C == {s \in SUBSET S : \E x \in s : g[s] # f[x] + g[s \ {x}]}
<1> SUFFICES ASSUME C # {} PROVE FALSE
  OBVIOUS
<1>1. C \subseteq SUBSET S
  OBVIOUS
<1> HIDE DEF C
<1>2. PICK s \in C : \A u \in C : ~(u \subseteq s /\ u # s)
  BY <1>1, SmallestSubset
<1>3. PICK x \in s : g[s] # f[x] + g[s \ {x}]
  BY DEF C
<1>4. s \in SUBSET S
  BY DEF C
<1> DEFINE y == Pick(s)
<1>5. y \in s
  BY PickIn
<1>6. g[s] = f[y] + g[s \ {y}]
  BY <1>4 DEF Sums
<1> HIDE DEF y
<1>7. x # y
  BY <1>3, <1>6
<1>8. \A u \in SUBSET s : u # s => \A z \in u : g[u] = f[z] + g[u \ {z}]
  BY <1>2, <1>4 DEF C
<1>9. g[s \ {y}] = f[x] + g[(s \ {y}) \ {x}]
  BY <1>5, <1>7, <1>8
<1>10. g[s \ {x}] = f[y] + g[(s \ {x}) \ {y}]
  BY <1>5, <1>7, <1>8
<1>11. (s \ {y}) \ {x} = (s \ {x}) \ {y}
  OBVIOUS
<1>12. f[x] \in Int /\ f[y] \in Int /\ g[(s \ {x}) \ {y}] \in Int
  BY <1>4, <1>5, SumsInt
<1> QED
  <2> DEFINE c == g[(s \ {x}) \ {y}]
  <2>1. g[s] = f[y] + (f[x] + c) /\ g[s \ {x}] = f[y] + c
    BY <1>6, <1>9, <1>10, <1>11
  <2>2. f[x] \in Int /\ f[y] \in Int /\ c \in Int
    BY <1>12
  <2> HIDE DEF c
  <2>3. f[y] + (f[x] + c) = f[x] + (f[y] + c)
    BY <2>2
  <2> QED
    BY <1>3, <2>1, <2>3

LEMMA TotalOfNone == Total({}) = 0
<1>1. PICK g : Sums(Weight({}), g, {}) /\ Total({}) = g[{}]
  BY TotalIsSums, FS_EmptySet
<1> QED
  BY <1>1 DEF Sums

LEMMA TotalRemove ==
  ASSUME NEW S, IsFiniteSet(S), \A y \in S : NumRecords(At(y)) \in Int, NEW x \in S
  PROVE  Total(S) = NumRecords(At(x)) + Total(S \ {x}) /\ Total(S) \in Int
<1> DEFINE T == S \ {x}
<1>1. PICK g : Sums(Weight(S), g, S) /\ Total(S) = g[S]
  BY TotalIsSums
<1>2. IsFiniteSet(T)
  BY FS_RemoveElement
<1>3. PICK h : Sums(Weight(T), h, T) /\ Total(T) = h[T]
  BY <1>2, TotalIsSums
<1>4. g[T] = h[T]
  <2>1. T \in SUBSET S
    OBVIOUS
  <2>2. \A y \in T : Weight(S)[y] = Weight(T)[y]
    BY DEF Weight
  <2>3. PICK a : a = Weight(S)
    OBVIOUS
  <2>4. PICK b : b = Weight(T)
    OBVIOUS
  <2>5. IsFiniteSet(S) /\ Sums(a, g, S) /\ Sums(b, h, T)
    BY <1>1, <1>3, <2>3, <2>4
  <2>6. \A y \in T : a[y] = b[y]
    BY <2>2, <2>3, <2>4
  <2> HIDE DEF T
  <2> QED
    BY <2>1, <2>5, <2>6, SumsAgree
<1>5. \A y \in S : Weight(S)[y] \in Int /\ Weight(S)[y] = NumRecords(At(y))
  BY DEF Weight
<1>6. g[S] = Weight(S)[x] + g[T] /\ g[S] \in Int
  <2>1. PICK a : a = Weight(S)
    OBVIOUS
  <2>2. IsFiniteSet(S) /\ Sums(a, g, S) /\ \A y \in S : a[y] \in Int
    BY <1>1, <1>5, <2>1
  <2>3. g[S] = a[x] + g[S \ {x}]
    BY <2>2, SumsRemove
  <2>4. g[S] \in Int
    BY <2>2, SumsInt
  <2> QED
    BY <2>1, <2>3, <2>4
<1> QED
  BY <1>1, <1>3, <1>4, <1>5, <1>6

(* Total of numbers is a number, and more places have no fewer records.    *)
LEMMA TotalMonotone ==
  ASSUME NEW S, IsFiniteSet(S), \A y \in S : NumRecords(At(y)) \in Nat, NEW T \in SUBSET S
  PROVE  Total(S) \in Nat /\ Total(T) \in Nat /\ Total(T) <= Total(S)
<1>1. \A U \in SUBSET S : \A x \in U : /\ Total(U) = NumRecords(At(x)) + Total(U \ {x})
                                       /\ Total(U) \in Int /\ NumRecords(At(x)) \in Nat
  <2> TAKE U \in SUBSET S
  <2> TAKE x \in U
  <2>1. IsFiniteSet(U) /\ \A y \in U : NumRecords(At(y)) \in Int
    BY FS_Subset
  <2> QED
    BY <2>1, TotalRemove
<1>2. \A U \in SUBSET S : Total(U) \in Nat
  <2> DEFINE C == {U \in SUBSET S : Total(U) \notin Nat}
  <2> SUFFICES ASSUME C # {} PROVE FALSE
    OBVIOUS
  <2>1. C \subseteq SUBSET S
    OBVIOUS
  <2> HIDE DEF C
  <2>2. PICK U \in C : \A W \in C : ~(W \subseteq U /\ W # U)
    BY <2>1, SmallestSubset
  <2>3. U \in SUBSET S /\ Total(U) \notin Nat
    BY DEF C
  <2>4. PICK x \in U : TRUE
    BY <2>3, TotalOfNone
  <2>5. Total(U \ {x}) \in Nat
    BY <2>2, <2>3, <2>4 DEF C
  <2>6. Total(U) = NumRecords(At(x)) + Total(U \ {x}) /\ NumRecords(At(x)) \in Nat
    BY <1>1, <2>3, <2>4
  <2> QED
    BY <2>3, <2>5, <2>6
<1>3. \A U \in SUBSET S : T \subseteq U => Total(T) <= Total(U)
  <2> DEFINE C == {U \in SUBSET S : T \subseteq U /\ ~(Total(T) <= Total(U))}
  <2> SUFFICES ASSUME C # {} PROVE FALSE
    OBVIOUS
  <2>1. C \subseteq SUBSET S
    OBVIOUS
  <2> HIDE DEF C
  <2>2. PICK U \in C : \A W \in C : ~(W \subseteq U /\ W # U)
    BY <2>1, SmallestSubset
  <2>3. U \in SUBSET S /\ T \subseteq U /\ ~(Total(T) <= Total(U))
    BY DEF C
  <2>4. Total(T) \in Nat /\ Total(U) \in Nat
    BY <1>2, <2>3
  <2>5. PICK x \in U : x \notin T
    <3>1. T # U
      BY <2>3, <2>4
    <3> QED
      BY <2>3, <3>1
  <2>6. Total(U \ {x}) \in Nat
    BY <1>2, <2>3
  <2>7. Total(T) <= Total(U \ {x})
    BY <2>2, <2>3, <2>5 DEF C
  <2>8. Total(U) = NumRecords(At(x)) + Total(U \ {x}) /\ NumRecords(At(x)) \in Nat
    BY <1>1, <2>3, <2>5
  <2> QED
    BY <2>3, <2>4, <2>6, <2>7, <2>8
<1> QED
  BY <1>2, <1>3

-------------------------------------------------------------------------------
(* The places nfdump reads                                                 *)

(* A finite set of numbers has a greatest member.                          *)
LEMMA MaxInSet ==
  ASSUME NEW S, S \subseteq Nat, S # {}, IsFiniteSet(S)
  PROVE  Max(S) \in S /\ \A x \in S : x <= Max(S)
<1> DEFINE Above(x) == {y \in S : y > x}
           C == {Above(x) : x \in S}
<1>1. C \subseteq SUBSET S /\ C # {}
  OBVIOUS
<1>2. \A U : U \in C <=> \E x \in S : U = Above(x)
  OBVIOUS
<1> HIDE DEF C
<1>3. PICK T \in C : \A U \in C : ~(U \subseteq T /\ U # T)
  <2>1. IsFiniteSet(S)
    OBVIOUS
  <2> QED
    BY ONLY <1>1, <2>1, SmallestSubset
<1>4. PICK x \in S : T = Above(x)
  BY <1>2
<1>5. \A y \in S : x >= y
  <2> SUFFICES ASSUME NEW y \in S, y > x PROVE FALSE
    OBVIOUS
  <2>1. \A z \in S : z > y => z > x
    OBVIOUS
  <2>2. Above(y) \subseteq Above(x)
    BY <2>1
  <2>3. y \in Above(x) /\ y \notin Above(y)
    OBVIOUS
  <2>4. Above(y) \in C
    BY <1>2
  <2> HIDE DEF Above
  <2> QED
    BY <1>3, <1>4, <2>2, <2>3, <2>4
<1> QED
  BY <1>5 DEF Max

LEMMA InputIs ==
  ASSUME TypeOK
  PROVE  /\ input \in Seq(Files)
         /\ \A f \in DOMAIN input : input[f].blocks \in Seq(Blocks) /\ input[f].opens \in BOOLEAN
         /\ \A f \in DOMAIN input : \A b \in DOMAIN input[f].blocks :
               /\ input[f].blocks[b].records \in Seq(Records)
               /\ input[f].blocks[b].type \in BlockTypes
               /\ NumRecords(input[f].blocks[b]) \in Nat
               /\ NumRecords(input[f].blocks[b]) > 0
               /\ NumRecords(input[f].blocks[b]) >= Len(input[f].blocks[b].records)
<1>1. input \in Seq(Files) /\ input \in Inputs
  BY PipelineAssumption DEF TypeOK
<1>2. \A f \in DOMAIN input : input[f].blocks \in Seq(Blocks) /\ input[f].opens \in BOOLEAN
  <2>1. \A f \in DOMAIN input : input[f] \in Files
    BY <1>1
  <2> QED
    BY <2>1 DEF Files
<1>3. ASSUME NEW f \in DOMAIN input, NEW b \in DOMAIN input[f].blocks
      PROVE  /\ input[f].blocks[b].records \in Seq(Records)
             /\ input[f].blocks[b].type \in BlockTypes
             /\ NumRecords(input[f].blocks[b]) \in Nat
             /\ NumRecords(input[f].blocks[b]) > 0
             /\ NumRecords(input[f].blocks[b]) >= Len(input[f].blocks[b].records)
  <2>1. input[f].blocks[b] \in Blocks
    BY <1>2
  <2>2. NumRecords(input[f].blocks[b]) > 0
    BY <1>1, BlockAssumption
  <2>3. PICK x : x = input[f].blocks[b]
    OBVIOUS
  <2>4. x.records \in Seq(Records) /\ x.type \in BlockTypes /\ x.surplus \in Nat
    BY <2>1, <2>3 DEF Blocks
  <2>5. Len(x.records) \in Nat /\ NumRecords(x) = Len(x.records) + x.surplus
    BY <2>4 DEF NumRecords
  <2> QED
    BY <2>2, <2>3, <2>4, <2>5
<1> QED
  BY <1>1, <1>2, <1>3, Zenon

(* Every file is at most this long.                                        *)
Longest == Max({0} \cup {Len(input[f].blocks) : f \in DOMAIN input})

LEMMA LongestIs ==
  ASSUME TypeOK
  PROVE  Longest \in Nat /\ \A f \in DOMAIN input : Len(input[f].blocks) <= Longest
<1> DEFINE L == [g \in DOMAIN input |-> Len(input[g].blocks)]
           Lengths == {Len(input[g].blocks) : g \in DOMAIN input}
<1>1. input \in Seq(Files) /\ \A g \in DOMAIN input : Len(input[g].blocks) \in Nat
  BY InputIs
<1>2. IsFiniteSet({0} \cup Lengths) /\ {0} \cup Lengths \subseteq Nat
  <2>1. IsFiniteSet(DOMAIN input)
    BY <1>1, FS_Interval
  <2>2. L \in Surjection(DOMAIN input, Lengths)
    BY DEF Surjection
  <2>3. IsFiniteSet(Lengths)
    <3> HIDE DEF L, Lengths
    <3> QED
      BY <2>1, <2>2, FS_Surjection
  <2>4. IsFiniteSet({0} \cup Lengths)
    <3> HIDE DEF Lengths
    <3>1. IsFiniteSet(Lengths \cup {0})
      BY <2>3, FS_AddElement
    <3>2. Lengths \cup {0} = {0} \cup Lengths
      OBVIOUS
    <3> QED
      BY <3>1, <3>2
  <2> QED
    BY <1>1, <2>4
<1>3. Longest = Max({0} \cup Lengths)
  BY DEF Longest
<1>4. Longest \in {0} \cup Lengths /\ \A n \in {0} \cup Lengths : n <= Longest
  <2> HIDE DEF Lengths
  <2> QED
    BY <1>2, <1>3, MaxInSet
<1> QED
  BY <1>2, <1>4

(* Read, said of a file and a block                                        *)
LEMMA ReadIs ==
  ASSUME TypeOK, NEW f \in Nat, NEW b \in Nat
  PROVE  <<f, b>> \in Read <=>
            /\ f \in DOMAIN input /\ b \in DOMAIN input[f].blocks
            /\ \A g \in 1 .. f : input[g].opens
            /\ input[f].blocks[b].type = "data"
            /\ \A c \in 1 .. b : input[f].blocks[c].type # "unreadable"
<1>1. <<f, b>> \in Read <=>
         /\ f \in DOMAIN input /\ b \in 1 .. Longest
         /\ \A g \in 1 .. f : input[g].opens
         /\ b <= Len(input[f].blocks)
         /\ input[f].blocks[b].type = "data"
         /\ \A c \in 1 .. b : input[f].blocks[c].type # "unreadable"
  BY DEF Read, Longest
<1>2. f \in DOMAIN input =>
         (b \in DOMAIN input[f].blocks <=> b \in 1 .. Longest /\ b <= Len(input[f].blocks))
  <2>1. f \in DOMAIN input => input[f].blocks \in Seq(Blocks) /\ Len(input[f].blocks) <= Longest
    BY LongestIs, InputIs
  <2> QED
    BY LongestIs, <2>1
<1> QED
  BY <1>1, <1>2

LEMMA ReadTypes ==
  ASSUME TypeOK
  PROVE  /\ IsFiniteSet(Read)
         /\ \A x \in Read :
               /\ x[1] \in Nat /\ x[2] \in Nat /\ x = <<x[1], x[2]>>
               /\ x[1] \in DOMAIN input /\ x[2] \in DOMAIN input[x[1]].blocks
               /\ At(x).records \in Seq(Records)
               /\ NumRecords(At(x)) \in Nat
               /\ NumRecords(At(x)) > 0
               /\ NumRecords(At(x)) >= Len(At(x).records)
<1>1. input \in Seq(Files)
  BY InputIs
<1>2. Read \subseteq (DOMAIN input) \X (1 .. Longest)
  BY DEF Read, Longest
<1>3. IsFiniteSet(Read)
  <2>1. IsFiniteSet(DOMAIN input)
    BY <1>1, FS_Interval
  <2>2. IsFiniteSet(1 .. Longest)
    BY LongestIs, FS_Interval
  <2> QED
    BY <1>2, <2>1, <2>2, FS_Product, FS_Subset
<1>4. ASSUME NEW x \in Read
      PROVE  /\ x[1] \in Nat /\ x[2] \in Nat /\ x = <<x[1], x[2]>>
             /\ x[1] \in DOMAIN input /\ x[2] \in DOMAIN input[x[1]].blocks
  <2>1. /\ x[1] \in Nat /\ x[2] \in Nat /\ x = <<x[1], x[2]>>
    <3>1. x \in (DOMAIN input) \X (1 .. Longest) /\ Longest \in Nat
      BY <1>2, LongestIs
    <3> QED
      BY <1>1, <3>1
  <2> QED
    BY <2>1, ReadIs
<1>5. \A x \in Read : /\ At(x).records \in Seq(Records)
                      /\ NumRecords(At(x)) \in Nat
                      /\ NumRecords(At(x)) > 0
                      /\ NumRecords(At(x)) >= Len(At(x).records)
  BY <1>4, InputIs DEF At
<1> QED
  BY <1>3, <1>4, <1>5

LEMMA Ordered ==
  ASSUME TypeOK
  PROVE  /\ \A x, y \in Read : x # y => Before(x, y) \/ Before(y, x)
         /\ \A x, y \in Read : Before(x, y) => ~Before(y, x)
         /\ \A x, y, z \in Read : Before(x, y) /\ Before(y, z) => Before(x, z)
<1>1. \A x \in Read : x[1] \in Nat /\ x[2] \in Nat /\ x = <<x[1], x[2]>>
  BY ReadTypes
<1> QED
  BY <1>1 DEF Before

(* The records of a block come before those of the next.                   *)
LEMMA FirstIs ==
  ASSUME TypeOK, NEW x \in Read
  PROVE  /\ First(x) \in Nat
         /\ \A y \in Read : Before(x, y) => First(x) + NumRecords(At(x)) <= First(y)
<1> DEFINE Below(y) == {z \in Read : Before(z, y)}
<1>1. \A y : First(y) = Total(Below(y))
  BY DEF First, Total
<1>2. \A y : IsFiniteSet(Below(y)) /\ Below(y) \subseteq Read
  BY ReadTypes, FS_Subset
<1>3. \A y \in Read : NumRecords(At(y)) \in Nat
  BY ReadTypes
<1>4. First(x) \in Nat
  <2> HIDE DEF Below
  <2>1. Below(x) \in SUBSET Read /\ IsFiniteSet(Read)
    BY <1>2, ReadTypes
  <2> QED
    BY <1>1, <1>3, <2>1, TotalMonotone
<1>5. ASSUME NEW y \in Read, Before(x, y)
      PROVE  First(x) + NumRecords(At(x)) <= First(y)
  <2> DEFINE S == Below(x) \cup {x}
  <2>1. S \subseteq Below(y)
    BY <1>5, Ordered
  <2>2. x \notin Below(x)
    BY Ordered
  <2> HIDE DEF Below
  <2>3. IsFiniteSet(S) /\ S \ {x} = Below(x) /\ x \in S /\ S \subseteq Read
    BY <1>2, <2>2, FS_AddElement
  <2>4. IsFiniteSet(Below(y)) /\ \A z \in Below(y) : NumRecords(At(z)) \in Nat
    BY <1>2, <1>3
  <2> HIDE DEF S
  <2>5. Total(S) = NumRecords(At(x)) + Total(Below(x))
    <3>1. \A z \in S : NumRecords(At(z)) \in Int
      BY <1>3, <2>3
    <3> QED
      BY <2>3, <3>1, TotalRemove
  <2>6. Total(S) <= Total(Below(y)) /\ Total(S) \in Nat /\ Total(Below(y)) \in Nat
    BY <2>1, <2>4, TotalMonotone
  <2> QED
    BY <1>1, <1>3, <1>4, <2>5, <2>6
<1> QED
  BY <1>4, <1>5
-------------------------------------------------------------------------------
(* What prepareThread has pushed                                           *)

Handle(x) == [records |-> At(x).records, first |-> First(x)]

(* the places it has passed                                                *)
Passed == {x \in Read : Before(x, <<file, block>>)}

(* It has pushed the blocks of these places, counted their records, and    *)
(* stops early only when it has seen the limit reached.                    *)
Source ==
    /\ Values(Pushed) = {Handle(x) : x \in Passed}
    /\ recordCnt = Total(Passed)
    /\ prepare = "start" => file = 0 /\ block = 1
    /\ \A f \in 1 .. file : input[f].opens
    /\ prepare \in {"read", "test"} =>
            \A b \in 1 .. block - 1 : input[file].blocks[b].type # "unreadable"
    /\ prepare \in {"close", "done"} => abortProcessing \/ Passed = Read

LEMMA SameInput ==
  ASSUME input' = input
  PROVE  /\ Read' = Read /\ Content' = Content
         /\ \A x : At(x)' = At(x) /\ First(x)' = First(x) /\ Handle(x)' = Handle(x)
<1>1. Read' = Read
  BY DEF Read
<1>2. \A x : At(x)' = At(x)
  BY DEF At
<1>3. \A x : First(x)' = First(x)
  BY <1>1 DEF First, At, MapThenSumSet, MapThenFoldSet
<1>4. Content' = Content
  BY <1>1, <1>2, <1>3 DEF Content
<1>5. \A x : Handle(x)' = Handle(x)
  BY <1>2, <1>3 DEF Handle
<1> QED
  BY <1>1, <1>2, <1>3, <1>4, <1>5

(* The blocks of different places are different, and lie behind each other *)
(* as the places do.                                                       *)
LEMMA HandleIs ==
  ASSUME TypeOK, NEW x \in Read
  PROVE  /\ Handle(x) \in Handles /\ Handle(x).first = First(x) /\ First(x) \in Nat
         /\ Handle(x).records = At(x).records
         /\ Ending(Handle(x)) = First(x) + Len(At(x).records)
         /\ Len(At(x).records) \in Nat
         /\ \A y \in Read : Before(x, y) =>
               First(x) < First(y) /\ First(x) + Len(At(x).records) <= First(y)
<1>1. /\ At(x).records \in Seq(Records) /\ NumRecords(At(x)) \in Nat /\ NumRecords(At(x)) > 0
      /\ NumRecords(At(x)) >= Len(At(x).records)
  BY ReadTypes
<1>2. First(x) \in Nat
  BY FirstIs
<1>3. ASSUME NEW y \in Read, Before(x, y)
      PROVE  First(x) < First(y) /\ First(x) + Len(At(x).records) <= First(y)
  <2>1. First(x) + NumRecords(At(x)) <= First(y) /\ First(y) \in Nat
    BY <1>3, FirstIs
  <2>2. Len(At(x).records) \in Nat
    BY <1>1
  <2> QED
    BY <1>1, <1>2, <2>1, <2>2
<1>4. Len(At(x).records) \in Nat
  BY <1>1
<1>5. Handle(x) \in Handles /\ Handle(x).first = First(x) /\ Handle(x).records = At(x).records
  BY <1>1, <1>2 DEF Handle, Handles
<1> QED
  BY <1>2, <1>3, <1>4, <1>5 DEF Ending

LEMMA PassedIs ==
  ASSUME TypeOK
  PROVE  Passed \subseteq Read /\ IsFiniteSet(Passed)
  BY ReadTypes, FS_Subset DEF Passed

LEMMA PushKeepsSource ==
  ASSUME Inductive, Source, PushBlock
  PROVE  Source'
<1>1. TypeOK /\ OneOwner /\ Places
  BY DEF Inductive, IInv
<1> DEFINE x == <<file, block>>
           h == [records |-> TheBlock.records, first |-> recordCnt]
<1>2. /\ prepare = "read" /\ prepare' = "test"
      /\ block \in DOMAIN input[file].blocks /\ file \in DOMAIN input /\ TheBlock.type = "data"
      /\ prepareQueue' = Append(prepareQueue, h) /\ prepared' = prepared
      /\ recordCnt' = recordCnt + NumRecords(TheBlock)
      /\ block' = block + 1 /\ file' = file /\ input' = input
  BY <1>1 DEF PushBlock, AtEnd, Places, Prepare!Send, options
<1>3. file \in Nat /\ block \in Nat \ {0} /\ input \in Seq(Files)
  BY <1>1, InputIs DEF TypeOK
<1>4. x \in Read
  <2>1. \A b \in 1 .. block : input[file].blocks[b].type # "unreadable"
    BY <1>2, <1>3 DEF Source, TheBlock
  <2>2. input[file].blocks[block].type = "data"
    BY <1>2 DEF TheBlock
  <2> QED
    BY <1>1, <1>2, <1>3, <2>1, <2>2, ReadIs DEF Source
<1>5. At(x) = TheBlock
  BY DEF At, TheBlock
<1>6. Passed = {y \in Read : Before(y, x)}
  BY DEF Passed
<1>7. Passed' = Passed \cup {x} /\ x \notin Passed
  <2>1. Passed' = {y \in Read : Before(y, <<file, block + 1>>)}
    BY <1>2, SameInput DEF Passed
  <2>2. \A y \in Read : y[1] \in Nat /\ y[2] \in Nat /\ y = <<y[1], y[2]>>
    BY <1>1, ReadTypes
  <2>3. ASSUME NEW y \in Read
        PROVE  Before(y, <<file, block + 1>>) <=> Before(y, x) \/ y = x
    BY <1>3, <2>2 DEF Before
  <2>4. ~Before(x, x)
    BY <1>3 DEF Before
  <2> HIDE DEF x
  <2> QED
    BY <1>4, <1>6, <2>1, <2>3, <2>4
<1>8. First(x) = recordCnt
  <2>1. First(x) = Total(Passed)
    BY <1>6 DEF First, Total
  <2> QED
    BY <2>1 DEF Source
<1>9. Handle(x) = h
  BY <1>5, <1>8 DEF Handle
<1> HIDE DEF x, h
<1>10. Values(Pushed') = Values(Pushed) \cup {h}
  <2>1. h \in Handles
    BY <1>1, <1>4, <1>9, HandleIs
  <2>2. Pushed' = Append(Pushed, h)
    BY <1>1, <1>2, <2>1, HandleSequences, SendAppends DEF Pushed
  <2> QED
    BY <1>1, <2>1, <2>2, HandleSequences, ValuesOfAppend
<1>11. Values(Pushed)' = {Handle(y) : y \in Passed}'
  <2>1. Values(Pushed)' = Values(Pushed')
    BY DEF Values
  <2>2. {Handle(y) : y \in Passed}' = {Handle(y) : y \in Passed'}
    BY <1>2, SameInput
  <2>3. {Handle(y) : y \in Passed'} = {Handle(y) : y \in Passed} \cup {Handle(x)}
    BY <1>7
  <2> QED
    BY <1>9, <1>10, <2>1, <2>2, <2>3 DEF Source
<1>12. recordCnt' = Total(Passed)'
  <2>1. Total(Passed)' = Total(Passed')
    BY <1>2 DEF Total, At, MapThenSumSet, MapThenFoldSet
  <2>2. PICK S : S = Passed'
    OBVIOUS
  <2>3. S = Passed \cup {x} /\ x \notin Passed
    BY <1>7, <2>2
  <2>4. Total(S) = NumRecords(At(x)) + Total(Passed) /\ Total(S) \in Int
    <3>1. S \subseteq Read /\ IsFiniteSet(S) /\ x \in S /\ S \ {x} = Passed
      BY <1>1, <1>4, <2>3, PassedIs, FS_AddElement
    <3>2. \A y \in S : NumRecords(At(y)) \in Int
      BY <1>1, <3>1, ReadTypes
    <3> QED
      BY <3>1, <3>2, TotalRemove
  <2>5. NumRecords(TheBlock) \in Nat /\ recordCnt \in Nat /\ Total(Passed) = recordCnt
    BY <1>1, <1>4, <1>5, ReadTypes DEF Source, TypeOK
  <2> QED
    BY <1>2, <1>5, <2>1, <2>2, <2>4, <2>5
<1>13. \A b \in 1 .. block' - 1 : input[file].blocks[b].type # "unreadable"
  BY <1>2, <1>3 DEF Source, TheBlock
<1> QED
  BY <1>2, <1>11, <1>12, <1>13 DEF Source

(* Where nothing is pushed, the places passed must stay the same.          *)
LEMMA SourceKept ==
  ASSUME TypeOK, Source, input' = input, Pushed' = Pushed, recordCnt' = recordCnt, Passed' = Passed,
         prepare' = "start" => file' = 0 /\ block' = 1,
         \A f \in 1 .. file' : input[f].opens,
         prepare' \in {"read", "test"} =>
             \A b \in 1 .. block' - 1 : input[file'].blocks[b].type # "unreadable",
         prepare' \in {"close", "done"} => abortProcessing' \/ Passed = Read
  PROVE  Source'
<1>1. Values(Pushed)' = Values(Pushed)
  BY DEF Values
<1>2. {Handle(y) : y \in Passed}' = {Handle(y) : y \in Passed}
  BY SameInput
<1>3. Total(Passed)' = Total(Passed)
  BY DEF Total, At, MapThenSumSet, MapThenFoldSet
<1> QED
  BY <1>1, <1>2, <1>3, SameInput DEF Source

LEMMA NextFileKeepsSource ==
  ASSUME Inductive, Source, OpenFirst \/ ReadEOF
  PROVE  Source'
<1>1. TypeOK /\ Places
  BY DEF Inductive, IInv
<1>2. NextFile /\ input' = input /\ Pushed' = Pushed
  BY DEF OpenFirst, ReadEOF, options, prepareVars, Pushed
<1>3. file \in Nat /\ block \in Nat \ {0} /\ input \in Seq(Files) /\ file <= Len(input)
  BY <1>1, InputIs DEF TypeOK
<1>4. \A y \in Read : /\ y[1] \in Nat /\ y[2] \in Nat \ {0} /\ y = <<y[1], y[2]>>
                      /\ y[1] \in DOMAIN input /\ y[2] \in DOMAIN input[y[1]].blocks
                      /\ \A f \in 1 .. y[1] : input[f].opens
                      /\ \A b \in 1 .. y[2] : input[y[1]].blocks[b].type # "unreadable"
  <2> TAKE y \in Read
  <2>1. /\ y[1] \in Nat /\ y[2] \in Nat /\ y = <<y[1], y[2]>>
        /\ y[1] \in DOMAIN input /\ y[2] \in DOMAIN input[y[1]].blocks
    BY <1>1, ReadTypes
  <2>2. /\ \A f \in 1 .. y[1] : input[f].opens
        /\ \A b \in 1 .. y[2] : input[y[1]].blocks[b].type # "unreadable"
    BY <1>1, <2>1, ReadIs
  <2>3. y[2] # 0
    BY <1>1, <2>1, InputIs
  <2> QED
    BY <2>1, <2>2, <2>3
<1>5. \A y \in Read : y[1] <= file => Before(y, <<file, block>>)
  <2>1. CASE OpenFirst
    <3>1. file = 0
      BY <2>1 DEF OpenFirst, Source
    <3> QED
      BY <1>3, <1>4, <3>1
  <2>2. CASE ReadEOF
    <3> SUFFICES ASSUME NEW y \in Read, y[1] <= file, ~Before(y, <<file, block>>) PROVE FALSE
      OBVIOUS
    <3>1. y[1] = file /\ block <= y[2]
      BY <1>3, <1>4 DEF Before
    <3>2. input[file].blocks \in Seq(Blocks) /\ y[2] \in DOMAIN input[file].blocks
      BY <1>1, <1>4, <3>1, InputIs
    <3>3. block \in DOMAIN input[file].blocks
      BY <1>3, <1>4, <3>1, <3>2
    <3>4. TheBlock.type = "unreadable"
      BY <2>2, <3>3 DEF ReadEOF, AtEnd
    <3>5. block \in 1 .. y[2]
      BY <1>3, <1>4, <3>1
    <3> QED
      BY <1>4, <3>1, <3>4, <3>5 DEF TheBlock
  <2> QED
    BY <2>1, <2>2
<1>6. CASE file < Len(input) /\ input[file + 1].opens
  <2>1. /\ file' = file + 1 /\ block' = 1 /\ prepare' = "read" /\ recordCnt' = recordCnt
    BY <1>2, <1>6 DEF NextFile
  <2>2. Passed' = Passed
    <3>1. Passed' = {y \in Read : Before(y, <<file + 1, 1>>)}
      BY <1>2, <2>1, SameInput DEF Passed
    <3>2. ASSUME NEW y \in Read
          PROVE  Before(y, <<file + 1, 1>>) <=> Before(y, <<file, block>>)
      <4>1. Before(y, <<file + 1, 1>>) <=> y[1] <= file
        BY <1>3, <1>4 DEF Before
      <4>2. Before(y, <<file, block>>) => y[1] <= file
        BY <1>3, <1>4 DEF Before
      <4> QED
        BY <1>5, <4>1, <4>2
    <3> QED
      BY <3>1, <3>2 DEF Passed
  <2>3. \A f \in 1 .. file' : input[f].opens
    <3> SUFFICES ASSUME NEW f \in 1 .. file + 1 PROVE input[f].opens
      BY <2>1
    <3>1. f \in 1 .. file \/ f = file + 1
      BY <1>3
    <3> QED
      BY <1>6, <3>1 DEF Source
  <2>4. \A b \in 1 .. block' - 1 : input[file'].blocks[b].type # "unreadable"
    BY <2>1
  <2> QED
    BY <1>1, <1>2, <2>1, <2>2, <2>3, <2>4, SourceKept
<1>7. CASE ~(file < Len(input) /\ input[file + 1].opens)
  <2>1. prepare' = "close" /\ UNCHANGED <<file, block, recordCnt>>
    BY <1>2, <1>7 DEF NextFile
  <2>2. Passed' = Passed
    BY <1>2, <2>1, SameInput DEF Passed
  <2>3. Passed = Read
    <3> SUFFICES ASSUME NEW y \in Read PROVE y[1] <= file
      BY <1>5 DEF Passed
    <3> SUFFICES ASSUME ~(y[1] <= file) PROVE FALSE
      OBVIOUS
    <3>1. file + 1 \in 1 .. y[1] /\ file + 1 <= Len(input)
      BY <1>3, <1>4
    <3>2. input[file + 1].opens
      BY <1>4, <3>1
    <3> QED
      BY <1>3, <1>7, <3>1, <3>2
  <2>4. \A f \in 1 .. file' : input[f].opens
    BY <2>1 DEF Source
  <2> QED
    BY <1>1, <1>2, <2>1, <2>2, <2>3, <2>4, SourceKept
<1> QED
  BY <1>6, <1>7

LEMMA SkipKeepsSource ==
  ASSUME Inductive, Source, SkipBlock
  PROVE  Source'
<1>1. TypeOK /\ Places
  BY DEF Inductive, IInv
<1>2. /\ prepare = "read" /\ prepare' = "read" /\ ~AtEnd /\ TheBlock.type = "skipped"
      /\ block' = block + 1 /\ file' = file /\ recordCnt' = recordCnt
      /\ input' = input /\ Pushed' = Pushed
  BY DEF SkipBlock, options, prepareVars, Pushed
<1>3. file \in Nat /\ block \in Nat \ {0}
  BY <1>1 DEF TypeOK
<1>4. Passed' = Passed
  <2>1. Passed' = {y \in Read : Before(y, <<file, block + 1>>)}
    BY <1>2, SameInput DEF Passed
  <2>2. ASSUME NEW y \in Read
        PROVE  Before(y, <<file, block + 1>>) <=> Before(y, <<file, block>>)
    <3>1. y[1] \in Nat /\ y[2] \in Nat /\ y = <<y[1], y[2]>>
      BY <1>1, ReadTypes
    <3>2. input[y[1]].blocks[y[2]].type = "data"
      BY <1>1, <3>1, ReadIs
    <3>3. ~(y[1] = file /\ y[2] = block)
      BY <1>2, <3>2 DEF TheBlock
    <3> QED
      BY <1>3, <3>1, <3>3 DEF Before
  <2> QED
    BY <2>1, <2>2 DEF Passed
<1>5. \A b \in 1 .. block' - 1 : input[file'].blocks[b].type # "unreadable"
  BY <1>2, <1>3 DEF Source, TheBlock
<1>6. \A f \in 1 .. file' : input[f].opens
  BY <1>2 DEF Source
<1> QED
  BY <1>1, <1>2, <1>4, <1>5, <1>6, SourceKept

(* the steps of the others, and those of prepareThread at the end          *)
LEMMA OthersKeepSource ==
  ASSUME Inductive, Source, [Next]_vars,
         ~PushBlock, ~OpenFirst, ~ReadEOF, ~SkipBlock
  PROVE  Source'
<1>1. TypeOK /\ Places
  BY DEF Inductive, IInv
<1>2. UNCHANGED <<input, file, block, recordCnt>>
  BY DEF Next, Finished, PrepareThread, FilterThread, TestAbort, ClosePrepare,
    FilterPop, FilterPush, FilterEnd, FilterClose, Main,
    OpenOutput, MainPop, ProcessFlow, ProcessExporter, ProcessSampler, ProcessOther, ToProcess,
    BlockDone, Join, vars, options, reading
<1>3. \/ prepare' = prepare
      \/ prepare = "test" /\ prepare' = "read" /\ UNCHANGED abortProcessing
      \/ prepare = "test" /\ prepare' = "close" /\ abortProcessing /\ UNCHANGED abortProcessing
      \/ prepare = "close" /\ prepare' = "done" /\ UNCHANGED abortProcessing
  BY DEF Next, Finished, PrepareThread, FilterThread, TestAbort, ClosePrepare,
    FilterPop, FilterPush, FilterEnd, FilterClose, Main,
    OpenOutput, MainPop, ProcessFlow, ProcessExporter, ProcessSampler, ProcessOther, ToProcess,
    BlockDone, Join, vars, reading, processing
<1>4. abortProcessing => abortProcessing'
  BY DEF Next, Finished, PrepareThread, FilterThread, TestAbort, ClosePrepare,
    FilterPop, FilterPush, FilterEnd, FilterClose, Main,
    OpenOutput, MainPop, ProcessFlow, ProcessExporter, ProcessSampler, ProcessOther, ToProcess,
    BlockDone, Join, vars, processing
<1>5. Pushed' = Pushed
  <2>1. CASE \E w \in Workers : FilterPop(w)
    <3>1. /\ prepareQueue # <<>> /\ prepareQueue' = Tail(prepareQueue)
          /\ prepared' = Append(prepared, Head(prepareQueue))
      BY <2>1 DEF FilterPop, Prepare!Receive
    <3> QED
      BY <1>1, <3>1, HandleSequences, ReceiveKeepsOrder DEF Pushed
  <2>2. CASE ~\E w \in Workers : FilterPop(w)
    <3>1. UNCHANGED <<prepareQueue, prepared>>
      BY <2>2 DEF Next, Finished, PrepareThread, FilterThread, TestAbort, ClosePrepare, Prepare!Close,
        FilterPush, FilterEnd, FilterClose, Main,
        OpenOutput, MainPop, ProcessFlow, ProcessExporter, ProcessSampler, ProcessOther, ToProcess,
        BlockDone, Join, vars, prepareVars
    <3> QED
      BY <3>1 DEF Pushed
  <2> QED
    BY <2>1, <2>2
<1>6. Passed' = Passed
  BY <1>2, SameInput DEF Passed
<1>7. /\ prepare' = "start" => file' = 0 /\ block' = 1
      /\ (\A f \in 1 .. file' : input[f].opens)
      /\ prepare' \in {"read", "test"} =>
            \A b \in 1 .. block' - 1 : input[file'].blocks[b].type # "unreadable"
  BY <1>2, <1>3 DEF Source
<1>8. prepare' \in {"close", "done"} => abortProcessing' \/ Passed = Read
  BY <1>3, <1>4 DEF Source
<1> QED
  BY <1>1, <1>2, <1>5, <1>6, <1>7, <1>8, SourceKept

LEMMA StepSource ==
  ASSUME Inductive, Source, [Next]_vars
  PROVE  Source'
  BY PushKeepsSource, NextFileKeepsSource, SkipKeepsSource, OthersKeepSource

LEMMA InitSource == Init => Source
<1> SUFFICES ASSUME Init PROVE Source
  OBVIOUS
<1>1. TypeOK
  BY InitInductive DEF Inductive, IInv
<1>2. /\ prepareQueue = <<>> /\ prepared = <<>> /\ file = 0 /\ block = 1 /\ recordCnt = 0
      /\ prepare = "start"
  BY DEF Init, Prepare!Init
<1>3. Passed = {}
  <2> SUFFICES ASSUME NEW y \in Passed PROVE FALSE
    OBVIOUS
  <2>1. y \in Read /\ Before(y, <<0, 1>>)
    BY <1>2 DEF Passed
  <2>2. y[1] \in Nat /\ y[2] \in Nat /\ y[1] \in DOMAIN input /\ y[2] \in DOMAIN input[y[1]].blocks
    BY <1>1, <2>1, ReadTypes
  <2>3. y[1] # 0
    BY <1>1, <2>2, InputIs
  <2> QED
    BY <2>1, <2>2, <2>3 DEF Before
<1>4. Values(Pushed) = {}
  BY <1>2 DEF Pushed, Values
<1> QED
  BY <1>2, <1>3, <1>4, TotalOfNone DEF Source
-------------------------------------------------------------------------------
(* What the filter threads hand on                                         *)

Delivery ==
    /\ \A h \in Values(Delivered) : ~Dropped(h.records)
    /\ main = "process" => arrived # <<>> /\ current = arrived[Len(arrived)]
    /\ main = "done" =>
          prepare = "done" /\ processQueue = <<>> /\ \A w \in Workers : filter[w] = "done"

(* A single thread hands a block on behind all those in front of it.       *)
InFront(h) == {g \in Values(Pushed) : g.first < h.first /\ ~Dropped(g.records)}

InOrder ==
    Cardinality(started) = 1 =>
        /\ \A w \in Workers : held[w] # None => InFront(held[w]) \subseteq Values(Delivered)
        /\ \A j \in DOMAIN Delivered : \A g \in InFront(Delivered[j]) :
              \E i \in 1 .. j - 1 : Delivered[i] = g

(* One step delivers at most one block.                                    *)
LEMMA DeliveredStep ==
  ASSUME Inductive, [Next]_vars
  PROVE  /\ Delivered \in Seq(Handles) /\ arrived \in Seq(Handles) /\ processQueue \in Seq(Handles)
         /\ \/ Delivered' = Delivered
            \/ \E w \in Workers :
                  /\ filter[w] = "filter" /\ held[w] \in Handles /\ ~Dropped(held[w].records)
                  /\ Delivered' = Append(Delivered, held[w])
                  /\ Pushed' = Pushed /\ held' = [held EXCEPT ![w] = None]
<1>1. TypeOK /\ OneOwner
  BY DEF Inductive, IInv
<1>2. Delivered \in Seq(Handles) /\ arrived \in Seq(Handles) /\ processQueue \in Seq(Handles)
  BY <1>1, HandleSequences
<1>3. ASSUME NEW w \in Workers, FilterPush(w)
      PROVE  \/ Delivered' = Delivered
             \/ /\ filter[w] = "filter" /\ held[w] \in Handles /\ ~Dropped(held[w].records)
                /\ Delivered' = Append(Delivered, held[w])
                /\ Pushed' = Pushed /\ held' = [held EXCEPT ![w] = None]
  <2>1. /\ filter[w] = "filter" /\ held' = [held EXCEPT ![w] = None] /\ arrived' = arrived
        /\ UNCHANGED <<prepared, prepareQueue>>
        /\ IF Dropped(held[w].records) THEN processQueue' = processQueue
           ELSE processQueue' = Append(processQueue, held[w])
    BY <1>3 DEF FilterPush, Process!Send, prepareVars, processVars
  <2>2. held[w] \in Handles
    BY <1>1, <2>1 DEF OneOwner, TypeOK
  <2>3. Pushed' = Pushed
    BY <2>1 DEF Pushed
  <2>4. arrived \o Append(processQueue, held[w]) = Append(arrived \o processQueue, held[w])
    BY <1>2, <2>2, SendAppends
  <2>5. CASE Dropped(held[w].records)
    BY <2>1, <2>5 DEF Delivered
  <2>6. CASE ~Dropped(held[w].records)
    BY <2>1, <2>2, <2>3, <2>4, <2>6 DEF Delivered
  <2> QED
    BY <2>5, <2>6
<1>4. CASE MainPop
  <2>1. /\ processQueue # <<>> /\ processQueue' = Tail(processQueue)
        /\ arrived' = Append(arrived, Head(processQueue))
    BY <1>4 DEF MainPop, Process!Receive
  <2>2. Delivered' = Delivered
    BY <1>2, <2>1, ReceiveKeepsOrder DEF Delivered
  <2> QED
    BY <1>2, <2>2
<1>5. CASE ~MainPop /\ ~\E w \in Workers : FilterPush(w)
  <2>1. UNCHANGED <<processQueue, arrived>>
    BY <1>5 DEF Next, Finished, PrepareThread, FilterThread, OpenFirst, ReadEOF, SkipBlock, PushBlock,
      TestAbort, ClosePrepare, FilterPop, FilterEnd, FilterClose,
      Process!Close, Main, OpenOutput, ProcessFlow, ProcessExporter, ProcessSampler,
      ProcessOther, ToProcess, BlockDone, Join, vars, processVars
  <2>2. Delivered' = Delivered
    BY <2>1 DEF Delivered
  <2> QED
    BY <1>2, <2>2
<1> QED
  BY <1>2, <1>3, <1>4, <1>5

LEMMA StepDelivery ==
  ASSUME Inductive, Delivery, [Next]_vars
  PROVE  Delivery'
<1>1. TypeOK /\ OneOwner /\ Closing
  BY DEF Inductive, IInv
<1>2. \A h \in Values(Delivered)' : ~Dropped(h.records)
  <2>1. Delivered \in Seq(Handles) /\ Values(Delivered)' = Values(Delivered')
    BY <1>1, HandleSequences DEF Values
  <2>2. CASE Delivered' = Delivered
    BY <2>1, <2>2 DEF Delivery
  <2>3. CASE \E w \in Workers :
                held[w] \in Handles /\ ~Dropped(held[w].records) /\ Delivered' = Append(Delivered, held[w])
    BY <2>1, <2>3, ValuesOfAppend DEF Delivery
  <2> QED
    BY <2>2, <2>3, DeliveredStep
<1>3. main' = "process" => arrived' # <<>> /\ current' = arrived'[Len(arrived')]
  <2>1. CASE MainPop
    <3>1. /\ processQueue # <<>> /\ arrived' = Append(arrived, Head(processQueue))
          /\ current' = Head(processQueue)
      BY <2>1 DEF MainPop, Process!Receive
    <3>2. arrived \in Seq(Handles) /\ Head(processQueue) \in Handles
      BY <1>1, <3>1, HandleSequences
    <3> QED
      BY <3>1, <3>2
  <2>2. CASE ~MainPop
    <3>1. arrived' = arrived /\ (main' = "process" => main = "process" /\ current' = current)
      BY <2>2 DEF Next, Finished, PrepareThread, FilterThread, OpenFirst, ReadEOF, SkipBlock, PushBlock,
        TestAbort, ClosePrepare, FilterPop, FilterPush, FilterEnd, FilterClose, Process!Send,
        Process!Close, Main, OpenOutput, ProcessFlow, ProcessExporter, ProcessSampler,
        ProcessOther, ToProcess, BlockDone, Join, vars, processVars, processing
    <3> QED
      BY <3>1 DEF Delivery
  <2> QED
    BY <2>1, <2>2
<1>4. main' = "done" =>
          prepare' = "done" /\ processQueue' = <<>> /\ \A w \in Workers : filter'[w] = "done"
  <2>1. CASE Join
    BY <2>1 DEF Join, reading, processVars, filtering
  <2>2. CASE ~Join /\ main' = "done"
    <3>1. main = "done"
      BY <2>2 DEF Next, Finished, PrepareThread, FilterThread, OpenFirst, ReadEOF, SkipBlock, PushBlock,
        TestAbort, ClosePrepare, FilterPop, FilterPush, FilterEnd, FilterClose, Main, OpenOutput, MainPop,
        ProcessFlow, ProcessExporter, ProcessSampler, ProcessOther, ToProcess, BlockDone, vars, processing
    <3>2. prepare = "done" /\ processQueue = <<>> /\ \A w \in Workers : filter[w] = "done"
      BY <3>1 DEF Delivery
    <3>3. UNCHANGED vars
      BY <3>1, <3>2 DEF Next, Finished, PrepareThread, FilterThread, OpenFirst, ReadEOF, SkipBlock, PushBlock,
        TestAbort, ClosePrepare, FilterPop, FilterPush, FilterEnd, FilterClose, Main, OpenOutput, MainPop,
        ProcessFlow, ProcessExporter, ProcessSampler, ProcessOther, ToProcess, BlockDone, Join
    <3> QED
      BY <3>2, <3>3 DEF vars, reading, processVars, filtering
  <2> QED
    BY <2>1, <2>2
<1> QED
  BY <1>2, <1>3, <1>4 DEF Delivery

(* Only one thread works when one was started.                             *)
LEMMA OneThread ==
  ASSUME TypeOK, Places, Cardinality(started) = 1,
         NEW v \in Workers, NEW w \in Workers, filter[v] # "done", filter[w] # "done"
  PROVE  v = w
<1>1. IsFiniteSet(started) /\ v \in started /\ w \in started
  <2>1. started \subseteq Workers
    BY DEF TypeOK
  <2> QED
    BY <2>1, PipelineAssumption, FS_Subset DEF Places
<1>2. \E x : started = {x}
  BY <1>1, FS_Singleton
<1> QED
  BY <1>1, <1>2

LEMMA PushKeepsFront ==
  ASSUME Inductive, InOrder, PushBlock
  PROVE  InOrder'
<1>1. TypeOK /\ OneOwner /\ Places
  BY DEF Inductive, IInv
<1> DEFINE h == [records |-> TheBlock.records, first |-> recordCnt]
<1>2. /\ prepareQueue' = Append(prepareQueue, h) /\ prepared' = prepared
      /\ UNCHANGED <<held, arrived, processQueue, started>>
      /\ block \in DOMAIN input[file].blocks /\ file \in DOMAIN input
  BY <1>1 DEF PushBlock, AtEnd, Places, Prepare!Send, filtering, processVars, options
<1>3. h \in Handles /\ h.first = recordCnt /\ recordCnt \in Nat
  BY <1>1, <1>2, InputTypes DEF Handles, TypeOK
<1> HIDE DEF h
<1>4. Values(Pushed)' = Values(Pushed) \cup {h}
  <2>1. Pushed' = Append(Pushed, h)
    BY <1>1, <1>2, <1>3, HandleSequences, SendAppends DEF Pushed
  <2>2. Values(Pushed') = Values(Pushed) \cup {h}
    BY <1>1, <1>3, <2>1, HandleSequences, ValuesOfAppend
  <2> QED
    BY <2>2 DEF Values
<1>5. Delivered' = Delivered /\ Values(Delivered)' = Values(Delivered)
  BY <1>2 DEF Delivered, Values
<1>6. \A g \in Values(Pushed) : g \in Handles /\ g.first < recordCnt
  BY <1>1, HandleSequences DEF OneOwner, Values
<1>7. \A g \in Values(Pushed) : InFront(g)' = InFront(g)
  <2> SUFFICES ASSUME NEW g \in Values(Pushed) PROVE InFront(g)' = InFront(g)
    OBVIOUS
  <2>1. g.first \in Nat /\ g.first < recordCnt
    BY <1>6 DEF Handles
  <2>2. ~(h.first < g.first)
    BY <1>3, <2>1
  <2> QED
    BY <1>4, <2>2 DEF InFront
<1>8. Values(Delivered) \subseteq Values(Pushed) /\ \A w \in Workers : held[w] # None => held[w] \in Values(Pushed)
  <2>1. Values(prepared) \subseteq Values(Pushed)
    BY <1>1, HandleSequences, ValuesOfConcat DEF Pushed
  <2> QED
    BY <1>1, <2>1 DEF OneOwner
<1>9. \A j \in DOMAIN Delivered : Delivered[j] \in Values(Pushed)
  BY <1>8 DEF Values
<1>10. ASSUME Cardinality(started) = 1, NEW w \in Workers, held[w] # None
       PROVE  InFront(held[w])' \subseteq Values(Delivered)
  <2>1. PICK g : g = held[w]
    OBVIOUS
  <2>2. InFront(held[w])' = InFront(g)'
    BY <1>2, <2>1 DEF InFront
  <2>3. InFront(g) \subseteq Values(Delivered)
    BY <1>10, <2>1 DEF InOrder
  <2> QED
    BY <1>7, <1>8, <1>10, <2>1, <2>2, <2>3
<1>11. ASSUME Cardinality(started) = 1, NEW j \in DOMAIN Delivered
       PROVE  InFront(Delivered[j])' = InFront(Delivered[j])
  <2>1. PICK g : g = Delivered[j]
    OBVIOUS
  <2>2. InFront(Delivered[j])' = InFront(g)'
    BY <1>5, <2>1 DEF InFront
  <2> QED
    BY <1>7, <1>9, <2>1, <2>2
<1>12. ASSUME Cardinality(started) = 1
       PROVE  \A j \in DOMAIN Delivered : \A g \in InFront(Delivered[j]) :
                 \E i \in 1 .. j - 1 : Delivered[i] = g
  BY <1>12 DEF InOrder
<1> QED
  BY <1>2, <1>5, <1>10, <1>11, <1>12 DEF InOrder

LEMMA PopKeepsFront ==
  ASSUME Inductive, InOrder, NEW w \in Workers, FilterPop(w)
  PROVE  InOrder'
<1>1. TypeOK /\ OneOwner /\ Places
  BY DEF Inductive, IInv
<1> DEFINE h == Head(prepareQueue)
<1>2. /\ prepareQueue # <<>> /\ prepareQueue' = Tail(prepareQueue) /\ prepared' = Append(prepared, h)
      /\ held' = [held EXCEPT ![w] = h] /\ filter[w] = "pop"
      /\ UNCHANGED <<arrived, processQueue, started>>
  BY DEF FilterPop, Prepare!Receive, processVars, options
<1>3. h \in Handles /\ prepared \in Seq(Handles) /\ prepareQueue \in Seq(Handles)
  BY <1>1, <1>2 DEF TypeOK
<1>4. Pushed' = Pushed /\ Values(Pushed)' = Values(Pushed)
  <2>1. Pushed' = Pushed
    BY <1>1, <1>2, HandleSequences, ReceiveKeepsOrder DEF Pushed
  <2> QED
    BY <2>1 DEF Values
<1>5. Delivered' = Delivered /\ Values(Delivered)' = Values(Delivered)
  BY <1>2 DEF Delivered, Values
<1>6. \A g : InFront(g)' = InFront(g)
  BY <1>4 DEF InFront
<1>7. ASSUME Cardinality(started) = 1
      PROVE  InFront(h) \subseteq Values(Delivered)
  <2> SUFFICES ASSUME NEW g \in Values(Pushed), g.first < h.first, ~Dropped(g.records),
                      g \notin Values(Delivered)
               PROVE  FALSE
    BY DEF InFront
  <2>1. g \in Values(prepared)
    <3>1. PICK i \in DOMAIN Pushed : Pushed[i] = g
      BY DEF Values
    <3>2. Len(prepared) + 1 \in DOMAIN Pushed /\ Pushed[Len(prepared) + 1] = h
      BY <1>2, <1>3 DEF Pushed
    <3>3. g.first \in Nat /\ h.first \in Nat
      <4>1. g \in Handles
        BY <1>1, <3>1, HandleSequences
      <4> HIDE DEF h
      <4> QED
        BY <1>3, <4>1 DEF Handles
    <3>4. ~(Len(prepared) + 1 < i) /\ i # Len(prepared) + 1
      BY <1>1, <3>1, <3>2, <3>3 DEF OneOwner
    <3>5. i \in DOMAIN prepared /\ prepared[i] = g
      BY <1>3, <3>1, <3>4 DEF Pushed
    <3> QED
      BY <3>5 DEF Values
  <2>2. PICK v \in Workers : held[v] = g
    BY <1>1, <2>1 DEF OneOwner
  <2>3. g # None
    BY <1>1, <2>1, HandleSequences, NoneIsNoHandle DEF Values
  <2>4. filter[v] = "filter"
    BY <1>1, <2>2, <2>3 DEF OneOwner
  <2>5. v = w
    BY <1>1, <1>2, <1>7, <2>4, OneThread
  <2> QED
    BY <1>2, <2>4, <2>5
<1> HIDE DEF h
<1>8. ASSUME Cardinality(started) = 1, NEW v \in Workers, held'[v] # None
      PROVE  InFront(held[v])' \subseteq Values(Delivered)
  <2>1. PICK g : g = held'[v]
    OBVIOUS
  <2>2. InFront(held[v])' = InFront(g)
    BY <1>4, <2>1 DEF InFront
  <2>3. CASE v = w
    <3>1. g = h
      BY <1>1, <1>2, <2>1, <2>3 DEF TypeOK
    <3> QED
      BY <1>7, <1>8, <2>2, <3>1
  <2>4. CASE v # w
    <3>1. held[v] = g /\ held[v] # None
      BY <1>1, <1>2, <1>8, <2>1, <2>4 DEF TypeOK
    <3> QED
      BY <1>8, <2>2, <3>1 DEF InOrder
  <2> QED
    BY <2>3, <2>4
<1>9. ASSUME NEW j \in DOMAIN Delivered
      PROVE  InFront(Delivered[j])' = InFront(Delivered[j])
  BY <1>4, <1>5 DEF InFront
<1>10. ASSUME Cardinality(started) = 1
       PROVE  \A j \in DOMAIN Delivered : \A g \in InFront(Delivered[j]) :
                 \E i \in 1 .. j - 1 : Delivered[i] = g
  BY <1>10 DEF InOrder
<1> QED
  BY <1>2, <1>5, <1>8, <1>9, <1>10 DEF InOrder

LEMMA HandOnKeepsFront ==
  ASSUME Inductive, InOrder, NEW w \in Workers,
         filter[w] = "filter", held[w] \in Handles, ~Dropped(held[w].records),
         Delivered \in Seq(Handles), Delivered' = Append(Delivered, held[w]),
         Pushed' = Pushed, held' = [held EXCEPT ![w] = None], started' = started
  PROVE  InOrder'
<1>1. TypeOK /\ OneOwner
  BY DEF Inductive, IInv
<1>2. PICK h : h = held[w]
  OBVIOUS
<1>3. h \in Handles /\ Delivered' = Append(Delivered, h) /\ h # None
  BY <1>2, NoneIsNoHandle
<1>4. \A g : InFront(g)' = InFront(g)
  <2>1. Values(Pushed)' = Values(Pushed)
    BY DEF Values
  <2> QED
    BY <2>1 DEF InFront
<1>5. Values(Delivered)' = Values(Delivered) \cup {h}
  <2>1. Values(Delivered') = Values(Delivered) \cup {h}
    BY <1>3, ValuesOfAppend
  <2> QED
    BY <2>1 DEF Values
<1>6. held \in [Workers -> Handles \cup {None}]
  BY <1>1 DEF TypeOK
<1>7. ASSUME Cardinality(started) = 1, NEW v \in Workers, held'[v] # None
      PROVE  InFront(held[v])' \subseteq Values(Delivered) \cup {h}
  <2>1. held'[v] = held[v] /\ held[v] # None
    BY <1>6, <1>7
  <2>2. PICK g : g = held[v]
    OBVIOUS
  <2>3. InFront(held[v])' = InFront(g)'
    BY <2>1, <2>2 DEF InFront
  <2> QED
    BY <1>4, <1>7, <2>1, <2>2, <2>3 DEF InOrder
<1>8. ASSUME Cardinality(started) = 1, NEW j \in DOMAIN Delivered', NEW g \in InFront(Delivered[j])'
      PROVE  \E i \in 1 .. j - 1 : Delivered'[i] = g
  <2>1. /\ j \in 1 .. Len(Delivered) + 1 /\ Len(Delivered) \in Nat
        /\ \A i \in DOMAIN Delivered : Delivered'[i] = Delivered[i]
        /\ Delivered'[Len(Delivered) + 1] = h
    BY <1>3
  <2>2. PICK d : d = Delivered'[j]
    OBVIOUS
  <2>3. InFront(Delivered[j])' = InFront(d)'
    BY <2>2 DEF InFront
  <2>4. g \in InFront(d)
    BY <1>4, <1>8, <2>3
  <2>5. CASE j = Len(Delivered) + 1
    <3>1. d = h
      BY <2>1, <2>2, <2>5
    <3>2. g \in Values(Delivered)
      BY <1>2, <1>3, <1>8, <2>4, <3>1 DEF InOrder
    <3>3. PICK i \in DOMAIN Delivered : Delivered[i] = g
      BY <3>2 DEF Values
    <3>4. i \in 1 .. j - 1
      BY <2>1, <2>5, <3>3
    <3> QED
      BY <2>1, <3>3, <3>4
  <2>6. CASE j # Len(Delivered) + 1
    <3>1. j \in DOMAIN Delivered /\ d = Delivered[j]
      BY <2>1, <2>2, <2>6
    <3>2. PICK i \in 1 .. j - 1 : Delivered[i] = g
      BY <1>8, <2>4, <3>1 DEF InOrder
    <3>3. i \in DOMAIN Delivered
      BY <2>1, <3>1, <3>2
    <3> QED
      BY <2>1, <3>2, <3>3
  <2> QED
    BY <2>5, <2>6
<1> QED
  BY <1>5, <1>7, <1>8 DEF InOrder

LEMMA StepInOrder ==
  ASSUME Inductive, InOrder, [Next]_vars
  PROVE  InOrder'
<1>1. started' = started
  BY DEF Next, Finished, PrepareThread, FilterThread, OpenFirst, ReadEOF, SkipBlock, PushBlock,
    TestAbort, ClosePrepare, FilterPop, FilterPush, FilterEnd, FilterClose, Main, OpenOutput, MainPop,
    ProcessFlow, ProcessExporter, ProcessSampler, ProcessOther, ToProcess, BlockDone, Join, vars, options
<1>2. CASE PushBlock \/ \E w \in Workers : FilterPop(w)
  BY <1>2, PushKeepsFront, PopKeepsFront
<1>3. CASE \E w \in Workers : /\ filter[w] = "filter" /\ held[w] \in Handles /\ ~Dropped(held[w].records)
                             /\ Delivered' = Append(Delivered, held[w])
                             /\ Pushed' = Pushed /\ held' = [held EXCEPT ![w] = None]
  BY <1>1, <1>3, DeliveredStep, HandOnKeepsFront
<1>4. CASE Delivered' = Delivered /\ ~PushBlock /\ ~\E w \in Workers : FilterPop(w)
  <2>1. UNCHANGED <<prepared, prepareQueue>>
    BY <1>4 DEF Next, Finished, PrepareThread, FilterThread, OpenFirst, ReadEOF, SkipBlock,
      TestAbort, ClosePrepare, Prepare!Close, FilterPush, FilterEnd, FilterClose, Main, OpenOutput, MainPop,
      ProcessFlow, ProcessExporter, ProcessSampler, ProcessOther, ToProcess, BlockDone, Join, vars, prepareVars
  <2>2. Pushed' = Pushed
    BY <2>1 DEF Pushed
  <2>3. \/ held' = held
        \/ \E w \in Workers : held' = [held EXCEPT ![w] = None]
    BY <1>4 DEF Next, Finished, PrepareThread, FilterThread, OpenFirst, ReadEOF, SkipBlock,
      TestAbort, ClosePrepare, FilterPush, FilterEnd, FilterClose, Main, OpenOutput, MainPop,
      ProcessFlow, ProcessExporter, ProcessSampler, ProcessOther, ToProcess, BlockDone, Join, vars, filtering
  <2>4. \A v \in Workers : held'[v] # None => held'[v] = held[v]
    <3>1. held \in [Workers -> Handles \cup {None}]
      BY DEF Inductive, IInv, TypeOK
    <3> QED
      BY <2>3, <3>1
  <2>5. Values(Pushed)' = Values(Pushed) /\ Values(Delivered)' = Values(Delivered)
    BY <1>4, <2>2 DEF Values
  <2>6. \A v \in Workers : held'[v] # None => InFront(held[v])' = InFront(held[v])
    BY <2>4, <2>5 DEF InFront
  <2>7. \A j \in DOMAIN Delivered : InFront(Delivered[j])' = InFront(Delivered[j])
    BY <1>4, <2>5 DEF InFront
  <2> QED
    BY <1>1, <1>4, <2>4, <2>5, <2>6, <2>7 DEF InOrder
<1> QED
  BY <1>2, <1>3, <1>4, DeliveredStep

LEMMA InitDelivered == Init => Delivery /\ InOrder
<1> SUFFICES ASSUME Init PROVE Delivery /\ InOrder
  OBVIOUS
<1>1. /\ processQueue = <<>> /\ arrived = <<>> /\ main = "open"
      /\ \A w \in Workers : held[w] = None
  BY DEF Init, Process!Init
<1>2. Delivered = <<>>
  BY <1>1 DEF Delivered
<1> QED
  BY <1>1, <1>2 DEF Delivery, InOrder, Values
-------------------------------------------------------------------------------
(* The records processed                                                   *)

(* a record of a block, with its number                                    *)
Item(h, k) == [number |-> h.first + k, record |-> h.records[k]]

(* the records the main thread has come past, unless it stopped            *)
Seen ==
    {c \in Content : \E h \in Values(arrived) : \E k \in DOMAIN h.records :
        c = Item(h, k) /\ (main = "process" /\ h = current => k < index)}

FlowMatch(c) == c.record.kind = "flow" /\ c.record.match

InputOrder ==
    Cardinality(started) = 1 =>
        \A i \in DOMAIN output : \A c \in Matching :
            c < output[i] => c \in {output[j] : j \in 1 .. i - 1}

Processed ==
    /\ Values(output) \subseteq Matching
    /\ ~abortProcessing => \A c \in Seen : FlowMatch(c) => c.number \in Values(output)
    /\ InputOrder

Pipeline == Inductive /\ ProcessedInv /\ Source /\ Delivery /\ InOrder

LEMMA ContentIs ==
  ASSUME NEW c
  PROVE  c \in Content <=> \E x \in Read : /\ ~Dropped(At(x).records)
                                           /\ \E i \in DOMAIN At(x).records : c = Item(Handle(x), i)
<1>1. \A x, i : Item(Handle(x), i) = [number |-> First(x) + i, record |-> At(x).records[i]]
  BY DEF Item, Handle
<1> QED
  BY <1>1 DEF Content

LEMMA MatchingIs ==
  ASSUME NEW n
  PROVE  n \in Matching <=> \E c \in Content : FlowMatch(c) /\ c.number = n
  BY DEF Matching, Of, FlowMatch

(* What is delivered comes from a place passed.                            *)
LEMMA DeliveredFrom ==
  ASSUME Pipeline, NEW h \in Values(Delivered)
  PROVE  h \in Values(Pushed) /\ h \in Handles /\ ~Dropped(h.records)
         /\ \E x \in Read : Before(x, <<file, block>>) /\ h = Handle(x)
<1>1. TypeOK /\ OneOwner /\ Source /\ Delivery
  BY DEF Pipeline, Inductive, IInv
<1>2. h \in Values(Pushed) /\ h \in Handles
  <2>1. Values(prepared) \subseteq Values(Pushed)
    BY <1>1, HandleSequences, ValuesOfConcat DEF Pushed
  <2>2. Values(Pushed) \subseteq Handles
    BY <1>1, HandleSequences DEF Values
  <2> QED
    BY <1>1, <2>1, <2>2 DEF OneOwner
<1>3. PICK x \in Passed : h = Handle(x)
  BY <1>1, <1>2 DEF Source
<1> QED
  BY <1>1, <1>2, <1>3 DEF Passed, Delivery

(* What has arrived is the first part of what was delivered.               *)
LEMMA ArrivedIs ==
  ASSUME TypeOK
  PROVE  /\ Len(arrived) \in Nat /\ DOMAIN arrived = 1 .. Len(arrived)
         /\ \A i \in DOMAIN arrived : i \in DOMAIN Delivered /\ Delivered[i] = arrived[i]
         /\ Values(arrived) \subseteq Values(Delivered)
<1>1. arrived \in Seq(Handles) /\ processQueue \in Seq(Handles)
  BY HandleSequences
<1>2. \A i \in DOMAIN arrived : i \in DOMAIN Delivered /\ Delivered[i] = arrived[i]
  BY <1>1 DEF Delivered
<1>3. Values(arrived) \subseteq Values(Delivered)
  BY <1>2 DEF Values
<1> QED
  BY <1>1, <1>2, <1>3

(* The record main is at is a record of the input.                         *)
LEMMA ItemIs ==
  ASSUME Pipeline, main = "process", index <= Len(current.records)
  PROVE  /\ Item(current, index) \in Content
         /\ Item(current, index).record = TheRecord
         /\ Item(current, index).number = current.first + index
         /\ current \in Values(arrived) /\ index \in DOMAIN current.records
<1>1. TypeOK /\ Places /\ AtBlock
  BY DEF Pipeline, Inductive, IInv, ProcessedInv
<1>2. current \in Values(arrived) /\ current \in Values(Delivered)
  BY <1>1, ArrivedIs DEF AtBlock
<1>3. index \in DOMAIN current.records
  BY <1>1, RecordTypes
<1>4. PICK x \in Read : current = Handle(x)
  BY <1>2, DeliveredFrom
<1>5. ~Dropped(At(x).records) /\ index \in DOMAIN At(x).records
  BY <1>1, <1>2, <1>3, <1>4, DeliveredFrom, HandleIs
<1>6. Item(current, index) \in Content
  BY <1>4, <1>5, ContentIs
<1> QED
  BY <1>2, <1>3, <1>6 DEF Item, TheRecord

(* The step to the next record.                                            *)
LEMMA SeenNext ==
  ASSUME Pipeline, NEW kind, ToProcess(kind)
  PROVE  /\ Seen' = Seen \cup {Item(current, index)}
         /\ main = "process" /\ index <= Len(current.records) /\ ~abortProcessing /\ TheRecord.kind = kind
         /\ UNCHANGED <<input, started, wfile, limit, arrived>>
<1>1. /\ main = "process" /\ main' = "process" /\ current' = current /\ index' = index + 1
      /\ index <= Len(current.records) /\ ~abortProcessing /\ TheRecord.kind = kind
      /\ UNCHANGED <<input, started, wfile, limit, arrived>>
  BY DEF ToProcess, options, processVars
<1>2. Content' = Content /\ Values(arrived)' = Values(arrived)
  BY <1>1, SameInput DEF Values
<1>3. /\ Item(current, index) \in Content
      /\ current \in Values(arrived) /\ index \in DOMAIN current.records
  BY <1>1, ItemIs
<1>4. \A h \in Values(arrived) : \A k \in DOMAIN h.records : k \in Nat
  <2>1. \A h \in Values(arrived) : h \in Handles
    BY HandleSequences DEF Pipeline, Inductive, IInv, Values
  <2> QED
    BY <2>1 DEF Handles
<1>5. index \in Nat
  BY DEF Pipeline, Inductive, IInv, TypeOK
<1>6. Seen' = {c \in Content : \E h \in Values(arrived) : \E k \in DOMAIN h.records :
                  c = Item(h, k) /\ (h = current => k < index + 1)}
  BY <1>1, <1>2 DEF Seen, Item
<1>7. Seen = {c \in Content : \E h \in Values(arrived) : \E k \in DOMAIN h.records :
                  c = Item(h, k) /\ (h = current => k < index)}
  BY <1>1 DEF Seen
<1>8. ASSUME NEW h \in Values(arrived), NEW k \in DOMAIN h.records
      PROVE  (h = current => k < index + 1) <=> ((h = current => k < index) \/ (h = current /\ k = index))
  BY <1>4, <1>5
<1>9. ASSUME NEW c \in Content
      PROVE  c \in Seen' <=> c \in Seen \/ c = Item(current, index)
  BY <1>3, <1>6, <1>7, <1>8, <1>9
<1>10. Seen' \subseteq Content /\ Seen \subseteq Content
  BY <1>6, <1>7
<1> QED
  BY <1>1, <1>3, <1>9, <1>10

(* A single thread brings the blocks in their order, so the records seen   *)
(* are those in front of the next one.                                     *)
LEMMA SeenInFront ==
  ASSUME Pipeline, Cardinality(started) = 1, main = "process", index <= Len(current.records)
  PROVE  Seen = {c \in Content : c.number < current.first + index}
<1>1. TypeOK /\ OneOwner /\ Source /\ Delivery /\ InOrder /\ Places
  BY DEF Pipeline, Inductive, IInv
<1>2. current \in Values(arrived) /\ index \in Nat
  BY <1>1, ItemIs DEF TypeOK
<1>3. PICK y \in Read : current = Handle(y) /\ Before(y, <<file, block>>)
  BY <1>1, <1>2, ArrivedIs, DeliveredFrom
<1>4. /\ y[1] \in Nat /\ y[2] \in Nat /\ current.first = First(y) /\ First(y) \in Nat
      /\ Len(At(y).records) \in Nat /\ index <= Len(At(y).records)
  BY <1>1, <1>3, ReadTypes, HandleIs
<1> DEFINE m == Len(arrived)
<1>5. /\ m \in DOMAIN arrived /\ m \in DOMAIN Delivered /\ current = Delivered[m]
      /\ m \in Nat /\ DOMAIN arrived = 1 .. m
  <2>1. arrived # <<>> /\ current = arrived[m]
    BY <1>1 DEF Delivery
  <2>2. m \in DOMAIN arrived
    BY <1>1, <2>1, HandleSequences
  <2> QED
    BY <1>1, <2>1, <2>2, ArrivedIs
<1> HIDE DEF m
<1>6. \A i, j \in DOMAIN Delivered : i # j => Delivered[i] # Delivered[j]
  BY <1>1 DEF OneOwner
<1>7. ASSUME NEW c \in Seen
      PROVE  c.number < current.first + index
  <2>0. PICK h \in Values(arrived) : \E k \in DOMAIN h.records : c = Item(h, k) /\ (h = current => k < index)
    BY DEF Seen
  <2>1. PICK k \in DOMAIN h.records : c = Item(h, k) /\ (h = current => k < index)
    BY <2>0
  <2>2. PICK x \in Read : h = Handle(x)
    BY <1>1, <2>1, ArrivedIs, DeliveredFrom
  <2>3. /\ h.first = First(x) /\ First(x) \in Nat /\ k \in Nat /\ k <= Len(At(x).records)
        /\ Len(At(x).records) \in Nat
    <3>1. At(x).records \in Seq(Records) /\ h.records = At(x).records /\ h.first = First(x) /\ First(x) \in Nat
      BY <1>1, <2>2, ReadTypes, HandleIs
    <3> QED
      BY <2>1, <3>1
  <2>4. c.number = First(x) + k
    BY <2>1, <2>3 DEF Item
  <2>5. CASE x = y
    BY <1>2, <1>3, <1>4, <2>1, <2>2, <2>3, <2>4, <2>5
  <2>6. CASE Before(x, y)
    <3>1. First(x) + Len(At(x).records) <= First(y)
      BY <1>1, <2>6, HandleIs
    <3>2. index > 0
      BY <1>1 DEF TypeOK
    <3> QED
      BY <1>2, <1>4, <2>3, <2>4, <3>1, <3>2
  <2>7. CASE Before(y, x)
    <3>1. current.first < h.first
      BY <1>1, <1>4, <2>3, <2>7, HandleIs
    <3>2. PICK j \in DOMAIN arrived : arrived[j] = h
      BY <2>1 DEF Values
    <3>3. j \in DOMAIN Delivered /\ Delivered[j] = h
      BY <1>1, <3>2, ArrivedIs
    <3>4. current \in Values(Pushed) /\ ~Dropped(current.records)
      BY <1>1, <1>2, ArrivedIs, DeliveredFrom
    <3>5. current \in InFront(Delivered[j])
      BY <3>1, <3>3, <3>4 DEF InFront
    <3>6. PICK i \in 1 .. j - 1 : Delivered[i] = current
      BY <1>1, <3>3, <3>5 DEF InOrder
    <3>7. i \in DOMAIN arrived /\ i # m
      BY <1>5, <3>2, <3>6
    <3>8. i \in DOMAIN Delivered
      BY <1>1, <3>7, ArrivedIs
    <3> QED
      BY <1>5, <1>6, <3>6, <3>7, <3>8
  <2> QED
    BY <1>1, <2>5, <2>6, <2>7, Ordered
<1>8. ASSUME NEW c \in Content, c.number < current.first + index
      PROVE  c \in Seen
  <2>1. PICK x \in Read : /\ ~Dropped(At(x).records)
                          /\ \E i \in DOMAIN At(x).records : c = Item(Handle(x), i)
    BY ContentIs
  <2>2. PICK k \in DOMAIN At(x).records : c = Item(Handle(x), k)
    BY <2>1
  <2>3. PICK h : h = Handle(x)
    OBVIOUS
  <2>4. /\ h.first = First(x) /\ First(x) \in Nat /\ k \in Nat /\ k >= 1 /\ h.records = At(x).records
    <3>1. At(x).records \in Seq(Records) /\ h.records = At(x).records /\ h.first = First(x) /\ First(x) \in Nat
      BY <1>1, <2>3, ReadTypes, HandleIs
    <3> QED
      BY <2>2, <3>1
  <2>5. c.number = First(x) + k
    BY <2>2, <2>3, <2>4 DEF Item
  <2>6. CASE x = y
    <3>1. h = current /\ k < index
      BY <1>2, <1>3, <1>4, <1>8, <2>3, <2>4, <2>5, <2>6
    <3>2. c = Item(h, k) /\ h \in Values(arrived) /\ k \in DOMAIN h.records
      BY <1>2, <2>2, <2>3, <2>4, <3>1
    <3> QED
      BY <3>1, <3>2 DEF Seen
  <2>7. CASE Before(x, y)
    <3>1. First(x) < First(y)
      BY <1>1, <2>7, HandleIs
    <3>2. h \in Values(Pushed)
      <4>1. /\ x[1] \in Nat /\ x[2] \in Nat /\ file \in Nat /\ block \in Nat
        BY <1>1, InputIs, ReadTypes DEF TypeOK
      <4>2. Before(x, <<file, block>>)
        BY <1>3, <1>4, <2>7, <4>1 DEF Before
      <4> QED
        BY <1>1, <2>3, <4>2 DEF Source, Passed
    <3>3. h \in InFront(Delivered[m])
      BY <1>4, <1>5, <2>1, <2>4, <3>1, <3>2 DEF InFront
    <3>4. PICK i \in 1 .. m - 1 : Delivered[i] = h
      BY <1>1, <1>5, <3>3 DEF InOrder
    <3>5. i \in DOMAIN arrived
      BY <1>5, <3>4
    <3>6. h \in Values(arrived) /\ h # current
      <4>1. arrived[i] = h
        BY <1>1, <3>4, <3>5, ArrivedIs
      <4>2. h.first < current.first
        BY <1>4, <2>4, <3>1
      <4> QED
        BY <1>4, <2>4, <3>5, <4>1, <4>2 DEF Values
    <3>7. c = Item(h, k) /\ k \in DOMAIN h.records
      BY <2>2, <2>3, <2>4
    <3> QED
      BY <3>6, <3>7 DEF Seen
  <2>8. CASE Before(y, x)
    <3>1. First(y) + Len(At(y).records) <= First(x)
      BY <1>1, <2>8, HandleIs
    <3> QED
      BY <1>2, <1>4, <1>8, <2>4, <2>5, <3>1
  <2> QED
    BY <1>1, <2>6, <2>7, <2>8, Ordered
<1>9. Seen \subseteq Content
  BY DEF Seen
<1> QED
  BY <1>7, <1>8, <1>9

(* All other steps leave the records seen as they are.                     *)
LEMMA SeenStays ==
  ASSUME Pipeline, ~abortProcessing, [Next]_vars,
         ~ProcessFlow, ~ProcessExporter, ~ProcessSampler, ~ProcessOther
  PROVE  Seen' = Seen
<1>1. TypeOK /\ OneOwner
  BY DEF Pipeline, Inductive, IInv
<1>2. input' = input /\ Content' = Content
  <2>1. input' = input
    BY DEF Next, Finished, PrepareThread, FilterThread, OpenFirst, ReadEOF, SkipBlock, PushBlock,
      TestAbort, ClosePrepare, FilterPop, FilterPush, FilterEnd, FilterClose, Main, OpenOutput, MainPop,
      BlockDone, Join, vars, options
  <2> QED
    BY <2>1, SameInput
<1>3. CASE MainPop
  <2> DEFINE g == Head(processQueue)
  <2>1. /\ processQueue # <<>> /\ arrived' = Append(arrived, g) /\ current' = g
        /\ main' = "process" /\ index' = 1 /\ main = "pop"
    BY <1>3 DEF MainPop, Process!Receive
  <2>2. g \in Handles /\ arrived \in Seq(Handles) /\ processQueue \in Seq(Handles)
    BY <1>1, <2>1, HandleSequences
  <2>3. g \notin Values(arrived)
    <3> SUFFICES ASSUME NEW i \in DOMAIN arrived, arrived[i] = g
                 PROVE  FALSE
      BY DEF Values
    <3>1. /\ i \in DOMAIN Delivered /\ Delivered[i] = g
          /\ Len(arrived) + 1 \in DOMAIN Delivered /\ Delivered[Len(arrived) + 1] = g
          /\ i # Len(arrived) + 1
      BY <2>1, <2>2 DEF Delivered
    <3> QED
      BY <1>1, <3>1 DEF OneOwner
  <2>4. \A k \in DOMAIN g.records : ~(k < 1)
    BY <2>2 DEF Handles
  <2> HIDE DEF g
  <2>5. Values(arrived)' = Values(arrived) \cup {g}
    <3>1. Values(arrived') = Values(arrived) \cup {g}
      BY <2>1, <2>2, ValuesOfAppend
    <3> QED
      BY <3>1 DEF Values
  <2>6. Seen' = {c \in Content : \E h \in Values(arrived) \cup {g} : \E k \in DOMAIN h.records :
                    c = Item(h, k) /\ (h = g => k < 1)}
    BY <1>2, <2>1, <2>5 DEF Seen, Item
  <2>7. Seen = {c \in Content : \E h \in Values(arrived) : \E k \in DOMAIN h.records : c = Item(h, k)}
    BY <2>1 DEF Seen
  <2>8. ASSUME NEW c
        PROVE  (\E h \in Values(arrived) \cup {g} : \E k \in DOMAIN h.records : c = Item(h, k) /\ (h = g => k < 1))
                 <=> \E h \in Values(arrived) : \E k \in DOMAIN h.records : c = Item(h, k)
    BY <2>3, <2>4
  <2> QED
    BY <2>6, <2>7, <2>8
<1>4. CASE ~MainPop
  <2>1. arrived' = arrived
    BY <1>4 DEF Next, Finished, PrepareThread, FilterThread, OpenFirst, ReadEOF, SkipBlock, PushBlock,
      TestAbort, ClosePrepare, FilterPop, FilterPush, FilterEnd, FilterClose, Process!Send,
      Process!Close, Main, OpenOutput, BlockDone, Join, vars, processVars
  <2>2. Values(arrived)' = Values(arrived)
    BY <2>1 DEF Values
  <2>3. CASE BlockDone
    <3>1. main = "process" /\ index > Len(current.records) /\ main' = "pop"
      BY <2>3 DEF BlockDone
    <3>2. current \in Handles /\ index \in Nat
      BY <1>1, <3>1 DEF Pipeline, Inductive, Places, TypeOK
    <3>3. \A k \in DOMAIN current.records : k < index
      <4>1. current.records \in Seq(Records)
        BY <3>2 DEF Handles
      <4> QED
        BY <3>1, <3>2, <4>1
    <3>4. Seen' = {c \in Content : \E h \in Values(arrived) : \E k \in DOMAIN h.records : c = Item(h, k)}
      BY <1>2, <2>2, <3>1 DEF Seen, Item
    <3>5. Seen = {c \in Content : \E h \in Values(arrived) : \E k \in DOMAIN h.records :
                     c = Item(h, k) /\ (h = current => k < index)}
      BY <3>1 DEF Seen
    <3> QED
      BY <3>3, <3>4, <3>5
  <2>4. CASE ~BlockDone
    <3>1. \/ UNCHANGED <<main, current, index>>
          \/ main # "process" /\ main' # "process"
      BY <1>4, <2>4 DEF Next, Finished, PrepareThread, FilterThread, OpenFirst, ReadEOF, SkipBlock, PushBlock,
        TestAbort, ClosePrepare, FilterPop, FilterPush, FilterEnd, FilterClose, Main, OpenOutput, Join,
        vars, processing
    <3> QED
      BY <1>2, <2>2, <3>1 DEF Seen, Item
  <2> QED
    BY <2>3, <2>4
<1> QED
  BY <1>3, <1>4

LEMMA FlowKeepsProcessed ==
  ASSUME Pipeline, Processed, ProcessFlow
  PROVE  Processed'
<1>1. TypeOK
  BY DEF Pipeline, Inductive, IInv
<1> DEFINE d == Item(current, index)
<1>2. ToProcess("flow")
  BY DEF ProcessFlow
<1>3. /\ Seen' = Seen \cup {d} /\ main = "process" /\ index <= Len(current.records)
      /\ ~abortProcessing /\ TheRecord.kind = "flow"
      /\ UNCHANGED <<input, started, limit>>
  BY <1>2, SeenNext
<1>4. d \in Content /\ d.record = TheRecord /\ d.number = current.first + index
  BY <1>3, ItemIs
<1>5. Matching' = Matching
  BY <1>3, SameInput DEF Matching, Of
<1> DEFINE n == d.number
<1>6. CASE TheRecord.match
  <2>1. output' = Append(output, n) /\ output \in Seq(Nat) /\ n \in Nat
    <3>1. output' = Append(output, n)
      BY <1>4, <1>6 DEF ProcessFlow
    <3>2. current \in Handles /\ index \in Nat
      BY <1>1, <1>3, RecordTypes DEF TypeOK, Pipeline, Inductive
    <3>3. current.first \in Nat
      BY <3>2 DEF Handles
    <3> QED
      BY <1>1, <1>4, <3>1, <3>2, <3>3 DEF TypeOK
  <2>2. FlowMatch(d) /\ n \in Matching
    BY <1>3, <1>4, <1>6, MatchingIs DEF FlowMatch
  <2>3. n = current.first + index
    BY <1>4
  <2> HIDE DEF n, d
  <2>4. Values(output)' = Values(output) \cup {n}
    <3>1. Values(output') = Values(output) \cup {n}
      BY <2>1, ValuesOfAppend
    <3> QED
      BY <3>1 DEF Values
  <2>5. \A c \in Seen \cup {d} : FlowMatch(c) => c.number \in Values(output) \cup {n}
    BY <1>3 DEF Processed, n
  <2>6. ASSUME Cardinality(started) = 1, NEW i \in DOMAIN output', NEW c \in Matching, c < output'[i]
        PROVE  c \in {output'[j] : j \in 1 .. i - 1}
    <3>1. /\ i \in 1 .. Len(output) + 1 /\ Len(output) \in Nat
          /\ \A j \in DOMAIN output : output'[j] = output[j]
          /\ output'[Len(output) + 1] = n
          /\ DOMAIN output = 1 .. Len(output)
      BY <2>1
    <3>2. CASE i = Len(output) + 1
      <4>1. PICK e \in Content : FlowMatch(e) /\ e.number = c
        BY MatchingIs
      <4>2. e \in Seen
        BY <1>3, <2>3, <2>6, <3>1, <3>2, <4>1, SeenInFront
      <4>3. c \in Values(output)
        BY <1>3, <4>1, <4>2 DEF Processed
      <4>4. PICK j \in DOMAIN output : output[j] = c
        BY <4>3 DEF Values
      <4>5. j \in 1 .. i - 1 /\ output'[j] = c
        BY <3>1, <3>2, <4>4
      <4> QED
        BY <4>5
    <3>3. CASE i # Len(output) + 1
      <4>1. i \in DOMAIN output /\ output'[i] = output[i]
        BY <3>1, <3>3
      <4>2. PICK j \in 1 .. i - 1 : output[j] = c
        BY <2>6, <4>1 DEF Processed, InputOrder
      <4>3. j \in DOMAIN output
        BY <3>1, <4>1, <4>2
      <4> QED
        BY <3>1, <4>2, <4>3
    <3> QED
      BY <3>2, <3>3
  <2>7. InputOrder'
    BY <1>3, <1>5, <2>6 DEF InputOrder
  <2>8. Values(output)' \subseteq Matching
    BY <2>2, <2>4 DEF Processed
  <2> QED
    BY <1>3, <1>5, <2>4, <2>5, <2>7, <2>8 DEF Processed, FlowMatch
<1>7. CASE ~TheRecord.match
  <2>1. UNCHANGED <<output, abortProcessing>>
    BY <1>7 DEF ProcessFlow
  <2>2. ~FlowMatch(d)
    BY <1>4, <1>7 DEF FlowMatch
  <2>3. Values(output)' = Values(output)
    BY <2>1 DEF Values
  <2> HIDE DEF d
  <2>4. \A c \in Seen \cup {d} : FlowMatch(c) => c.number \in Values(output)
    BY <1>3, <2>2 DEF Processed
  <2>5. InputOrder'
    BY <1>3, <1>5, <2>1 DEF InputOrder, Processed
  <2> QED
    BY <1>3, <1>5, <2>1, <2>3, <2>4, <2>5 DEF Processed, FlowMatch
<1> QED
  BY <1>6, <1>7

LEMMA OthersKeepProcessed ==
  ASSUME Pipeline, Processed, [Next]_vars, ~ProcessFlow
  PROVE  Processed'
<1>1. UNCHANGED <<input, started, output, abortProcessing>>
  BY DEF Next, Finished, PrepareThread, FilterThread, OpenFirst, ReadEOF, SkipBlock, PushBlock,
    TestAbort, ClosePrepare, FilterPop, FilterPush, FilterEnd, FilterClose, Main, OpenOutput, MainPop,
    ProcessExporter, ProcessSampler, ProcessOther, ToProcess, BlockDone, Join, vars, options, processing
<1>2. Matching' = Matching /\ Values(output)' = Values(output)
  BY <1>1, SameInput DEF Matching, Of, Values
<1>3. InputOrder'
  BY <1>1, <1>2 DEF InputOrder, Processed
<1>4. ASSUME ~abortProcessing, NEW c \in Seen', FlowMatch(c)
      PROVE  c \in Seen
  <2>1. CASE ProcessExporter \/ ProcessSampler \/ ProcessOther
    <3>1. PICK kind \in {"exporter", "sampler", "other", "common"} : ToProcess(kind)
      BY <2>1 DEF ProcessExporter, ProcessSampler, ProcessOther
    <3>2. /\ Seen' = Seen \cup {Item(current, index)}
          /\ main = "process" /\ index <= Len(current.records) /\ TheRecord.kind = kind
      BY <3>1, SeenNext
    <3>3. Item(current, index).record = TheRecord
      BY <3>2, ItemIs
    <3>4. c # Item(current, index)
      BY <1>4, <3>1, <3>2, <3>3 DEF FlowMatch
    <3> QED
      BY <3>2, <3>4
  <2>2. CASE ~(ProcessExporter \/ ProcessSampler \/ ProcessOther)
    BY <1>4, <2>2, SeenStays
  <2> QED
    BY <2>1, <2>2
<1> QED
  BY <1>1, <1>2, <1>3, <1>4 DEF Processed, FlowMatch

LEMMA StepPipeline ==
  ASSUME Pipeline, [Next]_vars
  PROVE  Pipeline'
<1>1. Inductive'
  BY StepInductive DEF Pipeline
<1>2. ProcessedInv'
  BY StepProcessed DEF Pipeline
<1>3. Source'
  BY StepSource DEF Pipeline
<1>4. Delivery' /\ InOrder'
  BY StepDelivery, StepInOrder DEF Pipeline
<1> QED
  BY <1>1, <1>2, <1>3, <1>4 DEF Pipeline

LEMMA InitPipeline == Init => Pipeline /\ Processed
<1> SUFFICES ASSUME Init PROVE Pipeline /\ Processed
  OBVIOUS
<1>1. Pipeline
  BY InitInductive, InitProcessed, InitSource, InitDelivered DEF Pipeline
<1>2. arrived = <<>> /\ output = <<>>
  BY DEF Init, Process!Init
<1>3. Values(arrived) = {} /\ Values(output) = {}
  BY <1>2 DEF Values
<1>4. Seen = {}
  BY <1>3 DEF Seen
<1> QED
  BY <1>1, <1>2, <1>3, <1>4 DEF Processed, InputOrder

(* At the end everything has come through the queues.                      *)
LEMMA SeenAll ==
  ASSUME Pipeline, main = "done", ~abortProcessing
  PROVE  Seen = Content
<1>1. TypeOK /\ OneOwner /\ Closing /\ Source /\ Delivery /\ Places
  BY DEF Pipeline, Inductive, IInv
<1>2. /\ processQueue = <<>> /\ prepare = "done" /\ \A w \in Workers : filter[w] = "done"
  BY <1>1 DEF Delivery
<1>3. prepareQueue = <<>>
  <2>1. \E w \in started : w \in Workers
    BY <1>1 DEF TypeOK
  <2> QED
    BY <1>1, <1>2, <2>1 DEF Closing
<1>4. Passed = Read
  BY <1>1, <1>2 DEF Source
<1>5. Pushed = prepared /\ Delivered = arrived
  <2>1. prepared \in Seq(Handles) /\ arrived \in Seq(Handles)
    BY <1>1, HandleSequences
  <2> QED
    BY <1>2, <1>3, <2>1 DEF Pushed, Delivered
<1>6. \A w \in Workers : held[w] = None
  BY <1>1, <1>2 DEF OneOwner
<1>7. ASSUME NEW c \in Content
      PROVE  c \in Seen
  <2>1. PICK x \in Read : ~Dropped(At(x).records) /\ \E i \in DOMAIN At(x).records : c = Item(Handle(x), i)
    BY ContentIs
  <2>2. PICK h : h = Handle(x)
    OBVIOUS
  <2>3. h.records = At(x).records /\ h # None
    BY <1>1, <2>2, HandleIs, NoneIsNoHandle
  <2>4. h \in Values(prepared)
    BY <1>1, <1>4, <1>5, <2>2 DEF Source
  <2>5. h \in Values(arrived)
    BY <1>1, <1>5, <1>6, <2>1, <2>3, <2>4 DEF OneOwner
  <2> QED
    BY <2>1, <2>2, <2>3, <2>5 DEF Seen
<1> QED
  BY <1>7 DEF Seen

(* Every matching flow of the input is processed, exactly once, unless the *)
(* limit ends the run; and a single thread processes them in the order of  *)
(* the input (prepareThread, filterThread, process_data).                  *)
THEOREM FlowsOnce == Spec => []EachMatchOnce
<1>1. Init => Pipeline /\ Processed
  BY InitPipeline
<1>2. (Pipeline /\ Processed) /\ [Next]_vars => (Pipeline /\ Processed)'
  BY StepPipeline, FlowKeepsProcessed, OthersKeepProcessed
<1>3. ASSUME Pipeline, Processed PROVE EachMatchOnce
  <2>1. NoFlowTwice /\ LimitKept /\ StopsAtLimit /\ TypeOK
    BY <1>3 DEF Pipeline, ProcessedInv, Inductive, IInv
  <2>2. Values(output) \subseteq Matching
    BY <1>3 DEF Processed
  <2>3. ASSUME main = "done" PROVE Values(output) = Matching \/ (limit # 0 /\ Len(output) = limit)
    <3>1. CASE abortProcessing
      <4>1. limit # 0 /\ Len(output) >= limit /\ Len(output) <= limit
        BY <2>1, <3>1 DEF StopsAtLimit, LimitKept
      <4>2. Len(output) \in Nat /\ limit \in Nat
        BY <2>1, PipelineAssumption DEF TypeOK
      <4> QED
        BY <4>1, <4>2
    <3>2. CASE ~abortProcessing
      <4>1. \A c \in Content : FlowMatch(c) => c.number \in Values(output)
        BY <1>3, <2>3, <3>2, SeenAll DEF Processed
      <4> QED
        BY <2>2, <4>1, MatchingIs
    <3> QED
      BY <3>1, <3>2
  <2> QED
    BY <1>3, <2>1, <2>2, <2>3 DEF EachMatchOnce, Processed, InputOrder
<1> QED
  BY <1>1, <1>2, <1>3, PTL DEF Spec
-------------------------------------------------------------------------------
(* The exporter list                                                       *)

Entry(who, id) == [who |-> who, sysid |-> id]

WrittenRecords == [kind : {"exporter", "sampler"}, sysid : Slots, who : Exporters]

(* The numbers in the list are those of its used slots, each once, and the *)
(* list and the exporter records of the output file say the same.          *)
Listed ==
    /\ \A s \in Slots : exporter_list[s] # None => exporter_list[exporter_list[s].sysid] # None
    /\ \A s, t \in Slots :
          exporter_list[s] # None /\ exporter_list[t] # None
            /\ exporter_list[s].sysid = exporter_list[t].sysid => s = t
    /\ \A i \in DOMAIN written : written[i].kind = "exporter" =>
          \E s \in Slots : exporter_list[s] = Entry(written[i].who, written[i].sysid)
    /\ wfile # "none" =>
          \A s \in Slots : exporter_list[s] # None => \E i \in DOMAIN written :
              /\ written[i].kind = "exporter"
              /\ written[i].sysid = exporter_list[s].sysid /\ written[i].who = exporter_list[s].who

(* The new exporter gets the slot of its number, and its number is that of *)
(* a free slot, into which the exporter it meets is moved.                 *)
Adds(id, who, s) ==
    /\ exporter_list[s] = None
    /\ s = id \/ (s > id /\ exporter_list[id] # None /\ exporter_list'[s] = exporter_list[id])
    /\ exporter_list'[id] = Entry(who, s)
    /\ \A t \in Slots : t # id /\ t # s => exporter_list'[t] = exporter_list[t]
    /\ WriteRecord("exporter", s, who)

LEMMA EntryIs ==
  ASSUME NEW who \in Exporters, NEW id \in Slots
  PROVE  Entry(who, id) \in Info /\ Entry(who, id) # None
         /\ Entry(who, id).who = who /\ Entry(who, id).sysid = id
<1>1. Entry(who, id) \in [who : Exporters, sysid : 1 .. MaxExporters]
  BY DEF Entry, Slots
<1>2. Entry(who, id) # None
  BY <1>1, PipelineAssumption
<1> QED
  BY <1>1, <1>2 DEF Entry, Info, Slots

LEMMA SlotIs ==
  ASSUME TypeOK, NEW s \in Slots, exporter_list[s] # None
  PROVE  /\ exporter_list[s] \in Info /\ exporter_list[s].who \in Exporters /\ exporter_list[s].sysid \in Slots
         /\ exporter_list[s] = Entry(exporter_list[s].who, exporter_list[s].sysid)
<1>1. exporter_list[s] \in Info
  BY DEF TypeOK
<1> QED
  BY <1>1 DEF Info, Entry

LEMMA ExporterStep ==
  ASSUME TypeOK, Places, ProcessExporter
  PROVE  /\ TheRecord.sysid \in Slots /\ TheRecord.who \in Exporters
         /\ \/ \E s \in Slots : Adds(TheRecord.sysid, TheRecord.who, s)
            \/ /\ exporter_list[TheRecord.sysid] # None
               /\ exporter_list[TheRecord.sysid].who = TheRecord.who
               /\ exporter_list' = exporter_list
               /\ WriteRecord("exporter", exporter_list[TheRecord.sysid].sysid, TheRecord.who)
            \/ /\ exporter_list[TheRecord.sysid] # None
               /\ FreeSlots(TheRecord.sysid) = {}
               /\ UNCHANGED <<exporter_list, written>>
<1>1. main = "process" /\ index <= Len(current.records)
  BY DEF ProcessExporter, ToProcess
<1>2. TheRecord \in Records
  BY <1>1, RecordTypes
<1>3. TheRecord.sysid \in Slots /\ TheRecord.who \in Exporters
  BY <1>2 DEF Records, Slots
<1> DEFINE id == TheRecord.sysid
           who == TheRecord.who
<1>4. CASE exporter_list[id] = None
  <2>1. /\ exporter_list' = [exporter_list EXCEPT ![id] = Entry(who, id)]
        /\ WriteRecord("exporter", id, who)
    BY <1>4 DEF ProcessExporter, Entry
  <2> HIDE DEF id, who
  <2>2. exporter_list'[id] = Entry(who, id) /\ \A t \in Slots : t # id => exporter_list'[t] = exporter_list[t]
    BY <1>3, <2>1 DEF TypeOK, id
  <2>3. Adds(id, who, id)
    BY <1>4, <2>1, <2>2 DEF Adds
  <2> QED
    BY <1>3, <2>3 DEF id, who
<1>5. CASE exporter_list[id] # None /\ exporter_list[id].who = who
  <2>1. /\ exporter_list' = exporter_list
        /\ WriteRecord("exporter", exporter_list[id].sysid, who)
    BY <1>5 DEF ProcessExporter
  <2> QED
    BY <1>3, <1>5, <2>1
<1>6. CASE exporter_list[id] # None /\ exporter_list[id].who # who
  <2>1. IF FreeSlots(id) = {} THEN UNCHANGED <<exporter_list, written>> ELSE MoveExporter(id, who)
    BY <1>6 DEF ProcessExporter
  <2> HIDE DEF id, who
  <2>2. CASE FreeSlots(id) = {}
    BY <1>3, <1>6, <2>1, <2>2 DEF id, who
  <2>3. CASE FreeSlots(id) # {}
    <3> DEFINE s == Min(FreeSlots(id))
    <3>1. s \in FreeSlots(id)
      <4>1. FreeSlots(id) \subseteq Nat
        BY DEF FreeSlots, Slots
      <4> QED
        BY <2>3, <4>1, MinInSet
    <3>2. /\ exporter_list' = [exporter_list EXCEPT ![s] = exporter_list[id], ![id] = Entry(who, s)]
          /\ WriteRecord("exporter", s, who)
      BY <2>1, <2>3 DEF MoveExporter, Entry
    <3> HIDE DEF s
    <3>3. s \in Slots /\ s > id /\ exporter_list[s] = None
      BY <3>1 DEF FreeSlots
    <3>4. s # id
      BY <1>3, <3>3 DEF Slots, id
    <3>5. /\ exporter_list'[s] = exporter_list[id] /\ exporter_list'[id] = Entry(who, s)
          /\ \A t \in Slots : t # id /\ t # s => exporter_list'[t] = exporter_list[t]
      BY <1>3, <3>2, <3>3, <3>4 DEF TypeOK, id
    <3>6. Adds(id, who, s)
      BY <1>6, <3>2, <3>3, <3>5 DEF Adds
    <3> QED
      BY <1>3, <3>3, <3>6 DEF id, who
  <2> QED
    BY <2>2, <2>3
<1> QED
  BY <1>4, <1>5, <1>6

Line(what, s, who) == [kind |-> what, sysid |-> s, who |-> who]

(* What WriteRecord leaves of the output file                              *)
LEMMA WriteIs ==
  ASSUME TypeOK, NEW what \in {"exporter", "sampler"}, NEW s \in Slots, NEW who \in Exporters,
         WriteRecord(what, s, who)
  PROVE  /\ written \in Seq(WrittenRecords) /\ Len(written) \in Nat
         /\ \A i \in DOMAIN written : i \in DOMAIN written' /\ written'[i] = written[i]
         /\ \A i \in DOMAIN written' : i \in DOMAIN written
               \/ written'[i] = Line(what, s, who)
         /\ wfile = "none" => written' = written
         /\ wfile # "none" =>
               /\ DOMAIN written' = DOMAIN written \cup {Len(written) + 1}
               /\ written'[Len(written) + 1] = Line(what, s, who)
<1>1. written \in Seq(WrittenRecords)
  BY DEF TypeOK, WrittenRecords
<1> DEFINE r == Line(what, s, who)
<1>2. r \in WrittenRecords
  BY DEF WrittenRecords, Line
<1>3. CASE wfile = "none"
  BY <1>1, <1>3 DEF WriteRecord
<1>4. CASE wfile # "none"
  <2>1. written' = Append(written, r)
    BY <1>4 DEF WriteRecord, Line
  <2> HIDE DEF r
  <2>2. /\ written \in Seq(WrittenRecords) /\ Len(written) \in Nat
        /\ \A i \in DOMAIN written : i \in DOMAIN written' /\ written'[i] = written[i]
        /\ DOMAIN written' = DOMAIN written \cup {Len(written) + 1}
        /\ written'[Len(written) + 1] = r
    BY <1>1, <1>2, <2>1
  <2>3. \A i \in DOMAIN written' : i \in DOMAIN written \/ written'[i] = r
    BY <2>2
  <2> QED
    BY <1>4, <2>2, <2>3 DEF r
<1> QED
  BY <1>3, <1>4

LEMMA AddsKeepsListed ==
  ASSUME TypeOK, Listed, NEW id \in Slots, NEW who \in Exporters, NEW s \in Slots, Adds(id, who, s),
         wfile' = wfile
  PROVE  Listed'
<1> DEFINE L == exporter_list
           M == exporter_list'
           old(t) == IF t = s THEN id ELSE t
<1>1. /\ L[s] = None /\ M[id] = Entry(who, s) /\ Entry(who, s).sysid = s /\ Entry(who, s).who = who
      /\ Entry(who, s) # None
  BY EntryIs DEF Adds
<1>2. \A t \in Slots : t # id => old(t) \in Slots /\ M[t] = L[old(t)]
  BY DEF Adds
<1>3. \A t \in Slots : L[t] # None => L[t].sysid \in Slots /\ L[L[t].sysid] # None /\ L[t].sysid # s
  BY <1>1, SlotIs DEF Listed
<1>4. \A t \in Slots : L[t] # None => t # s /\ M[IF t = id THEN s ELSE t] = L[t]
  BY DEF Adds
<1>5. \A t \in Slots : L[t] # None => M[t] # None
  BY <1>1, <1>4
<1>6. M[s] # None
  BY <1>1, <1>4 DEF Adds
<1>7. \A t \in Slots : M[t] # None => M[M[t].sysid] # None
  <2> SUFFICES ASSUME NEW t \in Slots, M[t] # None PROVE M[M[t].sysid] # None
    OBVIOUS
  <2>1. CASE t = id
    BY <1>1, <1>6, <2>1
  <2>2. CASE t # id
    <3>1. L[old(t)] # None /\ M[t] = L[old(t)] /\ old(t) \in Slots
      BY <1>2, <2>2
    <3> QED
      BY <1>3, <1>5, <3>1
  <2> QED
    BY <2>1, <2>2
<1>8. \A t, u \in Slots : M[t] # None /\ M[u] # None /\ M[t].sysid = M[u].sysid => t = u
  <2> SUFFICES ASSUME NEW t \in Slots, NEW u \in Slots, M[t] # None, M[u] # None, M[t].sysid = M[u].sysid
               PROVE  t = u
    OBVIOUS
  <2>1. \A v \in Slots : M[v] # None /\ M[v].sysid = s => v = id
    <3> SUFFICES ASSUME NEW v \in Slots, M[v] # None, v # id PROVE M[v].sysid # s
      OBVIOUS
    <3> QED
      BY <1>2, <1>3
  <2>2. CASE t = id \/ u = id
    BY <1>1, <2>1, <2>2
  <2>3. CASE t # id /\ u # id
    <3>1. /\ L[old(t)] # None /\ M[t] = L[old(t)] /\ old(t) \in Slots
          /\ L[old(u)] # None /\ M[u] = L[old(u)] /\ old(u) \in Slots
      BY <1>2, <2>3
    <3>2. old(t) = old(u)
      <4> HIDE DEF old
      <4> QED
        BY <3>1 DEF Listed
    <3> QED
      BY <2>3, <3>2
  <2> QED
    BY <2>2, <2>3
<1>9. WriteRecord("exporter", s, who)
  BY DEF Adds
<1>10. ASSUME NEW i \in DOMAIN written', written'[i].kind = "exporter"
       PROVE  \E t \in Slots : M[t] = Entry(written'[i].who, written'[i].sysid)
  <2>1. CASE i \in DOMAIN written
    <3>1. written'[i] = written[i]
      BY <1>9, <2>1, WriteIs
    <3>2. PICK t \in Slots : L[t] = Entry(written[i].who, written[i].sysid)
      BY <1>10, <2>1, <3>1 DEF Listed
    <3>3. written[i] \in WrittenRecords
      <4>1. written \in Seq(WrittenRecords)
        BY DEF TypeOK, WrittenRecords
      <4> QED
        BY <2>1, <4>1
    <3>4. L[t] # None
      BY <3>2, <3>3, EntryIs DEF WrittenRecords
    <3> QED
      BY <1>4, <3>1, <3>2, <3>4
  <2>2. CASE i \notin DOMAIN written
    <3>1. written'[i] = [kind |-> "exporter", sysid |-> s, who |-> who]
      BY <1>9, <1>10, <2>2, WriteIs DEF Line
    <3> QED
      BY <1>1, <3>1
  <2> QED
    BY <2>1, <2>2
<1>11. ASSUME wfile # "none", NEW t \in Slots, M[t] # None
       PROVE  \E i \in DOMAIN written' :
                 written'[i].kind = "exporter" /\ written'[i].sysid = M[t].sysid /\ written'[i].who = M[t].who
  <2>1. CASE t = id
    <3>1. /\ Len(written) + 1 \in DOMAIN written'
          /\ written'[Len(written) + 1] = [kind |-> "exporter", sysid |-> s, who |-> who]
      BY <1>9, <1>11, WriteIs DEF Line
    <3> QED
      BY <1>1, <2>1, <3>1
  <2>2. CASE t # id
    <3>1. L[old(t)] # None /\ M[t] = L[old(t)] /\ old(t) \in Slots
      BY <1>2, <1>11, <2>2
    <3>2. PICK i \in DOMAIN written : /\ written[i].kind = "exporter"
                                      /\ written[i].sysid = L[old(t)].sysid /\ written[i].who = L[old(t)].who
      <4> HIDE DEF old
      <4> QED
        BY <1>11, <3>1 DEF Listed
    <3>3. i \in DOMAIN written' /\ written'[i] = written[i]
      BY <1>9, <3>2, WriteIs
    <3> QED
      BY <3>1, <3>2, <3>3
  <2> QED
    BY <2>1, <2>2
<1> QED
  BY <1>7, <1>8, <1>10, <1>11 DEF Listed

(* A record is written of an exporter in the list.                         *)
LEMMA WriteKeepsListed ==
  ASSUME TypeOK, Listed, NEW what \in {"exporter", "sampler"}, NEW s \in Slots, NEW who \in Exporters,
         WriteRecord(what, s, who), exporter_list' = exporter_list, wfile' = wfile,
         what = "exporter" => \E t \in Slots : exporter_list[t] = Entry(who, s)
  PROVE  Listed'
<1>1. ASSUME NEW i \in DOMAIN written', written'[i].kind = "exporter"
      PROVE  \E t \in Slots : exporter_list[t] = Entry(written'[i].who, written'[i].sysid)
  <2>1. CASE i \in DOMAIN written
    <3>1. written'[i] = written[i]
      BY <2>1, WriteIs
    <3> QED
      BY <1>1, <2>1, <3>1 DEF Listed
  <2>2. CASE i \notin DOMAIN written
    <3>1. written'[i] = Line(what, s, who)
      BY <1>1, <2>2, WriteIs
    <3> QED
      BY <1>1, <3>1 DEF Line
  <2> QED
    BY <2>1, <2>2
<1>2. \A i \in DOMAIN written : i \in DOMAIN written' /\ written'[i] = written[i]
  BY WriteIs
<1>3. ASSUME wfile # "none", NEW t \in Slots, exporter_list[t] # None
      PROVE  \E i \in DOMAIN written' : /\ written'[i].kind = "exporter"
                                        /\ written'[i].sysid = exporter_list[t].sysid
                                        /\ written'[i].who = exporter_list[t].who
  BY <1>2, <1>3 DEF Listed
<1> QED
  BY <1>1, <1>3 DEF Listed

LEMMA SamplerStep ==
  ASSUME TypeOK, Places, ProcessSampler
  PROVE  /\ TheRecord.sysid \in Slots /\ TheRecord.who \in Exporters /\ exporter_list' = exporter_list
         /\ IF exporter_list[TheRecord.sysid] = None THEN written' = written
            ELSE WriteRecord("sampler", exporter_list[TheRecord.sysid].sysid, TheRecord.who)
<1>1. main = "process" /\ index <= Len(current.records)
  BY DEF ProcessSampler, ToProcess
<1>2. TheRecord \in Records
  BY <1>1, RecordTypes
<1>3. TheRecord.sysid \in Slots /\ TheRecord.who \in Exporters
  BY <1>2 DEF Records, Slots
<1> QED
  BY <1>3 DEF ProcessSampler

LEMMA StepListed ==
  ASSUME Pipeline, Listed, [Next]_vars
  PROVE  Listed'
<1>1. TypeOK /\ Places
  BY DEF Pipeline, Inductive, IInv
<1>2. wfile' = wfile
  BY DEF Next, Finished, PrepareThread, FilterThread, OpenFirst, ReadEOF, SkipBlock, PushBlock,
    TestAbort, ClosePrepare, FilterPop, FilterPush, FilterEnd, FilterClose, Main, OpenOutput, MainPop,
    ProcessFlow, ProcessExporter, ProcessSampler, ProcessOther, ToProcess, BlockDone, Join, vars, options
<1>3. CASE UNCHANGED <<exporter_list, written>>
  BY <1>2, <1>3 DEF Listed
<1>4. CASE ProcessExporter
  <2>1. CASE \E s \in Slots : Adds(TheRecord.sysid, TheRecord.who, s)
    BY <1>1, <1>2, <1>4, <2>1, ExporterStep, AddsKeepsListed
  <2>2. CASE /\ exporter_list[TheRecord.sysid] # None
             /\ exporter_list[TheRecord.sysid].who = TheRecord.who
             /\ exporter_list' = exporter_list
             /\ WriteRecord("exporter", exporter_list[TheRecord.sysid].sysid, TheRecord.who)
    <3> DEFINE id == TheRecord.sysid
    <3>1. id \in Slots /\ TheRecord.who \in Exporters
      BY <1>1, <1>4, ExporterStep
    <3>2. exporter_list[id].sysid \in Slots
          /\ exporter_list[id] = Entry(TheRecord.who, exporter_list[id].sysid)
      BY <1>1, <2>2, <3>1, SlotIs
    <3> HIDE DEF id
    <3>3. WriteRecord("exporter", exporter_list[id].sysid, TheRecord.who) /\ exporter_list' = exporter_list
      BY <2>2 DEF id
    <3> QED
      BY <1>1, <1>2, <3>1, <3>2, <3>3, WriteKeepsListed
  <2> QED
    BY <1>1, <1>3, <1>4, <2>1, <2>2, ExporterStep
<1>5. CASE ProcessSampler
  <2> DEFINE id == TheRecord.sysid
  <2>1. /\ id \in Slots /\ TheRecord.who \in Exporters /\ exporter_list' = exporter_list
        /\ IF exporter_list[id] = None THEN written' = written
           ELSE WriteRecord("sampler", exporter_list[id].sysid, TheRecord.who)
    BY <1>1, <1>5, SamplerStep
  <2> HIDE DEF id
  <2>2. CASE exporter_list[id] = None
    BY <1>3, <2>1, <2>2
  <2>3. CASE exporter_list[id] # None
    <3>1. exporter_list[id].sysid \in Slots
      BY <1>1, <2>1, <2>3, SlotIs
    <3>2. WriteRecord("sampler", exporter_list[id].sysid, TheRecord.who)
      BY <2>1, <2>3
    <3> QED
      BY <1>1, <1>2, <2>1, <3>1, <3>2, WriteKeepsListed
  <2> QED
    BY <2>2, <2>3
<1>6. CASE ~ProcessExporter /\ ~ProcessSampler
  <2>1. UNCHANGED <<exporter_list, written>>
    BY <1>6 DEF Next, Finished, PrepareThread, FilterThread, OpenFirst, ReadEOF, SkipBlock, PushBlock,
      TestAbort, ClosePrepare, FilterPop, FilterPush, FilterEnd, FilterClose, Main, OpenOutput, MainPop,
      ProcessFlow, ProcessOther, ToProcess, BlockDone, Join, vars, processing
  <2> QED
    BY <1>3, <2>1
<1> QED
  BY <1>4, <1>5, <1>6

LEMMA InitListed == Init => Listed
<1> SUFFICES ASSUME Init PROVE Listed
  OBVIOUS
<1>1. written = <<>> /\ \A s \in Slots : exporter_list[s] = None
  BY DEF Init
<1> QED
  BY <1>1 DEF Listed

(* A number of the output file stands for one exporter.                    *)
LEMMA ListedNames ==
  ASSUME TypeOK, Listed
  PROVE  NumbersName
<1> SUFFICES ASSUME NEW i \in DOMAIN written, NEW j \in DOMAIN written,
                    written[i].kind = "exporter", written[j].kind = "exporter",
                    written[i].sysid = written[j].sysid
             PROVE  written[i].who = written[j].who
  BY DEF NumbersName
<1>1. written[i] \in WrittenRecords /\ written[j] \in WrittenRecords
  <2>1. written \in Seq(WrittenRecords)
    BY DEF TypeOK, WrittenRecords
  <2> QED
    BY <2>1
<1>2. PICK s \in Slots : exporter_list[s] = Entry(written[i].who, written[i].sysid)
  BY DEF Listed
<1>3. PICK t \in Slots : exporter_list[t] = Entry(written[j].who, written[j].sysid)
  BY DEF Listed
<1>4. /\ exporter_list[s] # None /\ exporter_list[s].who = written[i].who
      /\ exporter_list[s].sysid = written[i].sysid
      /\ exporter_list[t] # None /\ exporter_list[t].who = written[j].who
      /\ exporter_list[t].sysid = written[j].sysid
  BY <1>1, <1>2, <1>3, EntryIs DEF WrittenRecords
<1>5. s = t
  BY <1>4 DEF Listed
<1> QED
  BY <1>4, <1>5
-------------------------------------------------------------------------------
(* What a single thread keeps of the descriptions                          *)

Used == {s \in Slots : exporter_list[s] # None}

SeenOf(kind) == {c \in Seen : c.record.kind = kind}

Told == Cardinality(started) = 1 /\ Described

(* The list has a slot for no more exporters than there were records, and  *)
(* the slot of a number is that of the exporter described last under it.   *)
Named ==
    Told /\ ~abortProcessing =>
        /\ Cardinality(Used) <= Cardinality(SeenOf("exporter"))
        /\ \A e \in SeenOf("exporter") :
              (\A o \in SeenOf("exporter") : o.record.sysid = e.record.sysid => o.number <= e.number) =>
                  exporter_list[e.record.sysid] # None /\ exporter_list[e.record.sysid].who = e.record.who
        /\ wfile # "none" => SamplersWritten = Cardinality(SeenOf("sampler"))

Behind ==
    Told => \A i \in DOMAIN written : \E j \in 1 .. i :
                written[j] = [written[i] EXCEPT !.kind = "exporter"]

LEMMA ContentTypes ==
  ASSUME TypeOK
  PROVE  /\ IsFiniteSet(Content)
         /\ \A c \in Content : c.number \in Nat /\ c.record \in Records
<1> DEFINE F(x) == {[number |-> First(x) + i, record |-> At(x).records[i]] : i \in DOMAIN At(x).records}
           Good == {x \in Read : ~Dropped(At(x).records)}
           All == {F(x) : x \in Good}
<1>1. Content = UNION All
  BY DEF Content
<1>2. IsFiniteSet(Good) /\ Good \subseteq Read
  BY ReadTypes, FS_Subset
<1>3. \A x \in Good : IsFiniteSet(F(x))
  <2> SUFFICES ASSUME NEW x \in Good PROVE IsFiniteSet(F(x))
    OBVIOUS
  <2> DEFINE D == DOMAIN At(x).records
             f == [i \in D |-> [number |-> First(x) + i, record |-> At(x).records[i]]]
  <2>1. IsFiniteSet(D)
    <3>1. At(x).records \in Seq(Records)
      BY ReadTypes
    <3>2. D = 1 .. Len(At(x).records) /\ Len(At(x).records) \in Nat
      BY <3>1
    <3> QED
      BY <3>2, FS_Interval
  <2>2. f \in Surjection(D, F(x))
    BY DEF Surjection
  <2> HIDE DEF D, f, F
  <2> QED
    BY <2>1, <2>2, FS_Surjection
<1>4. IsFiniteSet(All)
  <2> DEFINE g == [x \in Good |-> F(x)]
  <2> HIDE DEF F, Good
  <2>1. g \in Surjection(Good, All)
    BY DEF Surjection
  <2> HIDE DEF g, All
  <2> QED
    BY <1>2, <2>1, FS_Surjection
<1>5. \A T \in All : IsFiniteSet(T)
  <2> HIDE DEF F, Good
  <2> QED
    BY <1>3
<1>6. IsFiniteSet(Content)
  <2> HIDE DEF All
  <2> QED
    BY <1>1, <1>4, <1>5, FS_UNION
<1>7. ASSUME NEW c \in Content
      PROVE  c.number \in Nat /\ c.record \in Records
  <2>1. PICK x \in Read : \E i \in DOMAIN At(x).records : c = Item(Handle(x), i)
    BY ContentIs
  <2>2. PICK i \in DOMAIN At(x).records : c = Item(Handle(x), i)
    BY <2>1
  <2>3. At(x).records \in Seq(Records) /\ First(x) \in Nat
    BY ReadTypes, FirstIs
  <2>4. c.number = First(x) + i /\ c.record = At(x).records[i]
    BY <2>2 DEF Item, Handle
  <2> QED
    BY <2>2, <2>3, <2>4
<1> QED
  BY <1>6, <1>7

LEMMA UsedFinite == IsFiniteSet(Used) /\ Cardinality(Used) \in Nat
<1>1. IsFiniteSet(Slots)
  BY PipelineAssumption, FS_Interval DEF Slots
<1> QED
  BY <1>1, FS_Subset, FS_CardinalityType DEF Used

LEMMA SeenOfFinite ==
  ASSUME TypeOK, NEW kind
  PROVE  IsFiniteSet(SeenOf(kind)) /\ Cardinality(SeenOf(kind)) \in Nat /\ SeenOf(kind) \subseteq Of(kind)
         /\ IsFiniteSet(Of(kind)) /\ Cardinality(Of(kind)) \in Nat
<1>1. SeenOf(kind) \subseteq Of(kind) /\ Of(kind) \subseteq Content
  BY DEF SeenOf, Seen, Of
<1>2. IsFiniteSet(Of(kind))
  BY <1>1, ContentTypes, FS_Subset
<1>3. IsFiniteSet(SeenOf(kind))
  BY <1>1, <1>2, FS_Subset
<1> QED
  BY <1>1, <1>2, <1>3, FS_CardinalityType

(* The next record is behind all those seen.                               *)
LEMMA NextOfOne ==
  ASSUME Pipeline, Told, NEW kind, ToProcess(kind)
  PROVE  \E d \in Content :
            /\ d.record = TheRecord /\ TheRecord.kind = kind
            /\ d \notin Seen /\ (\A c \in Seen : c.number < d.number)
            /\ (\A c \in Content : c.number < d.number => c \in Seen)
            /\ Seen' = Seen \cup {d}
            /\ SeenOf(kind)' = SeenOf(kind) \cup {d}
            /\ \A k : k # kind => SeenOf(k)' = SeenOf(k)
            /\ Cardinality(SeenOf(kind) \cup {d}) = Cardinality(SeenOf(kind)) + 1
<1>1. TypeOK
  BY DEF Pipeline, Inductive, IInv
<1>2. /\ Seen' = Seen \cup {Item(current, index)}
      /\ main = "process" /\ index <= Len(current.records) /\ TheRecord.kind = kind
  BY SeenNext
<1>3. PICK d : d = Item(current, index)
  OBVIOUS
<1>4. d \in Content /\ d.record = TheRecord /\ d.number = current.first + index
  BY <1>2, <1>3, ItemIs
<1>5. Seen = {c \in Content : c.number < d.number}
  BY <1>2, <1>4, SeenInFront DEF Told
<1>6. d \notin Seen
  <2>1. d.number \in Nat
    BY <1>1, <1>4, ContentTypes
  <2> QED
    BY <1>5, <2>1
<1>7. /\ SeenOf(kind)' = SeenOf(kind) \cup {d}
      /\ \A k : k # kind => SeenOf(k)' = SeenOf(k)
  BY <1>2, <1>3, <1>4 DEF SeenOf
<1>8. Cardinality(SeenOf(kind) \cup {d}) = Cardinality(SeenOf(kind)) + 1
  <2>1. d \notin SeenOf(kind)
    BY <1>6 DEF SeenOf
  <2> QED
    BY <1>1, <2>1, SeenOfFinite, FS_AddElement
<1> QED
  BY <1>2, <1>3, <1>4, <1>5, <1>6, <1>7, <1>8

(* There is room for a new exporter.                                       *)
LEMMA RoomForExporter ==
  ASSUME Pipeline, Named, Told, ToProcess("exporter"), TheRecord.sysid \in Slots,
         exporter_list[TheRecord.sysid] # None
  PROVE  FreeSlots(TheRecord.sysid) # {}
<1>1. TypeOK /\ ~abortProcessing
  BY DEF Pipeline, Inductive, IInv, ToProcess
<1>2. PICK id : id = TheRecord.sysid
  OBVIOUS
<1>3. PICK d \in Content : /\ d.record = TheRecord /\ TheRecord.kind = "exporter" /\ d \notin Seen
                           /\ Cardinality(SeenOf("exporter") \cup {d}) = Cardinality(SeenOf("exporter")) + 1
  BY NextOfOne
<1> SUFFICES ASSUME FreeSlots(id) = {} PROVE FALSE
  BY <1>2
<1>4. /\ id \in Nat /\ MaxExporters \in Nat /\ id >= 1 /\ id <= MaxExporters
  BY <1>2, PipelineAssumption DEF Slots
<1>5. id .. MaxExporters \subseteq Used
  BY <1>2, <1>4 DEF FreeSlots, Used, Slots
<1>6. MaxExporters - id + 1 <= Cardinality(Used)
  <2>1. Cardinality(id .. MaxExporters) = MaxExporters - id + 1
    BY <1>4, FS_Interval
  <2> QED
    BY <1>5, <2>1, UsedFinite, FS_Subset
<1>7. Cardinality(SeenOf("exporter")) + 1 <= Cardinality(Of("exporter"))
  <2>1. d \in Of("exporter")
    BY <1>3 DEF Of
  <2>2. SeenOf("exporter") \cup {d} \subseteq Of("exporter")
    BY <1>1, <2>1, SeenOfFinite
  <2> QED
    BY <1>1, <1>3, <2>2, SeenOfFinite, FS_Subset
<1>8. Cardinality(Of("exporter")) <= MaxExporters + 1 - id
  <2>1. d \in Of("exporter") /\ d.record.sysid = id
    BY <1>2, <1>3 DEF Of
  <2> QED
    BY <2>1 DEF Told, Described
<1>9. Cardinality(Used) <= Cardinality(SeenOf("exporter"))
  BY <1>1 DEF Named
<1> QED
  BY <1>1, <1>4, <1>6, <1>7, <1>8, <1>9, UsedFinite, SeenOfFinite

(* A sampler finds its exporter.                                           *)
LEMMA SamplerFindsExporter ==
  ASSUME Pipeline, Named, Told, ToProcess("sampler")
  PROVE  exporter_list[TheRecord.sysid] # None /\ exporter_list[TheRecord.sysid].who = TheRecord.who
<1>1. TypeOK /\ ~abortProcessing
  BY DEF Pipeline, Inductive, IInv, ToProcess
<1>2. PICK d \in Content : /\ d.record = TheRecord /\ TheRecord.kind = "sampler"
                           /\ \A c \in Seen : c.number < d.number
                           /\ \A c \in Content : c.number < d.number => c \in Seen
  BY NextOfOne
<1>3. d \in Of("sampler")
  BY <1>2 DEF Of
<1>4. PICK e \in Of("exporter") :
          /\ e.number < d.number
          /\ e.record.sysid = d.record.sysid /\ e.record.who = d.record.who
          /\ \A o \in Of("exporter") :
                o.record.sysid = d.record.sysid /\ o.number < d.number => o.number <= e.number
  BY <1>3 DEF Told, Described
<1>5. e \in SeenOf("exporter")
  BY <1>2, <1>4 DEF SeenOf, Of
<1>6. \A o \in SeenOf("exporter") : o.record.sysid = e.record.sysid => o.number <= e.number
  <2> SUFFICES ASSUME NEW o \in SeenOf("exporter"), o.record.sysid = e.record.sysid
               PROVE  o.number <= e.number
    OBVIOUS
  <2>1. o \in Of("exporter") /\ o.number < d.number
    BY <1>1, <1>2, SeenOfFinite DEF SeenOf
  <2> QED
    BY <1>4, <2>1
<1> QED
  BY <1>1, <1>2, <1>4, <1>5, <1>6 DEF Named

LEMMA SameDescription ==
  ASSUME input' = input, started' = started
  PROVE  /\ (Told' <=> Told)
         /\ \A kind : Of(kind)' = Of(kind)
<1>1. Content' = Content
  BY SameInput
<1>2. \A kind : Of(kind)' = Of(kind)
  BY <1>1 DEF Of
<1>3. Described' <=> Described
  BY <1>2 DEF Described
<1> QED
  BY <1>2, <1>3 DEF Told

(* The sampler records written, counted                                    *)
SamplerLines == {i \in DOMAIN written : written[i].kind = "sampler"}

LEMMA SamplersCounted ==
  ASSUME TypeOK, NEW what \in {"exporter", "sampler"}, NEW s \in Slots, NEW who \in Exporters,
         WriteRecord(what, s, who), wfile # "none"
  PROVE  /\ SamplersWritten \in Nat
         /\ what = "exporter" => SamplersWritten' = SamplersWritten
         /\ what = "sampler" => SamplersWritten' = SamplersWritten + 1
<1> DEFINE n == Len(written) + 1
<1>1. /\ written \in Seq(WrittenRecords) /\ Len(written) \in Nat
      /\ \A i \in DOMAIN written : i \in DOMAIN written' /\ written'[i] = written[i]
      /\ DOMAIN written' = DOMAIN written \cup {n}
      /\ written'[n] = Line(what, s, who)
  BY WriteIs
<1>2. n \notin DOMAIN written /\ DOMAIN written = 1 .. Len(written)
  BY <1>1
<1>3. written'[n].kind = what
  BY <1>1 DEF Line
<1> HIDE DEF n
<1>4. /\ what = "exporter" => SamplerLines' = SamplerLines
      /\ what = "sampler" => SamplerLines' = SamplerLines \cup {n}
  BY <1>1, <1>2, <1>3 DEF SamplerLines
<1>5. IsFiniteSet(SamplerLines) /\ n \notin SamplerLines
  <2>1. IsFiniteSet(DOMAIN written)
    BY <1>1, <1>2, FS_Interval
  <2> QED
    BY <1>2, <2>1, FS_Subset DEF SamplerLines
<1>6. SamplersWritten = Cardinality(SamplerLines) /\ SamplersWritten' = Cardinality(SamplerLines')
  BY DEF SamplersWritten, SamplerLines
<1>7. /\ Cardinality(SamplerLines) \in Nat
      /\ Cardinality(SamplerLines \cup {n}) = Cardinality(SamplerLines) + 1
  BY <1>5, FS_CardinalityType, FS_AddElement
<1> QED
  BY <1>4, <1>6, <1>7

LEMMA ExporterKeepsNamed ==
  ASSUME Pipeline, Named, Told, ProcessExporter
  PROVE  Named'
<1>1. TypeOK /\ Places /\ ToProcess("exporter")
  BY DEF Pipeline, Inductive, IInv, ProcessExporter
<1>2. ~abortProcessing /\ UNCHANGED <<wfile, abortProcessing>>
  BY <1>1 DEF ProcessExporter, ToProcess, options
<1> DEFINE id == TheRecord.sysid
           who == TheRecord.who
<1>3. PICK d \in Content :
         /\ d.record = TheRecord /\ (\A c \in Seen : c.number < d.number)
         /\ SeenOf("exporter")' = SeenOf("exporter") \cup {d}
         /\ SeenOf("sampler")' = SeenOf("sampler")
         /\ Cardinality(SeenOf("exporter") \cup {d}) = Cardinality(SeenOf("exporter")) + 1
  BY <1>1, NextOfOne
<1>4. id \in Slots /\ who \in Exporters
  BY <1>1, ExporterStep
<1>5. \/ \E s \in Slots : Adds(id, who, s)
      \/ /\ exporter_list[id] # None /\ exporter_list[id].who = who
         /\ exporter_list' = exporter_list
         /\ WriteRecord("exporter", exporter_list[id].sysid, who)
  <2>1. exporter_list[id] # None => FreeSlots(id) # {}
    BY <1>1, <1>4, RoomForExporter
  <2> QED
    BY <1>1, <2>1, ExporterStep
<1> HIDE DEF id, who
<1>6. PICK s \in Slots : WriteRecord("exporter", s, who)
  <2>1. CASE \E s \in Slots : Adds(id, who, s)
    BY <2>1 DEF Adds
  <2>2. CASE exporter_list[id] # None /\ WriteRecord("exporter", exporter_list[id].sysid, who)
    BY <1>1, <1>4, <2>2, SlotIs
  <2> QED
    BY <1>5, <2>1, <2>2
<1>7. wfile # "none" => SamplersWritten' = SamplersWritten
  BY <1>1, <1>4, <1>6, SamplersCounted
<1>8. /\ exporter_list'[id] # None /\ exporter_list'[id].who = who
      /\ \A t \in Slots : t # id /\ exporter_list[t] # None => exporter_list'[t] = exporter_list[t]
      /\ \E s1 \in Slots : Used' \subseteq Used \cup {s1}
  <2>1. CASE \E s1 \in Slots : Adds(id, who, s1)
    <3>1. PICK s1 \in Slots : Adds(id, who, s1)
      BY <2>1
    <3>2. /\ exporter_list'[id] # None /\ exporter_list'[id].who = who
          /\ \A t \in Slots : t # id /\ exporter_list[t] # None => exporter_list'[t] = exporter_list[t]
      BY <1>4, <3>1, EntryIs DEF Adds
    <3>3. \A t \in Slots : exporter_list'[t] # None => exporter_list[t] # None \/ t = s1
      BY <3>1 DEF Adds
    <3> QED
      BY <3>2, <3>3 DEF Used
  <2>2. CASE exporter_list[id] # None /\ exporter_list[id].who = who /\ exporter_list' = exporter_list
    BY <1>4, <2>2 DEF Used
  <2> QED
    BY <1>5, <2>1, <2>2
<1>9. Cardinality(Used') <= Cardinality(SeenOf("exporter") \cup {d})
  <2>1. PICK s1 \in Slots : Used' \subseteq Used \cup {s1}
    BY <1>8
  <2>2. /\ IsFiniteSet(Used \cup {s1})
        /\ Cardinality(Used \cup {s1}) <= Cardinality(Used) + 1
        /\ Cardinality(Used \cup {s1}) \in Nat /\ Cardinality(Used) \in Nat
    <3>1. IsFiniteSet(Used) /\ Cardinality(Used) \in Nat
      BY UsedFinite
    <3>2. /\ IsFiniteSet(Used \cup {s1})
          /\ Cardinality(Used \cup {s1}) = IF s1 \in Used THEN Cardinality(Used) ELSE Cardinality(Used) + 1
      BY <3>1, FS_AddElement
    <3> QED
      BY <3>1, <3>2
  <2>3. Cardinality(Used') <= Cardinality(Used \cup {s1}) /\ Cardinality(Used') \in Nat
    BY <2>1, <2>2, FS_Subset, FS_CardinalityType
  <2>4. Cardinality(Used) <= Cardinality(SeenOf("exporter")) /\ Cardinality(SeenOf("exporter")) \in Nat
    BY <1>1, <1>2, SeenOfFinite DEF Named
  <2> QED
    BY <1>3, <2>2, <2>3, <2>4
<1>10. ASSUME NEW e \in SeenOf("exporter") \cup {d},
              \A o \in SeenOf("exporter") \cup {d} : o.record.sysid = e.record.sysid => o.number <= e.number
       PROVE  exporter_list'[e.record.sysid] # None /\ exporter_list'[e.record.sysid].who = e.record.who
  <2>1. CASE e = d
    BY <1>3, <1>8, <2>1 DEF id, who
  <2>2. CASE e # d
    <3>1. e \in SeenOf("exporter") /\ e.number < d.number /\ e.number \in Nat /\ d.number \in Nat
      <4>1. e \in SeenOf("exporter")
        BY <2>2
      <4>2. e \in Seen /\ e \in Content
        BY <4>1 DEF SeenOf, Seen
      <4> QED
        BY <1>1, <1>3, <4>1, <4>2, ContentTypes
    <3>2. e.record.sysid # id
      BY <1>3, <1>10, <3>1 DEF id
    <3>3. exporter_list[e.record.sysid] # None /\ exporter_list[e.record.sysid].who = e.record.who
      BY <1>2, <1>10, <3>1 DEF Named
    <3>4. e.record.sysid \in Slots
      <4>1. e.record \in Records
        BY <1>1, <3>1, ContentTypes DEF SeenOf, Seen
      <4> QED
        BY <4>1 DEF Records, Slots
    <3> QED
      BY <1>8, <3>2, <3>3, <3>4
  <2> QED
    BY <2>1, <2>2
<1>11. Cardinality(Used)' <= Cardinality(SeenOf("exporter"))'
  BY <1>3, <1>9
<1>12. wfile' # "none" => SamplersWritten' = Cardinality(SeenOf("sampler"))'
  BY <1>2, <1>3, <1>7 DEF Named
<1> QED
  BY <1>3, <1>10, <1>11, <1>12 DEF Named

LEMMA SamplerKeepsNamed ==
  ASSUME Pipeline, Named, Told, ProcessSampler
  PROVE  Named'
<1>1. TypeOK /\ Places /\ ToProcess("sampler")
  BY DEF Pipeline, Inductive, IInv, ProcessSampler
<1>2. ~abortProcessing /\ UNCHANGED <<wfile, abortProcessing>>
  BY <1>1 DEF ProcessSampler, ToProcess, options
<1>3. PICK d \in Content :
         /\ SeenOf("sampler")' = SeenOf("sampler") \cup {d}
         /\ SeenOf("exporter")' = SeenOf("exporter")
         /\ Cardinality(SeenOf("sampler") \cup {d}) = Cardinality(SeenOf("sampler")) + 1
  BY <1>1, NextOfOne
<1> DEFINE id == TheRecord.sysid
<1>4. id \in Slots /\ TheRecord.who \in Exporters /\ exporter_list' = exporter_list /\ exporter_list[id] # None
  BY <1>1, SamplerStep, SamplerFindsExporter
<1>5. WriteRecord("sampler", exporter_list[id].sysid, TheRecord.who) /\ exporter_list[id].sysid \in Slots
  BY <1>1, <1>4, SamplerStep, SlotIs
<1> HIDE DEF id
<1>6. wfile # "none" => SamplersWritten' = SamplersWritten + 1
  BY <1>1, <1>4, <1>5, SamplersCounted
<1>7. Used' = Used
  BY <1>4 DEF Used
<1>8. wfile' # "none" => SamplersWritten' = Cardinality(SeenOf("sampler"))'
  BY <1>2, <1>3, <1>6 DEF Named
<1>9. Cardinality(Used)' <= Cardinality(SeenOf("exporter"))'
  BY <1>2, <1>3, <1>7 DEF Named
<1> QED
  BY <1>2, <1>3, <1>4, <1>8, <1>9 DEF Named

LEMMA OthersKeepNamed ==
  ASSUME Pipeline, Named, Told, [Next]_vars, ~ProcessExporter, ~ProcessSampler
  PROVE  Named'
<1>1. UNCHANGED <<exporter_list, written, wfile>>
  BY DEF Next, Finished, PrepareThread, FilterThread, OpenFirst, ReadEOF, SkipBlock, PushBlock,
    TestAbort, ClosePrepare, FilterPop, FilterPush, FilterEnd, FilterClose, Main, OpenOutput, MainPop,
    ProcessFlow, ProcessOther, ToProcess, BlockDone, Join, vars, options, processing
<1>2. CASE abortProcessing
  <2>1. abortProcessing'
    BY <1>2 DEF Next, Finished, PrepareThread, FilterThread, OpenFirst, ReadEOF, SkipBlock, PushBlock,
      TestAbort, ClosePrepare, FilterPop, FilterPush, FilterEnd, FilterClose, Main, OpenOutput, MainPop,
      ProcessFlow, ProcessOther, ToProcess, BlockDone, Join, vars, processing
  <2> QED
    BY <2>1 DEF Named
<1>3. CASE ~abortProcessing
  <2>1. SeenOf("exporter")' = SeenOf("exporter") /\ SeenOf("sampler")' = SeenOf("sampler")
    <3>1. CASE ProcessFlow \/ ProcessOther
      <4>1. PICK kind \in {"flow", "other", "common"} : ToProcess(kind)
        BY <3>1 DEF ProcessFlow, ProcessOther
      <4> QED
        BY <4>1, NextOfOne
    <3>2. CASE ~(ProcessFlow \/ ProcessOther)
      <4>1. Seen' = Seen
        BY <1>3, <3>2, SeenStays
      <4> QED
        BY <4>1 DEF SeenOf
    <3> QED
      BY <3>1, <3>2
  <2>2. Used' = Used /\ SamplersWritten' = SamplersWritten
    BY <1>1 DEF Used, SamplersWritten
  <2> QED
    BY <1>1, <1>3, <2>1, <2>2 DEF Named
<1> QED
  BY <1>2, <1>3

LEMMA StepNamed ==
  ASSUME Pipeline, Named, [Next]_vars
  PROVE  Named' /\ (Told' <=> Told)
<1>1. UNCHANGED <<input, started>>
  BY DEF Next, Finished, PrepareThread, FilterThread, OpenFirst, ReadEOF, SkipBlock, PushBlock,
    TestAbort, ClosePrepare, FilterPop, FilterPush, FilterEnd, FilterClose, Main, OpenOutput, MainPop,
    ProcessFlow, ProcessExporter, ProcessSampler, ProcessOther, ToProcess, BlockDone, Join, vars, options
<1>2. Told' <=> Told
  BY <1>1, SameDescription
<1>3. CASE Told
  BY <1>2, <1>3, ExporterKeepsNamed, SamplerKeepsNamed, OthersKeepNamed
<1>4. CASE ~Told
  BY <1>2, <1>4 DEF Named
<1> QED
  BY <1>2, <1>3, <1>4

(* A sampler record is written behind a record of its exporter.            *)
LEMMA StepBehind ==
  ASSUME Pipeline, Listed, Named, Behind, [Next]_vars, Told' <=> Told
  PROVE  Behind'
<1>1. TypeOK /\ Places
  BY DEF Pipeline, Inductive, IInv
<1> SUFFICES ASSUME Told, NEW i \in DOMAIN written'
             PROVE  \E j \in 1 .. i : written'[j] = [written'[i] EXCEPT !.kind = "exporter"]
  BY DEF Behind
<1>2. written \in Seq(WrittenRecords)
  BY <1>1 DEF TypeOK, WrittenRecords
<1>3. ASSUME i \in DOMAIN written, written'[i] = written[i],
             \A j \in DOMAIN written : written'[j] = written[j]
      PROVE  \E j \in 1 .. i : written'[j] = [written'[i] EXCEPT !.kind = "exporter"]
  <2>1. PICK j \in 1 .. i : written[j] = [written[i] EXCEPT !.kind = "exporter"]
    BY <1>3 DEF Behind
  <2>2. j \in DOMAIN written
    BY <1>2, <1>3, <2>1
  <2> QED
    BY <1>3, <2>1, <2>2
<1>4. ASSUME NEW what \in {"exporter", "sampler"}, NEW s \in Slots, NEW who \in Exporters,
             WriteRecord(what, s, who),
             what = "sampler" => /\ exporter_list[TheRecord.sysid] # None /\ TheRecord.sysid \in Slots
                                 /\ exporter_list[TheRecord.sysid].sysid = s
                                 /\ exporter_list[TheRecord.sysid].who = who
      PROVE  \E j \in 1 .. i : written'[j] = [written'[i] EXCEPT !.kind = "exporter"]
  <2>1. \A j \in DOMAIN written : j \in DOMAIN written' /\ written'[j] = written[j]
    BY <1>1, <1>4, WriteIs
  <2>2. CASE i \in DOMAIN written
    BY <1>3, <2>1, <2>2
  <2>3. CASE i \notin DOMAIN written
    <3>1. written'[i] = Line(what, s, who) /\ wfile # "none"
      BY <1>1, <1>4, <2>3, WriteIs
    <3>2. i = Len(written) + 1 /\ Len(written) \in Nat /\ DOMAIN written = 1 .. Len(written)
      <4>1. DOMAIN written' = DOMAIN written \cup {Len(written) + 1}
        BY <1>1, <1>4, <3>1, WriteIs
      <4> QED
        BY <1>2, <2>3, <4>1
    <3>3. [written'[i] EXCEPT !.kind = "exporter"] = Line("exporter", s, who)
      BY <3>1 DEF Line
    <3>4. CASE what = "exporter"
      BY <3>1, <3>2, <3>3, <3>4
    <3>5. CASE what = "sampler"
      <4>1. PICK j \in DOMAIN written : /\ written[j].kind = "exporter" /\ written[j].sysid = s
                                        /\ written[j].who = who
        BY <1>4, <3>1, <3>5 DEF Listed
      <4>2. written[j] \in WrittenRecords
        BY <1>2, <4>1
      <4>3. written[j] = Line("exporter", s, who)
        BY <4>1, <4>2 DEF WrittenRecords, Line
      <4>4. written'[j] = written[j] /\ j \in 1 .. i
        BY <2>1, <3>2, <4>1
      <4> QED
        BY <3>3, <4>3, <4>4
    <3> QED
      BY <3>4, <3>5
  <2> QED
    BY <2>2, <2>3
<1>5. CASE written' = written
  BY <1>3, <1>5
<1>6. CASE ProcessExporter
  <2> DEFINE id == TheRecord.sysid
             who == TheRecord.who
  <2>1. id \in Slots /\ who \in Exporters
    BY <1>1, <1>6, ExporterStep
  <2>2. CASE \E s \in Slots : Adds(id, who, s)
    <3>1. PICK s \in Slots : WriteRecord("exporter", s, who)
      BY <2>2 DEF Adds
    <3> HIDE DEF who
    <3> QED
      BY <1>4, <2>1, <3>1
  <2>3. CASE exporter_list[id] # None /\ WriteRecord("exporter", exporter_list[id].sysid, who)
    <3>1. exporter_list[id].sysid \in Slots
      BY <1>1, <2>1, <2>3, SlotIs
    <3> HIDE DEF who, id
    <3> QED
      BY <1>4, <2>1, <2>3, <3>1
  <2> QED
    BY <1>1, <1>5, <1>6, <2>2, <2>3, ExporterStep
<1>7. CASE ProcessSampler
  <2> DEFINE id == TheRecord.sysid
             who == TheRecord.who
  <2>1. ToProcess("sampler")
    BY <1>7 DEF ProcessSampler
  <2>2. id \in Slots /\ who \in Exporters /\ exporter_list[id] # None /\ exporter_list[id].who = who
    BY <1>1, <1>7, <2>1, SamplerStep, SamplerFindsExporter
  <2>3. WriteRecord("sampler", exporter_list[id].sysid, who) /\ exporter_list[id].sysid \in Slots
    BY <1>1, <1>7, <2>2, SamplerStep, SlotIs
  <2> QED
    BY <1>4, <2>2, <2>3
<1>8. CASE ~ProcessExporter /\ ~ProcessSampler
  <2>1. written' = written
    BY <1>8 DEF Next, Finished, PrepareThread, FilterThread, OpenFirst, ReadEOF, SkipBlock, PushBlock,
      TestAbort, ClosePrepare, FilterPop, FilterPush, FilterEnd, FilterClose, Main, OpenOutput, MainPop,
      ProcessFlow, ProcessOther, ToProcess, BlockDone, Join, vars, processing
  <2> QED
    BY <1>5, <2>1
<1> QED
  BY <1>6, <1>7, <1>8

LEMMA InitNamed == Init => Named /\ Behind
<1> SUFFICES ASSUME Init PROVE Named /\ Behind
  OBVIOUS
<1>1. written = <<>> /\ arrived = <<>> /\ \A s \in Slots : exporter_list[s] = None
  BY DEF Init, Process!Init
<1>2. Used = {} /\ {i \in DOMAIN written : written[i].kind = "sampler"} = {}
  BY <1>1 DEF Used
<1>3. Seen = {}
  <2>1. Values(arrived) = {}
    BY <1>1 DEF Values
  <2> QED
    BY <2>1 DEF Seen
<1>4. SeenOf("exporter") = {} /\ SeenOf("sampler") = {}
  BY <1>3 DEF SeenOf
<1>5. Cardinality({}) = 0
  BY FS_EmptySet
<1>6. Cardinality(Used) <= Cardinality(SeenOf("exporter"))
  BY <1>2, <1>4, <1>5
<1>7. SamplersWritten = Cardinality(SeenOf("sampler"))
  BY <1>2, <1>4, <1>5 DEF SamplersWritten
<1> QED
  BY <1>1, <1>4, <1>6, <1>7 DEF Named, Behind

(* In the output file a number is that of one exporter; and if a single    *)
(* thread filters an input that describes its samplers, every sampler      *)
(* record of the input is in the file, behind a record of its exporter     *)
(* (AddExporterInfo, AddSamplerRecord, process_data).                      *)
THEOREM OutputDescribed == Spec => []OutputNamesExporters
<1> DEFINE Inv == Pipeline /\ Listed /\ Named /\ Behind
<1>1. Init => Inv
  BY InitPipeline, InitListed, InitNamed
<1>2. Inv /\ [Next]_vars => Inv'
  BY StepPipeline, StepListed, StepNamed, StepBehind
<1>3. ASSUME Inv PROVE OutputNamesExporters
  <2>1. TypeOK /\ Pipeline
    BY <1>3 DEF Pipeline, Inductive, IInv
  <2>2. NumbersName
    BY <1>3, <2>1, ListedNames
  <2>3. ASSUME Told, main = "done", wfile = "opens", ~abortProcessing
        PROVE  SamplersWritten = Cardinality(Of("sampler"))
    <3>1. Seen = Content
      BY <2>1, <2>3, SeenAll
    <3>2. SeenOf("sampler") = Of("sampler")
      BY <3>1 DEF SeenOf, Of
    <3> QED
      BY <1>3, <2>3, <3>2 DEF Named
  <2> QED
    BY <1>3, <2>2, <2>3 DEF OutputNamesExporters, Behind, Told
<1> HIDE DEF Inv
<1> QED
  BY <1>1, <1>2, <1>3, PTL DEF Spec
=============================================================================
