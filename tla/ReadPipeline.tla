----------------------------- MODULE ReadPipeline -----------------------------
(***************************************************************************)
(* How nfdump reads flows (src/src/nfdump/nfdump.c): prepareThread takes   *)
(* the blocks of all input files, the filter threads mark the records that *)
(* match, and the main thread processes what they hand on and counts it    *)
(* against the limit of option -c.  Two bounded queues connect them, used  *)
(* here through what BoundedQueue is proved to implement: a Channel.  The  *)
(* reader thread of a file and the queue between it and prepareThread have *)
(* one producer and one consumer and do not change the order of blocks;    *)
(* ReadBlock below takes the next block of the file.                       *)
(*                                                                         *)
(* A record is a flow, the info record of an exporter, a sampler record of *)
(* an exporter, anything else ("other"), a legacy record ("common"), or    *)
(* one whose size contradicts its block ("bad").                           *)
(***************************************************************************)
EXTENDS Integers, Sequences, FiniteSets, FiniteSetsExt

CONSTANTS
    Inputs,         (* the lists of input files nfdump may be given        *)
    Limits,         (* the values of option -c, 0: no limit                *)
    Workers,        (* the filter threads there may be                     *)
    QueueLength,    (* argument of queue_init                              *)
    Exporters,      (* the routers the files may have been collected from  *)
    MaxExporters,   (* size of the exporter list, slot 0 unused            *)
    None            (* no handle, no exporter in a slot                    *)

BlockTypes == {"data", "skipped", "unreadable"}
RecordKinds == {"flow", "exporter", "sampler", "other", "common", "bad"}
Records == [kind : RecordKinds, match : BOOLEAN, sysid : 1 .. MaxExporters, who : Exporters]
Blocks == [type : BlockTypes, records : Seq(Records), surplus : Nat]
Files == [opens : BOOLEAN, blocks : Seq(Blocks)]

ASSUME PipelineAssumption ==
    /\ Inputs \subseteq Seq(Files)
    /\ Limits \subseteq Nat
    /\ IsFiniteSet(Workers) /\ Workers # {}
    /\ QueueLength \in Nat \ {0}
    /\ MaxExporters \in Nat \ {0}
    /\ None \notin [records : Seq(Records), first : Nat]
    /\ None \notin [who : Exporters, sysid : 1 .. MaxExporters]

(* NumRecords, which a damaged block may claim too high                    *)
NumRecords(b) == Len(b.records) + b.surplus

(* nfread takes a block without records for the end of the file            *)
ASSUME BlockAssumption ==
    \A files \in Inputs : \A f \in DOMAIN files : \A b \in DOMAIN files[f].blocks :
        NumRecords(files[f].blocks[b]) > 0

VARIABLES
    input, limit, started,      (* the files, -c, the filter threads       *)
    wfile,                      (* option -w: "none", "opens" or "fails"   *)
    prepare,                    (* where prepareThread is                  *)
    file, block,                (* the block it reads next                 *)
    recordCnt, skippedBlocks,
    prepareQueue, prepareClosed, prepared,
    filter,                     (* where each filter thread is             *)
    held,                       (* the handle it works on                  *)
    passed,                     (* its passedRecords                       *)
    passedRecords,              (* the sum in filterArgs                   *)
    producers,                  (* threads that have not closed the queue  *)
    processQueue, processClosed, arrived,
    main,                       (* where the main thread is                *)
    current, index,             (* its handle and record                   *)
    abortProcessing,
    output,                     (* history: counters of the flows processed *)
    exporter_list,
    written                     (* exporter and sampler records in -w      *)

options == <<input, limit, started, wfile>>
reading == <<prepare, file, block, recordCnt, skippedBlocks>>
prepareVars == <<prepareQueue, prepareClosed, prepared>>
filtering == <<filter, held, passed, passedRecords, producers>>
processVars == <<processQueue, processClosed, arrived>>
processing == <<main, current, index, abortProcessing, output, exporter_list, written>>
vars == <<options, reading, prepareVars, filtering, processVars, processing>>

Slots == 1 .. MaxExporters
Info == [who : Exporters, sysid : Slots]

(* dataHandle_t: the block and the number of records before it             *)
Handles == [records : Seq(Records), first : Nat]

Prepare == INSTANCE Channel WITH Items <- Handles, Capacity <- QueueLength,
    chan <- prepareQueue, closed <- prepareClosed, received <- prepared
Process == INSTANCE Channel WITH Items <- Handles, Capacity <- QueueLength,
    chan <- processQueue, closed <- processClosed, received <- arrived

Init ==
    /\ input \in Inputs /\ limit \in Limits
    /\ started \in (SUBSET Workers) \ {{}}
    /\ wfile \in {"none", "opens", "fails"}
    /\ prepare = "start" /\ file = 0 /\ block = 1
    /\ recordCnt = 0 /\ skippedBlocks = 0
    /\ Prepare!Init
    /\ filter = [w \in Workers |-> IF w \in started THEN "pop" ELSE "done"]
    /\ held = [w \in Workers |-> None]
    /\ passed = [w \in Workers |-> 0]
    /\ passedRecords = 0 /\ producers = Cardinality(started)
    /\ Process!Init
    /\ main = "open" /\ current = None /\ index = 1
    /\ abortProcessing = FALSE
    /\ output = <<>>
    /\ exporter_list = [s \in Slots |-> None]
    /\ written = <<>>
-------------------------------------------------------------------------------
(* prepareThread                                                           *)

(* Mutant of NextFile: the counter starts again with each file.            *)
NextFileResetsCount ==
    IF file < Len(input) /\ input[file + 1].opens
      THEN /\ file' = file + 1 /\ block' = 1
           /\ prepare' = "read"
           /\ recordCnt' = 0
           /\ UNCHANGED skippedBlocks
      ELSE /\ prepare' = "close"
           /\ UNCHANGED <<file, block, recordCnt, skippedBlocks>>

(* GetNextFile: NULL at the end of the list, and for a file that does not  *)
(* open, whatever the list still holds.                                    *)
NextFile ==
    IF file < Len(input) /\ input[file + 1].opens
      THEN /\ file' = file + 1 /\ block' = 1
           /\ prepare' = "read"
           /\ UNCHANGED <<recordCnt, skippedBlocks>>
      ELSE /\ prepare' = "close"
           /\ UNCHANGED <<file, block, recordCnt, skippedBlocks>>

OpenFirst ==
    /\ prepare = "start"
    /\ NextFile
    /\ UNCHANGED <<options, prepareVars, filtering, processVars, processing>>

TheBlock == input[file].blocks[block]

AtEnd == block \in DOMAIN input[file].blocks => TheBlock.type = "unreadable"

(* ReadBlock returns NULL at the end of the file, and where nfread fails   *)
ReadEOF ==
    /\ prepare = "read"
    /\ AtEnd
    /\ NextFile
    /\ UNCHANGED <<options, prepareVars, filtering, processVars, processing>>

SkipBlock ==
    /\ prepare = "read"
    /\ ~AtEnd /\ TheBlock.type = "skipped"
    /\ skippedBlocks' = skippedBlocks + 1
    /\ block' = block + 1
    /\ UNCHANGED <<prepare, file, recordCnt>>
    /\ UNCHANGED <<options, prepareVars, filtering, processVars, processing>>

PushBlock ==
    /\ prepare = "read"
    /\ ~AtEnd /\ TheBlock.type = "data"
    /\ Prepare!Send([records |-> TheBlock.records, first |-> recordCnt])
    /\ recordCnt' = recordCnt + NumRecords(TheBlock)
    /\ block' = block + 1
    /\ prepare' = "test"
    /\ UNCHANGED <<file, skippedBlocks>>
    /\ UNCHANGED <<options, filtering, processVars, processing>>

TestAbort ==
    /\ prepare = "test"
    /\ prepare' = IF abortProcessing THEN "close" ELSE "read"
    /\ UNCHANGED <<file, block, recordCnt, skippedBlocks>>
    /\ UNCHANGED <<options, prepareVars, filtering, processVars, processing>>

(* queue_close and CloseFile, which ends the reader of the file            *)
ClosePrepare ==
    /\ prepare = "close"
    /\ Prepare!Close
    /\ prepare' = "done"
    /\ UNCHANGED <<file, block, recordCnt, skippedBlocks>>
    /\ UNCHANGED <<options, filtering, processVars, processing>>
-------------------------------------------------------------------------------
(* filterThread                                                            *)

FilterPop(w) ==
    /\ filter[w] = "pop"
    /\ Prepare!Receive
    /\ held' = [held EXCEPT ![w] = Head(prepareQueue)]
    /\ filter' = [filter EXCEPT ![w] = "filter"]
    /\ UNCHANGED <<passed, passedRecords, producers>>
    /\ UNCHANGED <<options, reading, processVars, processing>>

(* the records in front of the first one that does not fit its block       *)
Sound(records) ==
    {i \in DOMAIN records : \A j \in 1 .. i : records[j].kind # "bad"}

(* sumSize is 0 after a bad record, and after a legacy record at the end   *)
Dropped(records) ==
    \/ Sound(records) # DOMAIN records
    \/ records # <<>> /\ records[Len(records)].kind = "common"
    \/ records = <<>>

Matches(records) ==
    Cardinality({i \in Sound(records) : records[i].kind = "flow" /\ records[i].match})

(* all records checked, the block handed on unless it was found corrupt    *)
FilterPush(w) ==
    /\ filter[w] = "filter"
    /\ IF Dropped(held[w].records)
         THEN UNCHANGED processVars
         ELSE Process!Send(held[w])
    /\ passed' = [passed EXCEPT ![w] = @ + Matches(held[w].records)]
    /\ held' = [held EXCEPT ![w] = None]
    /\ filter' = [filter EXCEPT ![w] = "pop"]
    /\ UNCHANGED <<passedRecords, producers>>
    /\ UNCHANGED <<options, reading, prepareVars, processing>>

FilterEnd(w) ==
    /\ filter[w] = "pop"
    /\ prepareQueue = <<>> /\ prepareClosed
    /\ filter' = [filter EXCEPT ![w] = "close"]
    /\ UNCHANGED <<held, passed, passedRecords, producers>>
    /\ UNCHANGED <<options, reading, prepareVars, processVars, processing>>

(* Mutant of FilterClose: queue_producers was not told of the threads.     *)
FilterCloseAtFirst(w) ==
    /\ filter[w] = "close"
    /\ producers' = producers - 1
    /\ Process!Close
    /\ passedRecords' = passedRecords + passed[w]
    /\ filter' = [filter EXCEPT ![w] = "done"]
    /\ UNCHANGED <<held, passed>>
    /\ UNCHANGED <<options, reading, prepareVars, processing>>

(* Mutant of FilterClose: a thread leaves without closing the queue if the *)
(* limit has been reached.                                                 *)
FilterCloseUnlessAbort(w) ==
    /\ filter[w] = "close"
    /\ producers' = IF abortProcessing THEN producers ELSE producers - 1
    /\ IF producers' = 0 THEN Process!Close ELSE UNCHANGED processVars
    /\ passedRecords' = passedRecords + passed[w]
    /\ filter' = [filter EXCEPT ![w] = "done"]
    /\ UNCHANGED <<held, passed>>
    /\ UNCHANGED <<options, reading, prepareVars, processing>>

(* queue_close counts the producers down and closes for the last one; the  *)
(* sum is atomic                                                           *)
FilterClose(w) ==
    /\ filter[w] = "close"
    /\ producers' = producers - 1
    /\ IF producers' = 0 THEN Process!Close ELSE UNCHANGED processVars
    /\ passedRecords' = passedRecords + passed[w]
    /\ filter' = [filter EXCEPT ![w] = "done"]
    /\ UNCHANGED <<held, passed>>
    /\ UNCHANGED <<options, reading, prepareVars, processing>>
-------------------------------------------------------------------------------
(* process_data                                                            *)

OpenOutput ==
    /\ main = "open"
    /\ main' = IF wfile = "fails" THEN "failed" ELSE "pop"
    /\ UNCHANGED <<current, index, abortProcessing, output, exporter_list, written>>
    /\ UNCHANGED <<options, reading, prepareVars, filtering, processVars>>

MainPop ==
    /\ main = "pop"
    /\ Process!Receive
    /\ current' = Head(processQueue) /\ index' = 1
    /\ main' = "process"
    /\ UNCHANGED <<abortProcessing, output, exporter_list, written>>
    /\ UNCHANGED <<options, reading, prepareVars, filtering>>

TheRecord == current.records[index]

(* the next record is one of this kind, and the loop goes on               *)
ToProcess(kind) ==
    /\ main = "process"
    /\ index <= Len(current.records) /\ ~abortProcessing
    /\ TheRecord.kind = kind
    /\ index' = index + 1
    /\ UNCHANGED <<main, current>>
    /\ UNCHANGED <<options, reading, prepareVars, filtering, processVars>>

ProcessFlow ==
    /\ ToProcess("flow")
    /\ IF TheRecord.match
         THEN /\ output' = Append(output, current.first + index)
              /\ abortProcessing' = (limit # 0 /\ Len(output') >= limit)
         ELSE UNCHANGED <<output, abortProcessing>>
    /\ UNCHANGED <<exporter_list, written>>

WriteRecord(kind, sysid, who) ==
    written' = IF wfile = "none" THEN written
               ELSE Append(written, [kind |-> kind, sysid |-> sysid, who |-> who])

FreeSlots(id) == {s \in Slots : s > id /\ exporter_list[s] = None}

(* Mutant of MoveExporter: the new exporter keeps the number of its file.  *)
MoveExporterKeepsId(id, who) ==
    LET s == Min(FreeSlots(id))
    IN  /\ exporter_list' = [exporter_list EXCEPT ![s] = exporter_list[id],
                                                  ![id] = [who |-> who, sysid |-> id]]
        /\ WriteRecord("exporter", id, who)

(* AddExporterInfo finds another exporter in the slot: it moves that one   *)
(* to the next free slot and gives the number of the free slot to the new  *)
(* one.                                                                    *)
MoveExporter(id, who) ==
    LET s == Min(FreeSlots(id))
    IN  /\ exporter_list' = [exporter_list EXCEPT ![s] = exporter_list[id],
                                                  ![id] = [who |-> who, sysid |-> s]]
        /\ WriteRecord("exporter", s, who)

(* AddExporterInfo; a full list refuses the exporter                       *)
ProcessExporter ==
    LET id == TheRecord.sysid
        who == TheRecord.who
    IN  /\ ToProcess("exporter")
        /\ CASE exporter_list[id] = None ->
                    /\ exporter_list' = [exporter_list EXCEPT ![id] = [who |-> who, sysid |-> id]]
                    /\ WriteRecord("exporter", id, who)
             [] exporter_list[id] # None /\ exporter_list[id].who = who ->
                    /\ WriteRecord("exporter", exporter_list[id].sysid, who)
                    /\ UNCHANGED exporter_list
             [] OTHER ->
                    IF FreeSlots(id) = {} THEN UNCHANGED <<exporter_list, written>>
                    ELSE MoveExporter(id, who)
        /\ UNCHANGED <<output, abortProcessing>>

(* AddSamplerRecord goes by the slot, and refuses a sampler without an     *)
(* exporter                                                                *)
ProcessSampler ==
    LET id == TheRecord.sysid
    IN  /\ ToProcess("sampler")
        /\ IF exporter_list[id] = None THEN UNCHANGED written
           ELSE WriteRecord("sampler", exporter_list[id].sysid, TheRecord.who)
        /\ UNCHANGED <<exporter_list, output, abortProcessing>>

ProcessOther ==
    /\ \E kind \in {"other", "common"} : ToProcess(kind)
    /\ UNCHANGED <<exporter_list, written, output, abortProcessing>>

BlockDone ==
    /\ main = "process"
    /\ index > Len(current.records) \/ abortProcessing
    /\ main' = "pop" /\ current' = None /\ index' = 1
    /\ UNCHANGED <<abortProcessing, output, exporter_list, written>>
    /\ UNCHANGED <<options, reading, prepareVars, filtering, processVars>>

(* QUEUE_CLOSED: the output file is written, all threads are joined        *)
Join ==
    /\ main = "pop"
    /\ processQueue = <<>> /\ processClosed
    /\ prepare = "done" /\ \A w \in Workers : filter[w] = "done"
    /\ main' = "done"
    /\ UNCHANGED <<current, index, abortProcessing, output, exporter_list, written>>
    /\ UNCHANGED <<options, reading, prepareVars, filtering, processVars>>
-------------------------------------------------------------------------------
PrepareThread == OpenFirst \/ ReadEOF \/ SkipBlock \/ PushBlock \/ TestAbort \/ ClosePrepare
FilterThread(w) == FilterPop(w) \/ FilterPush(w) \/ FilterEnd(w) \/ FilterClose(w)
Main ==
    \/ OpenOutput \/ MainPop
    \/ ProcessFlow \/ ProcessExporter \/ ProcessSampler \/ ProcessOther
    \/ BlockDone \/ Join

(* main has returned from process_data: the process is about to exit       *)
Finished == main \in {"done", "failed"} /\ UNCHANGED vars

Next ==
    \/ PrepareThread
    \/ \E w \in Workers : FilterThread(w)
    \/ Main
    \/ Finished

Spec == Init /\ [][Next]_vars

(* No thread stops on its own while it can go on.                          *)
FairSpec ==
    /\ Spec
    /\ WF_vars(PrepareThread) /\ WF_vars(Main)
    /\ \A w \in Workers : WF_vars(FilterThread(w))
-------------------------------------------------------------------------------
(* What nfdump should find, said without threads: the blocks it reads, in  *)
(* their order, and the number of records before each of them.             *)
Read ==
    {x \in (DOMAIN input) \X (1 .. Max({0} \cup {Len(input[f].blocks) : f \in DOMAIN input})) :
        /\ \A f \in 1 .. x[1] : input[f].opens
        /\ x[2] <= Len(input[x[1]].blocks)
        /\ input[x[1]].blocks[x[2]].type = "data"
        /\ \A b \in 1 .. x[2] : input[x[1]].blocks[b].type # "unreadable"}

Before(x, y) == x[1] < y[1] \/ (x[1] = y[1] /\ x[2] < y[2])

At(x) == input[x[1]].blocks[x[2]]

First(x) == MapThenSumSet(LAMBDA y : NumRecords(At(y)), {y \in Read : Before(y, x)})

(* the records of the blocks that are not dropped, with their numbers      *)
Content ==
    UNION {{[number |-> First(x) + i, record |-> At(x).records[i]] : i \in DOMAIN At(x).records} :
            x \in {y \in Read : ~Dropped(At(y).records)}}

Of(kind) == {c \in Content : c.record.kind = kind}

Matching == {c.number : c \in {d \in Of("flow") : d.record.match}}

Values(s) == {s[i] : i \in DOMAIN s}

TypeOK ==
    /\ input \in Inputs /\ limit \in Limits /\ started \in (SUBSET Workers) \ {{}}
    /\ wfile \in {"none", "opens", "fails"}
    /\ prepare \in {"start", "read", "test", "close", "done"}
    /\ file \in 0 .. Len(input) /\ block \in Nat \ {0}
    /\ recordCnt \in Nat /\ skippedBlocks \in Nat
    /\ prepareQueue \in Seq(Handles) /\ prepareClosed \in BOOLEAN /\ prepared \in Seq(Handles)
    /\ filter \in [Workers -> {"pop", "filter", "close", "done"}]
    /\ held \in [Workers -> Handles \cup {None}]
    /\ passed \in [Workers -> Nat] /\ passedRecords \in Nat
    /\ producers \in 0 .. Cardinality(started)
    /\ processQueue \in Seq(Handles) /\ processClosed \in BOOLEAN /\ arrived \in Seq(Handles)
    /\ main \in {"open", "pop", "process", "done", "failed"}
    /\ current \in Handles \cup {None} /\ index \in Nat \ {0}
    /\ abortProcessing \in BOOLEAN
    /\ output \in Seq(Nat)
    /\ exporter_list \in [Slots -> Info \cup {None}]
    /\ written \in Seq([kind : {"exporter", "sampler"}, sysid : Slots, who : Exporters])

(* Every block prepareThread has pushed is in one place: waiting, with one *)
(* filter thread, waiting for the main thread, taken by it, or dropped as  *)
(* corrupt.  The process queue is closed when the last filter thread has   *)
(* closed it, and only after all blocks went through it.                   *)
Pushed == prepared \o prepareQueue
Delivered == arrived \o processQueue

OneOwner ==
    /\ \A i, j \in DOMAIN Pushed : i < j => Pushed[i].first < Pushed[j].first
    /\ \A i \in DOMAIN Pushed : Pushed[i].first < recordCnt
    /\ \A i, j \in DOMAIN Delivered : i # j => Delivered[i] # Delivered[j]
    /\ \A v, w \in Workers : v # w /\ held[v] # None => held[v] # held[w]
    /\ \A w \in Workers : held[w] # None <=> filter[w] = "filter"
    /\ \A w \in Workers : held[w] # None =>
            held[w] \in Values(prepared) \ Values(Delivered)
    /\ Values(Delivered) \subseteq Values(prepared)
    /\ \A h \in Values(prepared) \ Values(Delivered) :
            Dropped(h.records) \/ \E w \in Workers : held[w] = h

Closing ==
    /\ prepareClosed <=> prepare = "done"
    /\ producers = Cardinality({w \in Workers : filter[w] # "done"})
    /\ processClosed <=> \A w \in Workers : filter[w] = "done"
    /\ \A w \in started : filter[w] \in {"close", "done"} => prepareClosed /\ prepareQueue = <<>>

IInv == TypeOK /\ OneOwner /\ Closing

NoFlowTwice == \A i, j \in DOMAIN output : i # j => output[i] # output[j]
LimitKept == limit # 0 => Len(output) <= limit

(* The counters are those of matching records in the input, whatever order *)
(* the threads finish in; no flow is processed twice, option -c is met     *)
(* exactly, and without it every matching flow of a sound block that can   *)
(* be read is processed.  A single filter thread keeps the order, so that  *)
(* -c gives the first flows, as its manual says.                           *)
EachMatchOnce ==
    /\ NoFlowTwice /\ LimitKept
    /\ Values(output) \subseteq Matching
    /\ main = "done" => Values(output) = Matching \/ (limit # 0 /\ Len(output) = limit)
    /\ Cardinality(started) = 1 =>
            \A i \in DOMAIN output : \A c \in Matching :
                c < output[i] => c \in {output[j] : j \in 1 .. i - 1}

(* The input can be told apart: each sampler record is behind the record   *)
(* of its exporter, with none of another exporter of that number between   *)
(* them, and the exporter list has room for all exporter records.          *)
Described ==
    /\ \A s \in Of("sampler") : \E e \in Of("exporter") :
          /\ e.number < s.number
          /\ e.record.sysid = s.record.sysid /\ e.record.who = s.record.who
          /\ \A o \in Of("exporter") :
                o.record.sysid = s.record.sysid /\ o.number < s.number => o.number <= e.number
    /\ \A e \in Of("exporter") :
          Cardinality(Of("exporter")) <= MaxExporters + 1 - e.record.sysid

(* In the file that -w writes a number stands for one exporter, although   *)
(* the input files number theirs independently.  With a single filter      *)
(* thread, and nothing lost of what describes the input, each sampler      *)
(* record of the input is there, behind the record of its exporter.        *)
(* (Several threads may bring a sampler before its exporter, or behind the *)
(* exporter of the next file.)                                             *)
NumbersName ==
    \A i, j \in DOMAIN written :
        written[i].kind = "exporter" /\ written[j].kind = "exporter"
          /\ written[i].sysid = written[j].sysid => written[i].who = written[j].who

SamplersWritten == Cardinality({i \in DOMAIN written : written[i].kind = "sampler"})

OutputNamesExporters ==
    /\ NumbersName
    /\ Cardinality(started) = 1 /\ Described =>
            /\ \A i \in DOMAIN written : \E j \in 1 .. i :
                    written[j] = [written[i] EXCEPT !.kind = "exporter"]
            /\ main = "done" /\ wfile = "opens" /\ ~abortProcessing =>
                    SamplersWritten = Cardinality(Of("sampler"))

(* nfdump comes to its end: at the end of the input, at the limit while    *)
(* the others still push, and when the output file cannot be opened.       *)
PipelineEnds == <>(main \in {"done", "failed"})
===============================================================================
