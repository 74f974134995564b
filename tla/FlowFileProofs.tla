---------------------------- MODULE FlowFileProofs ----------------------------
(***************************************************************************)
(* Machine-checked proofs about FlowFile, for any number of writers, any   *)
(* length of the queue, any number and size of files, and failing calls    *)
(* and deaths of the process in any number and place.                      *)
(***************************************************************************)
EXTENDS FlowFile, FiniteSetTheorems, SequenceTheorems, TLAPS

(* The hypothesis of all that follows.  With one core an uncompressed file *)
(* has a writer that FlushFile does not join, and PendingBlocksOnDisk does *)
(* not hold; on all other machines there is none.                          *)
EnoughWorkers == NumWorkers > 1 \/ FALSE \notin Compressions

Files == [exists : BOOLEAN, valid : BOOLEAN, header : Header, cells : Seq(Cells)]

(* the owner is between opening a file and writing its appendix            *)
Open == main \in {"push", "sync", "join", "appendix", "source"}

HeaderOK(h) == h.appendixBlocks = 0 <=> h.offAppendix = 0

(* what TypeOK rests on besides itself                                     *)
Order ==
    /\ compressed \in Compressions
    /\ \A s \in Slots : s >= NumWorkers => worker[s] = NoThread
    /\ main \notin {"push", "sync", "join", "source"} => worker = Idle
    /\ main = "source" => \A s \in Slots : worker[s].pc # "write"
    /\ main \notin {"push", "sync"} => chan = <<>>
    /\ main # "push" => source = NoSource
    /\ main = "source" => handle.path = "archive"
    /\ main \in {"rename", "unlink", "book", "idle", "dead"} => handle = Closed
    /\ Open => handle.pos = EndOfFile(file[handle.path]) /\ file[handle.path].valid

Headers == HeaderOK(handle.header) /\ \A p \in Paths : HeaderOK(file[p].header)

Base == TypeOK /\ Order /\ Headers

-------------------------------------------------------------------------------
(* Facts about data                                                        *)

LEMMA HandleCount ==
  ASSUME TypeOK
  PROVE  handle.header \in Header /\ handle.header.NumBlocks \in Nat
<1>1. handle.header \in Header
  BY DEF TypeOK
<1> QED
  BY <1>1 DEF Header

LEMMA ModFacts ==
  ASSUME NEW a \in Int, NEW m \in Nat \ {0}
  PROVE  /\ a % m \in 0 .. m - 1
         /\ a \in 0 .. m - 1 => a % m = a /\ (a + m) % m = a
  OBVIOUS

LEMMA Constants ==
  /\ Quota \in Nat /\ Sessions \in Nat /\ Quota * Sessions \in Nat
  /\ Modulus \in Nat \ {0} /\ Quota * Sessions + 1 < Modulus
  /\ NumWorkers \in Nat \ {0} /\ QueueSize \in Nat \ {0}
<1>1. Quota * Sessions \in Nat
  BY FlowFileAssumption
<1> QED
  BY <1>1, FlowFileAssumption

LEMMA HeaderTypes ==
  ASSUME NEW h \in Header
  PROVE  /\ h.NumBlocks \in 0 .. Modulus - 1 /\ h.offAppendix \in Nat /\ h.appendixBlocks \in {0, 1}
         /\ AddBlock(h) \in Header
         /\ AddBlock(h) = [h EXCEPT !.NumBlocks = (h.NumBlocks + 1) % Modulus]
         /\ h.NumBlocks + 1 < Modulus => AddBlock(h).NumBlocks = h.NumBlocks + 1
         /\ AddBlock(h).offAppendix = h.offAppendix
         /\ AddBlock(h).appendixBlocks = h.appendixBlocks
<1>1. h.NumBlocks \in 0 .. Modulus - 1 /\ h.offAppendix \in Nat /\ h.appendixBlocks \in {0, 1}
  BY DEF Header
<1> DEFINE n == h.NumBlocks + 1
<1>2. n \in Int /\ Modulus \in Nat \ {0} /\ (n < Modulus => n \in 0 .. Modulus - 1)
  BY <1>1, Constants
<1> HIDE DEF n
<1>3. n % Modulus \in 0 .. Modulus - 1 /\ (n < Modulus => n % Modulus = n)
  BY <1>2, ModFacts
<1> USE DEF n
<1> QED
  BY <1>1, <1>2, <1>3 DEF Header, AddBlock

(* A write at the end of the file appends to it.                           *)
Extended(f, c) == [f EXCEPT !.cells = Append(f.cells, c)]

LEMMA WriteAtEnd ==
  ASSUME NEW f \in Files, NEW c \in Cells
  PROVE  /\ WriteAt(f, EndOfFile(f), c) = Extended(f, c)
         /\ Extended(f, c) \in Files
<1>1. f.cells \in Seq(Cells)
  BY DEF Files
<1>2. SubSeq(f.cells, 1, EndOfFile(f) - 1) = f.cells
  BY <1>1 DEF EndOfFile
<1>3. SubSeq(f.cells, EndOfFile(f) + 1, Len(f.cells)) = <<>>
  BY <1>1 DEF EndOfFile
<1>4. f.cells \o <<c>> \o <<>> = Append(f.cells, c)
  BY <1>1
<1>5. EndOfFile(f) # 0
  BY <1>1 DEF EndOfFile
<1>6. WriteAt(f, EndOfFile(f), c) = Extended(f, c)
  BY <1>2, <1>3, <1>4, <1>5 DEF WriteAt, Extended
<1>7. Extended(f, c) \in Files
  BY <1>1 DEF Files, Extended
<1> QED
  BY <1>6, <1>7

-------------------------------------------------------------------------------
(* Types, and the order of the operations                                  *)

WorkerStates == [pc : {"none", "pop", "write", "exited"}, block : Values]

LEMMA ThreadsStarted ==
  ASSUME EnoughWorkers, Base, NEW n \in {NewThreads, AppendThreads}
  PROVE  /\ StartThreads(n) \in [Slots -> WorkerStates]
         /\ \A s \in Slots : s >= NumWorkers => StartThreads(n)[s] = NoThread
         /\ \A s \in Slots : StartThreads(n)[s].pc # "write"
<1>1. n <= NumWorkers
  <2>1. CASE compressed
    BY <2>1, Constants DEF NewThreads, AppendThreads
  <2>2. CASE ~compressed
    <3>1. compressed = FALSE /\ compressed \in Compressions
      BY <2>2 DEF Base, TypeOK, Order
    <3>2. NumWorkers > 1
      BY <3>1 DEF EnoughWorkers
    <3> QED
      BY <2>2, <3>2, Constants DEF NewThreads, AppendThreads
  <2> QED
    BY <2>1, <2>2
<1>2. \A s \in Slots : s \in Nat
  BY Constants DEF Slots
<1>3. n \in Nat
  BY Constants DEF NewThreads, AppendThreads
<1> QED
  BY <1>1, <1>2, <1>3, Constants DEF StartThreads, WorkerStates, Running, NoThread, Values

LEMMA StatesTyped ==
  /\ Idle \in [Slots -> WorkerStates] /\ NoThread \in WorkerStates /\ Running \in WorkerStates
  /\ Exited \in WorkerStates
  /\ EmptyHeader \in Header /\ Missing \in Files
  /\ Closed \in [path : Paths, pos : Nat, header : Header, stat : Nat]
  /\ NoSource \in [blocks : Seq(Values), stat : Nat]
  /\ HeaderOK(EmptyHeader)
<1>1. EmptyHeader \in Header
  BY Constants DEF EmptyHeader, Header
<1> QED
  BY <1>1 DEF Idle, NoThread, Running, Exited, WorkerStates, Values, Missing, Files, Closed,
    Paths, NoSource, HeaderOK, EmptyHeader

(* Only the writers of an open handle write, at its end.                   *)
LEMMA WriteAppends ==
  ASSUME Base, NEW s \in Slots, WriterWrite(s)
  PROVE  /\ handle.path \in Paths /\ main \in {"push", "sync", "join"}
         /\ worker[s].pc = "write" /\ worker[s].block \in Values
         /\ Data(worker[s].block) \in Cells
         /\ file' = [file EXCEPT ![handle.path] =
                       Extended(@, Data(worker[s].block))]
         /\ file' \in [Paths -> Files]
<1>1. worker[s].pc = "write" /\ worker[s] \in WorkerStates /\ handle.path \in Paths
      /\ file \in [Paths -> Files] /\ main \in {"push", "sync", "join"}
  BY DEF WriterWrite, Base, TypeOK, Order, Idle, NoThread, WorkerStates, Files
<1>2. worker[s].block \in Values /\ Data(worker[s].block) \in Cells
  BY <1>1 DEF WorkerStates, Data, Cells
<1>3. handle.pos = EndOfFile(file[handle.path]) /\ file[handle.path] \in Files
  BY <1>1 DEF Base, Order, Open
<1> DEFINE f == file[handle.path]
           c == Data(worker[s].block)
<1>4. f \in Files /\ c \in Cells
  BY <1>2, <1>3
<1>5. file' = [file EXCEPT ![handle.path] = WriteAt(f, EndOfFile(f), c)]
  BY <1>1, <1>3 DEF WriterWrite
<1> HIDE DEF f, c
<1>6. WriteAt(f, EndOfFile(f), c) = Extended(f, c) /\ Extended(f, c) \in Files
  BY <1>4, WriteAtEnd
<1>7. file' = [file EXCEPT ![handle.path] = Extended(f, c)] /\ file' \in [Paths -> Files]
  BY <1>1, <1>5, <1>6
<1> QED
  BY <1>1, <1>2, <1>7, Zenon DEF f, c

LEMMA AppendixAppends ==
  ASSUME Base, WriteAppendix
  PROVE  /\ handle.path \in Paths /\ Appendix(handle.stat) \in Cells
         /\ file' = [file EXCEPT ![handle.path] =
                       Extended(@, Appendix(handle.stat))]
         /\ file' \in [Paths -> Files]
<1>1. handle.path \in Paths /\ file \in [Paths -> Files] /\ handle.stat \in Nat
  BY DEF Base, TypeOK, Files
<1>2. Appendix(handle.stat) \in Cells
  BY <1>1 DEF Appendix, Cells, Values
<1>3. handle.pos = EndOfFile(file[handle.path]) /\ file[handle.path] \in Files
  BY <1>1 DEF WriteAppendix, Base, Order, Open
<1> DEFINE f == file[handle.path]
           c == Appendix(handle.stat)
<1>4. f \in Files /\ c \in Cells
  BY <1>2, <1>3
<1>5. file' = [file EXCEPT ![handle.path] = WriteAt(f, EndOfFile(f), c)]
  BY <1>1, <1>3 DEF WriteAppendix
<1> HIDE DEF f, c
<1>6. WriteAt(f, EndOfFile(f), c) = Extended(f, c) /\ Extended(f, c) \in Files
  BY <1>4, WriteAtEnd
<1>7. file' = [file EXCEPT ![handle.path] = Extended(f, c)] /\ file' \in [Paths -> Files]
  BY <1>1, <1>5, <1>6
<1> QED
  BY <1>1, <1>2, <1>7, Zenon DEF f, c

LEMMA InitBase == Init => Base
<1> SUFFICES ASSUME Init PROVE Base
  OBVIOUS
<1> USE StatesTyped DEF Init
<1>1. TypeOK
  <2>1. file \in [Paths -> Files] /\ compressed \in BOOLEAN /\ chan \in Seq(Values)
        /\ Len(chan) <= QueueSize
    BY FlowFileAssumption
  <2> QED
    BY <2>1, FlowFileAssumption DEF TypeOK, Files, WorkerStates
<1>2. Order
  BY DEF Order, Idle, NoThread, Open
<1>3. Headers
  BY DEF Headers, Missing, Closed
<1> QED
  BY <1>1, <1>2, <1>3 DEF Base

(* What a reader makes of a file.                                          *)
LEMMA ReadTypes ==
  ASSUME NEW f \in Files
  PROVE  /\ ReadCells(f) \in Seq(Cells)
         /\ Len(ReadCells(f)) = (IF f.header.NumBlocks < Len(f.cells) THEN f.header.NumBlocks
                                                                 ELSE Len(f.cells))
         /\ DOMAIN ReadCells(f) = 1 .. Len(ReadCells(f))
         /\ \A k \in DOMAIN ReadCells(f) : k \in DOMAIN f.cells /\ ReadCells(f)[k] = f.cells[k]
         /\ ReadBlocks(f) \in Seq(Values) /\ Len(ReadBlocks(f)) = Len(ReadCells(f))
         /\ Content(f) \subseteq Values
         /\ Readable(f) /\ HeaderOK(f.header) => ReadStat(f) \in Nat
<1>1. f.cells \in Seq(Cells) /\ f.header \in Header
  BY DEF Files
<1>2. f.header.NumBlocks \in Nat /\ f.header.offAppendix \in Nat /\ f.header.appendixBlocks \in {0, 1}
  BY <1>1, Constants DEF Header
<1> DEFINE n == IF f.header.NumBlocks < Len(f.cells) THEN f.header.NumBlocks ELSE Len(f.cells)
<1>3. n \in 0 .. Len(f.cells)
  BY <1>1, <1>2
<1>4. ReadCells(f) = SubSeq(f.cells, 1, n)
  BY DEF ReadCells
<1> HIDE DEF n
<1>5. /\ ReadCells(f) \in Seq(Cells) /\ Len(ReadCells(f)) = n
      /\ DOMAIN ReadCells(f) = 1 .. n /\ \A k \in 1 .. n : ReadCells(f)[k] = f.cells[k]
  BY <1>1, <1>3, <1>4
<1>6. \A k \in DOMAIN ReadCells(f) : k \in DOMAIN f.cells /\ ReadCells(f)[k] = f.cells[k]
  BY <1>1, <1>3, <1>5
<1>7. \A k \in DOMAIN f.cells : f.cells[k] \in Cells /\ f.cells[k].val \in Values
  <2>1. \A k \in DOMAIN f.cells : f.cells[k] \in Cells
    BY <1>1
  <2>2. \A c \in Cells : c.val \in Values
    BY DEF Cells
  <2> QED
    BY <2>1, <2>2
<1>8. ReadBlocks(f) \in Seq(Values) /\ Len(ReadBlocks(f)) = Len(ReadCells(f))
  <2>1. ReadBlocks(f) = [k \in 1 .. n |-> f.cells[k].val]
    BY <1>5 DEF ReadBlocks
  <2>2. \A k \in 1 .. n : f.cells[k].val \in Values
    BY <1>5, <1>6, <1>7
  <2> QED
    BY <2>1, <2>2, <1>3, <1>5
<1>9. Content(f) \subseteq Values
  BY <1>6, <1>7 DEF Content
<1>10. ASSUME Readable(f), HeaderOK(f.header) PROVE ReadStat(f) \in Nat
  <2>1. CASE f.header.appendixBlocks > 0
    <3>1. f.header.offAppendix \in DOMAIN f.cells
      BY <1>1, <1>2, <1>10, <2>1 DEF Readable, HeaderOK, EndOfFile
    <3>2. f.cells[f.header.offAppendix].val \in Nat
      BY <1>7, <3>1 DEF Values
    <3> QED
      BY <3>2 DEF ReadStat
  <2>2. CASE ~(f.header.appendixBlocks > 0)
    BY <2>2 DEF ReadStat
  <2> QED
    BY <2>1, <2>2
<1> QED
  BY <1>5, <1>6, <1>8, <1>9, <1>10 DEF n

(* The steps of the writers.                                               *)
LEMMA WriterBase ==
  ASSUME Base, NEW s \in Slots, Writer(s) \/ WriterFails(s)
  PROVE  Base'
<1>1. ASSUME WriterPop(s) PROVE Base'
  <2>1. worker[s].pc = "pop" /\ main \in {"push", "sync"} /\ s < NumWorkers
    BY <1>1, Constants DEF WriterPop, Base, Order, Slots, NoThread, TypeOK
  <2>2. chan \in Seq(Values) /\ chan # <<>> /\ Len(chan) <= QueueSize
    BY <1>1 DEF WriterPop, Base, TypeOK
  <2>3. Head(chan) \in Values /\ Tail(chan) \in Seq(Values) /\ Len(Tail(chan)) <= QueueSize
    BY <2>2, Constants
  <2>4. worker' \in [Slots -> WorkerStates]
    BY <1>1, <2>3 DEF WriterPop, Base, TypeOK, WorkerStates
  <2>5. TypeOK'
    BY <1>1, <2>3, <2>4 DEF WriterPop, Base, TypeOK, WorkerStates, history, bounds
  <2>6. Order'
    BY <1>1, <2>1, Constants DEF WriterPop, Base, TypeOK, Order, Slots, Open
  <2> QED
    BY <1>1, <2>5, <2>6 DEF WriterPop, Base, Headers
<1>2. ASSUME WriterExit(s) \/ WriterFails(s) PROVE Base'
  <2>1. /\ worker[s].pc \in {"pop", "write"} /\ main \in {"push", "sync", "join", "source"}
        /\ s < NumWorkers /\ worker' = [worker EXCEPT ![s] = Exited]
    <3>1. worker[s].pc \in {"pop", "write"} /\ worker' = [worker EXCEPT ![s] = Exited]
      BY <1>2 DEF WriterExit, WriterFails
    <3>2. worker[s] # NoThread
      BY <3>1 DEF NoThread
    <3>3. main \in {"push", "sync", "join", "source"}
      BY <3>2 DEF Base, Order, Idle
    <3>4. s \in Nat /\ NumWorkers \in Nat
      BY Constants DEF Slots
    <3>5. s < NumWorkers
      BY <3>2, <3>4 DEF Base, Order
    <3> QED
      BY <3>1, <3>3, <3>5
  <2>2. UNCHANGED <<compressed, file, handle, chan, closed, main, source, books, history, session, crashes>>
    BY <1>2 DEF WriterExit, WriterFails, queue, bounds
  <2>3. worker' \in [Slots -> WorkerStates]
    BY <2>1, StatesTyped DEF Base, TypeOK, WorkerStates
  <2>4. faults' \in [Calls -> 0 .. MaxFaults]
    BY <1>2, FlowFileAssumption DEF WriterExit, WriterFails, Fault, Calls, bounds, Base, TypeOK
  <2>5. TypeOK'
    BY <2>2, <2>3, <2>4 DEF Base, TypeOK, WorkerStates, history
  <2>6. Order'
    BY <2>1, <2>2, Constants DEF Base, TypeOK, Order, Slots, Open, Exited
  <2> QED
    BY <2>2, <2>5, <2>6 DEF Base, Headers
<1>3. ASSUME WriterWrite(s) PROVE Base'
  <2> DEFINE p == handle.path
             c == Data(worker[s].block)
  <2>1. /\ p \in Paths /\ main \in {"push", "sync", "join"} /\ c \in Cells
        /\ file' = [file EXCEPT ![p] = Extended(@, c)] /\ file' \in [Paths -> Files]
    BY <1>3, WriteAppends
  <2>2. /\ worker' = [worker EXCEPT ![s] = Running]
        /\ handle' = [handle EXCEPT !.pos = @ + 1, !.header = AddBlock(@)]
        /\ UNCHANGED <<compressed, chan, closed, main, source, books, history, bounds>>
    BY <1>3 DEF WriterWrite, queue
  <2>3. handle.header \in Header /\ handle.pos \in Nat /\ file \in [Paths -> Files]
        /\ worker \in [Slots -> WorkerStates]
    BY DEF Base, TypeOK, Files, WorkerStates
  <2>4. /\ AddBlock(handle.header) \in Header
        /\ AddBlock(handle.header).offAppendix = handle.header.offAppendix
        /\ AddBlock(handle.header).appendixBlocks = handle.header.appendixBlocks
    BY <2>3, HeaderTypes
  <2>5. handle' \in [path : Paths, pos : Nat, header : Header, stat : Nat]
        /\ handle'.path = p /\ handle'.pos = handle.pos + 1 /\ handle'.header = AddBlock(handle.header)
    <3>1. handle \in [path : Paths, pos : Nat, header : Header, stat : Nat]
      BY DEF Base, TypeOK
    <3> DEFINE h == AddBlock(handle.header)
    <3>2. h \in Header /\ handle' = [handle EXCEPT !.pos = @ + 1, !.header = h]
      BY <2>2, <2>4
    <3> HIDE DEF h
    <3>3. handle' = [path |-> handle.path, pos |-> handle.pos + 1, header |-> h, stat |-> handle.stat]
      BY <3>1, <3>2
    <3>4. handle' \in [path : Paths, pos : Nat, header : Header, stat : Nat]
      BY <3>1, <3>2, <3>3
    <3> QED
      BY <3>3, <3>4 DEF h
  <2>6. worker' \in [Slots -> WorkerStates]
    BY <2>2, <2>3, StatesTyped
  <2>7. TypeOK'
    BY <2>1, <2>2, <2>5, <2>6 DEF Base, TypeOK, WorkerStates, Files, history, bounds
  <2>8. /\ file'[p].cells = Append(file[p].cells, c) /\ file'[p].header = file[p].header
        /\ file'[p].valid = file[p].valid /\ \A q \in Paths \ {p} : file'[q] = file[q]
    BY <2>1, <2>3 DEF Extended, Files
  <2>9. EndOfFile(file'[p]) = EndOfFile(file[p]) + 1
    BY <2>1, <2>3, <2>8 DEF EndOfFile, Files
  <2>10. worker[s].pc = "write" /\ s < NumWorkers
    <3>1. worker[s].pc = "write" /\ worker[s] # NoThread
      BY <1>3 DEF WriterWrite, NoThread
    <3> QED
      BY <3>1, Constants DEF Base, Order, Slots
  <2>11. Order'
    BY <2>1, <2>2, <2>3, <2>5, <2>8, <2>9, <2>10, Constants DEF Base, Order, Slots, Open, Running
  <2>12. Headers'
    BY <2>3, <2>4, <2>5, <2>8 DEF Base, Headers, HeaderOK
  <2> QED
    BY <2>7, <2>11, <2>12 DEF Base
<1> QED
  BY <1>1, <1>2, <1>3 DEF Writer

(* A failing call is counted.                                              *)
LEMMA FaultTypes ==
  ASSUME TypeOK, NEW call \in Calls, Fault(call)
  PROVE  /\ faults' \in [Calls -> 0 .. MaxFaults]
         /\ faults'[call] # 0
         /\ \A c \in Calls : c # call => faults'[c] = faults[c]
<1>1. \A c \in Calls : faults[c] \in 0 .. MaxFaults
  BY DEF TypeOK
<1>2. faults[call] + 1 \in 0 .. MaxFaults
  BY <1>1, FlowFileAssumption DEF Fault, Calls
<1> QED
  BY <1>1, <1>2 DEF Fault, TypeOK

(* OpenNewFile and the first pass over a file.                             *)
LEMMA OpenNewFileBase ==
  ASSUME EnoughWorkers, Base, OpenNewFile
  PROVE  Base'
<1> DEFINE fresh == [Missing EXCEPT !.exists = TRUE, !.valid = TRUE]
<1>1. /\ fresh \in Files /\ fresh.header = EmptyHeader /\ fresh.valid /\ EndOfFile(fresh) = 1
  <2>1. /\ fresh \in Files /\ fresh.header = Missing.header /\ fresh.valid = TRUE
        /\ fresh.cells = Missing.cells
    BY StatesTyped DEF Files
  <2>2. Missing.header = EmptyHeader /\ Missing.cells = <<>>
    BY DEF Missing
  <2> HIDE DEF fresh
  <2> QED
    BY <2>1, <2>2 DEF EndOfFile
<1>2. /\ main = "idle" /\ session < Sessions /\ session' = session + 1
      /\ file' = [file EXCEPT !["current"] = fresh]
      /\ handle' = [Closed EXCEPT !.pos = 1]
      /\ worker' = StartThreads(NewThreads)
      /\ closed' = FALSE /\ main' = "push"
      /\ UNCHANGED <<chan, compressed, books, history, faults, crashes>>
  BY DEF OpenNewFile
<1> HIDE DEF fresh
<1>3. PICK n \in 0 .. Quota :
         source' = [blocks |-> [k \in 1 .. n |-> session * Quota + k], stat |-> n]
  BY DEF OpenNewFile
<1>4. /\ file \in [Paths -> Files] /\ session \in 0 .. Sessions /\ chan = <<>>
  BY <1>2 DEF Base, TypeOK, Files, Order
<1>5. source' \in [blocks : Seq(Values), stat : Nat]
  <2>1. session * Quota \in Nat /\ n \in Nat
    BY <1>4, Constants
  <2>2. [k \in 1 .. n |-> session * Quota + k] \in Seq(Values)
    BY <2>1 DEF Values
  <2> QED
    BY <1>3, <2>1, <2>2
<1>6. /\ worker' \in [Slots -> WorkerStates]
      /\ \A s \in Slots : s >= NumWorkers => worker'[s] = NoThread
  BY <1>2, ThreadsStarted
<1>7. /\ handle' = [path |-> "current", pos |-> 1, header |-> EmptyHeader, stat |-> 0]
      /\ handle' \in [path : Paths, pos : Nat, header : Header, stat : Nat]
  BY <1>2, StatesTyped DEF Closed, Paths
<1>8. file' \in [Paths -> Files] /\ file'["current"] = fresh /\ file'["archive"] = file["archive"]
  BY <1>1, <1>2, <1>4 DEF Paths
<1>9. session' \in 0 .. Sessions
  BY <1>2, <1>4, Constants
<1>10. TypeOK'
  BY <1>2, <1>5, <1>6, <1>7, <1>8, <1>9 DEF Base, TypeOK, Files, WorkerStates, history
<1>11. Order'
  BY <1>1, <1>2, <1>4, <1>6, <1>7, <1>8 DEF Base, Order, Open
<1>12. Headers'
  BY <1>1, <1>7, <1>8, StatesTyped DEF Base, Headers, Paths
<1> QED
  BY <1>10, <1>11, <1>12 DEF Base

LEMMA OpenNewFileFailsBase ==
  ASSUME Base, OpenNewFileFails
  PROVE  Base'
<1> DEFINE fresh == [Missing EXCEPT !.exists = TRUE]
<1>1. fresh \in Files /\ fresh.header = EmptyHeader
  BY StatesTyped DEF Files, Missing
<1>2. /\ main = "idle" /\ main' = "dead" /\ file' = [file EXCEPT !["current"] = fresh]
      /\ UNCHANGED <<handle, worker, chan, closed, source, compressed, books, history, session, crashes>>
  BY DEF OpenNewFileFails, queue
<1> HIDE DEF fresh
<1>3. faults' \in [Calls -> 0 .. MaxFaults]
  BY FaultTypes DEF OpenNewFileFails, Calls, Base
<1>4. file' \in [Paths -> Files] /\ file'["current"] = fresh /\ file'["archive"] = file["archive"]
  BY <1>1, <1>2 DEF Paths, Files, Base, TypeOK
<1>5. TypeOK'
  BY <1>2, <1>3, <1>4 DEF Base, TypeOK, Files, history
<1>6. Order'
  BY <1>2 DEF Base, Order, Open
<1>7. Headers'
  BY <1>1, <1>2, <1>4, StatesTyped DEF Base, Headers, Paths
<1> QED
  BY <1>5, <1>6, <1>7 DEF Base

LEMMA FlushBase ==
  ASSUME EnoughWorkers, Base, PushBlock \/ StartFlush \/ QueueSync \/ JoinWriters
  PROVE  Base'
<1>1. ASSUME PushBlock PROVE Base'
  <2>1. /\ source.blocks \in Seq(Values) /\ source.blocks # <<>> /\ chan \in Seq(Values)
        /\ Len(chan) < QueueSize
        /\ source \in [blocks : Seq(Values), stat : Nat]
    BY <1>1 DEF PushBlock, Base, TypeOK
  <2>2. /\ Head(source.blocks) \in Values /\ Tail(source.blocks) \in Seq(Values)
        /\ Append(chan, Head(source.blocks)) \in Seq(Values)
        /\ Len(Append(chan, Head(source.blocks))) <= QueueSize
    BY <2>1, Constants
  <2>3. source' \in [blocks : Seq(Values), stat : Nat]
    BY <1>1, <2>1, <2>2 DEF PushBlock
  <2>4. TypeOK'
    BY <1>1, <2>2, <2>3 DEF PushBlock, Base, TypeOK, bounds
  <2> QED
    BY <1>1, <2>4 DEF PushBlock, Base, Order, Headers, Open
<1>2. ASSUME StartFlush PROVE Base'
  <2>1. /\ main = "push" /\ main' = "sync" /\ source' = NoSource /\ closed' = TRUE
        /\ handle' = [handle EXCEPT !.stat = @ + source.stat]
        /\ UNCHANGED <<file, worker, chan, compressed, books, history, bounds>>
    BY <1>2 DEF StartFlush
  <2>2. handle \in [path : Paths, pos : Nat, header : Header, stat : Nat] /\ source.stat \in Nat
    BY DEF Base, TypeOK
  <2>3. /\ handle' \in [path : Paths, pos : Nat, header : Header, stat : Nat]
        /\ handle'.path = handle.path /\ handle'.pos = handle.pos /\ handle'.header = handle.header
    BY <2>1, <2>2
  <2>4. TypeOK'
    BY <2>1, <2>3, StatesTyped DEF Base, TypeOK, bounds, history
  <2> QED
    BY <2>1, <2>3, <2>4 DEF Base, Order, Headers, Open
<1>3. ASSUME QueueSync PROVE Base'
  BY <1>3 DEF QueueSync, queue, bounds, history, Base, TypeOK, Order, Headers, Open
<1>4. ASSUME JoinWriters PROVE Base'
  <2>1. worker' = Idle
    <3>1. \A s \in Slots : s < NumWorkers \/ worker[s] = NoThread
      BY Constants DEF Slots, Base, Order
    <3> QED
      BY <1>4, <3>1 DEF JoinWriters, Idle
  <2> QED
    BY <1>4, <2>1, StatesTyped DEF JoinWriters, queue, bounds, history, Base, TypeOK, Order,
      Headers, Open, WorkerStates, Idle, NoThread
<1> QED
  BY <1>1, <1>2, <1>3, <1>4

(* What WriteAppendix leaves in the handle.                                *)
LEMMA AppendixHandle ==
  ASSUME Base, WriteAppendix \/ WriteAppendixFails
  PROVE  /\ handle' \in [path : Paths, pos : Nat, header : Header, stat : Nat]
         /\ handle'.path = handle.path /\ handle'.stat = handle.stat
         /\ handle'.header.offAppendix = handle.pos
         /\ handle'.header.appendixBlocks = 1
         /\ WriteAppendix => handle'.header.NumBlocks = AddBlock(handle.header).NumBlocks
         /\ ~WriteAppendix => handle'.header.NumBlocks = handle.header.NumBlocks
         /\ HeaderOK(handle'.header)
         /\ handle.pos = EndOfFile(file[handle.path]) /\ handle.pos \in Nat \ {0}
<1>1. handle \in [path : Paths, pos : Nat, header : Header, stat : Nat] /\ file \in [Paths -> Files]
  BY DEF Base, TypeOK, Files
<1>2. handle.pos = EndOfFile(file[handle.path]) /\ handle.pos # 0
  BY <1>1 DEF WriteAppendix, WriteAppendixFails, Base, Order, Open, EndOfFile, Files
<1>3. AddBlock(handle.header) \in Header /\ handle.header \in Header
  BY <1>1, HeaderTypes
<1>4. ASSUME NEW h \in Header, handle' = [handle EXCEPT !.pos = 0,
              !.header = [h EXCEPT !.offAppendix = handle.pos, !.appendixBlocks = 1]]
      PROVE  /\ handle' \in [path : Paths, pos : Nat, header : Header, stat : Nat]
             /\ handle'.path = handle.path /\ handle'.stat = handle.stat
             /\ handle'.header.offAppendix = handle.pos /\ handle'.header.appendixBlocks = 1
             /\ handle'.header.NumBlocks = h.NumBlocks /\ HeaderOK(handle'.header)
  <2> DEFINE g == [h EXCEPT !.offAppendix = handle.pos, !.appendixBlocks = 1]
  <2>1. g \in Header /\ g.offAppendix = handle.pos /\ g.appendixBlocks = 1 /\ g.NumBlocks = h.NumBlocks
    BY <1>1 DEF Header
  <2>2. handle' = [handle EXCEPT !.pos = 0, !.header = g]
    BY <1>4
  <2> HIDE DEF g
  <2>3. /\ handle' \in [path : Paths, pos : Nat, header : Header, stat : Nat]
        /\ handle'.path = handle.path /\ handle'.stat = handle.stat /\ handle'.header = g
    BY <1>1, <2>1, <2>2
  <2> QED
    BY <1>1, <1>2, <2>1, <2>3 DEF HeaderOK
<1>5. CASE WriteAppendix
  <2>1. handle' = [handle EXCEPT !.pos = 0,
              !.header = [AddBlock(handle.header) EXCEPT !.offAppendix = handle.pos, !.appendixBlocks = 1]]
    BY <1>5 DEF WriteAppendix
  <2> QED
    BY <1>1, <1>2, <1>3, <1>4, <1>5, <2>1
<1>6. CASE ~WriteAppendix
  <2>1. handle' = [handle EXCEPT !.pos = 0,
              !.header = [handle.header EXCEPT !.offAppendix = handle.pos, !.appendixBlocks = 1]]
    BY <1>6 DEF WriteAppendixFails
  <2> QED
    BY <1>1, <1>2, <1>3, <1>4, <1>6, <2>1
<1> QED
  BY <1>5, <1>6

(* The header that CloseUpdateFile writes.                                 *)
Closing == [handle.header EXCEPT !.NumBlocks =
                (@ + Modulus - handle.header.appendixBlocks) % Modulus]

LEMMA ClosingHeader ==
  ASSUME Base
  PROVE  /\ Closing \in Header /\ HeaderOK(Closing)
         /\ Closing.offAppendix = handle.header.offAppendix
         /\ Closing.appendixBlocks = handle.header.appendixBlocks
         /\ handle.header.NumBlocks > 0 /\ handle.header.appendixBlocks = 1 =>
                Closing.NumBlocks = handle.header.NumBlocks - 1
<1>1. handle.header \in Header /\ HeaderOK(handle.header)
  BY DEF Base, TypeOK, Headers
<1>2. handle.header.NumBlocks \in 0 .. Modulus - 1 /\ handle.header.appendixBlocks \in {0, 1}
  BY <1>1, HeaderTypes
<1> DEFINE a == handle.header.NumBlocks - handle.header.appendixBlocks
           n == handle.header.NumBlocks + Modulus - handle.header.appendixBlocks
<1>3. /\ a \in Int /\ n \in Int /\ a + Modulus = n /\ Modulus \in Nat \ {0}
      /\ handle.header.NumBlocks > 0 /\ handle.header.appendixBlocks = 1 =>
             a \in 0 .. Modulus - 1 /\ a = handle.header.NumBlocks - 1
  BY <1>2, Constants
<1>4. Closing = [handle.header EXCEPT !.NumBlocks = n % Modulus]
  BY DEF Closing
<1> HIDE DEF a, n
<1>5. n % Modulus \in 0 .. Modulus - 1 /\ (a \in 0 .. Modulus - 1 => n % Modulus = a)
  BY <1>3, ModFacts
<1>6. /\ Closing \in Header /\ Closing.NumBlocks = n % Modulus
      /\ Closing.offAppendix = handle.header.offAppendix
      /\ Closing.appendixBlocks = handle.header.appendixBlocks
  BY <1>1, <1>4, <1>5 DEF Header
<1> QED
  BY <1>1, <1>3, <1>5, <1>6 DEF HeaderOK

(* CloseUpdateFile.                                                        *)
Headed(f, h) == [f EXCEPT !.valid = TRUE, !.header = h]

LEMMA HeaderWritten ==
  ASSUME Base, WriteHeader
  PROVE  /\ handle.path \in Paths
         /\ file' = [file EXCEPT ![handle.path] = Headed(@, Closing)]
         /\ file' \in [Paths -> Files]
         /\ file'[handle.path].header = Closing /\ file'[handle.path].valid
         /\ file'[handle.path].cells = file[handle.path].cells
         /\ file'[handle.path].exists = file[handle.path].exists
         /\ \A q \in Paths \ {handle.path} : file'[q] = file[q]
<1>1. handle.path \in Paths /\ file \in [Paths -> Files] /\ file[handle.path] \in Files
  BY DEF Base, TypeOK, Files
<1>2. Closing \in Header
  BY ClosingHeader
<1>3. file' = [file EXCEPT ![handle.path] = Headed(@, Closing)]
  BY DEF WriteHeader, Headed, Closing
<1>4. /\ Headed(file[handle.path], Closing) \in Files
      /\ Headed(file[handle.path], Closing).header = Closing
      /\ Headed(file[handle.path], Closing).valid
      /\ Headed(file[handle.path], Closing).cells = file[handle.path].cells
      /\ Headed(file[handle.path], Closing).exists = file[handle.path].exists
  BY <1>1, <1>2 DEF Headed, Files
<1> QED
  BY <1>1, <1>3, <1>4

LEMMA CloseBase ==
  ASSUME Base, WriteAppendix \/ WriteAppendixFails \/ WriteHeader \/ WriteHeaderFails
  PROVE  Base'
<1>1. ASSUME WriteAppendix PROVE Base'
  <2> DEFINE p == handle.path
             c == Appendix(handle.stat)
  <2>1. /\ p \in Paths /\ c \in Cells /\ file' = [file EXCEPT ![p] = Extended(@, c)]
        /\ file' \in [Paths -> Files]
    BY <1>1, AppendixAppends
  <2>2. \A q \in Paths : file'[q].header = file[q].header
    BY <2>1 DEF Extended, Files, Base, TypeOK
  <2>3. /\ main = "appendix" /\ main' = "header"
        /\ UNCHANGED <<worker, chan, closed, source, compressed, books, history, bounds>>
    BY <1>1 DEF WriteAppendix, queue
  <2>4. handle' \in [path : Paths, pos : Nat, header : Header, stat : Nat] /\ HeaderOK(handle'.header)
    BY <1>1, AppendixHandle
  <2>5. TypeOK'
    BY <2>1, <2>3, <2>4 DEF Base, TypeOK, Files, history, bounds
  <2>6. Order'
    BY <2>3 DEF Base, Order, Open
  <2> QED
    BY <2>2, <2>4, <2>5, <2>6 DEF Base, Headers
<1>2. ASSUME WriteAppendixFails PROVE Base'
  <2>1. /\ main = "appendix" /\ main' = "header"
        /\ UNCHANGED <<file, worker, chan, closed, source, compressed, books, history, session, crashes>>
    BY <1>2 DEF WriteAppendixFails, queue
  <2>2. handle' \in [path : Paths, pos : Nat, header : Header, stat : Nat] /\ HeaderOK(handle'.header)
    BY <1>2, AppendixHandle
  <2>3. faults' \in [Calls -> 0 .. MaxFaults]
    BY <1>2, FaultTypes DEF WriteAppendixFails, Calls, Base
  <2>4. TypeOK'
    BY <2>1, <2>2, <2>3 DEF Base, TypeOK, history
  <2>5. Order'
    BY <2>1 DEF Base, Order, Open
  <2> QED
    BY <2>1, <2>2, <2>4, <2>5 DEF Base, Headers
<1>3. ASSUME WriteHeader PROVE Base'
  <2>1. /\ main = "header" /\ main' = AfterHeader /\ main' \in {"rename", "unlink"} /\ handle' = Closed
        /\ archived' = archived \cup Content(file'["archive"])
        /\ UNCHANGED <<worker, chan, closed, source, compressed, books, pushed, bounds>>
    BY <1>3 DEF WriteHeader, AfterHeader, NoteArchived, queue
  <2>2. /\ file' \in [Paths -> Files] /\ handle.path \in Paths
        /\ file'[handle.path].header = Closing
        /\ \A q \in Paths \ {handle.path} : file'[q] = file[q]
    BY <1>3, HeaderWritten
  <2>3. Content(file'["archive"]) \subseteq Values
    BY <2>2, ReadTypes DEF Paths
  <2>4. TypeOK'
    BY <2>1, <2>2, <2>3, StatesTyped DEF Base, TypeOK, Files, bounds
  <2>5. Order'
    BY <2>1 DEF Base, Order, Open
  <2>6. Headers'
    BY <2>1, <2>2, ClosingHeader, StatesTyped DEF Base, Headers, Closed
  <2> QED
    BY <2>4, <2>5, <2>6 DEF Base
<1>4. ASSUME WriteHeaderFails PROVE Base'
  <2>1. /\ main = "header" /\ main' \in {"rename", "unlink"} /\ handle' = Closed
        /\ UNCHANGED <<file, worker, chan, closed, source, compressed, books, history, session, crashes>>
    BY <1>4 DEF WriteHeaderFails, AfterHeader, queue
  <2>2. faults' \in [Calls -> 0 .. MaxFaults]
    BY <1>4, FaultTypes DEF WriteHeaderFails, Calls, Base
  <2>3. TypeOK'
    BY <2>1, <2>2, StatesTyped DEF Base, TypeOK, history
  <2>4. Order'
    BY <2>1 DEF Base, Order, Open
  <2> QED
    BY <2>1, <2>3, <2>4, StatesTyped DEF Base, Headers, Closed
<1> QED
  BY <1>1, <1>2, <1>3, <1>4

(* AppendFile cuts off the appendix.                                       *)
Cut(f) == IF f.header.offAppendix > 0 THEN SubSeq(f.cells, 1, f.header.offAppendix - 1) ELSE f.cells

LEMMA CutFacts ==
  ASSUME NEW f \in Files, Readable(f), HeaderOK(f.header)
  PROVE  /\ Cut(f) \in Seq(Cells)
         /\ Len(Cut(f)) <= Len(f.cells)
         /\ \A k \in 1 .. Len(Cut(f)) : k \in DOMAIN f.cells /\ Cut(f)[k] = f.cells[k]
         /\ f.header.offAppendix > 0 =>
                Len(Cut(f)) = f.header.offAppendix - 1 /\ f.header.offAppendix \in DOMAIN f.cells
         /\ f.header.offAppendix = 0 => Cut(f) = f.cells
<1>1. f.cells \in Seq(Cells) /\ f.header.offAppendix \in Nat /\ f.header.appendixBlocks \in {0, 1}
  BY HeaderTypes DEF Files
<1>2. CASE f.header.offAppendix > 0
  <2>1. f.header.offAppendix \in DOMAIN f.cells
    BY <1>1, <1>2 DEF Readable, HeaderOK, EndOfFile
  <2> DEFINE n == f.header.offAppendix - 1
  <2>2. n \in 0 .. Len(f.cells) /\ Cut(f) = SubSeq(f.cells, 1, n)
    BY <1>1, <1>2, <2>1 DEF Cut
  <2> HIDE DEF n
  <2>3. /\ Cut(f) \in Seq(Cells) /\ Len(Cut(f)) = n /\ n <= Len(f.cells)
        /\ \A k \in 1 .. n : k \in DOMAIN f.cells /\ Cut(f)[k] = f.cells[k]
    BY <1>1, <2>2
  <2> QED
    BY <1>2, <2>1, <2>3 DEF n
<1>3. CASE ~(f.header.offAppendix > 0)
  BY <1>1, <1>3 DEF Cut
<1> QED
  BY <1>2, <1>3

LEMMA AppendOpened ==
  ASSUME EnoughWorkers, Base, AppendFile
  PROVE  /\ main = "rename" /\ main' = "source" /\ Readable(file["archive"])
         /\ handle' \in [path : Paths, pos : Nat, header : Header, stat : Nat]
         /\ handle'.path = "archive" /\ handle'.header = file["archive"].header
         /\ handle'.stat = ReadStat(file["archive"])
         /\ handle'.pos = Len(Cut(file["archive"])) + 1
         /\ file' \in [Paths -> Files] /\ file'["current"] = file["current"]
         /\ file'["archive"].header = file["archive"].header
         /\ file'["archive"].exists = file["archive"].exists
         /\ file'["archive"].valid = file["archive"].valid
         /\ file'["archive"].cells = Cut(file["archive"])
<1> DEFINE f == file["archive"]
           off == f.header.offAppendix
<1>1. file \in [Paths -> Files] /\ f \in Files /\ HeaderOK(f.header) /\ f.header \in Header /\ off \in Nat
  BY HeaderTypes DEF Base, TypeOK, Files, Paths, Headers
<1>2. /\ Readable(f) /\ main = "rename" /\ main' = "source"
      /\ handle' = [path |-> "archive", header |-> f.header, stat |-> ReadStat(f),
                    pos |-> IF off > 0 THEN off ELSE EndOfFile(f)]
      /\ file' = IF off > 0 THEN [file EXCEPT !["archive"].cells = SubSeq(@, 1, off - 1)] ELSE file
  BY DEF AppendFile
<1>3. ReadStat(f) \in Nat
  BY <1>1, <1>2, ReadTypes
<1>4. /\ Cut(f) \in Seq(Cells) /\ Len(Cut(f)) \in Nat
      /\ off > 0 => Len(Cut(f)) = off - 1 /\ Cut(f) = SubSeq(f.cells, 1, off - 1)
      /\ ~(off > 0) => Cut(f) = f.cells
  BY <1>1, <1>2, CutFacts DEF Cut
<1>5. (IF off > 0 THEN off ELSE EndOfFile(f)) = Len(Cut(f)) + 1
  BY <1>1, <1>4 DEF EndOfFile
<1>6. /\ handle' \in [path : Paths, pos : Nat, header : Header, stat : Nat]
      /\ handle'.path = "archive" /\ handle'.header = f.header
      /\ handle'.stat = ReadStat(f) /\ handle'.pos = Len(Cut(f)) + 1
  BY <1>1, <1>2, <1>3, <1>4, <1>5 DEF Paths
<1>7. file' = [file EXCEPT !["archive"] = [f EXCEPT !.cells = Cut(f)]]
  <2>1. CASE off > 0
    BY <1>1, <1>2, <1>4, <2>1
  <2>2. CASE ~(off > 0)
    <3>1. [f EXCEPT !.cells = Cut(f)] = f
      BY <1>1, <1>4, <2>2 DEF Files
    <3> QED
      BY <1>1, <1>2, <2>2, <3>1
  <2> QED
    BY <2>1, <2>2
<1>8. /\ [f EXCEPT !.cells = Cut(f)] \in Files
      /\ [f EXCEPT !.cells = Cut(f)].header = f.header
      /\ [f EXCEPT !.cells = Cut(f)].exists = f.exists
      /\ [f EXCEPT !.cells = Cut(f)].valid = f.valid
      /\ [f EXCEPT !.cells = Cut(f)].cells = Cut(f)
  BY <1>1, <1>4 DEF Files
<1>9. file' \in [Paths -> Files] /\ file'["current"] = file["current"]
      /\ file'["archive"] = [f EXCEPT !.cells = Cut(f)]
  BY <1>1, <1>7, <1>8 DEF Paths
<1> QED
  BY <1>2, <1>6, <1>8, <1>9

LEMMA RotateBase ==
  ASSUME EnoughWorkers, Base,
         \/ Rename \/ AppendFile \/ AppendFileFails \/ OpenSource \/ OpenSourceFails
         \/ Unlink \/ UpdateBooks
  PROVE  Base'
<1>0. file \in [Paths -> Files] /\ Paths = {"current", "archive"}
  BY DEF Base, TypeOK, Files, Paths
<1>1. ASSUME Rename PROVE Base'
  <2>1. /\ main = "rename" /\ main' = "book"
        /\ file' = [file EXCEPT !["archive"] = file["current"], !["current"] = Missing]
        /\ archived' = archived \cup Content(file'["archive"])
        /\ UNCHANGED <<handle, worker, chan, closed, source, compressed, books, pushed, bounds>>
    BY <1>1 DEF Rename, NoteArchived, queue
  <2>2. file' \in [Paths -> Files] /\ file'["archive"] = file["current"] /\ file'["current"] = Missing
    BY <1>0, <2>1, StatesTyped
  <2>3. Content(file'["archive"]) \subseteq Values
    BY <1>0, <2>2, ReadTypes
  <2>4. TypeOK'
    BY <2>1, <2>2, <2>3 DEF Base, TypeOK, Files, bounds
  <2>5. Order'
    BY <2>1 DEF Base, Order, Open
  <2>6. Headers'
    BY <1>0, <2>1, <2>2, StatesTyped DEF Base, Headers, Missing
  <2> QED
    BY <2>4, <2>5, <2>6 DEF Base
<1>2. ASSUME AppendFile PROVE Base'
  <2>1. /\ worker' = StartThreads(AppendThreads) /\ closed' = FALSE
        /\ UNCHANGED <<chan, source, compressed, books, history, bounds>>
    BY <1>2 DEF AppendFile
  <2>2. /\ worker' \in [Slots -> WorkerStates]
        /\ \A s \in Slots : s >= NumWorkers => worker'[s] = NoThread
        /\ \A s \in Slots : worker'[s].pc # "write"
    BY <2>1, ThreadsStarted
  <2>3. /\ main = "rename" /\ main' = "source" /\ Readable(file["archive"])
        /\ handle' \in [path : Paths, pos : Nat, header : Header, stat : Nat]
        /\ handle'.path = "archive" /\ handle'.header = file["archive"].header
        /\ handle'.pos = Len(Cut(file["archive"])) + 1
        /\ file' \in [Paths -> Files] /\ file'["current"] = file["current"]
        /\ file'["archive"].header = file["archive"].header
        /\ file'["archive"].valid = file["archive"].valid
        /\ file'["archive"].cells = Cut(file["archive"])
    BY <1>2, AppendOpened
  <2>4. TypeOK'
    BY <2>1, <2>2, <2>3 DEF Base, TypeOK, Files, WorkerStates, history, bounds
  <2>5. Order'
    BY <2>1, <2>2, <2>3 DEF Base, Order, Open, EndOfFile, Readable
  <2>6. Headers'
    BY <1>0, <2>3 DEF Base, Headers
  <2> QED
    BY <2>4, <2>5, <2>6 DEF Base
<1>3. ASSUME AppendFileFails \/ UpdateBooks PROVE Base'
  <2>1. /\ main \in {"rename", "book"} /\ main' = "idle" /\ books' \in Nat
        /\ UNCHANGED <<file, handle, worker, queue, source, compressed, history, bounds>>
    BY <1>3 DEF AppendFileFails, UpdateBooks, Base, TypeOK
  <2> QED
    BY <2>1 DEF Base, TypeOK, Order, Headers, Open, queue, history, bounds
<1>4. ASSUME OpenSource PROVE Base'
  <2>1. /\ main = "source" /\ main' = "push" /\ Readable(file["current"])
        /\ source' = [blocks |-> ReadBlocks(file["current"]), stat |-> ReadStat(file["current"])]
        /\ UNCHANGED <<file, handle, worker, chan, closed, compressed, books, history, bounds>>
    BY <1>4 DEF OpenSource, queue
  <2>2. /\ ReadBlocks(file["current"]) \in Seq(Values)
        /\ ReadStat(file["current"]) \in Nat
    BY <1>0, <2>1, ReadTypes DEF Base, Headers
  <2>3. source' \in [blocks : Seq(Values), stat : Nat]
    BY <2>1, <2>2
  <2>4. TypeOK'
    BY <2>1, <2>3 DEF Base, TypeOK, history, bounds
  <2>5. Order'
    BY <2>1 DEF Base, Order, Open
  <2> QED
    BY <2>1, <2>4, <2>5 DEF Base, Headers
<1>5. ASSUME OpenSourceFails PROVE Base'
  <2>1. /\ main = "source" /\ main' = "book" /\ handle' = Closed /\ worker' = Idle /\ closed' = TRUE
        /\ UNCHANGED <<file, chan, source, compressed, books, history, bounds>>
    BY <1>5 DEF OpenSourceFails
  <2>2. TypeOK'
    BY <2>1, StatesTyped DEF Base, TypeOK, history, bounds, WorkerStates
  <2>3. Order'
    BY <2>1 DEF Base, Order, Open, Idle
  <2> QED
    BY <2>1, <2>2, <2>3, StatesTyped DEF Base, Headers, Closed
<1>6. ASSUME Unlink PROVE Base'
  <2>1. /\ main = "unlink" /\ main' = "book" /\ file' = [file EXCEPT !["current"] = Missing]
        /\ UNCHANGED <<handle, worker, chan, closed, source, compressed, books, history, bounds>>
    BY <1>6 DEF Unlink, queue
  <2>2. file' \in [Paths -> Files] /\ file'["archive"] = file["archive"] /\ file'["current"] = Missing
    BY <1>0, <2>1, StatesTyped
  <2>3. TypeOK'
    BY <2>1, <2>2 DEF Base, TypeOK, Files, history, bounds
  <2>4. Order'
    BY <2>1 DEF Base, Order, Open
  <2>5. Headers'
    BY <1>0, <2>1, <2>2, StatesTyped DEF Base, Headers, Missing
  <2> QED
    BY <2>3, <2>4, <2>5 DEF Base
<1> QED
  BY <1>1, <1>2, <1>3, <1>4, <1>5, <1>6

LEMMA CrashBase ==
  ASSUME Base, Crash
  PROVE  Base'
<1>1. /\ main' = "idle" /\ file' = [file EXCEPT !["current"] = Missing]
      /\ handle' = Closed /\ worker' = Idle /\ chan' = <<>> /\ closed' = TRUE
      /\ source' = NoSource /\ crashes < MaxCrashes /\ crashes' = crashes + 1
      /\ UNCHANGED <<compressed, books, history, session, faults>>
  BY DEF Crash
<1>2. file' \in [Paths -> Files] /\ file'["archive"] = file["archive"] /\ file'["current"] = Missing
  BY <1>1, StatesTyped DEF Base, TypeOK, Files, Paths
<1>3. crashes' \in 0 .. MaxCrashes
  BY <1>1, FlowFileAssumption DEF Base, TypeOK
<1>4. chan' \in Seq(Values) /\ Len(chan') <= QueueSize
  BY <1>1, Constants
<1>5. TypeOK'
  BY <1>1, <1>2, <1>3, <1>4, StatesTyped DEF Base, TypeOK, Files, history, WorkerStates
<1>6. Order'
  BY <1>1 DEF Base, Order, Open, Idle
<1>7. Headers'
  BY <1>1, <1>2, StatesTyped DEF Base, Headers, Missing, Closed, Paths
<1> QED
  BY <1>5, <1>6, <1>7 DEF Base

LEMMA StepBase ==
  ASSUME EnoughWorkers, Base, [Next]_vars
  PROVE  Base'
<1>1. CASE UNCHANGED vars
  BY <1>1 DEF vars, queue, history, bounds, Base, TypeOK, Order, Headers, Open
<1>2. CASE Next
  BY <1>1, <1>2, WriterBase, OpenNewFileBase, OpenNewFileFailsBase, FlushBase, CloseBase, RotateBase,
     CrashBase DEF Next, Owner, Finished, Stuck
<1> QED
  BY <1>1, <1>2

(* FlushFile waits for all writers: when the appendix and the header are   *)
(* written no block is queued or in a writer's hand, on every machine but  *)
(* one with a single core (FlushFile, CloseUpdateFile).                    *)
THEOREM FlushComplete ==
  ASSUME EnoughWorkers
  PROVE  Spec => []PendingBlocksOnDisk
<1>1. Init => Base
  BY InitBase
<1>2. Base /\ [Next]_vars => Base'
  BY StepBase
<1>3. Base => PendingBlocksOnDisk
  BY DEF Base, Order, Idle, NoThread, PendingBlocksOnDisk
<1> QED
  BY <1>1, <1>2, <1>3, PTL DEF Spec

-------------------------------------------------------------------------------
(* Blocks on their way to the file, and the numbers in the headers         *)

Writing == {s \in Slots : worker[s].pc = "write"}
Load    == Cardinality(Writing) + Len(chan) + Len(source.blocks)

(* the last block of this file, and of the files before                    *)
Last    == session * Quota
Earlier == (session - 1) * Quota

Most == IF handle.path = "current" THEN Quota ELSE Last

(* the archive file is written to, or may be read                          *)
Appending == handle.path = "archive" /\ (Open \/ main = "header")
Usable    == Appending \/ Readable(file["archive"])

(* no block of this session can have reached the archive yet               *)
FirstPass ==
    \/ main \in {"rename", "source"}
    \/ handle.path = "current" /\ (Open \/ main = "header")

(* The header in memory, once the appendix is written, or was not.         *)
Whole == handle.header.offAppendix = Len(file[handle.path].cells)
Torn  == handle.header.offAppendix = Len(file[handle.path].cells) + 1

Counts ==
    /\ main \notin {"idle", "dead"} => session > 0
    /\ Open => handle.header.NumBlocks + Load <= Most
    /\ main = "source" => handle.header.NumBlocks <= Earlier
    /\ main = "header" =>
          /\ handle.header.appendixBlocks = 1
          /\ Torn \/ (Whole /\ handle.header.NumBlocks \in 1 .. Most + 1)
    /\ handle.path = "current" /\ (Open \/ main = "header") => file["current"].header = EmptyHeader
    /\ Readable(file["current"]) => file["current"].header.NumBlocks <= Quota
    /\ Usable => file["archive"].header.NumBlocks <= Last
    /\ Usable /\ FirstPass => file["archive"].header.NumBlocks <= Earlier

LEMMA Numbers ==
  ASSUME Base
  PROVE  /\ session \in Nat /\ Quota \in Nat /\ Last \in Nat /\ Last <= Quota * Sessions
         /\ session > 0 => Earlier \in Nat /\ Last = Earlier + Quota /\ Quota <= Quota * Sessions
<1>1. session \in 0 .. Sessions /\ Quota \in Nat /\ Sessions \in Nat
  BY Constants DEF Base, TypeOK
<1>2. session * Quota \in Nat /\ Quota * Sessions \in Nat
  BY <1>1
<1>3. session * Quota <= Quota * Sessions
  BY <1>1
<1>4. ASSUME session > 0
      PROVE  /\ (session - 1) * Quota \in Nat /\ session * Quota = (session - 1) * Quota + Quota
             /\ Quota <= Quota * Sessions
  <2>1. session - 1 \in Nat /\ (session - 1) + 1 = session
    BY <1>1, <1>4
  <2>2. (session - 1) * Quota \in Nat /\ session * Quota = (session - 1) * Quota + Quota
    BY <1>1, <2>1
  <2> QED
    BY <1>1, <1>2, <1>3, <2>2
<1> QED
  BY <1>1, <1>2, <1>3, <1>4 DEF Last, Earlier

LEMMA LoadType ==
  ASSUME Base
  PROVE  /\ IsFiniteSet(Writing) /\ Cardinality(Writing) \in Nat
         /\ Len(chan) \in Nat /\ Len(source.blocks) \in Nat /\ Load \in Nat
         /\ Writing # {} => Cardinality(Writing) # 0
<1>1. IsFiniteSet(Slots)
  <2>1. (IF NumWorkers > 2 THEN NumWorkers ELSE 2) - 1 \in Int
    BY Constants
  <2> QED
    BY <2>1, FS_Interval DEF Slots
<1>2. IsFiniteSet(Writing)
  BY <1>1, FS_Subset DEF Writing
<1>3. Cardinality(Writing) \in Nat /\ (Writing # {} => Cardinality(Writing) # 0)
  BY <1>2, FS_CardinalityType, FS_EmptySet
<1>4. Len(chan) \in Nat /\ Len(source.blocks) \in Nat
  BY DEF Base, TypeOK
<1> QED
  BY <1>2, <1>3, <1>4 DEF Load

(* A block leaves the load when it is written, or dropped.                 *)
LEMMA WriterLoad ==
  ASSUME Base, Base', NEW s \in Slots, Writer(s) \/ WriterFails(s)
  PROVE  /\ WriterWrite(s) => Load > 0 /\ Load' = Load - 1
         /\ WriterFails(s) => Load' \in Nat /\ Load' <= Load
         /\ WriterPop(s) \/ WriterExit(s) => Load' = Load
<1>0. worker \in [Slots -> WorkerStates]
  BY DEF Base, TypeOK, WorkerStates
<1>1. ASSUME WriterPop(s) PROVE Load' = Load
  <2>1. Writing' = Writing \cup {s} /\ s \notin Writing
    BY <1>0, <1>1 DEF WriterPop, Writing
  <2>2. Cardinality(Writing') = Cardinality(Writing) + 1
    BY <2>1, LoadType, FS_AddElement
  <2>3. chan \in Seq(Values) /\ chan # <<>> /\ chan' = Tail(chan) /\ source' = source
    BY <1>1 DEF WriterPop, Base, TypeOK
  <2>4. Len(chan') = Len(chan) - 1
    BY <2>3
  <2> QED
    BY <2>2, <2>3, <2>4, LoadType DEF Load
<1>2. ASSUME WriterExit(s) PROVE Load' = Load
  <2>1. Writing' = Writing /\ chan' = chan /\ source' = source
    BY <1>0, <1>2 DEF WriterExit, Writing, Exited, queue
  <2> QED
    BY <2>1, Zenon DEF Load
<1>3. ASSUME WriterWrite(s) \/ WriterFails(s) PROVE Load > 0 /\ Load' = Load - 1
  <2>1. Writing' = Writing \ {s} /\ s \in Writing /\ chan' = chan /\ source' = source
    BY <1>0, <1>3 DEF WriterWrite, WriterFails, Writing, Exited, Running, queue
  <2>2. Cardinality(Writing') = Cardinality(Writing) - 1
    BY <2>1, LoadType, FS_RemoveElement
  <2>3. Cardinality(Writing) # 0
    BY <2>1, LoadType
  <2> QED
    BY <2>1, <2>2, <2>3, LoadType DEF Load
<1>4. WriterFails(s) => Load' \in Nat /\ Load' <= Load
  BY <1>3, LoadType
<1> QED
  BY <1>1, <1>2, <1>3, <1>4

(* Pushing moves blocks, flushing leaves none.                             *)
LEMMA FlushLoad ==
  ASSUME Base, Base', PushBlock \/ StartFlush \/ QueueSync \/ JoinWriters
  PROVE  Load' = Load /\ (JoinWriters => Load = 0)
<1>1. ASSUME PushBlock PROVE Load' = Load
  <2>1. /\ source.blocks \in Seq(Values) /\ source.blocks # <<>> /\ chan \in Seq(Values)
        /\ chan' = Append(chan, Head(source.blocks)) /\ source'.blocks = Tail(source.blocks)
        /\ worker' = worker
    BY <1>1 DEF PushBlock, Base, TypeOK
  <2>2. Len(chan') = Len(chan) + 1 /\ Len(source'.blocks) = Len(source.blocks) - 1
    BY <2>1
  <2>3. Writing' = Writing
    BY <2>1 DEF Writing
  <2> QED
    BY <2>2, <2>3, LoadType DEF Load
<1>2. ASSUME StartFlush PROVE Load' = Load
  <2>1. source.blocks = <<>> /\ source'.blocks = <<>> /\ chan' = chan /\ worker' = worker
    BY <1>2 DEF StartFlush, NoSource
  <2>2. Writing' = Writing
    BY <2>1 DEF Writing
  <2> QED
    BY <2>1, <2>2, Zenon DEF Load
<1>3. ASSUME QueueSync PROVE Load' = Load
  <2>1. chan' = chan /\ worker' = worker /\ source' = source
    BY <1>3 DEF QueueSync, queue
  <2> QED
    BY <2>1, Zenon DEF Load, Writing
<1>4. ASSUME JoinWriters PROVE Load' = Load /\ Load = 0
  <2>1. chan = <<>> /\ source = NoSource /\ chan' = chan /\ source' = source
    BY <1>4 DEF JoinWriters, queue, Base, Order
  <2>2. \A s \in Slots : worker[s].pc # "write"
    <3>1. \A s \in Slots : s < NumWorkers \/ worker[s] = NoThread
      BY Constants DEF Slots, Base, Order
    <3> QED
      BY <1>4, <3>1 DEF JoinWriters, NoThread
  <2>3. worker' = Idle
    BY <1>4 DEF JoinWriters, Base, Order
  <2>4. Writing = {} /\ Writing' = {}
    BY <2>2, <2>3 DEF Writing, Idle, NoThread
  <2> QED
    BY <2>1, <2>4, FS_EmptySet DEF Load, NoSource
<1> QED
  BY <1>1, <1>2, <1>3, <1>4

(* At any other time there is none.                                        *)
LEMMA NoLoad ==
  ASSUME Base, main \notin {"push", "sync", "join"}
  PROVE  Load = 0 /\ Writing = {} /\ chan = <<>> /\ source.blocks = <<>>
<1>1. chan = <<>> /\ source.blocks = <<>>
  BY DEF Base, Order, NoSource
<1>2. Writing = {}
  BY DEF Base, Order, Idle, NoThread, Writing
<1> QED
  BY <1>1, <1>2, FS_EmptySet DEF Load

LEMMA OpenLoad ==
  ASSUME EnoughWorkers, Base, Base', OpenNewFile \/ OpenSource
  PROVE  /\ OpenNewFile => Load' <= Quota
         /\ OpenSource => Load' = Len(ReadBlocks(file["current"]))
         /\ Writing' = {} /\ chan' = <<>> /\ Load' = Len(source'.blocks)
<1>1. Writing' = {} /\ chan' = <<>>
  <2>1. CASE OpenNewFile
    <3>1. \A s \in Slots : worker'[s].pc # "write"
      BY <2>1, ThreadsStarted DEF OpenNewFile
    <3>2. chan = <<>> /\ chan' = chan
      BY <2>1 DEF OpenNewFile, Base, Order
    <3> QED
      BY <3>1, <3>2 DEF Writing
  <2>2. CASE OpenSource
    <3>1. main = "source" /\ chan' = chan /\ worker' = worker
      BY <2>2 DEF OpenSource, queue
    <3> QED
      BY <3>1 DEF Writing, Base, Order
  <2> QED
    BY <2>1, <2>2
<1>2. Load' = Len(source'.blocks)
  BY <1>1, LoadType, FS_EmptySet DEF Load
<1>3. ASSUME OpenNewFile PROVE Len(source'.blocks) <= Quota
  <2>1. PICK n \in 0 .. Quota :
           source' = [blocks |-> [k \in 1 .. n |-> session * Quota + k], stat |-> n]
    BY <1>3 DEF OpenNewFile
  <2>2. source'.blocks = [k \in 1 .. n |-> session * Quota + k] /\ source'.blocks \in Seq(Values)
    BY <2>1 DEF Base, TypeOK
  <2>3. Len(source'.blocks) = n
    BY <2>2, Constants
  <2> QED
    BY <2>3, Constants
<1>4. ASSUME OpenSource PROVE source'.blocks = ReadBlocks(file["current"])
  BY <1>4 DEF OpenSource
<1> QED
  BY <1>1, <1>2, <1>3, <1>4

(* Counts depends on nothing else.                                         *)
LEMMA SameCounts ==
  ASSUME Base, Base', Counts, UNCHANGED <<file, session>>,
         handle'.header = handle.header, handle'.path = handle.path,
         Open' => Open /\ Load' \in Nat /\ Load' <= Load,
         main' \in {"source", "header"} => main' = main,
         FirstPass' => FirstPass,
         main' \notin {"idle", "dead"} => main \notin {"idle", "dead"}
  PROVE  Counts'
<1>1. Last' = Last /\ Earlier' = Earlier /\ Most' = Most
  BY DEF Last, Earlier, Most
<1>2. Appending' => Appending
  BY DEF Appending
<1>3. Usable' => Usable
  BY <1>2 DEF Usable, Readable
<1>4. Torn' = Torn /\ Whole' = Whole
  BY DEF Torn, Whole
<1>5. handle.header.NumBlocks \in Nat /\ Most \in Nat
  <2>1. handle.header \in Header
    BY DEF Base, TypeOK
  <2>2. handle.header.NumBlocks \in Nat
    BY <2>1, Constants DEF Header
  <2> QED
    BY <2>2, Numbers DEF Most
<1>6. Open' => handle'.header.NumBlocks + Load' <= Most'
  BY <1>1, <1>5, LoadType DEF Counts
<1>7. main' = "header" =>
          /\ handle'.header.appendixBlocks = 1
          /\ Torn' \/ (Whole' /\ handle'.header.NumBlocks \in 1 .. Most' + 1)
  BY <1>1, <1>4 DEF Counts
<1>8. /\ main' \notin {"idle", "dead"} => session' > 0
      /\ main' = "source" => handle'.header.NumBlocks <= Earlier'
  BY <1>1 DEF Counts
<1>9. /\ handle'.path = "current" /\ (Open' \/ main' = "header") => file'["current"].header = EmptyHeader
      /\ Readable(file'["current"]) => file'["current"].header.NumBlocks <= Quota
      /\ Usable' => file'["archive"].header.NumBlocks <= Last'
      /\ Usable' /\ FirstPass' => file'["archive"].header.NumBlocks <= Earlier'
  BY <1>1, <1>3 DEF Counts
<1> QED
  BY <1>6, <1>7, <1>8, <1>9 DEF Counts

(* The number of blocks in memory does not wrap around.                    *)
LEMMA NoWrap ==
  ASSUME Base, Counts, Open
  PROVE  /\ handle.header \in Header /\ handle.header.NumBlocks \in Nat
         /\ handle.header.NumBlocks + Load <= Most /\ Most \in Nat
         /\ AddBlock(handle.header).NumBlocks = handle.header.NumBlocks + 1
<1>1. handle.header \in Header
  BY DEF Base, TypeOK
<1>2. handle.header.NumBlocks \in Nat
  BY <1>1, Constants DEF Header
<1>3. session > 0
  BY DEF Counts, Open
<1>4. Most \in Nat /\ Most <= Quota * Sessions
  BY <1>3, Numbers DEF Most
<1>5. handle.header.NumBlocks + Load <= Most
  BY DEF Counts
<1>6. handle.header.NumBlocks + 1 < Modulus
  BY <1>2, <1>4, <1>5, LoadType, Constants
<1> QED
  BY <1>1, <1>2, <1>4, <1>5, <1>6, HeaderTypes

LEMMA WriterCounts ==
  ASSUME Base, Base', Counts, NEW s \in Slots, Writer(s) \/ WriterFails(s)
  PROVE  Counts'
<1>1. ASSUME WriterPop(s) \/ WriterExit(s) \/ WriterFails(s) PROVE Counts'
  <2>1. UNCHANGED <<file, session, handle, main>>
    BY <1>1 DEF WriterPop, WriterExit, WriterFails, bounds
  <2>2. Load' \in Nat /\ Load' <= Load
    <3>1. CASE WriterFails(s)
      BY <3>1, WriterLoad
    <3>2. CASE WriterPop(s) \/ WriterExit(s)
      BY <3>2, WriterLoad, LoadType
    <3> QED
      BY <1>1, <3>1, <3>2
  <2>3. (Open' => Open) /\ (FirstPass' => FirstPass)
    BY <2>1 DEF Open, FirstPass
  <2> QED
    BY <2>1, <2>2, <2>3, SameCounts
<1>2. ASSUME WriterWrite(s) PROVE Counts'
  <2> DEFINE p == handle.path
             c == Data(worker[s].block)
  <2>1. /\ p \in Paths /\ main \in {"push", "sync", "join"}
        /\ file' = [file EXCEPT ![p] = Extended(@, c)]
    BY <1>2, WriteAppends
  <2>2. /\ handle' = [handle EXCEPT !.pos = @ + 1, !.header = AddBlock(@)]
        /\ UNCHANGED <<main, session>>
    BY <1>2 DEF WriterWrite, bounds
  <2>3. Open /\ Open'
    BY <2>1, <2>2 DEF Open
  <2>4. handle'.path = p /\ handle'.header = AddBlock(handle.header)
    <3>1. handle \in [path : Paths, pos : Nat, header : Header, stat : Nat]
      BY DEF Base, TypeOK
    <3> DEFINE h == AddBlock(handle.header)
    <3>2. handle' = [handle EXCEPT !.pos = @ + 1, !.header = h]
      BY <2>2
    <3> HIDE DEF h
    <3>3. handle'.path = p /\ handle'.header = h
      BY <3>1, <3>2
    <3> QED
      BY <3>3 DEF h
  <2>5. /\ \A q \in Paths : file'[q].header = file[q].header /\ (q # p => file'[q] = file[q])
    BY <2>1 DEF Extended, Files, Base, TypeOK
  <2>6. Last' = Last /\ Earlier' = Earlier /\ Most' = Most
    BY <2>2, <2>4 DEF Last, Earlier, Most
  <2>7. Load > 0 /\ Load' = Load - 1
    BY <1>2, WriterLoad
  <2>8. handle'.header.NumBlocks + Load' <= Most'
    BY <2>3, <2>4, <2>6, <2>7, NoWrap, LoadType
  <2>9. (Appending <=> p = "archive") /\ (Appending' <=> p = "archive") /\ (FirstPass' <=> FirstPass)
        /\ (FirstPass <=> p = "current")
    BY <2>1, <2>2, <2>3, <2>4 DEF Appending, FirstPass, Paths
  <2>10. Readable(file'["current"]) => file'["current"].header.NumBlocks <= Quota
    <3>1. CASE p = "current"
      <4>1. file'["current"].header = EmptyHeader
        BY <2>3, <2>5, <3>1 DEF Counts, Paths
      <4> QED
        BY <4>1, Constants DEF EmptyHeader
    <3>2. CASE p = "archive"
      BY <2>5, <3>2 DEF Counts, Paths
    <3> QED
      BY <2>1, <3>1, <3>2 DEF Paths
  <2>11. Usable' => Usable
    BY <2>1, <2>5, <2>9 DEF Usable, Paths
  <2>12. file'["archive"].header = file["archive"].header /\ file'["current"].header = file["current"].header
    BY <2>5 DEF Paths
  <2> QED
    BY <2>1, <2>2, <2>3, <2>4, <2>6, <2>8, <2>9, <2>10, <2>11, <2>12 DEF Counts
<1> QED
  BY <1>1, <1>2 DEF Writer

LEMMA FlushCounts ==
  ASSUME Base, Base', Counts, PushBlock \/ StartFlush \/ QueueSync \/ JoinWriters
  PROVE  Counts'
<1>1. UNCHANGED <<file, session>> /\ handle'.header = handle.header /\ handle'.path = handle.path
  BY DEF PushBlock, StartFlush, QueueSync, JoinWriters, bounds, Base, TypeOK
<1>2. /\ main \in {"push", "sync", "join"} /\ main' \in {"push", "sync", "join", "appendix"}
      /\ main' = "push" => main = "push"
  BY DEF PushBlock, StartFlush, QueueSync, JoinWriters
<1>3. Load' \in Nat /\ Load' <= Load
  BY FlushLoad, LoadType
<1>4. Open /\ (FirstPass' => FirstPass)
  BY <1>1, <1>2 DEF Open, FirstPass
<1> QED
  BY <1>1, <1>2, <1>3, <1>4, SameCounts

LEMMA OpenCounts ==
  ASSUME EnoughWorkers, Base, Base', Counts, OpenNewFile \/ OpenNewFileFails
  PROVE  Counts'
<1>1. ASSUME OpenNewFile PROVE Counts'
  <2>1. /\ main = "idle" /\ main' = "push" /\ session' = session + 1
        /\ file' = [file EXCEPT !["current"] = [Missing EXCEPT !.exists = TRUE, !.valid = TRUE]]
        /\ handle' = [Closed EXCEPT !.pos = 1]
    BY <1>1 DEF OpenNewFile
  <2>2. handle'.path = "current" /\ handle'.header = EmptyHeader
    BY <2>1 DEF Closed
  <2>3. file'["current"].header = EmptyHeader /\ file'["archive"] = file["archive"]
    BY <2>1 DEF Missing, Base, TypeOK, Paths
  <2>4. session \in Nat /\ Earlier' = Last /\ Most' = Quota
    <3>1. session \in Nat /\ session' - 1 = session
      BY <2>1, Numbers
    <3> QED
      BY <2>2, <3>1 DEF Earlier, Last, Most
  <2>5. Last' = Last + Quota
    BY <2>1, <2>4, Constants DEF Last
  <2>6. handle'.header.NumBlocks + Load' <= Most'
    BY <1>1, <2>2, <2>4, OpenLoad DEF EmptyHeader
  <2>7. Usable' => Usable
    BY <2>2, <2>3 DEF Usable, Appending
  <2>8. file["archive"].header.NumBlocks \in Nat
    BY Constants DEF Base, TypeOK, Paths, Header
  <2>9. /\ Usable' => file'["archive"].header.NumBlocks <= Last'
        /\ Usable' => file'["archive"].header.NumBlocks <= Earlier'
    BY <2>3, <2>4, <2>5, <2>7, <2>8, Numbers DEF Counts
  <2>10. file'["current"].header.NumBlocks <= Quota
    BY <2>3, Constants DEF EmptyHeader
  <2> QED
    BY <2>1, <2>3, <2>4, <2>6, <2>9, <2>10 DEF Counts
<1>2. ASSUME OpenNewFileFails PROVE Counts'
  <2>1. /\ main = "idle" /\ main' = "dead" /\ UNCHANGED <<handle, session>>
        /\ file' = [file EXCEPT !["current"] = [Missing EXCEPT !.exists = TRUE]]
    BY <1>2 DEF OpenNewFileFails
  <2>2. file'["current"].header = EmptyHeader /\ file'["archive"] = file["archive"]
    BY <2>1 DEF Missing, Base, TypeOK, Paths
  <2>3. file'["current"].header.NumBlocks <= Quota
    BY <2>2, Constants DEF EmptyHeader
  <2>4. Last' = Last /\ Earlier' = Earlier /\ ~Open' /\ ~FirstPass'
    BY <2>1 DEF Last, Earlier, Open, FirstPass
  <2>5. Usable' => Usable
    BY <2>1, <2>2, <2>4 DEF Usable, Appending
  <2> QED
    BY <2>1, <2>2, <2>3, <2>4, <2>5 DEF Counts
<1> QED
  BY <1>1, <1>2

LEMMA CloseCounts ==
  ASSUME Base, Base', Counts, WriteAppendix \/ WriteAppendixFails \/ WriteHeader \/ WriteHeaderFails
  PROVE  Counts'
<1>0. file \in [Paths -> Files] /\ Paths = {"current", "archive"} /\ handle.path \in Paths
  BY DEF Base, TypeOK, Files, Paths
<1>1. ASSUME WriteAppendix \/ WriteAppendixFails PROVE Counts'
  <2> DEFINE p == handle.path
             c == Appendix(handle.stat)
  <2>1. main = "appendix" /\ main' = "header" /\ session' = session
    BY <1>1 DEF WriteAppendix, WriteAppendixFails, bounds
  <2>2. /\ handle'.path = p /\ handle'.header.appendixBlocks = 1
        /\ handle'.header.offAppendix = Len(file[p].cells) + 1
        /\ WriteAppendix => handle'.header.NumBlocks = AddBlock(handle.header).NumBlocks
    BY <1>1, AppendixHandle DEF EndOfFile
  <2>3. Open
    BY <2>1 DEF Open
  <2>4. handle.header.NumBlocks \in Nat /\ handle.header.NumBlocks <= Most /\ Most \in Nat
        /\ AddBlock(handle.header).NumBlocks = handle.header.NumBlocks + 1
    BY <2>3, NoWrap, LoadType
  <2>5. Last' = Last /\ Earlier' = Earlier /\ Most' = Most
    BY <2>1, <2>2 DEF Last, Earlier, Most
  <2>6. /\ \A q \in Paths : file'[q].header = file[q].header /\ (q # p => file'[q] = file[q])
        /\ WriteAppendix => Len(file'[p].cells) = Len(file[p].cells) + 1
        /\ ~WriteAppendix => file'[p] = file[p]
    <3>1. CASE WriteAppendix
      <4>1. file' = [file EXCEPT ![p] = Extended(@, c)] /\ c \in Cells
        BY <3>1, AppendixAppends
      <4>2. file[p].cells \in Seq(Cells)
        BY <1>0 DEF Files
      <4>3. \A q \in Paths : file'[q].header = file[q].header /\ (q # p => file'[q] = file[q])
        BY <1>0, <4>1 DEF Extended, Files
      <4>4. file'[p].cells = Append(file[p].cells, c)
        BY <1>0, <4>1 DEF Extended, Files
      <4> QED
        BY <3>1, <4>1, <4>2, <4>3, <4>4
    <3>2. CASE ~WriteAppendix
      BY <1>1, <3>2 DEF WriteAppendixFails
    <3> QED
      BY <3>1, <3>2
  <2>7. Torn' \/ (Whole' /\ handle'.header.NumBlocks \in 1 .. Most' + 1)
    <3>1. CASE WriteAppendix
      BY <2>2, <2>4, <2>5, <2>6, <3>1 DEF Whole
    <3>2. CASE ~WriteAppendix
      BY <2>2, <2>6, <3>2 DEF Torn
    <3> QED
      BY <3>1, <3>2
  <2>8. (Appending' <=> p = "archive") /\ (Appending <=> p = "archive") /\ (FirstPass' => FirstPass)
        /\ ~Open'
    BY <2>1, <2>2, <2>3 DEF Appending, FirstPass, Open
  <2>9. Usable' => Usable
    BY <1>0, <2>6, <2>8 DEF Usable
  <2>10. file'["current"].header = file["current"].header /\ file'["archive"].header = file["archive"].header
    BY <1>0, <2>6
  <2>11. Readable(file'["current"]) => file'["current"].header.NumBlocks <= Quota
    <3>1. CASE p = "current"
      <4>1. file'["current"].header = EmptyHeader
        BY <2>3, <2>10, <3>1 DEF Counts
      <4> QED
        BY <4>1, Constants DEF EmptyHeader
    <3>2. CASE p = "archive"
      BY <1>0, <2>6, <3>2 DEF Counts
    <3> QED
      BY <1>0, <3>1, <3>2
  <2> QED
    BY <2>1, <2>2, <2>3, <2>5, <2>7, <2>8, <2>9, <2>10, <2>11 DEF Counts
<1>2. ASSUME WriteHeader \/ WriteHeaderFails PROVE Counts'
  <2> DEFINE p == handle.path
  <2>1. main = "header" /\ handle' = Closed /\ session' = session
        /\ main' = (IF p = "current" THEN "rename" ELSE "unlink")
    BY <1>2 DEF WriteHeader, WriteHeaderFails, bounds, AfterHeader
  <2>2. Last' = Last /\ Earlier' = Earlier /\ session > 0 /\ ~Open' /\ ~Appending'
    BY <2>1 DEF Last, Earlier, Open, Appending, Counts
  <2>3. /\ \A q \in Paths \ {p} : file'[q] = file[q]
        /\ WriteHeader => file'[p].header = Closing /\ file'[p].cells = file[p].cells
        /\ ~WriteHeader => file'[p] = file[p]
    BY <1>0, <1>2, HeaderWritten DEF WriteHeaderFails
  <2>4. ASSUME WriteHeader, Readable(file'[p])
        PROVE  file'[p].header.NumBlocks <= Most
    <3>1. /\ Closing.offAppendix = handle.header.offAppendix /\ Closing.appendixBlocks = 1
          /\ handle.header.appendixBlocks = 1
          /\ handle.header.NumBlocks > 0 => Closing.NumBlocks = handle.header.NumBlocks - 1
      BY <2>1, ClosingHeader DEF Counts
    <3>2. handle.header.offAppendix < Len(file[p].cells) + 1
      BY <2>3, <2>4, <3>1 DEF Readable, EndOfFile
    <3>3. handle.header.NumBlocks \in 1 .. Most + 1
      <4>1. ~Torn
        BY <1>0, <3>2 DEF Torn, Files
      <4> QED
        BY <2>1, <4>1 DEF Counts
    <3>4. Most \in Nat
      BY <2>2, Numbers DEF Most
    <3> QED
      BY <2>3, <2>4, <3>1, <3>3, <3>4
  <2>5. CASE p = "current"
    <3>1. FirstPass /\ Most = Quota /\ file'["archive"] = file["archive"] /\ main' = "rename"
      BY <1>0, <2>1, <2>3, <2>5 DEF FirstPass, Most
    <3>2. Readable(file'["current"]) => file'["current"].header.NumBlocks <= Quota
      BY <2>3, <2>4, <2>5, <3>1 DEF Counts
    <3>3. Usable' => Usable
      BY <2>2, <3>1 DEF Usable
    <3> QED
      BY <2>1, <2>2, <3>1, <3>2, <3>3 DEF Counts, Closed
  <2>6. CASE p = "archive"
    <3>1. Appending /\ Most = Last /\ file'["current"] = file["current"] /\ main' = "unlink"
      BY <1>0, <2>1, <2>3, <2>6 DEF Appending, Most
    <3>2. Usable' => file'["archive"].header.NumBlocks <= Last
      BY <2>2, <2>3, <2>4, <2>6, <3>1 DEF Counts, Usable
    <3>3. ~FirstPass'
      BY <2>1, <2>2, <3>1 DEF FirstPass
    <3> QED
      BY <2>1, <2>2, <3>1, <3>2, <3>3 DEF Counts
  <2> QED
    BY <1>0, <2>5, <2>6
<1> QED
  BY <1>1, <1>2

LEMMA RotateCounts ==
  ASSUME EnoughWorkers, Base, Base', Counts,
         \/ Rename \/ AppendFile \/ AppendFileFails \/ OpenSource \/ OpenSourceFails
         \/ Unlink \/ UpdateBooks \/ Crash
  PROVE  Counts'
<1>0. /\ file \in [Paths -> Files] /\ Paths = {"current", "archive"} /\ session' = session
      /\ Last' = Last /\ Earlier' = Earlier
  BY DEF Base, TypeOK, Files, Paths, Rename, AppendFile, AppendFileFails, OpenSource,
    OpenSourceFails, Unlink, UpdateBooks, Crash, bounds, Last, Earlier
<1>1. ASSUME Rename PROVE Counts'
  <2>1. /\ main = "rename" /\ main' = "book" /\ handle' = Closed
        /\ file' = [file EXCEPT !["archive"] = file["current"], !["current"] = Missing]
    BY <1>1 DEF Rename, Base, Order
  <2>2. file'["archive"] = file["current"] /\ file'["current"] = Missing
    BY <1>0, <2>1
  <2>3. ~Open' /\ ~Appending' /\ ~FirstPass' /\ session > 0
    BY <2>1 DEF Open, Appending, FirstPass, Counts
  <2>4. Quota <= Last /\ Quota \in Nat /\ Last \in Nat
    BY <2>3, Numbers
  <2>5. file["current"].header.NumBlocks \in Nat
    BY <1>0, Constants DEF Files, Header
  <2>6. Usable' => file'["archive"].header.NumBlocks <= Last'
    BY <1>0, <2>2, <2>3, <2>4, <2>5 DEF Usable, Counts
  <2>7. ~Readable(file'["current"])
    BY <2>2 DEF Readable, Missing
  <2> QED
    BY <1>0, <2>1, <2>3, <2>6, <2>7 DEF Counts
<1>2. ASSUME AppendFile PROVE Counts'
  <2>1. /\ main = "rename" /\ main' = "source" /\ Readable(file["archive"])
        /\ handle'.path = "archive" /\ handle'.header = file["archive"].header
        /\ file'["current"] = file["current"]
        /\ file'["archive"].header = file["archive"].header
    BY <1>2, AppendOpened
  <2>2. Usable /\ FirstPass /\ session > 0 /\ Most' = Last /\ main # "idle"
    BY <1>0, <2>1 DEF Usable, FirstPass, Counts, Most
  <2>3. file["archive"].header.NumBlocks <= Earlier /\ file["archive"].header.NumBlocks \in Nat
    BY <1>0, <2>2, Constants DEF Counts, Files, Header
  <2>4. Load' = 0
    <3>1. chan = <<>> /\ source = NoSource /\ chan' = chan /\ source' = source
      BY <1>2, <2>1 DEF AppendFile, Base, Order
    <3>2. Writing' = {}
      BY <1>2, ThreadsStarted DEF AppendFile, Writing
    <3> QED
      BY <3>1, <3>2, FS_EmptySet DEF Load, NoSource
  <2>5. Earlier \in Nat /\ Last \in Nat /\ Earlier <= Last
    BY <2>2, Numbers
  <2> QED
    BY <1>0, <2>1, <2>2, <2>3, <2>4, <2>5 DEF Counts
<1>3. ASSUME AppendFileFails \/ UpdateBooks PROVE Counts'
  <2>1. main' = "idle" /\ UNCHANGED <<file, handle>>
    BY <1>3 DEF AppendFileFails, UpdateBooks
  <2>2. ~Open' /\ ~FirstPass'
    BY <2>1 DEF Open, FirstPass
  <2> QED
    BY <1>0, <2>1, <2>2, SameCounts
<1>4. ASSUME OpenSource PROVE Counts'
  <2>1. /\ main = "source" /\ main' = "push" /\ Readable(file["current"])
        /\ UNCHANGED <<file, handle>>
    BY <1>4 DEF OpenSource
  <2>2. Open /\ Open' /\ handle.path = "archive" /\ Most = Last /\ Most' = Last /\ session > 0
    BY <1>0, <2>1 DEF Open, Base, Order, Most, Counts
  <2>3. Load' = Len(ReadBlocks(file["current"]))
    BY <1>4, OpenLoad
  <2>4. file["current"].header.NumBlocks \in Nat /\ Len(file["current"].cells) \in Nat
    BY <1>0, Constants DEF Files, Header
  <2>5. Load' \in Nat /\ Load' <= Quota
    BY <1>0, <2>1, <2>3, <2>4, ReadTypes, Constants DEF Counts
  <2>6. handle.header.NumBlocks \in Nat /\ handle.header.NumBlocks <= Earlier
    BY <2>1, <2>2, NoWrap DEF Counts
  <2>7. handle'.header.NumBlocks + Load' <= Most'
    BY <2>1, <2>2, <2>5, <2>6, Numbers
  <2>8. Appending /\ Usable /\ ~FirstPass'
    BY <2>1, <2>2 DEF Appending, Usable, FirstPass
  <2> QED
    BY <1>0, <2>1, <2>2, <2>7, <2>8 DEF Counts
<1>5. ASSUME OpenSourceFails \/ UpdateBooks PROVE Counts'
  <2>1. main \in {"source", "book"} /\ main' \in {"book", "idle"} /\ handle' = Closed /\ file' = file
    BY <1>5 DEF OpenSourceFails, UpdateBooks, Base, Order
  <2>2. ~Open' /\ ~FirstPass' /\ ~Appending' /\ session > 0
    BY <2>1 DEF Open, FirstPass, Appending, Counts
  <2>3. Usable' => Usable
    BY <2>1, <2>2 DEF Usable
  <2> QED
    BY <1>0, <2>1, <2>2, <2>3 DEF Counts
<1>6. ASSUME Unlink \/ Crash PROVE Counts'
  <2>1. /\ main' \in {"book", "idle"} /\ handle' = Closed /\ main \notin {"idle", "dead"}
        /\ file' = [file EXCEPT !["current"] = Missing]
    BY <1>6 DEF Unlink, Crash, Base, Order
  <2>2. file'["archive"] = file["archive"] /\ file'["current"] = Missing
    BY <1>0, <2>1
  <2>3. ~Open' /\ ~FirstPass' /\ ~Appending' /\ session > 0
    BY <2>1 DEF Open, FirstPass, Appending, Counts
  <2>4. Usable' => Usable
    BY <2>2, <2>3 DEF Usable
  <2>5. ~Readable(file'["current"])
    BY <2>2 DEF Readable, Missing
  <2> QED
    BY <1>0, <2>1, <2>2, <2>3, <2>4, <2>5 DEF Counts
<1> QED
  BY <1>1, <1>2, <1>3, <1>4, <1>5, <1>6

LEMMA StepCounts ==
  ASSUME EnoughWorkers, Base, Base', Counts, [Next]_vars
  PROVE  Counts'
<1>1. CASE UNCHANGED vars
  BY <1>1 DEF vars, queue, history, bounds, Counts, Open, Load, Writing, Most, Last, Earlier,
    Usable, Appending, FirstPass, Torn, Whole
<1>2. CASE Next
  BY <1>1, <1>2, WriterCounts, OpenCounts, FlushCounts, CloseCounts, RotateCounts
     DEF Next, Owner, Finished, Stuck
<1> QED
  BY <1>1, <1>2

LEMMA InitCounts == Init => Counts
  BY Constants DEF Init, Counts, Open, Readable, Missing, EmptyHeader, Usable, Appending,
    Closed, Paths, Last

-------------------------------------------------------------------------------
(* Headers and what they say of the blocks behind them                     *)

AllData(f, n) == \A k \in 1 .. n : f.cells[k].type = "data"

(* the header counts the data blocks in front of the appendix              *)
Exact(f) ==
    /\ f.header.offAppendix > 0 /\ f.header.offAppendix - 1 <= Len(f.cells)
    /\ f.header.NumBlocks = f.header.offAppendix - 1
    /\ AllData(f, f.header.offAppendix - 1)

NoHeaderFault == faults["header"] = 0

Headings ==
    /\ Readable(file["current"]) => file["current"].header = EmptyHeader \/ Exact(file["current"])
    /\ Open /\ (NoHeaderFault \/ handle.path = "current") =>
          /\ AllData(file[handle.path], Len(file[handle.path].cells))
          /\ handle.header.NumBlocks = Len(file[handle.path].cells)
    /\ main = "header" /\ (NoHeaderFault \/ handle.path = "current") =>
          \/ Torn
          \/ /\ AllData(file[handle.path], Len(file[handle.path].cells) - 1)
             /\ handle.header.NumBlocks = Len(file[handle.path].cells)
    /\ NoHeaderFault /\ Usable => Exact(file["archive"])
    /\ NoHeaderFault /\ main = "rename" /\ Readable(file["current"]) => Exact(file["current"])

LEMMA SameHeadings ==
  ASSUME Headings, UNCHANGED file, faults'["header"] = faults["header"],
         Open' \/ main' = "header" => handle'.header = handle.header /\ handle'.path = handle.path,
         Open' => Open,
         main' \in {"header", "rename"} => main' = main
  PROVE  Headings'
<1>1. Appending' => Appending
  BY DEF Appending
<1>2. Usable' => Usable
  BY <1>1 DEF Usable
<1>3. NoHeaderFault' = NoHeaderFault
  BY DEF NoHeaderFault
<1>4. main' = "header" => Torn' = Torn
  BY DEF Torn
<1> QED
  BY <1>2, <1>3, <1>4 DEF Headings

(* Appending a cell leaves what is in front of it.                         *)
LEMMA ExtendedFacts ==
  ASSUME NEW f \in Files, NEW c \in Cells
  PROVE  /\ Extended(f, c).header = f.header /\ Extended(f, c).exists = f.exists
         /\ Extended(f, c).valid = f.valid
         /\ Extended(f, c).cells = Append(f.cells, c)
         /\ Len(Extended(f, c).cells) = Len(f.cells) + 1
         /\ Extended(f, c).cells[Len(f.cells) + 1] = c
         /\ \A k \in 1 .. Len(f.cells) : Extended(f, c).cells[k] = f.cells[k]
         /\ Exact(f) => Exact(Extended(f, c))
         /\ \A n \in 0 .. Len(f.cells) : AllData(f, n) => AllData(Extended(f, c), n)
         /\ AllData(f, Len(f.cells)) /\ c.type = "data" => AllData(Extended(f, c), Len(f.cells) + 1)
<1>1. f.cells \in Seq(Cells) /\ f.header.offAppendix \in Nat
  BY HeaderTypes DEF Files
<1>2. /\ Extended(f, c).header = f.header /\ Extended(f, c).exists = f.exists
      /\ Extended(f, c).valid = f.valid /\ Extended(f, c).cells = Append(f.cells, c)
  BY DEF Extended, Files
<1>3. /\ Len(Extended(f, c).cells) = Len(f.cells) + 1
      /\ Extended(f, c).cells[Len(f.cells) + 1] = c
      /\ \A k \in 1 .. Len(f.cells) : Extended(f, c).cells[k] = f.cells[k]
  BY <1>1, <1>2
<1>4. \A n \in 0 .. Len(f.cells) : AllData(f, n) => AllData(Extended(f, c), n)
  BY <1>1, <1>3 DEF AllData
<1>5. AllData(f, Len(f.cells)) /\ c.type = "data" => AllData(Extended(f, c), Len(f.cells) + 1)
  BY <1>1, <1>3 DEF AllData
<1>6. Exact(f) => Exact(Extended(f, c))
  BY <1>1, <1>2, <1>3, <1>4 DEF Exact
<1> QED
  BY <1>2, <1>3, <1>4, <1>5, <1>6

LEMMA WriterHeadings ==
  ASSUME Base, Counts, Headings, NEW s \in Slots, Writer(s) \/ WriterFails(s)
  PROVE  Headings'
<1>1. ASSUME WriterPop(s) \/ WriterExit(s) \/ WriterFails(s) PROVE Headings'
  <2>1. UNCHANGED <<file, handle, main>> /\ faults'["header"] = faults["header"]
    BY <1>1, FaultTypes DEF WriterPop, WriterExit, WriterFails, bounds, Calls, Base
  <2> QED
    BY <2>1, SameHeadings DEF Open
<1>2. ASSUME WriterWrite(s) PROVE Headings'
  <2> DEFINE p == handle.path
             c == Data(worker[s].block)
  <2>1. /\ p \in Paths /\ main \in {"push", "sync", "join"} /\ c \in Cells /\ c.type = "data"
        /\ file' = [file EXCEPT ![p] = Extended(@, c)]
    BY <1>2, WriteAppends DEF Data
  <2>2. file \in [Paths -> Files] /\ Paths = {"current", "archive"}
    BY DEF Base, TypeOK, Files, Paths
  <2>3. file'[p] = Extended(file[p], c) /\ \A q \in Paths \ {p} : file'[q] = file[q]
    BY <2>1, <2>2
  <2>4. /\ handle' = [handle EXCEPT !.pos = @ + 1, !.header = AddBlock(@)]
        /\ UNCHANGED <<main, faults>>
    BY <1>2 DEF WriterWrite, bounds
  <2>5. handle'.path = p /\ handle'.header = AddBlock(handle.header)
    <3>1. handle \in [path : Paths, pos : Nat, header : Header, stat : Nat]
      BY DEF Base, TypeOK
    <3> DEFINE h == AddBlock(handle.header)
    <3>2. handle' = [handle EXCEPT !.pos = @ + 1, !.header = h]
      BY <2>4
    <3> HIDE DEF h
    <3>3. handle'.path = p /\ handle'.header = h
      BY <3>1, <3>2
    <3> QED
      BY <3>3 DEF h
  <2>6. Open /\ Open' /\ main' # "header" /\ main' # "rename" /\ NoHeaderFault' = NoHeaderFault
    BY <2>1, <2>4 DEF Open, NoHeaderFault
  <2>7. handle'.header.NumBlocks = handle.header.NumBlocks + 1
    BY <2>5, <2>6, NoWrap
  <2>8. /\ file'[p].header = file[p].header /\ Len(file'[p].cells) = Len(file[p].cells) + 1
        /\ Exact(file[p]) => Exact(file'[p])
        /\ AllData(file[p], Len(file[p].cells)) => AllData(file'[p], Len(file[p].cells) + 1)
    BY <2>1, <2>2, <2>3, ExtendedFacts
  <2>9. NoHeaderFault \/ p = "current" =>
           /\ AllData(file'[p], Len(file'[p].cells))
           /\ handle'.header.NumBlocks = Len(file'[p].cells)
    BY <2>6, <2>7, <2>8 DEF Headings
  <2>10. CASE p = "current"
    <3>1. file'["current"].header = EmptyHeader /\ file'["archive"] = file["archive"]
      BY <2>2, <2>3, <2>6, <2>8, <2>10 DEF Counts
    <3>2. Usable' => Usable
      BY <2>5, <2>10, <3>1 DEF Usable, Appending
    <3> QED
      BY <2>5, <2>6, <2>9, <2>10, <3>1, <3>2 DEF Headings
  <2>11. CASE p = "archive"
    <3>1. file'["current"] = file["current"] /\ Usable
      BY <2>2, <2>3, <2>6, <2>11 DEF Usable, Appending
    <3> QED
      BY <2>5, <2>6, <2>8, <2>9, <2>11, <3>1 DEF Headings
  <2> QED
    BY <2>1, <2>2, <2>10, <2>11
<1> QED
  BY <1>1, <1>2 DEF Writer

LEMMA OpenHeadings ==
  ASSUME Base, Headings, OpenNewFile \/ OpenNewFileFails
  PROVE  Headings'
<1>0. file \in [Paths -> Files] /\ Paths = {"current", "archive"} /\ handle = Closed
  BY DEF Base, TypeOK, Files, Paths, Order, OpenNewFile, OpenNewFileFails
<1>1. CASE OpenNewFile
  <2>1. /\ main' = "push" /\ faults' = faults
        /\ file' = [file EXCEPT !["current"] = [Missing EXCEPT !.exists = TRUE, !.valid = TRUE]]
        /\ handle' = [Closed EXCEPT !.pos = 1]
    BY <1>1 DEF OpenNewFile
  <2>2. handle'.path = "current" /\ handle'.header = EmptyHeader
    BY <2>1 DEF Closed
  <2>3. file'["current"].header = EmptyHeader /\ file'["current"].cells = <<>>
        /\ file'["archive"] = file["archive"]
    BY <1>0, <2>1 DEF Missing
  <2>4. AllData(file'["current"], Len(file'["current"].cells)) /\ Len(file'["current"].cells) = 0
    BY <2>3 DEF AllData
  <2>5. Usable' => Usable
    BY <2>2, <2>3 DEF Usable, Appending
  <2> QED
    BY <2>1, <2>2, <2>3, <2>4, <2>5 DEF Headings, NoHeaderFault, EmptyHeader
<1>2. CASE OpenNewFileFails
  <2>1. /\ main' = "dead" /\ file' = [file EXCEPT !["current"] = [Missing EXCEPT !.exists = TRUE]]
    BY <1>2 DEF OpenNewFileFails
  <2>2. faults'["header"] # 0
    BY <1>2, FaultTypes DEF OpenNewFileFails, Calls, Base
  <2>3. ~Readable(file'["current"])
    BY <1>0, <2>1 DEF Missing, Readable
  <2> QED
    BY <2>1, <2>2, <2>3 DEF Headings, NoHeaderFault, Open
<1> QED
  BY <1>1, <1>2

LEMMA FlushHeadings ==
  ASSUME Base, Headings, PushBlock \/ StartFlush \/ QueueSync \/ JoinWriters
  PROVE  Headings'
<1>1. UNCHANGED file /\ handle'.header = handle.header /\ handle'.path = handle.path
      /\ faults' = faults
  BY DEF PushBlock, StartFlush, QueueSync, JoinWriters, bounds, Base, TypeOK
<1>2. /\ main \in {"push", "sync", "join"} /\ main' \in {"push", "sync", "join", "appendix"}
  BY DEF PushBlock, StartFlush, QueueSync, JoinWriters
<1> QED
  BY <1>1, <1>2, SameHeadings DEF Open

LEMMA CloseHeadings ==
  ASSUME Base, Counts, Headings,
         WriteAppendix \/ WriteAppendixFails \/ WriteHeader \/ WriteHeaderFails
  PROVE  Headings'
<1>0. file \in [Paths -> Files] /\ Paths = {"current", "archive"} /\ handle.path \in Paths
  BY DEF Base, TypeOK, Files, Paths
<1>1. ASSUME WriteAppendix PROVE Headings'
  <2> DEFINE p == handle.path
             c == Appendix(handle.stat)
  <2>1. main = "appendix" /\ main' = "header" /\ faults' = faults
    BY <1>1 DEF WriteAppendix, bounds
  <2>2. handle'.path = p /\ handle'.header.NumBlocks = AddBlock(handle.header).NumBlocks
    BY <1>1, AppendixHandle
  <2>3. file' = [file EXCEPT ![p] = Extended(@, c)] /\ c \in Cells
    BY <1>1, AppendixAppends
  <2>4. file'[p] = Extended(file[p], c) /\ \A q \in Paths \ {p} : file'[q] = file[q]
    BY <1>0, <2>3
  <2>5. Open /\ ~Open' /\ NoHeaderFault' = NoHeaderFault
    BY <2>1 DEF Open, NoHeaderFault
  <2>6. handle'.header.NumBlocks = handle.header.NumBlocks + 1
    BY <2>2, <2>5, NoWrap
  <2>7. Len(file[p].cells) \in Nat
    BY <1>0 DEF Files
  <2>8. /\ file'[p].header = file[p].header /\ Len(file'[p].cells) = Len(file[p].cells) + 1
        /\ Exact(file[p]) => Exact(file'[p])
        /\ AllData(file[p], Len(file[p].cells)) => AllData(file'[p], Len(file[p].cells))
    BY <1>0, <2>3, <2>4, <2>7, ExtendedFacts
  <2>9. NoHeaderFault \/ p = "current" =>
           /\ AllData(file'[p], Len(file'[p].cells) - 1)
           /\ handle'.header.NumBlocks = Len(file'[p].cells)
    BY <2>5, <2>6, <2>7, <2>8 DEF Headings
  <2>10. CASE p = "current"
    <3>1. file'["current"].header = EmptyHeader /\ file'["archive"] = file["archive"]
      BY <1>0, <2>4, <2>5, <2>8, <2>10 DEF Counts
    <3>2. Usable' => Usable
      BY <2>2, <2>10, <3>1 DEF Usable, Appending
    <3> QED
      BY <2>1, <2>2, <2>5, <2>9, <2>10, <3>1, <3>2 DEF Headings
  <2>11. CASE p = "archive"
    <3>1. file'["current"] = file["current"] /\ Usable
      BY <1>0, <2>4, <2>5, <2>11 DEF Usable, Appending
    <3> QED
      BY <2>1, <2>2, <2>5, <2>8, <2>9, <2>11, <3>1 DEF Headings
  <2> QED
    BY <1>0, <2>10, <2>11
<1>2. ASSUME WriteAppendixFails PROVE Headings'
  <2>1. main = "appendix" /\ main' = "header" /\ file' = file
    BY <1>2 DEF WriteAppendixFails
  <2>2. faults'["header"] = faults["header"]
    BY <1>2, FaultTypes DEF WriteAppendixFails, Calls, Base
  <2>3. handle'.path = handle.path /\ Torn'
    BY <1>2, <2>1, AppendixHandle DEF Torn, EndOfFile
  <2>4. ~Open' /\ (Usable' => Usable) /\ NoHeaderFault' = NoHeaderFault
    BY <2>1, <2>2, <2>3 DEF Open, Usable, Appending, NoHeaderFault
  <2> QED
    BY <2>1, <2>3, <2>4 DEF Headings
<1>3. ASSUME WriteHeader PROVE Headings'
  <2> DEFINE p == handle.path
  <2>1. main = "header" /\ main' = (IF p = "current" THEN "rename" ELSE "unlink")
        /\ handle' = Closed /\ faults' = faults
    BY <1>3 DEF WriteHeader, AfterHeader, bounds
  <2>2. /\ \A q \in Paths \ {p} : file'[q] = file[q]
        /\ file'[p].header = Closing /\ file'[p].cells = file[p].cells
    BY <1>3, HeaderWritten
  <2>3. ~Open' /\ ~Appending' /\ NoHeaderFault' = NoHeaderFault
    BY <2>1 DEF Open, Appending, NoHeaderFault
  <2>4. ASSUME NoHeaderFault \/ p = "current", Readable(file'[p])
        PROVE  Exact(file'[p])
    <3>1. /\ Closing.offAppendix = handle.header.offAppendix /\ Closing.appendixBlocks = 1
          /\ handle.header.NumBlocks > 0 => Closing.NumBlocks = handle.header.NumBlocks - 1
      BY <2>1, ClosingHeader DEF Counts
    <3>2. handle.header.offAppendix < Len(file[p].cells) + 1
      BY <2>2, <2>4, <3>1 DEF Readable, EndOfFile
    <3>3. Len(file[p].cells) \in Nat
      BY <1>0 DEF Files
    <3>4. ~Torn
      BY <3>2, <3>3 DEF Torn
    <3>5. handle.header.offAppendix = Len(file[p].cells) /\ handle.header.NumBlocks \in 1 .. Most + 1
      BY <2>1, <3>4 DEF Counts, Whole
    <3>6. AllData(file[p], Len(file[p].cells) - 1) /\ handle.header.NumBlocks = Len(file[p].cells)
      BY <2>1, <2>4, <3>4 DEF Headings
    <3>7. AllData(file'[p], Len(file[p].cells) - 1)
      BY <2>2, <3>6 DEF AllData
    <3> QED
      BY <2>2, <3>1, <3>3, <3>5, <3>6, <3>7 DEF Exact
  <2>5. CASE p = "current"
    <3>1. file'["archive"] = file["archive"]
      BY <1>0, <2>2, <2>5
    <3> QED
      BY <2>1, <2>3, <2>4, <2>5, <3>1 DEF Headings, Usable
  <2>6. CASE p = "archive"
    <3>1. file'["current"] = file["current"]
      BY <1>0, <2>2, <2>6
    <3> QED
      BY <2>1, <2>3, <2>4, <2>6, <3>1 DEF Headings, Usable
  <2> QED
    BY <1>0, <2>5, <2>6
<1>4. ASSUME WriteHeaderFails PROVE Headings'
  <2>1. main = "header" /\ main' \in {"rename", "unlink"} /\ file' = file
    BY <1>4 DEF WriteHeaderFails, AfterHeader
  <2>2. faults'["header"] # 0
    BY <1>4, FaultTypes DEF WriteHeaderFails, Calls, Base
  <2> QED
    BY <2>1, <2>2 DEF Headings, NoHeaderFault, Open
<1> QED
  BY <1>1, <1>2, <1>3, <1>4

LEMMA RotateHeadings ==
  ASSUME EnoughWorkers, Base, Headings,
         \/ Rename \/ AppendFile \/ AppendFileFails \/ OpenSource \/ OpenSourceFails
         \/ Unlink \/ UpdateBooks \/ Crash
  PROVE  Headings'
<1>0. /\ file \in [Paths -> Files] /\ Paths = {"current", "archive"}
      /\ NoHeaderFault' = NoHeaderFault /\ faults'["header"] = faults["header"]
  BY DEF Base, TypeOK, Files, Paths, Rename, AppendFile, AppendFileFails, OpenSource,
    OpenSourceFails, Unlink, UpdateBooks, Crash, bounds, NoHeaderFault
<1>1. ASSUME Rename PROVE Headings'
  <2>1. /\ main = "rename" /\ main' = "book" /\ handle' = Closed
        /\ file' = [file EXCEPT !["archive"] = file["current"], !["current"] = Missing]
    BY <1>1 DEF Rename, Base, Order
  <2>2. file'["archive"] = file["current"] /\ ~Readable(file'["current"])
    BY <1>0, <2>1 DEF Readable, Missing
  <2>3. ~Open' /\ ~Appending'
    BY <2>1 DEF Open, Appending
  <2> QED
    BY <1>0, <2>1, <2>2, <2>3 DEF Headings, Usable
<1>2. ASSUME AppendFile PROVE Headings'
  <2> DEFINE f == file["archive"]
  <2>1. /\ main = "rename" /\ main' = "source" /\ Readable(f)
        /\ handle'.path = "archive" /\ handle'.header = f.header
        /\ file'["current"] = file["current"]
        /\ file'["archive"].header = f.header
        /\ file'["archive"].cells = Cut(f)
    BY <1>2, AppendOpened
  <2>2. /\ Cut(f) \in Seq(Cells) /\ Len(Cut(f)) <= Len(f.cells)
        /\ \A k \in 1 .. Len(Cut(f)) : k \in DOMAIN f.cells /\ Cut(f)[k] = f.cells[k]
        /\ f.header.offAppendix > 0 => Len(Cut(f)) = f.header.offAppendix - 1
    BY <1>0, <2>1, CutFacts DEF Base, Headers
  <2>3. ASSUME NoHeaderFault
        PROVE  /\ Exact(file'["archive"]) /\ AllData(file'["archive"], Len(Cut(f)))
               /\ f.header.NumBlocks = Len(Cut(f))
    <3>1. Exact(f)
      BY <2>1, <2>3 DEF Headings, Usable
    <3>2. Len(Cut(f)) = f.header.offAppendix - 1 /\ f.header.NumBlocks = Len(Cut(f))
      BY <2>2, <3>1 DEF Exact
    <3>3. AllData(file'["archive"], Len(Cut(f)))
      BY <2>1, <2>2, <3>1, <3>2 DEF Exact, AllData
    <3>4. Len(Cut(f)) \in Nat
      BY <2>2
    <3> QED
      BY <2>1, <3>1, <3>2, <3>3, <3>4 DEF Exact
  <2> QED
    BY <1>0, <2>1, <2>3 DEF Headings
<1>3. ASSUME AppendFileFails \/ UpdateBooks \/ OpenSource \/ OpenSourceFails PROVE Headings'
  <2>1. /\ main' \in {"idle", "book"} \/ (main = "source" /\ main' = "push" /\ handle' = handle)
        /\ file' = file
    BY <1>3 DEF AppendFileFails, UpdateBooks, OpenSource, OpenSourceFails
  <2> QED
    BY <1>0, <2>1, SameHeadings DEF Open
<1>4. ASSUME Unlink \/ Crash PROVE Headings'
  <2>1. /\ main' \in {"book", "idle"} /\ file' = [file EXCEPT !["current"] = Missing]
    BY <1>4 DEF Unlink, Crash
  <2>2. file'["archive"] = file["archive"] /\ ~Readable(file'["current"])
    BY <1>0, <2>1 DEF Readable, Missing
  <2>3. ~Open' /\ ~Appending'
    BY <2>1 DEF Open, Appending
  <2> QED
    BY <1>0, <2>1, <2>2, <2>3 DEF Headings, Usable
<1> QED
  BY <1>1, <1>2, <1>3, <1>4

LEMMA StepHeadings ==
  ASSUME EnoughWorkers, Base, Counts, Headings, [Next]_vars
  PROVE  Headings'
<1>1. CASE UNCHANGED vars
  BY <1>1, SameHeadings DEF vars, bounds, Open
<1>2. CASE Next
  BY <1>1, <1>2, WriterHeadings, OpenHeadings, FlushHeadings, CloseHeadings, RotateHeadings
     DEF Next, Owner, Finished, Stuck
<1> QED
  BY <1>1, <1>2

LEMMA InitHeadings == Init => Headings
  BY DEF Init, Headings, Open, Readable, Missing, Usable, Appending, Closed, Paths

-------------------------------------------------------------------------------
(* Each block in one place                                                 *)

DataOf(f) == {f.cells[k].val : k \in {j \in DOMAIN f.cells : f.cells[j].type = "data"}}

Once(f) == \A j, k \in DOMAIN f.cells :
              j # k /\ f.cells[j].type = "data" /\ f.cells[k].type = "data" => f.cells[j].val # f.cells[k].val

Waiting == chan \o source.blocks

(* a block of this session that is not yet in the file                     *)
Due(b) == Earlier < b /\ b <= Last /\ b \notin DataOf(file[handle.path])

Transit ==
    /\ \A s, t \in Writing : s # t => worker[s].block # worker[t].block
    /\ \A j, k \in DOMAIN Waiting : j # k => Waiting[j] # Waiting[k]
    /\ \A s \in Writing : \A k \in DOMAIN Waiting : worker[s].block # Waiting[k]
    /\ \A s \in Writing : Due(worker[s].block) /\ worker[s].block \in pushed
    /\ \A k \in DOMAIN Waiting : Due(Waiting[k])
    /\ \A k \in DOMAIN chan : chan[k] \in pushed

Stored ==
    /\ \A p \in Paths : Once(file[p]) /\ DataOf(file[p]) \subseteq pushed
    /\ \A x \in DataOf(file["current"]) : Earlier < x /\ x <= Last
    /\ \A x \in DataOf(file["archive"]) : x <= Last /\ (FirstPass => x <= Earlier)

LEMMA ExtendedData ==
  ASSUME NEW f \in Files, NEW c \in Cells
  PROVE  /\ c.type = "data" => DataOf(Extended(f, c)) = DataOf(f) \cup {c.val}
         /\ c.type # "data" => DataOf(Extended(f, c)) = DataOf(f)
         /\ Once(f) /\ (c.type = "data" => c.val \notin DataOf(f)) => Once(Extended(f, c))
<1> DEFINE g == Extended(f, c)
           n == Len(f.cells)
<1>1. f.cells \in Seq(Cells) /\ g \in Files /\ g.cells \in Seq(Cells) /\ n \in Nat
  BY WriteAtEnd DEF Files
<1>2. /\ DOMAIN f.cells = 1 .. n /\ DOMAIN g.cells = 1 .. n + 1 /\ g.cells[n + 1] = c
      /\ \A k \in 1 .. n : g.cells[k] = f.cells[k]
  BY <1>1, ExtendedFacts
<1> HIDE DEF g, n
<1>3. c.type = "data" => DataOf(g) = DataOf(f) \cup {c.val}
  BY <1>1, <1>2 DEF DataOf
<1>4. c.type # "data" => DataOf(g) = DataOf(f)
  BY <1>1, <1>2 DEF DataOf
<1>5. ASSUME Once(f), c.type = "data" => c.val \notin DataOf(f) PROVE Once(g)
  <2> SUFFICES ASSUME NEW j \in 1 .. n + 1, NEW k \in 1 .. n + 1, j # k,
                      g.cells[j].type = "data", g.cells[k].type = "data"
               PROVE  g.cells[j].val # g.cells[k].val
    BY <1>2 DEF Once
  <2>1. CASE j \in 1 .. n /\ k \in 1 .. n
    BY <1>2, <1>5, <2>1 DEF Once
  <2>2. CASE j = n + 1
    <3>1. k \in 1 .. n
      BY <1>1, <2>2
    <3>2. g.cells[k].val \in DataOf(f)
      BY <1>2, <3>1 DEF DataOf
    <3> QED
      BY <1>2, <1>5, <2>2, <3>2
  <2>3. CASE k = n + 1
    <3>1. j \in 1 .. n
      BY <1>1, <2>3
    <3>2. g.cells[j].val \in DataOf(f)
      BY <1>2, <3>1 DEF DataOf
    <3> QED
      BY <1>2, <1>5, <2>3, <3>2
  <2> QED
    BY <1>1, <2>1, <2>2, <2>3
<1> QED
  BY <1>3, <1>4, <1>5 DEF g

(* A file that is a part of another has its data.                          *)
LEMMA PartData ==
  ASSUME NEW f, NEW g,
         \A k \in DOMAIN g.cells : k \in DOMAIN f.cells /\ g.cells[k] = f.cells[k]
  PROVE  DataOf(g) \subseteq DataOf(f) /\ (Once(f) => Once(g))
<1>1. DataOf(g) \subseteq DataOf(f)
  BY DEF DataOf
<1>2. Once(f) => Once(g)
  BY DEF Once
<1> QED
  BY <1>1, <1>2

LEMMA WaitingFacts ==
  ASSUME Base
  PROVE  /\ Waiting \in Seq(Values) /\ chan \in Seq(Values) /\ source.blocks \in Seq(Values)
         /\ DOMAIN Waiting = 1 .. Len(Waiting) /\ Len(Waiting) = Len(chan) + Len(source.blocks)
         /\ \A k \in DOMAIN chan : k \in DOMAIN Waiting /\ Waiting[k] = chan[k]
<1>1. chan \in Seq(Values) /\ source.blocks \in Seq(Values)
  BY DEF Base, TypeOK
<1> QED
  BY <1>1 DEF Waiting

LEMMA NoTransit ==
  ASSUME Base', main' \notin {"push", "sync", "join"}
  PROVE  Transit'
<1>1. chan' = <<>> /\ source'.blocks = <<>>
  BY DEF Base, Order, NoSource
<1>2. Writing' = {}
  BY DEF Base, Order, Idle, NoThread, Writing
<1>3. Waiting' = <<>>
  BY <1>1 DEF Waiting
<1> QED
  BY <1>1, <1>2, <1>3 DEF Transit

LEMMA SameStored ==
  ASSUME Stored, UNCHANGED <<file, session>>, pushed \subseteq pushed', FirstPass' => FirstPass
  PROVE  Stored'
  BY DEF Stored, Earlier, Last

LEMMA WriterPlaces ==
  ASSUME Base, Transit, Stored, NEW s \in Slots, Writer(s) \/ WriterFails(s)
  PROVE  Transit' /\ Stored'
<1>0. worker \in [Slots -> WorkerStates] /\ file \in [Paths -> Files]
      /\ Paths = {"current", "archive"}
  BY DEF Base, TypeOK, WorkerStates, Files, Paths
<1>1. ASSUME WriterPop(s) PROVE Transit' /\ Stored'
  <2> DEFINE b == Head(chan)
  <2>1. /\ chan # <<>> /\ chan' = Tail(chan) /\ source' = source /\ worker[s].pc = "pop"
        /\ worker' = [worker EXCEPT ![s] = [pc |-> "write", block |-> b]]
        /\ UNCHANGED <<file, handle, main, pushed, session>>
    BY <1>1 DEF WriterPop, history, bounds
  <2>2. /\ Waiting \in Seq(Values) /\ chan \in Seq(Values) /\ source.blocks \in Seq(Values)
        /\ Len(Waiting) \in Nat \ {0} /\ Waiting[1] = b /\ chan[1] = b
    <3>1. chan \in Seq(Values) /\ source.blocks \in Seq(Values)
      BY WaitingFacts
    <3> QED
      BY <2>1, <3>1 DEF Waiting
  <2>3. Waiting' = Tail(Waiting)
    BY <2>1, <2>2 DEF Waiting
  <2>4. /\ DOMAIN Waiting' = 1 .. Len(Waiting) - 1
        /\ \A k \in DOMAIN Waiting' : k + 1 \in DOMAIN Waiting /\ k + 1 # 1 /\ Waiting'[k] = Waiting[k + 1]
    BY <2>2, <2>3
  <2>5. /\ Writing' = Writing \cup {s} /\ s \notin Writing /\ worker'[s].block = b
        /\ \A t \in Writing : t # s /\ worker'[t] = worker[t]
    BY <1>0, <2>1 DEF Writing
  <2>6. 1 \in DOMAIN Waiting /\ 1 \in DOMAIN chan
    BY <2>1, <2>2
  <2>7. \A x : Due(x)' = Due(x)
    BY <2>1 DEF Due, Earlier, Last, DataOf
  <2>8. \A t, u \in Writing' : t # u => worker'[t].block # worker'[u].block
    <3> SUFFICES ASSUME NEW t \in Writing', NEW u \in Writing', t # u
                 PROVE  worker'[t].block # worker'[u].block
      OBVIOUS
    <3>1. CASE t \in Writing /\ u \in Writing
      BY <2>5, <3>1 DEF Transit
    <3>2. CASE t = s /\ u \in Writing
      BY <2>2, <2>5, <2>6, <3>2 DEF Transit
    <3>3. CASE u = s /\ t \in Writing
      BY <2>2, <2>5, <2>6, <3>3 DEF Transit
    <3> QED
      BY <2>5, <3>1, <3>2, <3>3
  <2>9. \A j, k \in DOMAIN Waiting' : j # k => Waiting'[j] # Waiting'[k]
    <3> SUFFICES ASSUME NEW j \in DOMAIN Waiting', NEW k \in DOMAIN Waiting', j # k
                 PROVE  Waiting'[j] # Waiting'[k]
      OBVIOUS
    <3>1. j + 1 # k + 1
      BY <2>4
    <3> QED
      BY <2>4, <3>1 DEF Transit
  <2>10. \A t \in Writing' : \A k \in DOMAIN Waiting' : worker'[t].block # Waiting'[k]
    <3> SUFFICES ASSUME NEW t \in Writing', NEW k \in DOMAIN Waiting'
                 PROVE  worker'[t].block # Waiting'[k]
      OBVIOUS
    <3>1. CASE t \in Writing
      BY <2>4, <2>5, <3>1 DEF Transit
    <3>2. CASE t = s
      BY <2>2, <2>4, <2>5, <2>6, <3>2 DEF Transit
    <3> QED
      BY <2>5, <3>1, <3>2
  <2>11. \A t \in Writing' : Due(worker[t].block)' /\ worker'[t].block \in pushed'
    <3>1. Due(b) /\ b \in pushed
      BY <2>2, <2>6 DEF Transit
    <3>2. \A t \in Writing : Due(worker[t].block) /\ worker[t].block \in pushed
      BY DEF Transit
    <3> QED
      BY <2>1, <2>5, <2>7, <3>1, <3>2
  <2>12. \A k \in DOMAIN Waiting' : Due(Waiting[k])'
    BY <2>4, <2>7 DEF Transit
  <2>13. \A k \in DOMAIN chan' : chan'[k] \in pushed'
    <3>1. \A k \in DOMAIN chan' : k + 1 \in DOMAIN chan /\ chan'[k] = chan[k + 1]
      BY <2>1, <2>2
    <3> QED
      BY <2>1, <3>1 DEF Transit
  <2>14. Transit'
    BY <2>8, <2>9, <2>10, <2>11, <2>12, <2>13 DEF Transit
  <2>15. Stored'
    BY <2>1, SameStored DEF FirstPass, Open
  <2> QED
    BY <2>14, <2>15
<1>2. ASSUME WriterExit(s) \/ WriterFails(s) PROVE Transit' /\ Stored'
  <2>1. /\ chan' = chan /\ source' = source /\ worker' = [worker EXCEPT ![s] = Exited]
        /\ UNCHANGED <<file, handle, main, pushed, session>>
    BY <1>2 DEF WriterExit, WriterFails, queue, history, bounds
  <2>2. Waiting' = Waiting
    BY <2>1 DEF Waiting
  <2>3. Writing' \subseteq Writing /\ \A t \in Writing' : worker'[t] = worker[t]
    BY <1>0, <2>1 DEF Writing, Exited
  <2>4. \A x : Due(x)' = Due(x)
    BY <2>1 DEF Due, Earlier, Last, DataOf
  <2>5. Transit'
    BY <2>1, <2>2, <2>3, <2>4 DEF Transit
  <2>6. Stored'
    BY <2>1, SameStored DEF FirstPass, Open
  <2> QED
    BY <2>5, <2>6
<1>3. ASSUME WriterWrite(s) PROVE Transit' /\ Stored'
  <2> DEFINE p == handle.path
             b == worker[s].block
             c == Data(b)
  <2>1. /\ p \in Paths /\ main \in {"push", "sync", "join"} /\ c \in Cells /\ worker[s].pc = "write"
        /\ file' = [file EXCEPT ![p] = Extended(@, c)]
    BY <1>3, WriteAppends
  <2>2. c.type = "data" /\ c.val = b
    BY DEF Data
  <2>3. file'[p] = Extended(file[p], c) /\ \A q \in Paths \ {p} : file'[q] = file[q]
    BY <1>0, <2>1
  <2>4. /\ worker' = [worker EXCEPT ![s] = Running] /\ chan' = chan /\ source' = source
        /\ handle'.path = handle.path /\ UNCHANGED <<main, pushed, session>>
    BY <1>3 DEF WriterWrite, queue, history, bounds, Base, TypeOK
  <2>5. /\ s \in Writing /\ Writing' = Writing \ {s}
        /\ \A t \in Writing' : worker'[t] = worker[t]
    BY <1>0, <2>1, <2>4 DEF Writing, Running
  <2>6. Waiting' = Waiting
    BY <2>4 DEF Waiting
  <2>7. Due(b) /\ b \in pushed
    BY <2>5 DEF Transit
  <2>8. DataOf(file'[p]) = DataOf(file[p]) \cup {b}
    BY <1>0, <2>1, <2>2, <2>3, ExtendedData
  <2>9. \A x : Due(x) /\ x # b => Due(x)'
    BY <2>4, <2>8 DEF Due, Earlier, Last
  <2>10. \A t \in Writing' : t \in Writing /\ worker[t].block # b
    BY <2>5 DEF Transit
  <2>11. \A k \in DOMAIN Waiting : Waiting[k] # b
    BY <2>5 DEF Transit
  <2>12. Transit'
    BY <2>4, <2>5, <2>6, <2>9, <2>10, <2>11 DEF Transit
  <2>13. b \notin DataOf(file[p]) /\ Earlier < b /\ b <= Last
    BY <2>7 DEF Due
  <2>14. Once(file'[p])
    BY <1>0, <2>1, <2>2, <2>3, <2>13, ExtendedData DEF Stored
  <2>15. Last' = Last /\ Earlier' = Earlier /\ FirstPass' = FirstPass
    BY <2>4 DEF Last, Earlier, FirstPass, Open
  <2>16. p = "archive" => ~FirstPass
    BY <2>1 DEF FirstPass
  <2>17. \A q \in Paths : Once(file'[q]) /\ DataOf(file'[q]) \subseteq pushed'
    BY <2>3, <2>4, <2>7, <2>8, <2>14 DEF Stored
  <2>18. \A x \in DataOf(file'["current"]) : Earlier' < x /\ x <= Last'
    BY <1>0, <2>3, <2>8, <2>13, <2>15 DEF Stored
  <2>19. \A x \in DataOf(file'["archive"]) : x <= Last' /\ (FirstPass' => x <= Earlier')
    BY <1>0, <2>1, <2>3, <2>8, <2>13, <2>15, <2>16 DEF Stored
  <2>20. Stored'
    BY <2>17, <2>18, <2>19 DEF Stored
  <2> QED
    BY <2>12, <2>20
<1> QED
  BY <1>1, <1>2, <1>3 DEF Writer

(* Pushing does not change the order in which blocks are waiting.          *)
LEMMA PushingMoves ==
  ASSUME NEW S, NEW s \in Seq(S), NEW c \in Seq(S), c # <<>>
  PROVE  Append(s, Head(c)) \o Tail(c) = s \o c
  OBVIOUS

LEMMA FlushPlaces ==
  ASSUME Base, Base', Transit, Stored, PushBlock \/ StartFlush \/ QueueSync \/ JoinWriters
  PROVE  Transit' /\ Stored'
<1>0. /\ handle'.path = handle.path /\ UNCHANGED <<file, session>>
      /\ main \in {"push", "sync", "join"} /\ main' \in {"push", "sync", "join", "appendix"}
  BY DEF PushBlock, StartFlush, QueueSync, JoinWriters, bounds, Base, TypeOK
<1>1. pushed \subseteq pushed'
  BY DEF PushBlock, StartFlush, QueueSync, JoinWriters, history
<1>2. Stored'
  BY <1>0, <1>1, SameStored DEF FirstPass, Open
<1>3. \A x : Due(x)' = Due(x)
  BY <1>0 DEF Due, Earlier, Last
<1>4. CASE JoinWriters
  BY <1>4, NoTransit, <1>2 DEF JoinWriters
<1>5. CASE StartFlush \/ QueueSync
  <2>1. worker' = worker /\ chan' = chan /\ source'.blocks = source.blocks
    BY <1>5 DEF StartFlush, QueueSync, queue, NoSource
  <2>2. Waiting' = Waiting /\ Writing' = Writing
    BY <2>1 DEF Waiting, Writing
  <2>3. Transit'
    BY <1>1, <1>3, <2>1, <2>2 DEF Transit
  <2> QED
    BY <1>2, <2>3
<1>6. CASE PushBlock
  <2>1. /\ source.blocks # <<>> /\ chan' = Append(chan, Head(source.blocks))
        /\ source'.blocks = Tail(source.blocks) /\ worker' = worker
        /\ pushed' = pushed \cup {Head(source.blocks)}
    BY <1>6 DEF PushBlock, Base, TypeOK
  <2>2. chan \in Seq(Values) /\ source.blocks \in Seq(Values)
    BY WaitingFacts
  <2>3. Waiting' = Waiting
    BY <2>1, <2>2, PushingMoves DEF Waiting
  <2>4. Writing' = Writing
    BY <2>1 DEF Writing
  <2>5. \A k \in DOMAIN chan' : chan'[k] \in pushed'
    BY <2>1, <2>2 DEF Transit
  <2>6. Transit'
    BY <1>1, <1>3, <2>1, <2>3, <2>4, <2>5 DEF Transit
  <2> QED
    BY <1>2, <2>6
<1> QED
  BY <1>4, <1>5, <1>6

(* A file with an exact or an empty header is read as data.                *)
LEMMA ExactRead ==
  ASSUME NEW f \in Files, f.header = EmptyHeader \/ Exact(f)
  PROVE  /\ Len(ReadCells(f)) = f.header.NumBlocks
         /\ \A k \in DOMAIN ReadCells(f) : ReadCells(f)[k].type = "data"
<1>1. /\ f.header.NumBlocks \in Nat /\ f.header.offAppendix \in Nat /\ f.cells \in Seq(Cells)
  BY Constants DEF Files, Header
<1>2. f.header.NumBlocks <= Len(f.cells) /\ AllData(f, f.header.NumBlocks)
  <2>1. CASE f.header = EmptyHeader
    BY <1>1, <2>1 DEF EmptyHeader, AllData
  <2>2. CASE Exact(f)
    BY <1>1, <2>2 DEF Exact
  <2> QED
    BY <2>1, <2>2
<1>3. Len(ReadCells(f)) = f.header.NumBlocks
  BY <1>1, <1>2, ReadTypes
<1> QED
  BY <1>2, <1>3, ReadTypes DEF AllData

(* Block numbers are natural numbers.                                      *)
LEMMA DataTypes ==
  ASSUME NEW f \in Files
  PROVE  DataOf(f) \subseteq Nat
<1>1. f.cells \in Seq(Cells)
  BY DEF Files
<1>2. \A k \in DOMAIN f.cells : f.cells[k] \in Cells
  BY <1>1
<1>3. \A c \in Cells : c.val \in Nat
  BY DEF Cells, Values
<1> QED
  BY <1>2, <1>3 DEF DataOf

LEMMA OpenPlaces ==
  ASSUME EnoughWorkers, Base, Base', Counts, Headings, Transit, Stored,
         OpenNewFile \/ OpenNewFileFails \/ OpenSource
  PROVE  Transit' /\ Stored'
<1>0. file \in [Paths -> Files] /\ Paths = {"current", "archive"}
  BY DEF Base, TypeOK, Files, Paths
<1>1. CASE OpenNewFile
  <2>1. /\ main = "idle" /\ session' = session + 1 /\ pushed' = pushed
        /\ file' = [file EXCEPT !["current"] = [Missing EXCEPT !.exists = TRUE, !.valid = TRUE]]
        /\ handle' = [Closed EXCEPT !.pos = 1]
    BY <1>1 DEF OpenNewFile, history
  <2>2. file'["current"].cells = <<>> /\ file'["archive"] = file["archive"] /\ handle'.path = "current"
    BY <1>0, <2>1 DEF Missing, Closed
  <2>3. PICK n \in 0 .. Quota :
           source' = [blocks |-> [k \in 1 .. n |-> session * Quota + k], stat |-> n]
    BY <1>1 DEF OpenNewFile
  <2>4. Writing' = {} /\ chan' = <<>>
    BY <1>1, OpenLoad
  <2>5. /\ Last \in Nat /\ Earlier' = Last /\ Last' = Last + Quota
    <3>1. session \in Nat /\ session' - 1 = session
      BY <2>1, Numbers
    <3>2. Earlier' = Last
      BY <3>1 DEF Earlier, Last
    <3> QED
      BY <2>1, <3>1, <3>2, Numbers, Constants DEF Last
  <2>6. DataOf(file'["current"]) = {} /\ Once(file'["current"])
    BY <2>2 DEF DataOf, Once
  <2>7. source'.blocks = [k \in 1 .. n |-> Last + k] /\ source'.blocks \in Seq(Values)
    BY <2>3 DEF Last, Base, TypeOK
  <2>8. Waiting' = source'.blocks
    BY <2>4, <2>7 DEF Waiting
  <2>9. DOMAIN Waiting' = 1 .. n /\ \A k \in 1 .. n : Waiting'[k] = Last + k
    BY <2>7, <2>8
  <2>10. \A k \in DOMAIN Waiting' : Due(Waiting[k])'
    BY <2>2, <2>5, <2>6, <2>9, Constants DEF Due
  <2>11. \A j, k \in DOMAIN Waiting' : j # k => Waiting'[j] # Waiting'[k]
    BY <2>5, <2>9
  <2>12. Transit'
    BY <2>4, <2>10, <2>11 DEF Transit
  <2>13. \A x \in DataOf(file'["archive"]) : x <= Last' /\ (FirstPass' => x <= Earlier')
    <3>1. \A x \in DataOf(file["archive"]) : x \in Nat
      BY <1>0, DataTypes
    <3> QED
      BY <2>2, <2>5, <3>1, Constants DEF Stored
  <2>14. Stored'
    BY <1>0, <2>1, <2>2, <2>6, <2>13 DEF Stored
  <2> QED
    BY <2>12, <2>14
<1>2. CASE OpenNewFileFails
  <2>1. /\ main' = "dead" /\ session' = session /\ pushed' = pushed
        /\ file' = [file EXCEPT !["current"] = [Missing EXCEPT !.exists = TRUE]]
    BY <1>2 DEF OpenNewFileFails, history
  <2>2. file'["current"].cells = <<>> /\ file'["archive"] = file["archive"]
    BY <1>0, <2>1 DEF Missing
  <2>3. DataOf(file'["current"]) = {} /\ Once(file'["current"])
    BY <2>2 DEF DataOf, Once
  <2>4. Last' = Last /\ Earlier' = Earlier /\ ~FirstPass'
    BY <2>1 DEF Last, Earlier, FirstPass, Open
  <2>5. Stored'
    BY <1>0, <2>1, <2>2, <2>3, <2>4 DEF Stored
  <2> QED
    BY <2>1, <2>5, NoTransit
<1>3. CASE OpenSource
  <2> DEFINE f == file["current"]
  <2>1. /\ main = "source" /\ Readable(f) /\ UNCHANGED <<file, handle, pushed, session>>
        /\ source'.blocks = ReadBlocks(f) /\ main' = "push"
    BY <1>3 DEF OpenSource, history, bounds
  <2>2. Writing' = {} /\ chan' = <<>>
    BY <1>3, OpenLoad
  <2>3. Waiting' = ReadBlocks(f)
    <3>1. ReadBlocks(f) \in Seq(Values)
      BY <1>0, ReadTypes
    <3> QED
      BY <2>1, <2>2, <3>1 DEF Waiting
  <2>4. \A k \in DOMAIN ReadCells(f) : ReadCells(f)[k].type = "data"
    BY <1>0, <2>1, ExactRead DEF Headings
  <2>5. /\ DOMAIN Waiting' = DOMAIN ReadCells(f)
        /\ \A k \in DOMAIN Waiting' : /\ k \in DOMAIN f.cells /\ f.cells[k].type = "data"
                                     /\ Waiting'[k] = f.cells[k].val
    BY <1>0, <2>3, <2>4, ReadTypes DEF ReadBlocks
  <2>6. \A j, k \in DOMAIN Waiting' : j # k => Waiting'[j] # Waiting'[k]
    BY <1>0, <2>5 DEF Stored, Once
  <2>7. handle.path = "archive" /\ FirstPass
    BY <2>1 DEF Base, Order, FirstPass
  <2>8. \A x \in DataOf(f) : Due(x)
    <3> SUFFICES ASSUME NEW x \in DataOf(f) PROVE Due(x)
      OBVIOUS
    <3>1. Earlier < x /\ x <= Last
      BY DEF Stored
    <3>2. Earlier \in Nat /\ x \in Nat
      <4>1. session > 0
        BY <2>1 DEF Counts
      <4>2. x \in Nat
        BY <1>0, DataTypes
      <4> QED
        BY <4>1, <4>2, Numbers
    <3>3. x \notin DataOf(file["archive"])
      BY <2>7, <3>1, <3>2 DEF Stored
    <3> QED
      BY <2>7, <3>1, <3>3 DEF Due
  <2>9. \A k \in DOMAIN Waiting' : Due(Waiting[k])'
    <3>1. \A k \in DOMAIN Waiting' : Waiting'[k] \in DataOf(f)
      BY <2>5 DEF DataOf
    <3>2. \A x : Due(x)' = Due(x)
      BY <2>1 DEF Due, Earlier, Last, DataOf
    <3> QED
      BY <2>8, <3>1, <3>2
  <2>10. Transit'
    BY <2>2, <2>6, <2>9 DEF Transit
  <2>11. Stored'
    BY <2>1, <2>7, SameStored
  <2> QED
    BY <2>10, <2>11
<1> QED
  BY <1>1, <1>2, <1>3

LEMMA ClosePlaces ==
  ASSUME EnoughWorkers, Base, Base', Stored,
         \/ WriteAppendix \/ WriteAppendixFails \/ WriteHeader \/ WriteHeaderFails
         \/ Rename \/ AppendFile \/ AppendFileFails \/ OpenSourceFails
         \/ Unlink \/ UpdateBooks \/ Crash
  PROVE  Transit' /\ Stored'
<1>0. file \in [Paths -> Files] /\ Paths = {"current", "archive"} /\ handle.path \in Paths
  BY DEF Base, TypeOK, Files, Paths
<1>1. Transit'
  <2>1. main' \notin {"push", "sync", "join"}
    BY DEF WriteAppendix, WriteAppendixFails, WriteHeader, WriteHeaderFails, AfterHeader, Rename,
      AppendFile, AppendFileFails, OpenSourceFails, Unlink, UpdateBooks, Crash
  <2> QED
    BY <2>1, NoTransit
<1>2. session' = session /\ pushed' = pushed /\ Last' = Last /\ Earlier' = Earlier
  BY DEF WriteAppendix, WriteAppendixFails, WriteHeader, WriteHeaderFails, Rename,
    AppendFile, AppendFileFails, OpenSourceFails, Unlink, UpdateBooks, Crash, history, bounds,
    Last, Earlier
<1>3. FirstPass' => FirstPass
  <2>1. CASE WriteAppendix \/ WriteAppendixFails
    <3>1. main = "appendix" /\ main' = "header" /\ handle'.path = handle.path
      BY <2>1, AppendixHandle DEF WriteAppendix, WriteAppendixFails
    <3> QED
      BY <3>1 DEF FirstPass, Open
  <2>2. CASE WriteHeader \/ WriteHeaderFails
    BY <2>2 DEF WriteHeader, WriteHeaderFails, AfterHeader, FirstPass, Open
  <2>3. CASE AppendFile
    BY <2>3 DEF AppendFile, FirstPass
  <2>4. CASE \/ Rename \/ AppendFileFails \/ OpenSourceFails \/ Unlink \/ UpdateBooks \/ Crash
    <3>1. main' \in {"book", "idle"}
      BY <2>4 DEF Rename, AppendFileFails, OpenSourceFails, Unlink, UpdateBooks, Crash
    <3> QED
      BY <3>1 DEF FirstPass, Open
  <2> QED
    BY <2>1, <2>2, <2>3, <2>4
<1>4. CASE WriteAppendixFails \/ WriteHeaderFails \/ AppendFileFails \/ OpenSourceFails \/ UpdateBooks
  <2>1. file' = file
    BY <1>4 DEF WriteAppendixFails, WriteHeaderFails, AppendFileFails, OpenSourceFails, UpdateBooks
  <2> QED
    BY <1>1, <1>2, <1>3, <2>1, SameStored
<1>5. CASE WriteAppendix
  <2> DEFINE p == handle.path
             c == Appendix(handle.stat)
  <2>1. file' = [file EXCEPT ![p] = Extended(@, c)] /\ c \in Cells /\ c.type # "data"
    BY <1>5, AppendixAppends DEF Appendix
  <2>2. file'[p] = Extended(file[p], c) /\ \A q \in Paths \ {p} : file'[q] = file[q]
    BY <1>0, <2>1
  <2>3. \A q \in Paths : DataOf(file'[q]) = DataOf(file[q]) /\ Once(file'[q])
    BY <1>0, <2>1, <2>2, ExtendedData DEF Stored
  <2>4. Stored'
    BY <1>0, <1>2, <1>3, <2>3 DEF Stored
  <2> QED
    BY <1>1, <2>4
<1>6. CASE WriteHeader
  <2>1. /\ \A q \in Paths \ {handle.path} : file'[q] = file[q]
        /\ file'[handle.path].cells = file[handle.path].cells
    BY <1>6, HeaderWritten
  <2>2. \A q \in Paths : file'[q].cells = file[q].cells
    BY <1>0, <2>1
  <2>3. \A q \in Paths : DataOf(file'[q]) = DataOf(file[q]) /\ Once(file'[q])
    BY <2>2 DEF Stored, DataOf, Once
  <2>4. Stored'
    BY <1>0, <1>2, <1>3, <2>3 DEF Stored
  <2> QED
    BY <1>1, <2>4
<1>7. CASE Rename \/ Unlink \/ Crash
  <2>1. /\ file'["archive"] = file["archive"] \/ file'["archive"] = file["current"]
        /\ file'["current"] = Missing
    BY <1>0, <1>7 DEF Rename, Unlink, Crash
  <2>2. DataOf(Missing) = {} /\ Once(Missing)
    BY DEF DataOf, Once, Missing
  <2>3. ~FirstPass'
    BY <1>7 DEF Rename, Unlink, Crash, FirstPass, Open
  <2>4. Stored'
    BY <1>0, <1>2, <2>1, <2>2, <2>3 DEF Stored
  <2> QED
    BY <1>1, <2>4
<1>8. CASE AppendFile
  <2> DEFINE f == file["archive"]
  <2>1. /\ Readable(f) /\ file'["current"] = file["current"] /\ file'["archive"].cells = Cut(f)
    BY <1>8, AppendOpened
  <2>2. \A k \in DOMAIN file'["archive"].cells : k \in DOMAIN f.cells /\ file'["archive"].cells[k] = f.cells[k]
    <3>1. /\ Cut(f) \in Seq(Cells)
          /\ \A k \in 1 .. Len(Cut(f)) : k \in DOMAIN f.cells /\ Cut(f)[k] = f.cells[k]
      BY <1>0, <2>1, CutFacts DEF Base, Headers
    <3> QED
      BY <2>1, <3>1
  <2>3. DataOf(file'["archive"]) \subseteq DataOf(f) /\ (Once(f) => Once(file'["archive"]))
    BY <2>2, PartData
  <2>4. Stored'
    BY <1>0, <1>2, <1>3, <2>1, <2>3 DEF Stored
  <2> QED
    BY <1>1, <2>4
<1> QED
  BY <1>4, <1>5, <1>6, <1>7, <1>8

LEMMA StepPlaces ==
  ASSUME EnoughWorkers, Base, Base', Counts, Headings, Transit, Stored, [Next]_vars
  PROVE  Transit' /\ Stored'
<1>1. CASE UNCHANGED vars
  BY <1>1 DEF vars, queue, history, bounds, Transit, Stored, Writing, Waiting, Due, Last, Earlier,
    DataOf, Once, FirstPass, Open
<1>2. CASE Next
  BY <1>1, <1>2, WriterPlaces, OpenPlaces, FlushPlaces, ClosePlaces
     DEF Next, Owner, Finished, Stuck
<1> QED
  BY <1>1, <1>2

LEMMA InitPlaces == Init => Transit /\ Stored
<1> SUFFICES ASSUME Init PROVE Transit /\ Stored
  OBVIOUS
<1>1. Writing = {} /\ Waiting = <<>> /\ chan = <<>>
  BY DEF Init, Writing, Idle, NoThread, Waiting, NoSource
<1>2. \A p \in Paths : DataOf(file[p]) = {} /\ Once(file[p])
  BY DEF Init, DataOf, Once, Missing
<1> QED
  BY <1>1, <1>2 DEF Transit, Stored, Paths

(* What the steps of a rotation keep to, faults and crashes included.      *)
Safe == Base /\ Counts /\ Headings /\ Transit /\ Stored

LEMMA InitSafe == Init => Safe
  BY InitBase, InitCounts, InitHeadings, InitPlaces DEF Safe

LEMMA StepSafe ==
  ASSUME EnoughWorkers, Safe, [Next]_vars
  PROVE  Safe'
<1>1. Base'
  BY StepBase DEF Safe
<1> QED
  BY <1>1, StepCounts, StepHeadings, StepPlaces DEF Safe

LEMMA SafeReaders ==
  ASSUME Safe
  PROVE  ReadersGetCollectedBlocks
<1> SUFFICES ASSUME NoHeaderFault, NEW p \in Paths, Readable(file[p])
             PROVE  LET r == ReadCells(file[p])
                    IN  /\ \A k \in DOMAIN r : r[k].type = "data" /\ r[k].val \in pushed
                        /\ \A j, k \in DOMAIN r : j # k => r[j] # r[k]
  BY DEF ReadersGetCollectedBlocks, NoHeaderFault
<1> DEFINE f == file[p]
           r == ReadCells(f)
<1>1. f \in Files
  BY DEF Safe, Base, TypeOK, Files
<1>2. f.header = EmptyHeader \/ Exact(f)
  <2>1. CASE p = "current"
    BY <2>1 DEF Safe, Headings
  <2>2. CASE p = "archive"
    BY <2>2 DEF Safe, Headings, Usable
  <2> QED
    BY <2>1, <2>2 DEF Paths
<1>3. \A k \in DOMAIN r : /\ k \in DOMAIN f.cells /\ r[k] = f.cells[k]
                          /\ f.cells[k].type = "data"
  BY <1>1, <1>2, ReadTypes, ExactRead
<1>4. DataOf(f) \subseteq pushed /\ Once(f)
  BY DEF Safe, Stored
<1>5. \A k \in DOMAIN r : r[k].type = "data" /\ r[k].val \in pushed
  BY <1>3, <1>4 DEF DataOf
<1>6. \A j, k \in DOMAIN r : j # k => r[j].val # r[k].val
  BY <1>3, <1>4 DEF Once
<1>7. \A j, k \in DOMAIN r : j # k => r[j] # r[k]
  BY <1>6
<1> QED
  BY <1>5, <1>7

(* Whatever writes fail and whenever the process dies, a file that can be  *)
(* read holds whole data blocks that were collected, each once, as long as *)
(* every header could be rewritten (nfwrite, WriteAppendix, AppendFile,    *)
(* RenameAppend, nfreader).                                                *)
THEOREM ReadersGetData ==
  ASSUME EnoughWorkers
  PROVE  Spec => []ReadersGetCollectedBlocks
<1>1. Init => Safe
  BY InitSafe
<1>2. Safe /\ [Next]_vars => Safe'
  BY StepSafe
<1>3. Safe => ReadersGetCollectedBlocks
  BY SafeReaders
<1> QED
  BY <1>1, <1>2, <1>3, PTL DEF Spec

-------------------------------------------------------------------------------
(* What was ever in the archive stays there                                *)

Front(f, n) == {f.cells[k].val : k \in 1 .. n}

(* the header counts blocks that are there, and in front of the appendix   *)
Solid(f) ==
    /\ f.header.NumBlocks <= Len(f.cells)
    /\ f.header.offAppendix > 0 => f.header.NumBlocks < f.header.offAppendix

(* The header in memory counts all that the header on disk does.           *)
Kept ==
    LET f == file["archive"]
        n == handle.header.NumBlocks
    IN  /\ ~f.exists => archived = {}
        /\ Usable => Solid(f) /\ archived \subseteq Front(f, f.header.NumBlocks)
        /\ Appending /\ Open => f.header.NumBlocks <= n /\ n <= Len(f.cells)
        /\ Appending /\ main = "header" =>
              Torn \/ (f.header.NumBlocks < n /\ n <= Len(f.cells))

LEMMA SolidContent ==
  ASSUME NEW f \in Files
  PROVE  /\ f.header.NumBlocks \in Nat /\ f.header.offAppendix \in Nat /\ Len(f.cells) \in Nat
         /\ Readable(f) /\ Solid(f) => Content(f) = Front(f, f.header.NumBlocks)
         /\ ~Readable(f) => Content(f) = {}
<1>1. f.header.NumBlocks \in Nat /\ f.header.offAppendix \in Nat /\ Len(f.cells) \in Nat
  BY Constants DEF Files, Header
<1>2. ASSUME Readable(f), Solid(f) PROVE Content(f) = Front(f, f.header.NumBlocks)
  <2> DEFINE r == ReadCells(f)
             n == f.header.NumBlocks
  <2>1. DOMAIN r = 1 .. n /\ \A k \in 1 .. n : r[k] = f.cells[k]
    BY <1>1, <1>2, ReadTypes DEF Solid
  <2> HIDE DEF n
  <2>2. Content(f) = {c.val : c \in {r[k] : k \in DOMAIN r}}
    BY <1>2 DEF Content
  <2> HIDE DEF r
  <2>3. {c.val : c \in {r[k] : k \in DOMAIN r}} = Front(f, n)
    BY <2>1 DEF Front
  <2> QED
    BY <2>2, <2>3 DEF n
<1> QED
  BY <1>1, <1>2 DEF Content

LEMMA ExtendedKept ==
  ASSUME NEW f \in Files, NEW c \in Cells, Solid(f)
  PROVE  /\ Solid(Extended(f, c))
         /\ Front(Extended(f, c), f.header.NumBlocks) = Front(f, f.header.NumBlocks)
<1>1. f.header.NumBlocks \in Nat /\ Len(f.cells) \in Nat /\ f.header.NumBlocks <= Len(f.cells)
  BY SolidContent DEF Solid
<1>2. Solid(Extended(f, c))
  BY <1>1, ExtendedFacts DEF Solid
<1>3. \A k \in 1 .. f.header.NumBlocks : Extended(f, c).cells[k] = f.cells[k]
  BY <1>1, ExtendedFacts
<1> QED
  BY <1>2, <1>3 DEF Front

LEMMA SameKept ==
  ASSUME Kept, file'["archive"] = file["archive"], archived' = archived, Usable' => Usable,
         Appending' /\ (Open' \/ main' = "header") =>
             /\ handle'.header = handle.header /\ handle'.path = handle.path
             /\ Open' => Open
             /\ main' = "header" => main = "header"
  PROVE  Kept'
<1>1. Appending' /\ Open' => Appending /\ Open /\ handle'.header = handle.header
  BY DEF Appending
<1>2. Appending' /\ main' = "header" =>
         Appending /\ main = "header" /\ handle'.header = handle.header /\ (Torn' <=> Torn)
  BY DEF Appending, Torn
<1> QED
  BY <1>1, <1>2 DEF Kept

LEMMA WriterKept ==
  ASSUME Base, Counts, Kept, NEW s \in Slots, Writer(s) \/ WriterFails(s)
  PROVE  Kept'
<1>1. ASSUME WriterPop(s) \/ WriterExit(s) \/ WriterFails(s) PROVE Kept'
  <2>1. UNCHANGED <<file, handle, main, archived>>
    BY <1>1 DEF WriterPop, WriterExit, WriterFails, history
  <2>2. (Usable' <=> Usable) /\ (Open' <=> Open)
    BY <2>1 DEF Usable, Appending, Open
  <2> QED
    BY <2>1, <2>2, SameKept
<1>2. ASSUME WriterWrite(s) PROVE Kept'
  <2> DEFINE p == handle.path
             c == Data(worker[s].block)
             f == file["archive"]
  <2>1. /\ p \in Paths /\ main \in {"push", "sync", "join"} /\ c \in Cells
        /\ file' = [file EXCEPT ![p] = Extended(@, c)]
    BY <1>2, WriteAppends
  <2>2. file \in [Paths -> Files] /\ Paths = {"current", "archive"}
    BY DEF Base, TypeOK, Files, Paths
  <2>3. file'[p] = Extended(file[p], c) /\ \A q \in Paths \ {p} : file'[q] = file[q]
    BY <2>1, <2>2
  <2>4. /\ handle' = [handle EXCEPT !.pos = @ + 1, !.header = AddBlock(@)]
        /\ UNCHANGED <<main, archived>>
    BY <1>2 DEF WriterWrite, history
  <2>5. handle'.path = p /\ handle'.header = AddBlock(handle.header)
    <3>1. handle \in [path : Paths, pos : Nat, header : Header, stat : Nat]
      BY DEF Base, TypeOK
    <3> DEFINE h == AddBlock(handle.header)
    <3>2. handle' = [handle EXCEPT !.pos = @ + 1, !.header = h]
      BY <2>4
    <3> HIDE DEF h
    <3>3. handle'.path = p /\ handle'.header = h
      BY <3>1, <3>2
    <3> QED
      BY <3>3 DEF h
  <2>6. Open /\ Open' /\ main' # "header"
    BY <2>1, <2>4 DEF Open
  <2>7. CASE p = "current"
    <3>1. file'["archive"] = f
      BY <2>2, <2>3, <2>7
    <3>2. ~Appending' /\ (Usable' => Usable)
      BY <2>5, <2>7, <3>1 DEF Appending, Usable
    <3> QED
      BY <2>4, <3>1, <3>2, SameKept
  <2>8. CASE p = "archive"
    <3>1. Appending /\ Usable /\ Solid(f)
      BY <2>6, <2>8 DEF Appending, Usable, Kept
    <3>2. /\ handle'.header.NumBlocks = handle.header.NumBlocks + 1
          /\ handle.header.NumBlocks \in Nat
      BY <2>5, <2>6, NoWrap
    <3>3. file'["archive"] = Extended(f, c) /\ f \in Files
      BY <2>2, <2>3, <2>8
    <3>4. /\ file'["archive"].header = f.header /\ file'["archive"].exists = f.exists
          /\ Len(file'["archive"].cells) = Len(f.cells) + 1
      BY <2>1, <3>3, ExtendedFacts
    <3>5. /\ Solid(file'["archive"])
          /\ Front(file'["archive"], f.header.NumBlocks) = Front(f, f.header.NumBlocks)
      BY <2>1, <3>1, <3>3, ExtendedKept
    <3>6. f.header.NumBlocks \in Nat /\ Len(f.cells) \in Nat
      BY <3>3, SolidContent
    <3>7. f.header.NumBlocks <= handle'.header.NumBlocks
          /\ handle'.header.NumBlocks <= Len(file'["archive"].cells)
      BY <2>6, <3>1, <3>2, <3>4, <3>6 DEF Kept
    <3> QED
      BY <2>4, <2>6, <3>1, <3>4, <3>5, <3>7 DEF Kept
  <2> QED
    BY <2>1, <2>2, <2>7, <2>8
<1> QED
  BY <1>1, <1>2 DEF Writer

LEMMA OwnerKept ==
  ASSUME Base, Kept,
         \/ OpenNewFile \/ OpenNewFileFails
         \/ PushBlock \/ StartFlush \/ QueueSync \/ JoinWriters
         \/ AppendFileFails \/ OpenSource \/ OpenSourceFails \/ Unlink \/ UpdateBooks \/ Crash
  PROVE  Kept'
<1>0. file \in [Paths -> Files] /\ Paths = {"current", "archive"}
  BY DEF Base, TypeOK, Files, Paths
<1>1. archived' = archived
  BY DEF OpenNewFile, OpenNewFileFails, PushBlock, StartFlush, QueueSync, JoinWriters,
    AppendFileFails, OpenSource, OpenSourceFails, Unlink, UpdateBooks, Crash, history
<1>2. file'["archive"] = file["archive"]
  BY <1>0 DEF OpenNewFile, OpenNewFileFails, PushBlock, StartFlush, QueueSync, JoinWriters,
    AppendFileFails, OpenSource, OpenSourceFails, Unlink, UpdateBooks, Crash
<1>3. CASE PushBlock \/ StartFlush \/ QueueSync \/ JoinWriters \/ OpenSource
  <2>1. handle'.header = handle.header /\ handle'.path = handle.path
    BY <1>3 DEF PushBlock, StartFlush, QueueSync, JoinWriters, OpenSource, Base, TypeOK
  <2>2. Open /\ Open' /\ main' # "header"
    BY <1>3 DEF PushBlock, StartFlush, QueueSync, JoinWriters, OpenSource, Open
  <2>3. Usable' => Usable
    BY <1>2, <2>1, <2>2 DEF Usable, Appending
  <2> QED
    BY <1>1, <1>2, <2>1, <2>2, <2>3, SameKept
<1>4. CASE \/ OpenNewFile \/ OpenNewFileFails \/ AppendFileFails \/ OpenSourceFails
           \/ Unlink \/ UpdateBooks \/ Crash
  <2>1. \/ main' \in {"dead", "idle", "book"}
        \/ handle' = [Closed EXCEPT !.pos = 1]
    BY <1>4 DEF OpenNewFile, OpenNewFileFails, AppendFileFails, OpenSourceFails, Unlink,
      UpdateBooks, Crash
  <2>2. ~Appending'
    BY <2>1 DEF Appending, Open, Closed
  <2>3. Usable' => Usable
    BY <1>2, <2>2 DEF Usable
  <2> QED
    BY <1>1, <1>2, <2>2, <2>3, SameKept
<1> QED
  BY <1>3, <1>4

LEMMA AppendixKept ==
  ASSUME Base, Counts, Kept, WriteAppendix \/ WriteAppendixFails
  PROVE  Kept'
<1> DEFINE p == handle.path
           c == Appendix(handle.stat)
           f == file["archive"]
<1>0. file \in [Paths -> Files] /\ Paths = {"current", "archive"} /\ p \in Paths
  BY DEF Base, TypeOK, Files, Paths
<1>1. /\ main = "appendix" /\ main' = "header" /\ archived' = archived /\ Open /\ ~Open'
  BY DEF WriteAppendix, WriteAppendixFails, history, Open
<1>2. handle'.path = p
  BY AppendixHandle
<1>3. CASE WriteAppendixFails
  <2>1. file' = file /\ Torn'
    BY <1>3, <1>2, AppendixHandle DEF WriteAppendixFails, Torn, EndOfFile
  <2>2. Usable' => Usable
    BY <1>1, <1>2, <2>1 DEF Usable, Appending
  <2> QED
    BY <1>1, <2>1, <2>2 DEF Kept
<1>4. CASE WriteAppendix
  <2>1. file' = [file EXCEPT ![p] = Extended(@, c)] /\ c \in Cells
    BY <1>4, AppendixAppends
  <2>2. CASE p = "current"
    <3>1. file'["archive"] = f /\ ~Appending'
      BY <1>0, <1>2, <2>1, <2>2 DEF Appending
    <3>2. Usable' => Usable
      BY <3>1 DEF Usable
    <3> QED
      BY <1>1, <3>1, <3>2, SameKept
  <2>3. CASE p = "archive"
    <3>1. Appending /\ Usable /\ Solid(f)
      BY <1>1, <2>3 DEF Appending, Usable, Kept
    <3>2. /\ handle'.header.NumBlocks = handle.header.NumBlocks + 1
          /\ handle.header.NumBlocks \in Nat
      BY <1>1, <1>4, AppendixHandle, NoWrap
    <3>3. file'["archive"] = Extended(f, c) /\ f \in Files
      BY <1>0, <2>1, <2>3
    <3>4. /\ file'["archive"].header = f.header /\ file'["archive"].exists = f.exists
          /\ Len(file'["archive"].cells) = Len(f.cells) + 1
      BY <2>1, <3>3, ExtendedFacts
    <3>5. /\ Solid(file'["archive"])
          /\ Front(file'["archive"], f.header.NumBlocks) = Front(f, f.header.NumBlocks)
      BY <2>1, <3>1, <3>3, ExtendedKept
    <3>6. f.header.NumBlocks \in Nat /\ Len(f.cells) \in Nat
      BY <3>3, SolidContent
    <3>7. f.header.NumBlocks < handle'.header.NumBlocks
          /\ handle'.header.NumBlocks <= Len(file'["archive"].cells)
      BY <1>1, <3>1, <3>2, <3>4, <3>6 DEF Kept
    <3> QED
      BY <1>1, <3>1, <3>4, <3>5, <3>7 DEF Kept
  <2> QED
    BY <1>0, <2>2, <2>3
<1> QED
  BY <1>3, <1>4

LEMMA HeaderKept ==
  ASSUME Base, Counts, Kept, WriteHeader \/ WriteHeaderFails
  PROVE  Kept'
<1> DEFINE p == handle.path
           f == file["archive"]
           g == file'["archive"]
<1>0. /\ file \in [Paths -> Files] /\ Paths = {"current", "archive"} /\ p \in Paths
      /\ f \in Files
  BY DEF Base, TypeOK, Files, Paths
<1>1. main = "header" /\ main' \in {"rename", "unlink"} /\ ~Appending' /\ ~Open'
  BY DEF WriteHeader, WriteHeaderFails, AfterHeader, Appending, Open
<1>2. CASE WriteHeaderFails
  <2>1. file' = file /\ archived' = archived
    BY <1>2 DEF WriteHeaderFails, history
  <2>2. Usable' => Usable
    BY <1>1, <2>1 DEF Usable
  <2> QED
    BY <1>1, <2>1, <2>2, SameKept
<1>3. CASE WriteHeader
  <2>1. archived' = archived \cup Content(g)
    BY <1>3 DEF WriteHeader, NoteArchived
  <2>2. CASE p = "current"
    <3>1. g = f
      BY <1>0, <1>3, <2>2, HeaderWritten
    <3>2. Usable' => Usable /\ Readable(f)
      BY <1>1, <3>1 DEF Usable
    <3>3. Readable(f) => f.exists /\ Usable /\ Content(f) = Front(f, f.header.NumBlocks)
      BY <1>0, SolidContent DEF Kept, Readable, Usable
    <3>4. ~Readable(f) => archived' = archived
      BY <1>0, <2>1, <3>1, SolidContent
    <3> QED
      BY <1>1, <2>1, <3>1, <3>2, <3>3, <3>4 DEF Kept
  <2>3. CASE p = "archive"
    <3>1. g \in Files /\ g.header = Closing /\ g.cells = f.cells /\ g.exists = f.exists
      BY <1>0, <1>3, <2>3, HeaderWritten
    <3>2. /\ Usable /\ Solid(f) /\ archived \subseteq Front(f, f.header.NumBlocks)
          /\ Torn \/ (f.header.NumBlocks < handle.header.NumBlocks
                       /\ handle.header.NumBlocks <= Len(f.cells))
      BY <1>1, <2>3 DEF Usable, Appending, Kept
    <3>3. /\ Closing.offAppendix = handle.header.offAppendix /\ Closing.appendixBlocks = 1
          /\ handle.header.NumBlocks > 0 => Closing.NumBlocks = handle.header.NumBlocks - 1
      BY <1>1, ClosingHeader DEF Counts
    <3>4. /\ f.header.NumBlocks \in Nat /\ Len(f.cells) \in Nat
          /\ handle.header.NumBlocks \in Nat
      <4>1. f.header.NumBlocks \in Nat /\ Len(f.cells) \in Nat
        BY <1>0, SolidContent
      <4> QED
        BY <1>0, <4>1, HandleCount DEF Base
    <3>5. ASSUME Readable(g)
          PROVE  Solid(g) /\ Front(f, f.header.NumBlocks) \subseteq Front(g, g.header.NumBlocks)
      <4>1. handle.header.offAppendix < Len(f.cells) + 1
        BY <3>1, <3>3, <3>5 DEF Readable, EndOfFile
      <4>2. ~Torn
        BY <2>3, <3>4, <4>1 DEF Torn
      <4>3. /\ handle.header.offAppendix = Len(f.cells)
            /\ f.header.NumBlocks < handle.header.NumBlocks
            /\ handle.header.NumBlocks <= Len(f.cells)
        BY <1>1, <2>3, <3>2, <4>2 DEF Counts, Whole
      <4>4. g.header.NumBlocks = handle.header.NumBlocks - 1
            /\ g.header.offAppendix = handle.header.offAppendix
        BY <3>1, <3>3, <3>4, <4>3
      <4>5. Solid(g)
        BY <3>1, <3>4, <4>3, <4>4 DEF Solid
      <4>6. \A k \in 1 .. f.header.NumBlocks : k \in 1 .. g.header.NumBlocks
        BY <3>4, <4>3, <4>4
      <4> QED
        BY <3>1, <4>5, <4>6 DEF Front
    <3>6. Usable' => Readable(g)
      BY <1>1 DEF Usable
    <3>7. Readable(g) => g.exists /\ Content(g) = Front(g, g.header.NumBlocks)
      BY <3>1, <3>5, SolidContent DEF Readable
    <3>8. ~Readable(g) => archived' = archived
      BY <2>1, <3>1, SolidContent
    <3> QED
      BY <1>1, <2>1, <3>1, <3>2, <3>5, <3>6, <3>7, <3>8 DEF Kept
  <2> QED
    BY <1>0, <2>2, <2>3
<1> QED
  BY <1>2, <1>3

LEMMA RotateKept ==
  ASSUME EnoughWorkers, Base, Headings, Kept, Rename \/ AppendFile
  PROVE  Kept'
<1> DEFINE f == file["archive"]
           g == file'["archive"]
<1>0. file \in [Paths -> Files] /\ Paths = {"current", "archive"} /\ f \in Files
  BY DEF Base, TypeOK, Files, Paths
<1>1. CASE Rename
  <2> DEFINE c == file["current"]
  <2>1. /\ main' = "book" /\ ~f.exists /\ archived' = archived \cup Content(g)
        /\ file' = [file EXCEPT !["archive"] = file["current"], !["current"] = Missing]
    BY <1>1 DEF Rename, NoteArchived
  <2>2. g = c /\ c \in Files /\ archived = {}
    BY <1>0, <2>1 DEF Kept
  <2>3. ~Open' /\ ~Appending' /\ main' # "header"
    BY <2>1 DEF Open, Appending
  <2>4. Usable' => Readable(c)
    BY <2>2, <2>3 DEF Usable
  <2>5. ASSUME Readable(c) PROVE Solid(c)
    <3>1. c.header = EmptyHeader \/ Exact(c)
      BY <2>5 DEF Headings
    <3>2. /\ c.header.NumBlocks \in Nat /\ c.header.offAppendix \in Nat /\ Len(c.cells) \in Nat
      BY <2>2, SolidContent
    <3>3. CASE c.header = EmptyHeader
      BY <3>2, <3>3 DEF Solid, EmptyHeader
    <3>4. CASE Exact(c)
      BY <3>2, <3>4 DEF Solid, Exact
    <3> QED
      BY <3>1, <3>3, <3>4
  <2>6. archived' = Content(c)
    BY <2>1, <2>2
  <2>7. Readable(c) => c.exists /\ Content(c) = Front(c, c.header.NumBlocks)
    BY <2>2, <2>5, SolidContent DEF Readable
  <2>8. ~c.exists => Content(c) = {}
    BY <2>2, SolidContent DEF Readable
  <2> QED
    BY <2>2, <2>3, <2>4, <2>5, <2>6, <2>7, <2>8 DEF Kept
<1>2. CASE AppendFile
  <2>1. /\ main' = "source" /\ Readable(f) /\ handle'.header = f.header
        /\ g.header = f.header /\ g.cells = Cut(f) /\ g.exists = f.exists
    BY <1>2, AppendOpened
  <2>2. archived' = archived
    BY <1>2 DEF AppendFile, history
  <2>3. /\ Cut(f) \in Seq(Cells)
        /\ \A k \in 1 .. Len(Cut(f)) : k \in DOMAIN f.cells /\ Cut(f)[k] = f.cells[k]
        /\ f.header.offAppendix > 0 => Len(Cut(f)) = f.header.offAppendix - 1
        /\ f.header.offAppendix = 0 => Cut(f) = f.cells
    BY <1>0, <2>1, CutFacts DEF Base, Headers
  <2>4. Solid(f) /\ archived \subseteq Front(f, f.header.NumBlocks)
    BY <2>1 DEF Kept, Usable
  <2>5. f.header.NumBlocks \in Nat /\ f.header.offAppendix \in Nat /\ Len(f.cells) \in Nat
    BY <1>0, SolidContent
  <2>6. f.header.NumBlocks <= Len(Cut(f)) /\ Len(Cut(f)) \in Nat
    BY <2>3, <2>4, <2>5 DEF Solid
  <2>7. Solid(g)
    BY <2>1, <2>4, <2>6 DEF Solid
  <2>8. Front(g, g.header.NumBlocks) = Front(f, f.header.NumBlocks)
    <3>1. \A k \in 1 .. f.header.NumBlocks : g.cells[k] = f.cells[k]
      BY <2>1, <2>3, <2>5, <2>6
    <3> QED
      BY <2>1, <3>1 DEF Front
  <2>9. main' # "header" /\ f.exists
    BY <2>1 DEF Readable
  <2> QED
    BY <2>1, <2>2, <2>4, <2>5, <2>6, <2>7, <2>8, <2>9 DEF Kept
<1> QED
  BY <1>1, <1>2

LEMMA StepKept ==
  ASSUME EnoughWorkers, Base, Counts, Headings, Kept, [Next]_vars
  PROVE  Kept'
<1>1. CASE UNCHANGED vars
  <2>1. UNCHANGED <<file, handle, main, archived>>
    BY <1>1 DEF vars, history
  <2>2. (Usable' <=> Usable) /\ (Open' <=> Open)
    BY <2>1 DEF Usable, Appending, Open
  <2> QED
    BY <2>1, <2>2, SameKept
<1>2. CASE Next
  BY <1>1, <1>2, WriterKept, OwnerKept, AppendixKept, HeaderKept, RotateKept
     DEF Next, Owner, Finished, Stuck
<1> QED
  BY <1>1, <1>2

LEMMA InitKept == Init => Kept
  BY DEF Init, Kept, Usable, Appending, Open, Readable, Missing, Closed, Paths

(* A file whose appendix is cut off ends where it was.                     *)
Vals(f) == {f.cells[k].val : k \in DOMAIN f.cells}
InBounds(f) == f.exists => f.valid /\ f.header.offAppendix <= EndOfFile(f)
Harmed == crashes > 0 \/ faults["appendix"] > 0
Filling == handle.path = "archive" /\ Open

(* What the archive is refused for, and that its blocks are there still.   *)
Refused ==
    LET f == file["archive"]
        c == file["current"]
    IN  /\ archived \subseteq Vals(f)
        /\ InBounds(f)
        /\ FirstPass => c.exists /\ InBounds(c)
        /\ f.exists => Readable(f) \/ Filling \/ Harmed
        /\ main = "header" /\ Torn => Harmed
        /\ main \in {"rename", "source"} => Readable(c) \/ Harmed

LEMMA FileLengths ==
  ASSUME NEW f \in Files
  PROVE  /\ Len(f.cells) \in Nat /\ f.header.offAppendix \in Nat /\ DOMAIN f.cells = 1 .. Len(f.cells)
         /\ EndOfFile(f) = Len(f.cells) + 1
  BY HeaderTypes DEF Files, EndOfFile

LEMMA ExtendedSound ==
  ASSUME NEW f \in Files, NEW c \in Cells, InBounds(f)
  PROVE  /\ InBounds(Extended(f, c)) /\ Vals(f) \subseteq Vals(Extended(f, c))
         /\ Extended(f, c).exists = f.exists
         /\ f.exists => Readable(Extended(f, c))
<1> DEFINE g == Extended(f, c)
<1>1. g \in Files
  BY WriteAtEnd
<1>2. /\ g.header = f.header /\ g.exists = f.exists /\ g.valid = f.valid
      /\ Len(g.cells) = Len(f.cells) + 1
      /\ \A k \in 1 .. Len(f.cells) : g.cells[k] = f.cells[k]
  BY ExtendedFacts
<1> HIDE DEF g
<1>3. /\ Len(f.cells) \in Nat /\ f.header.offAppendix \in Nat
      /\ DOMAIN f.cells = 1 .. Len(f.cells) /\ EndOfFile(f) = Len(f.cells) + 1
      /\ DOMAIN g.cells = 1 .. Len(g.cells) /\ EndOfFile(g) = Len(g.cells) + 1
  BY <1>1, FileLengths
<1>4. InBounds(g) /\ (f.exists => Readable(g))
  BY <1>2, <1>3 DEF InBounds, Readable
<1>5. Vals(f) \subseteq Vals(g)
  <2> SUFFICES ASSUME NEW k \in DOMAIN f.cells
               PROVE  k \in DOMAIN g.cells /\ g.cells[k] = f.cells[k]
    BY DEF Vals
  <2> QED
    BY <1>2, <1>3
<1> QED
  BY <1>2, <1>4, <1>5 DEF g

(* What a reader gets is in the file.                                      *)
LEMMA ContentInFile ==
  ASSUME NEW f \in Files
  PROVE  Content(f) \subseteq Vals(f)
<1> DEFINE r == ReadCells(f)
<1>1. \A k \in DOMAIN r : k \in DOMAIN f.cells /\ r[k] = f.cells[k]
  BY ReadTypes, FileLengths
<1>2. Content(f) \subseteq {c.val : c \in {r[k] : k \in DOMAIN r}}
  BY DEF Content
<1> HIDE DEF r
<1> QED
  BY <1>1, <1>2 DEF Vals

LEMMA HarmStays ==
  ASSUME Base, [Next]_vars, Harmed
  PROVE  Harmed'
<1>1. crashes \in Nat /\ faults \in [Calls -> Nat] /\ "appendix" \in Calls
  BY FlowFileAssumption DEF Base, TypeOK, Calls
<1>2. CASE UNCHANGED <<faults, crashes>>
  BY <1>2 DEF Harmed
<1>3. CASE crashes' = crashes + 1 /\ faults' = faults
  BY <1>1, <1>3 DEF Harmed
<1>4. ASSUME NEW c \in Calls, Fault(c), crashes' = crashes PROVE Harmed'
  <2>1. faults' = [faults EXCEPT ![c] = @ + 1]
    BY <1>4 DEF Fault
  <2>2. faults'["appendix"] = IF c = "appendix" THEN faults[c] + 1 ELSE faults["appendix"]
    BY <1>1, <2>1
  <2> QED
    BY <1>1, <1>4, <2>2 DEF Harmed
<1>5. \/ UNCHANGED <<faults, crashes>>
      \/ crashes' = crashes + 1 /\ faults' = faults
      \/ \E c \in Calls : Fault(c) /\ crashes' = crashes
  <2>1. CASE \E s \in Slots : Writer(s) \/ WriterFails(s)
    BY <2>1 DEF Writer, WriterPop, WriterExit, WriterWrite, WriterFails, bounds, Calls
  <2>2. CASE OpenNewFile \/ OpenNewFileFails \/ WriteAppendixFails \/ WriteHeaderFails \/ Crash
    BY <2>2 DEF OpenNewFile, OpenNewFileFails, WriteAppendixFails, WriteHeaderFails, Crash, Calls
  <2>3. CASE Owner
    BY <2>3 DEF Owner, PushBlock, StartFlush, QueueSync, JoinWriters, WriteAppendix, WriteHeader,
      Rename, AppendFile, AppendFileFails, OpenSource, OpenSourceFails, Unlink, UpdateBooks, bounds
  <2>4. CASE UNCHANGED vars
    BY <2>4 DEF vars, bounds
  <2> QED
    BY <2>1, <2>2, <2>3, <2>4 DEF Next, Finished, Stuck
<1> QED
  BY <1>2, <1>3, <1>4, <1>5

(* Steps that leave the files alone, and do not end the append.            *)
LEMMA SameRefused ==
  ASSUME Refused, Harmed => Harmed', file' = file, archived' = archived,
         FirstPass' => FirstPass, Filling => Filling' \/ Harmed',
         main' = "header" => Harmed' \/ (main = "header" /\ UNCHANGED handle),
         main' \in {"rename", "source"} => main' = main
  PROVE  Refused'
<1>1. main' = "header" /\ Torn' => Harmed'
  <2>1. CASE main' = "header" /\ ~Harmed'
    BY <2>1 DEF Refused, Torn
  <2> QED
    BY <2>1
<1> QED
  BY <1>1 DEF Refused

LEMMA WriterRefused ==
  ASSUME Base, Refused, Harmed => Harmed', NEW s \in Slots, Writer(s) \/ WriterFails(s)
  PROVE  Refused'
<1>1. ASSUME WriterPop(s) \/ WriterExit(s) \/ WriterFails(s) PROVE Refused'
  <2>1. UNCHANGED <<file, handle, main, archived>>
    BY <1>1 DEF WriterPop, WriterExit, WriterFails, history
  <2>2. (FirstPass' <=> FirstPass) /\ (Filling' <=> Filling)
    BY <2>1 DEF FirstPass, Filling, Open
  <2> QED
    BY <2>1, <2>2, SameRefused
<1>2. ASSUME WriterWrite(s) PROVE Refused'
  <2> DEFINE p == handle.path
             c == Data(worker[s].block)
  <2>1. /\ p \in Paths /\ main \in {"push", "sync", "join"} /\ c \in Cells
        /\ file' = [file EXCEPT ![p] = Extended(@, c)]
    BY <1>2, WriteAppends
  <2>2. file \in [Paths -> Files] /\ Paths = {"current", "archive"}
    BY DEF Base, TypeOK, Files, Paths
  <2>3. /\ handle' = [handle EXCEPT !.pos = @ + 1, !.header = AddBlock(@)]
        /\ UNCHANGED <<main, archived>>
    BY <1>2 DEF WriterWrite, history
  <2>4. handle'.path = p
    BY <2>3 DEF Base, TypeOK
  <2> HIDE DEF c
  <2>5. CASE p = "current"
    <3>1. /\ file'["archive"] = file["archive"]
          /\ file'["current"] = Extended(file["current"], c)
      BY <2>1, <2>2, <2>5
    <3>2. FirstPass /\ ~Filling
      BY <2>1, <2>5 DEF FirstPass, Filling, Open
    <3>3. file'["current"].exists /\ InBounds(file'["current"])
      BY <2>1, <2>2, <3>1, <3>2, ExtendedSound DEF Refused
    <3> QED
      BY <2>1, <2>3, <3>1, <3>2, <3>3 DEF Refused
  <2>6. CASE p = "archive"
    <3>1. file'["archive"] = Extended(file["archive"], c)
      BY <2>1, <2>2, <2>6
    <3>2. /\ InBounds(file'["archive"]) /\ Vals(file["archive"]) \subseteq Vals(file'["archive"])
          /\ file'["archive"].exists => Readable(file'["archive"])
      BY <2>1, <2>2, <3>1, ExtendedSound DEF Refused
    <3>3. ~FirstPass'
      BY <2>1, <2>3, <2>4, <2>6 DEF FirstPass
    <3> QED
      BY <2>1, <2>3, <3>2, <3>3 DEF Refused
  <2> QED
    BY <2>1, <2>2, <2>5, <2>6
<1> QED
  BY <1>1, <1>2 DEF Writer

LEMMA OwnerRefused ==
  ASSUME Base, Refused, Harmed => Harmed',
         \/ OpenNewFile \/ OpenNewFileFails
         \/ PushBlock \/ StartFlush \/ QueueSync \/ JoinWriters
         \/ AppendFileFails \/ OpenSource \/ OpenSourceFails \/ Unlink \/ UpdateBooks \/ Crash
  PROVE  Refused'
<1>0. file \in [Paths -> Files] /\ Paths = {"current", "archive"}
  BY DEF Base, TypeOK, Files, Paths
<1>1. archived' = archived
  BY DEF OpenNewFile, OpenNewFileFails, PushBlock, StartFlush, QueueSync, JoinWriters,
    AppendFileFails, OpenSource, OpenSourceFails, Unlink, UpdateBooks, Crash, history
<1>2. CASE PushBlock \/ StartFlush \/ QueueSync \/ JoinWriters \/ OpenSource
  <2>1. file' = file /\ handle'.path = handle.path
    BY <1>2 DEF PushBlock, StartFlush, QueueSync, JoinWriters, OpenSource, Base, TypeOK
  <2>2. /\ Open /\ Open' /\ main' \notin {"header", "rename", "source"}
        /\ main = "source" => handle.path = "archive"
    BY <1>2 DEF PushBlock, StartFlush, QueueSync, JoinWriters, OpenSource, Open, Base, Order
  <2>3. (FirstPass' => FirstPass) /\ (Filling => Filling')
    BY <2>1, <2>2 DEF FirstPass, Filling
  <2> QED
    BY <1>1, <2>1, <2>2, <2>3, SameRefused
<1>3. CASE AppendFileFails \/ UpdateBooks
  <2>1. UNCHANGED <<file, handle>> /\ handle = Closed /\ main' = "idle"
    BY <1>3 DEF AppendFileFails, UpdateBooks, Base, Order
  <2>2. ~FirstPass' /\ ~Filling
    BY <2>1 DEF FirstPass, Filling, Closed, Open
  <2> QED
    BY <1>1, <2>1, <2>2, SameRefused
<1>4. CASE OpenSourceFails
  <2>1. file' = file /\ handle' = Closed /\ main' = "book" /\ Harmed
    BY <1>4 DEF OpenSourceFails, Refused
  <2>2. ~FirstPass'
    BY <2>1 DEF FirstPass, Open
  <2> QED
    BY <1>1, <2>1, <2>2, SameRefused
<1>5. CASE OpenNewFile \/ OpenNewFileFails \/ Unlink \/ Crash
  <2>1. file'["archive"] = file["archive"]
    BY <1>0, <1>5 DEF OpenNewFile, OpenNewFileFails, Unlink, Crash
  <2>2. ~Filling \/ Harmed'
    <3>1. CASE OpenNewFile \/ OpenNewFileFails \/ Unlink
      BY <3>1 DEF OpenNewFile, OpenNewFileFails, Unlink, Base, Order, Filling, Closed
    <3>2. CASE Crash
      BY <3>2, FlowFileAssumption DEF Crash, Base, TypeOK, Harmed
    <3> QED
      BY <1>5, <3>1, <3>2
  <2>3. FirstPass' => file'["current"].exists /\ InBounds(file'["current"])
    <3>1. CASE OpenNewFile
      <4>1. file'["current"] = [Missing EXCEPT !.exists = TRUE, !.valid = TRUE]
        BY <1>0, <3>1 DEF OpenNewFile
      <4> QED
        BY <4>1 DEF Missing, EmptyHeader, InBounds, EndOfFile
    <3>2. CASE OpenNewFileFails \/ Unlink \/ Crash
      BY <3>2 DEF OpenNewFileFails, Unlink, Crash, FirstPass, Open
    <3> QED
      BY <1>5, <3>1, <3>2
  <2>4. main' \notin {"header", "rename", "source"}
    BY <1>5 DEF OpenNewFile, OpenNewFileFails, Unlink, Crash
  <2> QED
    BY <1>1, <2>1, <2>2, <2>3, <2>4 DEF Refused
<1> QED
  BY <1>2, <1>3, <1>4, <1>5

LEMMA AppendixRefused ==
  ASSUME Base, Refused, Harmed => Harmed', WriteAppendix \/ WriteAppendixFails
  PROVE  Refused'
<1> DEFINE p == handle.path
           c == Appendix(handle.stat)
<1>0. file \in [Paths -> Files] /\ Paths = {"current", "archive"} /\ p \in Paths
  BY DEF Base, TypeOK, Files, Paths
<1>1. /\ main = "appendix" /\ main' = "header" /\ archived' = archived /\ Open /\ ~Open'
      /\ handle'.path = p /\ handle'.header.offAppendix = EndOfFile(file[p])
  BY AppendixHandle DEF WriteAppendix, WriteAppendixFails, history, Open
<1>2. FirstPass' => FirstPass /\ p = "current"
  BY <1>1 DEF FirstPass
<1>3. CASE WriteAppendixFails
  <2>1. file' = file
    BY <1>3 DEF WriteAppendixFails
  <2>2. Harmed'
    BY <1>3 DEF WriteAppendixFails, Fault, Calls, Base, TypeOK, Harmed
  <2> QED
    BY <1>1, <1>2, <2>1, <2>2 DEF Refused
<1>4. CASE WriteAppendix
  <2>1. file' = [file EXCEPT ![p] = Extended(@, c)] /\ c \in Cells
    BY <1>4, AppendixAppends
  <2> HIDE DEF c
  <2>2. file'[p] = Extended(file[p], c) /\ \A q \in Paths \ {p} : file'[q] = file[q]
    BY <1>0, <2>1
  <2>3. ~Torn'
    <3>1. Len(file'[p].cells) = Len(file[p].cells) + 1 /\ Len(file[p].cells) \in Nat
          /\ EndOfFile(file[p]) = Len(file[p].cells) + 1
      BY <1>0, <2>1, <2>2, ExtendedFacts, FileLengths
    <3> QED
      BY <1>1, <3>1 DEF Torn
  <2>4. CASE p = "current"
    <3>1. FirstPass /\ ~Filling /\ file'["archive"] = file["archive"]
      BY <1>0, <1>1, <2>2, <2>4 DEF FirstPass, Filling
    <3>2. file'["current"].exists /\ InBounds(file'["current"])
      BY <1>0, <2>1, <2>2, <2>4, <3>1, ExtendedSound DEF Refused
    <3> QED
      BY <1>1, <2>3, <3>1, <3>2 DEF Refused
  <2>5. CASE p = "archive"
    <3>1. /\ InBounds(file'["archive"]) /\ Vals(file["archive"]) \subseteq Vals(file'["archive"])
          /\ file'["archive"].exists => Readable(file'["archive"])
      BY <1>0, <2>1, <2>2, <2>5, ExtendedSound DEF Refused
    <3> QED
      BY <1>1, <1>2, <2>3, <2>5, <3>1 DEF Refused
  <2> QED
    BY <1>0, <2>4, <2>5
<1> QED
  BY <1>3, <1>4

LEMMA HeaderRefused ==
  ASSUME Base, Counts, Refused, Harmed => Harmed', WriteHeader \/ WriteHeaderFails
  PROVE  Refused'
<1> DEFINE p == handle.path
           f == file["archive"]
           g == file'["archive"]
<1>0. file \in [Paths -> Files] /\ Paths = {"current", "archive"} /\ p \in Paths
  BY DEF Base, TypeOK, Files, Paths
<1>1. /\ main = "header" /\ ~Filling /\ handle' = Closed /\ ~Open'
      /\ main' = IF p = "current" THEN "rename" ELSE "unlink"
  BY DEF WriteHeader, WriteHeaderFails, AfterHeader, Open, Filling
<1>2. FirstPass' => FirstPass /\ p = "current"
  BY <1>1 DEF FirstPass
<1>3. CASE WriteHeaderFails
  <2>1. file' = file /\ archived' = archived
    BY <1>3 DEF WriteHeaderFails, history
  <2>2. p = "current" => Readable(file["current"])
    <3>1. p = "current" => file["current"].exists /\ InBounds(file["current"])
                           /\ file["current"].header = EmptyHeader
      BY <1>1 DEF Counts, Refused, FirstPass
    <3> QED
      BY <3>1 DEF Readable, InBounds, EmptyHeader
  <2> QED
    BY <1>1, <1>2, <2>1, <2>2 DEF Refused
<1>4. CASE WriteHeader
  <2> DEFINE h == file'[p]
  <2>1. /\ h.header = Closing /\ h.valid /\ h.cells = file[p].cells /\ h.exists = file[p].exists
        /\ \A q \in Paths \ {p} : file'[q] = file[q]
        /\ file' \in [Paths -> Files]
    BY <1>4, HeaderWritten
  <2>2. archived' = archived \cup Content(g)
    BY <1>4 DEF WriteHeader, NoteArchived
  <2>3. Closing.offAppendix = handle.header.offAppendix
    BY ClosingHeader
  <2>4. Len(h.cells) \in Nat /\ EndOfFile(h) = Len(h.cells) + 1
    BY <1>0, <2>1, FileLengths
  <2>5. InBounds(h) /\ (h.exists => Readable(h) \/ Harmed)
    <3>1. CASE Torn
      <4>1. h.header.offAppendix = EndOfFile(h)
        BY <2>1, <2>3, <2>4, <3>1 DEF Torn
      <4>2. Harmed
        BY <1>1, <3>1 DEF Refused
      <4> QED
        BY <2>1, <2>4, <4>1, <4>2 DEF InBounds
    <3>2. CASE Whole
      BY <2>1, <2>3, <2>4, <3>2 DEF Whole, InBounds, Readable
    <3> QED
      BY <1>1, <3>1, <3>2 DEF Counts
  <2> HIDE DEF h
  <2>6. Content(g) \subseteq Vals(g)
    BY <1>0, <2>1, ContentInFile
  <2>7. CASE p = "current"
    <3>1. g = f /\ h.exists /\ h = file'["current"]
      BY <1>0, <1>1, <2>1, <2>7 DEF Refused, FirstPass, h
    <3> QED
      BY <1>1, <2>2, <2>5, <2>6, <2>7, <3>1 DEF Refused
  <2>8. CASE p = "archive"
    <3>1. g = h /\ Vals(g) = Vals(f)
      BY <2>1, <2>8 DEF Vals, h
    <3> QED
      BY <1>1, <1>2, <2>2, <2>5, <2>6, <2>8, <3>1 DEF Refused
  <2> QED
    BY <1>0, <2>7, <2>8
<1> QED
  BY <1>3, <1>4

LEMMA RotateRefused ==
  ASSUME EnoughWorkers, Base, Headings, Kept, Refused, Harmed => Harmed', Rename \/ AppendFile
  PROVE  Refused'
<1> DEFINE f == file["archive"]
           g == file'["archive"]
<1>0. file \in [Paths -> Files] /\ Paths = {"current", "archive"} /\ f \in Files
  BY DEF Base, TypeOK, Files, Paths
<1>1. CASE Rename
  <2> DEFINE c == file["current"]
  <2>1. /\ main = "rename" /\ main' = "book" /\ ~f.exists
        /\ archived' = archived \cup Content(g) /\ handle' = handle
        /\ file' = [file EXCEPT !["archive"] = file["current"], !["current"] = Missing]
    BY <1>1 DEF Rename, NoteArchived
  <2>2. g = c /\ c \in Files /\ archived = {} /\ handle = Closed
    BY <1>0, <2>1 DEF Kept, Base, Order
  <2>3. ~FirstPass'
    BY <2>1, <2>2 DEF FirstPass, Closed, Open
  <2>4. Content(c) \subseteq Vals(c)
    BY <2>2, ContentInFile
  <2>5. InBounds(c) /\ (Readable(c) \/ Harmed)
    BY <2>1 DEF Refused, FirstPass
  <2> QED
    BY <2>1, <2>2, <2>3, <2>4, <2>5 DEF Refused
<1>2. CASE AppendFile
  <2>1. /\ main = "rename" /\ main' = "source" /\ Readable(f) /\ g.header = f.header
        /\ g.cells = Cut(f) /\ g.exists = f.exists /\ g.valid = f.valid
        /\ handle'.path = "archive" /\ file'["current"] = file["current"]
        /\ file' \in [Paths -> Files]
    BY <1>2, AppendOpened
  <2>2. Kept' /\ Filling' /\ Usable'
    BY <1>2, <2>1, RotateKept DEF Filling, Open, Usable, Appending
  <2>3. g \in Files
    BY <1>0, <2>1
  <2>4. Len(g.cells) \in Nat /\ DOMAIN g.cells = 1 .. Len(g.cells)
        /\ g.header.NumBlocks \in Nat /\ EndOfFile(g) = Len(g.cells) + 1
        /\ g.header.offAppendix \in Nat
    BY <2>3, FileLengths, SolidContent
  <2>5. archived' \subseteq Vals(g)
    <3>1. Solid(g) /\ archived' \subseteq Front(g, g.header.NumBlocks)
      BY <2>2 DEF Kept
    <3>2. \A k \in 1 .. g.header.NumBlocks : k \in DOMAIN g.cells
      BY <2>4, <3>1 DEF Solid
    <3>3. Front(g, g.header.NumBlocks) \subseteq Vals(g)
      BY <3>2 DEF Front, Vals
    <3> QED
      BY <3>1, <3>3
  <2>6. InBounds(g)
    <3>1. f.header.offAppendix > 0 => Len(Cut(f)) = f.header.offAppendix - 1
      BY <1>0, <2>1, CutFacts DEF Base, Headers
    <3> QED
      BY <2>1, <2>4, <3>1 DEF InBounds, Readable
  <2>7. FirstPass /\ main' # "header"
    BY <2>1 DEF FirstPass
  <2> QED
    BY <2>1, <2>2, <2>5, <2>6, <2>7 DEF Refused
<1> QED
  BY <1>1, <1>2

LEMMA StepRefused ==
  ASSUME EnoughWorkers, Base, Counts, Headings, Kept, Refused, [Next]_vars
  PROVE  Refused'
<1>0. Harmed => Harmed'
  BY HarmStays
<1>1. CASE UNCHANGED vars
  <2>1. UNCHANGED <<file, handle, main, archived>>
    BY <1>1 DEF vars, history
  <2>2. (FirstPass' <=> FirstPass) /\ (Filling' <=> Filling)
    BY <2>1 DEF FirstPass, Filling, Open
  <2> QED
    BY <1>0, <2>1, <2>2, SameRefused
<1>2. CASE Next
  BY <1>0, <1>1, <1>2, WriterRefused, OwnerRefused, AppendixRefused, HeaderRefused, RotateRefused
     DEF Next, Owner, Finished, Stuck
<1> QED
  BY <1>1, <1>2

LEMMA InitRefused == Init => Refused
  BY DEF Init, Refused, InBounds, Vals, FirstPass, Open, Missing, Closed, Paths

(* Whatever fails and whenever the process dies, an archive that can be    *)
(* read gives all blocks it ever gave (AppendFile cuts off no more than    *)
(* the appendix, and no header counts less than the one before); one that  *)
(* is refused has them still and ends where its appendix was, and that     *)
(* for good only when the process died or an appendix was not written.     *)
THEOREM ArchiveKeepsBlocks ==
  ASSUME EnoughWorkers
  PROVE  Spec => []ArchiveOnlyGrows
<1>1. Init => Safe /\ Kept /\ Refused
  BY InitSafe, InitKept, InitRefused
<1>2. Safe /\ Kept /\ Refused /\ [Next]_vars => (Safe /\ Kept /\ Refused)'
  BY StepSafe, StepKept, StepRefused DEF Safe
<1>3. Safe /\ Kept /\ Refused => ArchiveOnlyGrows
  <2> SUFFICES ASSUME Safe, Kept, Refused PROVE ArchiveOnlyGrows
    OBVIOUS
  <2> DEFINE f == file["archive"]
  <2>1. f \in Files /\ HeaderOK(f.header)
    BY DEF Safe, Base, TypeOK, Files, Paths, Headers
  <2>2. Readable(f) => archived \subseteq Content(f)
    BY <2>1, SolidContent DEF Kept, Usable
  <2>3. archived \subseteq {f.cells[k].val : k \in DOMAIN f.cells}
    BY DEF Refused, Vals
  <2>4. ASSUME f.exists, ~Readable(f)
        PROVE  f.valid /\ f.header.offAppendix = EndOfFile(f)
    BY <2>1, <2>4, FileLengths DEF Refused, InBounds, Readable
  <2>5. ASSUME f.exists, ~Readable(f)
        PROVE  BeingWritten("archive") \/ crashes > 0 \/ faults["appendix"] > 0
    BY <2>5 DEF Refused, Filling, Harmed, BeingWritten, Open
  <2> QED
    BY <2>2, <2>3, <2>4, <2>5 DEF ArchiveOnlyGrows
<1> QED
  BY <1>1, <1>2, <1>3, PTL DEF Spec

-------------------------------------------------------------------------------
(* Rotations in which no call fails                                        *)

(* a file as CloseUpdateFile leaves it                                     *)
Complete(f) ==
    /\ Readable(f) /\ Exact(f)
    /\ Len(f.cells) = f.header.offAppendix
    /\ f.cells[f.header.offAppendix] = Appendix(f.header.NumBlocks)

(* blocks in the queue or with a writer, and blocks still to be pushed     *)
Moving == {worker[s].block : s \in Writing} \cup {chan[k] : k \in DOMAIN chan}
Left   == {source.blocks[k] : k \in DOMAIN source.blocks}

ClosedFiles ==
    /\ file["archive"].exists /\ ~Appending => Complete(file["archive"])
    /\ ~file["archive"].exists => file["archive"] = Missing /\ ~Appending
    /\ main \in {"rename", "source", "unlink"} \/ Appending => Complete(file["current"])
    /\ handle.path = "current" /\ (Open \/ main = "header") => file["current"].exists
    /\ main \in {"idle", "book"} => file["current"] = Missing
    /\ main # "dead"

Tallied ==
    /\ Open => handle.header.NumBlocks + Load = handle.stat + source.stat
    /\ main = "header" =>
          LET f == file[handle.path]
          IN  /\ Whole
              /\ handle.header.NumBlocks = handle.stat + 1
              /\ f.cells[Len(f.cells)] = Appendix(handle.stat)

Gathered ==
    /\ pushed = DataOf(file["archive"]) \cup DataOf(file["current"]) \cup Moving
    /\ (Appending /\ main # "source") \/ main = "unlink" =>
          DataOf(file["current"]) \subseteq DataOf(file["archive"]) \cup Moving \cup Left

Sound == NoFault => ClosedFiles /\ Tallied /\ Gathered

LEMMA CompleteFacts ==
  ASSUME NEW f \in Files, HeaderOK(f.header), Complete(f)
  PROVE  /\ f.header.NumBlocks \in Nat /\ f.header.offAppendix = f.header.NumBlocks + 1
         /\ Len(f.cells) = f.header.NumBlocks + 1
         /\ \A k \in 1 .. f.header.NumBlocks : f.cells[k].type = "data"
         /\ f.cells[f.header.NumBlocks + 1].type = "appendix"
         /\ DataOf(f) = Front(f, f.header.NumBlocks) /\ Content(f) = DataOf(f)
         /\ ReadStat(f) = f.header.NumBlocks
         /\ Len(ReadBlocks(f)) = f.header.NumBlocks
         /\ {ReadBlocks(f)[k] : k \in DOMAIN ReadBlocks(f)} = DataOf(f)
<1> DEFINE n == f.header.NumBlocks
           off == f.header.offAppendix
<1>1. n \in Nat /\ off \in Nat /\ f.cells \in Seq(Cells)
  BY SolidContent DEF Files
<1>2. off = n + 1 /\ Len(f.cells) = n + 1
  BY <1>1 DEF Complete, Exact
<1>3. \A k \in 1 .. n : f.cells[k].type = "data"
  BY <1>1, <1>2 DEF Complete, Exact, AllData
<1>4. f.cells[n + 1].type = "appendix" /\ f.cells[n + 1].val = n
  BY <1>1, <1>2 DEF Complete, Appendix
<1>5. DOMAIN f.cells = 1 .. n + 1
  BY <1>1, <1>2
<1>6. {j \in DOMAIN f.cells : f.cells[j].type = "data"} = 1 .. n
  BY <1>1, <1>3, <1>4, <1>5
<1>7. DataOf(f) = Front(f, n)
  BY <1>6 DEF DataOf, Front
<1>8. Content(f) = DataOf(f)
  <2>1. Solid(f)
    BY <1>1, <1>2 DEF Solid
  <2> QED
    BY <1>7, <2>1, SolidContent DEF Complete
<1>9. ReadStat(f) = n
  <2>1. f.header.appendixBlocks > 0
    <3>1. f.header.appendixBlocks \in {0, 1}
      BY DEF Files, Header
    <3>2. f.header.appendixBlocks # 0
      BY <1>1, <1>2 DEF HeaderOK
    <3> QED
      BY <3>1, <3>2
  <2> QED
    BY <1>2, <1>4, <2>1 DEF ReadStat
<1>10. Len(ReadBlocks(f)) = n /\ ReadBlocks(f) \in Seq(Values) /\ Len(ReadCells(f)) = n
  BY <1>1, <1>2, ReadTypes
<1>11. DOMAIN ReadBlocks(f) = 1 .. n /\ \A k \in 1 .. n : ReadBlocks(f)[k] = f.cells[k].val
  BY <1>1, <1>10 DEF ReadBlocks
<1>12. {ReadBlocks(f)[k] : k \in DOMAIN ReadBlocks(f)} = DataOf(f)
  BY <1>7, <1>11 DEF Front
<1> QED
  BY <1>1, <1>2, <1>3, <1>4, <1>7, <1>8, <1>9, <1>10, <1>12

(* What is left of such a file for RenameAppend to write behind.           *)
LEMMA CutComplete ==
  ASSUME NEW f \in Files, HeaderOK(f.header), Readable(f), Complete(f)
  PROVE  /\ Cut(f) \in Seq(Cells) /\ Len(Cut(f)) = f.header.NumBlocks
         /\ \A k \in 1 .. Len(Cut(f)) : k \in DOMAIN f.cells /\ Cut(f)[k] = f.cells[k]
<1>1. f.header.NumBlocks \in Nat /\ f.header.offAppendix = f.header.NumBlocks + 1
  BY CompleteFacts
<1>2. f.header.offAppendix > 0 /\ f.header.offAppendix - 1 = f.header.NumBlocks
  BY <1>1
<1> QED
  BY <1>2, CutFacts

LEMMA FaultsStay ==
  ASSUME Base, NoFault', [Next]_vars
  PROVE  /\ NoFault
         /\ ~OpenNewFileFails /\ ~WriteAppendixFails /\ ~WriteHeaderFails /\ ~Crash
         /\ \A s \in Slots : ~WriterFails(s)
<1>1. \A c \in Calls : faults'[c] = 0
  BY DEF NoFault
<1>2. crashes' = 0 /\ crashes \in Nat
  BY DEF NoFault, Base, TypeOK
<1>3. \A c \in Calls : ~Fault(c)
  BY <1>1, FaultTypes DEF Base
<1>4. /\ ~OpenNewFileFails /\ ~WriteAppendixFails /\ ~WriteHeaderFails
      /\ \A s \in Slots : ~WriterFails(s)
  BY <1>3 DEF OpenNewFileFails, WriteAppendixFails, WriteHeaderFails, WriterFails, Calls
<1>5. ~Crash
  BY <1>2 DEF Crash
<1>6. UNCHANGED <<faults, crashes>>
  <2>1. CASE UNCHANGED vars
    BY <2>1 DEF vars, bounds
  <2>2. CASE \E s \in Slots : Writer(s)
    BY <2>2 DEF Writer, WriterPop, WriterExit, WriterWrite, bounds
  <2>3. CASE OpenNewFile
    BY <2>3 DEF OpenNewFile
  <2>4. CASE Owner
    BY <2>4 DEF Owner, PushBlock, StartFlush, QueueSync, JoinWriters, WriteAppendix, WriteHeader,
      Rename, AppendFile, AppendFileFails, OpenSource, OpenSourceFails, Unlink, UpdateBooks, bounds
  <2> QED
    BY <1>4, <1>5, <2>1, <2>2, <2>3, <2>4 DEF Next, Finished, Stuck
<1>7. NoFault
  BY <1>1, <1>2, <1>6 DEF NoFault
<1> QED
  BY <1>4, <1>5, <1>7

(* Nothing is on its way while the owner does not push or flush.           *)
LEMMA NothingMoves ==
  ASSUME Base
  PROVE  /\ main \notin {"push", "sync", "join"} => Moving = {} /\ Left = {} /\ Load = 0
         /\ main # "push" => Left = {} /\ source.stat = 0
         /\ Load = 0 => Moving = {}
<1>1. main # "push" => Left = {} /\ source.stat = 0
  BY DEF Base, Order, NoSource, Left
<1>2. Load = 0 => Writing = {} /\ chan = <<>>
  <2>1. Load = 0 => Cardinality(Writing) = 0 /\ Len(chan) = 0
    BY LoadType DEF Load
  <2>2. chan \in Seq(Values)
    BY WaitingFacts
  <2> QED
    BY <2>1, <2>2, LoadType
<1>3. Load = 0 => Moving = {}
  BY <1>2 DEF Moving
<1>4. main \notin {"push", "sync", "join"} => Load = 0
  BY NoLoad
<1> QED
  BY <1>1, <1>3, <1>4

(* Writers take blocks from the queue to the file.                         *)
LEMMA WriterMoves ==
  ASSUME Base, NEW s \in Slots, Writer(s)
  PROVE  /\ WriterPop(s) \/ WriterExit(s) => Moving' = Moving
         /\ WriterWrite(s) => Moving = Moving' \cup {worker[s].block}
<1>0. worker \in [Slots -> WorkerStates] /\ chan \in Seq(Values)
  BY DEF Base, TypeOK, WorkerStates
<1>1. ASSUME WriterPop(s) PROVE Moving' = Moving
  <2> DEFINE b == Head(chan)
  <2>1. /\ chan # <<>> /\ chan' = Tail(chan) /\ worker[s].pc = "pop"
        /\ worker' = [worker EXCEPT ![s] = [pc |-> "write", block |-> b]]
    BY <1>1 DEF WriterPop
  <2>2. /\ Writing' = Writing \cup {s} /\ s \notin Writing /\ worker'[s].block = b
        /\ \A t \in Writing : t # s /\ worker'[t] = worker[t]
    BY <1>0, <2>1 DEF Writing
  <2>3. {worker'[t].block : t \in Writing'} = {worker[t].block : t \in Writing} \cup {b}
    BY <2>2
  <2>4. {chan[k] : k \in DOMAIN chan} = {b} \cup {chan'[k] : k \in DOMAIN chan'}
    <3>1. /\ DOMAIN chan = 1 .. Len(chan) /\ DOMAIN chan' = 1 .. Len(chan) - 1
          /\ Len(chan) \in Nat \ {0} /\ chan[1] = b
          /\ \A k \in 1 .. Len(chan) - 1 : chan'[k] = chan[k + 1]
      BY <1>0, <2>1
    <3>2. \A k \in DOMAIN chan : k = 1 \/ (k - 1 \in DOMAIN chan' /\ chan[k] = chan'[k - 1])
      BY <3>1
    <3>3. \A k \in DOMAIN chan' : k + 1 \in DOMAIN chan /\ chan'[k] = chan[k + 1]
      BY <3>1
    <3>4. 1 \in DOMAIN chan
      BY <3>1
    <3> QED
      BY <3>1, <3>2, <3>3, <3>4
  <2> QED
    BY <2>3, <2>4 DEF Moving
<1>2. ASSUME WriterExit(s) PROVE Moving' = Moving
  <2>1. chan' = chan /\ worker[s].pc = "pop" /\ worker' = [worker EXCEPT ![s] = Exited]
    BY <1>2 DEF WriterExit, queue
  <2>2. Writing' = Writing /\ \A t \in Writing : worker'[t] = worker[t]
    BY <1>0, <2>1 DEF Writing, Exited
  <2> QED
    BY <2>1, <2>2 DEF Moving
<1>3. ASSUME WriterWrite(s) PROVE Moving = Moving' \cup {worker[s].block}
  <2>1. worker[s].pc = "write" /\ worker' = [worker EXCEPT ![s] = Running] /\ chan' = chan
    BY <1>3 DEF WriterWrite, queue
  <2>2. s \in Writing /\ Writing' = Writing \ {s} /\ \A t \in Writing' : worker'[t] = worker[t]
    BY <1>0, <2>1 DEF Writing, Running
  <2>3. {worker[t].block : t \in Writing} = {worker'[t].block : t \in Writing'} \cup {worker[s].block}
    BY <2>2
  <2> QED
    BY <2>1, <2>3 DEF Moving
<1> QED
  BY <1>1, <1>2, <1>3

LEMMA WriterSound ==
  ASSUME Base, Base', Counts, ClosedFiles, Tallied, Gathered, NEW s \in Slots, Writer(s)
  PROVE  ClosedFiles' /\ Tallied' /\ Gathered'
<1>0. /\ worker \in [Slots -> WorkerStates] /\ file \in [Paths -> Files]
      /\ Paths = {"current", "archive"} /\ chan \in Seq(Values)
  BY DEF Base, TypeOK, WorkerStates, Files, Paths
<1>1. ASSUME WriterPop(s) \/ WriterExit(s), Moving' = Moving
      PROVE  ClosedFiles' /\ Tallied' /\ Gathered'
  <2>1. UNCHANGED <<file, handle, main, pushed, source>>
    BY <1>1 DEF WriterPop, WriterExit, history
  <2>2. Load' = Load
    BY <1>1, WriterLoad DEF Writer
  <2>3. (Open' <=> Open) /\ (Appending' <=> Appending) /\ (Whole' <=> Whole) /\ Left' = Left
    BY <2>1 DEF Open, Appending, Whole, Left
  <2>4. ClosedFiles'
    BY <2>1, <2>3 DEF ClosedFiles
  <2>5. Tallied'
    BY <2>1, <2>2, <2>3 DEF Tallied
  <2>6. Gathered'
    BY <1>1, <2>1, <2>3 DEF Gathered
  <2> QED
    BY <2>4, <2>5, <2>6
<1>2. WriterPop(s) \/ WriterExit(s) => Moving' = Moving
  BY WriterMoves
<1>4. ASSUME WriterWrite(s) PROVE ClosedFiles' /\ Tallied' /\ Gathered'
  <2> DEFINE p == handle.path
             b == worker[s].block
             c == Data(b)
  <2>1. /\ p \in Paths /\ main \in {"push", "sync", "join"} /\ c \in Cells /\ worker[s].pc = "write"
        /\ file' = [file EXCEPT ![p] = Extended(@, c)]
    BY <1>4, WriteAppends
  <2>2. c.type = "data" /\ c.val = b
    BY DEF Data
  <2>3. file'[p] = Extended(file[p], c) /\ \A q \in Paths \ {p} : file'[q] = file[q]
    BY <1>0, <2>1
  <2>4. /\ worker' = [worker EXCEPT ![s] = Running] /\ chan' = chan /\ source' = source
        /\ handle' = [handle EXCEPT !.pos = @ + 1, !.header = AddBlock(@)]
        /\ UNCHANGED <<main, pushed>>
    BY <1>4 DEF WriterWrite, queue, history
  <2>5. handle'.path = p /\ handle'.header = AddBlock(handle.header) /\ handle'.stat = handle.stat
    <3>1. handle \in [path : Paths, pos : Nat, header : Header, stat : Nat]
      BY DEF Base, TypeOK
    <3> DEFINE h == AddBlock(handle.header)
    <3>2. handle' = [handle EXCEPT !.pos = @ + 1, !.header = h]
      BY <2>4
    <3> HIDE DEF h
    <3>3. handle'.path = p /\ handle'.header = h /\ handle'.stat = handle.stat
      BY <3>1, <3>2
    <3> QED
      BY <3>3 DEF h
  <2>6. Open /\ Open' /\ (Appending' <=> Appending) /\ Left' = Left
    BY <2>1, <2>4, <2>5 DEF Open, Appending, Left
  <2>7. DataOf(file'[p]) = DataOf(file[p]) \cup {b} /\ file'[p].exists = file[p].exists
    BY <1>0, <2>1, <2>2, <2>3, ExtendedData, ExtendedFacts
  <2>9. Moving = Moving' \cup {b}
    BY <1>4, WriterMoves
  <2>10. ClosedFiles'
    <3>1. CASE p = "current"
      <4>1. file'["archive"] = file["archive"] /\ ~Appending
        BY <1>0, <2>3, <3>1 DEF Appending
      <4> QED
        BY <2>1, <2>4, <2>6, <2>7, <3>1, <4>1 DEF ClosedFiles
    <3>2. CASE p = "archive"
      <4>1. file'["current"] = file["current"] /\ Appending
        BY <1>0, <2>3, <2>6, <3>2 DEF Appending
      <4> QED
        BY <2>1, <2>4, <2>5, <2>6, <2>7, <3>2, <4>1 DEF ClosedFiles
    <3> QED
      BY <1>0, <2>1, <3>1, <3>2
  <2>11. Tallied'
    <3>1. Load' = Load - 1 /\ Load \in Nat
      BY <1>4, WriterLoad, LoadType DEF Writer
    <3>2. handle'.header.NumBlocks = handle.header.NumBlocks + 1 /\ handle.header.NumBlocks \in Nat
      BY <2>5, <2>6, NoWrap
    <3>3. handle.header.NumBlocks + Load = handle.stat + source.stat
      BY <2>6 DEF Tallied
    <3>4. handle'.header.NumBlocks + Load' = handle'.stat + source'.stat
      BY <2>4, <2>5, <3>1, <3>2, <3>3
    <3> QED
      BY <2>1, <2>4, <3>4 DEF Tallied
  <2>12. Gathered'
    <3>1. DataOf(file'["archive"]) \cup DataOf(file'["current"])
             = DataOf(file["archive"]) \cup DataOf(file["current"]) \cup {b}
      BY <1>0, <2>1, <2>3, <2>7
    <3>2. p = "archive" => /\ DataOf(file'["archive"]) = DataOf(file["archive"]) \cup {b}
                           /\ DataOf(file'["current"]) = DataOf(file["current"])
      BY <1>0, <2>3, <2>7
    <3>3. pushed' = DataOf(file'["archive"]) \cup DataOf(file'["current"]) \cup Moving'
      BY <2>4, <2>9, <3>1 DEF Gathered
    <3>4. Appending' => DataOf(file'["current"])
                          \subseteq DataOf(file'["archive"]) \cup Moving' \cup Left'
      BY <2>1, <2>6, <2>9, <3>2 DEF Gathered, Appending
    <3> QED
      BY <2>1, <2>4, <3>3, <3>4 DEF Gathered
  <2> QED
    BY <2>10, <2>11, <2>12
<1> QED
  BY <1>1, <1>2, <1>4 DEF Writer

LEMMA OpenSound ==
  ASSUME EnoughWorkers, Base, Base', ClosedFiles, Gathered, OpenNewFile
  PROVE  ClosedFiles' /\ Tallied' /\ Gathered'
<1>0. file \in [Paths -> Files] /\ Paths = {"current", "archive"} /\ handle = Closed
  BY DEF Base, TypeOK, Files, Paths, Order, OpenNewFile
<1>1. /\ main = "idle" /\ main' = "push" /\ pushed' = pushed
      /\ file' = [file EXCEPT !["current"] = [Missing EXCEPT !.exists = TRUE, !.valid = TRUE]]
      /\ handle' = [Closed EXCEPT !.pos = 1]
  BY DEF OpenNewFile, history
<1>2. handle'.path = "current" /\ handle'.header.NumBlocks = 0 /\ handle'.stat = 0
  BY <1>1 DEF Closed, EmptyHeader
<1>3. /\ file'["archive"] = file["archive"] /\ file'["current"].exists
      /\ file'["current"].cells = <<>>
  BY <1>0, <1>1 DEF Missing
<1>4. ~Appending /\ ~Appending'
  BY <1>0, <1>1, <1>2 DEF Appending, Closed
<1>5. PICK n \in 0 .. Quota :
         source' = [blocks |-> [k \in 1 .. n |-> session * Quota + k], stat |-> n]
  BY DEF OpenNewFile
<1>6. Load' = n /\ source'.stat = n /\ Writing' = {} /\ chan' = <<>>
  <2>1. source'.blocks = [k \in 1 .. n |-> session * Quota + k] /\ source'.blocks \in Seq(Values)
    BY <1>5 DEF Base, TypeOK
  <2>2. Len(source'.blocks) = n
    BY <2>1, Constants
  <2> QED
    BY <1>5, <2>2, OpenLoad
<1>7. Moving = {} /\ Moving' = {}
  <2>1. Moving = {}
    BY <1>1, NothingMoves
  <2>2. Moving' = {}
    BY <1>6 DEF Moving
  <2> QED
    BY <2>1, <2>2
<1>8. DataOf(file["current"]) = {} /\ DataOf(file'["current"]) = {}
  BY <1>1, <1>3 DEF ClosedFiles, DataOf, Missing
<1>9. ClosedFiles'
  BY <1>1, <1>2, <1>3, <1>4 DEF ClosedFiles
<1>10. Tallied'
  BY <1>1, <1>2, <1>6 DEF Tallied
<1>11. Gathered'
  BY <1>1, <1>3, <1>4, <1>7, <1>8 DEF Gathered
<1> QED
  BY <1>9, <1>10, <1>11

(* PushBlock takes one block; the other steps leave all where they are.    *)
LEMMA FlushMoves ==
  ASSUME Base, Base', PushBlock \/ StartFlush \/ QueueSync \/ JoinWriters
  PROVE  \E new : /\ Moving' = Moving \cup new /\ pushed' = pushed \cup new
                  /\ Left = Left' \cup new
<1>1. CASE PushBlock
  <2> DEFINE b == Head(source.blocks)
  <2>1. /\ source.blocks # <<>> /\ chan' = Append(chan, b) /\ worker' = worker
        /\ source'.blocks = Tail(source.blocks) /\ pushed' = pushed \cup {b}
    BY <1>1 DEF PushBlock, Base, TypeOK
  <2>2. chan \in Seq(Values) /\ source.blocks \in Seq(Values)
    BY WaitingFacts
  <2>3. {chan'[k] : k \in DOMAIN chan'} = {chan[k] : k \in DOMAIN chan} \cup {b}
    <3>1. /\ DOMAIN chan = 1 .. Len(chan) /\ DOMAIN chan' = 1 .. Len(chan) + 1
          /\ chan'[Len(chan) + 1] = b /\ \A k \in 1 .. Len(chan) : chan'[k] = chan[k]
          /\ Len(chan) \in Nat
      BY <2>1, <2>2
    <3> QED
      BY <3>1
  <2>4. Moving' = Moving \cup {b}
    BY <2>1, <2>3 DEF Moving, Writing
  <2>5. Left = Left' \cup {b}
    <3>1. \A k \in DOMAIN source.blocks :
             \/ source.blocks[k] = b
             \/ k - 1 \in DOMAIN source'.blocks /\ source'.blocks[k - 1] = source.blocks[k]
      BY <2>1, <2>2
    <3>2. /\ 1 \in DOMAIN source.blocks /\ source.blocks[1] = b
          /\ \A k \in DOMAIN source'.blocks :
                k + 1 \in DOMAIN source.blocks /\ source.blocks[k + 1] = source'.blocks[k]
      BY <2>1, <2>2
    <3>3. Left \subseteq Left' \cup {b}
      BY <3>1 DEF Left
    <3>4. b \in Left /\ Left' \subseteq Left
      BY <3>2 DEF Left
    <3> QED
      BY <3>3, <3>4
  <2> QED
    BY <2>1, <2>4, <2>5, Zenon
<1>2. CASE StartFlush \/ QueueSync
  <2>1. /\ worker' = worker /\ chan' = chan /\ pushed' = pushed
        /\ source'.blocks = source.blocks
    BY <1>2 DEF StartFlush, QueueSync, queue, history, NoSource
  <2>2. Moving' = Moving /\ Left' = Left
    BY <2>1 DEF Moving, Writing, Left
  <2>3. Moving' = Moving \cup {} /\ pushed' = pushed \cup {} /\ Left = Left' \cup {}
    BY <2>1, <2>2
  <2> QED
    BY <2>3
<1>3. CASE JoinWriters
  <2>1. pushed' = pushed /\ source' = source
    BY <1>3 DEF JoinWriters, history
  <2>2. Load = 0 /\ Load' = 0
    BY <1>3, FlushLoad
  <2>3. Moving = {}
    BY <2>2, NothingMoves
  <2>4. Moving' = {}
    <3>1. main' = "appendix"
      BY <1>3 DEF JoinWriters
    <3>2. Writing' = {} /\ chan' = <<>>
      BY <3>1 DEF Base, Order, Idle, NoThread, Writing
    <3> QED
      BY <3>2 DEF Moving
  <2>5. Left' = Left
    BY <2>1 DEF Left
  <2> QED
    BY <2>1, <2>3, <2>4, <2>5
<1> QED
  BY <1>1, <1>2, <1>3

LEMMA FlushSound ==
  ASSUME Base, Base', ClosedFiles, Tallied, Gathered,
         PushBlock \/ StartFlush \/ QueueSync \/ JoinWriters
  PROVE  ClosedFiles' /\ Tallied' /\ Gathered'
<1>1. /\ file' = file /\ handle'.header = handle.header /\ handle'.path = handle.path
      /\ main \in {"push", "sync", "join"} /\ main' \in {"push", "sync", "join", "appendix"}
  BY DEF PushBlock, StartFlush, QueueSync, JoinWriters, Base, TypeOK
<1>2. Open /\ Open' /\ (Appending' <=> Appending)
  BY <1>1 DEF Open, Appending
<1>3. ClosedFiles'
  BY <1>1, <1>2 DEF ClosedFiles
<1>4. Tallied'
  <2>1. Load' = Load
    BY FlushLoad
  <2>2. handle'.stat + source'.stat = handle.stat + source.stat
    <3>1. CASE StartFlush
      <4>1. /\ handle' = [handle EXCEPT !.stat = @ + source.stat] /\ source'.stat = 0
            /\ handle.stat \in Nat /\ source.stat \in Nat
        BY <3>1 DEF StartFlush, NoSource, Base, TypeOK
      <4>2. handle'.stat = handle.stat + source.stat
        BY <4>1 DEF Base, TypeOK
      <4> QED
        BY <4>1, <4>2
    <3>2. CASE PushBlock \/ QueueSync \/ JoinWriters
      BY <3>2 DEF PushBlock, QueueSync, JoinWriters, Base, TypeOK
    <3> QED
      BY <3>1, <3>2
  <2>3. handle'.header.NumBlocks + Load' = handle'.stat + source'.stat
    BY <1>1, <1>2, <2>1, <2>2 DEF Tallied
  <2> QED
    BY <1>1, <2>3 DEF Tallied
<1>5. PICK new :
         Moving' = Moving \cup new /\ pushed' = pushed \cup new /\ Left = Left' \cup new
  BY FlushMoves
<1>6. Gathered'
  <2>1. pushed' = DataOf(file'["archive"]) \cup DataOf(file'["current"]) \cup Moving'
    BY <1>1, <1>5 DEF Gathered
  <2>2. Appending' => DataOf(file'["current"])
                        \subseteq DataOf(file'["archive"]) \cup Moving' \cup Left'
    BY <1>1, <1>2, <1>5 DEF Gathered
  <2> QED
    BY <1>1, <2>1, <2>2 DEF Gathered
<1> QED
  BY <1>3, <1>4, <1>6

LEMMA StillNothing ==
  ASSUME Base', main' \notin {"push", "sync", "join"}
  PROVE  Moving' = {} /\ Left' = {}
<1>1. Writing' = {} /\ chan' = <<>> /\ source'.blocks = <<>>
  BY DEF Base, Order, Idle, NoThread, Writing, NoSource
<1> QED
  BY <1>1 DEF Moving, Left

LEMMA CloseSound ==
  ASSUME Base, Base', Counts, Headings, NoHeaderFault, ClosedFiles, Tallied, Gathered,
         WriteAppendix \/ WriteHeader
  PROVE  ClosedFiles' /\ Tallied' /\ Gathered'
<1> DEFINE p == handle.path
<1>0. /\ file \in [Paths -> Files] /\ Paths = {"current", "archive"} /\ p \in Paths
      /\ Len(file[p].cells) \in Nat /\ handle.header.NumBlocks \in Nat /\ handle.stat \in Nat
  <2>1. file \in [Paths -> Files] /\ Paths = {"current", "archive"} /\ p \in Paths
    BY DEF Base, TypeOK, Files, Paths
  <2>2. Len(file[p].cells) \in Nat
    BY <2>1, SolidContent
  <2>3. handle.header \in Header /\ handle.stat \in Nat
    BY DEF Base, TypeOK
  <2> QED
    BY <2>1, <2>2, <2>3, HeaderTypes
<1>1. CASE WriteAppendix
  <2> DEFINE c == Appendix(handle.stat)
  <2>1. main = "appendix" /\ main' = "header" /\ pushed' = pushed /\ Open /\ ~Open'
    BY <1>1 DEF WriteAppendix, history, Open
  <2>2. /\ handle'.path = p /\ handle'.stat = handle.stat
        /\ handle'.header.offAppendix = Len(file[p].cells) + 1
        /\ handle'.header.NumBlocks = handle.header.NumBlocks + 1
    BY <1>1, <2>1, AppendixHandle, NoWrap DEF EndOfFile
  <2>3. file' = [file EXCEPT ![p] = Extended(@, c)] /\ c \in Cells /\ c.type # "data"
    BY <1>1, AppendixAppends DEF Appendix
  <2>4. file'[p] = Extended(file[p], c) /\ \A q \in Paths \ {p} : file'[q] = file[q]
    BY <1>0, <2>3
  <2>5. /\ DataOf(file'[p]) = DataOf(file[p]) /\ file'[p].exists = file[p].exists
        /\ Len(file'[p].cells) = Len(file[p].cells) + 1
        /\ file'[p].cells[Len(file[p].cells) + 1] = c
    BY <1>0, <2>3, <2>4, ExtendedData, ExtendedFacts
  <2>6. (Appending' <=> Appending) /\ (p = "current" => ~Appending)
    BY <2>1, <2>2 DEF Appending
  <2>7. ClosedFiles'
    <3>1. CASE p = "current"
      <4>1. file'["archive"] = file["archive"]
        BY <1>0, <2>4, <3>1
      <4> QED
        BY <2>1, <2>2, <2>5, <2>6, <3>1, <4>1 DEF ClosedFiles
    <3>2. CASE p = "archive"
      <4>1. file'["current"] = file["current"] /\ Appending
        BY <1>0, <2>1, <2>4, <3>2 DEF Appending
      <4> QED
        BY <2>1, <2>2, <2>5, <2>6, <3>2, <4>1 DEF ClosedFiles
    <3> QED
      BY <1>0, <3>1, <3>2
  <2>8. Tallied'
    <3>1. handle.header.NumBlocks = handle.stat
      <4>1. handle.header.NumBlocks + 0 = handle.stat + 0
        BY <2>1, NothingMoves DEF Tallied
      <4> QED
        BY <1>0, <4>1
    <3>2. handle'.header.NumBlocks = handle'.stat + 1
      BY <2>2, <3>1
    <3>3. Whole'
      BY <2>2, <2>5 DEF Whole
    <3>4. file'[p].cells[Len(file'[p].cells)] = Appendix(handle'.stat)
      BY <2>2, <2>5
    <3> QED
      BY <2>1, <2>2, <3>2, <3>3, <3>4 DEF Tallied
  <2>9. Gathered'
    <3>1. \A q \in Paths : DataOf(file'[q]) = DataOf(file[q])
      BY <2>4, <2>5
    <3>2. Moving = {} /\ Left = {} /\ Moving' = {} /\ Left' = {}
      BY <2>1, NothingMoves, StillNothing
    <3> QED
      BY <1>0, <2>1, <2>6, <3>1, <3>2 DEF Gathered
  <2> QED
    BY <2>7, <2>8, <2>9
<1>2. CASE WriteHeader
  <2>1. /\ main = "header" /\ main' = (IF p = "current" THEN "rename" ELSE "unlink")
        /\ handle' = Closed /\ pushed' = pushed
    BY <1>2 DEF WriteHeader, AfterHeader
  <2>2. /\ \A q \in Paths \ {p} : file'[q] = file[q]
        /\ file'[p].header = Closing /\ file'[p].cells = file[p].cells
        /\ file'[p].exists = file[p].exists /\ file'[p].valid
    BY <1>2, HeaderWritten
  <2>3. ~Open' /\ ~Appending' /\ (Appending <=> p = "archive")
    BY <2>1 DEF Open, Appending, Closed
  <2>4. /\ handle.header.offAppendix = Len(file[p].cells)
        /\ handle.header.NumBlocks = handle.stat + 1
        /\ file[p].cells[Len(file[p].cells)] = Appendix(handle.stat)
    BY <2>1 DEF Tallied, Whole
  <2>5. /\ Closing.offAppendix = handle.header.offAppendix /\ Closing.appendixBlocks = 1
        /\ Closing.NumBlocks = handle.header.NumBlocks - 1
    BY <1>0, <2>1, <2>4, ClosingHeader DEF Counts
  <2>6. file[p].exists
    <3>1. CASE p = "current"
      BY <2>1, <3>1 DEF ClosedFiles
    <3>2. CASE p = "archive"
      BY <2>3, <3>2 DEF ClosedFiles
    <3> QED
      BY <1>0, <3>1, <3>2
  <2>7. Len(file[p].cells) > 0
    <3>1. handle.header.offAppendix # 0
      BY <2>1 DEF Base, Headers, HeaderOK, Counts
    <3> QED
      BY <1>0, <2>4, <3>1
  <2>8. Complete(file'[p])
    <3>1. ~Torn
      BY <1>0, <2>4 DEF Torn
    <3>2. Exact(file'[p])
      <4>1. /\ AllData(file[p], Len(file[p].cells) - 1)
            /\ handle.header.NumBlocks = Len(file[p].cells)
        BY <2>1, <3>1 DEF Headings
      <4>2. AllData(file'[p], Len(file[p].cells) - 1)
        BY <2>2, <4>1 DEF AllData
      <4> QED
        BY <1>0, <2>2, <2>4, <2>5, <2>7, <4>1, <4>2 DEF Exact
    <3>4. Readable(file'[p])
      BY <1>0, <2>2, <2>4, <2>5, <2>6 DEF Readable, EndOfFile
    <3>5. file'[p].cells[file'[p].header.offAppendix] = Appendix(file'[p].header.NumBlocks)
      BY <1>0, <2>2, <2>4, <2>5
    <3>6. Len(file'[p].cells) = file'[p].header.offAppendix
      BY <2>2, <2>4, <2>5
    <3> QED
      BY <3>2, <3>4, <3>5, <3>6 DEF Complete
  <2>9. \A q \in Paths : DataOf(file'[q]) = DataOf(file[q]) /\ file'[q].exists = file[q].exists
    BY <2>2 DEF DataOf
  <2>10. ClosedFiles'
    <3>1. CASE p = "current"
      <4>1. file'["archive"] = file["archive"]
        BY <1>0, <2>2, <3>1
      <4> QED
        BY <2>1, <2>3, <2>8, <3>1, <4>1 DEF ClosedFiles
    <3>2. CASE p = "archive"
      <4>1. file'["current"] = file["current"] /\ file["archive"].exists
        BY <1>0, <2>2, <2>6, <3>2
      <4> QED
        BY <1>0, <2>1, <2>3, <2>8, <2>9, <3>2, <4>1 DEF ClosedFiles
    <3> QED
      BY <1>0, <3>1, <3>2
  <2>11. Tallied'
    BY <2>1, <2>3 DEF Tallied
  <2>12. Gathered'
    <3>1. Moving = {} /\ Left = {} /\ Moving' = {} /\ Left' = {}
      BY <2>1, NothingMoves, StillNothing
    <3> QED
      BY <1>0, <2>1, <2>3, <2>9, <3>1 DEF Gathered
  <2> QED
    BY <2>10, <2>11, <2>12
<1> QED
  BY <1>1, <1>2

LEMMA RotateSound ==
  ASSUME EnoughWorkers, Base, Base', ClosedFiles, Tallied, Gathered,
         \/ Rename \/ AppendFile \/ AppendFileFails \/ OpenSource \/ OpenSourceFails
         \/ Unlink \/ UpdateBooks
  PROVE  ClosedFiles' /\ Tallied' /\ Gathered'
<1> DEFINE f == file["archive"]
           c == file["current"]
<1>0. /\ file \in [Paths -> Files] /\ Paths = {"current", "archive"} /\ f \in Files /\ c \in Files
      /\ HeaderOK(f.header) /\ HeaderOK(c.header)
      /\ handle.path = "archive" => main \notin {"rename", "unlink", "book", "idle", "dead"}
  BY DEF Base, TypeOK, Files, Paths, Headers, Order, Closed
<1>1. CASE Rename
  <2>1. /\ main = "rename" /\ main' = "book" /\ handle' = handle /\ pushed' = pushed /\ ~f.exists
        /\ file' = [file EXCEPT !["archive"] = file["current"], !["current"] = Missing]
    BY <1>1 DEF Rename
  <2>2. file'["archive"] = c /\ file'["current"] = Missing
    BY <1>0, <2>1
  <2>3. ~Open' /\ ~Appending' /\ Complete(c) /\ DataOf(f) = {} /\ DataOf(Missing) = {}
    <3>1. ~Open' /\ ~Appending'
      BY <2>1 DEF Open, Appending
    <3>2. Complete(c) /\ f = Missing
      BY <2>1 DEF ClosedFiles
    <3>3. DataOf(Missing) = {}
      BY DEF DataOf, Missing
    <3> QED
      BY <3>1, <3>2, <3>3
  <2>4. Moving = {} /\ Moving' = {}
    BY <2>1, NothingMoves, StillNothing
  <2>5. c.exists
    BY <2>3 DEF Complete, Readable
  <2>6. ClosedFiles'
    BY <2>1, <2>2, <2>3, <2>5 DEF ClosedFiles
  <2>7. Tallied'
    BY <2>1, <2>3 DEF Tallied
  <2>8. Gathered'
    BY <2>1, <2>2, <2>3, <2>4 DEF Gathered
  <2> QED
    BY <2>6, <2>7, <2>8
<1>2. CASE AppendFile
  <2>1. /\ main = "rename" /\ main' = "source" /\ Readable(f)
        /\ handle'.path = "archive" /\ handle'.header = f.header /\ handle'.stat = ReadStat(f)
        /\ file'["current"] = c /\ file'["archive"].exists = f.exists
        /\ file'["archive"].header = f.header
        /\ file'["archive"].cells = Cut(f)
    BY <1>2, AppendOpened
  <2>2. pushed' = pushed /\ f.exists /\ ~Appending /\ Open' /\ Appending'
    BY <1>0, <1>2, <2>1 DEF AppendFile, history, Readable, Appending, Open
  <2>3. Complete(f) /\ Complete(c)
    BY <2>1, <2>2 DEF ClosedFiles
  <2>4. /\ Cut(f) \in Seq(Cells) /\ Len(Cut(f)) = f.header.NumBlocks
        /\ \A k \in 1 .. Len(Cut(f)) : k \in DOMAIN f.cells /\ Cut(f)[k] = f.cells[k]
    BY <1>0, <2>1, <2>3, CutComplete
  <2>5. DataOf(file'["archive"]) = DataOf(f)
    <3> DEFINE n == f.header.NumBlocks
               g == file'["archive"]
    <3>1. /\ \A k \in 1 .. n : f.cells[k].type = "data"
          /\ DataOf(f) = Front(f, n)
      BY <1>0, <2>3, CompleteFacts
    <3>2. g.cells = Cut(f) /\ DOMAIN g.cells = 1 .. n /\ \A k \in 1 .. n : g.cells[k] = f.cells[k]
      BY <2>1, <2>4
    <3> HIDE DEF n, g
    <3>3. {j \in DOMAIN g.cells : g.cells[j].type = "data"} = 1 .. n
      BY <3>1, <3>2
    <3>4. DataOf(g) = Front(f, n)
      BY <3>2, <3>3 DEF DataOf, Front
    <3> QED
      BY <3>1, <3>4 DEF g
  <2>6. Moving = {} /\ Moving' = {}
    BY <2>1, NothingMoves, StillNothing
  <2>7. Load' = 0 /\ source'.stat = 0
    <3>1. Writing' = {} /\ chan' = <<>> /\ source' = NoSource
      BY <2>1 DEF Base, Order, Writing
    <3> QED
      BY <3>1, FS_EmptySet DEF Load, NoSource
  <2>8. handle'.header.NumBlocks = handle'.stat /\ handle'.stat \in Nat
    BY <1>0, <2>1, <2>3, CompleteFacts
  <2>9. ClosedFiles'
    BY <2>1, <2>2, <2>3 DEF ClosedFiles
  <2>10. Tallied'
    BY <2>1, <2>7, <2>8 DEF Tallied
  <2>11. Gathered'
    BY <2>1, <2>2, <2>5, <2>6 DEF Gathered
  <2> QED
    BY <2>9, <2>10, <2>11
<1>3. ~AppendFileFails
  <2>1. ASSUME AppendFileFails PROVE FALSE
    <3>1. main = "rename" /\ f.exists /\ ~Readable(f)
      BY <2>1 DEF AppendFileFails
    <3>2. ~Appending
      BY <1>0, <3>1 DEF Appending
    <3> QED
      BY <3>1, <3>2 DEF ClosedFiles, Complete
  <2> QED
    BY <2>1
<1>4. CASE OpenSource
  <2>1. /\ main = "source" /\ main' = "push" /\ handle' = handle /\ file' = file /\ pushed' = pushed
        /\ source' = [blocks |-> ReadBlocks(c), stat |-> ReadStat(c)]
    BY <1>4 DEF OpenSource, history
  <2>2. Complete(c) /\ Open /\ Open' /\ (Appending' <=> Appending)
    BY <2>1 DEF ClosedFiles, Open, Appending
  <2>3. Moving = {} /\ Writing' = {} /\ chan' = <<>> /\ Load' = Len(ReadBlocks(c))
    BY <1>4, <2>1, NothingMoves, OpenLoad
  <2>4. Moving' = {}
    BY <2>3 DEF Moving
  <2>5. /\ Len(ReadBlocks(c)) = c.header.NumBlocks /\ ReadStat(c) = c.header.NumBlocks
        /\ c.header.NumBlocks \in Nat
        /\ {ReadBlocks(c)[k] : k \in DOMAIN ReadBlocks(c)} = DataOf(c)
    BY <1>0, <2>2, CompleteFacts
  <2>6. Left' = DataOf(c)
    BY <2>1, <2>5 DEF Left
  <2>7. ClosedFiles'
    BY <2>1, <2>2 DEF ClosedFiles
  <2>8. Tallied'
    <3>1. handle.header.NumBlocks + 0 = handle.stat + 0
      BY <2>1, <2>2, NothingMoves DEF Tallied
    <3>2. handle.header \in Header /\ handle.stat \in Nat
      BY DEF Base, TypeOK
    <3>3. handle.header.NumBlocks = handle.stat /\ handle.stat \in Nat
      BY <3>1, <3>2, HeaderTypes
    <3>4. handle'.header.NumBlocks + Load' = handle'.stat + source'.stat
      BY <2>1, <2>3, <2>5, <3>3
    <3> QED
      BY <2>1, <3>4 DEF Tallied
  <2>9. Gathered'
    BY <2>1, <2>3, <2>4, <2>6 DEF Gathered
  <2> QED
    BY <2>7, <2>8, <2>9
<1>5. ~OpenSourceFails
  BY DEF OpenSourceFails, ClosedFiles, Complete
<1>6. CASE Unlink
  <2>1. /\ main = "unlink" /\ main' = "book" /\ handle' = handle /\ pushed' = pushed
        /\ file' = [file EXCEPT !["current"] = Missing]
    BY <1>6 DEF Unlink, history
  <2>2. file'["archive"] = f /\ file'["current"] = Missing
    BY <1>0, <2>1
  <2>3. ~Open' /\ ~Appending' /\ ~Appending /\ DataOf(Missing) = {}
    BY <1>0, <2>1 DEF Open, Appending, DataOf, Missing
  <2>4. Moving = {} /\ Left = {} /\ Moving' = {}
    BY <2>1, NothingMoves, StillNothing
  <2>5. ClosedFiles'
    BY <2>1, <2>2, <2>3 DEF ClosedFiles
  <2>6. Tallied'
    BY <2>1, <2>3 DEF Tallied
  <2>7. Gathered'
    BY <2>1, <2>2, <2>3, <2>4 DEF Gathered
  <2> QED
    BY <2>5, <2>6, <2>7
<1>7. CASE UpdateBooks
  <2>1. /\ main = "book" /\ main' = "idle" /\ UNCHANGED <<file, handle, pushed>>
    BY <1>7 DEF UpdateBooks, history
  <2>2. ~Open' /\ ~Appending' /\ ~Appending
    BY <1>0, <2>1 DEF Open, Appending
  <2>3. Moving = {} /\ Moving' = {}
    BY <2>1, NothingMoves, StillNothing
  <2>4. ClosedFiles'
    BY <2>1, <2>2 DEF ClosedFiles
  <2>5. Tallied'
    BY <2>1, <2>2 DEF Tallied
  <2>6. Gathered'
    BY <2>1, <2>2, <2>3 DEF Gathered
  <2> QED
    BY <2>4, <2>5, <2>6
<1> QED
  BY <1>1, <1>2, <1>3, <1>4, <1>5, <1>6, <1>7

LEMMA StepSound ==
  ASSUME EnoughWorkers, Safe, Safe', Sound, [Next]_vars
  PROVE  Sound'
<1> SUFFICES ASSUME NoFault' PROVE (ClosedFiles /\ Tallied /\ Gathered)'
  BY DEF Sound
<1>1. NoFault
  BY FaultsStay DEF Safe
<1>2. ClosedFiles /\ Tallied /\ Gathered /\ NoHeaderFault
  BY <1>1 DEF Sound, NoFault, NoHeaderFault, Calls
<1>3. CASE UNCHANGED vars
  <2>1. UNCHANGED <<file, handle, worker, chan, main, source, pushed>>
    BY <1>3 DEF vars, queue, history
  <2>2. ClosedFiles'
    BY <1>2, <2>1 DEF ClosedFiles, Open, Appending
  <2>3. Tallied'
    BY <1>2, <2>1 DEF Tallied, Open, Load, Writing, Whole
  <2>4. Gathered'
    BY <1>2, <2>1 DEF Gathered, Appending, Open, Moving, Left, Writing
  <2> QED
    BY <2>2, <2>3, <2>4
<1>4. CASE Next
  <2>1. /\ ~OpenNewFileFails /\ ~WriteAppendixFails /\ ~WriteHeaderFails /\ ~Crash
        /\ \A s \in Slots : ~WriterFails(s)
    BY FaultsStay DEF Safe
  <2> QED
    BY <1>2, <1>3, <1>4, <2>1, WriterSound, OpenSound, FlushSound, CloseSound, RotateSound
       DEF Safe, Next, Owner, Finished, Stuck
<1> QED
  BY <1>3, <1>4

LEMMA InitSound == Init => Sound
<1> SUFFICES ASSUME Init PROVE ClosedFiles /\ Tallied /\ Gathered
  BY DEF Sound
<1>1. /\ main = "idle" /\ handle = Closed /\ pushed = {} /\ file = [p \in Paths |-> Missing]
      /\ worker = Idle /\ chan = <<>>
  BY DEF Init
<1>2. ~Open /\ ~Appending
  BY <1>1 DEF Open, Appending
<1>3. file["archive"] = Missing /\ file["current"] = Missing
  BY <1>1 DEF Paths
<1>4. DataOf(Missing) = {} /\ ~Missing.exists
  BY DEF DataOf, Missing
<1>5. Moving = {}
  BY <1>1 DEF Moving, Writing, Idle, NoThread
<1>6. ClosedFiles
  BY <1>1, <1>2, <1>3, <1>4 DEF ClosedFiles
<1>7. Tallied
  BY <1>1, <1>2 DEF Tallied
<1>8. Gathered
  BY <1>1, <1>2, <1>3, <1>4, <1>5 DEF Gathered
<1> QED
  BY <1>6, <1>7, <1>8

LEMMA SoundStat ==
  ASSUME Base, Sound
  PROVE  StatMatchesBlocks
<1> SUFFICES ASSUME NoFault, NEW p \in Paths, Readable(file[p]), ~BeingWritten(p)
             PROVE  ReadStat(file[p]) = file[p].header.NumBlocks
  BY DEF StatMatchesBlocks
<1>1. Complete(file[p])
  <2>1. CASE p = "archive"
    <3>1. ~Appending /\ file["archive"].exists
      BY <2>1 DEF Appending, BeingWritten, Open, Readable
    <3> QED
      BY <2>1, <3>1 DEF Sound, ClosedFiles
  <2>2. CASE p = "current"
    <3>1. main \notin {"idle", "book", "dead"}
      BY <2>2 DEF Sound, ClosedFiles, Readable, Missing
    <3>2. CASE main \in {"push", "sync", "join", "appendix", "header"}
      <4>1. handle.path # "current"
        BY <2>2, <3>2 DEF BeingWritten
      <4>2. Appending
        BY <3>2, <4>1 DEF Appending, Open, Base, TypeOK, Paths
      <4> QED
        BY <2>2, <4>2 DEF Sound, ClosedFiles
    <3>3. CASE main \in {"rename", "source", "unlink"}
      BY <2>2, <3>3 DEF Sound, ClosedFiles
    <3> QED
      BY <3>1, <3>2, <3>3 DEF Base, TypeOK
  <2> QED
    BY <2>1, <2>2 DEF Paths
<1>2. file[p] \in Files /\ HeaderOK(file[p].header)
  BY DEF Base, TypeOK, Files, Headers
<1> QED
  BY <1>1, <1>2, CompleteFacts

LEMMA SoundArchive ==
  ASSUME Base, Sound
  PROVE  NothingLost
<1> SUFFICES ASSUME NoFault, main = "idle"
             PROVE  pushed = Content(file["archive"])
  BY DEF NothingLost
<1> DEFINE f == file["archive"]
<1>0. f \in Files /\ HeaderOK(f.header) /\ ~Appending
  BY DEF Base, TypeOK, Files, Paths, Headers, Appending, Open
<1>1. file["current"] = Missing /\ DataOf(Missing) = {}
  BY DEF Sound, ClosedFiles, DataOf, Missing
<1>2. pushed = DataOf(f)
  BY <1>1, NothingMoves DEF Sound, Gathered
<1>3. CASE f.exists
  <2>1. Complete(f)
    BY <1>0, <1>3 DEF Sound, ClosedFiles
  <2> QED
    BY <1>0, <1>2, <2>1, CompleteFacts
<1>4. CASE ~f.exists
  <2>1. DataOf(f) = {} /\ Content(f) = {}
    BY <1>0, <1>1, <1>4 DEF Sound, ClosedFiles, Content, Readable
  <2> QED
    BY <1>2, <2>1
<1> QED
  BY <1>3, <1>4

(* Writing, closing, renaming and appending keep the types, and while no   *)
(* call fails the stat record of a closed file counts its blocks and every *)
(* block that was pushed is in the archive after the rotation (nfwrite,    *)
(* FlushFile, CloseUpdateFile, RenameAppend).                              *)
THEOREM RotationInvariant ==
  ASSUME EnoughWorkers
  PROVE  Spec => []IInv
<1>1. Init => Safe /\ Sound
  BY InitSafe, InitSound
<1>2. Safe /\ Sound /\ [Next]_vars => (Safe /\ Sound)'
  BY StepSafe, StepSound
<1>3. Safe /\ Sound => IInv
  BY SoundStat, SoundArchive DEF Safe, Base, IInv
<1> QED
  BY <1>1, <1>2, <1>3, PTL DEF Spec

-------------------------------------------------------------------------------
(* Rotations implement FlowArchive                                         *)

(* While blocks are appended to the archive, those that are not counted    *)
(* there yet, on their way or in the file, are those of the closed file.   *)
Carried ==
    NoFault /\ Appending =>
        LET f == file["archive"]
        IN  /\ DataOf(f) \subseteq Front(f, f.header.NumBlocks) \cup DataOf(file["current"])
            /\ Moving \cup Left \subseteq DataOf(file["current"])

LEMMA StepCarried ==
  ASSUME EnoughWorkers, Safe, Safe', Kept, Sound, Carried, [Next]_vars
  PROVE  Carried'
<1> DEFINE f == file["archive"]
           g == file'["archive"]
           c == file["current"]
           d == file'["current"]
<1> SUFFICES ASSUME NoFault', Appending'
             PROVE  /\ DataOf(g) \subseteq Front(g, g.header.NumBlocks) \cup DataOf(d)
                    /\ Moving' \cup Left' \subseteq DataOf(d)
  BY DEF Carried
<1>0. /\ file \in [Paths -> Files] /\ Paths = {"current", "archive"} /\ f \in Files /\ c \in Files
      /\ HeaderOK(f.header) /\ HeaderOK(c.header) /\ Base /\ Base'
  BY DEF Safe, Base, TypeOK, Files, Paths, Headers
<1>1. /\ ~OpenNewFileFails /\ ~WriteAppendixFails /\ ~WriteHeaderFails /\ ~Crash /\ NoFault
      /\ \A s \in Slots : ~WriterFails(s)
  BY <1>0, FaultsStay
<1>2. ClosedFiles
  BY <1>1 DEF Sound
<1>3. Appending => /\ DataOf(f) \subseteq Front(f, f.header.NumBlocks) \cup DataOf(c)
                   /\ Moving \cup Left \subseteq DataOf(c)
                   /\ Solid(f)
  BY <1>1 DEF Carried, Kept, Usable
<1>4. CASE UNCHANGED vars
  BY <1>3, <1>4 DEF vars, queue, Appending, Open, Moving, Left, Writing
<1>5. ASSUME NEW s \in Slots, Writer(s)
      PROVE  /\ DataOf(g) \subseteq Front(g, g.header.NumBlocks) \cup DataOf(d)
             /\ Moving' \cup Left' \subseteq DataOf(d)
  <2>1. /\ handle'.path = handle.path /\ main' = main /\ source' = source
    BY <1>5 DEF Writer, WriterPop, WriterExit, WriterWrite, Base, TypeOK, Safe
  <2>2. Appending /\ Left' = Left /\ handle.path = "archive"
    BY <2>1 DEF Appending, Open, Left
  <2>3. CASE WriterPop(s) \/ WriterExit(s)
    <3>1. file' = file /\ Moving' = Moving
      BY <1>0, <1>5, <2>3, WriterMoves DEF WriterPop, WriterExit
    <3> QED
      BY <1>3, <2>2, <3>1
  <2>4. CASE WriterWrite(s)
    <3> DEFINE b == worker[s].block
    <3>1. /\ Data(b) \in Cells /\ file' = [file EXCEPT !["archive"] = Extended(@, Data(b))]
      BY <1>0, <2>2, <2>4, WriteAppends
    <3>2. g = Extended(f, Data(b)) /\ d = c
      BY <1>0, <3>1
    <3>3. Moving = Moving' \cup {b}
      BY <1>0, <1>5, <2>4, WriterMoves
    <3>4. Data(b).type = "data" /\ Data(b).val = b
      BY DEF Data
    <3>5. DataOf(g) = DataOf(f) \cup {b}
      BY <1>0, <3>1, <3>2, <3>4, ExtendedData
    <3>6. /\ Front(g, f.header.NumBlocks) = Front(f, f.header.NumBlocks)
          /\ g.header = f.header
      BY <1>0, <1>3, <2>2, <3>1, <3>2, ExtendedKept, ExtendedFacts
    <3> QED
      BY <1>3, <2>2, <3>2, <3>3, <3>5, <3>6
  <2> QED
    BY <1>5, <2>3, <2>4 DEF Writer
<1>6. CASE PushBlock \/ StartFlush \/ QueueSync \/ JoinWriters
  <2>1. /\ file' = file /\ handle'.path = handle.path
        /\ main \in {"push", "sync", "join"}
    BY <1>0, <1>6 DEF PushBlock, StartFlush, QueueSync, JoinWriters, Base, TypeOK
  <2>2. Appending
    BY <2>1 DEF Appending, Open
  <2>3. PICK new : /\ Moving' = Moving \cup new /\ Left = Left' \cup new
    BY <1>0, <1>6, FlushMoves
  <2> QED
    BY <1>3, <2>1, <2>2, <2>3
<1>7. CASE WriteAppendix
  <2> DEFINE a == Appendix(handle.stat)
  <2>1. /\ main = "appendix" /\ main' = "header" /\ handle'.path = handle.path
    BY <1>0, <1>7, AppendixHandle DEF WriteAppendix
  <2>2. Appending /\ handle.path = "archive"
    BY <2>1 DEF Appending, Open
  <2>3. a \in Cells /\ a.type # "data" /\ file' = [file EXCEPT !["archive"] = Extended(@, a)]
    BY <1>0, <1>7, <2>2, AppendixAppends DEF Appendix
  <2>4. g = Extended(f, a) /\ d = c
    BY <1>0, <2>3
  <2>5. DataOf(g) = DataOf(f)
    BY <1>0, <2>3, <2>4, ExtendedData
  <2>6. /\ Front(g, f.header.NumBlocks) = Front(f, f.header.NumBlocks)
        /\ g.header = f.header
    BY <1>0, <1>3, <2>2, <2>3, <2>4, ExtendedKept, ExtendedFacts
  <2>7. Moving' = {} /\ Left' = {}
    BY <1>0, <2>1, StillNothing
  <2> QED
    BY <1>3, <2>2, <2>4, <2>5, <2>6, <2>7
<1>8. CASE AppendFile
  <2>1. /\ main' = "source" /\ Readable(f) /\ g.header = f.header /\ g.cells = Cut(f) /\ main = "rename"
    BY <1>0, <1>8, AppendOpened
  <2>2. Complete(f)
    <3>1. ~Appending /\ f.exists
      BY <2>1 DEF Appending, Open, Readable
    <3> QED
      BY <1>2, <3>1 DEF ClosedFiles
  <2>3. Cut(f) \in Seq(Cells) /\ Len(Cut(f)) = f.header.NumBlocks
    BY <1>0, <2>1, <2>2, CutComplete
  <2>4. DOMAIN g.cells = 1 .. g.header.NumBlocks
    BY <2>1, <2>3
  <2>5. DataOf(g) \subseteq Front(g, g.header.NumBlocks)
    BY <2>4 DEF DataOf, Front
  <2>6. Moving' = {} /\ Left' = {}
    BY <1>0, <2>1, StillNothing
  <2> QED
    BY <2>5, <2>6
<1>9. CASE OpenSource
  <2>1. /\ main = "source" /\ handle' = handle /\ file' = file
        /\ source'.blocks = ReadBlocks(c)
    BY <1>9 DEF OpenSource
  <2>2. Appending /\ Complete(c)
    BY <1>2, <2>1 DEF Appending, Open, ClosedFiles
  <2>3. Writing' = {} /\ chan' = <<>>
    BY <1>0, <1>9, OpenLoad
  <2>4. Moving' = {}
    BY <2>3 DEF Moving
  <2>5. Left' = DataOf(c)
    BY <1>0, <2>1, <2>2, CompleteFacts DEF Left
  <2> QED
    BY <1>3, <2>1, <2>2, <2>4, <2>5
<1>10. CASE \/ OpenNewFile \/ WriteHeader \/ Rename \/ AppendFileFails \/ OpenSourceFails
            \/ Unlink \/ UpdateBooks
  <2>1. ~Appending'
    <3>1. CASE OpenNewFile
      BY <3>1 DEF OpenNewFile, Appending, Closed
    <3>2. CASE \/ WriteHeader \/ Rename \/ AppendFileFails \/ OpenSourceFails
               \/ Unlink \/ UpdateBooks
      BY <3>2 DEF WriteHeader, AfterHeader, Rename, AppendFileFails, OpenSourceFails,
        Unlink, UpdateBooks, Appending, Open
    <3> QED
      BY <1>10, <3>1, <3>2
  <2> QED
    BY <2>1
<1> QED
  BY <1>1, <1>4, <1>5, <1>6, <1>7, <1>8, <1>9, <1>10 DEF Next, Owner, Finished, Stuck

LEMMA InitCarried == Init => Carried
  BY DEF Init, Carried, Appending, Closed

LEMMA ReadFront ==
  ASSUME NEW f \in Files, f.header.NumBlocks <= Len(f.cells)
  PROVE  {c.val : c \in {ReadCells(f)[k] : k \in DOMAIN ReadCells(f)}}
            = Front(f, f.header.NumBlocks)
<1> DEFINE r == ReadCells(f)
           n == f.header.NumBlocks
<1>1. DOMAIN r = 1 .. n /\ \A k \in 1 .. n : r[k] = f.cells[k]
  BY SolidContent, ReadTypes
<1> HIDE DEF r, n
<1>2. {c.val : c \in {r[k] : k \in DOMAIN r}} = Front(f, n)
  BY <1>1 DEF Front
<1> QED
  BY <1>2 DEF r, n

(* What a reader of the archive gets, before and after a step.             *)
LEMMA ArchiveView ==
  ASSUME Safe, Kept, Sound, NoFault
  PROVE  /\ ArchivedBlocks = Front(file["archive"], file["archive"].header.NumBlocks)
         /\ ~Appending => ArchivedBlocks = DataOf(file["archive"])
<1> DEFINE f == file["archive"]
<1>1. f \in Files /\ HeaderOK(f.header)
  BY DEF Safe, Base, TypeOK, Files, Paths, Headers
<1>2. CASE f.exists
  <2>1. Solid(f)
    BY <1>2 DEF Sound, ClosedFiles, Complete, Kept, Usable
  <2>2. ArchivedBlocks = Front(f, f.header.NumBlocks)
    BY <1>1, <2>1, ReadFront DEF ArchivedBlocks, Solid
  <2>3. ~Appending => DataOf(f) = Front(f, f.header.NumBlocks)
    BY <1>1, <1>2, CompleteFacts DEF Sound, ClosedFiles
  <2> QED
    BY <2>2, <2>3
<1>3. CASE ~f.exists
  <2>1. f = Missing
    BY <1>3 DEF Sound, ClosedFiles
  <2>2. f.header.NumBlocks = 0 /\ Len(f.cells) = 0
    BY <2>1 DEF Missing, EmptyHeader
  <2>3. ArchivedBlocks = Front(f, f.header.NumBlocks)
    BY <1>1, <2>2, ReadFront DEF ArchivedBlocks
  <2>4. Front(f, f.header.NumBlocks) = {} /\ DataOf(f) = {}
    BY <2>1, <2>2 DEF Front, DataOf, Missing
  <2> QED
    BY <2>3, <2>4
<1> QED
  BY <1>2, <1>3

LEMMA ArchiveViewNext ==
  ASSUME Base', NEW n, file'["archive"].header.NumBlocks = n, n <= Len(file'["archive"].cells)
  PROVE  ArchivedBlocks' = Front(file'["archive"], n)
<1>1. file'["archive"] \in Files
  BY DEF Base, TypeOK, Files, Paths
<1> QED
  BY <1>1, ReadFront DEF ArchivedBlocks

LEMMA SameView ==
  ASSUME file' = file,
         \/ handle'.path = "archive" /\ handle.path = "archive"
         \/ /\ handle'.path = handle.path
            /\ main \notin {"rename", "source"} /\ main' \notin {"rename", "source"}
  PROVE  UNCHANGED <<ArchivedBlocks, PendingBlocks>>
<1>1. ArchivedBlocks' = ArchivedBlocks
  BY DEF ArchivedBlocks
<1>2. PendingBlocks' = PendingBlocks
  BY DEF PendingBlocks
<1> QED
  BY <1>1, <1>2

LEMMA ExtendView ==
  ASSUME Safe, Safe', Kept, NEW cell \in Cells,
         file' = [file EXCEPT ![handle.path] = Extended(@, cell)],
         handle'.path = handle.path, Open, main # "source",
         main' \notin {"rename", "source"}
  PROVE  UNCHANGED <<ArchivedBlocks, PendingBlocks>>
<1> DEFINE f == file["archive"]
<1>0. /\ file \in [Paths -> Files] /\ Paths = {"current", "archive"} /\ f \in Files
      /\ handle.path \in Paths /\ Base'
  BY DEF Safe, Base, TypeOK, Files, Paths
<1>1. CASE handle.path = "current"
  <2>1. file'["archive"] = f
    BY <1>0, <1>1
  <2>2. ArchivedBlocks' = ArchivedBlocks
    BY <2>1 DEF ArchivedBlocks
  <2>3. PendingBlocks' = {} /\ PendingBlocks = {}
    BY <1>1 DEF PendingBlocks, Open
  <2> QED
    BY <2>2, <2>3
<1>2. CASE handle.path = "archive"
  <2>1. file'["archive"] = Extended(f, cell) /\ file'["current"] = file["current"]
    BY <1>0, <1>2
  <2>2. Solid(f)
    BY <1>2 DEF Kept, Usable, Appending
  <2>3. /\ Front(Extended(f, cell), f.header.NumBlocks) = Front(f, f.header.NumBlocks)
        /\ Extended(f, cell).header = f.header /\ Solid(Extended(f, cell))
    BY <1>0, <2>2, ExtendedKept, ExtendedFacts
  <2>4. ArchivedBlocks = Front(f, f.header.NumBlocks)
    BY <1>0, <2>2, ReadFront DEF ArchivedBlocks, Solid
  <2>5. ArchivedBlocks' = Front(file'["archive"], f.header.NumBlocks)
    BY <1>0, <2>1, <2>3, ArchiveViewNext DEF Solid
  <2>6. PendingBlocks' = PendingBlocks
    BY <1>2, <2>1 DEF PendingBlocks
  <2> QED
    BY <2>1, <2>3, <2>4, <2>5, <2>6
<1> QED
  BY <1>0, <1>1, <1>2

(* What WriteHeader closes is collected, or is in the archive now.         *)
LEMMA HeaderView ==
  ASSUME Safe, Safe', Kept, Sound, Sound', Carried, NoFault, NoFault', WriteHeader
  PROVE  Flows!Next
<1> DEFINE f == file["archive"]
           g == file'["archive"]
           c == file["current"]
           d == file'["current"]
<1>0. /\ file \in [Paths -> Files] /\ Paths = {"current", "archive"} /\ f \in Files /\ c \in Files
      /\ handle.path \in Paths /\ Base /\ Base'
      /\ g \in Files /\ d \in Files /\ HeaderOK(g.header) /\ HeaderOK(d.header) /\ HeaderOK(c.header)
  BY DEF Safe, Base, TypeOK, Files, Paths, Headers
<1>1. /\ main = "header" /\ main' = (IF handle.path = "current" THEN "rename" ELSE "unlink")
      /\ handle'.path = "current"
  BY DEF WriteHeader, AfterHeader, Closed
<1>2. \A q \in Paths : q # handle.path => file'[q] = file[q]
  BY <1>0, HeaderWritten
<1>3. file'[handle.path].cells = file[handle.path].cells
  BY <1>0, HeaderWritten
<1>4. ClosedFiles /\ ClosedFiles' /\ ~Appending'
  BY <1>1 DEF Sound, Appending, Open
<1>5. CASE handle.path = "current"
  <2>1. g = f /\ ~Appending
    BY <1>0, <1>2, <1>5 DEF Appending
  <2>2. ArchivedBlocks = DataOf(f) /\ ArchivedBlocks' = ArchivedBlocks
    <3>1. ArchivedBlocks = DataOf(f)
      BY <2>1, ArchiveView
    <3>2. ArchivedBlocks' = ArchivedBlocks
      BY <2>1 DEF ArchivedBlocks
    <3> QED
      BY <3>1, <3>2
  <2>3. PendingBlocks = {}
    BY <1>1, <1>5 DEF PendingBlocks
  <2>4. Complete(d)
    BY <1>1, <1>4, <1>5 DEF ClosedFiles
  <2>5. PendingBlocks' = DataOf(d)
    BY <1>0, <1>1, <1>5, <2>4, CompleteFacts DEF PendingBlocks
  <2>6. DataOf(d) = DataOf(c)
    BY <1>3, <1>5 DEF DataOf
  <2>7. session > 0 /\ Earlier \in Nat /\ Last <= Quota * Sessions /\ Last \in Nat
    BY <1>0, <1>1, Numbers DEF Safe, Counts
  <2>8. \A x \in DataOf(c) : Earlier < x /\ x <= Last /\ x \in Nat
    BY <1>0, DataTypes DEF Safe, Stored
  <2>9. \A x \in DataOf(f) : x <= Earlier /\ x \in Nat
    BY <1>0, <1>1, <1>5, DataTypes DEF Safe, Stored, FirstPass
  <2>10. DataOf(d) \cap ArchivedBlocks = {}
    BY <2>2, <2>6, <2>7, <2>8, <2>9
  <2>11. DataOf(d) \in SUBSET Blocks
    BY <2>6, <2>7, <2>8, Constants DEF Blocks
  <2>12. Flows!Collect(DataOf(d))
    BY <2>2, <2>3, <2>5, <2>10 DEF Flows!Collect
  <2> QED
    BY <2>11, <2>12 DEF Flows!Next
<1>6. CASE handle.path = "archive"
  <2>1. d = c /\ Appending
    BY <1>0, <1>1, <1>2, <1>6 DEF Appending
  <2>2. ArchivedBlocks = Front(f, f.header.NumBlocks)
    BY ArchiveView
  <2>3. Complete(c)
    BY <1>4, <2>1 DEF ClosedFiles
  <2>4. PendingBlocks = DataOf(c)
    BY <1>0, <1>6, <2>3, CompleteFacts DEF PendingBlocks
  <2>5. PendingBlocks' = {}
    BY <1>1, <1>6 DEF PendingBlocks
  <2>6. f.exists /\ g.exists
    BY <1>0, <1>6, <2>1, <1>4, HeaderWritten DEF ClosedFiles
  <2>7. Complete(g)
    BY <1>4, <2>6 DEF ClosedFiles
  <2>8. ArchivedBlocks' = DataOf(g)
    <3>1. g.header.NumBlocks <= Len(g.cells) /\ DataOf(g) = Front(g, g.header.NumBlocks)
      BY <1>0, <2>7, CompleteFacts
    <3> QED
      BY <1>0, <3>1, ArchiveViewNext
  <2>9. DataOf(g) = DataOf(f)
    BY <1>3, <1>6 DEF DataOf
  <2>10. DataOf(f) \subseteq Front(f, f.header.NumBlocks) \cup DataOf(c)
    BY <2>1 DEF Carried
  <2>11. DataOf(c) \subseteq DataOf(f)
    <3>1. Moving = {} /\ Left = {}
      BY <1>0, <1>1, NothingMoves
    <3> QED
      BY <1>1, <2>1, <3>1 DEF Sound, Gathered
  <2>12. Front(f, f.header.NumBlocks) \subseteq DataOf(f)
    <3>1. /\ f.header.NumBlocks \in Nat /\ f.cells \in Seq(Cells)
          /\ f.header.NumBlocks < handle.header.NumBlocks /\ handle.header.NumBlocks <= Len(f.cells)
      <4>1. ~Torn
        BY <1>0, <1>1 DEF Sound, Tallied, Whole, Torn, Files
      <4> QED
        BY <1>0, <1>1, <2>1, <4>1, SolidContent DEF Kept, Files
    <3>2. AllData(f, Len(f.cells) - 1)
      <4>1. ~Torn /\ NoHeaderFault
        BY <1>0, <1>1 DEF Sound, Tallied, Whole, Torn, Files, NoHeaderFault, NoFault, Calls
      <4>2. Headings
        BY DEF Safe
      <4> QED
        BY <1>1, <1>6, <4>1, <4>2 DEF Headings
    <3>3. handle.header.NumBlocks \in Nat
      <4>1. TypeOK
        BY <1>0 DEF Base
      <4> QED
        BY <4>1, HandleCount
    <3>4. \A k \in 1 .. f.header.NumBlocks : k \in DOMAIN f.cells /\ f.cells[k].type = "data"
      <4> DEFINE n == f.header.NumBlocks
                 l == Len(f.cells)
      <4>1. n \in Nat /\ l \in Nat /\ n < l /\ DOMAIN f.cells = 1 .. l
        BY <3>1, <3>3
      <4>2. \A k \in 1 .. l - 1 : f.cells[k].type = "data"
        BY <3>2 DEF AllData
      <4> HIDE DEF n, l
      <4>3. \A k \in 1 .. n : k \in 1 .. l /\ k \in 1 .. l - 1
        BY <4>1
      <4>4. \A k \in 1 .. n : k \in DOMAIN f.cells /\ f.cells[k].type = "data"
        BY <4>1, <4>2, <4>3
      <4> QED
        BY <4>4 DEF n
    <3> QED
      BY <3>4 DEF Front, DataOf
  <2>13. ArchivedBlocks' = ArchivedBlocks \cup PendingBlocks
    BY <2>2, <2>4, <2>8, <2>9, <2>10, <2>11, <2>12
  <2>14. Flows!Archive
    BY <2>5, <2>13 DEF Flows!Archive
  <2> QED
    BY <2>14 DEF Flows!Next
<1> QED
  BY <1>0, <1>5, <1>6

(* RenameAppend puts the blocks of the closed file into the archive, or    *)
(* leaves that to CloseUpdateFile.                                         *)
LEMMA RotateView ==
  ASSUME EnoughWorkers, Safe, Safe', Kept, Sound, NoFault,
         \/ Rename \/ AppendFile \/ AppendFileFails \/ OpenSource \/ OpenSourceFails
         \/ Unlink \/ UpdateBooks
  PROVE  Flows!Next \/ UNCHANGED <<ArchivedBlocks, PendingBlocks>>
<1> DEFINE f == file["archive"]
           g == file'["archive"]
           c == file["current"]
<1>0. /\ file \in [Paths -> Files] /\ Paths = {"current", "archive"} /\ f \in Files /\ c \in Files
      /\ HeaderOK(f.header) /\ HeaderOK(c.header) /\ Base /\ Base' /\ ClosedFiles
      /\ main \in {"rename", "unlink", "book"} => handle.path = "current"
  <2>1. Base
    BY DEF Safe
  <2>2. Base' /\ ClosedFiles
    BY DEF Safe, Sound
  <2>3. Paths = {"current", "archive"}
    BY DEF Paths
  <2>4. file \in [Paths -> Files]
    BY <2>1 DEF Base, TypeOK, Files
  <2>5. f \in Files /\ c \in Files
    BY <2>3, <2>4
  <2>6. HeaderOK(f.header) /\ HeaderOK(c.header)
    BY <2>1, <2>3 DEF Base, Headers
  <2>7. main \in {"rename", "unlink", "book"} => handle.path = "current"
    BY <2>1 DEF Base, Order, Closed
  <2> QED
    BY <2>1, <2>2, <2>3, <2>4, <2>5, <2>6, <2>7
<1>1. CASE Rename
  <2>1. /\ main = "rename" /\ main' = "book" /\ handle' = handle /\ ~f.exists
        /\ file' = [file EXCEPT !["archive"] = file["current"], !["current"] = Missing]
    BY <1>1 DEF Rename
  <2>2. g = c /\ Complete(c) /\ f = Missing
    BY <1>0, <2>1 DEF ClosedFiles
  <2>3. PendingBlocks = DataOf(c) /\ PendingBlocks' = {}
    BY <1>0, <2>1, <2>2, CompleteFacts DEF PendingBlocks
  <2>4. ArchivedBlocks = {}
    <3>1. ~Appending /\ DataOf(Missing) = {}
      BY <1>0, <2>1 DEF Appending, DataOf, Missing
    <3> QED
      BY <2>2, <3>1, ArchiveView
  <2>5. ArchivedBlocks' = DataOf(c)
    <3>1. g.header.NumBlocks <= Len(g.cells) /\ DataOf(c) = Front(g, g.header.NumBlocks)
      BY <1>0, <2>2, CompleteFacts
    <3> QED
      BY <1>0, <3>1, ArchiveViewNext
  <2>6. Flows!Archive
    BY <2>3, <2>4, <2>5 DEF Flows!Archive
  <2> QED
    BY <2>6 DEF Flows!Next
<1>2. CASE AppendFile
  <2>1. /\ main = "rename" /\ main' = "source" /\ Readable(f)
        /\ file'["current"] = c /\ g.header = f.header /\ g.cells = Cut(f)
    BY <1>0, <1>2, AppendOpened
  <2>2. Complete(f)
    <3>1. ~Appending /\ f.exists
      BY <1>0, <2>1 DEF Appending, Readable
    <3> QED
      BY <1>0, <3>1 DEF ClosedFiles
  <2>3. /\ Cut(f) \in Seq(Cells) /\ Len(Cut(f)) = f.header.NumBlocks
        /\ \A k \in 1 .. Len(Cut(f)) : k \in DOMAIN f.cells /\ Cut(f)[k] = f.cells[k]
    BY <1>0, <2>1, <2>2, CutComplete
  <2>4. ArchivedBlocks' = Front(g, g.header.NumBlocks)
    <3>1. g.header.NumBlocks <= Len(g.cells)
      BY <2>1, <2>3
    <3> QED
      BY <1>0, <3>1, ArchiveViewNext
  <2>5. Front(g, g.header.NumBlocks) = Front(f, f.header.NumBlocks)
    BY <2>1, <2>3 DEF Front
  <2>6. ArchivedBlocks' = ArchivedBlocks
    BY <2>4, <2>5, ArchiveView
  <2>7. PendingBlocks' = PendingBlocks
    BY <2>1 DEF PendingBlocks
  <2> QED
    BY <2>6, <2>7
<1>3. CASE OpenSource
  BY <1>0, <1>3, SameView DEF OpenSource, Base, Order
<1>4. CASE UpdateBooks
  BY <1>0, <1>4, SameView DEF UpdateBooks
<1>5. CASE Unlink
  <2>1. /\ main = "unlink" /\ main' = "book" /\ handle' = handle
        /\ file' = [file EXCEPT !["current"] = Missing]
    BY <1>5 DEF Unlink
  <2>2. g = f
    BY <1>0, <2>1
  <2>3. PendingBlocks = {} /\ PendingBlocks' = {}
    BY <1>0, <2>1 DEF PendingBlocks
  <2> QED
    BY <2>2, <2>3 DEF ArchivedBlocks
<1>6. ~AppendFileFails
  <2>1. ASSUME AppendFileFails PROVE FALSE
    <3>1. main = "rename" /\ f.exists /\ ~Readable(f)
      BY <2>1 DEF AppendFileFails
    <3>2. ~Appending
      BY <1>0, <3>1 DEF Appending
    <3> QED
      BY <1>0, <3>1, <3>2 DEF ClosedFiles, Complete
  <2> QED
    BY <2>1
<1>7. ~OpenSourceFails
  BY <1>0 DEF OpenSourceFails, ClosedFiles, Complete
<1> QED
  BY <1>1, <1>2, <1>3, <1>4, <1>5, <1>6, <1>7

LEMMA StepView ==
  ASSUME EnoughWorkers, Safe, Safe', Kept, Sound, Sound', Carried, [Next]_vars
  PROVE  [NoFault' => Flows!Next]_(Flows!vars)
<1> SUFFICES ASSUME NoFault'
             PROVE  Flows!Next \/ UNCHANGED <<ArchivedBlocks, PendingBlocks>>
  BY DEF Flows!vars
<1>0. Base /\ Base'
  BY DEF Safe
<1>1. /\ ~OpenNewFileFails /\ ~WriteAppendixFails /\ ~WriteHeaderFails /\ ~Crash /\ NoFault
      /\ \A s \in Slots : ~WriterFails(s)
  BY <1>0, FaultsStay
<1>2. CASE UNCHANGED vars
  BY <1>2 DEF vars, ArchivedBlocks, PendingBlocks
<1>3. ASSUME NEW s \in Slots, Writer(s)
      PROVE  UNCHANGED <<ArchivedBlocks, PendingBlocks>>
  <2>1. CASE WriterPop(s) \/ WriterExit(s)
    <3>1. UNCHANGED <<file, handle, main>>
      BY <2>1 DEF WriterPop, WriterExit
    <3> QED
      BY <3>1 DEF ArchivedBlocks, PendingBlocks
  <2>2. CASE WriterWrite(s)
    <3>1. /\ main \in {"push", "sync", "join"} /\ main' = main
          /\ handle'.path = handle.path /\ Data(worker[s].block) \in Cells
          /\ file' = [file EXCEPT ![handle.path] = Extended(@, Data(worker[s].block))]
      BY <1>0, <2>2, WriteAppends DEF WriterWrite, Base, TypeOK
    <3>2. Open
      BY <3>1 DEF Open
    <3> QED
      BY <3>1, <3>2, ExtendView
  <2> QED
    BY <1>3, <2>1, <2>2 DEF Writer
<1>4. CASE OpenNewFile
  <2>1. /\ main = "idle" /\ main' = "push" /\ handle = Closed /\ handle'.path = "current"
        /\ file' = [file EXCEPT !["current"] = [Missing EXCEPT !.exists = TRUE, !.valid = TRUE]]
    BY <1>0, <1>4 DEF OpenNewFile, Base, Order, Closed
  <2>2. file'["archive"] = file["archive"]
    BY <1>0, <2>1 DEF Base, TypeOK, Paths
  <2>3. PendingBlocks = {} /\ PendingBlocks' = {}
    BY <2>1 DEF PendingBlocks, Closed
  <2> QED
    BY <2>2, <2>3 DEF ArchivedBlocks
<1>5. CASE PushBlock \/ StartFlush \/ QueueSync \/ JoinWriters
  <2>1. /\ file' = file /\ handle'.path = handle.path
        /\ main \in {"push", "sync", "join"} /\ main' \in {"push", "sync", "join", "appendix"}
    BY <1>0, <1>5 DEF PushBlock, StartFlush, QueueSync, JoinWriters, Base, TypeOK
  <2> QED
    BY <2>1, SameView
<1>6. CASE WriteAppendix
  <2>1. /\ main = "appendix" /\ main' = "header" /\ handle'.path = handle.path
        /\ Appendix(handle.stat) \in Cells
        /\ file' = [file EXCEPT ![handle.path] = Extended(@, Appendix(handle.stat))]
    BY <1>0, <1>6, AppendixHandle, AppendixAppends DEF WriteAppendix
  <2>2. Open
    BY <2>1 DEF Open
  <2> QED
    BY <2>1, <2>2, ExtendView
<1>7. CASE WriteHeader
  BY <1>1, <1>7, HeaderView
<1>8. CASE \/ Rename \/ AppendFile \/ AppendFileFails \/ OpenSource \/ OpenSourceFails
           \/ Unlink \/ UpdateBooks
  BY <1>1, <1>8, RotateView
<1> QED
  BY <1>1, <1>2, <1>3, <1>4, <1>5, <1>6, <1>7, <1>8 DEF Next, Owner, Finished, Stuck

LEMMA InitView == Init => Flows!Init
<1> SUFFICES ASSUME Init PROVE ArchivedBlocks = {} /\ PendingBlocks = {}
  BY DEF Flows!Init
<1>1. file["archive"] = Missing /\ file["current"] = Missing /\ main = "idle" /\ handle = Closed
  BY DEF Init, Paths
<1>2. PendingBlocks = {}
  BY <1>1 DEF PendingBlocks, Closed
<1>3. ArchivedBlocks = {}
  <2>1. Missing \in Files /\ Missing.header.NumBlocks = 0 /\ Missing.cells = <<>>
    BY StatesTyped DEF Missing, EmptyHeader
  <2>2. ArchivedBlocks = Front(Missing, 0)
    BY <1>1, <2>1, ReadFront DEF ArchivedBlocks
  <2> QED
    BY <2>2 DEF Front
<1> QED
  BY <1>2, <1>3

(* As long as no call fails, the blocks of a closed file enter the archive *)
(* all together, once, and stay there: the rotation implements FlowArchive *)
(* (CloseUpdateFile, RenameAppend).                                        *)
THEOREM RotationsArchive ==
  ASSUME EnoughWorkers
  PROVE  Spec => ImplementsArchive
<1> DEFINE All == Safe /\ Kept /\ Sound /\ Carried
<1>1. Init => All
  BY InitSafe, InitKept, InitSound, InitCarried
<1>2. All /\ [Next]_vars => All'
  <2> SUFFICES ASSUME All, [Next]_vars PROVE All'
    OBVIOUS
  <2>1. Safe'
    BY StepSafe
  <2>2. Kept'
    BY StepKept DEF Safe
  <2>3. Sound' /\ Carried'
    BY <2>1, StepSound, StepCarried
  <2> QED
    BY <2>1, <2>2, <2>3
<1>3. All /\ All' /\ [Next]_vars => [NoFault' => Flows!Next]_(Flows!vars)
  BY StepView
<1>4. Init => Flows!Init
  BY InitView
<1> HIDE DEF All
<1> QED
  BY <1>1, <1>2, <1>3, <1>4, PTL DEF Spec, ImplementsArchive

===============================================================================
