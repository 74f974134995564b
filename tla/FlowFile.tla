------------------------------- MODULE FlowFile -------------------------------
(***************************************************************************)
(* Writing flow files, src/src/libnffile/nffile.c, as a rotating collector *)
(* does it: OpenNewFile starts writer threads that take blocks from the    *)
(* process queue, CloseUpdateFile flushes them, writes the appendix and    *)
(* only then the header, and RenameAppend moves the closed file into the   *)
(* archive, by rename or by appending to a file that is there already.     *)
(*                                                                         *)
(* A file is its header and the sequence of blocks behind it.  File        *)
(* offsets count blocks: 0 is the header, 1 the first block.  The process  *)
(* queue is the channel that BoundedQueue implements.                      *)
(***************************************************************************)
EXTENDS Integers, Sequences, FiniteSets

CONSTANTS
    NumWorkers,     (* NumWorkers, never more than the cores online        *)
    Compressions,   (* whether the compression method may be other than 0  *)
    QueueSize,      (* length of processQueue                              *)
    Modulus,        (* 2^32: header field NumBlocks is a uint32_t          *)
    Quota,          (* bound: most blocks collected into one file          *)
    Sessions,       (* bound: files collected                              *)
    Failing,        (* calls that may fail: "data", "appendix", "header"   *)
    MaxFaults,      (* bound: how many calls fail                          *)
    MaxCrashes      (* bound: deaths of the process                        *)

(* the writes of a data block, of the appendix and of the file header      *)
Calls == {"data", "appendix", "header"}

ASSUME FlowFileAssumption ==
    /\ NumWorkers \in Nat \ {0}
    /\ Compressions \subseteq BOOLEAN
    /\ QueueSize \in Nat \ {0}
    /\ Quota \in Nat /\ Sessions \in Nat
    /\ Modulus \in Nat /\ Modulus > Quota * Sessions + 1
    /\ Failing \subseteq Calls
    /\ MaxFaults \in Nat /\ MaxCrashes \in Nat

VARIABLES
    compressed,     (* the compression method is not 0                     *)
    file,           (* the files current and archive on disk               *)
    handle,         (* the nffile_t open for writing                       *)
    worker,         (* its writer threads, one per slot of worker[]        *)
    chan, closed,   (* processQueue                                        *)
    main,           (* where the owner of the handle is                    *)
    source,         (* blocks it has still to push, and their statistics   *)
    books,          (* files entered by UpdateBooks                        *)
    pushed,         (* history: blocks ever pushed into a current file     *)
    archived,       (* history: blocks readers of the archive have got     *)
    session,
    faults,         (* history: how many calls of each kind failed         *)
    crashes

queue  == <<chan, closed>>
history == <<pushed, archived>>
bounds == <<session, faults, crashes>>
vars   == <<compressed, file, handle, worker, queue, main, source, books, history, bounds>>

(* OpenNewFile and AppendFile start a different number of threads          *)
NewThreads    == IF compressed THEN NumWorkers ELSE 2
AppendThreads == IF compressed THEN NumWorkers ELSE 1

Paths  == {"current", "archive"}
Slots  == 0 .. (IF NumWorkers > 2 THEN NumWorkers ELSE 2) - 1
Blocks == 1 .. Quota * Sessions

Data(b)     == [type |-> "data", val |-> b]
Appendix(s) == [type |-> "appendix", val |-> s]     (* with the stat record *)
Values      == Nat      (* blocks, and statistics of an appendix *)
Cells       == [type : {"data", "appendix"}, val : Values]

Header == [NumBlocks : 0 .. Modulus - 1,
           offAppendix : Nat,
           appendixBlocks : {0, 1}]
EmptyHeader == [NumBlocks |-> 0, offAppendix |-> 0, appendixBlocks |-> 0]

Missing    == [exists |-> FALSE, valid |-> FALSE, header |-> EmptyHeader, cells |-> <<>>]
NoThread   == [pc |-> "none", block |-> 0]
Running    == [pc |-> "pop", block |-> 0]
Exited     == [pc |-> "exited", block |-> 0]
Idle       == [s \in Slots |-> NoThread]
NoSource   == [blocks |-> <<>>, stat |-> 0]
Closed     == [path |-> "current", pos |-> 0, header |-> EmptyHeader, stat |-> 0]

Init ==
    /\ compressed \in Compressions
    /\ file = [p \in Paths |-> Missing]
    /\ handle = Closed
    /\ worker = Idle
    /\ chan = <<>> /\ closed = TRUE
    /\ main = "idle"
    /\ source = NoSource
    /\ books = 0
    /\ pushed = {} /\ archived = {}
    /\ session = 0 /\ faults = [c \in Calls |-> 0] /\ crashes = 0

Fault(call) ==
    /\ call \in Failing
    /\ faults["data"] + faults["appendix"] + faults["header"] < MaxFaults
    /\ faults' = [faults EXCEPT ![call] = @ + 1]
-------------------------------------------------------------------------------
(* What OpenFileStatic, nfreader and ReadAppendix make of a file           *)
EndOfFile(f) == Len(f.cells) + 1

Readable(f) ==
    /\ f.exists /\ f.valid
    /\ f.header.appendixBlocks > 0 => f.header.offAppendix < EndOfFile(f)

(* nfreader stops after NumBlocks blocks or at the end of the file         *)
ReadCells(f) ==
    LET n == f.header.NumBlocks
    IN  SubSeq(f.cells, 1, IF n < Len(f.cells) THEN n ELSE Len(f.cells))

ReadBlocks(f) == [k \in 1 .. Len(ReadCells(f)) |-> f.cells[k].val]

Content(f) == IF Readable(f) THEN {c.val : c \in {ReadCells(f)[k] : k \in DOMAIN ReadCells(f)}}
                             ELSE {}

(* the stat record of the appendix; a block of another kind is complained  *)
(* about and the record stays empty                                        *)
ReadStat(f) ==
    LET off == f.header.offAppendix
    IN  IF f.header.appendixBlocks > 0 /\ f.cells[off].type = "appendix"
          THEN f.cells[off].val ELSE 0

(* write() at the current offset: at the end of the file it appends,       *)
(* at 0 it destroys the header                                             *)
WriteAt(f, pos, cell) ==
    IF pos = 0 THEN [f EXCEPT !.valid = FALSE]
    ELSE [f EXCEPT !.cells = SubSeq(f.cells, 1, pos - 1) \o <<cell>>
                             \o SubSeq(f.cells, pos + 1, Len(f.cells))]

AddBlock(h) == [h EXCEPT !.NumBlocks = (@ + 1) % Modulus]

(* what readers of the archive can now get as well                         *)
NoteArchived == archived' = archived \cup Content(file'["archive"])

StartThreads(n) == [s \in Slots |-> IF s < n THEN Running ELSE NoThread]
-------------------------------------------------------------------------------
(* nfwriter                                                                *)
WriterPop(s) ==
    /\ worker[s].pc = "pop"
    /\ chan # <<>>
    /\ worker' = [worker EXCEPT ![s] = [pc |-> "write", block |-> Head(chan)]]
    /\ chan' = Tail(chan)
    /\ UNCHANGED <<file, handle, closed, main, source, compressed, books, history, bounds>>

WriterExit(s) ==
    /\ worker[s].pc = "pop"
    /\ closed /\ chan = <<>>
    /\ worker' = [worker EXCEPT ![s] = Exited]
    /\ UNCHANGED <<file, handle, queue, main, source, compressed, books, history, bounds>>

(* Mutant of WriterWrite: the block is not counted.                        *)
WriterForgetsCount(s) ==
    /\ worker[s].pc = "write"
    /\ file' = [file EXCEPT ![handle.path] =
                    WriteAt(@, handle.pos, Data(worker[s].block))]
    /\ handle' = [handle EXCEPT !.pos = @ + 1,
                    !.header = IF worker[s].block % 2 = 0 THEN @ ELSE AddBlock(@)]
    /\ worker' = [worker EXCEPT ![s] = Running]
    /\ UNCHANGED <<queue, main, source, compressed, books, history, bounds>>

(* nfwrite, under wlock: the block and its count                           *)
WriterWrite(s) ==
    /\ worker[s].pc = "write"
    /\ file' = [file EXCEPT ![handle.path] =
                    WriteAt(@, handle.pos, Data(worker[s].block))]
    /\ handle' = [handle EXCEPT !.pos = @ + 1, !.header = AddBlock(@)]
    /\ worker' = [worker EXCEPT ![s] = Running]
    /\ UNCHANGED <<queue, main, source, compressed, books, history, bounds>>

(* nfwrite fails: the block is dropped and the thread ends                 *)
WriterFails(s) ==
    /\ worker[s].pc = "write"
    /\ Fault("data")
    /\ worker' = [worker EXCEPT ![s] = Exited]
    /\ UNCHANGED <<file, handle, queue, main, source, compressed, books, history, session, crashes>>
-------------------------------------------------------------------------------
(* OpenNewFile truncates current; the collector has blocks for it          *)
OpenNewFile ==
    /\ main = "idle" /\ session < Sessions
    /\ session' = session + 1
    /\ file' = [file EXCEPT !["current"] = [Missing EXCEPT !.exists = TRUE, !.valid = TRUE]]
    /\ handle' = [Closed EXCEPT !.pos = 1]
    /\ worker' = StartThreads(NewThreads)
    /\ closed' = FALSE
    /\ main' = "push"
    /\ \E n \in 0 .. Quota :
         source' = [blocks |-> [k \in 1 .. n |-> session * Quota + k], stat |-> n]
    /\ UNCHANGED <<chan, compressed, books, history, faults, crashes>>

(* the header cannot be written: the collector gives up                    *)
OpenNewFileFails ==
    /\ main = "idle" /\ session < Sessions
    /\ Fault("header")
    /\ file' = [file EXCEPT !["current"] = [Missing EXCEPT !.exists = TRUE]]
    /\ main' = "dead"
    /\ UNCHANGED <<handle, worker, queue, source, compressed, books, history, session, crashes>>

(* WriteBlock, FlushBlock; the copy loop of RenameAppend                   *)
PushBlock ==
    /\ main = "push"
    /\ source.blocks # <<>>
    /\ Len(chan) < QueueSize
    /\ chan' = Append(chan, Head(source.blocks))
    /\ source' = [source EXCEPT !.blocks = Tail(@)]
    /\ pushed' = pushed \cup {Head(source.blocks)}
    /\ UNCHANGED <<file, handle, worker, closed, main, compressed, books, archived, bounds>>

(* Mutant of StartFlush: the queue stays open.                             *)
StartFlushKeepsOpen ==
    /\ main = "push"
    /\ source.blocks = <<>>
    /\ handle' = [handle EXCEPT !.stat = @ + source.stat]
    /\ source' = NoSource
    /\ main' = "sync"
    /\ UNCHANGED <<file, worker, queue, compressed, books, history, bounds>>

(* all is pushed: SumStatRecords, then CloseUpdateFile, FlushFile          *)
StartFlush ==
    /\ main = "push"
    /\ source.blocks = <<>>
    /\ closed' = TRUE
    /\ handle' = [handle EXCEPT !.stat = @ + source.stat]
    /\ source' = NoSource
    /\ main' = "sync"
    /\ UNCHANGED <<file, worker, chan, compressed, books, history, bounds>>

QueueSync ==
    /\ main = "sync"
    /\ chan = <<>>
    /\ main' = "join"
    /\ UNCHANGED <<file, handle, worker, queue, source, compressed, books, history, bounds>>

(* Mutant of JoinWriters: an empty queue is taken for written blocks.      *)
JoinNobody ==
    /\ main = "join"
    /\ worker' = [s \in Slots |-> IF s < NumWorkers /\ worker[s].pc # "write" THEN NoThread
                                  ELSE worker[s]]
    /\ main' = "appendix"
    /\ UNCHANGED <<file, handle, queue, source, compressed, books, history, bounds>>

(* pthread_join of the threads in slots below NumWorkers                   *)
JoinWriters ==
    /\ main = "join"
    /\ \A s \in Slots : s < NumWorkers => worker[s].pc \in {"none", "exited"}
    /\ worker' = [s \in Slots |-> IF s < NumWorkers THEN NoThread ELSE worker[s]]
    /\ main' = "appendix"
    /\ UNCHANGED <<file, handle, queue, source, compressed, books, history, bounds>>

(* WriteAppendix at the current offset, lseek to the header                *)
WriteAppendix ==
    /\ main = "appendix"
    /\ file' = [file EXCEPT ![handle.path] =
                    WriteAt(@, handle.pos, Appendix(handle.stat))]
    /\ handle' = [handle EXCEPT !.pos = 0,
                    !.header = [AddBlock(@) EXCEPT !.offAppendix = handle.pos,
                                                   !.appendixBlocks = 1]]
    /\ main' = "header"
    /\ UNCHANGED <<worker, queue, source, compressed, books, history, bounds>>

(* its nfwrite fails, which WriteAppendix does not look at                 *)
WriteAppendixFails ==
    /\ main = "appendix"
    /\ Fault("appendix")
    /\ handle' = [handle EXCEPT !.pos = 0, !.header.offAppendix = handle.pos,
                                           !.header.appendixBlocks = 1]
    /\ main' = "header"
    /\ UNCHANGED <<file, worker, queue, source, compressed, books, history, session, crashes>>

AfterHeader == IF handle.path = "current" THEN "rename" ELSE "unlink"

(* Mutant of WriteHeader: the appendix stays in the number of blocks.      *)
WriteHeaderWithAppendix ==
    /\ main = "header"
    /\ file' = [file EXCEPT ![handle.path] = [@ EXCEPT !.valid = TRUE, !.header = handle.header]]
    /\ handle' = Closed
    /\ main' = AfterHeader
    /\ NoteArchived
    /\ UNCHANGED <<worker, queue, source, compressed, books, pushed, bounds>>

(* the header is rewritten without the appendix in NumBlocks, CloseFile    *)
WriteHeader ==
    /\ main = "header"
    /\ file' = [file EXCEPT ![handle.path] = [@ EXCEPT !.valid = TRUE,
                    !.header = [handle.header EXCEPT !.NumBlocks =
                        (handle.header.NumBlocks + Modulus
                            - handle.header.appendixBlocks) % Modulus]]]
    /\ handle' = Closed
    /\ main' = AfterHeader
    /\ NoteArchived
    /\ UNCHANGED <<worker, queue, source, compressed, books, pushed, bounds>>

(* CloseUpdateFile returns 0, which nobody looks at                        *)
WriteHeaderFails ==
    /\ main = "header"
    /\ Fault("header")
    /\ handle' = Closed
    /\ main' = AfterHeader
    /\ UNCHANGED <<file, worker, queue, source, compressed, books, history, session, crashes>>
-------------------------------------------------------------------------------
(* RenameAppend and what RotateFlowFiles does after it                     *)
Rename ==
    /\ main = "rename"
    /\ ~file["archive"].exists
    /\ file' = [file EXCEPT !["archive"] = file["current"], !["current"] = Missing]
    /\ main' = "book"
    /\ NoteArchived
    /\ UNCHANGED <<handle, worker, queue, source, compressed, books, pushed, bounds>>

(* Mutants of AppendFile: the file is cut off behind the header; new       *)
(* blocks are written behind the old appendix.                             *)
AppendTruncates ==
    /\ main = "rename"
    /\ LET f == file["archive"]
       IN  /\ Readable(f)
           /\ handle' = [path |-> "archive", header |-> EmptyHeader, stat |-> 0, pos |-> 1]
           /\ file' = [file EXCEPT !["archive"].cells = <<>>]
    /\ worker' = StartThreads(AppendThreads)
    /\ closed' = FALSE
    /\ main' = "source"
    /\ UNCHANGED <<chan, source, compressed, books, history, bounds>>

AppendBehindAppendix ==
    /\ main = "rename"
    /\ LET f == file["archive"]
       IN  /\ Readable(f)
           /\ handle' = [path |-> "archive", header |-> f.header, stat |-> ReadStat(f),
                         pos |-> EndOfFile(f)]
    /\ worker' = StartThreads(AppendThreads)
    /\ closed' = FALSE
    /\ main' = "source"
    /\ UNCHANGED <<file, chan, source, compressed, books, history, bounds>>

(* AppendFile cuts off the old appendix and starts writers behind the data *)
AppendFile ==
    /\ main = "rename"
    /\ LET f   == file["archive"]
           off == f.header.offAppendix
       IN  /\ Readable(f)
           /\ handle' = [path |-> "archive", header |-> f.header, stat |-> ReadStat(f),
                         pos |-> IF off > 0 THEN off ELSE EndOfFile(f)]
           /\ file' = IF off > 0 THEN [file EXCEPT !["archive"].cells = SubSeq(@, 1, off - 1)]
                                 ELSE file
    /\ worker' = StartThreads(AppendThreads)
    /\ closed' = FALSE
    /\ main' = "source"
    /\ UNCHANGED <<chan, source, compressed, books, history, bounds>>

(* RenameAppend returns -1, the books are left alone                       *)
AppendFileFails ==
    /\ main = "rename"
    /\ file["archive"].exists /\ ~Readable(file["archive"])
    /\ main' = "idle"
    /\ UNCHANGED <<file, handle, worker, queue, source, compressed, books, history, bounds>>

OpenSource ==
    /\ main = "source"
    /\ Readable(file["current"])
    /\ source' = [blocks |-> ReadBlocks(file["current"]), stat |-> ReadStat(file["current"])]
    /\ main' = "push"
    /\ UNCHANGED <<file, handle, worker, queue, compressed, books, history, bounds>>

(* the source cannot be read: RenameAppend returns 0 and forgets the       *)
(* handle, whose writers wait for ever                                     *)
OpenSourceFails ==
    /\ main = "source"
    /\ ~Readable(file["current"])
    /\ handle' = Closed
    /\ worker' = Idle
    /\ closed' = TRUE
    /\ main' = "book"
    /\ UNCHANGED <<file, chan, source, compressed, books, history, bounds>>

Unlink ==
    /\ main = "unlink"
    /\ file' = [file EXCEPT !["current"] = Missing]
    /\ main' = "book"
    /\ UNCHANGED <<handle, worker, queue, source, compressed, books, history, bounds>>

UpdateBooks ==
    /\ main = "book"
    /\ books' = books + 1
    /\ main' = "idle"
    /\ UNCHANGED <<compressed, file, handle, worker, queue, source, history, bounds>>

(* The process dies; the next one has another name for its current file.   *)
Crash ==
    /\ main \notin {"idle", "dead"}
    /\ crashes < MaxCrashes
    /\ crashes' = crashes + 1
    /\ file' = [file EXCEPT !["current"] = Missing]
    /\ handle' = Closed
    /\ worker' = Idle
    /\ chan' = <<>> /\ closed' = TRUE
    /\ main' = "idle"
    /\ source' = NoSource
    /\ UNCHANGED <<compressed, books, history, session, faults>>

Finished ==
    /\ main = "dead" \/ (main = "idle" /\ session = Sessions)
    /\ UNCHANGED vars

(* every writer of the handle is gone and the owner waits for the queue    *)
WritersGone ==
    /\ \A s \in Slots : worker[s].pc \in {"none", "exited"}
    /\ \/ main = "push" /\ Len(chan) = QueueSize /\ source.blocks # <<>>
       \/ main = "sync" /\ chan # <<>>

Stuck == WritersGone /\ UNCHANGED vars
-------------------------------------------------------------------------------
Writer(s) == WriterPop(s) \/ WriterExit(s) \/ WriterWrite(s)

Owner ==
    \/ PushBlock \/ StartFlush \/ QueueSync \/ JoinWriters
    \/ WriteAppendix \/ WriteHeader
    \/ Rename \/ AppendFile \/ AppendFileFails \/ OpenSource \/ OpenSourceFails
    \/ Unlink \/ UpdateBooks

Next ==
    \/ \E s \in Slots : Writer(s) \/ WriterFails(s)
    \/ OpenNewFile \/ OpenNewFileFails
    \/ Owner
    \/ WriteAppendixFails \/ WriteHeaderFails
    \/ Crash
    \/ Finished \/ Stuck

Spec == Init /\ [][Next]_vars

(* Every thread that can run does; nothing forces flows to arrive, a       *)
(* system call to fail or the process to die.                              *)
FairSpec == Spec /\ WF_vars(Owner) /\ \A s \in Slots : WF_vars(Writer(s))
-------------------------------------------------------------------------------
(* The handle, the files on disk and the owner have the types of           *)
(* nffile_t's fields.                                                      *)
TypeOK ==
    /\ compressed \in BOOLEAN
    /\ file \in [Paths -> [exists : BOOLEAN, valid : BOOLEAN, header : Header,
                           cells : Seq(Cells)]]
    /\ handle \in [path : Paths, pos : Nat, header : Header, stat : Nat]
    /\ worker \in [Slots -> [pc : {"none", "pop", "write", "exited"}, block : Values]]
    /\ chan \in Seq(Values) /\ Len(chan) <= QueueSize
    /\ closed \in BOOLEAN
    /\ main \in {"idle", "push", "sync", "join", "appendix", "header", "rename",
                 "source", "unlink", "book", "dead"}
    /\ source \in [blocks : Seq(Values), stat : Nat]
    /\ books \in Nat
    /\ pushed \subseteq Values /\ archived \subseteq Values
    /\ session \in 0 .. Sessions /\ faults \in [Calls -> 0 .. MaxFaults]
    /\ crashes \in 0 .. MaxCrashes

(* Whenever a write of data or appendix fails or the process dies, a       *)
(* reader of a file gets whole data blocks that were collected, none of    *)
(* them twice, and never takes the appendix for data.  (A header that      *)
(* could not be rewritten does lead to that after the next append.)        *)
ReadersGetCollectedBlocks ==
    faults["header"] = 0 => \A p \in Paths : Readable(file[p]) =>
        LET r == ReadCells(file[p])
        IN  /\ \A k \in DOMAIN r : r[k].type = "data" /\ r[k].val \in pushed
            /\ \A j, k \in DOMAIN r : j # k => r[j] # r[k]

(* the owner has the file open for writing                                 *)
BeingWritten(p) ==
    handle.path = p /\ main \in {"push", "sync", "join", "appendix", "header", "source"}

(* AppendFile and RenameAppend take no block out of an archive, whatever   *)
(* call fails and whenever the process dies.  Who can read the archive     *)
(* gets all that was ever read from it.  Where the archive is refused      *)
(* (OpenFileStatic: its header points to an appendix behind the end of the *)
(* file) it still has all these blocks and ends where its appendix was.    *)
(* It is refused from the cut to the first write behind it, and for good   *)
(* when the process dies there or when an appendix, of this file or of the *)
(* one to be added, could not be written; for no other reason.             *)
ArchiveOnlyGrows ==
    LET f == file["archive"]
    IN  IF Readable(f) THEN archived \subseteq Content(f)
        ELSE /\ archived \subseteq {f.cells[k].val : k \in DOMAIN f.cells}
             /\ f.exists => /\ f.valid /\ f.header.offAppendix = EndOfFile(f)
                            /\ \/ BeingWritten("archive")
                               \/ crashes > 0 \/ faults["appendix"] > 0

(* FlushFile lets the writers flush all pending blocks to disk: when the   *)
(* appendix and the header are written, no block is on its way any more.   *)
PendingBlocksOnDisk ==
    main \in {"appendix", "header"} => chan = <<>> /\ \A s \in Slots : worker[s].pc # "write"

(* no call has failed and the process has not died                         *)
NoFault == (\A c \in Calls : faults[c] = 0) /\ crashes = 0

(* After SumStatRecords the stat record in the appendix is that of all     *)
(* blocks in the file, also after appending (no call failed, no crash).    *)
StatMatchesBlocks ==
    NoFault => \A p \in Paths :
        LET f == file[p]
        IN  Readable(f) /\ f.header.appendixBlocks > 0 /\ ~BeingWritten(p)
              => ReadStat(f) = f.header.NumBlocks

(* As long as no call fails, each closed file enters the archive as a      *)
(* whole and once: every step up to the first fault implements             *)
(* FlowArchive.                                                            *)
ArchivedBlocks ==
    LET f == file["archive"]
    IN  {c.val : c \in {ReadCells(f)[k] : k \in DOMAIN ReadCells(f)}}

PendingBlocks ==
    IF main \in {"rename", "source"} \/ handle.path = "archive"
      THEN Content(file["current"]) ELSE {}

Flows == INSTANCE FlowArchive WITH archive <- ArchivedBlocks, batch <- PendingBlocks

ImplementsArchive == Flows!Init /\ [][NoFault' => Flows!Next]_(Flows!vars)

(* Every block the collector pushed is in the archive once its file has    *)
(* been rotated (no call failed, no crash).                                *)
NothingLost ==
    NoFault /\ main = "idle" => pushed = Content(file["archive"])

(* What the handle, the files and the statistics keep to between the steps *)
(* of a rotation (FlushFile, CloseUpdateFile, RenameAppend).               *)
IInv == TypeOK /\ StatMatchesBlocks /\ NothingLost

(* A rotation comes to its end, unless every writer thread of the file     *)
(* has ended after a failed write.                                         *)
RotationEnds == main # "idle" ~> main \in {"idle", "dead"} \/ WritersGone
===============================================================================
