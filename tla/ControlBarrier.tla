---------------------------- MODULE ControlBarrier ----------------------------
(***************************************************************************)
(* The control barrier of src/src/libnffile/barrier.c and its two users,   *)
(* process_data and worker of nfanon.c and nfprofile.c.  The controller    *)
(* hands one data block after the other to all workers, each of which      *)
(* does its share of the block (nfanon: its records, nfprofile: its        *)
(* channels), and disposes of the block when all are back in the barrier.  *)
(*                                                                         *)
(* Whoever holds workerMutex gives it up before doing anything else, so    *)
(* that each critical section is one step.  The pointer to the current     *)
(* block is a local variable of process_data that the workers read through *)
(* a pointer, without the mutex.                                           *)
(***************************************************************************)
EXTENDS Integers, Sequences, FiniteSets

CONSTANTS
    Workers,        (* the worker threads                                  *)
    NumWorkers,     (* barrier->numWorkers                                 *)
    MaxBlocks,      (* bound: data blocks in all files                     *)
    MaxFiles,       (* bound: input files                                  *)
    MaxSpurious     (* bound: pthread_cond_wait returning on its own       *)

ASSUME BarrierAssumption ==
    /\ IsFiniteSet(Workers) /\ Workers # {}
    /\ NumWorkers = Cardinality(Workers)
    /\ MaxBlocks \in Nat /\ MaxFiles \in Nat
    /\ MaxSpurious \in Nat

VARIABLES
    workersWaiting,     (* barrier->workersWaiting                         *)
    blocked,            (* workers in pthread_cond_wait on workerCond      *)
    dataBlock,          (* the block all workers see                       *)
    nextBlock,          (* the block read ahead by the controller          *)
    ctl,                (* where the controller is                         *)
    asleep,             (* it is in pthread_cond_wait on controllerCond    *)
    wpc,                (* where each worker is                            *)
    mine,               (* the block a worker has loaded                   *)
    done,               (* history: how often a worker processed a block   *)
    written,            (* history: blocks disposed of, in order           *)
    skipped,            (* history: blocks of a type nobody processes      *)
    read, files,        (* blocks and files read so far                    *)
    spurious            (* spurious wakeups so far                         *)

barrier == <<workersWaiting, blocked, spurious>>
input   == <<nextBlock, read, files>>
history == <<done, written, skipped>>
vars    == <<barrier, dataBlock, input, ctl, asleep, wpc, mine, history>>

(* The block numbers count in the order of reading.                        *)
None  == 0                  (* NULL                                        *)
Block == 1 .. MaxBlocks
Gone  == MaxBlocks + 1      (* what is left of process_data's frame        *)

Init ==
    /\ workersWaiting = 0 /\ blocked = {}
    /\ dataBlock = None /\ nextBlock = None
    /\ ctl = "start" /\ asleep = FALSE
    /\ wpc = [w \in Workers |-> "arrive"]
    /\ mine = [w \in Workers |-> None]
    /\ done = [b \in Block |-> [w \in Workers |-> 0]]
    /\ written = <<>> /\ skipped = {}
    /\ read = 0 /\ files = 0 /\ spurious = 0
-------------------------------------------------------------------------------
(* pthread_control_barrier_wait, up to the wait: the last worker wakes the *)
(* controller                                                              *)
BarrierWait(w) ==
    /\ wpc[w] = "arrive"
    /\ workersWaiting' = workersWaiting + 1
    /\ asleep' = (asleep /\ ~(workersWaiting' >= NumWorkers))
    /\ blocked' = blocked \cup {w}
    /\ wpc' = [wpc EXCEPT ![w] = "wait"]
    /\ UNCHANGED <<dataBlock, input, spurious, ctl, mine, history>>

(* ... and from it on: there is no loop around pthread_cond_wait           *)
BarrierLeave(w) ==
    /\ wpc[w] = "wait"
    /\ w \notin blocked
    /\ wpc' = [wpc EXCEPT ![w] = "check"]
    /\ UNCHANGED <<barrier, dataBlock, input, ctl, asleep, mine, history>>

SpuriousWakeup(w) ==
    /\ spurious < MaxSpurious
    /\ spurious' = spurious + 1
    /\ w \in blocked
    /\ blocked' = blocked \ {w}
    /\ UNCHANGED <<workersWaiting, dataBlock, input, ctl, asleep, wpc, mine, history>>

(* A read of the shared pointer: the frame of process_data may be gone,    *)
(* and then any value may be there.                                        *)
Seen == IF dataBlock = Gone THEN {None, Gone} ELSE {dataBlock}

WorkerCheck(w) ==
    /\ wpc[w] = "check"
    /\ \E b \in Seen : wpc' = [wpc EXCEPT ![w] = IF b = None THEN "exited" ELSE "load"]
    /\ UNCHANGED <<barrier, dataBlock, input, ctl, asleep, mine, history>>

WorkerLoad(w) ==
    /\ wpc[w] = "load"
    /\ \E b \in Seen : mine' = [mine EXCEPT ![w] = b]
    /\ wpc' = [wpc EXCEPT ![w] = "work"]
    /\ UNCHANGED <<barrier, dataBlock, input, ctl, asleep, history>>

(* All records of the worker's share.  A worker that has loaded no block   *)
(* crashes here; what then becomes of the process is not modelled.         *)
WorkerProcess(w) ==
    /\ wpc[w] = "work"
    /\ mine[w] \in Block
    /\ done' = [done EXCEPT ![mine[w]][w] = @ + 1]
    /\ mine' = [mine EXCEPT ![w] = None]
    /\ wpc' = [wpc EXCEPT ![w] = "arrive"]
    /\ UNCHANGED <<barrier, dataBlock, input, ctl, asleep, written, skipped>>
-------------------------------------------------------------------------------
(* Mutant of ControllerWait: it goes on one worker too early.              *)
ControllerWaitShort ==
    /\ ctl \in {"start", "wait"} /\ ~asleep
    /\ IF workersWaiting < NumWorkers - 1
         THEN asleep' = TRUE /\ UNCHANGED ctl
         ELSE ctl' = (IF ctl = "start" THEN "loop" ELSE "flush") /\ UNCHANGED asleep
    /\ UNCHANGED <<barrier, dataBlock, input, wpc, mine, history>>

(* pthread_controller_wait, before the first block and after each block    *)
ControllerWait ==
    /\ ctl \in {"start", "wait"} /\ ~asleep
    /\ IF workersWaiting < NumWorkers
         THEN asleep' = TRUE /\ UNCHANGED ctl
         ELSE ctl' = (IF ctl = "start" THEN "loop" ELSE "flush") /\ UNCHANGED asleep
    /\ UNCHANGED <<barrier, dataBlock, input, wpc, mine, history>>

(* the next block that was read becomes the current one                    *)
TakeBlock ==
    /\ ctl = "loop"
    /\ dataBlock' = nextBlock
    /\ ctl' = IF nextBlock = None THEN "file" ELSE "block"
    /\ UNCHANGED <<barrier, input, asleep, wpc, mine, history>>

(* ReadBlock: a block or the end of the file                               *)
ReadBlock ==
    \/ /\ read < MaxBlocks
       /\ read' = read + 1 /\ nextBlock' = read + 1
    \/ nextBlock' = None /\ UNCHANGED read

(* GetNextFile, OpenNewFile and the first block                            *)
NextFile ==
    /\ ctl = "file"
    /\ files < MaxFiles
    /\ files' = files + 1
    /\ ReadBlock
    /\ ctl' = "loop"
    /\ UNCHANGED <<barrier, dataBlock, asleep, wpc, mine, history>>

(* A function returned: whether the memory of its frame is overwritten     *)
(* before the workers look there again is open.                            *)
LeaveFrame == dataBlock' \in {dataBlock, Gone}

(* The output file cannot be opened: process_data of nfanon returns at     *)
(* once, with the workers in the barrier.                                  *)
NextFileFails ==
    /\ ctl = "file"
    /\ files < MaxFiles
    /\ files' = files + 1
    /\ LeaveFrame
    /\ ctl' = "failed"
    /\ UNCHANGED <<barrier, nextBlock, read, asleep, wpc, mine, history>>

(* A block of another type is skipped; nfanon writes it as it is.          *)
SkipBlock ==
    /\ ctl = "block"
    /\ written' = Append(written, dataBlock)
    /\ skipped' = skipped \cup {dataBlock}
    /\ ReadBlock
    /\ ctl' = "loop"
    /\ UNCHANGED <<barrier, dataBlock, files, asleep, wpc, mine, done>>

(* Mutant of ReleaseWorkers: workersWaiting is not reset.                  *)
ReleaseKeepsCount ==
    /\ ctl \in {"block", "last"}
    /\ blocked' = {}
    /\ ctl' = IF ctl = "block" THEN "ahead" ELSE "return"
    /\ UNCHANGED <<workersWaiting, spurious, dataBlock, input, asleep, wpc, mine, history>>

(* pthread_control_barrier_release, for a block and at the end             *)
ReleaseWorkers ==
    /\ ctl \in {"block", "last"}
    /\ workersWaiting' = 0
    /\ blocked' = {}
    /\ ctl' = IF ctl = "block" THEN "ahead" ELSE "return"
    /\ UNCHANGED <<spurious, dataBlock, input, asleep, wpc, mine, history>>

(* Mutant of ReadAhead: the shared pointer is used for the next block.     *)
ReadAheadIntoCurrent ==
    /\ ctl = "ahead"
    /\ ReadBlock
    /\ dataBlock' = nextBlock'
    /\ ctl' = "wait"
    /\ UNCHANGED <<barrier, files, asleep, wpc, mine, history>>

(* the next block is read while the workers are busy                       *)
ReadAhead ==
    /\ ctl = "ahead"
    /\ ReadBlock
    /\ ctl' = "wait"
    /\ UNCHANGED <<barrier, dataBlock, files, asleep, wpc, mine, history>>

(* Mutant of FlushBlock: the block read ahead is written.                  *)
FlushNextBlock ==
    /\ ctl = "flush"
    /\ written' = IF nextBlock = None THEN written ELSE Append(written, nextBlock)
    /\ ctl' = "loop"
    /\ UNCHANGED <<barrier, dataBlock, input, asleep, wpc, mine, done, skipped>>

(* nfanon writes the block, nfprofile frees it                             *)
FlushBlock ==
    /\ ctl = "flush"
    /\ written' = Append(written, dataBlock)
    /\ ctl' = "loop"
    /\ UNCHANGED <<barrier, dataBlock, input, asleep, wpc, mine, done, skipped>>

(* Mutant of NoMoreFiles: the workers are not released at the end.         *)
NoMoreFilesNoRelease ==
    /\ ctl = "file"
    /\ dataBlock' = None
    /\ ctl' = "return"
    /\ UNCHANGED <<barrier, input, asleep, wpc, mine, history>>

NoMoreFiles ==
    /\ ctl = "file"
    /\ dataBlock' = None
    /\ ctl' = "last"
    /\ UNCHANGED <<barrier, input, asleep, wpc, mine, history>>

(* process_data returns: its frame is reused                               *)
ProcessDataReturns ==
    /\ ctl = "return"
    /\ LeaveFrame
    /\ ctl' = "join"
    /\ UNCHANGED <<barrier, input, asleep, wpc, mine, history>>

(* WaitWorkersDone                                                         *)
JoinWorkers ==
    /\ ctl \in {"join", "failed"}
    /\ \A w \in Workers : wpc[w] = "exited"
    /\ ctl' = IF ctl = "join" THEN "end" ELSE "aborted"
    /\ UNCHANGED <<barrier, dataBlock, input, asleep, wpc, mine, history>>

Finished == ctl \in {"end", "aborted"} /\ UNCHANGED vars
-------------------------------------------------------------------------------
Worker(w) ==
    BarrierWait(w) \/ BarrierLeave(w) \/ WorkerCheck(w) \/ WorkerLoad(w) \/ WorkerProcess(w)

Controller ==
    \/ ControllerWait \/ TakeBlock \/ NextFile \/ NoMoreFiles
    \/ SkipBlock \/ ReleaseWorkers \/ ReadAhead \/ FlushBlock
    \/ ProcessDataReturns \/ JoinWorkers

Next ==
    \/ \E w \in Workers : Worker(w) \/ SpuriousWakeup(w)
    \/ Controller \/ NextFileFails
    \/ Finished

Spec == Init /\ [][Next]_vars

(* all threads run                                                         *)
FairSpec == Spec /\ WF_vars(Controller) /\ \A w \in Workers : WF_vars(Worker(w))
-------------------------------------------------------------------------------
(* The barrier's fields and the threads' local variables keep their types. *)
TypeOK ==
    /\ workersWaiting \in Nat /\ blocked \subseteq Workers
    /\ dataBlock \in 0 .. MaxBlocks + 1 /\ nextBlock \in 0 .. MaxBlocks
    /\ ctl \in {"start", "loop", "file", "block", "ahead", "wait", "flush", "last",
                "return", "join", "end", "failed", "aborted"}
    /\ asleep \in BOOLEAN
    /\ wpc \in [Workers -> {"arrive", "wait", "check", "load", "work", "exited"}]
    /\ mine \in [Workers -> 0 .. MaxBlocks + 1]
    /\ done \in [Block -> [Workers -> Nat]]
    /\ written \in Seq(Block) /\ skipped \subseteq Block
    /\ read \in 0 .. MaxBlocks /\ files \in 0 .. MaxFiles
    /\ spurious \in 0 .. MaxSpurious

(* pthread_controller_wait: the controller goes on only if all workers     *)
(* wait, and until it releases them the block is its own to write or free. *)
(* This and the next property need pthread_cond_wait to return only when   *)
(* it is woken: there is no loop around it.                                *)
ControllerAlone ==
    spurious = 0 /\ ctl \in {"loop", "file", "block", "flush", "last"} =>
        \A w \in Workers : wpc[w] = "wait" /\ w \in blocked

(* A block is disposed of when each worker has done its share of it, and   *)
(* has done it once: nfanon must not anonymise an address twice.           *)
EveryShareOnce ==
    spurious = 0 => \A k \in DOMAIN written :
        written[k] \in skipped \/ \A w \in Workers : done[written[k]][w] = 1

(* Reading ahead loses and reorders no block, whatever the workers do.     *)
InOrder ==
    /\ \A k \in DOMAIN written : written[k] = k
    /\ ctl = "end" => Len(written) = read

(* While a worker is between its two reads of the shared pointer or works  *)
(* on a block, the pointer still shows that block.                         *)
BlockStable ==
    spurious = 0 /\ dataBlock # Gone => \A w \in Workers :
        /\ wpc[w] = "load" => dataBlock \in Block
        /\ wpc[w] = "work" => mine[w] = dataBlock

(* What else every step preserves: blocks are taken in the order of        *)
(* reading; and without spurious wakeups the counter is exact, a worker is *)
(* busy only between release and return to the barrier, and the shares     *)
(* done are those of the current block.                                    *)
Released == {"ahead", "wait"}
Over     == {"return", "join", "end"}

Current ==
    /\ ctl \in {"block", "flush"} \cup Released => dataBlock = Len(written) + 1 /\ dataBlock \in Block
    /\ ctl \in {"last", "file", "start", "return"} => dataBlock = None
    /\ ctl \in {"join", "end", "failed", "aborted"} => dataBlock \in {None, Gone}
    /\ ctl = "loop" => dataBlock \in 0 .. MaxBlocks

Ahead ==
    /\ ctl \in {"block", "ahead"} => read = dataBlock
    /\ ctl \in {"wait", "flush"} =>
         \/ nextBlock = None /\ read = dataBlock
         \/ nextBlock = dataBlock + 1 /\ read = nextBlock
    /\ ctl = "loop" =>
         \/ nextBlock = None /\ read = Len(written)
         \/ nextBlock = Len(written) + 1 /\ read = nextBlock
    /\ ctl = "start" => nextBlock = None
    /\ ctl \in {"start", "file", "last"} \cup Over => read = Len(written)

Ordered == \A k \in DOMAIN written : written[k] = k

ControlInv == TypeOK /\ Current /\ Ahead /\ Ordered

Busy(w) == w \notin blocked /\ wpc[w] # "arrive"

WaitersCounted ==
    /\ workersWaiting = Cardinality(blocked)
    /\ \A w \in blocked : wpc[w] = "wait"
    /\ asleep => ctl \in {"start", "wait"} /\ workersWaiting < NumWorkers

Phases ==
    /\ ctl = "start" => \A w \in Workers : ~Busy(w)
    /\ ctl \in Released => \A w \in Workers : wpc[w] # "exited"
    /\ ctl \in Over => \A w \in Workers : wpc[w] # "arrive"
    /\ ctl \in {"failed", "aborted"} => \A w \in Workers : w \in blocked

Loaded ==
    \A w \in Workers :
        /\ mine[w] \in Block => wpc[w] = "work" /\ ctl \in Released /\ mine[w] = dataBlock
        /\ wpc[w] = "work" /\ ctl \in Released => mine[w] = dataBlock
        /\ wpc[w] \in {"load", "work"} => ctl \in Released \/ dataBlock = Gone

Shares ==
    /\ \A b \in Block : b > Len(written) /\ ~(ctl \in {"wait", "ahead", "flush"} /\ b = dataBlock)
         => \A w \in Workers : done[b][w] = 0
    /\ ctl \in {"ahead", "wait", "flush"} =>
         \A w \in Workers : done[dataBlock][w] = IF Busy(w) THEN 0 ELSE 1

WorkerInv ==
    spurious = 0 /\ WaitersCounted /\ Phases /\ ControllerAlone
                 /\ Loaded /\ Shares /\ EveryShareOnce

(* The inductive invariant of the barrier and its users.                   *)
IInv == ControlInv /\ (spurious = 0 => WorkerInv)

(* The workers end, unless process_data failed or its frame was reused     *)
(* before they looked (or a wakeup was spurious).                          *)
AllExited == \A w \in Workers : wpc[w] = "exited"

WorkersEndIfSignalled ==
    <>[]AllExited \/ <>(ctl = "failed" \/ dataBlock = Gone \/ spurious > 0)

(* Once process_data has returned, the wait of main for the workers ends:  *)
(* they have exited, or one has crashed on what is left of the frame.      *)
WorkersJoined ==
    ctl \in {"join", "failed"} ~> AllExited \/ dataBlock = Gone
===============================================================================
