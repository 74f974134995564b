------------------------ MODULE ControlBarrierProofs ------------------------
(***************************************************************************)
(* Machine-checked proofs about ControlBarrier, for any number of workers, *)
(* blocks and files, with failing output files and a reused frame.  Blocks *)
(* leave in the order of reading whatever the workers do.  As long as no   *)
(* wakeup is spurious the controller has a block for itself when it        *)
(* disposes of it, and every share of it has been done exactly once.       *)
(***************************************************************************)
EXTENDS ControlBarrier, FiniteSetTheorems, SequenceTheorems, TLAPS

-------------------------------------------------------------------------------
(* The order of the blocks: the controller's part of the invariant.        *)

(* Disposing of the current block extends what was written by it.          *)
LEMMA WrittenGrows ==
  ASSUME ControlInv, ctl \in {"block", "flush"}, written' = Append(written, dataBlock)
  PROVE  /\ written' \in Seq(Block)
         /\ Len(written') = Len(written) + 1 /\ Len(written) \in Nat
         /\ DOMAIN written' = 1 .. Len(written) + 1 /\ DOMAIN written = 1 .. Len(written)
         /\ \A k \in 1 .. Len(written) + 1 :
              written'[k] = IF k = Len(written) + 1 THEN dataBlock ELSE written[k]
  BY DEF ControlInv, TypeOK, Current

LEMMA InitControl == Init => ControlInv
<1> SUFFICES ASSUME Init PROVE ControlInv
  OBVIOUS
<1> USE BarrierAssumption DEF Init, None, Gone, Block
<1>1. TypeOK
  <2>1. /\ wpc \in [Workers -> {"arrive", "wait", "check", "load", "work", "exited"}]
        /\ mine \in [Workers -> 0 .. MaxBlocks + 1]
        /\ done \in [Block -> [Workers -> Nat]]
    OBVIOUS
  <2>2. written \in Seq(Block) /\ skipped \subseteq Block
    BY EmptySeq
  <2>3. asleep \in BOOLEAN
    OBVIOUS
  <2>4. /\ workersWaiting \in Nat /\ blocked \subseteq Workers
        /\ dataBlock \in 0 .. MaxBlocks + 1 /\ nextBlock \in 0 .. MaxBlocks
        /\ read \in 0 .. MaxBlocks /\ files \in 0 .. MaxFiles
        /\ spurious \in 0 .. MaxSpurious
    OBVIOUS
  <2> QED
    BY <2>1, <2>2, <2>3, <2>4 DEF TypeOK
<1>2. Current /\ Ahead /\ Ordered
  BY DEF Current, Ahead, Over, Released, Ordered
<1> QED
  BY <1>1, <1>2 DEF ControlInv

(* A step that leaves the controller alone leaves the order alone.         *)
LEMMA WorkersKeepOrder ==
  ASSUME Current, Ahead, Ordered, UNCHANGED <<ctl, dataBlock, nextBlock, read, written>>
  PROVE  Current' /\ Ahead' /\ Ordered'
  BY DEF Current, Ahead, Ordered, Released, Over

LEMMA ControlStep ==
  ASSUME ControlInv, [Next]_vars
  PROVE  ControlInv'
<1> USE BarrierAssumption DEF ControlInv, None, Gone, Block, barrier, input, history
<1>1. ASSUME NEW w \in Workers, BarrierWait(w) PROVE ControlInv'
  <2>1. TypeOK'
    <3>1. workersWaiting' \in Nat /\ blocked' \subseteq Workers /\ asleep' \in BOOLEAN
          /\ wpc' \in [Workers -> {"arrive", "wait", "check", "load", "work", "exited"}]
      BY <1>1 DEF BarrierWait, TypeOK
    <3>2. UNCHANGED <<dataBlock, nextBlock, read, files, spurious, ctl, mine, done, written, skipped>>
      BY <1>1 DEF BarrierWait
    <3> QED
      BY <3>1, <3>2 DEF TypeOK
  <2>2. Current' /\ Ahead' /\ Ordered'
    BY <1>1 DEF BarrierWait, TypeOK, Current, Ahead, Ordered, Released, Over
  <2> QED
    BY <2>1, <2>2
<1>2. ASSUME NEW w \in Workers, BarrierLeave(w) PROVE ControlInv'
  <2>1. TypeOK'
    BY <1>2 DEF BarrierLeave, TypeOK, Current
  <2>2. Current' /\ Ahead' /\ Ordered'
    BY <1>2 DEF BarrierLeave, TypeOK, Current, Ahead, Ordered, Released, Over
  <2> QED
    BY <2>1, <2>2
<1>3. ASSUME NEW w \in Workers, WorkerCheck(w) PROVE ControlInv'
  <2>1. TypeOK'
    BY <1>3 DEF WorkerCheck, Seen, TypeOK, Current
  <2>2. Current' /\ Ahead' /\ Ordered'
    BY <1>3 DEF WorkerCheck, Seen, TypeOK, Current, Ahead, Ordered, Released, Over
  <2> QED
    BY <2>1, <2>2
<1>4. ASSUME NEW w \in Workers, WorkerLoad(w) PROVE ControlInv'
  <2>1. TypeOK'
    <3>1. Seen \subseteq 0 .. MaxBlocks + 1
      BY DEF Seen, TypeOK
    <3>2. PICK b \in Seen : mine' = [mine EXCEPT ![w] = b]
      BY <1>4 DEF WorkerLoad
    <3>3. mine' \in [Workers -> 0 .. MaxBlocks + 1]
      BY <3>1, <3>2 DEF TypeOK
    <3>4. wpc' \in [Workers -> {"arrive", "wait", "check", "load", "work", "exited"}]
      BY <1>4 DEF WorkerLoad, TypeOK
    <3> QED
      BY <1>4, <3>3, <3>4 DEF WorkerLoad, TypeOK
  <2>2. Current' /\ Ahead' /\ Ordered'
    BY <1>4 DEF WorkerLoad, Seen, TypeOK, Current, Ahead, Ordered, Released, Over
  <2> QED
    BY <2>1, <2>2
<1>5. ASSUME NEW w \in Workers, WorkerProcess(w) PROVE ControlInv'
  <2>1. TypeOK'
    <3>1. /\ mine' \in [Workers -> 0 .. MaxBlocks + 1] /\ done' \in [Block -> [Workers -> Nat]]
          /\ wpc' \in [Workers -> {"arrive", "wait", "check", "load", "work", "exited"}]
      BY <1>5 DEF WorkerProcess, TypeOK
    <3>2. UNCHANGED <<workersWaiting, blocked, spurious, dataBlock, nextBlock, read, files, ctl, asleep, written, skipped>>
      BY <1>5 DEF WorkerProcess
    <3> QED
      BY <3>1, <3>2 DEF TypeOK
  <2>2. Current' /\ Ahead' /\ Ordered'
    <3>1. UNCHANGED <<ctl, dataBlock, nextBlock, read, written>>
      BY <1>5 DEF WorkerProcess
    <3> QED
      BY <3>1, WorkersKeepOrder
  <2> QED
    BY <2>1, <2>2
<1>6. ASSUME NEW w \in Workers, SpuriousWakeup(w) PROVE ControlInv'
  <2>1. TypeOK'
    <3>1. blocked' \subseteq Workers /\ spurious' \in 0 .. MaxSpurious
      BY <1>6 DEF SpuriousWakeup, TypeOK
    <3>2. UNCHANGED <<workersWaiting, dataBlock, nextBlock, read, files, ctl, asleep, wpc, mine, done, written, skipped>>
      BY <1>6 DEF SpuriousWakeup
    <3> QED
      BY <3>1, <3>2 DEF TypeOK
  <2>2. Current' /\ Ahead' /\ Ordered'
    BY <1>6 DEF SpuriousWakeup, TypeOK, Current, Ahead, Ordered, Released, Over
  <2> QED
    BY <2>1, <2>2
<1>7. ASSUME ControllerWait PROVE ControlInv'
  <2>1. TypeOK'
    BY <1>7 DEF ControllerWait, TypeOK, Current
  <2>2. Current' /\ Ahead' /\ Ordered'
    BY <1>7 DEF ControllerWait, TypeOK, Current, Ahead, Ordered, Released, Over
  <2> QED
    BY <2>1, <2>2
<1>8. ASSUME TakeBlock PROVE ControlInv'
  <2>1. TypeOK'
    BY <1>8 DEF TakeBlock, TypeOK, Current
  <2>2. Current' /\ Ahead' /\ Ordered'
    BY <1>8 DEF TakeBlock, TypeOK, Current, Ahead, Ordered, Released, Over
  <2> QED
    BY <2>1, <2>2
<1>9. ASSUME NextFile PROVE ControlInv'
  <2>1. TypeOK'
    <3>1. /\ files' \in 0 .. MaxFiles /\ read' \in 0 .. MaxBlocks /\ nextBlock' \in 0 .. MaxBlocks
          /\ ctl' = "loop"
      BY <1>9 DEF NextFile, ReadBlock, TypeOK
    <3>2. UNCHANGED <<workersWaiting, blocked, spurious, dataBlock, asleep, wpc, mine, done, written, skipped>>
      BY <1>9 DEF NextFile
    <3> QED
      BY <3>1, <3>2 DEF TypeOK
  <2>2. Current' /\ Ahead' /\ Ordered'
    BY <1>9 DEF NextFile, ReadBlock, TypeOK, Current, Ahead, Ordered, Released, Over
  <2> QED
    BY <2>1, <2>2
<1>10. ASSUME NextFileFails PROVE ControlInv'
  <2>1. TypeOK'
    BY <1>10 DEF NextFileFails, LeaveFrame, TypeOK, Current
  <2>2. Current' /\ Ahead' /\ Ordered'
    BY <1>10 DEF NextFileFails, LeaveFrame, TypeOK, Current, Ahead, Ordered, Released, Over
  <2> QED
    BY <2>1, <2>2
<1>11. ASSUME SkipBlock PROVE ControlInv'
  <2>1. /\ written' \in Seq(Block)
        /\ Len(written') = Len(written) + 1 /\ Len(written) \in Nat
        /\ DOMAIN written' = 1 .. Len(written) + 1 /\ DOMAIN written = 1 .. Len(written)
        /\ \A k \in 1 .. Len(written) + 1 :
             written'[k] = IF k = Len(written) + 1 THEN dataBlock ELSE written[k]
    BY <1>11, WrittenGrows DEF SkipBlock
  <2> QED
    BY <1>11, <2>1 DEF SkipBlock, ReadBlock, TypeOK, Current, Ahead, Ordered, Released, Over
<1>12. ASSUME ReleaseWorkers PROVE ControlInv'
  <2>1. TypeOK'
    BY <1>12 DEF ReleaseWorkers, TypeOK, Current
  <2>2. Current' /\ Ahead' /\ Ordered'
    <3>1. /\ UNCHANGED <<dataBlock, nextBlock, read, written>>
          /\ \/ ctl = "block" /\ ctl' = "ahead"
             \/ ctl = "last" /\ ctl' = "return"
      BY <1>12 DEF ReleaseWorkers
    <3> QED
      BY <3>1 DEF Current, Ahead, Ordered, Released, Over
  <2> QED
    BY <2>1, <2>2
<1>13. ASSUME ReadAhead PROVE ControlInv'
  <2>1. TypeOK'
    <3>1. /\ read' \in 0 .. MaxBlocks /\ nextBlock' \in 0 .. MaxBlocks /\ ctl' = "wait"
      BY <1>13 DEF ReadAhead, ReadBlock, TypeOK
    <3>2. UNCHANGED <<workersWaiting, blocked, spurious, dataBlock, files, asleep, wpc, mine, done, written, skipped>>
      BY <1>13 DEF ReadAhead
    <3> QED
      BY <3>1, <3>2 DEF TypeOK
  <2>2. Current' /\ Ahead' /\ Ordered'
    BY <1>13 DEF ReadAhead, ReadBlock, TypeOK, Current, Ahead, Ordered, Released, Over
  <2> QED
    BY <2>1, <2>2
<1>14. ASSUME FlushBlock PROVE ControlInv'
  <2>1. /\ written' \in Seq(Block)
        /\ Len(written') = Len(written) + 1 /\ Len(written) \in Nat
        /\ DOMAIN written' = 1 .. Len(written) + 1 /\ DOMAIN written = 1 .. Len(written)
        /\ \A k \in 1 .. Len(written) + 1 :
             written'[k] = IF k = Len(written) + 1 THEN dataBlock ELSE written[k]
    BY <1>14, WrittenGrows DEF FlushBlock
  <2>2. ctl = "flush" /\ ctl' = "loop" /\ UNCHANGED <<dataBlock, nextBlock, read>>
    BY <1>14 DEF FlushBlock
  <2>3. TypeOK'
    <3>1. UNCHANGED <<workersWaiting, blocked, spurious, files, asleep, wpc, mine, done, skipped>>
      BY <1>14 DEF FlushBlock
    <3> QED
      BY <2>1, <2>2, <3>1 DEF TypeOK
  <2>4. dataBlock = Len(written) + 1 /\ Current' /\ Ahead'
    BY <2>1, <2>2 DEF TypeOK, Current, Ahead, Released, Over
  <2>5. Ordered'
    BY <2>1, <2>4 DEF Ordered
  <2> QED
    BY <2>3, <2>4, <2>5
<1>15. ASSUME NoMoreFiles PROVE ControlInv'
  <2>1. TypeOK'
    BY <1>15 DEF NoMoreFiles, TypeOK, Current
  <2>2. Current' /\ Ahead' /\ Ordered'
    BY <1>15 DEF NoMoreFiles, TypeOK, Current, Ahead, Ordered, Released, Over
  <2> QED
    BY <2>1, <2>2
<1>16. ASSUME ProcessDataReturns PROVE ControlInv'
  <2>1. TypeOK'
    BY <1>16 DEF ProcessDataReturns, LeaveFrame, TypeOK, Current
  <2>2. Current' /\ Ahead' /\ Ordered'
    BY <1>16 DEF ProcessDataReturns, LeaveFrame, TypeOK, Current, Ahead, Ordered, Released, Over
  <2> QED
    BY <2>1, <2>2
<1>17. ASSUME JoinWorkers PROVE ControlInv'
  <2>1. TypeOK'
    BY <1>17 DEF JoinWorkers, TypeOK, Current
  <2>2. Current' /\ Ahead' /\ Ordered'
    BY <1>17 DEF JoinWorkers, TypeOK, Current, Ahead, Ordered, Released, Over
  <2> QED
    BY <2>1, <2>2
<1>18. ASSUME Finished PROVE ControlInv'
  <2>1. TypeOK'
    BY <1>18 DEF Finished, vars, TypeOK, Current
  <2>2. Current' /\ Ahead' /\ Ordered'
    BY <1>18 DEF Finished, vars, TypeOK, Current, Ahead, Ordered, Released, Over
  <2> QED
    BY <2>1, <2>2
<1>19. ASSUME UNCHANGED vars PROVE ControlInv'
  <2>1. TypeOK'
    BY <1>19 DEF vars, TypeOK, Current
  <2>2. Current' /\ Ahead' /\ Ordered'
    BY <1>19 DEF vars, TypeOK, Current, Ahead, Ordered, Released, Over
  <2> QED
    BY <2>1, <2>2
<1> QED
  BY <1>1, <1>2, <1>3, <1>4, <1>5, <1>6, <1>7, <1>8, <1>9, <1>10, <1>11, <1>12, <1>13, <1>14, <1>15, <1>16, <1>17, <1>18, <1>19 DEF Next, Worker, Controller

-------------------------------------------------------------------------------
(* What the workers do between release and return to the barrier, as long  *)
(* as no wakeup is spurious.                                               *)

(* The number of blocked workers says when all of them are blocked.        *)
LEMMA BlockedCount ==
  ASSUME NEW S \in SUBSET Workers
  PROVE  /\ IsFiniteSet(S)
         /\ Cardinality(S) \in 0 .. NumWorkers
         /\ Cardinality(S) >= NumWorkers => S = Workers
<1>1. IsFiniteSet(S) /\ Cardinality(S) <= NumWorkers /\ (NumWorkers = Cardinality(S) => S = Workers)
  BY BarrierAssumption, FS_Subset
<1>2. Cardinality(S) \in Nat /\ NumWorkers \in Nat
  BY <1>1, BarrierAssumption, FS_CardinalityType
<1> QED
  BY <1>1, <1>2

(* A worker enters the barrier.                                            *)
LEMMA BarrierWaitKeepsWorkers ==
  ASSUME ControlInv, WorkerInv, ControlInv', NEW w \in Workers, BarrierWait(w)
  PROVE  WorkerInv'
<1>a. w \notin blocked
  BY DEF WorkerInv, WaitersCounted, BarrierWait
<1>b. Cardinality(blocked \cup {w}) = Cardinality(blocked) + 1 /\ Cardinality(blocked \cup {w}) \in 0 .. NumWorkers
  <2>1. blocked \in SUBSET Workers /\ blocked \cup {w} \in SUBSET Workers
    BY DEF ControlInv, TypeOK
  <2> QED
    BY <1>a, <2>1, BlockedCount, FS_AddElement
<1> USE BarrierAssumption DEF ControlInv, WorkerInv, None, Gone, Block, BarrierWait, barrier, input, history
<1>c. \A v \in Workers : Busy(v)' <=> Busy(v)
  BY <1>a DEF Busy, TypeOK, WaitersCounted
<1>1. WaitersCounted'
  <2>1. workersWaiting' = Cardinality(blocked')
    BY <1>b DEF WaitersCounted
  <2>2. \A v \in blocked' : wpc'[v] = "wait"
    BY DEF WaitersCounted, TypeOK
  <2>3. NumWorkers \in Nat /\ workersWaiting' \in Nat
    BY <1>b, <2>1, FS_CardinalityType
  <2>4. asleep' => ctl' \in {"start", "wait"} /\ workersWaiting' < NumWorkers
    <3> SUFFICES ASSUME asleep' PROVE ctl' \in {"start", "wait"} /\ workersWaiting' < NumWorkers
      OBVIOUS
    <3>1. asleep /\ ~(workersWaiting' >= NumWorkers)
      BY Zenon
    <3>2. ctl \in {"start", "wait"}
      BY <3>1, Zenon DEF WaitersCounted
    <3> QED
      BY <2>3, <3>1, <3>2
  <2> QED
    BY <2>1, <2>2, <2>4 DEF WaitersCounted
<1>2. Phases'
  BY DEF Phases, Busy, Released, Over, TypeOK, WaitersCounted, ControllerAlone,
        Loaded
<1>3. ControllerAlone'
  BY DEF ControllerAlone, TypeOK, WaitersCounted
<1>4. Loaded'
  BY DEF Loaded, Released, TypeOK, Phases, Busy, Over, ControllerAlone, Current
<1>5. Shares'
  BY <1>c DEF Shares, Current, Released, TypeOK
<1>6. EveryShareOnce'
  BY DEF EveryShareOnce, TypeOK, Shares, Busy, Current, Released
<1> QED
  BY <1>1, <1>2, <1>3, <1>4, <1>5, <1>6

(* A released worker leaves it.                                            *)
LEMMA BarrierLeaveKeepsWorkers ==
  ASSUME ControlInv, WorkerInv, ControlInv', NEW w \in Workers, BarrierLeave(w)
  PROVE  WorkerInv'
<1> USE BarrierAssumption DEF ControlInv, WorkerInv, None, Gone, Block, BarrierLeave, barrier, input, history
<1>1. WaitersCounted'
  BY DEF WaitersCounted, TypeOK
<1>2. Phases'
  BY DEF Phases, Busy, Released, Over, TypeOK, WaitersCounted, ControllerAlone,
        Loaded
<1>3. ControllerAlone'
  BY DEF ControllerAlone, TypeOK, WaitersCounted
<1>4. Loaded'
  BY DEF Loaded, Released, TypeOK, Phases, Busy, Over, ControllerAlone, Current
<1>5. Shares'
  <2>1. \A v \in Workers : Busy(v)' <=> Busy(v)
    BY DEF Busy, TypeOK
  <2>2. UNCHANGED <<written, ctl, dataBlock, done>>
    OBVIOUS
  <2> QED
    BY <2>1, <2>2 DEF Shares
<1>6. EveryShareOnce'
  BY DEF EveryShareOnce, TypeOK, Shares, Busy, Current, Released
<1> QED
  BY <1>1, <1>2, <1>3, <1>4, <1>5, <1>6

(* A worker tests the shared pointer.                                      *)
LEMMA WorkerCheckKeepsWorkers ==
  ASSUME ControlInv, WorkerInv, ControlInv', NEW w \in Workers, WorkerCheck(w)
  PROVE  WorkerInv'
<1> USE BarrierAssumption DEF ControlInv, WorkerInv, None, Gone, Block, WorkerCheck, barrier, input, history, Seen
<1>c. \A v \in Workers : Busy(v)' <=> Busy(v)
  BY DEF Busy, TypeOK, WaitersCounted
<1>1. WaitersCounted'
  BY DEF WaitersCounted, TypeOK
<1>2. Phases'
  BY DEF Phases, Busy, Released, Over, TypeOK, WaitersCounted, ControllerAlone,
        Current, Ahead, Loaded, Shares, EveryShareOnce
<1>3. ControllerAlone'
  BY DEF ControllerAlone, TypeOK, WaitersCounted
<1>4. Loaded'
  BY DEF Loaded, Released, TypeOK, Phases, Busy, Over, ControllerAlone, Current
<1>5. Shares'
  BY <1>c DEF Shares, Current, Released, TypeOK
<1>6. EveryShareOnce'
  BY DEF EveryShareOnce, TypeOK, Shares, Busy, Current, Released
<1> QED
  BY <1>1, <1>2, <1>3, <1>4, <1>5, <1>6

(* A worker loads the shared pointer.                                      *)
LEMMA WorkerLoadKeepsWorkers ==
  ASSUME ControlInv, WorkerInv, ControlInv', NEW w \in Workers, WorkerLoad(w)
  PROVE  WorkerInv'
<1> USE BarrierAssumption DEF ControlInv, WorkerInv, None, Gone, Block, WorkerLoad, barrier, input, history, Seen
<1>c. \A v \in Workers : Busy(v)' <=> Busy(v)
  BY DEF Busy, TypeOK, WaitersCounted
<1>1. WaitersCounted'
  BY DEF WaitersCounted, TypeOK
<1>2. Phases'
  BY DEF Phases, Busy, Released, Over, TypeOK, WaitersCounted, ControllerAlone,
        Loaded
<1>3. ControllerAlone'
  BY DEF ControllerAlone, TypeOK, WaitersCounted
<1>4. Loaded'
  BY DEF Loaded, Released, TypeOK, Phases, Busy, Over, ControllerAlone, Current
<1>5. Shares'
  BY <1>c DEF Shares, Current, Released, TypeOK
<1>6. EveryShareOnce'
  BY DEF EveryShareOnce, TypeOK, Shares, Busy, Current, Released
<1> QED
  BY <1>1, <1>2, <1>3, <1>4, <1>5, <1>6

(* A worker does its share.                                                *)
LEMMA WorkerProcessKeepsWorkers ==
  ASSUME ControlInv, WorkerInv, ControlInv', NEW w \in Workers, WorkerProcess(w)
  PROVE  WorkerInv'
<1> USE BarrierAssumption DEF ControlInv, WorkerInv, None, Gone, Block, WorkerProcess, barrier, input, history
<1>a. mine[w] = dataBlock /\ ctl \in Released /\ dataBlock \in Block /\ dataBlock = Len(written) + 1
  BY DEF Loaded, Current, TypeOK
<1>b. Busy(w) /\ ~Busy(w)' /\ \A v \in Workers : v # w => (Busy(v)' <=> Busy(v))
  BY DEF Busy, TypeOK, WaitersCounted
<1>c. \A b \in Block, v \in Workers :
         done'[b][v] = IF b = dataBlock /\ v = w THEN done[b][v] + 1 ELSE done[b][v]
  BY <1>a DEF TypeOK
<1>1. WaitersCounted'
  BY DEF WaitersCounted, TypeOK
<1>2. Phases'
  BY DEF Phases, Busy, Released, Over, TypeOK, WaitersCounted, ControllerAlone,
        Loaded
<1>3. ControllerAlone'
  BY DEF ControllerAlone, TypeOK, WaitersCounted
<1>4. Loaded'
  BY DEF Loaded, Released, TypeOK, Phases, Busy, Over, ControllerAlone, Current
<1>5. Shares'
  <2>2. \A b \in Block : b # dataBlock => \A v \in Workers : done'[b][v] = done[b][v]
    BY <1>c
  <2>3. ASSUME NEW b \in Block, b > Len(written'), NEW v \in Workers,
               ~(ctl' \in {"wait", "ahead", "flush"} /\ b = dataBlock')
        PROVE  done'[b][v] = 0
    BY <1>a, <2>2, <2>3 DEF Shares, Released
  <2>4. ASSUME NEW v \in Workers
        PROVE  done'[dataBlock'][v] = IF Busy(v)' THEN 0 ELSE 1
    <3>1. done[dataBlock][v] = IF Busy(v) THEN 0 ELSE 1
      BY <1>a DEF Shares, Released
    <3> QED
      BY <1>a, <1>b, <1>c, <3>1
  <2> QED
    BY <2>3, <2>4 DEF Shares
<1>6. EveryShareOnce'
  <2> SUFFICES ASSUME NEW k \in DOMAIN written, written[k] \notin skipped
               PROVE  \A v \in Workers : done'[written[k]][v] = 1
    BY DEF EveryShareOnce
  <2>1. written[k] \in Block /\ k \in 1 .. Len(written) /\ Len(written) \in Nat
    <3>1. written \in Seq(Block)
      BY DEF TypeOK
    <3> QED
      BY <3>1, LenProperties, ElementOfSeq
  <2>2. written[k] = k
    BY DEF Ordered
  <2>3. written[k] # dataBlock
    BY <1>a, <2>1, <2>2
  <2> QED
    BY <1>c, <2>1, <2>3 DEF EveryShareOnce
<1> QED
  BY <1>1, <1>2, <1>3, <1>4, <1>5, <1>6

(* The controller looks at the counter.                                    *)
LEMMA ControllerWaitKeepsWorkers ==
  ASSUME ControlInv, WorkerInv, ControlInv', ControllerWait
  PROVE  WorkerInv'
<1> USE BarrierAssumption DEF ControlInv, WorkerInv, None, Gone, Block, ControllerWait, barrier, input, history
<1>a. ~(workersWaiting < NumWorkers) => blocked = Workers
  BY BlockedCount DEF WaitersCounted, TypeOK
<1>1. WaitersCounted'
  BY DEF WaitersCounted, TypeOK
<1>2. Phases'
  BY DEF Phases, Busy, Released, Over, TypeOK, WaitersCounted, ControllerAlone,
        Loaded
<1>3. ControllerAlone'
  BY <1>a DEF ControllerAlone, WaitersCounted
<1>4. Loaded'
  BY <1>a DEF Loaded, Released, WaitersCounted
<1>5. Shares'
  BY DEF Shares, Busy, TypeOK, Current, Released, WaitersCounted
<1>6. EveryShareOnce'
  BY DEF EveryShareOnce, TypeOK, Shares, Busy, Current, Released
<1> QED
  BY <1>1, <1>2, <1>3, <1>4, <1>5, <1>6

(* The block read ahead becomes current.                                   *)
LEMMA TakeBlockKeepsWorkers ==
  ASSUME ControlInv, WorkerInv, ControlInv', TakeBlock
  PROVE  WorkerInv'
<1> USE BarrierAssumption DEF ControlInv, WorkerInv, None, Gone, Block, TakeBlock, barrier, input, history
<1>1. WaitersCounted'
  BY DEF WaitersCounted, TypeOK
<1>2. Phases'
  BY DEF Phases, Busy, Released, Over, TypeOK, WaitersCounted, ControllerAlone,
        Loaded
<1>3. ControllerAlone'
  BY DEF ControllerAlone, TypeOK, WaitersCounted
<1>4. Loaded'
  BY DEF Loaded, Released, TypeOK, Phases, Busy, Over, ControllerAlone, Current
<1>5. Shares'
  BY DEF Shares, Busy, TypeOK, Current, Released, WaitersCounted
<1>6. EveryShareOnce'
  BY DEF EveryShareOnce, TypeOK, Shares, Busy, Current, Released
<1> QED
  BY <1>1, <1>2, <1>3, <1>4, <1>5, <1>6

(* The next file is opened.                                                *)
LEMMA NextFileKeepsWorkers ==
  ASSUME ControlInv, WorkerInv, ControlInv', NextFile
  PROVE  WorkerInv'
<1> USE BarrierAssumption DEF ControlInv, WorkerInv, None, Gone, Block, NextFile, barrier, input, history, ReadBlock
<1>1. WaitersCounted'
  BY DEF WaitersCounted, TypeOK
<1>2. Phases'
  BY DEF Phases, Busy, Released, Over, TypeOK, WaitersCounted, ControllerAlone,
        Loaded
<1>3. ControllerAlone'
  BY DEF ControllerAlone, TypeOK, WaitersCounted
<1>4. Loaded'
  BY DEF Loaded, Released, TypeOK, Phases, Busy, Over, ControllerAlone, Current
<1>5. Shares'
  BY DEF Shares, Busy, TypeOK, Current, Released, WaitersCounted
<1>6. EveryShareOnce'
  BY DEF EveryShareOnce, TypeOK, Shares, Busy, Current, Released
<1> QED
  BY <1>1, <1>2, <1>3, <1>4, <1>5, <1>6

(* Its output cannot be opened.                                            *)
LEMMA NextFileFailsKeepsWorkers ==
  ASSUME ControlInv, WorkerInv, ControlInv', NextFileFails
  PROVE  WorkerInv'
<1> USE BarrierAssumption DEF ControlInv, WorkerInv, None, Gone, Block, NextFileFails, barrier, input, history, LeaveFrame
<1>1. WaitersCounted'
  BY DEF WaitersCounted, TypeOK
<1>2. Phases'
  BY DEF Phases, Busy, Released, Over, TypeOK, WaitersCounted, ControllerAlone,
        Loaded
<1>3. ControllerAlone'
  BY DEF ControllerAlone, TypeOK, WaitersCounted
<1>4. Loaded'
  BY DEF Loaded, Released, TypeOK, Phases, Busy, Over, ControllerAlone, Current
<1>5. Shares'
  BY DEF Shares, Busy, TypeOK, Current, Released, WaitersCounted
<1>6. EveryShareOnce'
  BY DEF EveryShareOnce, TypeOK, Shares, Busy, Current, Released
<1> QED
  BY <1>1, <1>2, <1>3, <1>4, <1>5, <1>6

(* A block nobody processes.                                               *)
LEMMA SkipBlockKeepsWorkers ==
  ASSUME ControlInv, WorkerInv, ControlInv', SkipBlock
  PROVE  WorkerInv'
<1> USE BarrierAssumption DEF ControlInv, WorkerInv, None, Gone, Block, SkipBlock, barrier, input, history, ReadBlock
<1>a. /\ Len(written') = Len(written) + 1
      /\ \A k \in 1 .. Len(written) + 1 :
           written'[k] = IF k = Len(written) + 1 THEN dataBlock ELSE written[k]
      /\ DOMAIN written' = 1 .. Len(written) + 1 /\ DOMAIN written = 1 .. Len(written)
      /\ dataBlock = Len(written) + 1
  BY DEF TypeOK, Current
<1>1. WaitersCounted'
  BY DEF WaitersCounted, TypeOK
<1>2. Phases'
  BY DEF Phases, Busy, Released, Over, TypeOK, WaitersCounted, ControllerAlone,
        Loaded
<1>3. ControllerAlone'
  BY DEF ControllerAlone, TypeOK, WaitersCounted
<1>4. Loaded'
  BY DEF Loaded, Released, TypeOK, Phases, Busy, Over, ControllerAlone, Current
<1>5. Shares'
  <2>2. ASSUME NEW b \in Block, b > Len(written'), NEW v \in Workers
        PROVE  done'[b][v] = 0
    <3>1. Len(written) \in Nat
      BY DEF TypeOK
    <3>2. b > Len(written) /\ b # dataBlock
      BY <1>a, <2>2, <3>1
    <3> QED
      BY <3>2 DEF Shares
  <2> QED
    BY <2>2 DEF Shares
<1>6. EveryShareOnce'
  <2> SUFFICES ASSUME NEW k \in DOMAIN written', written'[k] \notin skipped'
               PROVE  \A v \in Workers : done'[written'[k]][v] = 1
    BY DEF EveryShareOnce
  <2>1. k \in DOMAIN written /\ written'[k] = written[k]
    BY <1>a
  <2> QED
    BY <2>1 DEF EveryShareOnce
<1> QED
  BY <1>1, <1>2, <1>3, <1>4, <1>5, <1>6

(* The barrier opens.                                                      *)
LEMMA ReleaseWorkersKeepsWorkers ==
  ASSUME ControlInv, WorkerInv, ControlInv', ReleaseWorkers
  PROVE  WorkerInv'
<1> USE BarrierAssumption DEF ControlInv, WorkerInv, None, Gone, Block, ReleaseWorkers, barrier, input, history
<1>a. \A v \in Workers : Busy(v)'
  BY DEF ControllerAlone, Busy
<1>1. WaitersCounted'
  BY FS_EmptySet DEF WaitersCounted
<1>2. Phases'
  BY DEF Phases, Busy, Released, Over, TypeOK, WaitersCounted, ControllerAlone,
        Loaded
<1>3. ControllerAlone'
  BY DEF ControllerAlone, TypeOK, WaitersCounted
<1>4. Loaded'
  BY DEF Loaded, Released, TypeOK, Phases, Busy, Over, ControllerAlone, Current
<1>5. Shares'
  <2>1. CASE ctl = "block"
    <3>1. ctl' = "ahead" /\ dataBlock' = Len(written) + 1 /\ dataBlock' \in Block
      BY <2>1 DEF Current
    <3>2. \A b \in Block : b > Len(written) => \A v \in Workers : done[b][v] = 0
      BY <2>1 DEF Shares
    <3>3. dataBlock' > Len(written)
      BY <3>1
    <3>4. \A v \in Workers : done'[dataBlock'][v] = IF Busy(v)' THEN 0 ELSE 1
      BY <1>a, <3>1, <3>2, <3>3
    <3> QED
      BY <3>2, <3>4 DEF Shares
  <2>2. CASE ctl = "last"
    BY <2>2 DEF Shares
  <2> QED
    BY <2>1, <2>2
<1>6. EveryShareOnce'
  BY DEF EveryShareOnce, TypeOK, Shares, Busy, Current, Released
<1> QED
  BY <1>1, <1>2, <1>3, <1>4, <1>5, <1>6

(* Reading ahead.                                                          *)
LEMMA ReadAheadKeepsWorkers ==
  ASSUME ControlInv, WorkerInv, ControlInv', ReadAhead
  PROVE  WorkerInv'
<1> USE BarrierAssumption DEF ControlInv, WorkerInv, None, Gone, Block, ReadAhead, barrier, input, history, ReadBlock
<1>1. WaitersCounted'
  BY DEF WaitersCounted, TypeOK
<1>2. Phases'
  BY DEF Phases, Busy, Released, Over, TypeOK, WaitersCounted, ControllerAlone,
        Loaded
<1>3. ControllerAlone'
  BY DEF ControllerAlone, TypeOK, WaitersCounted
<1>4. Loaded'
  BY DEF Loaded, Released, TypeOK, Phases, Busy, Over, ControllerAlone, Current
<1>5. Shares'
  BY DEF Shares, Busy, TypeOK, Current, Released, WaitersCounted
<1>6. EveryShareOnce'
  BY DEF EveryShareOnce, TypeOK, Shares, Busy, Current, Released
<1> QED
  BY <1>1, <1>2, <1>3, <1>4, <1>5, <1>6

(* The block is disposed of.                                               *)
LEMMA FlushBlockKeepsWorkers ==
  ASSUME ControlInv, WorkerInv, ControlInv', FlushBlock
  PROVE  WorkerInv'
<1> USE BarrierAssumption DEF ControlInv, WorkerInv, None, Gone, Block, FlushBlock, barrier, input, history
<1>a. /\ Len(written') = Len(written) + 1
      /\ \A k \in 1 .. Len(written) + 1 :
           written'[k] = IF k = Len(written) + 1 THEN dataBlock ELSE written[k]
      /\ DOMAIN written' = 1 .. Len(written) + 1 /\ DOMAIN written = 1 .. Len(written)
      /\ dataBlock = Len(written) + 1
  BY DEF TypeOK, Current
<1>b. \A v \in Workers : ~Busy(v)
  BY DEF ControllerAlone, Busy
<1>1. WaitersCounted'
  BY DEF WaitersCounted, TypeOK
<1>2. Phases'
  BY DEF Phases, Busy, Released, Over, TypeOK, WaitersCounted, ControllerAlone,
        Loaded
<1>3. ControllerAlone'
  BY DEF ControllerAlone, TypeOK, WaitersCounted
<1>4. Loaded'
  BY DEF Loaded, Released, TypeOK, Phases, Busy, Over, ControllerAlone, Current
<1>5. Shares'
  <2>2. ASSUME NEW b \in Block, b > Len(written'), NEW v \in Workers
        PROVE  done'[b][v] = 0
    <3>1. Len(written) \in Nat
      BY DEF TypeOK
    <3>2. b > Len(written) /\ b # dataBlock
      BY <1>a, <2>2, <3>1
    <3> QED
      BY <3>2 DEF Shares
  <2> QED
    BY <2>2 DEF Shares
<1>6. EveryShareOnce'
  <2> SUFFICES ASSUME NEW k \in DOMAIN written', written'[k] \notin skipped'
               PROVE  \A v \in Workers : done'[written'[k]][v] = 1
    BY DEF EveryShareOnce
  <2>1. CASE k \in DOMAIN written
    BY <1>a, <2>1 DEF EveryShareOnce
  <2>2. CASE k = Len(written) + 1
    BY <1>a, <1>b, <2>2 DEF Shares
  <2> QED
    BY <1>a, <2>1, <2>2
<1> QED
  BY <1>1, <1>2, <1>3, <1>4, <1>5, <1>6

(* The input is at its end.                                                *)
LEMMA NoMoreFilesKeepsWorkers ==
  ASSUME ControlInv, WorkerInv, ControlInv', NoMoreFiles
  PROVE  WorkerInv'
<1> USE BarrierAssumption DEF ControlInv, WorkerInv, None, Gone, Block, NoMoreFiles, barrier, input, history
<1>1. WaitersCounted'
  BY DEF WaitersCounted, TypeOK
<1>2. Phases'
  BY DEF Phases, Busy, Released, Over, TypeOK, WaitersCounted, ControllerAlone,
        Loaded
<1>3. ControllerAlone'
  BY DEF ControllerAlone, TypeOK, WaitersCounted
<1>4. Loaded'
  BY DEF Loaded, Released, TypeOK, Phases, Busy, Over, ControllerAlone, Current
<1>5. Shares'
  BY DEF Shares, Busy, TypeOK, Current, Released, WaitersCounted
<1>6. EveryShareOnce'
  BY DEF EveryShareOnce, TypeOK, Shares, Busy, Current, Released
<1> QED
  BY <1>1, <1>2, <1>3, <1>4, <1>5, <1>6

(* Process_data returns.                                                   *)
LEMMA ProcessDataReturnsKeepsWorkers ==
  ASSUME ControlInv, WorkerInv, ControlInv', ProcessDataReturns
  PROVE  WorkerInv'
<1> USE BarrierAssumption DEF ControlInv, WorkerInv, None, Gone, Block, ProcessDataReturns, barrier, input, history, LeaveFrame
<1>1. WaitersCounted'
  BY DEF WaitersCounted, TypeOK
<1>2. Phases'
  BY DEF Phases, Busy, Released, Over, TypeOK, WaitersCounted, ControllerAlone,
        Loaded
<1>3. ControllerAlone'
  BY DEF ControllerAlone, TypeOK, WaitersCounted
<1>4. Loaded'
  BY DEF Loaded, Released, TypeOK, Phases, Busy, Over, ControllerAlone, Current
<1>5. Shares'
  BY DEF Shares, Busy, TypeOK, Current, Released, WaitersCounted
<1>6. EveryShareOnce'
  BY DEF EveryShareOnce, TypeOK, Shares, Busy, Current, Released
<1> QED
  BY <1>1, <1>2, <1>3, <1>4, <1>5, <1>6

(* The workers are joined.                                                 *)
LEMMA JoinWorkersKeepsWorkers ==
  ASSUME ControlInv, WorkerInv, ControlInv', JoinWorkers
  PROVE  WorkerInv'
<1> USE BarrierAssumption DEF ControlInv, WorkerInv, None, Gone, Block, JoinWorkers, barrier, input, history
<1>1. WaitersCounted'
  BY DEF WaitersCounted, TypeOK
<1>2. Phases'
  BY DEF Phases, Busy, Released, Over, TypeOK, WaitersCounted, ControllerAlone,
        Loaded
<1>3. ControllerAlone'
  BY DEF ControllerAlone, TypeOK, WaitersCounted
<1>4. Loaded'
  BY DEF Loaded, Released, TypeOK, Phases, Busy, Over, ControllerAlone, Current
<1>5. Shares'
  BY DEF Shares, Busy, TypeOK, Current, Released, WaitersCounted
<1>6. EveryShareOnce'
  BY DEF EveryShareOnce, TypeOK, Shares, Busy, Current, Released
<1> QED
  BY <1>1, <1>2, <1>3, <1>4, <1>5, <1>6

-------------------------------------------------------------------------------
(* The invariant holds at the start.                                       *)
LEMMA InitWorkers == Init => WorkerInv
<1> SUFFICES ASSUME Init PROVE WorkerInv
  OBVIOUS
<1> USE BarrierAssumption DEF Init, None, Gone, Block
<1>1. WaitersCounted
  BY FS_EmptySet DEF WaitersCounted
<1>2. Phases /\ ControllerAlone /\ Loaded /\ Shares /\ EveryShareOnce
  BY DEF Phases, Busy, Released, Over, ControllerAlone, Loaded, Shares, EveryShareOnce
<1> QED
  BY <1>1, <1>2 DEF WorkerInv

LEMMA WorkersStep ==
  ASSUME ControlInv, WorkerInv, ControlInv', [Next]_vars, spurious' = 0
  PROVE  WorkerInv'
<1>1. ASSUME NEW w \in Workers, Worker(w) PROVE WorkerInv'
  BY <1>1, BarrierWaitKeepsWorkers, BarrierLeaveKeepsWorkers, WorkerCheckKeepsWorkers,
     WorkerLoadKeepsWorkers, WorkerProcessKeepsWorkers DEF Worker
<1>2. ASSUME NEW w \in Workers, SpuriousWakeup(w) PROVE FALSE
  BY <1>2 DEF SpuriousWakeup, ControlInv, TypeOK
<1>3. ASSUME Controller PROVE WorkerInv'
  BY <1>3, ControllerWaitKeepsWorkers, TakeBlockKeepsWorkers, NextFileKeepsWorkers,
     NoMoreFilesKeepsWorkers, SkipBlockKeepsWorkers, ReleaseWorkersKeepsWorkers,
     ReadAheadKeepsWorkers, FlushBlockKeepsWorkers, ProcessDataReturnsKeepsWorkers,
     JoinWorkersKeepsWorkers DEF Controller
<1>4. ASSUME NextFileFails PROVE WorkerInv'
  BY <1>4, NextFileFailsKeepsWorkers
<1>5. ASSUME Finished \/ UNCHANGED vars PROVE WorkerInv'
  BY <1>5 DEF Finished, vars, barrier, input, history, WorkerInv, WaitersCounted, Phases,
     Busy, ControllerAlone, Loaded, Shares, EveryShareOnce
<1> QED
  BY <1>1, <1>2, <1>3, <1>4, <1>5 DEF Next

-------------------------------------------------------------------------------
(* The inductive invariant of the barrier and its users, with the part     *)
(* about the workers as long as no wakeup is spurious.                     *)
THEOREM BarrierInvariant == Spec => []IInv
<1>1. Init => IInv
  BY InitControl, InitWorkers DEF IInv
<1>2. ASSUME IInv, [Next]_vars PROVE IInv'
  <2>1. ControlInv'
    BY <1>2, ControlStep DEF IInv
  <2>2. ASSUME spurious' = 0 PROVE spurious = 0
    <3>1. spurious' = spurious \/ spurious' = spurious + 1
      BY <1>2 DEF Next, Worker, Controller, vars, barrier, BarrierWait, BarrierLeave,
         WorkerCheck, WorkerLoad, WorkerProcess, SpuriousWakeup, ControllerWait,
         TakeBlock, NextFile, NoMoreFiles, SkipBlock, ReleaseWorkers, ReadAhead,
         FlushBlock, ProcessDataReturns, JoinWorkers, NextFileFails, Finished
    <3>2. spurious \in Nat
      BY <1>2, BarrierAssumption DEF IInv, ControlInv, TypeOK
    <3> QED
      BY <2>2, <3>1, <3>2
  <2>3. ASSUME spurious' = 0 PROVE WorkerInv'
    BY <1>2, <2>1, <2>2, <2>3, WorkersStep DEF IInv
  <2> QED
    BY <2>1, <2>3 DEF IInv
<1> QED
  BY <1>1, <1>2, PTL DEF Spec

(* The controller goes on only when all workers wait: pthread_controller_  *)
(* wait keeps what its comment says, as long as no wakeup is spurious.     *)
THEOREM ControllerGoesOnAlone == Spec => []ControllerAlone
<1>1. IInv => ControllerAlone
  BY DEF IInv, WorkerInv, ControllerAlone
<1> QED
  BY <1>1, BarrierInvariant, PTL

(* A block is written or freed after each worker has done its share of it  *)
(* exactly once.                                                           *)
THEOREM SharesDoneOnce == Spec => []EveryShareOnce
<1>1. IInv => EveryShareOnce
  BY DEF IInv, WorkerInv, EveryShareOnce
<1> QED
  BY <1>1, BarrierInvariant, PTL

(* Blocks leave in the order of reading, none twice, and when process_data *)
(* is done none is missing.                                                *)
THEOREM BlocksInOrder == Spec => []InOrder
<1>1. IInv => InOrder
  BY DEF IInv, ControlInv, Ordered, Ahead, Over, InOrder
<1> QED
  BY <1>1, BarrierInvariant, PTL

(* A worker that looks at the shared pointer twice sees the same block, as *)
(* long as the frame it lies in is not reused.                             *)
THEOREM PointerStable == Spec => []BlockStable
<1>1. IInv => BlockStable
  BY DEF IInv, ControlInv, TypeOK, WorkerInv, Loaded, Current, Released, Block, None, Gone, BlockStable
<1> QED
  BY <1>1, BarrierInvariant, PTL
===============================================================================
