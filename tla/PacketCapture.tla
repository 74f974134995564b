---------------------------- MODULE PacketCapture -----------------------------
(***************************************************************************)
(* The threads of nfpcapd (src/src/nfpcapd): the packet thread captures    *)
(* packets, the flow cache (flowtree.c) collects them into flows, which    *)
(* the flow thread stores in flow files, and with option -p the flush      *)
(* thread writes the packets into pcap files.  Packets travel in buffers   *)
(* of a fixed pool, flows in nodes of the cache.  Both files are closed    *)
(* for each slot of time, and the main thread brings everything to an end. *)
(*                                                                         *)
(* Queues are the channels that BoundedQueue implements; they hold all     *)
(* buffers, so that a push never waits.  The node list has one producer    *)
(* at a time and one consumer, which waits in a loop.  Times are those of  *)
(* packets and timeouts, which come as they are stamped: in a file in any  *)
(* order, from a wire late, after a timeout has ended their slot.          *)
(***************************************************************************)
EXTENDS Integers, Sequences, FiniteSets, Functions, SequencesExt

CONSTANTS
    Setups,         (* how nfpcapd is started, and the packets that come   *)
    Buffers,        (* MAXBUFFERS packet buffers                           *)
    BufferSize,     (* packets that fit into one                           *)
    MaxNodes,       (* the cache grows up to this number of nodes          *)
    Keys,           (* flow keys, and keys of fragmented packets           *)
    Twin,           (* -t: length of a time slot                           *)
    MinTime, MaxTime,   (* bounds: the times packets are stamped with      *)
    CheckInterval,  (* 1 s between two runs of CacheCheck                  *)
    ExpireInterval, (* EXPIREINTERVALL                                     *)
    Active, Inactive, FragTimeout,  (* expire timeouts                     *)
    Failing,        (* calls that may fail                                 *)
    MaxFaults,      (* bound: how many of them do                          *)
    None

(* pcap_packet_thread reads a file or captures live; linux_packet_thread   *)
(* captures from a ring of blocks                                          *)
Modes == {"file", "live", "ring"}

(* What ProcessPacket makes of a packet: a packet of a flow that stays in  *)
(* the cache, or ends it (FIN, RST); one that is a flow of its own (ICMP,  *)
(* DNS); one without a flow; a duplicate; the first, a middle and the last *)
(* fragment of a packet; a first fragment in an IP tunnel                  *)
Kinds == {"flow", "fin", "single", "none", "duplicate", "first", "middle", "last", "tunnel"}
Traffic == [kind : Kinds, key : Keys]
Packets == [number : Nat, kind : Kinds, key : Keys]

(* Nodes of the cache: flows, fragments, and the signals of the end of a   *)
(* slot and of everything                                                  *)
Nodes == [type : {"flow", "frag", "sync", "done"}, packets : SUBSET Nat, t_first : Nat, t_last : Nat]

(* the calls that fail: reading packets; opening, writing, renaming and    *)
(* appending a pcap file; opening and renaming a flow file                 *)
Calls == {"read", "open", "write", "rename", "append", "openflow", "renameflow"}

ASSUME CaptureAssumption ==
    /\ Setups \subseteq [mode : Modes, dump : BOOLEAN, again : BOOLEAN, packets : Seq(Traffic)]
    /\ IsFiniteSet(Buffers) /\ Buffers # {}
    /\ BufferSize \in Nat \ {0} /\ MaxNodes \in Nat \ {0}
    /\ Twin \in Nat \ {0} /\ MinTime \in Nat /\ MaxTime \in Nat
    /\ {CheckInterval, ExpireInterval, Active, Inactive, FragTimeout} \subseteq Nat
    /\ Failing \subseteq Calls /\ MaxFaults \in Nat
    /\ None \notin Buffers \cup Packets \cup Nodes

VARIABLES
    mode, dump,     (* how packets are read; option -p                     *)
    stream,         (* packets to come                                     *)
    dueIn,          (* history: the slots of those that came: each its own *)
                    (* one, or the one at hand if that has begun later     *)
    duplicates,     (* history: those is_duplicate knew                    *)
    now,            (* t_packet: from pcap_next_ex, the ring or the clock  *)
    packet,         (* where the packet thread is                          *)
    t_start, t_win, (* the slot; what main takes for it at the end         *)
    current,        (* the packet at hand: its number and traffic          *)
    packetBuffer,   (* the buffer it is put into                           *)
    done,           (* set by the handler of SIGUSR2                       *)
    bufferQueue, flushQueue, flushClosed,
    content,        (* per buffer: numbers of packets                      *)
    timeStamp,      (* per buffer: the slot to close after it, or 0        *)
    flush,          (* where the flush thread is                           *)
    flushed,        (* its buffer and the local copy of the time stamp     *)
    pd, pcap_dumpfile,      (* dump file open; packets in it               *)
    pcaps,          (* slot |-> packets in the file pcap.<slot>            *)
    FlowTree,       (* key |-> flow or fragments                           *)
    NodeList,
    Allocated,      (* nodes in use                                        *)
    lastRun, lastExpire,
    flow, node,     (* where the flow thread is, and its node              *)
    nffile,         (* flows in the current flow file                      *)
    archive,        (* slot |-> flows in the file nfcapd.<slot>            *)
    main,           (* where the main thread is                            *)
    asked,          (* a SIGTERM or SIGINT was sent                        *)
    usr1,           (* a thread has sent SIGUSR1                           *)
    faults,
    lost,           (* history: packets of pcap and of flow files that a   *)
                    (* failing call has cost                               *)
    uncounted,      (* history: packets without a flow                     *)
    leaked,         (* history: nodes nobody knows any more                *)
    dropped,        (* history: buffers nobody knows any more              *)
    unmarked,       (* history: slots whose mark was taken off a buffer    *)
    missed          (* history: SIGUSR2 came where poll does not see it    *)

packetVars == <<packet, t_start, t_win, current, packetBuffer, now, stream, dueIn, duplicates>>
poolVars   == <<bufferQueue, flushQueue, flushClosed, content, timeStamp>>
flushVars  == <<flush, flushed, pd, pcap_dumpfile, pcaps, dropped, unmarked>>
cacheVars  == <<FlowTree, NodeList, Allocated, lastRun, lastExpire, uncounted, leaked>>
flowVars   == <<flow, node, nffile, archive>>
mainVars   == <<main, asked, done, missed>>
setup      == <<mode, dump>>
vars == <<setup, packetVars, poolVars, flushVars, cacheVars, flowVars, mainVars, usr1, faults, lost>>

Slot(t) == t - (t % Twin)

(* the time nfpcapd starts at; earlier times are those of 1970             *)
Start == 2 * Twin

(* a flow: its packets, and the times of the first and of the last         *)
Flow(type, packets, first, last) ==
    [type |-> type, packets |-> packets, t_first |-> first, t_last |-> last]
(* a signal node: the end of slot t, or of everything                      *)
Signal(type, t) == Flow(type, {}, t, t)

FlowKey(k) == <<"flow", k>>
FragKey(k) == <<"frag", k>>

Fault(call) ==
    /\ call \in Failing /\ faults < MaxFaults
    /\ faults' = faults + 1

(* An earlier nfpcapd may have written files of the slot this one starts   *)
(* in; what is in them is left out.                                        *)
Init ==
    /\ \E s \in Setups :
         /\ mode = s.mode /\ dump = s.dump /\ stream = s.packets
         /\ pcaps = (IF s.again THEN [t \in {Start} |-> <<>>] ELSE <<>>) /\ archive = pcaps
    /\ dueIn = <<>> /\ duplicates = {} /\ now = Start
    /\ packet = "start" /\ t_start = Start /\ t_win = Twin
    /\ current = None /\ packetBuffer = None
    /\ bufferQueue = SetToSeq(Buffers)
    /\ flushQueue = <<>> /\ flushClosed = FALSE
    /\ content = [b \in Buffers |-> <<>>]
    /\ timeStamp = [b \in Buffers |-> 0]
    /\ flush = IF dump THEN "pop" ELSE "exited"
    /\ flushed = None /\ pd = FALSE /\ pcap_dumpfile = <<>>
    /\ FlowTree = <<>> /\ NodeList = <<>> /\ Allocated = 0
    /\ lastRun = 0 /\ lastExpire = 0
    /\ flow = "open" /\ node = None /\ nffile = <<>>
    /\ main = "wait" /\ asked = FALSE /\ usr1 = FALSE /\ done = FALSE
    /\ faults = 0 /\ lost = [pcap |-> {}, flow |-> {}]
    /\ uncounted = {} /\ leaked = 0 /\ dropped = {} /\ unmarked = {} /\ missed = FALSE
-------------------------------------------------------------------------------
(* f with the value v for k                                                *)
Put(f, k, v) == [x \in DOMAIN f \cup {k} |-> IF x = k THEN v ELSE f[x]]

(* The flow cache.  A packet that does not open a flow of its own is freed *)
(* again: New_Node, Insert_Node and Free_Node within one packet.           *)

Cache == [tree |-> FlowTree, list |-> NodeList, allocated |-> Allocated, uncounted |-> uncounted]

SetCache(c) ==
    /\ FlowTree' = c.tree /\ NodeList' = c.list
    /\ Allocated' = c.allocated /\ uncounted' = c.uncounted

(* New_Node waits when as many nodes are in use as there may be            *)
FreeNodes(n) == Allocated + n <= MaxNodes

(* takes the nodes with these keys out of the tree: flows go to the flow   *)
(* thread, fragments are freed                                             *)
Removed(c, keys) ==
    LET frags == {k \in keys : c.tree[k].type = "frag"}
        flows == SetToSeq(keys \ frags)
    IN [tree      |-> Restrict(c.tree, DOMAIN c.tree \ keys),
        list      |-> c.list \o [i \in DOMAIN flows |-> c.tree[flows[i]]],
        allocated |-> c.allocated - Cardinality(frags),
        uncounted |-> c.uncounted \cup UNION {c.tree[k].packets : k \in frags}]

Expire_FlowTree(c, when) ==
    LET idle(k) == when - c.tree[k].t_last
        over(k) == IF c.tree[k].type = "frag" THEN idle(k) > FragTimeout
                   ELSE idle(k) > Inactive \/ when - c.tree[k].t_first > Active
    IN Removed(c, {k \in DOMAIN c.tree : over(k)})

CacheCheck(c, when) ==
    LET due == when - lastExpire > ExpireInterval
    IN IF lastExpire = 0
         THEN SetCache(c) /\ lastExpire' = when
         ELSE /\ SetCache(IF due THEN Expire_FlowTree(c, when) ELSE c)
              /\ lastExpire' = IF due THEN when ELSE lastExpire

(* the end of ProcessPacket                                                *)
Cached(c) ==
    IF now - lastRun > CheckInterval
      THEN CacheCheck(c, now) /\ lastRun' = now
      ELSE SetCache(c) /\ UNCHANGED <<lastRun, lastExpire>>

Known(k) == k \in DOMAIN FlowTree
Number == current.number
Kept(known) == IF known THEN 0 ELSE 1

(* Insert_Node of a node for packets of times first to last, and the       *)
(* update of the node that is there already                                *)
Insert(tree, k, packets, first, last) ==
    Put(tree, k, IF k \in DOMAIN tree
                   THEN [tree[k] EXCEPT !.packets = @ \cup packets, !.t_last = last]
                   ELSE Flow("flow", packets, first, last))

(* Mutant of FlowPacket: the node of a packet of a known flow is not freed *)
FlowPacketKeepsNode ==
    LET k == FlowKey(current.key)
    IN /\ current.kind \in {"flow", "fin"}
       /\ FreeNodes(1)
       /\ LET c == [Cache EXCEPT !.tree = Insert(FlowTree, k, {Number}, now, now),
                                 !.allocated = @ + 1]
          IN Cached(IF current.kind = "fin" THEN Removed(c, {k}) ELSE c)
       /\ UNCHANGED leaked

(* ProcessTCPFlow; UDP and others are the same without an end              *)
FlowPacket ==
    LET k == FlowKey(current.key)
    IN /\ current.kind \in {"flow", "fin"}
       /\ FreeNodes(1)
       /\ LET c == [Cache EXCEPT !.tree = Insert(FlowTree, k, {Number}, now, now),
                                 !.allocated = @ + Kept(Known(k))]
          IN Cached(IF current.kind = "fin" THEN Removed(c, {k}) ELSE c)
       /\ UNCHANGED leaked

(* ProcessICMPFlow, and DNS in ProcessUDPFlow                              *)
SinglePacket ==
    /\ current.kind = "single"
    /\ FreeNodes(1)
    /\ Cached([Cache EXCEPT !.list = Append(@, Flow("flow", {Number}, now, now)),
                            !.allocated = @ + 1])
    /\ UNCHANGED leaked

(* a packet that is none of IP, too short or of an unknown version, and    *)
(* one is_duplicate has seen before                                        *)
NoFlow ==
    /\ current.kind \in {"none", "duplicate"}
    /\ LET c == [Cache EXCEPT !.uncounted = @ \cup {Number}]
       IN \/ current.kind = "none" /\ Cached(c)
          \/ SetCache(c) /\ UNCHANGED <<lastRun, lastExpire>>
    /\ UNCHANGED leaked

(* ProcessIPfrag.  The node of a tunnel's outer header is forgotten when   *)
(* what is inside turns out to be a fragment.                              *)
FirstFragment ==
    LET k == FragKey(current.key)
        outer == IF current.kind = "tunnel" THEN 1 ELSE 0
    IN /\ current.kind \in {"first", "tunnel"}
       /\ FreeNodes(1 + outer)
       /\ Cached(IF Known(k)
                   THEN [Cache EXCEPT !.uncounted = @ \cup {Number}, !.allocated = @ + outer]
                   ELSE [Cache EXCEPT !.tree = Put(@, k, Flow("frag", {Number}, now, now)),
                                      !.allocated = @ + 1 + outer])
       /\ leaked' = leaked + outer

NextFragment ==
    LET k == FragKey(current.key)
    IN /\ current.kind \in {"middle", "last"}
       /\ current.kind = "middle" \/ ~Known(k)
       /\ Cached(IF Known(k)
                   THEN [Cache EXCEPT !.tree[k].packets = @ \cup {Number}]
                   ELSE [Cache EXCEPT !.uncounted = @ \cup {Number}])
       /\ UNCHANGED leaked

(* The node of the fragments becomes that of the packet's flow, with the   *)
(* times of the first fragment.                                            *)
LastFragment ==
    LET k == FlowKey(current.key)
        frag == FlowTree[FragKey(current.key)]
        others == Restrict(FlowTree, DOMAIN FlowTree \ {FragKey(current.key)})
    IN /\ current.kind = "last" /\ Known(FragKey(current.key))
       /\ Cached([Cache EXCEPT !.tree = Insert(others, k, frag.packets \cup {Number},
                                               frag.t_first, frag.t_last),
                               !.allocated = @ + Kept(Known(k)) - 1])
       /\ UNCHANGED leaked

ProcessPacket ==
    FlowPacket \/ SinglePacket \/ NoFlow \/ FirstFragment \/ NextFragment \/ LastFragment
-------------------------------------------------------------------------------
(* The packet thread                                                       *)

FirstBuffer ==
    /\ packet = "start"
    /\ IF dump
         THEN /\ bufferQueue # <<>>
              /\ packetBuffer' = Head(bufferQueue) /\ bufferQueue' = Tail(bufferQueue)
         ELSE UNCHANGED <<packetBuffer, bufferQueue>>
    /\ packet' = IF done THEN "finish" ELSE "next"
    /\ UNCHANGED <<setup, t_start, t_win, current, now, stream, dueIn, duplicates, flushQueue, flushClosed>>
    /\ UNCHANGED <<content, timeStamp, flushVars, cacheVars, flowVars, mainVars, usr1, faults, lost>>

(* The loop looks at done again, but within a block of the ring.           *)
NextTurn ==
    \/ packet' = IF done THEN "finish" ELSE "next"
    \/ mode = "ring" /\ stream # <<>> /\ packet' = "block"

(* What a packet may be stamped with: the first one of a file gives the    *)
(* slot to begin with, others are in no order.                             *)
Stamps == IF mode = "file" /\ dueIn = <<>> THEN Start .. Start + Twin - 1 ELSE MinTime .. MaxTime

(* the slot a packet of time t is to be filed in                           *)
SlotFor(t) == IF t < t_start THEN t_start ELSE Slot(t)

(* Mutant of NextPacket: a slot ends one second late.                      *)
NextPacketLate ==
    /\ packet \in {"next", "block"}
    /\ stream # <<>>
    /\ \E t \in Stamps :
         /\ now' = t
         /\ dueIn' = Append(dueIn, SlotFor(t))
         /\ packet' = IF t - t_start > Twin THEN "rotate" ELSE "process"
    /\ current' = [number |-> Len(dueIn) + 1, kind |-> Head(stream).kind, key |-> Head(stream).key]
    /\ stream' = Tail(stream)
    /\ UNCHANGED <<setup, t_start, t_win, duplicates, packetBuffer, poolVars, flushVars, cacheVars>>
    /\ UNCHANGED <<flowVars, mainVars, usr1, faults, lost>>

(* pcap_next_ex or the ring has a packet                                   *)
NextPacket ==
    /\ packet \in {"next", "block"}
    /\ stream # <<>>
    /\ \E t \in Stamps :
         /\ now' = t
         /\ dueIn' = Append(dueIn, SlotFor(t))
         /\ packet' = IF t - t_start >= Twin THEN "rotate" ELSE "process"
    /\ current' = [number |-> Len(dueIn) + 1, kind |-> Head(stream).kind, key |-> Head(stream).key]
    /\ stream' = Tail(stream)
    /\ UNCHANGED <<setup, t_start, t_win, duplicates, packetBuffer, poolVars, flushVars, cacheVars>>
    /\ UNCHANGED <<flowVars, mainVars, usr1, faults, lost>>

(* the end of the file, or an error                                        *)
EndOfCapture ==
    /\ packet = "next"
    /\ IF mode = "file" /\ stream = <<>> THEN UNCHANGED faults ELSE Fault("read")
    /\ packet' = "finish"
    /\ UNCHANGED <<setup, t_start, t_win, current, packetBuffer, now, stream, dueIn, duplicates>>
    /\ UNCHANGED <<poolVars, flushVars, cacheVars, flowVars, mainVars, usr1, lost>>

(* After an idle cycle linux_packet_thread goes on without a look at done. *)
IdleDone == packet' = IF mode # "ring" /\ done THEN "finish" ELSE "next"

(* A live capture times out: within the slot (then its time is not used),  *)
(* or after it.                                                            *)
IdleInSlot ==
    /\ packet = "next" /\ mode # "file"
    /\ CacheCheck(Cache, t_start)
    /\ IdleDone
    /\ UNCHANGED <<setup, t_start, t_win, current, packetBuffer, now, stream, dueIn, duplicates, poolVars>>
    /\ UNCHANGED <<flushVars, lastRun, leaked, flowVars, mainVars, usr1, faults, lost>>

IdleAfterSlot ==
    /\ packet = "next" /\ mode # "file"
    /\ \E t \in MinTime .. MaxTime : t - t_start >= Twin /\ now' = t
    /\ current' = None
    /\ packet' = "rotate"
    /\ UNCHANGED <<setup, t_start, t_win, packetBuffer, stream, dueIn, duplicates, poolVars>>
    /\ UNCHANGED <<flushVars, cacheVars, flowVars, mainVars, usr1, faults, lost>>

PushBuffer(mark) ==
    /\ timeStamp' = [timeStamp EXCEPT ![packetBuffer] = mark]
    /\ flushQueue' = Append(flushQueue, packetBuffer)
    /\ packetBuffer' = None

(* the pcap file of the slot ends with this buffer                         *)
RotateDump ==
    /\ packet = "rotate"
    /\ IF dump
         THEN PushBuffer(t_start) /\ packet' = "refill"
         ELSE packet' = "sync" /\ UNCHANGED <<timeStamp, flushQueue, packetBuffer>>
    /\ UNCHANGED <<setup, t_start, t_win, current, now, stream, dueIn, duplicates, bufferQueue, flushClosed>>
    /\ UNCHANGED <<content, flushVars, cacheVars, flowVars, mainVars, usr1, faults, lost>>

Refill ==
    /\ packet = "refill"
    /\ bufferQueue # <<>>
    /\ packetBuffer' = Head(bufferQueue) /\ bufferQueue' = Tail(bufferQueue)
    /\ packet' = "sync"
    /\ UNCHANGED <<setup, t_start, t_win, current, now, stream, dueIn, duplicates, flushQueue, flushClosed>>
    /\ UNCHANGED <<content, timeStamp, flushVars, cacheVars, flowVars, mainVars, usr1, faults, lost>>

(* Push_SyncNode: the flow file of the slot ends here                      *)
SyncFlows ==
    LET c == [Cache EXCEPT !.list = Append(@, Signal("sync", t_start)), !.allocated = @ + 1]
    IN /\ packet = "sync"
       /\ FreeNodes(1)
       /\ t_start' = Slot(now)
       /\ IF current = None
            THEN CacheCheck(c, Slot(now)) /\ IdleDone /\ UNCHANGED <<lastRun, leaked>>
            ELSE packet' = "process" /\ SetCache(c) /\ UNCHANGED <<lastRun, lastExpire, leaked>>
       /\ UNCHANGED <<setup, t_win, current, packetBuffer, now, stream, dueIn, duplicates>>
       /\ UNCHANGED <<poolVars, flushVars, flowVars, mainVars, usr1, faults, lost>>

Process ==
    /\ packet = "process"
    /\ ProcessPacket
    /\ IF dump /\ current.kind # "duplicate" THEN packet' = "store" ELSE NextTurn
    /\ duplicates' = IF current.kind = "duplicate" THEN duplicates \cup {Number} ELSE duplicates
    /\ UNCHANGED <<setup, t_start, t_win, current, packetBuffer, now, stream, dueIn>>
    /\ UNCHANGED <<poolVars, flushVars, flowVars, mainVars, usr1, faults, lost>>

PcapDump ==
    /\ packet = "store"
    /\ Len(content[packetBuffer]) < BufferSize
    /\ content' = [content EXCEPT ![packetBuffer] = Append(@, Number)]
    /\ NextTurn
    /\ UNCHANGED <<setup, t_start, t_win, current, packetBuffer, now, stream, dueIn, duplicates>>
    /\ UNCHANGED <<bufferQueue, flushQueue, flushClosed, timeStamp>>
    /\ UNCHANGED <<flushVars, cacheVars, flowVars, mainVars, usr1, faults, lost>>

BufferFull ==
    /\ packet = "store"
    /\ Len(content[packetBuffer]) >= BufferSize
    /\ PushBuffer(0)
    /\ packet' = "swap"
    /\ UNCHANGED <<setup, t_start, t_win, current, now, stream, dueIn, duplicates, bufferQueue, flushClosed>>
    /\ UNCHANGED <<content, flushVars, cacheVars, flowVars, mainVars, usr1, faults, lost>>

SwapBuffer ==
    /\ packet = "swap"
    /\ bufferQueue # <<>>
    /\ packetBuffer' = Head(bufferQueue) /\ bufferQueue' = Tail(bufferQueue)
    /\ packet' = "store"
    /\ UNCHANGED <<setup, t_start, t_win, current, now, stream, dueIn, duplicates, flushQueue, flushClosed>>
    /\ UNCHANGED <<content, timeStamp, flushVars, cacheVars, flowVars, mainVars, usr1, faults, lost>>

(* Mutant of Finish: queue_close is forgotten.                             *)
FinishKeepsOpen ==
    /\ packet = "finish"
    /\ IF dump
         THEN PushBuffer(t_start) /\ flushClosed' = FALSE
         ELSE UNCHANGED <<timeStamp, flushQueue, packetBuffer, flushClosed>>
    /\ t_win' = IF mode = "ring" THEN t_win ELSE t_start
    /\ usr1' = TRUE
    /\ packet' = "exited"
    /\ UNCHANGED <<setup, t_start, current, now, stream, dueIn, duplicates, bufferQueue, content>>
    /\ UNCHANGED <<flushVars, cacheVars, flowVars, mainVars, faults, lost>>

(* linux_packet_thread does not tell main the slot it was in.              *)
Finish ==
    /\ packet = "finish"
    /\ IF dump
         THEN PushBuffer(t_start) /\ flushClosed' = TRUE
         ELSE UNCHANGED <<timeStamp, flushQueue, packetBuffer, flushClosed>>
    /\ t_win' = IF mode = "ring" THEN t_win ELSE t_start
    /\ usr1' = TRUE
    /\ packet' = "exited"
    /\ UNCHANGED <<setup, t_start, current, now, stream, dueIn, duplicates, bufferQueue, content>>
    /\ UNCHANGED <<flushVars, cacheVars, flowVars, mainVars, faults, lost>>
-------------------------------------------------------------------------------
(* The flush thread                                                        *)

Marked == flushed.timeStamp # 0

(* A buffer without packets is not returned to the pool.                   *)
FlushPop ==
    /\ flush = "pop"
    /\ flushQueue # <<>>
    /\ LET b == Head(flushQueue)
       IN /\ flushed' = [buffer |-> b, timeStamp |-> timeStamp[b]]
          /\ flush' = IF content[b] # <<>> THEN "open"
                      ELSE IF timeStamp[b] # 0 THEN "close" ELSE "pop"
          /\ dropped' = IF content[b] # <<>> THEN dropped ELSE dropped \cup {b}
    /\ flushQueue' = Tail(flushQueue)
    /\ UNCHANGED <<bufferQueue, flushClosed, content, timeStamp, pd, pcap_dumpfile, pcaps, unmarked>>
    /\ UNCHANGED <<setup, packetVars, cacheVars, flowVars, mainVars, usr1, faults, lost>>

FlushEnd ==
    /\ flush = "pop"
    /\ flushQueue = <<>> /\ flushClosed
    /\ flush' = "exited"
    /\ UNCHANGED <<flushed, pd, pcap_dumpfile, pcaps, dropped, unmarked>>
    /\ UNCHANGED <<setup, packetVars, poolVars, cacheVars, flowVars, mainVars, usr1, faults, lost>>

(* fopen with "wb" cuts off what a failed rename has left.                 *)
OpenDumpFile ==
    /\ flush = "open"
    /\ flush' = "write"
    /\ pd' = TRUE
    /\ IF pd
         THEN UNCHANGED <<pcap_dumpfile, lost>>
         ELSE /\ pcap_dumpfile' = <<>>
              /\ lost' = [lost EXCEPT !.pcap = @ \cup ToSet(pcap_dumpfile)]
    /\ UNCHANGED <<flushed, pcaps, dropped, unmarked>>
    /\ UNCHANGED <<setup, packetVars, poolVars, cacheVars, flowVars, mainVars, usr1, faults>>

(* the flush thread ends with the buffer in its hands                      *)
OpenDumpFileFails ==
    /\ flush = "open" /\ ~pd
    /\ Fault("open")
    /\ flush' = "dead"
    /\ usr1' = TRUE
    /\ UNCHANGED <<flushed, pd, pcap_dumpfile, pcaps, dropped, unmarked>>
    /\ UNCHANGED <<setup, packetVars, poolVars, cacheVars, flowVars, mainVars, lost>>

ReturnBuffer ==
    /\ content' = [content EXCEPT ![flushed.buffer] = <<>>]
    /\ bufferQueue' = Append(bufferQueue, flushed.buffer)
    /\ flush' = IF Marked THEN "close" ELSE "pop"
    /\ UNCHANGED <<flushQueue, flushClosed, timeStamp, flushed, pd, pcaps, dropped, unmarked>>
    /\ UNCHANGED <<setup, packetVars, cacheVars, flowVars, mainVars, usr1>>

(* Mutant of WriteBuffer: the buffer is returned with its packets in it.   *)
WriteBufferKeepsSize ==
    /\ flush = "write"
    /\ pcap_dumpfile' = pcap_dumpfile \o content[flushed.buffer]
    /\ bufferQueue' = Append(bufferQueue, flushed.buffer)
    /\ flush' = IF Marked THEN "close" ELSE "pop"
    /\ UNCHANGED <<content, flushQueue, flushClosed, timeStamp, flushed, pd, pcaps, dropped, unmarked>>
    /\ UNCHANGED <<setup, packetVars, cacheVars, flowVars, mainVars, usr1, faults, lost>>

WriteBuffer ==
    /\ flush = "write"
    /\ pcap_dumpfile' = pcap_dumpfile \o content[flushed.buffer]
    /\ ReturnBuffer
    /\ UNCHANGED <<faults, lost>>

WriteBufferFails ==
    /\ flush = "write"
    /\ Fault("write")
    /\ lost' = [lost EXCEPT !.pcap = @ \cup ToSet(content[flushed.buffer])]
    /\ ReturnBuffer
    /\ UNCHANGED pcap_dumpfile

(* pcap.<slot> is the renamed dump file, or gets its packets appended; the *)
(* dump file is unlinked whether appending succeeded or not.               *)
CloseDumpFile ==
    LET slot == flushed.timeStamp
        packets == pcap_dumpfile
    IN /\ flush = "close"
       /\ flush' = "clear"
       /\ pd' = FALSE
       /\ \/ ~pd /\ UNCHANGED <<pcap_dumpfile, pcaps, faults, lost>>
          \/ /\ pd
             /\ pcaps' = Put(pcaps, slot, IF slot \in DOMAIN pcaps THEN pcaps[slot] \o packets ELSE packets)
             /\ pcap_dumpfile' = <<>>
             /\ UNCHANGED <<faults, lost>>
          \/ /\ pd /\ slot \notin DOMAIN pcaps /\ Fault("rename")
             /\ UNCHANGED <<pcap_dumpfile, pcaps, lost>>
          \/ /\ pd /\ slot \in DOMAIN pcaps /\ Fault("append")
             /\ pcap_dumpfile' = <<>>
             /\ lost' = [lost EXCEPT !.pcap = @ \cup ToSet(packets)]
             /\ UNCHANGED pcaps
       /\ UNCHANGED <<flushed, dropped, unmarked>>
       /\ UNCHANGED <<setup, packetVars, poolVars, cacheVars, flowVars, mainVars, usr1>>

(* The time stamp is cleared of a buffer that was returned before, and may *)
(* have been marked again.                                                 *)
ClearTimeStamp ==
    /\ flush = "clear"
    /\ timeStamp' = [timeStamp EXCEPT ![flushed.buffer] = 0]
    /\ unmarked' = IF flushed.buffer \in ToSet(flushQueue)
                     THEN unmarked \cup ({timeStamp[flushed.buffer]} \ {0}) ELSE unmarked
    /\ flush' = "pop"
    /\ UNCHANGED <<bufferQueue, flushQueue, flushClosed, content, flushed, pd, pcap_dumpfile, pcaps, dropped>>
    /\ UNCHANGED <<setup, packetVars, cacheVars, flowVars, mainVars, usr1, faults, lost>>
-------------------------------------------------------------------------------
(* The flow thread                                                         *)

OpenNewFile ==
    /\ flow \in {"open", "reopen"}
    /\ nffile' = <<>>
    /\ flow' = "pop" /\ node' = None
    /\ Allocated' = IF flow = "reopen" THEN Allocated - 1 ELSE Allocated
    /\ UNCHANGED <<archive, FlowTree, NodeList, lastRun, lastExpire, uncounted, leaked>>
    /\ UNCHANGED <<setup, packetVars, poolVars, flushVars, mainVars, usr1, faults, lost>>

(* the thread ends; the node in its hands is not freed                     *)
OpenNewFileFails ==
    /\ flow \in {"open", "reopen"}
    /\ Fault("openflow")
    /\ flow' = "dead" /\ usr1' = TRUE
    /\ UNCHANGED <<node, nffile, archive, lost>>
    /\ UNCHANGED <<setup, packetVars, poolVars, flushVars, cacheVars, mainVars>>

Pop_Node ==
    /\ flow = "pop"
    /\ NodeList # <<>>
    /\ node' = Head(NodeList) /\ NodeList' = Tail(NodeList)
    /\ flow' = Head(NodeList).type
    /\ UNCHANGED <<nffile, archive, FlowTree, Allocated, lastRun, lastExpire, uncounted, leaked>>
    /\ UNCHANGED <<setup, packetVars, poolVars, flushVars, mainVars, usr1, faults, lost>>

StorePcapFlow ==
    /\ flow = "flow"
    /\ nffile' = Append(nffile, node)
    /\ flow' = "pop" /\ node' = None
    /\ Allocated' = Allocated - 1
    /\ UNCHANGED <<archive, FlowTree, NodeList, lastRun, lastExpire, uncounted, leaked>>
    /\ UNCHANGED <<setup, packetVars, poolVars, flushVars, mainVars, usr1, faults, lost>>

PacketsOf(flows) == UNION {f.packets : f \in ToSet(flows)}

(* CloseFlowFile, for SIGNAL_SYNC and for SIGNAL_DONE: the file is closed  *)
(* and moved, or stays where the next file will overwrite it               *)
CloseFlowFile ==
    /\ flow \in {"sync", "done"}
    /\ LET slot == node.t_first
       IN \/ /\ archive' = Put(archive, slot, IF slot \in DOMAIN archive THEN archive[slot] \o nffile ELSE nffile)
             /\ UNCHANGED <<faults, lost>>
          \/ /\ Fault("renameflow")
             /\ lost' = [lost EXCEPT !.flow = @ \cup PacketsOf(nffile)]
             /\ UNCHANGED archive
    /\ nffile' = <<>>
    /\ flow' = IF flow = "sync" THEN "reopen" ELSE "exited"
    /\ UNCHANGED node
    /\ UNCHANGED <<setup, packetVars, poolVars, flushVars, cacheVars, mainVars, usr1>>
-------------------------------------------------------------------------------
(* The main thread                                                         *)

Terminate ==
    /\ ~asked /\ main = "wait"
    /\ asked' = TRUE
    /\ UNCHANGED <<main, done, missed>>
    /\ UNCHANGED <<setup, packetVars, poolVars, flushVars, cacheVars, flowVars, usr1, faults, lost>>

WaitDone ==
    /\ main = "wait"
    /\ asked \/ usr1
    /\ main' = "kill"
    /\ UNCHANGED <<asked, done, missed>>
    /\ UNCHANGED <<setup, packetVars, poolVars, flushVars, cacheVars, flowVars, usr1, faults, lost>>

(* SIGUSR2: the handler sets done; poll fails with EINTR, unless the       *)
(* signal comes before it.                                                 *)
SignalPacketThread ==
    /\ main = "kill"
    /\ main' = "joinpacket"
    /\ done' = TRUE
    /\ \/ mode = "ring" /\ packet = "next" /\ packet' = "finish" /\ UNCHANGED missed
       \/ packet' = packet /\ missed' = (mode = "ring" /\ packet # "exited")
    /\ UNCHANGED <<t_start, t_win, current, packetBuffer, now, stream, dueIn, duplicates, asked>>
    /\ UNCHANGED <<setup, poolVars, flushVars, cacheVars, flowVars, usr1, faults, lost>>

JoinThreads ==
    /\ main = "joinpacket"
    /\ packet = "exited"
    /\ flush \in {"exited", "dead"}
    /\ main' = "flush"
    /\ UNCHANGED <<asked, done, missed>>
    /\ UNCHANGED <<setup, packetVars, poolVars, flushVars, cacheVars, flowVars, usr1, faults, lost>>

(* all flows go to the flow thread, then the signal of the end             *)
Flush_FlowTree ==
    /\ main = "flush"
    /\ SetCache(Removed(Cache, DOMAIN FlowTree))
    /\ main' = "signal"
    /\ UNCHANGED <<lastRun, lastExpire, leaked, asked, done, missed>>
    /\ UNCHANGED <<setup, packetVars, poolVars, flushVars, flowVars, usr1, faults, lost>>

SignalFlowThread ==
    /\ main = "signal"
    /\ FreeNodes(1)
    /\ SetCache([Cache EXCEPT !.list = Append(@, Signal("done", t_win)), !.allocated = @ + 1])
    /\ main' = "joinflow"
    /\ UNCHANGED <<lastRun, lastExpire, leaked, asked, done, missed>>
    /\ UNCHANGED <<setup, packetVars, poolVars, flushVars, flowVars, usr1, faults, lost>>

JoinFlowThread ==
    /\ main = "joinflow"
    /\ flow \in {"exited", "dead"}
    /\ main' = "exited"
    /\ UNCHANGED <<asked, done, missed>>
    /\ UNCHANGED <<setup, packetVars, poolVars, flushVars, cacheVars, flowVars, usr1, faults, lost>>
-------------------------------------------------------------------------------
PacketThread ==
    \/ FirstBuffer \/ IdleInSlot \/ IdleAfterSlot
    \/ RotateDump \/ Refill \/ SyncFlows
    \/ Process \/ PcapDump \/ BufferFull \/ SwapBuffer \/ Finish

FlushThread ==
    \/ FlushPop \/ FlushEnd
    \/ OpenDumpFile \/ OpenDumpFileFails \/ WriteBuffer \/ WriteBufferFails
    \/ CloseDumpFile \/ ClearTimeStamp

FlowThread ==
    \/ OpenNewFile \/ OpenNewFileFails
    \/ Pop_Node \/ StorePcapFlow \/ CloseFlowFile

MainThread ==
    \/ WaitDone \/ SignalPacketThread \/ JoinThreads
    \/ Flush_FlowTree \/ SignalFlowThread \/ JoinFlowThread

Next ==
    \/ PacketThread \/ NextPacket \/ EndOfCapture
    \/ FlushThread \/ FlowThread
    \/ MainThread \/ Terminate

Spec == Init /\ [][Next]_vars

(* The threads run.  A file is read to its end, and a block of the ring is *)
(* there already; on a wire nothing need come, and nobody need end nfpcapd.*)
FairSpec ==
    /\ Spec
    /\ WF_vars(PacketThread)
    /\ WF_vars((mode = "file" \/ packet = "block") /\ (NextPacket \/ EndOfCapture))
    /\ WF_vars(FlushThread)
    /\ WF_vars(FlowThread)
    /\ WF_vars(MainThread)
-------------------------------------------------------------------------------
Numbers == DOMAIN dueIn

TypeOK ==
    /\ packet \in {"start", "next", "block", "rotate", "refill", "sync", "process", "store",
                   "swap", "finish", "exited"}
    /\ flush \in {"pop", "open", "write", "close", "clear", "dead", "exited"}
    /\ flow \in {"open", "pop", "flow", "sync", "reopen", "done", "dead", "exited"}
    /\ main \in {"wait", "kill", "joinpacket", "flush", "signal", "joinflow", "exited"}
    /\ packetBuffer \in Buffers \cup {None}
    /\ \A b \in Buffers : Len(content[b]) <= BufferSize
    /\ Allocated \in 0 .. MaxNodes
    /\ DOMAIN FlowTree \subseteq {FlowKey(k) : k \in Keys} \cup {FragKey(k) : k \in Keys}

(* Each buffer is in one queue, in the hands of one thread, or dropped,    *)
(* and those the packet thread may take are empty.                         *)
BuffersAccounted ==
    LET held == IF packetBuffer # None THEN {packetBuffer} ELSE {}
        taken == IF flush \in {"open", "write", "dead"} THEN {flushed.buffer} ELSE {}
        places == <<ToSet(bufferQueue), ToSet(flushQueue), held, taken, dropped>>
    IN /\ \A i, j \in DOMAIN places : i # j => places[i] \cap places[j] = {}
       /\ UNION ToSet(places) = Buffers
       /\ Len(bufferQueue) = Cardinality(places[1]) /\ Len(flushQueue) = Cardinality(places[2])
       /\ \A b \in places[1] : content[b] = <<>>

(* Each node in use is in the tree, on the list or in the flow thread's    *)
(* hands, or was forgotten.                                                *)
NodesAccounted ==
    Allocated = Cardinality(DOMAIN FlowTree) + Len(NodeList)
                + (IF node = None THEN 0 ELSE 1) + leaked

IInv == TypeOK /\ BuffersAccounted /\ NodesAccounted

(* The places packets of the dump are in, and those in each                *)
Places ==
    {<<"file">>} \cup {<<"buffer", b>> : b \in Buffers} \cup {<<"slot", s>> : s \in DOMAIN pcaps}
Dumped(p) ==
    CASE p[1] = "file"   -> pcap_dumpfile
      [] p[1] = "buffer" -> content[p[2]]
      [] p[1] = "slot"   -> pcaps[p[2]]
InDump == UNION {ToSet(Dumped(p)) : p \in Places}

(* Every packet that comes, but for duplicates, is put into a buffer, and  *)
(* from then on is in one place and once, unless a call failed for it; the *)
(* pcap file of a slot holds, in the order they came, the packets of that  *)
(* slot, those stamped earlier that came while it was the one at hand, and *)
(* none of an earlier one but of slots whose mark the flush thread took    *)
(* off again (pcap_packet_thread, flush_thread, CloseDumpFile).            *)
PacketsDumped ==
    /\ \A p, q \in Places : \A i \in DOMAIN Dumped(p), j \in DOMAIN Dumped(q) :
         Dumped(p)[i] = Dumped(q)[j] => p = q /\ i = j
    /\ InDump \cap lost.pcap = {}
    /\ dump => \A n \in Numbers \ (duplicates \cup lost.pcap) :
         \/ n \in InDump
         \/ /\ packet \in {"rotate", "refill", "sync", "process", "store", "swap"}
            /\ current # None /\ n = Number
    /\ \A s \in DOMAIN pcaps : \A i \in DOMAIN pcaps[s] :
         LET slot == dueIn[pcaps[s][i]]
         IN /\ slot = s \/ (slot < s /\ slot \in unmarked)
            /\ i > 1 => pcaps[s][i - 1] < pcaps[s][i]

InTree  == UNION {FlowTree[k].packets : k \in DOMAIN FlowTree}
InHand  == IF node = None \/ flow = "reopen" THEN {} ELSE node.packets
InFiles == UNION {PacketsOf(archive[s]) : s \in DOMAIN archive}

(* Every packet is counted by one flow, on its way through the cache, the  *)
(* list and the file, or by none at all; the file of a slot has no packet  *)
(* that is due in a later one.  The last file of linux_packet_thread has a *)
(* wrong name.                                                             *)
PacketsCounted ==
    LET places == <<InTree, PacketsOf(NodeList), InHand, PacketsOf(nffile), InFiles, lost.flow, uncounted>>
        waiting == IF packet \in {"rotate", "refill", "sync", "process"} /\ current # None
                     THEN {Number} ELSE {}
    IN /\ \A i, j \in DOMAIN places : i # j => places[i] \cap places[j] = {}
       /\ Numbers = (UNION ToSet(places)) \cup waiting
       /\ \A s \in DOMAIN archive : \A n \in PacketsOf(archive[s]) :
            dueIn[n] <= s \/ (mode = "ring" /\ s < Start)

(* the pool has run dry, because of empty buffers or a dead flush thread   *)
Starved ==
    /\ packet \in {"start", "refill", "swap"} /\ bufferQueue = <<>>
    /\ dropped # {} \/ flush = "dead"

(* the thread that waits for nodes is the one that has them in its tree,   *)
(* or the flow thread, which frees them, is dead                           *)
NodesOut ==
    /\ \/ packet = "sync" /\ ~FreeNodes(1)
       \/ packet = "process" /\ ~FreeNodes(IF current.kind = "tunnel" THEN 2 ELSE 1)
       \/ main = "signal" /\ ~FreeNodes(1)
    /\ FlowTree # <<>> \/ leaked > 0 \/ flow = "dead"

(* nfpcapd ends when it is asked to, at the end of the file and when a     *)
(* thread dies, unless the packet thread waits for a buffer or a node      *)
(* nobody returns, or for a packet because the signal was missed (WaitDone,*)
(* main).                                                                  *)
CaptureEnds ==
    <>(asked \/ usr1) =>
        <>[](main = "exited" \/ Starved \/ NodesOut \/ (missed /\ packet = "next"))
===============================================================================
