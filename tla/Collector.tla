------------------------------- MODULE Collector ------------------------------
(***************************************************************************)
(* The main loop of nfcapd (src/src/nfcapd/nfcapd.c, run) with the flow    *)
(* sources and the rotation of their files                                 *)
(* (src/src/collector/collector.c, collector_inline.c): a packet or a      *)
(* signal ends recvfrom, the time slot is closed if it is over, and the    *)
(* packet is decoded into the file of its source.  One signal handler      *)
(* serves SIGALRM and SIGTERM; it sets a flag, and what wakes the loop is  *)
(* the interrupted system call.                                            *)
(*                                                                         *)
(* nfcapd runs without a launcher (option -x) and a repeater here.  Blocks *)
(* and writer threads are FlowFile's: a file is the sequence of its        *)
(* records.                                                                *)
(***************************************************************************)
EXTENDS Exporters, FiniteSetsExt

CONSTANTS
    Setups,         (* the sources nfcapd is started with, none with -M,   *)
                    (* and the packets that come in                        *)
    Twin,           (* -t: length of a time slot in seconds                *)
    SocketSize,     (* packets the kernel keeps                            *)
    MaxTime,        (* bound: seconds the collector is watched             *)
    MaxFaults       (* bound: failures of RenameAppend and OpenNewFile     *)

ASSUME CollectorAssumption ==
    /\ Setups \subseteq [sources : Seq(Sources), stream : Seq(Packets)]
    /\ Twin \in Nat \ {0} /\ SocketSize \in Nat \ {0}
    /\ MaxTime \in Nat /\ MaxFaults \in Nat

VARIABLES
    now,            (* time()                                              *)
    alarm,          (* when SIGALRM is due                                 *)
    t_start, t_now, (* begin of the slot; the time when a packet came      *)
    done,           (* set by the handler of SIGTERM                       *)
    missed,         (* history: signals that came where nothing waits      *)
    stream, socket, (* packets to come, packets in the kernel              *)
    FlowSource,     (* the list of sources                                 *)
    dynamic,        (* -M: sources are added as they appear                *)
    archive,        (* per source: its files nfcapd.<time slot>            *)
    lost,           (* history: flows dropped after a failing call         *)
    faults

clockVars  == <<now, alarm, t_start, t_now>>
signalVars == <<done, missed>>
netVars    == <<stream, socket>>
sourceVars == <<FlowSource, dynamic>>
storeVars  == <<archive, lost, faults>>
decodeVars == <<exporterVars, packetVars, exporter, setNo>>
vars == <<decodeVars, main, clockVars, signalVars, netVars, sourceVars, storeVars>>

Never == MaxTime + Twin + 2

(* alarm(2): 0 cancels, and a negative argument is a huge unsigned one     *)
AlarmIn(seconds) == alarm' = IF seconds > 0 THEN Min({now + seconds, Never}) ELSE Never

NumbersOf(records) == {r.number : r \in {x \in ToSet(records) : x.kind = "flow"}}

Init ==
    /\ exporter_data = [s \in Sources |-> <<>>]
    /\ exporter_count = [s \in Sources |-> 0]
    /\ exporter_sysid = 0
    /\ file = [s \in Sources |-> <<>>]
    /\ received = 0 /\ decoded = 0 /\ dangling = FALSE
    /\ main = "top" /\ fs = None /\ packet = None /\ exporter = 0 /\ setNo = 1
    /\ now = 0 /\ t_start = 0 /\ t_now = 0
    /\ alarm = Twin + 1
    /\ done = FALSE /\ missed = {}
    /\ \E setup \in Setups : FlowSource = setup.sources /\ stream = setup.stream
    /\ socket = <<>>
    /\ dynamic = (FlowSource = <<>>)
    /\ archive = [s \in Sources |-> <<>>]
    /\ lost = {} /\ faults = 0
-------------------------------------------------------------------------------
(* The world: time, signals and packets                                    *)

(* Where the handler returns to: recvfrom fails with EINTR, otherwise the  *)
(* loop goes on.  Signals that come before recvfrom, after the place that  *)
(* looks for them, are missed.                                             *)
Deliver(signal, seen) ==
    IF main = "recv"
      THEN /\ main' = "check" /\ packet' = None
           /\ UNCHANGED missed
      ELSE /\ missed' = IF main \in seen THEN missed ELSE missed \cup {signal}
           /\ UNCHANGED <<main, packet>>

Tick ==
    /\ now < MaxTime /\ main \notin {"exited", "dead"}
    /\ now' = now + 1
    /\ IF alarm = now'
         THEN /\ alarm' = Never
              /\ Deliver("alarm", {"check"})
         ELSE UNCHANGED <<alarm, main, packet, missed>>
    /\ UNCHANGED <<exporterVars, fs, received, exporter, setNo, t_start, t_now, done,
                   netVars, sourceVars, storeVars>>

(* SIGTERM, SIGINT, SIGHUP *)
Term ==
    /\ ~done /\ main \notin {"exited", "dead"}
    /\ done' = TRUE
    /\ Deliver("term", {"top", "check", "rotate", "rotated", "dispatch", "packet", "sets"})
    /\ UNCHANGED <<exporterVars, fs, received, exporter, setNo, clockVars, netVars, sourceVars, storeVars>>

(* A packet comes in; a full socket buffer drops it.                       *)
Arrive ==
    /\ stream # <<>>
    /\ stream' = Tail(stream)
    /\ socket' = IF Len(socket) < SocketSize THEN Append(socket, Head(stream)) ELSE socket
    /\ UNCHANGED <<decodeVars, main, clockVars, signalVars, sourceVars, storeVars>>
-------------------------------------------------------------------------------
(* The main loop                                                           *)

Top ==
    /\ main = "top"
    /\ main' = IF done THEN "check" ELSE "call"
    /\ UNCHANGED <<decodeVars, clockVars, signalVars, netVars, sourceVars, storeVars>>

(* recvfrom is entered                                                     *)
Call ==
    /\ main = "call"
    /\ main' = "recv"
    /\ UNCHANGED <<decodeVars, clockVars, signalVars, netVars, sourceVars, storeVars>>

Receive ==
    /\ main = "recv" /\ socket # <<>>
    /\ packet' = Head(socket) /\ socket' = Tail(socket)
    /\ main' = "check"
    /\ UNCHANGED <<exporterVars, fs, received, exporter, setNo, clockVars, signalVars,
                   stream, sourceVars, storeVars>>

(* Mutant of CheckSlot: the end of the slot is looked for after the packet *)
(* was taken for it.                                                       *)
CheckSlotLate ==
    /\ main = "check"
    /\ t_now' = now
    /\ IF now - t_start > Twin + 1 \/ done
         THEN main' = "rotate" /\ alarm' = Never
         ELSE main' = (IF packet = None THEN "top" ELSE "dispatch") /\ UNCHANGED alarm
    /\ UNCHANGED <<decodeVars, now, t_start, signalVars, netVars, sourceVars, storeVars>>

CheckSlot ==
    /\ main = "check"
    /\ t_now' = now
    /\ IF now - t_start >= Twin \/ done
         THEN main' = "rotate" /\ alarm' = Never
         ELSE main' = (IF packet = None THEN "top" ELSE "dispatch") /\ UNCHANGED alarm
    /\ UNCHANGED <<decodeVars, now, t_start, signalVars, netVars, sourceVars, storeVars>>

(* RotateFlowFiles, for each source in turn: the statistics of its         *)
(* exporters end the file, RenameAppend moves it, and unless nfcapd stops  *)
(* OpenNewFile truncates nfcapd.current and FlushStdRecords fills in the   *)
(* exporters.  badRename: sources whose file cannot be moved; it stays     *)
(* until the new one truncates it.  badOpen: the source whose new file     *)
(* cannot be opened, 0 for none; run() returns at once and frees the open  *)
(* blocks of the sources behind it.                                        *)
RotateFlowFiles ==
    /\ main = "rotate"
    /\ \E badOpen \in 0 .. (IF done THEN 0 ELSE Len(FlowSource)) :
       LET turns   == IF badOpen = 0 THEN DOMAIN FlowSource ELSE 1 .. badOpen
           rotated == {FlowSource[i] : i \in turns}
           opened  == IF done THEN {} ELSE {FlowSource[i] : i \in turns \ {badOpen}}
           closed(s) == file[s] \o StatRecords(s)
       IN \E badRename \in SUBSET rotated :
          /\ faults' = faults + Cardinality(badRename) + (IF badOpen = 0 THEN 0 ELSE 1)
          /\ faults' <= MaxFaults
          /\ archive' = [s \in Sources |->
                IF s \in rotated \ badRename
                  THEN Append(archive[s], [start |-> t_start, records |-> closed(s)])
                  ELSE archive[s]]
          /\ exporter_data' = [s \in Sources |->
                IF s \in rotated THEN ResetCounters(s) ELSE exporter_data[s]]
          /\ file' = [s \in Sources |->
                IF s \in opened THEN StdRecords(s)
                ELSE IF s \in rotated \cap badRename THEN closed(s)
                ELSE <<>>]
          /\ lost' = lost \cup UNION {NumbersOf(file[s]) :
                s \in (badRename \cap opened) \cup (ToSet(FlowSource) \ rotated)}
          /\ main' = IF badOpen = 0 THEN "rotated" ELSE "exited"
    /\ UNCHANGED <<exporter_count, exporter_sysid, decoded, dangling, packetVars, exporter, setNo,
                   clockVars, signalVars, netVars, sourceVars>>

(* The next slot begins where this one ends, however late it is; then      *)
(* there may be no time left for the alarm.                                *)
NextSlot ==
    /\ main = "rotated"
    /\ IF done
         THEN main' = "exited" /\ UNCHANGED <<t_start, alarm, missed>>
         ELSE /\ t_start' = t_start + Twin
              /\ LET left == t_start' + Twin + 1 - t_now
                 IN /\ AlarmIn(left)
                    /\ missed' = IF left > 0 THEN missed \ {"alarm"} ELSE missed \cup {"alarm"}
              /\ main' = IF packet = None THEN "top" ELSE "dispatch"
    /\ UNCHANGED <<decodeVars, now, t_now, done, netVars, sourceVars, storeVars>>

(* GetFlowSource *)
SourceOf(address) == {s \in ToSet(FlowSource) : s = address \/ s = AnySource}

(* The source of the packet; one without is ignored.                       *)
Dispatch ==
    /\ main = "dispatch"
    /\ LET known == SourceOf(packet.key[1])
       IN IF known # {}
            THEN /\ fs' \in known
                 /\ received' = t_now
                 /\ main' = "packet"
            ELSE /\ ~dynamic
                 /\ main' = "top"
                 /\ UNCHANGED <<fs, received>>
    /\ UNCHANGED <<exporterVars, packet, exporter, setNo, clockVars, signalVars, netVars, sourceVars, storeVars>>

(* AddDynamicSource and its first file.  The count of exporters that is    *)
(* reset is the one at the head of the list.                               *)
AddDynamicSource ==
    /\ main = "dispatch" /\ dynamic
    /\ SourceOf(packet.key[1]) = {}
    /\ FlowSource' = Append(FlowSource, packet.key[1])
    /\ exporter_count' = [exporter_count EXCEPT ![Head(FlowSource')] = 0]
    /\ \/ /\ main' = "packet"
          /\ fs' = packet.key[1] /\ received' = t_now
          /\ UNCHANGED <<faults, lost, file>>
       \/ /\ faults < MaxFaults /\ faults' = faults + 1      \* OpenNewFile fails
          /\ main' = "exited"
          /\ lost' = lost \cup UNION {NumbersOf(file[s]) : s \in ToSet(FlowSource)}
          /\ file' = [s \in Sources |-> <<>>]
          /\ UNCHANGED <<fs, received>>
    /\ UNCHANGED <<exporter_data, exporter_sysid, decoded, dangling, packet, exporter, setNo, dynamic,
                   archive, clockVars, signalVars, netVars>>

Process ==
    /\ Decode
    /\ UNCHANGED <<clockVars, signalVars, netVars, sourceVars, storeVars>>

(* Freed templates are read: nfcapd dies, or a list without an end keeps   *)
(* it.  What it has of the open files is lost.                             *)
Perish ==
    /\ main = "sets" /\ dangling
    /\ main' = "dead"
    /\ lost' = lost \cup UNION {NumbersOf(file[s]) : s \in ToSet(FlowSource)}
    /\ file' = [s \in Sources |-> <<>>]
    /\ UNCHANGED <<exporter_data, exporter_count, exporter_sysid, decoded, dangling, packetVars,
                   exporter, setNo, clockVars, signalVars, netVars, sourceVars, archive, faults>>

Loop ==
    \/ Top \/ Call \/ Receive \/ CheckSlot \/ RotateFlowFiles \/ NextSlot
    \/ Dispatch \/ AddDynamicSource \/ Process \/ Perish

Next == Tick \/ Term \/ Arrive \/ Loop

Spec == Init /\ [][Next]_vars

(* nfcapd runs on; nothing is assumed of time, signals and packets.        *)
FairSpec == Spec /\ WF_vars(Loop)
-------------------------------------------------------------------------------
(* Properties                                                              *)

TypeOK ==
    /\ exporter_data \in [Sources -> Seq(Exporters)]
    /\ exporter_count \in [Sources -> Nat]
    /\ exporter_sysid \in 0 .. MaxSysId
    /\ decoded \in Nat /\ dangling \in BOOLEAN /\ received \in 0 .. MaxTime
    /\ main \in {"top", "call", "recv", "check", "rotate", "rotated", "dispatch", "packet", "sets",
                 "exited", "dead"}
    /\ fs \in Sources \cup {None} /\ packet \in Packets \cup {None}
    /\ exporter \in Nat /\ setNo \in Nat
    /\ {now, t_now} \subseteq 0 .. MaxTime /\ t_start \in Nat /\ alarm \in Nat
    /\ done \in BOOLEAN /\ dynamic \in BOOLEAN
    /\ missed \subseteq {"alarm", "term"}
    /\ stream \in Seq(Packets) /\ socket \in Seq(Packets) /\ Len(socket) <= SocketSize
    /\ FlowSource \in Seq(Sources)
    /\ lost \subseteq Nat /\ faults \in 0 .. MaxFaults

Count(records, sysid) ==
    Cardinality({i \in DOMAIN records : records[i].kind = "flow" /\ records[i].sysid = sysid})

(* The counters of an exporter are those of its flows in the current file, *)
(* as long as no source was added (AddDynamicSource) and the file is open. *)
CountersMatch ==
    \A s \in Sources :
        /\ exporter_count[s] <= Len(exporter_data[s])
        /\ ~dynamic /\ main \notin {"rotated", "exited", "dead"} =>
              /\ exporter_count[s] = Len(exporter_data[s])
              /\ \A i \in DOMAIN exporter_data[s] :
                    LET e == exporter_data[s][i]
                    IN e.sysid # 0 => e.flows = Count(file[s], e.sysid)

(* No two exporters have the same id, except 0, which says that there are  *)
(* too many; an id that was given stays with its exporter.                 *)
SysidsUnique ==
    \A s, t \in Sources : \A i \in DOMAIN exporter_data[s], j \in DOMAIN exporter_data[t] :
        LET e == exporter_data[s][i]
            f == exporter_data[t][j]
        IN /\ e.sysid <= exporter_sysid
           /\ e.sysid = f.sysid /\ e.sysid # 0 => s = t /\ i = j
           /\ s = t /\ e.key = f.key => i = j

(* What the collector keeps of its exporters is consistent: types, one     *)
(* entry and one id per exporter over all sources, and counters that       *)
(* match the file (getExporter, AssignExporterID, FlushExporterStats).     *)
IInv == TypeOK /\ CountersMatch /\ SysidsUnique

Files(s) == {archive[s][i].records : i \in DOMAIN archive[s]} \cup {file[s]}

(* Every decoded flow is in exactly one file, of a slot that had begun     *)
(* when it was received, unless a call failed or nfcapd died: neither      *)
(* rotation, nor late slots, nor the end of nfcapd lose or repeat one      *)
(* (RotateFlowFiles, run).                                                 *)
FlowsStored ==
    LET flows(records) == {i \in DOMAIN records : records[i].kind = "flow"}
        archived == UNION {{s} \X DOMAIN archive[s] : s \in Sources}
    IN /\ \A n \in 1 .. decoded :
            LET inArchive == {p \in archived : n \in NumbersOf(archive[p[1]][p[2]].records)}
                inFiles == {s \in Sources : n \in NumbersOf(file[s])}
            IN IF n \in lost
                 THEN inArchive = {} /\ inFiles = {}
                 ELSE Cardinality(inArchive) + Cardinality(inFiles) = 1
       /\ \A s \in Sources : \A records \in Files(s) :
            Cardinality(flows(records)) = Cardinality(NumbersOf(records))
       /\ \A p \in archived :
            LET f == archive[p[1]][p[2]]
            IN /\ \A i \in flows(f.records) : f.records[i].at >= f.start
               /\ p[2] > 1 => archive[p[1]][p[2] - 1].start < f.start
       /\ faults = 0 /\ main # "dead" => lost = {}

(* What a reader that starts with this file makes of the sampler of a flow *)
ReadSampling(records, p) ==
    LET last(id) == {q \in 1 .. p - 1 : /\ records[q].kind = "sampler"
                                        /\ records[q].sysid = records[p].sysid
                                        /\ records[q].id = id}
        named == last(records[p].sampler)
    IN CASE named # {} -> records[Max(named)].interval
         [] named = {} /\ last(Generic) # {} -> records[Max(last(Generic))].interval
         [] OTHER -> 1

IsV9(s, sysid) == \E e \in ToSet(exporter_data[s]) : e.sysid = sysid /\ Version(e) = 9

SamplingDescribed ==
    \A s \in Sources : \A records \in Files(s) : \A p \in DOMAIN records :
        records[p].kind = "flow" /\ records[p].sysid # 0 /\ IsV9(s, records[p].sysid)
            => records[p].interval = ReadSampling(records, p)

(* Every file can be read by itself: the exporter of a flow stands before  *)
(* it, the sampler records before it give the interval it was scaled with  *)
(* (for NetFlow v9: ipfix.c:548 writes the record it is about to change),  *)
(* and the statistics at the end of an archived file count its flows       *)
(* (FlushStdRecords, InsertSampler, FlushExporterStats).                   *)
FilesSelfContained ==
    /\ SamplingDescribed
    /\ \A s \in Sources : \A records \in Files(s) : \A p \in DOMAIN records :
          records[p].kind = "flow" /\ records[p].sysid # 0 =>
              \E q \in 1 .. p - 1 : records[q] = [kind |-> "exporter", sysid |-> records[p].sysid]
    /\ ~dynamic => \A s \in Sources : \A i \in DOMAIN archive[s] :
          LET records == archive[s][i].records
          IN \A p \in DOMAIN records :
               records[p].kind = "exporter" /\ records[p].sysid # 0 =>
                 /\ records[Len(records)].kind = "stats"
                 /\ \E stat \in ToSet(records[Len(records)].stat) :
                       /\ stat.sysid = records[p].sysid
                       /\ stat.flows = Count(records, stat.sysid)

(* An id means what the router last announced for it: the template that    *)
(* would decode the next data set, from the cache or from the list, is the *)
(* last one with a field nfcapd knows that was not withdrawn               *)
(* (removeTemplate, getTemplate).  From a withdrawal of all templates on   *)
(* (removeAllTemplates) nothing can be said.                               *)
TemplatesAsAnnounced ==
    ~dangling =>
    \A s \in Sources : \A e \in ToSet(exporter_data[s]) : \A id \in TemplateIds :
        IF GetTemplate(e, id) = None
          THEN e.announced[id] = None
          ELSE e.announced[id] = GetTemplate(e, id).layout

(* SIGTERM ends nfcapd, and SIGALRM closes the slot, unless the signal     *)
(* came where the loop does not see it or the alarm was cancelled because  *)
(* the slot was over before it began (run, alarm), or nfcapd perishes.     *)
SignalsServed ==
    /\ done /\ "term" \notin missed ~> main \in {"exited", "dead"}
    /\ \A t \in 0 .. MaxTime :
          (t_start = t /\ alarm = Never /\ "alarm" \notin missed) ~> (t_start # t \/ main \in {"exited", "dead"})
===============================================================================
