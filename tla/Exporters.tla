------------------------------ MODULE Exporters -------------------------------
(***************************************************************************)
(* What nfcapd keeps of the exporters behind a flow source and how it      *)
(* decodes a NetFlow v9 or IPFIX packet with it                            *)
(* (src/src/netflow/netflow_v9.c, ipfix.c, src/src/collector/collector.c). *)
(* Both protocols keep a list of templates per exporter and look ids up    *)
(* through a cache of the last one; they differ in the sequence numbers    *)
(* and in the order in which an updated sampler is stored and written.     *)
(*                                                                         *)
(* A packet is a header and sets.  What a data set means depends on the    *)
(* template nfcapd holds for its id: one flow that names a sampler, or the *)
(* options of a sampler.  The layout of a template stands for its list of  *)
(* fields; "unknown" is one without any field nfcapd knows.                *)
(*                                                                         *)
(* An IPFIX exporter that withdraws all templates has its list freed but   *)
(* not emptied.  What is read from such a list after that is undefined:    *)
(* here any template may be found by any exporter, and nfcapd may die or   *)
(* search for ever (Collector); other damage is left out.                  *)
(***************************************************************************)
EXTENDS Integers, Sequences, FiniteSets, SequencesExt

CONSTANTS
    Addresses,      (* sender addresses                                    *)
    AnySource,      (* the source that takes packets of every sender       *)
    Domains,        (* source id or observation domain                     *)
    TemplateIds,
    Layouts,        (* layouts of flow records                             *)
    SamplerIds,     (* positive; 0 in a record: no sampler named           *)
    Intervals,      (* sampling intervals, greater than 1                  *)
    SeqModulus,     (* 2^32                                                *)
    MaxSysId,       (* 0xFFFF                                              *)
    None

ASSUME ExportersAssumption ==
    /\ AnySource \notin Addresses
    /\ SamplerIds \subseteq Nat \ {0} /\ Intervals \subseteq Nat \ {0, 1}
    /\ SeqModulus \in Nat \ {0} /\ MaxSysId \in Nat \ {0}
    /\ {"sampler", "unknown"} \cap Layouts = {}
    /\ None \notin Layouts \cup {"sampler"}
    /\ None \notin [id : TemplateIds, layout : Layouts \cup {"sampler"}]

Sources == Addresses \cup {AnySource}
Keys == Addresses \X {9, 10} \X Domains

(* the kinds of sets; only IPFIX withdraws templates                       *)
Sets ==
    [type : {"template"}, id : TemplateIds, layout : Layouts \cup {"unknown"}]
    \cup [type : {"options"}, id : TemplateIds, layout : {"sampler", "unknown"}]
    \cup [type : {"withdraw"}, id : TemplateIds]
    \cup [type : {"withdrawall"}]
    \cup [type : {"data"}, id : TemplateIds, sampler : {0} \cup SamplerIds, interval : Intervals]

Packets == [key : Keys, seq : 0 .. SeqModulus - 1, sets : Seq(Sets)]

(* SAMPLER_GENERIC: the sampler of records that name none                  *)
Generic == -1

VARIABLES
    exporter_data,  (* per source: its exporters, oldest first             *)
    exporter_count, (* per source                                          *)
    exporter_sysid, (* the last id given to an exporter                    *)
    file,           (* per source: records of its file nfcapd.current      *)
    received,       (* time stamp of the packet                            *)
    decoded,        (* history: flows decoded so far                       *)
    dangling,       (* whether a list of freed templates is in use         *)
    main,           (* where the main loop is                              *)
    fs, packet,     (* the packet at hand and its source                   *)
    exporter,       (* index of its exporter                               *)
    setNo           (* the set at hand                                     *)

exporterVars == <<exporter_data, exporter_count, exporter_sysid, file, decoded, dangling>>
packetVars == <<packet, fs, received>>

Templates == [id : TemplateIds, layout : Layouts \cup {"sampler"}]
Samplers  == [id : {Generic} \cup SamplerIds, interval : Intervals]

(* announced: history, what the router last said of each id              *)
Exporters == [key : Keys, sysid : 0 .. MaxSysId,
              template : Seq(Templates), currentTemplate : Templates \cup {None},
              sampler : Seq(Samplers), synced : BOOLEAN, sequence : 0 .. SeqModulus - 1,
              packets : Nat, flows : Nat, failures : Nat,
              announced : [TemplateIds -> Layouts \cup {"sampler", None}]]

ExporterInfo(e) == [kind |-> "exporter", sysid |-> e.sysid]
SamplerRecord(e, s) == [kind |-> "sampler", sysid |-> e.sysid, id |-> s.id, interval |-> s.interval]

AppendToBuffer(s, r) == file' = [file EXCEPT ![s] = Append(@, r)]
-------------------------------------------------------------------------------
(* The list of templates                                                   *)

(* where the first template with this id is; 0 without one                 *)
Position(list, id) == SelectInSeq(list, LAMBDA t : t.id = id)

(* Mutant of RemoveTemplate: the cache keeps the entry.                    *)
RemoveTemplateKeepsCache(e, id) ==
    LET i == Position(e.template, id)
    IN IF i = 0 THEN e ELSE [e EXCEPT !.template = RemoveAt(@, i)]

(* removeTemplate takes out the first one only.                            *)
RemoveTemplate(e, id) ==
    LET i == Position(e.template, id)
    IN IF i = 0 THEN e
       ELSE [e EXCEPT !.template = RemoveAt(@, i),
                      !.currentTemplate = IF @ = e.template[i] THEN None ELSE @]

(* newTemplate, at the head of the list                                    *)
AddTemplate(e, id, layout) ==
    [RemoveTemplate(e, id) EXCEPT !.template = <<[id |-> id, layout |-> layout]>> \o @]

(* getTemplate *)
GetTemplate(e, id) ==
    LET i == Position(e.template, id)
    IN IF e.currentTemplate # None /\ e.currentTemplate.id = id THEN e.currentTemplate
       ELSE IF i = 0 THEN None ELSE e.template[i]
-------------------------------------------------------------------------------
(* The header of a packet                                                  *)

Version(e) == e.key[2]

NewExporter(key, sysid) ==
    [key |-> key, sysid |-> sysid, template |-> <<>>, currentTemplate |-> None,
     sampler |-> <<>>, synced |-> FALSE, sequence |-> 0,
     packets |-> 0, flows |-> 0, failures |-> 0,
     announced |-> [id \in TemplateIds |-> None]]

AssignExporterID == IF exporter_sysid >= MaxSysId THEN 0 ELSE exporter_sysid + 1

(* The sequence number of v9 counts packets and that of IPFIX data         *)
(* records; the first packet, or those before the first data set, only     *)
(* synchronise.                                                            *)
Distance(last, seq) == IF seq - last < 0 THEN seq - last + SeqModulus ELSE seq - last

SequenceCheck(e, seq) ==
    LET failed == e.synced /\ Distance(e.sequence, seq) # (IF Version(e) = 9 THEN 1 ELSE 0)
    IN [e EXCEPT !.packets = @ + 1,
                 !.sequence = seq,
                 !.synced = @ \/ Version(e) = 9,
                 !.failures = IF failed THEN @ + 1 ELSE @]

(* getExporter and FlushInfoExporter, then the sequence check              *)
OpenPacket ==
    /\ main = "packet"
    /\ LET list == exporter_data[fs]
           known == {i \in DOMAIN list : list[i].key = packet.key}
       IN IF known # {}
            THEN \E i \in known :
                 /\ exporter' = i
                 /\ exporter_data' = [exporter_data EXCEPT ![fs][i] = SequenceCheck(@, packet.seq)]
                 /\ UNCHANGED <<exporter_count, exporter_sysid, file>>
            ELSE LET e == NewExporter(packet.key, AssignExporterID)
                 IN /\ exporter' = Len(list) + 1
                    /\ exporter_data' = [exporter_data EXCEPT ![fs] = Append(@, SequenceCheck(e, packet.seq))]
                    /\ exporter_count' = [exporter_count EXCEPT ![fs] = @ + 1]
                    /\ exporter_sysid' = IF e.sysid = 0 THEN exporter_sysid ELSE e.sysid
                    /\ AppendToBuffer(fs, ExporterInfo(e))
    /\ main' = "sets" /\ setNo' = 1
    /\ UNCHANGED <<decoded, dangling, packetVars>>
-------------------------------------------------------------------------------
(* The sets of a packet                                                    *)

TheSet == packet.sets[setNo]
TheExporter == exporter_data[fs][exporter]

AtSet(type) == main = "sets" /\ setNo <= Len(packet.sets) /\ TheSet.type = type

Update(e) == exporter_data' = [exporter_data EXCEPT ![fs][exporter] = e]

NextSet ==
    /\ setNo' = setNo + 1
    /\ UNCHANGED <<main, exporter, exporter_count, exporter_sysid, packetVars>>

Announce(e, id, layout) == [e EXCEPT !.announced[id] = layout]

(* Process_v9_templates, Process_ipfix_template_add: a template without a  *)
(* known field is skipped, and one that was there stays.                   *)
DataTemplate ==
    /\ AtSet("template")
    /\ Update(IF TheSet.layout = "unknown"
                THEN TheExporter
                ELSE Announce(AddTemplate(TheExporter, TheSet.id, TheSet.layout), TheSet.id, TheSet.layout))
    /\ NextSet
    /\ UNCHANGED <<file, decoded, dangling>>

(* Process_v9_option_templates, Process_ipfix_option_templates: the old    *)
(* template is removed in any case.                                        *)
OptionTemplate ==
    /\ AtSet("options")
    /\ Update(IF TheSet.layout = "unknown"
                THEN Announce(RemoveTemplate(TheExporter, TheSet.id), TheSet.id, None)
                ELSE Announce(AddTemplate(TheExporter, TheSet.id, TheSet.layout), TheSet.id, TheSet.layout))
    /\ NextSet
    /\ UNCHANGED <<file, decoded, dangling>>

(* Process_ipfix_template_withdraw of one template                         *)
WithdrawTemplate ==
    /\ AtSet("withdraw") /\ Version(TheExporter) = 10
    /\ Update(Announce(RemoveTemplate(TheExporter, TheSet.id), TheSet.id, None))
    /\ NextSet
    /\ UNCHANGED <<file, decoded, dangling>>

(* Process_ipfix_template_withdraw of all templates: they are freed, but   *)
(* removeAllTemplates leaves the list and the cache as they are.           *)
WithdrawAllTemplates ==
    /\ AtSet("withdrawall") /\ Version(TheExporter) = 10
    /\ Update([TheExporter EXCEPT !.announced = [id \in TemplateIds |-> None]])
    /\ dangling' = (dangling \/ TheExporter.template # <<>>)
    /\ NextSet
    /\ UNCHANGED <<file, decoded>>

(* What getTemplate may find, and put into the cache: in freed memory any  *)
(* template with this id, or none.                                         *)
Found(id) ==
    IF dangling THEN {None} \cup {t \in Templates : t.id = id}
    ELSE {GetTemplate(TheExporter, id)}

Cached(t) == [TheExporter EXCEPT !.currentTemplate = t]

(* A data set whose id has no template is skipped.                         *)
UnknownData ==
    /\ AtSet("data") /\ None \in Found(TheSet.id)
    /\ Update(Cached(None))
    /\ NextSet
    /\ UNCHANGED <<file, decoded, dangling>>

IndexOfSampler(samplers, id) == {i \in DOMAIN samplers : samplers[i].id = id}

(* The sampler a flow names, or the generic one; 1 without either          *)
SamplingOf(samplers, id) ==
    LET named == IndexOfSampler(samplers, id)
        generic == IndexOfSampler(samplers, Generic)
    IN CASE named # {} -> samplers[CHOOSE i \in named : TRUE].interval
         [] named = {} /\ generic # {} -> samplers[CHOOSE i \in generic : TRUE].interval
         [] OTHER -> 1

(* Process_v9_data, Process_ipfix_data: the flow is scaled by the sampling *)
(* interval and written.                                                   *)
FlowData ==
    /\ AtSet("data")
    /\ \E t \in Found(TheSet.id) :
         /\ t # None /\ t.layout \in Layouts
         /\ Update([Cached(t) EXCEPT !.flows = @ + 1,
                      !.synced = TRUE,
                      !.sequence = IF Version(TheExporter) = 10 THEN (@ + 1) % SeqModulus ELSE @])
    /\ decoded' = decoded + 1
    /\ AppendToBuffer(fs, [kind |-> "flow", number |-> decoded', at |-> received,
                      sysid |-> TheExporter.sysid, sampler |-> TheSet.sampler,
                      interval |-> SamplingOf(TheExporter.sampler, TheSet.sampler)])
    /\ NextSet
    /\ UNCHANGED dangling

(* InsertSampler: a new sampler, or a change of one, is kept and written.  *)
(* ipfix.c writes the record before it changes it.                         *)
InsertSampler(e, s) ==
    LET known == IndexOfSampler(e.sampler, s.id)
        i == CHOOSE j \in known : TRUE
    IN CASE known = {} ->
              /\ Update([e EXCEPT !.sampler = Append(@, s)])
              /\ AppendToBuffer(fs, SamplerRecord(e, s))
         [] known # {} /\ e.sampler[i] = s ->
              /\ Update(e)
              /\ UNCHANGED file
         [] OTHER ->
              /\ Update([e EXCEPT !.sampler[i] = s])
              /\ AppendToBuffer(fs, SamplerRecord(e, IF Version(e) = 9 THEN s ELSE e.sampler[i]))

(* Process_v9_sampler_option_data, Process_ipfix_sampler_option_data       *)
SamplerData ==
    /\ AtSet("data")
    /\ \E t \in Found(TheSet.id) :
         /\ t # None /\ t.layout = "sampler"
         /\ InsertSampler(Cached(t), [id |-> IF TheSet.sampler = 0 THEN Generic ELSE TheSet.sampler,
                                      interval |-> TheSet.interval])
    /\ NextSet
    /\ UNCHANGED <<decoded, dangling>>

PacketDone ==
    /\ main = "sets" /\ setNo > Len(packet.sets)
    /\ main' = "top"
    /\ UNCHANGED <<exporterVars, packetVars, exporter, setNo>>

Decode ==
    \/ OpenPacket \/ DataTemplate \/ OptionTemplate \/ WithdrawTemplate \/ WithdrawAllTemplates
    \/ UnknownData \/ FlowData \/ SamplerData \/ PacketDone
-------------------------------------------------------------------------------
(* Writing the tables to the files                                         *)

(* Mutant of StdRecords: exporters without their samplers.                 *)
StdRecordsWithoutSamplers(s) ==
    [i \in DOMAIN exporter_data[s] |-> ExporterInfo(exporter_data[s][i])]

(* Mutant of StdRecords: the block of the old file is kept.                *)
StdRecordsKeepsBlock(s) ==
    file[s] \o [i \in DOMAIN exporter_data[s] |-> ExporterInfo(exporter_data[s][i])]

(* FlushStdRecords: what a new file starts with                            *)
StdRecords(s) ==
    LET Std(e) == <<ExporterInfo(e)>> \o [i \in DOMAIN e.sampler |-> SamplerRecord(e, e.sampler[i])]
    IN FlattenSeq([i \in DOMAIN exporter_data[s] |-> Std(exporter_data[s][i])])

(* FlushExporterStats: as many exporters as exporter_count says            *)
Counted(s) == 1 .. exporter_count[s]

StatRecords(s) ==
    IF exporter_count[s] = 0 THEN <<>>
    ELSE <<[kind |-> "stats",
            stat |-> [i \in Counted(s) |->
                        LET e == exporter_data[s][i]
                        IN [sysid |-> e.sysid, packets |-> e.packets,
                            flows |-> e.flows, failures |-> e.failures]]]>>

(* Mutant of ResetCounters: the flows are counted on.                      *)
ResetCountersKeepsFlows(s) ==
    [i \in DOMAIN exporter_data[s] |->
        IF i \in Counted(s)
          THEN [exporter_data[s][i] EXCEPT !.packets = 0, !.failures = 0]
          ELSE exporter_data[s][i]]

ResetCounters(s) ==
    [i \in DOMAIN exporter_data[s] |->
        IF i \in Counted(s)
          THEN [exporter_data[s][i] EXCEPT !.packets = 0, !.flows = 0, !.failures = 0]
          ELSE exporter_data[s][i]]
===============================================================================
