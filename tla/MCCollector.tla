----------------------------- MODULE MCCollector ------------------------------
(* Routers, their packets and the sources of nfcapd for TLC.               *)
EXTENDS Collector

CONSTANTS r1, r2, d1

MCAddresses == {r1, r2}
MCDomains == {d1}

Set(type, id, layout) == [type |-> type, id |-> id, layout |-> layout]
Flow(id, sampler) == [type |-> "data", id |-> id, sampler |-> sampler, interval |-> 10]
Sampling(id, sampler, interval) ==
    [type |-> "data", id |-> id, sampler |-> sampler, interval |-> interval]
Withdraw(id) == [type |-> "withdraw", id |-> id]
WithdrawAll  == [type |-> "withdrawall"]

P(router, version, seq, sets) == [key |-> <<router, version, d1>>, seq |-> seq, sets |-> sets]

TemplateA == Set("template", 256, "a")
TemplateB == Set("template", 256, "b")
Unusable  == Set("template", 256, "unknown")
OptionsS  == Set("options", 257, "sampler")
OptionsT  == Set("options", 256, "sampler")
NoOptions == Set("options", 256, "unknown")

(* a template is replaced, by one without known fields, by options         *)
Replaced(v) == <<P(r1, v, 3, <<TemplateA, Flow(256, 0)>>),
                 P(r1, v, 0, <<Flow(256, 0), TemplateB, Flow(256, 0), Unusable, Flow(256, 0)>>),
                 P(r1, v, 1, <<OptionsT, Flow(256, 0), NoOptions, Flow(256, 0)>>)>>

(* a sampler is announced, used and changed                                *)
Sampled(v, k) == <<P(r1, v, 1, <<TemplateA, OptionsS, Sampling(257, k, 10)>>),
                   P(r1, v, 2, <<Flow(256, k)>>),
                   P(r1, v, 3, <<Sampling(257, k, 20), Flow(256, 1)>>),
                   P(r1, v, 1, <<Flow(256, 0)>>)>>

(* a template is withdrawn and announced again                             *)
Withdrawn == <<P(r1, 10, 1, <<TemplateA, Flow(256, 0), Withdraw(256), Flow(256, 0)>>),
               P(r1, 10, 2, <<TemplateB, Flow(256, 0)>>)>>

(* all templates are withdrawn, of an exporter without any and of one that *)
(* announces one again                                                     *)
Revoked == <<P(r1, 10, 1, <<WithdrawAll, TemplateA, Flow(256, 0), WithdrawAll>>),
             P(r1, 10, 2, <<Flow(256, 0), TemplateB>>),
             P(r1, 9, 1, <<TemplateA, Flow(256, 0)>>)>>

(* two routers, three exporters                                            *)
Mixed == <<P(r1, 9, 1, <<TemplateA, Flow(256, 0)>>),
           P(r2, 9, 1, <<Flow(256, 0), TemplateB>>),
           P(r1, 10, 0, <<TemplateB, Flow(256, 0)>>),
           P(r2, 9, 3, <<Flow(256, 0)>>)>>

Single == {Replaced(9), Sampled(9, 0), Sampled(9, 1), Sampled(10, 1), Withdrawn, Revoked}

MCSetups == [sources : {<<AnySource>>}, stream : Single]
            \cup [sources : {<<AnySource>>, <<r1>>, <<>>}, stream : {Mixed}]
===============================================================================
