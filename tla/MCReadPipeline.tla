---------------------------- MODULE MCReadPipeline ----------------------------
(* Small instances of ReadPipeline for TLC.                                *)
EXTENDS ReadPipeline, TLC

CONSTANTS A, B

Record(kind, who, match) == [kind |-> kind, who |-> who, match |-> match, sysid |-> 1]
Hit == Record("flow", A, TRUE)
Miss == Record("flow", A, FALSE)
Odd(kind) == Record(kind, A, FALSE)
Exporter(who) == Record("exporter", who, FALSE)
Sampler(who) == Record("sampler", who, FALSE)

Data(records) == [type |-> "data", records |-> records, surplus |-> 0]
Short(records) == [type |-> "data", records |-> records, surplus |-> 1]
NotData(type) == [type |-> type, records |-> <<Hit>>, surplus |-> 0]
File(blocks) == [opens |-> TRUE, blocks |-> blocks]
NoFile == [opens |-> FALSE, blocks |-> <<>>]

(* three files of two collectors that both call their exporter 1           *)
Merged ==
    <<File(<<Data(<<Exporter(A), Hit>>), Data(<<Sampler(A), Hit>>)>>),
      File(<<Data(<<Exporter(B), Sampler(B), Hit>>)>>),
      File(<<Data(<<Exporter(A), Sampler(A)>>)>>)>>

(* blocks that are skipped, dropped, or claim more than they have          *)
Damaged ==
    <<File(<<Data(<<Miss, Hit>>), NotData("skipped"), Short(<<Hit>>), Data(<<Hit, Odd("bad")>>),
             Data(<<Odd("common"), Hit>>), Data(<<Hit, Odd("common")>>), Data(<<Hit>>)>>)>>

(* a file that breaks off, and one that does not open before the last      *)
Broken ==
    <<File(<<Data(<<Hit, Odd("other")>>), NotData("unreadable"), Data(<<Hit>>)>>),
      File(<<Data(<<Hit>>), Data(<<Hit, Hit>>)>>), NoFile, File(<<Data(<<Hit>>)>>)>>

MCInputs == {Merged, Damaged, Broken, <<NoFile, File(<<Data(<<Hit>>)>>)>>, <<>>}
===============================================================================
