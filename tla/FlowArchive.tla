----------------------------- MODULE FlowArchive -----------------------------
(***************************************************************************)
(* What rotating flow files promises: the blocks of a closed file enter    *)
(* the archive all together, once, and stay there.                         *)
(***************************************************************************)
CONSTANT Blocks     (* the data blocks that may be collected               *)

VARIABLES
    archive,        (* blocks a reader of the archive gets                 *)
    batch           (* blocks of a closed file that is not yet archived    *)

vars == <<archive, batch>>

Init == archive = {} /\ batch = {}

(* a file with the fresh blocks B is closed                                *)
Collect(B) ==
    /\ batch = {}
    /\ B \cap archive = {}
    /\ batch' = B
    /\ UNCHANGED archive

Archive ==
    /\ archive' = archive \cup batch
    /\ batch' = {}

Next == Archive \/ \E B \in SUBSET Blocks : Collect(B)

Spec == Init /\ [][Next]_vars
==============================================================================
