------------------------------ MODULE MCFlowFile ------------------------------
(* Small instances of FlowFile for TLC.                                    *)
EXTENDS FlowFile
===============================================================================
