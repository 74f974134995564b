--------------------------- MODULE MCControlBarrier ---------------------------
(* Small instances of ControlBarrier for TLC.                              *)
EXTENDS ControlBarrier
===============================================================================
