------------------------------- MODULE MCExpire -------------------------------
(* Small instances of Expire for TLC.                                      *)
EXTENDS Expire

(* at most two blocks are left, and no file older than one slot            *)
MCLimits == {[max_size |-> 3, max_lifetime |-> 2]}
===============================================================================
