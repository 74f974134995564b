------------------------------ MODULE MCPrivsep ------------------------------
(* Instance of Privsep for TLC; the .cfg files give all constants.          *)
EXTENDS Privsep
==============================================================================
