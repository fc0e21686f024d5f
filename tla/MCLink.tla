------------------------------- MODULE MCLink -------------------------------
(* An instance of Link for TLC, in units of 2.5 s. *)
EXTENDS Link
==============================================================================
