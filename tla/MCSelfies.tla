---------------------------- MODULE MCSelfies ----------------------------
(* The guests of the run; every photo shows every guest. *)
EXTENDS Selfies
EveryoneOnAll == [p \in Photos |-> Guests]
===========================================================================
