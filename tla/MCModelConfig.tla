---------------------------- MODULE MCModelConfig ----------------------------
(***************************************************************************)
(* A small instance of ModelConfig: two turns of an API thread, or one of  *)
(* a Studio thread; another call of the Studio process and the API's       *)
(* start-up beside them, one profile that is edited once, and an alias     *)
(* nobody registered.                                                      *)
(***************************************************************************)
EXTENDS ModelConfig

CONSTANTS api, studio, other, p, unknown

MCCalls == {studio, other}
MCStudioThreads == {studio}
MCApiThreads == {api}
MCProfiles == {p}
MCAliases == {p, unknown}
MCTurnLimits == {[t \in Threads |-> IF t = api THEN 2 ELSE 0],
                 [t \in Threads |-> IF t = studio THEN 1 ELSE 0]}
=============================================================================
