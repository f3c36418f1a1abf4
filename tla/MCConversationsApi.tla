-------------------------- MODULE MCConversationsApi --------------------------
(***************************************************************************)
(* Small instances of ConversationsApi and of the store beneath it: three  *)
(* calls contend for one thread, and another user's call takes it over.    *)
(***************************************************************************)
EXTENDS ConversationsApi

CONSTANTS t1, u1, u2, c1, c2, c3

MCThreads == {t1}
MCUsers == {u1, u2}
MCCalls == {c1, c2, c3}
MCCallsOf == [u \in Users |-> IF u = u1 THEN {c1, c2} ELSE {c3}]
MCTimes == 0..1
=============================================================================
