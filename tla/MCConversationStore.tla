------------------------- MODULE MCConversationStore -------------------------
(***************************************************************************)
(* A small instance of ConversationStore alone: three calls contend for    *)
(* one thread.                                                             *)
(***************************************************************************)
EXTENDS ConversationStore

CONSTANTS t1, u1, c1, c2, c3

MCThreads == {t1}
MCUsers == {u1}
MCCalls == {c1, c2, c3}
MCCallsOf == [u \in Users |-> Calls]
MCTimes == 0..1
=============================================================================
