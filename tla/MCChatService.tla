---------------------------- MODULE MCChatService ----------------------------
(***************************************************************************)
(* Small instances of ChatService: one blocking and one or two streaming   *)
(* requests on one thread.                                                 *)
(***************************************************************************)
EXTENDS ChatService, TLC

CONSTANTS b1, s1, s2

MCThree == {b1, s1, s2}
MCTwo == {b1, s1}
MCStreaming == {s1, s2}
MCOneStreaming == {s1}
MCSymmetry == Permutations(MCStreaming)
=============================================================================
