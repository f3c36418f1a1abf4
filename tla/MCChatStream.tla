----------------------------- MODULE MCChatStream -----------------------------
(***************************************************************************)
(* A small instance of ChatStream: two streamed turns, two candidates.     *)
(***************************************************************************)
EXTENDS ChatStream

CONSTANTS a, b

MCCandidates == {a, b}
MCCandidateLists == {<<>>, <<a>>, <<a, b>>}
=============================================================================
