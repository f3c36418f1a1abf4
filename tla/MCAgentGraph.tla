----------------------------- MODULE MCAgentGraph -----------------------------
(***************************************************************************)
(* Small instances of AgentGraph: two turns with two candidates and every  *)
(* answer of models, Wren and the database; and two turns with one         *)
(* candidate and results without rows, for the context a run starts from.  *)
(***************************************************************************)
EXTENDS AgentGraph

CONSTANTS a, b

MCCandidates == {a, b}
MCCandidateLists == {<<>>, <<a>>, <<a, b>>}
MCOneCandidate == {a}
MCOneCandidateList == {<<a>>}
=============================================================================
