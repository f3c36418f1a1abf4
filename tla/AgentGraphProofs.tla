--------------------------- MODULE AgentGraphProofs ---------------------------
(***************************************************************************)
(* Proofs about AgentGraph, for any candidates, any number of turns and    *)
(* whatever models, Wren and the database answer: types, that nothing an   *)
(* earlier turn left in the checkpoint passes for this turn's, and what    *)
(* the context of a run holds, whatever checkpoints expire and whatever    *)
(* turns break off.                                                        *)
(***************************************************************************)
EXTENDS AgentGraph, SequenceTheorems, TLAPS

\* A turn that is under way has been asked, and no value is of a later turn.
TurnInv ==
    /\ pc # "idle" => turn \in Turns
    /\ state.decision # None => state.decision.turn <= turn
    /\ state.plan # None => state.plan.turn <= turn
    /\ state.validation # None => state.validation.turn <= turn
    /\ state.execution # None => state.execution.turn <= turn
    /\ state.chartPlan # None => state.chartPlan.turn <= turn
    /\ state.chartSpec # None => state.chartSpec.turn <= turn

\* Where the turn is agrees with the decision that led there.
RouteInv ==
    /\ pc \in {"wren_context", "sql_plan", "sql_validate", "sql_execute", "chart_plan",
               "chart_spec"} =>
           state.decision # None /\ RouteIntentDecision(state.decision) = "wren_context"
    /\ pc \in {"respond", "tools"} =>
           state.decision # None /\ RouteIntentDecision(state.decision) = "respond"

BeforeExecution == {"check", "start", "summarize", "intent", "wren_context", "sql_plan",
                    "sql_validate", "sql_execute"}

BeforeChart == BeforeExecution \cup {"chart_plan", "chart_spec"}

\* What this turn has written when it reaches a node, and what it has not.
PhaseInv ==
    /\ pc \in BeforeExecution => ~Of(state.execution)
    /\ pc \in BeforeChart => ~Of(state.chartSpec)
    /\ pc = "sql_validate" => Of(state.plan)
    /\ pc = "sql_execute" =>
           /\ Of(state.plan) /\ Of(state.validation)
           /\ state.validation.sql = PreferredCandidate(state.plan)
    /\ pc \in {"chart_plan", "chart_spec"} => Of(state.execution)
    /\ pc = "chart_spec" => Of(state.chartPlan)
    /\ pc = "persist" => state.messages # <<>>

\* What the invariant says beside the types: the four properties and the three
\* facts above that make them inductive.
Safety ==
    /\ TurnInv
    /\ RouteInv
    /\ PhaseInv
    /\ ExecutedSqlPassedThisTurn
    /\ AnswerGroundedInThisTurn
    /\ ChartDrawnFromThisTurn
    /\ ReplyEndsTurn

GraphInv == TypeOK /\ Safety
-----------------------------------------------------------------------------
\* The empty state holds nothing.
LEMMA EmptyStateIsAgentState == EmptyState \in AgentState
<1> QED BY DEF EmptyState, AgentState

\* The invariant holds before the first question.
LEMMA InitInv == Init => GraphInv
<1> SUFFICES ASSUME Init PROVE GraphInv
  OBVIOUS
<1> USE GraphAssumption DEF Init
<1>1. TypeOK
  <2>1. 0 \in 0..MaxTurns /\ 0 \in 0..StepLimit /\ history \in Seq(Message)
    OBVIOUS
  <2>2. turn \in 0..MaxTurns /\ steps \in 0..StepLimit /\ state \in AgentState
    BY <2>1, EmptyStateIsAgentState
  <2> QED BY <2>1, <2>2 DEF TypeOK
<1>2. TurnInv /\ RouteInv /\ PhaseInv
  BY DEF TurnInv, RouteInv, PhaseInv, EmptyState, BeforeExecution, BeforeChart
<1>3. ExecutedSqlPassedThisTurn /\ AnswerGroundedInThisTurn /\ ChartDrawnFromThisTurn
          /\ ReplyEndsTurn
  BY DEF ExecutedSqlPassedThisTurn, AnswerGroundedInThisTurn, ChartDrawnFromThisTurn,
         ReplyEndsTurn, EmptyState, Of
<1> QED BY <1>1, <1>2, <1>3 DEF GraphInv, Safety

\* A node that writes a well-formed state keeps the types.
LEMMA SuperstepType ==
  ASSUME TypeOK, NEW node, NEW update \in AgentState, NEW next \in Nodes \cup {"persist"},
         Superstep(node, update, next)
  PROVE  TypeOK'
<1> QED BY GraphAssumption DEF TypeOK, Superstep

\* A turn's own messages are messages.
LEMMA SayType ==
  ASSUME TypeOK, NEW kind \in {"human", "note", "call", "tool", "reply"}
  PROVE  /\ Say(kind) \in Seq(Message)
         /\ Len(Say(kind)) = Len(state.messages) + 1
         /\ Say(kind)[Len(Say(kind))] = [kind |-> kind, turn |-> turn, from |-> turn]
<1>1. state.messages \in Seq(Message) /\ turn \in Nat
  BY GraphAssumption DEF TypeOK, AgentState
<1>2. [kind |-> kind, turn |-> turn, from |-> turn] \in Message
  BY <1>1 DEF Message
<1> QED BY <1>1, <1>2 DEF Say

\* The restored rows, or the question, are messages.
LEMMA InputType == ASSUME TypeOK PROVE InputMessages(found) \in Seq(Message)
<1> DEFINE question == <<[kind |-> "human", turn |-> turn, from |-> turn]>>
<1>1. question \in Seq(Message)
  BY GraphAssumption DEF TypeOK, Message
<1>2. RecentMessages(history) \in Seq(Message)
  <2> DEFINE first == IF Len(history) > RecentLimit THEN Len(history) - RecentLimit + 1 ELSE 1
  <2>1. history \in Seq(Message) /\ Len(history) \in Nat
    BY DEF TypeOK
  <2>2. first \in Int /\ first >= 1
    BY <2>1, GraphAssumption
  <2>3. \A i \in first..Len(history) : history[i] \in Message
    BY <2>1, <2>2
  <2>4. SubSeq(history, first, Len(history)) \in Seq(Message)
    <3> HIDE DEF first
    <3> QED BY <2>1, <2>2, <2>3, SubSeqProperties
  <2> QED BY <2>4 DEF RecentMessages
<1> QED BY <1>1, <1>2 DEF InputMessages

\* The candidate that is validated is one of the plan's.
LEMMA PreferredCandidateType ==
  ASSUME NEW p \in SqlGenerationPlan \cup {None}
  PROVE  PreferredCandidate(p) \in Candidates \cup {None}
<1>1. ASSUME p # None, p.candidates # <<>>
      PROVE  p.candidates[1] \in Candidates /\ p.preferred \in Candidates \cup {None}
  <2>1. p \in SqlGenerationPlan
    BY <1>1
  <2>2. p.candidates \in CandidateLists /\ p.preferred \in Candidates \cup {None}
    BY <1>1, <2>1 DEF SqlGenerationPlan
  <2>3. p.candidates \in Seq(Candidates)
    BY <2>2, GraphAssumption
  <2> QED BY <2>2, <2>3, <1>1
<1> QED BY <1>1 DEF PreferredCandidate

\* Whatever Wren answers, a validation ends with a known status or raises.
LEMMA ValidationStatusesType ==
  ASSUME NEW p, NEW status \in ValidationStatuses(p)
  PROVE  status \in {"passed", "needs_repair", "failed"}
<1> QED BY DEF ValidationStatuses, ValidateSqlSync, Raised

\* Whatever the query answers, an execution that does not raise ends with a
\* result of this turn, and only a validated statement can do otherwise than skip.
LEMMA ExecutionOutcomesType ==
  ASSUME NEW sql \in Candidates \cup {None}, NEW result \in ExecutionOutcomes(sql), turn \in Turns
  PROVE  /\ result \in SqlExecutionResult
         /\ result.turn = turn
         /\ result.status # "skipped" => sql # None /\ result.sql = sql
<1>1. CASE sql = None \/ clients # "both"
  <2>1. result = [turn |-> turn, sql |-> None, status |-> "skipped", rows |-> FALSE]
    BY <1>1 DEF ExecutionOutcomes
  <2> QED BY <2>1 DEF SqlExecutionResult
<1>2. CASE ~(sql = None \/ clients # "both")
  <2>1. PICK r \in {ExecuteSqlSync(answer) : answer \in QueryAnswers} \ {NoRows(Raised)} :
          result = [turn |-> turn, sql |-> sql, status |-> r.status, rows |-> r.rows > 0]
    BY <1>2 DEF ExecutionOutcomes
  <2>2. r.status \in {"succeeded", "failed"}
    BY <2>1 DEF ExecuteSqlSync, NoRows, Raised
  <2> DEFINE some == r.rows > 0
  <2>3. some \in BOOLEAN
    OBVIOUS
  <2>4. result = [turn |-> turn, sql |-> sql, status |-> r.status, rows |-> some]
    BY <2>1
  <2> HIDE DEF some
  <2> QED BY <1>2, <2>2, <2>3, <2>4 DEF SqlExecutionResult
<1> QED BY <1>1, <1>2
-----------------------------------------------------------------------------
\* Every field keeps its shape in every step.
LEMMA TypeStep == GraphInv /\ [Next]_vars => TypeOK'
<1> SUFFICES ASSUME GraphInv, [Next]_vars PROVE TypeOK'
  OBVIOUS
<1> USE GraphAssumption
<1>t. TypeOK /\ TurnInv /\ PhaseInv /\ (pc # "idle" => turn \in Turns)
  BY DEF GraphInv, Safety, TurnInv
<1>e. EndRun => /\ pc' = "idle" /\ found' \in BOOLEAN /\ steps' \in 0..StepLimit
                /\ clients' \in {"none", "context", "both"}
  <2>1. 0 \in 0..StepLimit
    OBVIOUS
  <2> QED BY <2>1 DEF EndRun
<1>s. state \in AgentState
  BY <1>t DEF TypeOK
<1>1. CASE AppendUserMessage
  <2>1. turn + 1 \in 0..MaxTurns /\ turn + 1 \in Nat
    BY <1>1, <1>t DEF AppendUserMessage, TypeOK
  <2>2. [kind |-> "human", turn |-> turn + 1, from |-> turn + 1] \in Message
    BY <2>1 DEF Message
  <2> QED BY <1>1, <1>t, <2>1, <2>2 DEF AppendUserMessage, TypeOK
<1>2. CASE CheckpointExists
  BY <1>2, <1>t DEF CheckpointExists, TypeOK
<1>3. CASE StartRun
  <2>1. [state EXCEPT !.messages = @ \o InputMessages(found)] \in AgentState
    <3>1. state.messages \o InputMessages(found) \in Seq(Message)
      <4>1. state.messages \in Seq(Message)
        BY <1>s DEF AgentState
      <4> QED BY <4>1, <1>t, InputType
    <3> QED BY <1>s, <3>1 DEF AgentState
  <2> QED BY <1>3, <1>t, <2>1 DEF StartRun, TypeOK, Nodes
<1>4. CASE Summarize
  BY <1>4, <1>s, <1>t, SuperstepType DEF Summarize, Nodes
<1>5. CASE Intent
  <2>1. PICK d \in Decisions :
          Superstep("intent", [state EXCEPT !.decision = d], RouteIntentDecision(d))
    BY <1>5 DEF Intent
  <2>2. d \in IntentDecision
    BY <2>1, <1>t DEF Decisions, IntentDecision, Superstep
  <2>3. [state EXCEPT !.decision = d] \in AgentState
    BY <1>s, <2>2 DEF AgentState
  <2>4. RouteIntentDecision(d) \in Nodes
    BY DEF RouteIntentDecision, Nodes
  <2> QED BY <1>t, <2>1, <2>3, <2>4, SuperstepType
<1>6. CASE WrenContext
  <2>1. [state EXCEPT !.messages = Say("note")] \in AgentState
    BY <1>s, <1>t, SayType DEF AgentState
  <2> QED BY <1>6, <1>t, <2>1, SuperstepType DEF WrenContext, Nodes
<1>7. CASE SqlPlan
  <2> DEFINE P(raw) == IF ValidPlan(raw) THEN raw ELSE FallbackSqlGenerationPlan
  <2>1. PICK raw \in RawPlans :
          Superstep("sql_plan", [state EXCEPT !.plan = P(raw)], RouteAfterSqlPlan(P(raw)))
    BY <1>7 DEF SqlPlan
  <2>2. turn \in Turns
    BY <2>1, <1>t DEF Superstep
  <2>3. P(raw) \in SqlGenerationPlan
    BY <2>2 DEF RawPlans, FallbackSqlGenerationPlan, SqlGenerationPlan
  <2>4. [state EXCEPT !.plan = P(raw)] \in AgentState
    BY <1>s, <2>3 DEF AgentState
  <2>5. RouteAfterSqlPlan(P(raw)) \in Nodes
    BY DEF RouteAfterSqlPlan, Nodes
  <2> QED BY <1>t, <2>1, <2>4, <2>5, SuperstepType
<1>8. CASE SqlValidate
  <2> DEFINE V(status) ==
        [turn |-> turn, sql |-> PreferredCandidate(state.plan), status |-> status]
  <2>1. PICK status \in ValidationStatuses(state.plan) :
          Superstep("sql_validate", [state EXCEPT !.validation = V(status),
                                                  !.messages = Say("note")], "sql_execute")
    BY <1>8 DEF SqlValidate
  <2>2. turn \in Turns
    BY <2>1, <1>t DEF Superstep
  <2>3. PreferredCandidate(state.plan) \in Candidates \cup {None}
    BY <1>s, PreferredCandidateType DEF AgentState
  <2>4. V(status) \in SqlValidationResult
    BY <2>1, <2>2, <2>3, ValidationStatusesType DEF SqlValidationResult
  <2>5. [state EXCEPT !.validation = V(status), !.messages = Say("note")] \in AgentState
    BY <1>s, <1>t, <2>4, SayType DEF AgentState
  <2> QED BY <1>t, <2>1, <2>5, SuperstepType DEF Nodes
<1>9. CASE SqlExecute
  <2>1. PICK result \in ExecutionOutcomes(SqlToRun(state.validation)) :
          Superstep("sql_execute", [state EXCEPT !.execution = result, !.messages = Say("note")],
                    RouteAfterSqlExecute(state.decision))
    BY <1>9 DEF SqlExecute
  <2>2. turn \in Turns
    BY <2>1, <1>t DEF Superstep
  <2>3. SqlToRun(state.validation) \in Candidates \cup {None}
    BY <1>s DEF SqlToRun, AgentState, SqlValidationResult
  <2>4. result \in SqlExecutionResult
    BY <2>1, <2>2, <2>3, ExecutionOutcomesType
  <2>5. [state EXCEPT !.execution = result, !.messages = Say("note")] \in AgentState
    BY <1>s, <1>t, <2>4, SayType DEF AgentState
  <2>6. RouteAfterSqlExecute(state.decision) \in Nodes
    BY DEF RouteAfterSqlExecute, Nodes
  <2> QED BY <1>t, <2>1, <2>5, <2>6, SuperstepType
<1>10. CASE ChartPlan
  <2>1. PICK outcome \in {"invalid", "fits", "misfits"} :
          Superstep("chart_plan", [state EXCEPT !.chartPlan = ChartPlanResult(outcome)],
                    "chart_spec")
    BY <1>10 DEF ChartPlan
  <2>2. ChartPlanResult(outcome) \in ChartPlanOutcome
    BY <2>1, <1>t DEF ChartPlanResult, ChartPlanOutcome, Superstep
  <2>3. [state EXCEPT !.chartPlan = ChartPlanResult(outcome)] \in AgentState
    BY <1>s, <2>2 DEF AgentState
  <2> QED BY <1>t, <2>1, <2>3, SuperstepType DEF Nodes
<1>11. CASE ChartSpec
  <2> DEFINE spec == [turn |-> turn, drawn |-> CanDraw(state)]
             update == [state EXCEPT !.chartSpec = spec,
                                     !.messages = IF spec.drawn THEN Say("note") ELSE @]
  <2>1. Superstep("chart_spec", update, "final_respond")
    BY <1>11 DEF ChartSpec
  <2>2. spec \in ChartSpecResult
    <3>1. CanDraw(state) \in BOOLEAN
      BY DEF CanDraw
    <3>2. turn \in Turns
      BY <2>1, <1>t DEF Superstep
    <3> QED BY <3>1, <3>2 DEF ChartSpecResult
  <2>3. Say("note") \in Seq(Message)
    BY <1>t, SayType
  <2>4. update \in AgentState
    <3> HIDE DEF spec
    <3> QED BY <1>s, <2>2, <2>3 DEF AgentState
  <2> QED BY <1>t, <2>1, <2>4, SuperstepType DEF Nodes
<1>12. CASE Respond
  <2>1. PICK kind \in {"call", "reply"} :
          Superstep("respond", [state EXCEPT !.messages = Say(kind)], RouteAfterRespond(kind))
    BY <1>12 DEF Respond
  <2>2. [state EXCEPT !.messages = Say(kind)] \in AgentState
    BY <1>s, <1>t, SayType DEF AgentState
  <2>3. RouteAfterRespond(kind) \in Nodes \cup {"persist"}
    BY DEF RouteAfterRespond, Nodes
  <2> QED BY <1>t, <2>1, <2>2, <2>3, SuperstepType
<1>13. CASE Tools
  <2>1. [state EXCEPT !.messages = Say("tool")] \in AgentState
    BY <1>s, <1>t, SayType DEF AgentState
  <2> QED BY <1>13, <1>t, <2>1, SuperstepType DEF Tools, RouteAfterTools, Nodes
<1>14. CASE FinalRespond
  <2>1. [state EXCEPT !.messages = Say("reply")] \in AgentState
    BY <1>s, <1>t, SayType DEF AgentState
  <2> QED BY <1>14, <1>t, <2>1, SuperstepType DEF FinalRespond
<1>15. CASE Clarify
  <2> DEFINE asked == [kind |-> "reply", turn |-> turn, from |-> ClarificationFrom(state)]
  <2>1. ClarificationFrom(state) \in Nat
    BY <1>s, <1>t DEF ClarificationFrom, AgentState, SqlGenerationPlan, IntentDecision,
                      Turns, TypeOK
  <2>2. asked \in Message
    BY <2>1, <1>t DEF Message, TypeOK
  <2>3. [state EXCEPT !.messages = Append(@, asked)] \in AgentState
    <3>1. Append(state.messages, asked) \in Seq(Message)
      <4>1. state.messages \in Seq(Message)
        BY <1>s DEF AgentState
      <4> HIDE DEF asked
      <4> QED BY <4>1, <2>2
    <3> QED BY <1>s, <3>1 DEF AgentState
  <2> QED BY <1>15, <1>t, <2>3, SuperstepType DEF Clarify
<1>16. CASE PersistAssistantResult
  <2> DEFINE last == state.messages[Len(state.messages)]
  <2>1. last \in Message
    BY <1>16, <1>s, <1>t DEF PersistAssistantResult, PhaseInv, AgentState
  <2>2. [last EXCEPT !.kind = "reply"] \in Message
    <3> HIDE DEF last
    <3> QED BY <2>1 DEF Message
  <2> QED BY <1>16, <1>t, <1>e, <2>2 DEF PersistAssistantResult, TypeOK
<1>17. CASE Break \/ Over \/ UNCHANGED vars
  BY <1>17, <1>t, <1>e DEF Break, Over, vars, TypeOK
<1>18. CASE Expire
  BY <1>18, <1>t, EmptyStateIsAgentState DEF Expire, TypeOK
<1> QED BY <1>1, <1>2, <1>3, <1>4, <1>5, <1>6, <1>7, <1>8, <1>9, <1>10, <1>11, <1>12, <1>13,
           <1>14, <1>15, <1>16, <1>17, <1>18 DEF Next
-----------------------------------------------------------------------------
\* Everything the invariant says beside the types, after any step.  A new turn
\* makes every value of the state an old one; a node writes its own value only,
\* and no node runs again after one that uses what it writes.
LEMMA SafetyStep == GraphInv /\ [Next]_vars => Safety'
<1> SUFFICES ASSUME GraphInv, [Next]_vars PROVE Safety'
  OBVIOUS
<1>t. TypeOK /\ Safety
  BY DEF GraphInv
<1>s. state \in AgentState /\ turn \in Nat
  BY <1>t, GraphAssumption DEF TypeOK
<1>1. CASE AppendUserMessage
  <2>1. /\ turn + 1 \in Turns /\ turn' = turn + 1
        /\ pc' = "check" /\ state' = state
    BY <1>1, <1>s, GraphAssumption DEF AppendUserMessage, Turns
  <2>2. /\ state.decision # None => state.decision.turn \in Nat
        /\ state.plan # None => state.plan.turn \in Nat
        /\ state.validation # None => state.validation.turn \in Nat
        /\ state.execution # None => state.execution.turn \in Nat
        /\ state.chartPlan # None => state.chartPlan.turn \in Nat
        /\ state.chartSpec # None => state.chartSpec.turn \in Nat
    BY <1>s, GraphAssumption DEF AgentState, IntentDecision, SqlGenerationPlan,
          SqlValidationResult, SqlExecutionResult, ChartPlanOutcome, ChartSpecResult, Turns
  <2>3. /\ state.execution # None => state.execution.turn < turn'
        /\ state.chartSpec # None => state.chartSpec.turn < turn'
    BY <1>s, <1>t, <2>1, <2>2 DEF Safety, TurnInv
  <2>4. TurnInv'
    BY <1>s, <1>t, <2>1, <2>2 DEF Safety, TurnInv
  <2>5. ~Of(state.execution)' /\ ~Of(state.chartSpec)'
    BY <1>s, <2>1, <2>2, <2>3 DEF Of
  <2>6. RouteInv' /\ PhaseInv' /\ AnswerGroundedInThisTurn' /\ ReplyEndsTurn'
    BY <2>1, <2>5 DEF RouteInv, PhaseInv, BeforeExecution, BeforeChart,
          AnswerGroundedInThisTurn, ReplyEndsTurn
  <2>7. ExecutedSqlPassedThisTurn' /\ ChartDrawnFromThisTurn'
    BY <2>5 DEF ExecutedSqlPassedThisTurn, ChartDrawnFromThisTurn
  <2> QED BY <2>4, <2>6, <2>7 DEF Safety
<1>2. CASE CheckpointExists
  BY <1>2, <1>t, <1>s
  DEF CheckpointExists, Safety, TurnInv, RouteInv, PhaseInv,
      BeforeExecution, BeforeChart, Of, ExecutedSqlPassedThisTurn,
      AnswerGroundedInThisTurn, ChartDrawnFromThisTurn, ReplyEndsTurn
<1>3. CASE StartRun
  BY <1>3, <1>t, <1>s
  DEF StartRun, AgentState, Safety, TurnInv, RouteInv, PhaseInv,
      BeforeExecution, BeforeChart, Of, ExecutedSqlPassedThisTurn,
      AnswerGroundedInThisTurn, ChartDrawnFromThisTurn, ReplyEndsTurn
<1>4. CASE Summarize
  BY <1>4, <1>t
  DEF Summarize, Superstep, Safety, TurnInv, RouteInv, PhaseInv,
      BeforeExecution, BeforeChart, Of, ExecutedSqlPassedThisTurn,
      AnswerGroundedInThisTurn, ChartDrawnFromThisTurn, ReplyEndsTurn
<1>5. CASE Intent
  <2>1. PICK d \in Decisions :
          Superstep("intent", [state EXCEPT !.decision = d], RouteIntentDecision(d))
    BY <1>5 DEF Intent
  <2>2. d # None /\ d.turn = turn
    <3>1. d \in IntentDecision
      BY <2>1, <1>t DEF Decisions, IntentDecision, Superstep, Safety, TurnInv
    <3> QED BY <2>1, <3>1, GraphAssumption DEF Decisions
  <2> QED
    BY <2>1, <2>2, <1>t, <1>s
    DEF Superstep, AgentState, RouteIntentDecision, Safety, TurnInv, RouteInv, PhaseInv,
        BeforeExecution, BeforeChart, Of, ExecutedSqlPassedThisTurn,
        AnswerGroundedInThisTurn, ChartDrawnFromThisTurn, ReplyEndsTurn
<1>6. CASE WrenContext
  BY <1>6, <1>t, <1>s
  DEF WrenContext, Superstep, AgentState, RouteIntentDecision,
      Safety, TurnInv, RouteInv, PhaseInv,
      BeforeExecution, BeforeChart, Of, ExecutedSqlPassedThisTurn,
      AnswerGroundedInThisTurn, ChartDrawnFromThisTurn, ReplyEndsTurn
<1>7. CASE SqlPlan
  <2> DEFINE P(raw) == IF ValidPlan(raw) THEN raw ELSE FallbackSqlGenerationPlan
  <2>1. PICK raw \in RawPlans :
          Superstep("sql_plan", [state EXCEPT !.plan = P(raw)], RouteAfterSqlPlan(P(raw)))
    BY <1>7 DEF SqlPlan
  <2>2. P(raw) # None /\ P(raw).turn = turn
    <3>1. P(raw) \in SqlGenerationPlan
      BY <2>1, <1>t DEF RawPlans, FallbackSqlGenerationPlan, SqlGenerationPlan, Superstep,
                        Safety, TurnInv
    <3>2. P(raw).turn = turn
      BY <2>1 DEF RawPlans, FallbackSqlGenerationPlan
    <3> HIDE DEF P
    <3> QED BY <3>1, <3>2, GraphAssumption
  <2> HIDE DEF P
  <2> QED
    BY <2>1, <2>2, <1>t, <1>s
    DEF Superstep, AgentState, RouteIntentDecision, RouteAfterSqlPlan,
        Safety, TurnInv, RouteInv, PhaseInv,
        BeforeExecution, BeforeChart, Of, ExecutedSqlPassedThisTurn,
        AnswerGroundedInThisTurn, ChartDrawnFromThisTurn, ReplyEndsTurn
<1>8. CASE SqlValidate
  <2> DEFINE V(status) ==
        [turn |-> turn, sql |-> PreferredCandidate(state.plan), status |-> status]
  <2>1. PICK status \in ValidationStatuses(state.plan) :
          Superstep("sql_validate", [state EXCEPT !.validation = V(status),
                                                  !.messages = Say("note")], "sql_execute")
    BY <1>8 DEF SqlValidate
  <2>2. /\ V(status).turn = turn
        /\ V(status).sql = PreferredCandidate(state.plan)
        /\ V(status) # None
    <3>1. PreferredCandidate(state.plan) \in Candidates \cup {None}
      BY <1>s, PreferredCandidateType DEF AgentState
    <3>2. V(status) \in SqlValidationResult
      BY <2>1, <3>1, <1>t, ValidationStatusesType DEF SqlValidationResult, Superstep, Safety,
                                                      TurnInv
    <3> QED BY <3>2, GraphAssumption
  <2> HIDE DEF V
  <2> QED
    BY <2>1, <2>2, <1>t, <1>s
    DEF Superstep, AgentState, RouteIntentDecision, Safety, TurnInv, RouteInv, PhaseInv,
        BeforeExecution, BeforeChart, Of, ExecutedSqlPassedThisTurn,
        AnswerGroundedInThisTurn, ChartDrawnFromThisTurn, ReplyEndsTurn
<1>9. CASE SqlExecute
  <2>1. PICK result \in ExecutionOutcomes(SqlToRun(state.validation)) :
          Superstep("sql_execute", [state EXCEPT !.execution = result, !.messages = Say("note")],
                    RouteAfterSqlExecute(state.decision))
    BY <1>9 DEF SqlExecute
  <2>2. SqlToRun(state.validation) \in Candidates \cup {None}
    BY <1>s DEF SqlToRun, AgentState, SqlValidationResult
  <2>3. turn \in Turns
    BY <2>1, <1>t DEF Superstep, Safety, TurnInv
  <2>4. /\ result # None /\ result.turn = turn
        /\ result.status # "skipped" =>
               SqlToRun(state.validation) # None /\ result.sql = SqlToRun(state.validation)
    BY <2>1, <2>2, <2>3, ExecutionOutcomesType, GraphAssumption
  <2>5. result.status # "skipped" =>
          /\ state.validation.status = "passed"
          /\ result.sql = state.validation.sql
    BY <2>4 DEF SqlToRun
  <2> QED
    BY <2>1, <2>4, <2>5, <1>t, <1>s
    DEF Superstep, AgentState, RouteIntentDecision, RouteAfterSqlExecute,
        Safety, TurnInv, RouteInv, PhaseInv,
        BeforeExecution, BeforeChart, Of, ExecutedSqlPassedThisTurn,
        AnswerGroundedInThisTurn, ChartDrawnFromThisTurn, ReplyEndsTurn
<1>10. CASE ChartPlan
  <2>1. PICK outcome \in {"invalid", "fits", "misfits"} :
          Superstep("chart_plan", [state EXCEPT !.chartPlan = ChartPlanResult(outcome)],
                    "chart_spec")
    BY <1>10 DEF ChartPlan
  <2>2. ChartPlanResult(outcome) # None /\ ChartPlanResult(outcome).turn = turn
    <3>1. ChartPlanResult(outcome) \in ChartPlanOutcome
      BY <2>1, <1>t DEF ChartPlanResult, ChartPlanOutcome, Superstep, Safety, TurnInv
    <3> QED BY <3>1, GraphAssumption DEF ChartPlanResult
  <2> QED
    BY <2>1, <2>2, <1>t, <1>s
    DEF Superstep, AgentState, RouteIntentDecision, Safety, TurnInv, RouteInv, PhaseInv,
        BeforeExecution, BeforeChart, Of, ExecutedSqlPassedThisTurn,
        AnswerGroundedInThisTurn, ChartDrawnFromThisTurn, ReplyEndsTurn
<1>11. CASE ChartSpec
  <2> DEFINE spec == [turn |-> turn, drawn |-> CanDraw(state)]
  <2>1. Superstep("chart_spec",
                  [state EXCEPT !.chartSpec = spec,
                                !.messages = IF spec.drawn THEN Say("note") ELSE @],
                  "final_respond")
    BY <1>11 DEF ChartSpec
  <2>2. spec # None /\ spec.turn = turn
    <3>1. CanDraw(state) \in BOOLEAN
      BY DEF CanDraw
    <3>2. spec \in ChartSpecResult
      BY <2>1, <3>1, <1>t DEF ChartSpecResult, Superstep, Safety, TurnInv
    <3> QED BY <3>2, GraphAssumption
  <2>3. spec.drawn => state.execution.rows
    BY DEF CanDraw
  <2> HIDE DEF spec
  <2> QED
    BY <2>1, <2>2, <2>3, <1>t, <1>s
    DEF Superstep, AgentState, RouteIntentDecision, Safety, TurnInv, RouteInv, PhaseInv,
        BeforeExecution, BeforeChart, Of, ExecutedSqlPassedThisTurn,
        AnswerGroundedInThisTurn, ChartDrawnFromThisTurn, ReplyEndsTurn
<1>12. CASE Respond
  <2>1. PICK kind \in {"call", "reply"} :
          Superstep("respond", [state EXCEPT !.messages = Say(kind)], RouteAfterRespond(kind))
    BY <1>12 DEF Respond
  <2>2. /\ Say(kind) # <<>>
        /\ Say(kind)[Len(Say(kind))] = [kind |-> kind, turn |-> turn, from |-> turn]
    BY <1>t, SayType
  <2> QED
    BY <2>1, <2>2, <1>t, <1>s
    DEF Superstep, AgentState, RouteIntentDecision, RouteAfterRespond,
        Safety, TurnInv, RouteInv, PhaseInv,
        BeforeExecution, BeforeChart, Of, ExecutedSqlPassedThisTurn,
        AnswerGroundedInThisTurn, ChartDrawnFromThisTurn, ReplyEndsTurn
<1>13. CASE Tools
  BY <1>13, <1>t, <1>s
  DEF Tools, RouteAfterTools, Superstep, AgentState, RouteIntentDecision,
      Safety, TurnInv, RouteInv, PhaseInv,
      BeforeExecution, BeforeChart, Of, ExecutedSqlPassedThisTurn,
      AnswerGroundedInThisTurn, ChartDrawnFromThisTurn, ReplyEndsTurn
<1>14. CASE FinalRespond
  BY <1>14, <1>t, <1>s
  DEF FinalRespond, Say, Superstep, AgentState, RouteIntentDecision,
      Safety, TurnInv, RouteInv, PhaseInv,
      BeforeExecution, BeforeChart, Of, ExecutedSqlPassedThisTurn,
      AnswerGroundedInThisTurn, ChartDrawnFromThisTurn, ReplyEndsTurn
<1>15. CASE Clarify
  <2> DEFINE asked == [kind |-> "reply", turn |-> turn, from |-> ClarificationFrom(state)]
  <2>1. Superstep("clarify", [state EXCEPT !.messages = Append(@, asked)], "persist")
    BY <1>15 DEF Clarify
  <2>2. asked.kind = "reply" /\ asked.turn = turn
    OBVIOUS
  <2> HIDE DEF asked
  <2> QED
    BY <2>1, <2>2, <1>t, <1>s
    DEF Superstep, AgentState, RouteIntentDecision, Safety, TurnInv, RouteInv, PhaseInv,
        BeforeExecution, BeforeChart, Of, ExecutedSqlPassedThisTurn,
        AnswerGroundedInThisTurn, ChartDrawnFromThisTurn, ReplyEndsTurn
<1>16. CASE PersistAssistantResult
  BY <1>16, <1>t, <1>s
  DEF PersistAssistantResult, EndRun, Safety, TurnInv, RouteInv, PhaseInv,
      BeforeExecution, BeforeChart, Of, ExecutedSqlPassedThisTurn,
      AnswerGroundedInThisTurn, ChartDrawnFromThisTurn, ReplyEndsTurn
<1>17. CASE Break \/ Over \/ UNCHANGED vars
  BY <1>17, <1>t, <1>s
  DEF Break, EndRun, Over, vars, Safety, TurnInv, RouteInv, PhaseInv,
      BeforeExecution, BeforeChart, Of, ExecutedSqlPassedThisTurn,
      AnswerGroundedInThisTurn, ChartDrawnFromThisTurn, ReplyEndsTurn
<1>18. CASE Expire
  BY <1>18, <1>t, <1>s
  DEF Expire, EmptyState, Safety, TurnInv, RouteInv, PhaseInv,
      BeforeExecution, BeforeChart, Of, ExecutedSqlPassedThisTurn,
      AnswerGroundedInThisTurn, ChartDrawnFromThisTurn, ReplyEndsTurn
<1> QED BY <1>1, <1>2, <1>3, <1>4, <1>5, <1>6, <1>7, <1>8, <1>9,
           <1>10, <1>11, <1>12, <1>13, <1>14, <1>15, <1>16, <1>17, <1>18 DEF Next
-----------------------------------------------------------------------------
\* The invariant holds in every state of the thread.
THEOREM GraphInvariant == Spec => []GraphInv
<1>1. Init => GraphInv
  BY InitInv
<1>2. GraphInv /\ [Next]_vars => GraphInv'
  BY TypeStep, SafetyStep DEF GraphInv
<1> QED BY <1>1, <1>2, PTL DEF Spec

\* Every plan, result and message keeps the shape its schema allows.
THEOREM StateTyped == Spec => []TypeOK
<1>1. GraphInv => TypeOK
  BY DEF GraphInv
<1> QED BY <1>1, GraphInvariant, PTL

\* The database runs only SQL that this turn planned and validated.
THEOREM OnlyValidatedSqlRuns == Spec => []ExecutedSqlPassedThisTurn
<1>1. GraphInv => ExecutedSqlPassedThisTurn
  BY DEF GraphInv, Safety
<1> QED BY <1>1, GraphInvariant, PTL

\* A data question is answered over what this turn executed and drew.
THEOREM AnswersAreGrounded == Spec => []AnswerGroundedInThisTurn
<1>1. GraphInv => AnswerGroundedInThisTurn
  BY DEF GraphInv, Safety
<1> QED BY <1>1, GraphInvariant, PTL

\* A chart drawn in a turn shows rows and follows a plan of that turn.
THEOREM ChartsAreOfThisTurn == Spec => []ChartDrawnFromThisTurn
<1>1. GraphInv => ChartDrawnFromThisTurn
  BY DEF GraphInv, Safety
<1> QED BY <1>1, GraphInvariant, PTL

\* What is stored as a turn's reply is a reply of that turn.
THEOREM RepliesEndTurns == Spec => []ReplyEndsTurn
<1>1. GraphInv => ReplyEndsTurn
  BY DEF GraphInv, Safety
<1> QED BY <1>1, GraphInvariant, PTL
-----------------------------------------------------------------------------
\* The longest way from summarize to each node.
Depth ==
    [summarize |-> 0, intent |-> 1, respond |-> 2, wren_context |-> 2, sql_plan |-> 3,
     tools |-> 3, sql_validate |-> 4, clarify |-> 4, sql_execute |-> 5, chart_plan |-> 6,
     chart_spec |-> 7, final_respond |-> 8]

DepthInv == pc \in Nodes => steps <= Depth[pc]

\* A step to a node that lies deeper keeps the count within the depth.
LEMMA DepthSuperstep ==
  ASSUME TypeOK, DepthInv, NEW node \in Nodes, NEW update, NEW next \in Nodes \cup {"persist"},
         Superstep(node, update, next),
         next # "persist" => Depth[node] < Depth[next]
  PROVE  DepthInv'
<1>1. steps \in Nat
  BY GraphAssumption DEF TypeOK
<1>2. Depth[node] \in Nat /\ (next # "persist" => Depth[next] \in Nat)
  BY DEF Depth, Nodes
<1>3. pc = node /\ pc' = next /\ steps' = steps + 1
  BY DEF Superstep
<1> QED BY <1>1, <1>2, <1>3 DEF DepthInv, Nodes

\* Every edge of the graph leads deeper.
LEMMA DepthStep == TypeOK /\ DepthInv /\ [Next]_vars => DepthInv'
<1> SUFFICES ASSUME TypeOK, DepthInv, [Next]_vars PROVE DepthInv'
  OBVIOUS
<1> USE DepthSuperstep
<1>1. CASE Summarize
  BY <1>1 DEF Summarize, Nodes, Depth
<1>2. CASE Intent
  <2>1. PICK d \in Decisions :
          Superstep("intent", [state EXCEPT !.decision = d], RouteIntentDecision(d))
    BY <1>2 DEF Intent
  <2>2. RouteIntentDecision(d) \in {"clarify", "wren_context", "respond"}
    BY DEF RouteIntentDecision
  <2> QED BY <2>1, <2>2 DEF Nodes, Depth
<1>3. CASE WrenContext
  BY <1>3 DEF WrenContext, Nodes, Depth
<1>4. CASE SqlPlan
  <2> DEFINE P(raw) == IF ValidPlan(raw) THEN raw ELSE FallbackSqlGenerationPlan
  <2>1. PICK raw \in RawPlans :
          Superstep("sql_plan", [state EXCEPT !.plan = P(raw)], RouteAfterSqlPlan(P(raw)))
    BY <1>4 DEF SqlPlan
  <2>2. RouteAfterSqlPlan(P(raw)) \in {"sql_validate", "clarify"}
    BY DEF RouteAfterSqlPlan
  <2> HIDE DEF P
  <2> QED BY <2>1, <2>2 DEF Nodes, Depth
<1>5. CASE SqlValidate
  BY <1>5 DEF SqlValidate, Nodes, Depth
<1>6. CASE SqlExecute
  <2>1. PICK result \in ExecutionOutcomes(SqlToRun(state.validation)) :
          Superstep("sql_execute", [state EXCEPT !.execution = result, !.messages = Say("note")],
                    RouteAfterSqlExecute(state.decision))
    BY <1>6 DEF SqlExecute
  <2>2. RouteAfterSqlExecute(state.decision) \in {"chart_plan", "final_respond"}
    BY DEF RouteAfterSqlExecute
  <2> QED BY <2>1, <2>2 DEF Nodes, Depth
<1>7. CASE ChartPlan
  BY <1>7 DEF ChartPlan, Nodes, Depth
<1>8. CASE ChartSpec
  BY <1>8 DEF ChartSpec, Nodes, Depth
<1>9. CASE Respond
  BY <1>9 DEF Respond, RouteAfterRespond, Nodes, Depth
<1>10. CASE Tools
  BY <1>10 DEF Tools, RouteAfterTools, Nodes, Depth
<1>11. CASE FinalRespond \/ Clarify
  BY <1>11 DEF FinalRespond, Clarify, Nodes, Depth
<1>12. CASE StartRun
  BY <1>12 DEF StartRun, DepthInv, Depth, Nodes
<1>13. CASE AppendUserMessage \/ CheckpointExists \/ PersistAssistantResult \/ Break \/ Expire
  BY <1>13 DEF AppendUserMessage, CheckpointExists, PersistAssistantResult, EndRun, Break, Expire,
               DepthInv, Nodes
<1>14. CASE Over \/ UNCHANGED vars
  BY <1>14 DEF Over, vars, DepthInv
<1> QED BY <1>1, <1>2, <1>3, <1>4, <1>5, <1>6, <1>7, <1>8, <1>9, <1>10, <1>11, <1>12, <1>13,
           <1>14 DEF Next

\* Nine supersteps are enough for any turn: LangGraph's limit of 25, or any
\* limit from nine on, never cuts an answer off.
THEOREM NineSupersteps == StepLimit >= 9 => (Spec => []RunsWithinStepLimit)
<1> SUFFICES ASSUME StepLimit >= 9 PROVE Spec => []RunsWithinStepLimit
  OBVIOUS
<1>1. Init => DepthInv
  BY DEF Init, DepthInv, Nodes
<1>2. TypeOK /\ DepthInv /\ [Next]_vars => DepthInv'
  BY DepthStep
<1>3. TypeOK /\ DepthInv => RunsWithinStepLimit
  <2> SUFFICES ASSUME TypeOK, DepthInv, pc \in Nodes PROVE steps < StepLimit
    BY DEF RunsWithinStepLimit
  <2>1. Depth[pc] \in 0..8
    BY DEF Depth, Nodes
  <2> QED BY <2>1, GraphAssumption DEF TypeOK, DepthInv
<1> QED BY <1>1, <1>2, <1>3, StateTyped, PTL DEF Spec
-----------------------------------------------------------------------------
(* The context runs start from: the question is there and is the latest,    *)
(* nothing is there twice, answered exchanges are not forgotten, whatever    *)
(* checkpoints expire and whatever turns break off.                          *)

\* The messages of the checkpoint.
Said == state.messages

\* Rows are questions and replies, in turns that were asked; each turn has one
\* question; a turn that is under way has none of the replies.
RowsInv ==
    /\ \A i \in DOMAIN history :
           /\ history[i].kind \in {"human", "reply"} /\ history[i].turn <= turn
           /\ history[i].kind = "reply" /\ pc # "idle" => history[i].turn < turn
    /\ \A i, j \in DOMAIN history :
           /\ history[i].kind = "human" /\ history[j].kind = "human"
           /\ history[i].turn = history[j].turn
           => i = j
    /\ pc \in {"check", "start"} =>
           /\ history # <<>> /\ history[Len(history)].kind = "human"
           /\ history[Len(history)].turn = turn

\* The messages are of turns that were asked; the question of the turn comes
\* with the start of the run, its reply with the end.
SaidInv ==
    /\ \A i \in DOMAIN Said :
           /\ Said[i].turn <= turn
           /\ Said[i].kind = "human" /\ pc \in {"check", "start"} => Said[i].turn < turn
           /\ Said[i].kind = "reply" /\ pc \notin {"idle", "persist"} => Said[i].turn < turn
    /\ pc = "start" /\ ~found => Said = <<>>
    /\ pc \in {"summarize", "intent"} =>
           /\ Said # <<>> /\ Said[Len(Said)].kind = "human"
           /\ Said[Len(Said)].turn = turn
    /\ pc \in Nodes \cup {"persist"} =>
           \E j \in DOMAIN Said : Said[j].kind = "human" /\ Said[j].turn = turn

HasResult(i) == i + 1 \in DOMAIN Said /\ Said[i + 1].kind = "tool"

\* A tool request without a result: its turn has no reply, and has broken off
\* unless the tools are just being called.
CallsInv ==
    \A i \in DOMAIN Said :
        Said[i].kind = "call" /\ ~HasResult(i) =>
            /\ \A j \in DOMAIN Said : Said[j].kind = "reply" => Said[j].turn # Said[i].turn
            /\ Said[i].turn = turn => pc = "idle" \/ (pc = "tools" /\ i = Len(Said))

\* The turn of a row has its reply among the rows.
AnsweredRow(i) ==
    \E k \in DOMAIN history : history[k].kind = "reply" /\ history[k].turn = history[i].turn

\* The answered exchanges among the newest rows are among the messages.
Remembered ==
    \A i \in DOMAIN history :
        i > Len(history) - RecentLimit /\ AnsweredRow(i) =>
            \E j \in DOMAIN Said :
                Said[j].kind = history[i].kind /\ Said[j].turn = history[i].turn

\* They are, in every checkpoint that is not the torso of a run whose own had
\* vanished.
MemoryInv ==
    ~torn /\ (pc \in Nodes \cup {"persist"} \/ state # EmptyState) => Remembered

ContextInv == RowsInv /\ SaidInv /\ QuestionOnce /\ CallsInv /\ MemoryInv
-----------------------------------------------------------------------------
\* What the types give: sequences of messages with turns that are numbers.
LEMMA ContextTypes ==
  ASSUME TypeOK
  PROVE  /\ Said \in Seq(Message) /\ history \in Seq(Message) /\ turn \in Nat
         /\ DOMAIN Said = 1..Len(Said) /\ Len(Said) \in Nat
         /\ DOMAIN history = 1..Len(history) /\ Len(history) \in Nat
         /\ \A i \in DOMAIN Said : Said[i] \in Message /\ Said[i].turn \in Nat
         /\ \A i \in DOMAIN history : history[i] \in Message /\ history[i].turn \in Nat
<1>1. Said \in Seq(Message) /\ history \in Seq(Message) /\ turn \in Nat
  BY GraphAssumption DEF TypeOK, AgentState, Said
<1>2. \A m \in Message : m.turn \in Nat
  BY DEF Message
<1>3. ASSUME NEW s \in Seq(Message)
      PROVE  /\ DOMAIN s = 1..Len(s) /\ Len(s) \in Nat
             /\ \A i \in DOMAIN s : s[i] \in Message
  OBVIOUS
<1> QED BY <1>1, <1>2, <1>3

\* Before the first question there is nothing to be remembered.
LEMMA ContextInitInv == Init => ContextInv
<1> SUFFICES ASSUME Init PROVE ContextInv
  OBVIOUS
<1>1. pc = "idle" /\ Said = <<>> /\ history = <<>> /\ state.messages = <<>>
  BY DEF Init, EmptyState, Said
<1>2. RowsInv /\ QuestionOnce
  BY <1>1 DEF RowsInv, QuestionOnce
<1>3. SaidInv /\ CallsInv
  BY <1>1 DEF SaidInv, CallsInv, Nodes
<1>4. MemoryInv
  BY <1>1 DEF MemoryInv, Remembered
<1> QED BY <1>2, <1>3, <1>4 DEF ContextInv

\* What a node may do to the messages, and where it may lead.
LEMMA NodeStepFacts ==
  ASSUME GraphInv,
         \/ Summarize \/ Intent \/ WrenContext \/ SqlPlan \/ SqlValidate \/ SqlExecute
         \/ ChartPlan \/ ChartSpec \/ Respond \/ Tools \/ FinalRespond \/ Clarify
  PROVE  /\ pc \in Nodes /\ UNCHANGED <<turn, history, torn>>
         /\ \/ /\ Said' = Said /\ pc # "tools" /\ pc' \in Nodes \ {"summarize", "tools"}
               /\ pc' = "intent" => pc = "summarize"
            \/ \E m \in Message :
                  /\ Said' = Append(Said, m) /\ m.turn = turn
                  /\ pc' \in (Nodes \ {"summarize", "intent"}) \cup {"persist"}
                  /\ pc = "tools" <=> m.kind = "tool"
                  /\ pc' = "tools" <=> m.kind = "call"
                  /\ pc' = "persist" <=> m.kind = "reply"
                  /\ m.kind \in {"note", "tool", "call", "reply"}
<1>t. TypeOK /\ state \in AgentState /\ state.messages \in Seq(Message) /\ turn \in Nat
  BY GraphAssumption DEF GraphInv, TypeOK, AgentState
<1>m. \A kind \in {"note", "call", "tool", "reply"} :
          [kind |-> kind, turn |-> turn, from |-> turn] \in Message
  BY <1>t DEF Message
<1> USE DEF Superstep, Nodes, Said
<1>1. CASE Summarize \/ Intent
  BY <1>1, <1>t DEF Summarize, Intent, AgentState, RouteIntentDecision
<1>2. CASE SqlPlan \/ ChartPlan
  BY <1>2, <1>t DEF SqlPlan, ChartPlan, AgentState, RouteAfterSqlPlan
<1>3. CASE WrenContext \/ SqlValidate
  BY <1>3, <1>t, <1>m DEF WrenContext, SqlValidate, AgentState, Say
<1>4. CASE SqlExecute
  BY <1>4, <1>t, <1>m DEF SqlExecute, AgentState, Say, RouteAfterSqlExecute
<1>5. CASE ChartSpec
  BY <1>5, <1>t, <1>m DEF ChartSpec, AgentState, Say
<1>6. CASE Respond
  BY <1>6, <1>t, <1>m DEF Respond, AgentState, Say, RouteAfterRespond
<1>7. CASE Tools \/ FinalRespond
  BY <1>7, <1>t, <1>m DEF Tools, FinalRespond, AgentState, Say, RouteAfterTools
<1>8. CASE Clarify
  <2> DEFINE asked == [kind |-> "reply", turn |-> turn, from |-> ClarificationFrom(state)]
  <2>1. ClarificationFrom(state) \in Nat
    BY <1>t DEF ClarificationFrom, AgentState, SqlGenerationPlan, IntentDecision, Turns
  <2>2. asked \in Message /\ asked.turn = turn /\ asked.kind = "reply"
    BY <2>1, <1>t DEF Message
  <2>3. pc = "clarify" /\ pc' = "persist" /\ Said' = Append(Said, asked)
          /\ UNCHANGED <<turn, history, torn>>
    BY <1>8, <1>t DEF Clarify, AgentState
  <2> HIDE DEF asked
  <2> QED BY <2>2, <2>3
<1> QED BY <1>1, <1>2, <1>3, <1>4, <1>5, <1>6, <1>7, <1>8
-----------------------------------------------------------------------------
(* The steps.                                                              *)

\* Where an appended message comes to stand.
LEMMA AppendFacts ==
  ASSUME NEW s \in Seq(Message), NEW m \in Message
  PROVE  /\ DOMAIN Append(s, m) = 1..(Len(s) + 1) /\ Len(Append(s, m)) = Len(s) + 1
         /\ \A i \in 1..Len(s) : Append(s, m)[i] = s[i]
         /\ Append(s, m)[Len(s) + 1] = m
         /\ DOMAIN s = 1..Len(s) /\ Len(s) \in Nat
  OBVIOUS

\* A new question: all that was said is of earlier turns, and the row of the
\* question is the last.
LEMMA AskKeeps ==
  ASSUME GraphInv, ContextInv, AppendUserMessage
  PROVE  ContextInv'
<1>t. TypeOK
  BY DEF GraphInv
<1> DEFINE row == [kind |-> "human", turn |-> turn + 1, from |-> turn + 1]
           n == Len(history)
<1>1. /\ pc = "idle" /\ pc' = "check" /\ turn' = turn + 1 /\ history' = Append(history, row)
      /\ state' = state /\ Said' = Said /\ torn' = torn /\ turn \in Nat
  BY <1>t, ContextTypes DEF AppendUserMessage, Said
<1>2. row \in Message /\ row.kind = "human" /\ row.turn = turn + 1
  BY <1>1 DEF Message
<1> HIDE DEF row
<1>3. /\ DOMAIN history' = 1..(n + 1) /\ DOMAIN history = 1..n /\ n \in Nat /\ Len(history') = n + 1
      /\ \A i \in 1..n : history'[i] = history[i]
      /\ history'[n + 1] = row
  BY <1>1, <1>2, <1>t, ContextTypes, AppendFacts
<1> HIDE DEF n
<1>h. \A i \in 1..n : /\ history[i].turn \in Nat /\ history[i].turn <= turn
                      /\ history[i].kind \in {"human", "reply"}
  BY <1>3, <1>t, ContextTypes DEF ContextInv, RowsInv
<1>s. \A i \in DOMAIN Said : Said[i].turn \in Nat /\ Said[i].turn <= turn
  BY <1>t, ContextTypes DEF ContextInv, SaidInv
<1>4. RowsInv'
  <2>1. ASSUME NEW i \in DOMAIN history'
        PROVE  /\ history'[i].kind \in {"human", "reply"} /\ history'[i].turn <= turn'
               /\ history'[i].kind = "reply" => history'[i].turn < turn'
    <3>1. CASE i \in 1..n
      BY <3>1, <1>1, <1>3, <1>h
    <3>2. CASE i = n + 1
      BY <3>2, <1>1, <1>2, <1>3
    <3> QED BY <3>1, <3>2, <1>3
  <2>2. ASSUME NEW i \in DOMAIN history', NEW j \in DOMAIN history',
               history'[i].kind = "human", history'[j].kind = "human",
               history'[i].turn = history'[j].turn
        PROVE  i = j
    <3>1. CASE i \in 1..n /\ j \in 1..n
      BY <2>2, <3>1, <1>3 DEF ContextInv, RowsInv
    <3>2. CASE i = n + 1 \/ j = n + 1
      BY <2>2, <3>2, <1>1, <1>2, <1>3, <1>h
    <3> QED BY <3>1, <3>2, <1>3
  <2>3. /\ history' # <<>> /\ history'[Len(history')].kind = "human"
        /\ history'[Len(history')].turn = turn'
    BY <1>1, <1>2, <1>3
  <2> QED BY <2>1, <2>2, <2>3 DEF RowsInv
<1>5. SaidInv'
  BY <1>1, <1>s DEF SaidInv, Nodes
<1>6. QuestionOnce'
  BY <1>1 DEF ContextInv, QuestionOnce
<1>7. CallsInv'
  BY <1>1, <1>s DEF ContextInv, CallsInv, HasResult
<1>8. MemoryInv'
  <2> SUFFICES ASSUME ~torn', state' # EmptyState PROVE Remembered'
    BY <1>1 DEF MemoryInv, Nodes
  <2>1. Remembered
    BY <1>1 DEF ContextInv, MemoryInv
  <2> SUFFICES ASSUME NEW i \in DOMAIN history', i > Len(history') - RecentLimit,
                      AnsweredRow(i)'
               PROVE  \E j \in DOMAIN Said :
                          Said[j].kind = history'[i].kind /\ Said[j].turn = history'[i].turn
    BY <1>1 DEF Remembered
  <2>2. PICK k \in DOMAIN history' :
          history'[k].kind = "reply" /\ history'[k].turn = history'[i].turn
    BY DEF AnsweredRow
  <2>3. k \in 1..n
    BY <2>2, <1>2, <1>3
  <2>4. i \in 1..n
    BY <2>2, <2>3, <1>1, <1>2, <1>3, <1>h
  <2>5. AnsweredRow(i) /\ i > n - RecentLimit
    BY <2>2, <2>3, <2>4, <1>3, GraphAssumption DEF AnsweredRow
  <2> QED BY <2>1, <2>4, <2>5, <1>3 DEF Remembered, n
<1> QED BY <1>4, <1>5, <1>6, <1>7, <1>8 DEF ContextInv

\* The restored rows are the newest, in their order.
LEMMA RecentFacts ==
  ASSUME TypeOK
  PROVE  \E first \in 1..(Len(history) + 1) :
            /\ RecentMessages(history) \in Seq(Message)
            /\ Len(RecentMessages(history)) = Len(history) - first + 1
            /\ \A i \in 1..(Len(history) - first + 1) :
                   /\ first + i - 1 \in DOMAIN history
                   /\ RecentMessages(history)[i] = history[first + i - 1]
            /\ \A i \in DOMAIN history : i > Len(history) - RecentLimit => i >= first
<1> DEFINE n == Len(history)
           first == IF n > RecentLimit THEN n - RecentLimit + 1 ELSE 1
<1>1. history \in Seq(Message) /\ n \in Nat /\ DOMAIN history = 1..n
  BY ContextTypes
<1>2. first \in 1..(n + 1)
  BY <1>1, GraphAssumption
<1>3. RecentMessages(history) = SubSeq(history, first, n)
  BY DEF RecentMessages
<1>4. \A i \in DOMAIN history : i > n - RecentLimit => i >= first
  BY <1>1, GraphAssumption
<1> HIDE DEF first
<1>5. \A i \in first..n : history[i] \in Message
  BY <1>1, <1>2
<1>6. /\ SubSeq(history, first, n) \in Seq(Message)
      /\ Len(SubSeq(history, first, n)) = n - first + 1
      /\ \A i \in 1..(n - first + 1) : SubSeq(history, first, n)[i] = history[first + i - 1]
  BY <1>1, <1>2, <1>5
<1>7. \A i \in 1..(n - first + 1) : first + i - 1 \in DOMAIN history
  BY <1>1, <1>2
<1> QED BY <1>2, <1>3, <1>4, <1>6, <1>7

\* A run that starts on its checkpoint, or on nothing at all: the question is
\* said after what was.
LEMMA ContinueKeeps ==
  ASSUME GraphInv, ContextInv, StartRun, found \/ RecentMessages(history) = <<>>
  PROVE  ContextInv'
<1> DEFINE q == [kind |-> "human", turn |-> turn, from |-> turn]
           n == Len(Said)
<1>t. /\ TypeOK /\ Said \in Seq(Message) /\ turn \in Nat /\ n \in Nat /\ DOMAIN Said = 1..n
      /\ state \in AgentState
  BY ContextTypes DEF GraphInv, TypeOK
<1>q. q \in Message /\ q.kind = "human" /\ q.turn = turn
  BY <1>t DEF Message
<1>1. /\ pc = "start" /\ pc' = "summarize" /\ UNCHANGED <<turn, found, history>>
      /\ Said' = Append(Said, q)
  <2>1. InputMessages(found) = <<q>>
    BY DEF InputMessages
  <2>2. Said' = Said \o <<q>>
    BY <2>1, <1>t DEF StartRun, Said, AgentState
  <2> HIDE DEF q
  <2>3. Said \o <<q>> = Append(Said, q)
    BY <1>t, <1>q, AppendIsConcat
  <2> QED BY <2>2, <2>3 DEF StartRun
<1> HIDE DEF q
<1>2. /\ DOMAIN Said' = 1..(n + 1) /\ Len(Said') = n + 1
      /\ \A i \in 1..n : Said'[i] = Said[i]
      /\ Said'[n + 1] = q
  BY <1>1, <1>q, <1>t, AppendFacts
<1> HIDE DEF n
<1>s. \A i \in 1..n : /\ Said[i].turn \in Nat /\ Said[i].turn <= turn
                      /\ Said[i].kind \in {"human", "reply"} => Said[i].turn < turn
  BY <1>1, <1>t, ContextTypes DEF ContextInv, SaidInv
<1>3. RowsInv'
  BY <1>1 DEF ContextInv, RowsInv
<1>4. SaidInv'
  <2>1. ASSUME NEW i \in DOMAIN Said'
        PROVE  Said'[i].turn <= turn /\ (Said'[i].kind = "reply" => Said'[i].turn < turn)
    <3>1. CASE i \in 1..n
      BY <3>1, <1>2, <1>s
    <3>2. CASE i = n + 1
      BY <3>2, <1>2, <1>q, <1>t
    <3> QED BY <3>1, <3>2, <1>2, <1>t
  <2>2. n + 1 \in DOMAIN Said' /\ Said' # <<>>
    BY <1>2, <1>t
  <2> QED BY <2>1, <2>2, <1>1, <1>2, <1>q DEF SaidInv
<1>5. QuestionOnce'
  <2> SUFFICES ASSUME NEW i \in DOMAIN Said', NEW j \in DOMAIN Said',
                      Said'[i].kind = "human", Said'[j].kind = "human",
                      Said'[i].turn = Said'[j].turn
               PROVE  i = j
    BY DEF QuestionOnce, Said
  <2>1. CASE i \in 1..n /\ j \in 1..n
    BY <2>1, <1>2, <1>t DEF ContextInv, QuestionOnce, Said
  <2>2. CASE i = n + 1 \/ j = n + 1
    BY <2>2, <1>2, <1>q, <1>s, <1>t
  <2> QED BY <2>1, <2>2, <1>2, <1>t
<1>6. CallsInv'
  <2> SUFFICES ASSUME NEW i \in DOMAIN Said', Said'[i].kind = "call", ~HasResult(i)'
               PROVE  /\ \A j \in DOMAIN Said' :
                             Said'[j].kind = "reply" => Said'[j].turn # Said'[i].turn
                      /\ Said'[i].turn # turn
    BY <1>1 DEF CallsInv
  <2>1. i \in 1..n
    BY <1>2, <1>q, <1>t
  <2>2. ~HasResult(i)
    <3> SUFFICES ASSUME HasResult(i) PROVE FALSE
      OBVIOUS
    <3>1. i + 1 \in 1..n /\ Said[i + 1].kind = "tool"
      BY <1>t DEF HasResult
    <3>2. i + 1 \in DOMAIN Said' /\ Said'[i + 1].kind = "tool"
      BY <3>1, <1>2, <1>t
    <3> QED BY <3>2 DEF HasResult
  <2>3. /\ \A j \in DOMAIN Said : Said[j].kind = "reply" => Said[j].turn # Said[i].turn
        /\ Said[i].turn # turn
    BY <2>1, <2>2, <1>1, <1>2, <1>t DEF ContextInv, CallsInv
  <2> QED BY <2>1, <2>3, <1>2, <1>q, <1>t
<1>7. MemoryInv'
  <2> SUFFICES ASSUME ~torn' PROVE Remembered'
    BY DEF MemoryInv
  <2> SUFFICES ASSUME NEW i \in DOMAIN history, i > Len(history) - RecentLimit, AnsweredRow(i)
               PROVE  \E j \in DOMAIN Said' :
                          Said'[j].kind = history[i].kind /\ Said'[j].turn = history[i].turn
    BY <1>1 DEF Remembered, AnsweredRow
  <2>1. CASE found
    <3>1. Remembered
      BY <2>1 DEF StartRun, ContextInv, MemoryInv
    <3>2. PICK j \in DOMAIN Said :
            Said[j].kind = history[i].kind /\ Said[j].turn = history[i].turn
      BY <3>1 DEF Remembered
    <3>3. j \in DOMAIN Said' /\ Said'[j] = Said[j]
      BY <3>2, <1>2, <1>t
    <3> QED BY <3>2, <3>3
  <2>2. CASE RecentMessages(history) = <<>>
    <3>1. PICK first \in 1..(Len(history) + 1) :
            /\ Len(RecentMessages(history)) = Len(history) - first + 1
            /\ i >= first
      BY <1>t, RecentFacts
    <3>2. Len(RecentMessages(history)) = 0 /\ i <= Len(history) /\ Len(history) \in Nat
      BY <2>2, <1>t, ContextTypes
    <3> QED BY <3>1, <3>2, <1>t, ContextTypes
  <2> QED BY <2>1, <2>2
<1> QED BY <1>3, <1>4, <1>5, <1>6, <1>7 DEF ContextInv

\* A run that starts on restored rows, which end with the question.
LEMMA RestoreKeeps ==
  ASSUME GraphInv, ContextInv, StartRun, ~found, RecentMessages(history) # <<>>
  PROVE  ContextInv'
<1> DEFINE n == Len(history)
<1>t. /\ TypeOK /\ history \in Seq(Message) /\ turn \in Nat /\ n \in Nat
      /\ DOMAIN history = 1..n /\ state \in AgentState
  BY ContextTypes DEF GraphInv, TypeOK
<1>1. PICK first \in 1..(n + 1) :
        /\ RecentMessages(history) \in Seq(Message)
        /\ Len(RecentMessages(history)) = n - first + 1
        /\ \A i \in 1..(n - first + 1) :
               /\ first + i - 1 \in DOMAIN history
               /\ RecentMessages(history)[i] = history[first + i - 1]
        /\ \A i \in DOMAIN history : i > n - RecentLimit => i >= first
  BY <1>t, RecentFacts
<1>2. /\ pc = "start" /\ pc' = "summarize" /\ UNCHANGED <<turn, found, history>>
      /\ Said' = RecentMessages(history)
  <2>1. Said = <<>>
    BY DEF StartRun, ContextInv, SaidInv
  <2>2. Said' = Said \o RecentMessages(history)
    BY <1>t DEF StartRun, InputMessages, Said, AgentState
  <2>3. Said' = RecentMessages(history)
    BY <2>1, <2>2, <1>1, ConcatEmptySeq
  <2> QED BY <2>3 DEF StartRun
<1> DEFINE m == n - first + 1
<1>3. m \in Nat /\ m >= 1 /\ DOMAIN Said' = 1..m /\ Len(Said') = m
  BY <1>1, <1>2, <1>t
<1>4. \A i \in 1..m : first + i - 1 \in DOMAIN history /\ Said'[i] = history[first + i - 1]
  BY <1>1, <1>2
<1>5. Said'[m] = history[n] /\ history[n].kind = "human" /\ history[n].turn = turn
  <2>1. Said'[m] = history[n]
    BY <1>3, <1>4, <1>t, <1>1
  <2>2. history[n].kind = "human" /\ history[n].turn = turn
    BY <1>2 DEF ContextInv, RowsInv
  <2> QED BY <2>1, <2>2
<1> HIDE DEF m, n
<1>6. RowsInv'
  BY <1>2 DEF ContextInv, RowsInv
<1>r. \A i \in DOMAIN history :
          /\ history[i].kind \in {"human", "reply"} /\ history[i].turn <= turn
          /\ history[i].kind = "reply" => history[i].turn < turn
  BY <1>2 DEF ContextInv, RowsInv
<1>7. SaidInv'
  <2>1. \A i \in DOMAIN Said' :
            Said'[i].turn <= turn /\ (Said'[i].kind = "reply" => Said'[i].turn < turn)
    BY <1>3, <1>4, <1>r
  <2>2. m \in DOMAIN Said' /\ Said' # <<>>
    BY <1>3
  <2> QED BY <2>1, <2>2, <1>2, <1>3, <1>5 DEF SaidInv
<1>8. QuestionOnce'
  <2> SUFFICES ASSUME NEW i \in DOMAIN Said', NEW j \in DOMAIN Said',
                      Said'[i].kind = "human", Said'[j].kind = "human",
                      Said'[i].turn = Said'[j].turn
               PROVE  i = j
    BY DEF QuestionOnce, Said
  <2>1. first + i - 1 = first + j - 1
    BY <1>3, <1>4 DEF ContextInv, RowsInv
  <2> QED BY <2>1, <1>3, <1>1
<1>9. CallsInv'
  BY <1>3, <1>4, <1>r DEF CallsInv
<1>10. MemoryInv'
  <2> SUFFICES ASSUME NEW i \in DOMAIN history, i > n - RecentLimit
               PROVE  \E j \in DOMAIN Said' :
                          Said'[j].kind = history[i].kind /\ Said'[j].turn = history[i].turn
    BY <1>2 DEF MemoryInv, Remembered, n
  <2>1. i >= first /\ i \in 1..n
    BY <1>1, <1>t
  <2>2. i - first + 1 \in 1..m /\ first + (i - first + 1) - 1 = i
    BY <2>1, <1>t, <1>1 DEF m
  <2> QED BY <2>2, <1>3, <1>4
<1> QED BY <1>6, <1>7, <1>8, <1>9, <1>10 DEF ContextInv

\* A node that says nothing.
LEMMA QuietNodeKeeps ==
  ASSUME GraphInv, ContextInv, pc \in Nodes \ {"tools"}, UNCHANGED <<turn, history, torn>>,
         Said' = Said, pc' \in Nodes \ {"summarize", "tools"}, pc' = "intent" => pc = "summarize"
  PROVE  ContextInv'
<1> USE DEF Nodes
<1>1. RowsInv'
  BY DEF ContextInv, RowsInv
<1>2. SaidInv'
  BY DEF ContextInv, SaidInv
<1>3. QuestionOnce'
  BY DEF ContextInv, QuestionOnce, Said
<1>4. CallsInv'
  BY DEF ContextInv, CallsInv, HasResult
<1>5. MemoryInv'
  BY DEF ContextInv, MemoryInv, Remembered, AnsweredRow
<1> QED BY <1>1, <1>2, <1>3, <1>4, <1>5 DEF ContextInv

\* A node that says something of its turn: a request leads to the tools, where
\* it gets its result, and a reply ends the turn.
LEMMA SpokenNodeKeeps ==
  ASSUME GraphInv, ContextInv, pc \in Nodes, UNCHANGED <<turn, history, torn>>,
         NEW m \in Message, Said' = Append(Said, m), m.turn = turn,
         m.kind \in {"note", "tool", "call", "reply"},
         pc' \in (Nodes \ {"summarize", "intent"}) \cup {"persist"},
         pc = "tools" <=> m.kind = "tool",
         pc' = "tools" <=> m.kind = "call",
         pc' = "persist" <=> m.kind = "reply"
  PROVE  ContextInv'
<1> DEFINE n == Len(Said)
<1>p. pc \notin {"idle", "check", "start", "persist"} /\ pc' \notin {"idle", "check", "start"}
        /\ pc' \notin {"summarize", "intent"}
  BY DEF Nodes
<1>t. TypeOK /\ Said \in Seq(Message) /\ turn \in Nat /\ n \in Nat /\ DOMAIN Said = 1..n
  BY ContextTypes DEF GraphInv
<1>1. /\ DOMAIN Said' = 1..(n + 1) /\ Len(Said') = n + 1
      /\ \A i \in 1..n : Said'[i] = Said[i]
      /\ Said'[n + 1] = m
  BY <1>t, AppendFacts
<1> HIDE DEF n
<1>s. \A i \in 1..n : /\ Said[i].turn \in Nat /\ Said[i].turn <= turn
                      /\ Said[i].kind = "reply" => Said[i].turn < turn
  BY <1>p, <1>t, ContextTypes DEF ContextInv, SaidInv
<1>2. RowsInv'
  BY <1>p DEF ContextInv, RowsInv
<1>3. SaidInv'
  <2>1. ASSUME NEW i \in DOMAIN Said'
        PROVE  /\ Said'[i].turn <= turn
               /\ Said'[i].kind = "reply" /\ pc' # "persist" => Said'[i].turn < turn
    <3>1. CASE i \in 1..n
      BY <3>1, <1>1, <1>s
    <3>2. CASE i = n + 1
      BY <3>2, <1>1, <1>t
    <3> QED BY <3>1, <3>2, <1>1, <1>t
  <2>2. \E j \in DOMAIN Said' : Said'[j].kind = "human" /\ Said'[j].turn = turn
    <3>1. PICK j \in DOMAIN Said : Said[j].kind = "human" /\ Said[j].turn = turn
      BY DEF ContextInv, SaidInv
    <3>2. j \in DOMAIN Said' /\ Said'[j] = Said[j]
      BY <3>1, <1>1, <1>t
    <3> QED BY <3>1, <3>2
  <2> QED BY <2>1, <2>2, <1>p DEF SaidInv
<1>4. QuestionOnce'
  <2> SUFFICES ASSUME NEW i \in DOMAIN Said', NEW j \in DOMAIN Said',
                      Said'[i].kind = "human", Said'[j].kind = "human",
                      Said'[i].turn = Said'[j].turn
               PROVE  i = j
    BY DEF QuestionOnce, Said
  <2>1. i \in 1..n /\ j \in 1..n
    BY <1>1, <1>t
  <2> QED BY <2>1, <1>1, <1>t DEF ContextInv, QuestionOnce, Said
<1>5. CallsInv'
  <2> SUFFICES ASSUME NEW i \in DOMAIN Said', Said'[i].kind = "call", ~HasResult(i)'
               PROVE  /\ \A j \in DOMAIN Said' :
                             Said'[j].kind = "reply" => Said'[j].turn # Said'[i].turn
                      /\ Said'[i].turn = turn => pc' = "tools" /\ i = Len(Said')
    BY DEF CallsInv
  <2>1. CASE i \in 1..n
    <3>1. ~HasResult(i)
      <4> SUFFICES ASSUME HasResult(i) PROVE FALSE
        OBVIOUS
      <4>1. i + 1 \in 1..n /\ Said[i + 1].kind = "tool"
        BY <1>t DEF HasResult
      <4>2. i + 1 \in DOMAIN Said' /\ Said'[i + 1].kind = "tool"
        BY <4>1, <1>1, <1>t
      <4> QED BY <4>2 DEF HasResult
    <3>2. /\ \A j \in DOMAIN Said : Said[j].kind = "reply" => Said[j].turn # Said[i].turn
          /\ Said[i].turn = turn => pc = "tools" /\ i = n
      BY <2>1, <3>1, <1>1, <1>p, <1>t DEF ContextInv, CallsInv, n
    <3>3. Said[i].turn # turn
      <4> SUFFICES ASSUME Said[i].turn = turn PROVE FALSE
        OBVIOUS
      <4>1. i = n /\ m.kind = "tool"
        BY <3>2
      <4>2. i + 1 \in DOMAIN Said' /\ Said'[i + 1].kind = "tool"
        BY <4>1, <1>1, <1>t
      <4> QED BY <4>2 DEF HasResult
    <3> QED BY <2>1, <3>2, <3>3, <1>1, <1>t
  <2>2. CASE i = n + 1
    <3>1. m.kind = "call"
      BY <2>2, <1>1
    <3>2. ASSUME NEW j \in DOMAIN Said', Said'[j].kind = "reply" PROVE Said'[j].turn # turn
      <4>1. j \in 1..n
        BY <3>1, <3>2, <1>1, <1>t
      <4> QED BY <4>1, <3>2, <1>1, <1>s, <1>t
    <3> QED BY <2>2, <3>1, <3>2, <1>1
  <2> QED BY <2>1, <2>2, <1>1, <1>t
<1>6. MemoryInv'
  <2> SUFFICES ASSUME ~torn, NEW i \in DOMAIN history, i > Len(history) - RecentLimit,
                      AnsweredRow(i)
               PROVE  \E j \in DOMAIN Said' :
                          Said'[j].kind = history[i].kind /\ Said'[j].turn = history[i].turn
    BY DEF MemoryInv, Remembered, AnsweredRow
  <2>1. Remembered
    BY DEF ContextInv, MemoryInv
  <2>2. PICK j \in DOMAIN Said :
          Said[j].kind = history[i].kind /\ Said[j].turn = history[i].turn
    BY <2>1 DEF Remembered
  <2>3. j \in DOMAIN Said' /\ Said'[j] = Said[j]
    BY <2>2, <1>1, <1>t
  <2> QED BY <2>2, <2>3
<1> QED BY <1>2, <1>3, <1>4, <1>5, <1>6 DEF ContextInv

\* The reply becomes a row, with the question that is among the messages.
LEMMA PersistKeeps ==
  ASSUME GraphInv, ContextInv, PersistAssistantResult
  PROVE  ContextInv'
<1> DEFINE last == state.messages[Len(state.messages)]
           row == [last EXCEPT !.kind = "reply"]
           n == Len(history)
<1>t. /\ TypeOK /\ Said \in Seq(Message) /\ history \in Seq(Message) /\ turn \in Nat
      /\ n \in Nat /\ DOMAIN history = 1..n
  BY ContextTypes DEF GraphInv
<1>1. /\ pc = "persist" /\ pc' = "idle" /\ history' = Append(history, row)
      /\ turn' = turn /\ Said' = Said /\ state' = state /\ torn' = torn
  BY DEF PersistAssistantResult, EndRun, Said
<1>2. Len(Said) \in DOMAIN Said /\ last = Said[Len(Said)] /\ last.kind = "reply" /\ last.turn = turn
  BY <1>t, <1>1 DEF GraphInv, Safety, PhaseInv, ReplyEndsTurn, Said
<1>3. row \in Message /\ row.kind = "reply" /\ row.turn = turn
  <2>1. last \in Message
    BY <1>t, <1>2
  <2> HIDE DEF last
  <2> QED BY <2>1, <1>2 DEF Message
<1> HIDE DEF row, last
<1>4. /\ DOMAIN history' = 1..(n + 1) /\ Len(history') = n + 1
      /\ \A i \in 1..n : history'[i] = history[i]
      /\ history'[n + 1] = row
  BY <1>1, <1>3, <1>t, AppendFacts
<1> HIDE DEF n
<1>h. \A i \in 1..n : /\ history[i].turn \in Nat /\ history[i].turn <= turn
                      /\ history[i].kind \in {"human", "reply"}
                      /\ history[i].kind = "reply" => history[i].turn < turn
  BY <1>1, <1>t, ContextTypes DEF ContextInv, RowsInv
<1>5. RowsInv'
  <2>1. ASSUME NEW i \in DOMAIN history'
        PROVE  history'[i].kind \in {"human", "reply"} /\ history'[i].turn <= turn
    <3>1. CASE i \in 1..n
      BY <3>1, <1>4, <1>h
    <3>2. CASE i = n + 1
      BY <3>2, <1>3, <1>4, <1>t
    <3> QED BY <3>1, <3>2, <1>4, <1>t
  <2>2. ASSUME NEW i \in DOMAIN history', NEW j \in DOMAIN history',
               history'[i].kind = "human", history'[j].kind = "human",
               history'[i].turn = history'[j].turn
        PROVE  i = j
    <3>1. i \in 1..n /\ j \in 1..n
      BY <2>2, <1>3, <1>4, <1>t
    <3> QED BY <3>1, <2>2, <1>4, <1>t DEF ContextInv, RowsInv
  <2> QED BY <2>1, <2>2, <1>1 DEF RowsInv
<1>6. SaidInv'
  BY <1>1 DEF ContextInv, SaidInv, Nodes
<1>7. QuestionOnce'
  BY <1>1 DEF ContextInv, QuestionOnce
<1>8. CallsInv'
  BY <1>1 DEF ContextInv, CallsInv, HasResult
<1>9. MemoryInv'
  <2> SUFFICES ASSUME ~torn, NEW i \in DOMAIN history', i > Len(history') - RecentLimit,
                      AnsweredRow(i)'
               PROVE  \E j \in DOMAIN Said :
                          Said[j].kind = history'[i].kind /\ Said[j].turn = history'[i].turn
    BY <1>1 DEF MemoryInv, Remembered
  <2>1. Remembered
    BY <1>1 DEF ContextInv, MemoryInv
  <2>2. CASE i = n + 1
    BY <2>2, <1>2, <1>3, <1>4
  <2>3. CASE i \in 1..n /\ history[i].turn = turn
    <3>1. history[i].kind = "human"
      BY <2>3, <1>h
    <3>2. PICK j \in DOMAIN Said : Said[j].kind = "human" /\ Said[j].turn = turn
      BY <1>1 DEF ContextInv, SaidInv
    <3> QED BY <2>3, <3>1, <3>2, <1>4
  <2>4. CASE i \in 1..n /\ history[i].turn # turn
    <3>1. PICK k \in DOMAIN history' :
            history'[k].kind = "reply" /\ history'[k].turn = history'[i].turn
      BY DEF AnsweredRow
    <3>2. k \in 1..n
      BY <2>4, <3>1, <1>3, <1>4, <1>t
    <3>3. AnsweredRow(i) /\ i > n - RecentLimit
      BY <2>4, <3>1, <3>2, <1>4, <1>t, GraphAssumption DEF AnsweredRow
    <3> QED BY <2>1, <2>4, <3>3, <1>4, <1>t DEF Remembered, n
  <2> QED BY <2>2, <2>3, <2>4, <1>4, <1>t
<1> QED BY <1>5, <1>6, <1>7, <1>8, <1>9 DEF ContextInv

\* The test for the checkpoint; a run that breaks off; steps that are none.
LEMMA UnsaidKeeps ==
  ASSUME ContextInv, CheckpointExists \/ Break \/ Over \/ UNCHANGED vars
  PROVE  ContextInv'
<1>1. UNCHANGED <<turn, history, state, torn>> /\ Said' = Said
  BY DEF CheckpointExists, Break, Over, vars, Said
<1>2. \/ pc = "check" /\ pc' = "start" /\ found' = (state # EmptyState)
      \/ pc' = "idle"
      \/ pc' = pc /\ found' = found
  BY DEF CheckpointExists, Break, EndRun, Over, vars
<1>3. RowsInv'
  BY <1>1, <1>2 DEF ContextInv, RowsInv
<1>4. SaidInv'
  <2>1. pc' = "start" /\ ~found' => Said = <<>>
    <3>1. EmptyState.messages = <<>>
      BY DEF EmptyState
    <3>2. CASE pc = "check" /\ pc' = "start" /\ found' = (state # EmptyState)
      BY <3>1, <3>2 DEF Said
    <3>3. CASE pc' = pc /\ found' = found
      BY <3>3 DEF ContextInv, SaidInv
    <3> QED BY <1>2, <3>2, <3>3
  <2> QED BY <1>1, <1>2, <2>1 DEF ContextInv, SaidInv, Nodes
<1>5. QuestionOnce'
  BY <1>1 DEF ContextInv, QuestionOnce
<1>6. CallsInv'
  BY <1>1, <1>2 DEF ContextInv, CallsInv, HasResult
<1>7. MemoryInv'
  BY <1>1, <1>2 DEF ContextInv, MemoryInv, Remembered, AnsweredRow, Nodes
<1> QED BY <1>3, <1>4, <1>5, <1>6, <1>7 DEF ContextInv

\* The checkpoint is lost, and with it all that was said.
LEMMA ExpireKeeps ==
  ASSUME ContextInv, Expire
  PROVE  ContextInv'
<1>1. /\ pc \in {"idle", "check", "start"} /\ UNCHANGED <<turn, pc, found, history, torn>>
      /\ state' = EmptyState /\ Said' = <<>> /\ state'.messages = <<>>
  BY DEF Expire, Said, EmptyState
<1>2. RowsInv'
  BY <1>1 DEF ContextInv, RowsInv
<1>3. SaidInv' /\ CallsInv' /\ MemoryInv'
  BY <1>1 DEF SaidInv, CallsInv, MemoryInv, Nodes
<1>4. QuestionOnce'
  BY <1>1 DEF QuestionOnce
<1> QED BY <1>2, <1>3, <1>4 DEF ContextInv

\* A superstep, by what it says.
LEMMA NodeKeeps ==
  ASSUME GraphInv, ContextInv,
         \/ Summarize \/ Intent \/ WrenContext \/ SqlPlan \/ SqlValidate \/ SqlExecute
         \/ ChartPlan \/ ChartSpec \/ Respond \/ Tools \/ FinalRespond \/ Clarify
  PROVE  ContextInv'
<1>1. pc \in Nodes /\ UNCHANGED <<turn, history, torn>>
  BY NodeStepFacts
<1>2. CASE /\ Said' = Said /\ pc # "tools" /\ pc' \in Nodes \ {"summarize", "tools"}
           /\ pc' = "intent" => pc = "summarize"
  BY <1>1, <1>2, QuietNodeKeeps
<1>3. ASSUME NEW m \in Message,
             /\ Said' = Append(Said, m) /\ m.turn = turn
             /\ pc' \in (Nodes \ {"summarize", "intent"}) \cup {"persist"}
             /\ pc = "tools" <=> m.kind = "tool"
             /\ pc' = "tools" <=> m.kind = "call"
             /\ pc' = "persist" <=> m.kind = "reply"
             /\ m.kind \in {"note", "tool", "call", "reply"}
      PROVE  ContextInv'
  BY <1>1, <1>3, SpokenNodeKeeps
<1> QED BY <1>2, <1>3, NodeStepFacts

\* Every step keeps the invariant, over a graph that keeps its own.
LEMMA ContextStepInv == GraphInv /\ ContextInv /\ [Next]_vars => ContextInv'
BY AskKeeps, ContinueKeeps, RestoreKeeps, NodeKeeps, PersistKeeps, UnsaidKeeps, ExpireKeeps
DEF Next

\* The invariant of the context.
LEMMA ContextInvariant == Spec => []ContextInv
<1>1. Spec => []GraphInv
  BY GraphInvariant
<1> QED BY <1>1, ContextInitInv, ContextStepInv, PTL DEF Spec
-----------------------------------------------------------------------------
(* What every run may rely on.                                             *)

\* The latest human message at the intent node is this turn's question.
THEOREM IntentReadsTheQuestion == Spec => []IntentReadsThisTurn
<1>1. ASSUME GraphInv, ContextInv PROVE IntentReadsThisTurn
  <2> SUFFICES ASSUME pc = "intent"
               PROVE  \E i \in DOMAIN Said :
                          /\ Said[i].kind = "human" /\ Said[i].turn = turn
                          /\ \A j \in DOMAIN Said : j > i => Said[j].kind # "human"
    BY DEF IntentReadsThisTurn, Said
  <2>1. DOMAIN Said = 1..Len(Said) /\ Len(Said) \in Nat /\ Said \in Seq(Message)
    BY <1>1, ContextTypes DEF GraphInv
  <2>2. Said # <<>> /\ Said[Len(Said)].kind = "human" /\ Said[Len(Said)].turn = turn
    BY <1>1 DEF ContextInv, SaidInv
  <2>3. Len(Said) \in DOMAIN Said /\ \A j \in DOMAIN Said : ~(j > Len(Said))
    BY <2>1, <2>2
  <2> QED BY <2>2, <2>3
<1> QED BY <1>1, GraphInvariant, ContextInvariant, PTL

\* No question is in the context twice.
THEOREM QuestionsAreOnce == Spec => []QuestionOnce
<1>1. ContextInv => QuestionOnce
  BY DEF ContextInv
<1> QED BY <1>1, ContextInvariant, PTL

\* No turn is answered over a tool request without its result.
THEOREM RepliesFollowResults == Spec => []AnsweredToolCalls
<1>1. ContextInv => AnsweredToolCalls
  BY DEF ContextInv, CallsInv, HasResult, AnsweredToolCalls, Said
<1> QED BY <1>1, ContextInvariant, PTL

\* A run knows every answered exchange among the newest rows.
THEOREM ExchangesAreRemembered == Spec => []AnsweredTurnsInContext
<1>1. ASSUME ContextInv PROVE AnsweredTurnsInContext
  <2>1. pc \in Nodes /\ ~torn => Remembered
    BY <1>1 DEF ContextInv, MemoryInv
  <2> QED BY <2>1 DEF AnsweredTurnsInContext, Remembered, AnsweredRow, Answered, Said
<1> QED BY <1>1, ContextInvariant, PTL
=============================================================================
