------------------------------ MODULE AgentGraph ------------------------------
(***************************************************************************)
(* One conversation thread, turn after turn, through the agent's graph:    *)
(*                                                                         *)
(*   summarize -> intent -> respond -> [tools -> final_respond]            *)
(*                       -> clarify                                        *)
(*                       -> wren_context -> sql_plan -> clarify            *)
(*                            -> sql_validate -> sql_execute               *)
(*                                 -> [chart_plan -> chart_spec]           *)
(*                                 -> final_respond                        *)
(*                                                                         *)
(* The state a node writes is checkpointed after the node (Redis), carried *)
(* over to the next turn and lost when its TTL runs out; the question and  *)
(* the reply of a turn are rows of PostgreSQL.  A turn breaks off at any   *)
(* node that raises.  What a model, Wren or the database answers is any    *)
(* value the code may receive.  Every value a node writes is tagged with   *)
(* the turn that wrote it, which the code does not do: the tags are what   *)
(* the properties speak about.                                             *)
(***************************************************************************)
EXTENDS SqlTools, Sequences

CONSTANTS
    Candidates,      \* SQL candidates (a name and its text)
    CandidateLists,  \* the lists of candidates a plan may hold
    RecentLimit,     \* rows restored from PostgreSQL (20 in the code)
    StepLimit,       \* supersteps LangGraph allows one run (25)
    MaxTurns,        \* bound: turns of the conversation
    None             \* a value nobody has written

VARIABLES
    turn,       \* the number of turns asked so far
    pc,         \* where the turn is: "idle", preparing, at a node or at "persist"
    found,      \* what the run learned from _checkpoint_exists
    clients,    \* the clients this run was built with
    state,      \* AgentState, as checkpointed
    history,    \* rows of conversation_messages
    steps,      \* supersteps of the current run
    torn        \* the checkpoint vanished after the run had found it

vars == <<turn, pc, found, clients, state, history, steps, torn>>

Nodes == {"summarize", "intent", "wren_context", "sql_plan", "sql_validate", "sql_execute",
          "chart_plan", "chart_spec", "respond", "tools", "final_respond", "clarify"}

Turns == 1..MaxTurns

\* A message of the state; "from" is the turn whose question or words it repeats.
Message == [kind : {"human", "note", "call", "tool", "reply"}, turn : Nat, from : Nat]

\* What the nodes write, each with the turn that wrote it.
IntentDecision ==
    [turn : Turns, type : {"clarification", "other"}, missing : BOOLEAN, data : BOOLEAN,
     chart : BOOLEAN, ask : BOOLEAN]

SqlGenerationPlan ==
    [turn : Turns, status : {"ready_for_dry_run", "needs_clarification", "cannot_plan"},
     ask : BOOLEAN, candidates : CandidateLists \cup {<<>>}, preferred : Candidates \cup {None}]

SqlValidationResult ==
    [turn : Turns, sql : Candidates \cup {None}, status : {"passed", "needs_repair", "failed"}]

SqlExecutionResult ==
    [turn : Turns, sql : Candidates \cup {None}, status : {"succeeded", "failed", "skipped"},
     rows : BOOLEAN]

ChartPlanOutcome == [turn : Turns, outcome : {"invalid", "fits", "misfits"}]

ChartSpecResult == [turn : Turns, drawn : BOOLEAN]

AgentState ==
    [messages   : Seq(Message),
     decision   : IntentDecision \cup {None},
     plan       : SqlGenerationPlan \cup {None},
     validation : SqlValidationResult \cup {None},
     execution  : SqlExecutionResult \cup {None},
     chartPlan  : ChartPlanOutcome \cup {None},
     chartSpec  : ChartSpecResult \cup {None}]

ASSUME GraphAssumption ==
    /\ RecentLimit \in Nat /\ StepLimit \in Nat /\ MaxTurns \in Nat
    /\ CandidateLists \subseteq Seq(Candidates)
    /\ None \notin Candidates
    /\ None \notin IntentDecision \cup SqlGenerationPlan \cup SqlValidationResult
                       \cup SqlExecutionResult \cup ChartPlanOutcome \cup ChartSpecResult

EmptyState ==
    [messages |-> <<>>, decision |-> None, plan |-> None, validation |-> None,
     execution |-> None, chartPlan |-> None, chartSpec |-> None]

Init ==
    /\ turn = 0
    /\ pc = "idle"
    /\ found = FALSE
    /\ clients = "none"
    /\ state = EmptyState
    /\ history = <<>>
    /\ steps = 0
    /\ torn = FALSE

-----------------------------------------------------------------------------
(* A request: the user row, the checkpoint test, the input of the run.     *)

AppendUserMessage ==
    /\ pc = "idle"
    /\ turn < MaxTurns
    /\ turn' = turn + 1
    /\ history' = Append(history, [kind |-> "human", turn |-> turn + 1, from |-> turn + 1])
    /\ pc' = "check"
    /\ UNCHANGED <<found, clients, state, steps, torn>>

CheckpointExists ==
    /\ pc = "check"
    /\ found' = (state # EmptyState)
    /\ pc' = "start"
    /\ UNCHANGED <<turn, clients, state, history, steps, torn>>

\* Mutants: ascending order before the LIMIT; a LIMIT short by one.
OldestMessages(rows) ==
    SubSeq(rows, 1, IF Len(rows) > RecentLimit THEN RecentLimit ELSE Len(rows))

RecentMessagesShort(rows) ==
    SubSeq(rows, IF Len(rows) >= RecentLimit THEN Len(rows) - RecentLimit + 2 ELSE 1, Len(rows))

\* The newest RecentLimit rows, oldest first.
RecentMessages(rows) ==
    SubSeq(rows, IF Len(rows) > RecentLimit THEN Len(rows) - RecentLimit + 1 ELSE 1, Len(rows))

\* Mutant: the restored context is followed by the question once more.
InputMessagesTwice(checkpointFound) ==
    LET question == <<[kind |-> "human", turn |-> turn, from |-> turn]>> IN
    IF checkpointFound THEN question ELSE RecentMessages(history) \o question

\* The user row of this turn is among the restored rows: it is not added again.
InputMessages(checkpointFound) ==
    LET question == <<[kind |-> "human", turn |-> turn, from |-> turn]>> IN
    IF checkpointFound \/ RecentMessages(history) = <<>> THEN question
    ELSE RecentMessages(history)

\* The run starts on whatever checkpoint there is now.  Without a project path
\* there is no Wren client, and without a Wren client none that executes SQL.
StartRun ==
    /\ pc = "start"
    /\ state' = [state EXCEPT !.messages = @ \o InputMessages(found)]
    /\ clients' \in {"none", "context", "both"}
    /\ torn' = (found /\ (torn \/ state = EmptyState))
    /\ steps' = 0
    /\ pc' = "summarize"
    /\ UNCHANGED <<turn, found, history>>

-----------------------------------------------------------------------------
(* The graph.                                                              *)

\* A node returns, its update is checkpointed and the edge out of it is taken.
Superstep(node, update, next) ==
    /\ pc = node
    /\ steps < StepLimit
    /\ state' = update
    /\ pc' = next
    /\ steps' = steps + 1
    /\ UNCHANGED <<turn, found, clients, history, torn>>

Say(kind) == Append(state.messages, [kind |-> kind, turn |-> turn, from |-> turn])

\* It leaves the messages alone.  What it may write, summarized_messages, is not
\* in the model, so that no property here speaks about it.
Summarize == Superstep("summarize", state, "intent")

\* IntentDecision: what the model makes of the latest question.
Decisions ==
    [turn : {turn}, type : {"clarification", "other"}, missing : BOOLEAN, data : BOOLEAN,
     chart : BOOLEAN, ask : BOOLEAN]

RouteIntentDecision(d) ==
    IF d.type = "clarification" \/ d.missing THEN "clarify"
    ELSE IF d.data THEN "wren_context" ELSE "respond"

Intent ==
    \E d \in Decisions :
        Superstep("intent", [state EXCEPT !.decision = d], RouteIntentDecision(d))

WrenContext ==
    Superstep("wren_context", [state EXCEPT !.messages = Say("note")], "sql_plan")

\* What the model may send as an SqlGenerationPlan, and what the schema accepts.
RawPlans ==
    [turn : {turn}, status : {"ready_for_dry_run", "needs_clarification", "cannot_plan"},
     ask : BOOLEAN, candidates : CandidateLists, preferred : Candidates \cup {None}]

Has(candidates, c) == \E i \in DOMAIN candidates : candidates[i] = c

ValidPlan(p) ==
    /\ p.status = "ready_for_dry_run" => p.candidates # <<>>
    /\ p.status # "ready_for_dry_run" => p.ask
    /\ p.preferred # None => Has(p.candidates, p.preferred)

\* Mutant: a fallback whose status the schema does not know.
FallbackSqlGenerationPlanBad ==
    [turn |-> turn, status |-> "failed", ask |-> TRUE, candidates |-> <<>>,
     preferred |-> None]

FallbackSqlGenerationPlan ==
    [turn |-> turn, status |-> "cannot_plan", ask |-> TRUE, candidates |-> <<>>,
     preferred |-> None]

RouteAfterSqlPlan(p) ==
    IF p.status = "ready_for_dry_run" /\ p.candidates # <<>> THEN "sql_validate" ELSE "clarify"

SqlPlan ==
    \E raw \in RawPlans :
        LET p == IF ValidPlan(raw) THEN raw ELSE FallbackSqlGenerationPlan IN
        Superstep("sql_plan", [state EXCEPT !.plan = p], RouteAfterSqlPlan(p))

PreferredCandidate(p) ==
    IF p = None \/ p.candidates = <<>> THEN None
    ELSE IF p.preferred = None THEN p.candidates[1]
    ELSE IF Has(p.candidates, p.preferred) THEN p.preferred ELSE None

\* The statuses a validation may end with.  The node checks some things itself
\* and asks Wren for a first attempt of two otherwise; if that raises, the turn
\* breaks off.
ValidationStatuses(p) ==
    IF p = None \/ p.status # "ready_for_dry_run" \/ PreferredCandidate(p) = None
        \/ clients = "none"
    THEN {"failed"}
    ELSE {ValidateSqlSync(answer, 0, 2) : answer \in DryPlanAnswers} \ {Raised}

SqlValidate ==
    \E status \in ValidationStatuses(state.plan) :
        LET v == [turn |-> turn, sql |-> PreferredCandidate(state.plan), status |-> status] IN
        Superstep("sql_validate",
                  [state EXCEPT !.validation = v, !.messages = Say("note")],
                  "sql_execute")

\* Mutant: the SQL is taken from the validation whatever its status.
SqlToRunUnchecked(v) == IF v # None THEN v.sql ELSE None

\* validated_sql, when the validation lets it be executed: Wren's rendering of
\* the candidate in the database's dialect, named here by the candidate.
SqlToRun(v) == IF v # None /\ v.status = "passed" THEN v.sql ELSE None

\* What an execution may end with, if it does not raise.
ExecutionOutcomes(sql) ==
    IF sql = None \/ clients # "both"
    THEN {[turn |-> turn, sql |-> None, status |-> "skipped", rows |-> FALSE]}
    ELSE {[turn |-> turn, sql |-> sql, status |-> r.status, rows |-> r.rows > 0] :
              r \in {ExecuteSqlSync(answer) : answer \in QueryAnswers} \ {NoRows(Raised)}}

RouteAfterSqlExecute(d) == IF d # None /\ d.chart THEN "chart_plan" ELSE "final_respond"

\* Mutant: a skipped execution leaves the result of an earlier turn in place.
SqlExecuteKeepingSkipped ==
    \E result \in ExecutionOutcomes(SqlToRun(state.validation)) :
        Superstep("sql_execute",
                  [state EXCEPT !.execution = IF result.status = "skipped" THEN @ ELSE result,
                                !.messages = Say("note")],
                  RouteAfterSqlExecute(state.decision))

SqlExecute ==
    \E result \in ExecutionOutcomes(SqlToRun(state.validation)) :
        Superstep("sql_execute",
                  [state EXCEPT !.execution = result, !.messages = Say("note")],
                  RouteAfterSqlExecute(state.decision))

\* Mutant: a refused plan leaves the previous one in place.
ChartPlanResultKept(outcome) ==
    IF outcome = "invalid" THEN state.chartPlan ELSE [turn |-> turn, outcome |-> outcome]

\* The model's chart plan: refused by the schema, or accepted with fields that
\* are, or are not, columns of the result it was shown.
ChartPlanResult(outcome) == [turn |-> turn, outcome |-> outcome]

ChartPlan ==
    \E outcome \in {"invalid", "fits", "misfits"} :
        Superstep("chart_plan",
                  [state EXCEPT !.chartPlan = ChartPlanResult(outcome)],
                  "chart_spec")

CanDraw(s) ==
    /\ s.execution # None /\ s.execution.status = "succeeded" /\ s.execution.rows
    /\ s.chartPlan # None /\ s.chartPlan.outcome = "fits"

ChartSpec ==
    LET spec == [turn |-> turn, drawn |-> CanDraw(state)] IN
    Superstep("chart_spec",
              [state EXCEPT !.chartSpec = spec,
                            !.messages = IF spec.drawn THEN Say("note") ELSE @],
              "final_respond")

\* Mutants: the tools node is never entered; or its calls are dropped.
RouteAfterRespondEnds(kind) == "persist"

RouteAfterRespondSkipsTools(kind) == IF kind = "call" THEN "final_respond" ELSE "persist"

\* tools_condition: the model asked for a tool, or answered.
RouteAfterRespond(kind) == IF kind = "call" THEN "tools" ELSE "persist"

Respond ==
    \E kind \in {"call", "reply"} :
        Superstep("respond", [state EXCEPT !.messages = Say(kind)], RouteAfterRespond(kind))

\* Mutant: the tools lead back to the model that is bound to them.
RouteAfterToolsLoop == "respond"

\* The second model call is not bound to the tools and cannot loop.
RouteAfterTools == "final_respond"

Tools == Superstep("tools", [state EXCEPT !.messages = Say("tool")], RouteAfterTools)

FinalRespond ==
    Superstep("final_respond", [state EXCEPT !.messages = Say("reply")], "persist")

\* The turn whose clarification question is asked; the standing phrase is ours.
ClarificationFrom(s) ==
    IF s.plan # None /\ s.plan.ask THEN s.plan.turn
    ELSE IF s.decision # None /\ s.decision.ask THEN s.decision.turn
    ELSE turn

Clarify ==
    LET asked == [kind |-> "reply", turn |-> turn, from |-> ClarificationFrom(state)] IN
    Superstep("clarify", [state EXCEPT !.messages = Append(@, asked)], "persist")

-----------------------------------------------------------------------------
(* The end of a request, and what may go wrong.                            *)

\* What the request knew of its run is gone with it.
EndRun == pc' = "idle" /\ found' = FALSE /\ clients' = "none" /\ steps' = 0

\* The content stored is that of the last message of the state.
PersistAssistantResult ==
    /\ pc = "persist"
    /\ history' = Append(history, [state.messages[Len(state.messages)] EXCEPT !.kind = "reply"])
    /\ EndRun
    /\ UNCHANGED <<turn, state, torn>>

\* A node, a lookup or a write raises, the client goes away or the recursion
\* limit is reached: the request ends and the last checkpoint stays.
Break ==
    /\ pc # "idle"
    /\ EndRun
    /\ UNCHANGED <<turn, state, history, torn>>

\* The TTL of the checkpoint runs out before a run has taken it up.
Expire ==
    /\ pc \in {"idle", "check", "start"}
    /\ state # EmptyState
    /\ state' = EmptyState
    /\ UNCHANGED <<turn, pc, found, clients, history, steps, torn>>

\* The conversation is over: MaxTurns turns were asked.
Over == pc = "idle" /\ turn = MaxTurns /\ UNCHANGED vars

Next ==
    \/ AppendUserMessage \/ CheckpointExists \/ StartRun
    \/ Summarize \/ Intent \/ WrenContext \/ SqlPlan \/ SqlValidate \/ SqlExecute
    \/ ChartPlan \/ ChartSpec \/ Respond \/ Tools \/ FinalRespond \/ Clarify
    \/ PersistAssistantResult \/ Break \/ Expire \/ Over

Spec == Init /\ [][Next]_vars
-----------------------------------------------------------------------------
\* Every field of the state has the shape its schema allows.
TypeOK ==
    /\ turn \in 0..MaxTurns /\ steps \in 0..StepLimit
    /\ pc \in Nodes \cup {"idle", "check", "start", "persist"}
    /\ found \in BOOLEAN /\ torn \in BOOLEAN
    /\ clients \in {"none", "context", "both"}
    /\ history \in Seq(Message)
    /\ state \in AgentState

Of(value) == value # None /\ value.turn = turn

\* SQL that reached the database in this turn is the preferred candidate of
\* this turn's plan and passed this turn's validation; nothing an earlier turn
\* left in the checkpoint is ever executed.
ExecutedSqlPassedThisTurn ==
    Of(state.execution) /\ state.execution.status # "skipped" =>
        /\ Of(state.plan) /\ Of(state.validation)
        /\ state.validation.status = "passed"
        /\ state.execution.sql = state.validation.sql
        /\ state.execution.sql = PreferredCandidate(state.plan)

\* The final answer to a data question is given over this turn's execution
\* result, and to a chart request over this turn's chart result: a skipped or
\* failed step never lets older rows pass for the new answer.
AnswerGroundedInThisTurn ==
    pc = "final_respond" /\ RouteIntentDecision(state.decision) = "wren_context" =>
        /\ Of(state.execution)
        /\ state.decision.chart => Of(state.chartSpec)

\* A chart drawn in this turn shows rows executed in this turn, by a plan made
\* in this turn for the columns of those rows.
ChartDrawnFromThisTurn ==
    Of(state.chartSpec) /\ state.chartSpec.drawn =>
        Of(state.execution) /\ state.execution.rows /\ Of(state.chartPlan)

\* What is about to be stored as the assistant's message is a reply given in
\* this turn: not a tool request, a progress note or an earlier message.
ReplyEndsTurn ==
    pc = "persist" =>
        LET last == state.messages[Len(state.messages)] IN last.kind = "reply" /\ last.turn = turn

\* A tool request left without a result in the checkpoint (the provider would
\* refuse the history) comes only from a turn that broke off: no turn gets
\* its reply over an unanswered request.
AnsweredToolCalls ==
    \A i, j \in DOMAIN state.messages :
        /\ state.messages[i].kind = "call" /\ state.messages[j].kind = "reply"
        /\ state.messages[i].turn = state.messages[j].turn
        => state.messages[i + 1].kind = "tool"

\* No path through the graph comes near the recursion limit, so that no answer
\* is lost to GraphRecursionError.
RunsWithinStepLimit == pc \in Nodes => steps < StepLimit

\* The latest human message among the messages the intent node is given is the
\* question of this turn, whether the context was checkpointed or restored.  (A
\* list shortened by summarize, which the node prefers, is not judged.)
IntentReadsThisTurn ==
    pc = "intent" =>
        \E i \in DOMAIN state.messages :
            /\ state.messages[i].kind = "human" /\ state.messages[i].turn = turn
            /\ \A j \in DOMAIN state.messages :
                   j > i => state.messages[j].kind # "human"

\* A question is in the model's context at most once, although it is stored
\* before the context is restored from the store.
QuestionOnce ==
    \A i, j \in DOMAIN state.messages :
        /\ state.messages[i].kind = "human" /\ state.messages[j].kind = "human"
        /\ state.messages[i].turn = state.messages[j].turn
        => i = j

Answered(t) == \E i \in DOMAIN history : history[i].kind = "reply" /\ history[i].turn = t

\* Whatever checkpoints expired and whatever turns broke off, a run knows every
\* answered exchange among the newest RecentLimit rows (unless its checkpoint
\* vanished between the test for it and the start of the run).
AnsweredTurnsInContext ==
    pc \in Nodes /\ ~torn =>
        \A i \in DOMAIN history :
            i > Len(history) - RecentLimit /\ Answered(history[i].turn) =>
                \E j \in DOMAIN state.messages :
                    /\ state.messages[j].kind = history[i].kind
                    /\ state.messages[j].turn = history[i].turn

\* clarify prefers the question of the node that ran last (its docstring): a
\* clarification put to the user would then be one this turn came up with.
ClarifyAsksThisTurn ==
    \A i \in DOMAIN state.messages : state.messages[i].from = state.messages[i].turn

=============================================================================
