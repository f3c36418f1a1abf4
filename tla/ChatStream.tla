------------------------------ MODULE ChatStream ------------------------------
(***************************************************************************)
(* POST /chat/stream over AgentGraph: the server-sent events one client    *)
(* receives while the turns of a thread run.  Every node update the graph  *)
(* streams is turned into events as it arrives; the reply is stored before *)
(* the closing events are sent, and the client may be gone at any point.   *)
(***************************************************************************)
EXTENDS AgentGraph, Ranks

CONSTANT
    MaxCalls    \* bound: the tool calls of one message

ASSUME StreamAssumption == MaxCalls \in Nat \ {0}

VARIABLES
    stream,     \* the request: "closed", "open", or "stored" when its reply is
    out,        \* the events of the current request
    emitted,    \* chart_emitted: a chart was sent while the graph ran
    final,      \* the chart result in the final_state the request has read
    calls       \* the tool calls still to be answered: for each, whether it has
                \* a name; its place in the message stands for its id

svars == <<turn, pc, found, clients, state, history, steps, torn,
           stream, out, emitted, final, calls>>

\* An event; "from" is the turn its payload comes from, "call" the tool call it
\* is about, if any.
Event(name) == [event |-> name, from |-> turn, call |-> 0]

ToolEvent(name, c) == [event |-> name, from |-> turn, call |-> c]

StreamInit ==
    Init /\ stream = "closed" /\ out = <<>> /\ emitted = FALSE /\ final = None /\ calls = <<>>

Send(events) == out' = out \o events

\* The user row is committed, then the stream starts.
OpenStream ==
    /\ stream = "closed"
    /\ AppendUserMessage
    /\ stream' = "open"
    /\ out' = <<[event |-> "start", from |-> turn', call |-> 0]>>
    /\ emitted' = FALSE
    /\ final' = None
    /\ calls' = <<>>

\* The user row cannot be written: the error is the only event.
RefuseStream ==
    /\ stream = "closed" /\ turn < MaxTurns
    /\ out' = <<[event |-> "error", from |-> turn + 1, call |-> 0]>>
    /\ UNCHANGED <<vars, stream, emitted, final, calls>>

\* summarize, intent and clarify are not shown, and their tokens are withheld.
Silent ==
    /\ CheckpointExists \/ StartRun \/ Summarize \/ Intent \/ Clarify
    /\ UNCHANGED <<stream, out, emitted, final, calls>>

AgentStep ==
    /\ WrenContext \/ SqlPlan \/ SqlValidate \/ SqlExecute \/ ChartPlan
    /\ Send(<<Event("agent_step")>>)
    /\ UNCHANGED <<stream, emitted, final, calls>>

\* _chart_event_from_spec_result: only a spec that succeeded makes an event.
ChartEvents(spec) ==
    IF spec # None /\ spec.drawn
    THEN <<[event |-> "chart", from |-> spec.turn, call |-> 0]>> ELSE <<>>

\* Mutants: the flag is never set; it is set without sending the chart.
ChartStepFlagless ==
    /\ ChartSpec
    /\ Send(<<Event("agent_step")>> \o ChartEvents(state'.chartSpec))
    /\ UNCHANGED <<stream, emitted, final, calls>>

ChartStepWithheld ==
    /\ ChartSpec
    /\ Send(<<Event("agent_step")>>)
    /\ emitted' = state'.chartSpec.drawn
    /\ UNCHANGED <<stream, final, calls>>

ChartStep ==
    /\ ChartSpec
    /\ Send(<<Event("agent_step")>> \o ChartEvents(state'.chartSpec))
    /\ emitted' = (emitted \/ ChartEvents(state'.chartSpec) # <<>>)
    /\ UNCHANGED <<stream, final, calls>>

Tokens == {<<>>, <<Event("token")>>}

CallLists == UNION {[1..n -> BOOLEAN] : n \in 1..MaxCalls}

\* Mutant: only the first call of the message is looked at.
ToolStartEventsFirst(asked) ==
    IF asked # <<>> /\ asked[1] THEN <<ToolEvent("tool_start", 1)>> ELSE <<>>

\* Each call of a message that asks for tools is announced when the update
\* arrives, except one without a name.
ToolStartEvents(asked) ==
    LET named == {c \in DOMAIN asked : asked[c]} IN
    [n \in 1..Cardinality(named) |-> ToolEvent("tool_start", Nth(named, n))]

\* The calls a message makes: none in a reply.
Asked(message) == IF message.kind = "call" THEN CallLists ELSE {<<>>}

RespondStep ==
    /\ Respond
    /\ \E tokens \in Tokens, asked \in Asked(state'.messages[Len(state'.messages)]) :
           /\ Send(tokens \o ToolStartEvents(asked))
           /\ calls' = asked
    /\ UNCHANGED <<stream, emitted, final>>

\* ToolNode answers every call, by a result or by an error; one without a name
\* is no tool's and always gets the error.  A tool that raises breaks the turn off.
Outcomes(asked) == {ok \in [DOMAIN asked -> BOOLEAN] : \A c \in DOMAIN asked : ok[c] => asked[c]}

\* Each answer makes an event, that of a call nobody announced included.
ToolResultEvents(asked, ok) ==
    [c \in DOMAIN asked |-> ToolEvent(IF ok[c] THEN "tool_end" ELSE "tool_error", c)]

ToolsStep ==
    /\ Tools
    /\ \E ok \in Outcomes(calls) : Send(ToolResultEvents(calls, ok))
    /\ calls' = <<>>
    /\ UNCHANGED <<stream, emitted, final>>

FinalRespondStep ==
    /\ FinalRespond
    /\ \E tokens \in Tokens : Send(tokens)
    /\ UNCHANGED <<stream, emitted, final, calls>>

\* final_state is read from the checkpoint when the run has ended; the reply
\* in it is stored, whatever becomes of the checkpoint afterwards.
StoreReply ==
    /\ PersistAssistantResult
    /\ stream' = "stored"
    /\ final' = state.chartSpec
    /\ UNCHANGED <<out, emitted, calls>>

\* Mutant: done is sent first.
ClosingEventsLate ==
    <<Event("done")>> \o (IF emitted THEN <<>> ELSE ChartEvents(final))

\* The chart of the final state is sent unless one was sent on the way.
ClosingEvents ==
    (IF emitted THEN <<>> ELSE ChartEvents(final)) \o <<Event("done")>>

CloseStream ==
    /\ stream = "stored"
    /\ Send(ClosingEvents)
    /\ stream' = "closed"
    /\ UNCHANGED <<vars, emitted, final, calls>>

\* Mutant: the stream says done however it ends.
BreakEventsDone == {<<Event("done")>>, <<Event("error")>>, <<>>}

\* An exception becomes an error event; a client that left gets nothing.
BreakEvents == {<<Event("error")>>, <<>>}

BreakStream ==
    /\ Break
    /\ \E events \in BreakEvents : Send(events)
    /\ stream' = "closed"
    /\ calls' = <<>>
    /\ UNCHANGED <<emitted, final>>

\* After the reply the summary may be refused, in a transaction of its own; or
\* the client leaves.
LeaveStream ==
    /\ stream = "stored"
    /\ \E events \in BreakEvents : Send(events)
    /\ stream' = "closed"
    /\ UNCHANGED <<vars, emitted, final, calls>>

ExpireCheckpoint == Expire /\ UNCHANGED <<stream, out, emitted, final, calls>>

StreamsOver == stream = "closed" /\ Over /\ UNCHANGED <<stream, out, emitted, final, calls>>

StreamNext ==
    \/ OpenStream \/ RefuseStream \/ Silent \/ AgentStep \/ ChartStep \/ RespondStep
    \/ ToolsStep \/ FinalRespondStep \/ StoreReply \/ CloseStream \/ BreakStream
    \/ LeaveStream \/ ExpireCheckpoint \/ StreamsOver

StreamSpec == StreamInit /\ [][StreamNext]_svars
-----------------------------------------------------------------------------
Sent(name) == \E i \in DOMAIN out : out[i].event = name

\* An open stream began with start, only the last event closes a stream, and
\* an error is never followed by done.
StreamShape ==
    /\ stream # "closed" => out[1].event = "start"
    /\ \A i \in DOMAIN out :
           out[i].event \in {"done", "error"} => i = Len(out) /\ stream = "closed"

\* done is sent only when the reply of this turn is stored (the endpoint's
\* docstring: the complete reply was generated and written to the database).
DoneMeansStored ==
    Sent("done") =>
        \E i \in DOMAIN history : history[i].kind = "reply" /\ history[i].turn = turn

\* A request shows one chart at most, although the chart reaches the code
\* twice: in the node's update and in the final state.
OneChartPerTurn ==
    \A i, j \in DOMAIN out : out[i].event = "chart" /\ out[j].event = "chart" => i = j

\* A request that is done has shown the chart its turn has drawn.
DrawnChartShown ==
    Sent("done") /\ Of(final) /\ final.drawn => Sent("chart")

ResultKinds == {"tool_end", "tool_error"}

IsAnnouncement(i) == out[i].event = "tool_start"

IsResult(i) == out[i].event \in ResultKinds

\* A client can pair tool events by the id of the call: a call is announced once
\* and has one result; a tool that has run was announced before; and when the
\* request is done every announced call has its result, after the announcement.
\* (A call without a name gets an error that nothing has announced.)
ToolEventsPaired ==
    /\ \A i, j \in DOMAIN out :
           /\ out[i].call = out[j].call
           /\ \/ IsAnnouncement(i) /\ IsAnnouncement(j)
              \/ IsResult(i) /\ IsResult(j)
           => i = j
    /\ \A i \in DOMAIN out :
           out[i].event = "tool_end" =>
               \E j \in 1..(i - 1) : IsAnnouncement(j) /\ out[j].call = out[i].call
    /\ Sent("done") =>
           \A i \in DOMAIN out :
               IsAnnouncement(i) =>
                   \E j \in (i + 1)..Len(out) : IsResult(j) /\ out[j].call = out[i].call

\* The chart event is sent when the chart request succeeded (the endpoint's
\* docstring): it would have to come from the request's own turn.
ChartOnlyFromThisTurn == \A i \in DOMAIN out : out[i].event = "chart" => out[i].from = turn
=============================================================================
