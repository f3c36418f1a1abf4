--------------------------- MODULE ChatStreamProofs ---------------------------
(***************************************************************************)
(* Proofs about ChatStream, for any candidates, any number of turns and    *)
(* whatever models, Wren, the database and the client do: the graph under  *)
(* the stream is the graph, so that its theorems hold here; and what a     *)
(* client may read from the order of the events it receives.               *)
(***************************************************************************)
EXTENDS ChatStream, AgentGraphProofs, RanksProofs

\* Streaming adds nothing to the turns: every step is a step of the graph.
LEMMA StreamStepIsGraphStep == [StreamNext]_svars => [Next]_vars
BY DEF StreamNext, svars, Next, vars, OpenStream, RefuseStream, Silent, AgentStep, ChartStep,
       RespondStep, ToolsStep, FinalRespondStep, StoreReply, CloseStream, BreakStream,
       LeaveStream, ExpireCheckpoint, StreamsOver

\* The graph under the stream is the graph, with all that is proved of it.
THEOREM StreamImplementsGraph == StreamSpec => Spec
<1>1. StreamInit => Init
  BY DEF StreamInit
<1> QED BY <1>1, StreamStepIsGraphStep, PTL DEF StreamSpec, Spec

-----------------------------------------------------------------------------
(* Sequences of events.                                                    *)

Names == {"start", "agent_step", "chart", "token", "tool_start", "tool_end", "tool_error",
          "done", "error"}

StreamEvent == [event : Names, from : Nat, call : Nat]

\* The kinds of events among some.
Kinds(events) == {events[i].event : i \in DOMAIN events}

\* Where the events that are sent come to stand.
LEMMA SendFacts ==
  ASSUME out \in Seq(StreamEvent), NEW events \in Seq(StreamEvent), Send(events)
  PROVE  /\ out' \in Seq(StreamEvent)
         /\ Len(out) \in Nat /\ Len(events) \in Nat /\ Len(out') = Len(out) + Len(events)
         /\ DOMAIN out = 1..Len(out) /\ DOMAIN out' = 1..Len(out')
         /\ DOMAIN events = 1..Len(events)
         /\ \A i \in 1..Len(out) : out'[i] = out[i]
         /\ \A i \in 1..Len(out') :
                i > Len(out) => i - Len(out) \in 1..Len(events) /\ out'[i] = events[i - Len(out)]
         /\ \A i \in 1..Len(events) : out'[Len(out) + i] = events[i]
<1>1. out' = out \o events
  BY DEF Send
<1>2. /\ out \o events \in Seq(StreamEvent)
      /\ Len(out \o events) = Len(out) + Len(events)
      /\ \A i \in 1..(Len(out) + Len(events)) :
             (out \o events)[i] = IF i <= Len(out) THEN out[i] ELSE events[i - Len(out)]
  BY ConcatProperties
<1>3. Len(out) \in Nat /\ Len(events) \in Nat
  OBVIOUS
<1> QED BY <1>1, <1>2, <1>3

\* Nothing is lost when events are put after one another.
LEMMA ConcatKinds ==
  ASSUME NEW s \in Seq(StreamEvent), NEW t \in Seq(StreamEvent)
  PROVE  s \o t \in Seq(StreamEvent) /\ Kinds(s \o t) = Kinds(s) \cup Kinds(t)
<1> DEFINE n == Len(s)
           m == Len(t)
           st == s \o t
<1>0. /\ n \in Nat /\ m \in Nat /\ st \in Seq(StreamEvent)
      /\ DOMAIN s = 1..n /\ DOMAIN t = 1..m /\ DOMAIN st = 1..(n + m)
      /\ \A i \in 1..(n + m) : st[i] = IF i <= n THEN s[i] ELSE t[i - n]
  BY ConcatProperties
<1> HIDE DEF n, m, st
<1>1. ASSUME NEW k \in Kinds(st) PROVE k \in Kinds(s) \cup Kinds(t)
  <2>1. PICK i \in 1..(n + m) : k = st[i].event
    BY <1>0, <1>1 DEF Kinds
  <2>2. CASE i <= n
    <3>1. i \in DOMAIN s /\ st[i] = s[i]
      BY <1>0, <2>2
    <3> QED BY <2>1, <3>1 DEF Kinds
  <2>3. CASE i > n
    <3>1. i - n \in DOMAIN t /\ st[i] = t[i - n]
      BY <1>0, <2>3
    <3> QED BY <2>1, <3>1 DEF Kinds
  <2> QED BY <1>0, <2>2, <2>3
<1>2. ASSUME NEW k \in Kinds(s) PROVE k \in Kinds(st)
  <2>1. PICK i \in DOMAIN s : k = s[i].event
    BY <1>2 DEF Kinds
  <2>2. i \in DOMAIN st /\ st[i] = s[i]
    BY <1>0, <2>1
  <2> QED BY <2>1, <2>2 DEF Kinds
<1>3. ASSUME NEW k \in Kinds(t) PROVE k \in Kinds(st)
  <2>1. PICK i \in DOMAIN t : k = t[i].event
    BY <1>3 DEF Kinds
  <2>2. i \in 1..m
    BY <1>0, <2>1
  <2>3. n + i \in DOMAIN st /\ st[n + i] = t[i]
    BY <1>0, <2>2
  <2> QED BY <2>1, <2>3 DEF Kinds
<1> QED BY <1>0, <1>1, <1>2, <1>3 DEF st

\* Nothing that was sent is lost.
LEMMA SendKinds ==
  ASSUME out \in Seq(StreamEvent), NEW events \in Seq(StreamEvent), Send(events)
  PROVE  Kinds(out') = Kinds(out) \cup Kinds(events)
BY ConcatKinds DEF Send

\* No event, or one.
LEMMA NoEvent == <<>> \in Seq(StreamEvent) /\ Kinds(<<>>) = {} /\ DOMAIN <<>> = {}
BY DEF Kinds

LEMMA OneEvent ==
  ASSUME NEW e \in StreamEvent
  PROVE  /\ <<e>> \in Seq(StreamEvent) /\ Kinds(<<e>>) = {e.event}
         /\ Len(<<e>>) = 1 /\ DOMAIN <<e>> = {1} /\ <<e>>[1] = e
<1>1. DOMAIN <<e>> = {1} /\ <<e>>[1] = e /\ <<e>> \in Seq(StreamEvent) /\ Len(<<e>>) = 1
  OBVIOUS
<1>2. Kinds(<<e>>) = {e.event}
  BY <1>1 DEF Kinds
<1> QED BY <1>1, <1>2

\* Having sent an event is having its kind among those sent, before and after
\* a step.
LEMMA SentIsKind ==
  ASSUME NEW name
  PROVE  (Sent(name) <=> name \in Kinds(out)) /\ (Sent(name)' <=> name \in Kinds(out'))
BY DEF Sent, Kinds
-----------------------------------------------------------------------------
(* The invariant.                                                          *)

ClosingKinds == {"done", "error"}

ToolKinds == {"tool_start"} \cup ResultKinds

\* The stream is open exactly while the turn runs.
StreamTyped ==
    /\ stream \in {"closed", "open", "stored"} /\ (stream = "open" <=> pc # "idle")
    /\ out \in Seq(StreamEvent) /\ emitted \in BOOLEAN
    /\ final \in ChartSpecResult \cup {None}

ShapeInv == (stream # "closed" => Len(out) >= 1) /\ StreamShape

Replied == \E i \in DOMAIN history : history[i].kind = "reply" /\ history[i].turn = turn

\* The closing events are sent over a stored reply.
StoredInv == stream = "stored" \/ Sent("done") => Replied

\* The flag says whether a chart was sent; no chart is sent before its node.
ChartInv ==
    /\ OneChartPerTurn
    /\ stream # "closed" => (emitted <=> Sent("chart"))
    /\ pc \in BeforeChart => ~emitted
    /\ DrawnChartShown

\* The parts of ToolEventsPaired.
OncePerCall ==
    \A i, j \in DOMAIN out :
        /\ out[i].call = out[j].call
        /\ \/ IsAnnouncement(i) /\ IsAnnouncement(j)
           \/ IsResult(i) /\ IsResult(j)
        => i = j

EndsAnnounced ==
    \A i \in DOMAIN out :
        out[i].event = "tool_end" =>
            \E j \in 1..(i - 1) : IsAnnouncement(j) /\ out[j].call = out[i].call

StartsAnswered ==
    \A i \in DOMAIN out :
        IsAnnouncement(i) => \E j \in (i + 1)..Len(out) : IsResult(j) /\ out[j].call = out[i].call

\* At the tools: the calls with a name are announced, and nothing else; there is
\* no result yet.
ToBeAnswered ==
    /\ \A i \in DOMAIN out : ~IsResult(i)
    /\ \A i \in DOMAIN out : IsAnnouncement(i) => out[i].call \in DOMAIN calls
    /\ \A c \in DOMAIN calls :
           calls[c] => \E i \in DOMAIN out : IsAnnouncement(i) /\ out[i].call = c

\* The places where a turn may be when its model has asked for tools.
AfterRespond == {"idle", "tools", "final_respond", "persist"}

\* Only at the tools is an announcement without its result.
PairInv ==
    /\ calls \in Seq(BOOLEAN)
    /\ OncePerCall /\ EndsAnnounced
    /\ pc \notin AfterRespond => Kinds(out) \cap ToolKinds = {}
    /\ pc = "tools" => ToBeAnswered
    /\ (stream # "closed" /\ pc # "tools") \/ Sent("done") => StartsAnswered

StreamInv == StreamTyped /\ ShapeInv /\ StoredInv /\ ChartInv /\ PairInv

\* The invariant holds before the first request.
LEMMA StreamInitInv == StreamInit => StreamInv
<1> SUFFICES ASSUME StreamInit PROVE StreamInv
  OBVIOUS
<1>1. out = <<>> /\ out \in Seq(StreamEvent) /\ DOMAIN out = {}
  BY DEF StreamInit
<1>2. pc = "idle" /\ stream = "closed" /\ emitted = FALSE /\ final = None
  BY DEF StreamInit, Init
<1>3. \A name : ~Sent(name)
  BY <1>1 DEF Sent
<1>4. StreamTyped /\ ShapeInv /\ StoredInv
  BY <1>1, <1>2, <1>3 DEF StreamTyped, ShapeInv, StreamShape, StoredInv
<1>5. ChartInv
  BY <1>1, <1>2, <1>3 DEF ChartInv, OneChartPerTurn, DrawnChartShown
<1>6. PairInv
  <2>1. calls \in Seq(BOOLEAN) /\ Kinds(out) = {}
    BY <1>1 DEF StreamInit, Kinds
  <2> QED BY <1>1, <1>2, <1>3, <2>1 DEF PairInv, OncePerCall, EndsAnnounced
<1> QED BY <1>4, <1>5, <1>6 DEF StreamInv

\* What sending some events to an open stream keeps: nothing follows a closing
\* event and no second chart is sent.
LEMMA SendStep ==
  ASSUME StreamInv, NEW events \in Seq(StreamEvent), Send(events), stream # "closed",
         stream' \in {"closed", "open", "stored"},
         \A i \in DOMAIN events :
             events[i].event \in ClosingKinds => i = Len(events) /\ stream' = "closed",
         \A i, j \in DOMAIN events :
             events[i].event = "chart" /\ events[j].event = "chart" => i = j,
         "chart" \in Kinds(events) => "chart" \notin Kinds(out)
  PROVE  ShapeInv' /\ OneChartPerTurn'
<1>o. out \in Seq(StreamEvent)
  BY DEF StreamInv, StreamTyped
<1> DEFINE n == Len(out)
<1>a. /\ n \in Nat /\ Len(events) \in Nat /\ Len(out') = n + Len(events)
      /\ DOMAIN out = 1..n /\ DOMAIN out' = 1..Len(out') /\ DOMAIN events = 1..Len(events)
  BY <1>o, SendFacts
<1>e. /\ \A i \in 1..n : out'[i] = out[i]
      /\ \A i \in 1..Len(out') :
             i > n => i - n \in 1..Len(events) /\ out'[i] = events[i - n]
  BY <1>o, SendFacts
<1> HIDE DEF n
<1>b. \A i \in 1..n : out'[i] = out[i] /\ i \in DOMAIN out /\ i \in DOMAIN out'
  BY <1>a, <1>e
<1>c. \A i \in DOMAIN out' : ~(i \in 1..n) =>
          i > n /\ i - n \in DOMAIN events /\ out'[i] = events[i - n]
  BY <1>a, <1>e
<1>k. /\ \A i \in DOMAIN out : out[i].event \in Kinds(out)
      /\ \A i \in DOMAIN events : events[i].event \in Kinds(events)
  BY DEF Kinds
<1>1. ShapeInv'
  <2>0. n >= 1 /\ out[1].event = "start"
    BY DEF StreamInv, ShapeInv, StreamShape, n
  <2>1. Len(out') >= 1 /\ out'[1].event = "start"
    BY <1>a, <1>b, <2>0
  <2>2. ASSUME NEW i \in DOMAIN out', out'[i].event \in ClosingKinds
        PROVE  i = Len(out') /\ stream' = "closed"
    <3>1. i \notin 1..n
      BY <1>b, <2>2 DEF StreamInv, ShapeInv, StreamShape, ClosingKinds
    <3>2. i - n \in DOMAIN events /\ events[i - n].event \in ClosingKinds
      BY <1>c, <2>2, <3>1
    <3>3. i - n = Len(events) /\ stream' = "closed"
      BY <3>2
    <3> QED BY <3>3, <2>2, <1>a
  <2> QED BY <2>1, <2>2 DEF ShapeInv, StreamShape, ClosingKinds
<1>2. OneChartPerTurn'
  <2> SUFFICES ASSUME NEW i \in DOMAIN out', NEW j \in DOMAIN out',
                      out'[i].event = "chart", out'[j].event = "chart"
               PROVE  i = j
    BY DEF OneChartPerTurn
  <2>1. CASE i \in 1..n /\ j \in 1..n
    BY <2>1, <1>b DEF StreamInv, ChartInv, OneChartPerTurn
  <2>2. CASE i \notin 1..n /\ j \notin 1..n
    <3>1. i - n = j - n
      BY <2>2, <1>c
    <3> QED BY <3>1, <1>a
  <2>3. CASE i \in 1..n /\ j \notin 1..n
    BY <2>3, <1>b, <1>c, <1>k
  <2>4. CASE i \notin 1..n /\ j \in 1..n
    BY <2>4, <1>b, <1>c, <1>k
  <2> QED BY <2>1, <2>2, <2>3, <2>4
<1> QED BY <1>1, <1>2

\* Events that are not about a tool leave the pairing as it is.
LEMMA PlainPairs ==
  ASSUME StreamInv, NEW events \in Seq(StreamEvent), Send(events),
         Kinds(events) \cap ToolKinds = {}
  PROVE  /\ OncePerCall' /\ EndsAnnounced' /\ (StartsAnswered => StartsAnswered')
         /\ Kinds(out') \cap ToolKinds = Kinds(out) \cap ToolKinds
<1>o. out \in Seq(StreamEvent)
  BY DEF StreamInv, StreamTyped
<1> DEFINE n == Len(out)
<1>a. /\ n \in Nat /\ Len(events) \in Nat /\ Len(out') = n + Len(events)
      /\ DOMAIN out = 1..n /\ DOMAIN out' = 1..Len(out') /\ DOMAIN events = 1..Len(events)
  BY <1>o, SendFacts
<1>e. /\ \A i \in 1..n : out'[i] = out[i]
      /\ \A i \in 1..Len(out') :
             i > n => i - n \in 1..Len(events) /\ out'[i] = events[i - n]
  BY <1>o, SendFacts
<1>k. Kinds(out') = Kinds(out) \cup Kinds(events)
  BY <1>o, SendKinds
<1> HIDE DEF n
<1>1. \A i \in DOMAIN events : events[i].event \notin ToolKinds
  BY DEF Kinds
<1>2. \A i \in DOMAIN out' :
          (IsAnnouncement(i) \/ IsResult(i))' => i \in DOMAIN out
  <2> SUFFICES ASSUME NEW i \in DOMAIN out', i \notin DOMAIN out
               PROVE  out'[i].event \notin ToolKinds
    BY DEF IsAnnouncement, IsResult, ToolKinds
  <2>1. i > n
    BY <1>a
  <2> QED BY <1>a, <1>e, <1>1, <2>1
<1>3. \A i \in DOMAIN out :
          /\ i \in DOMAIN out' /\ out'[i] = out[i]
          /\ IsAnnouncement(i)' <=> IsAnnouncement(i)
          /\ IsResult(i)' <=> IsResult(i)
  BY <1>a, <1>e DEF IsAnnouncement, IsResult
<1>4. OncePerCall'
  BY <1>2, <1>3 DEF StreamInv, PairInv, OncePerCall
<1>5. EndsAnnounced'
  <2> SUFFICES ASSUME NEW i \in DOMAIN out', out'[i].event = "tool_end"
               PROVE  \E j \in 1..(i - 1) : IsAnnouncement(j)' /\ out'[j].call = out'[i].call
    BY DEF EndsAnnounced
  <2>1. i \in DOMAIN out /\ out'[i] = out[i]
    BY <1>2, <1>3 DEF IsResult, ResultKinds
  <2>2. PICK j \in 1..(i - 1) : IsAnnouncement(j) /\ out[j].call = out[i].call
    BY <2>1 DEF StreamInv, PairInv, EndsAnnounced
  <2>3. j \in DOMAIN out
    BY <1>a, <2>1
  <2> QED BY <1>3, <2>1, <2>2, <2>3
<1>6. ASSUME StartsAnswered PROVE StartsAnswered'
  <2> SUFFICES ASSUME NEW i \in DOMAIN out', IsAnnouncement(i)'
               PROVE  \E j \in (i + 1)..Len(out') :
                          IsResult(j)' /\ out'[j].call = out'[i].call
    BY DEF StartsAnswered
  <2>1. i \in DOMAIN out /\ out'[i] = out[i] /\ IsAnnouncement(i)
    BY <1>2, <1>3
  <2>2. PICK j \in (i + 1)..Len(out) : IsResult(j) /\ out[j].call = out[i].call
    BY <1>6, <2>1 DEF StartsAnswered
  <2>3. j \in DOMAIN out /\ j \in (i + 1)..Len(out')
    BY <1>a, <2>1 DEF n
  <2> QED BY <1>3, <2>1, <2>2, <2>3
<1> QED BY <1>k, <1>4, <1>5, <1>6
-----------------------------------------------------------------------------
(* The steps.                                                              *)

\* Where a node may lead; the tools are entered from respond only.
LEMMA NodeFacts ==
  ASSUME GraphInv,
         \/ CheckpointExists \/ StartRun \/ Summarize \/ Intent \/ WrenContext \/ SqlPlan
         \/ SqlValidate \/ SqlExecute \/ ChartPlan \/ ChartSpec \/ Tools \/ FinalRespond
         \/ Clarify
  PROVE  /\ pc # "idle" /\ pc' # "idle" /\ pc' # "tools"
         /\ pc' \in BeforeChart => pc \in BeforeChart
         /\ pc' \notin AfterRespond => pc \notin AfterRespond
         /\ turn' = turn /\ history' = history
<1> USE DEF AfterRespond, Superstep, BeforeChart, BeforeExecution, RouteIntentDecision, RouteAfterSqlPlan,
            RouteAfterSqlExecute, RouteAfterTools
<1>1. CASE CheckpointExists \/ StartRun
  BY <1>1 DEF CheckpointExists, StartRun
<1>2. CASE Summarize \/ Intent \/ WrenContext \/ SqlPlan
  BY <1>2 DEF Summarize, Intent, WrenContext, SqlPlan
<1>3. CASE SqlValidate \/ SqlExecute \/ ChartPlan \/ ChartSpec
  BY <1>3 DEF SqlValidate, SqlExecute, ChartPlan, ChartSpec
<1>4. CASE Tools \/ FinalRespond \/ Clarify
  BY <1>4 DEF Tools, FinalRespond, Clarify
<1> QED BY <1>1, <1>2, <1>3, <1>4

\* A chart result makes one event, or none.
LEMMA ChartEventsType ==
  ASSUME NEW spec \in ChartSpecResult \cup {None}
  PROVE  IF spec # None /\ spec.drawn
         THEN \E e \in StreamEvent : e.event = "chart" /\ ChartEvents(spec) = <<e>>
         ELSE ChartEvents(spec) = <<>>
<1>1. CASE spec # None /\ spec.drawn
  <2>1. spec.turn \in Nat
    BY <1>1 DEF ChartSpecResult, Turns
  <2>2. [event |-> "chart", from |-> spec.turn, call |-> 0] \in StreamEvent
    BY <2>1 DEF StreamEvent, Names
  <2> QED BY <1>1, <2>2 DEF ChartEvents
<1>2. CASE ~(spec # None /\ spec.drawn)
  BY <1>2 DEF ChartEvents
<1> QED BY <1>1, <1>2

\* An event of this turn is an event.
LEMMA EventType ==
  ASSUME TypeOK, NEW name \in Names
  PROVE  Event(name) \in StreamEvent /\ Event(name).event = name
<1> QED BY GraphAssumption DEF TypeOK, Event, StreamEvent

\* An update of a node that runs: what must hold of the events made of it.
LEMMA NodeSends ==
  ASSUME StreamInv, NEW events \in Seq(StreamEvent), Send(events),
         pc # "idle", pc' # "idle", turn' = turn, history' = history,
         UNCHANGED <<stream, final>>,
         emitted' \in BOOLEAN, emitted' <=> emitted \/ "chart" \in Kinds(events),
         pc' \in BeforeChart => pc \in BeforeChart /\ "chart" \notin Kinds(events),
         \A i, j \in DOMAIN events :
             events[i].event = "chart" /\ events[j].event = "chart" => i = j,
         "chart" \in Kinds(events) => "chart" \notin Kinds(out),
         Kinds(events) \cap ClosingKinds = {},
         PairInv'
  PROVE  StreamInv'
<1>1. stream = "open" /\ out \in Seq(StreamEvent)
  BY DEF StreamInv, StreamTyped
<1>2. \A i \in DOMAIN events : events[i].event \notin ClosingKinds
  BY DEF Kinds
<1>3. ShapeInv' /\ OneChartPerTurn'
  BY <1>1, <1>2, SendStep
<1>4. Kinds(out') = Kinds(out) \cup Kinds(events) /\ out' \in Seq(StreamEvent)
  BY <1>1, SendKinds, SendFacts
<1>5. "done" \notin Kinds(out')
  <2>1. "done" \notin Kinds(out)
    BY <1>1, SentIsKind DEF StreamInv, ShapeInv, StreamShape, Sent
  <2> QED BY <1>4, <2>1 DEF ClosingKinds
<1>6. StreamTyped'
  BY <1>1, <1>4 DEF StreamInv, StreamTyped
<1>7. StoredInv'
  BY <1>1, <1>5, SentIsKind DEF StoredInv
<1>8. ChartInv'
  <2>1. emitted' <=> Sent("chart")'
    BY <1>1, <1>4, SentIsKind DEF StreamInv, ChartInv
  <2>2. pc' \in BeforeChart => ~emitted'
    BY DEF StreamInv, ChartInv
  <2>3. DrawnChartShown'
    BY <1>5, SentIsKind DEF DrawnChartShown
  <2> QED BY <1>3, <2>1, <2>2, <2>3 DEF ChartInv
<1> QED BY <1>3, <1>6, <1>7, <1>8 DEF StreamInv

\* What an open stream has sent, or not.
LEMMA OpenFacts ==
  ASSUME StreamInv, stream # "closed"
  PROVE  (emitted <=> "chart" \in Kinds(out)) /\ "done" \notin Kinds(out)
<1>1. ~Sent("done")
  BY DEF StreamInv, ShapeInv, StreamShape, Sent
<1> QED BY <1>1, SentIsKind DEF StreamInv, ChartInv

\* Where the turn may go on with events that are not about a tool.
LEMMA PairsKept ==
  ASSUME StreamInv, NEW events \in Seq(StreamEvent), Send(events), stream # "closed",
         Kinds(events) \cap ToolKinds = {}, calls' \in Seq(BOOLEAN), pc' # "tools",
         pc' \notin AfterRespond => pc \notin AfterRespond,
         pc = "tools" => stream' = "closed" /\ "done" \notin Kinds(out')
  PROVE  PairInv'
<1>1. /\ OncePerCall' /\ EndsAnnounced' /\ (StartsAnswered => StartsAnswered')
      /\ Kinds(out') \cap ToolKinds = Kinds(out) \cap ToolKinds
  BY PlainPairs
<1>2. pc # "tools" => StartsAnswered
  BY DEF StreamInv, PairInv
<1>3. pc' \notin AfterRespond => Kinds(out') \cap ToolKinds = {}
  BY <1>1 DEF StreamInv, PairInv
<1>4. (stream' # "closed" /\ pc' # "tools") \/ Sent("done")' => pc # "tools"
  BY SentIsKind
<1> QED BY <1>1, <1>2, <1>3, <1>4 DEF PairInv

\* Updates that make no event, or one that is neither a chart nor about a tool.
LEMMA PlainStep ==
  ASSUME GraphInv, StreamInv, Silent \/ AgentStep \/ FinalRespondStep
  PROVE  StreamInv'
<1>1. PICK events \in {<<>>, <<Event("agent_step")>>, <<Event("token")>>} :
        out' = out \o events
  <2>1. CASE Silent
    <3>1. out \in Seq(StreamEvent) /\ out' = out
      BY <2>1 DEF Silent, StreamInv, StreamTyped
    <3>2. out' = out \o <<>>
      BY <3>1, ConcatEmptySeq
    <3> QED BY <3>2
  <2>2. CASE AgentStep
    BY <2>2 DEF AgentStep, Send
  <2>3. CASE FinalRespondStep
    BY <2>3 DEF FinalRespondStep, Send, Tokens
  <2> QED BY <2>1, <2>2, <2>3
<1>2. /\ events \in Seq(StreamEvent) /\ DOMAIN events \subseteq {1}
      /\ Kinds(events) \subseteq {"agent_step", "token"}
  <2>1. TypeOK /\ "agent_step" \in Names /\ "token" \in Names
    BY DEF GraphInv, Names
  <2>2. /\ Event("agent_step") \in StreamEvent /\ Event("agent_step").event = "agent_step"
        /\ Event("token") \in StreamEvent /\ Event("token").event = "token"
    BY <2>1, EventType
  <2>4. CASE events = <<>>
    BY <2>4, NoEvent
  <2>5. CASE events = <<Event("agent_step")>>
    BY <2>2, <2>5, OneEvent
  <2>6. CASE events = <<Event("token")>>
    BY <2>2, <2>6, OneEvent
  <2> QED BY <1>1, <2>4, <2>5, <2>6
<1>3. Send(events)
  BY <1>1 DEF Send
<1>4. /\ pc # "idle" /\ pc' # "idle" /\ pc' # "tools"
      /\ pc' \in BeforeChart => pc \in BeforeChart
      /\ pc' \notin AfterRespond => pc \notin AfterRespond
      /\ turn' = turn /\ history' = history
  BY NodeFacts DEF Silent, AgentStep, FinalRespondStep
<1>5. UNCHANGED <<stream, emitted, final, calls>> /\ pc # "tools"
  BY DEF Silent, AgentStep, FinalRespondStep, CheckpointExists, StartRun, Summarize, Intent,
         Clarify, WrenContext, SqlPlan, SqlValidate, SqlExecute, ChartPlan, FinalRespond, Superstep
<1>6. stream # "closed" /\ emitted \in BOOLEAN
  BY <1>4 DEF StreamInv, StreamTyped
<1>7. Kinds(events) \cap ToolKinds = {} /\ Kinds(events) \cap ClosingKinds = {}
  BY <1>2 DEF ToolKinds, ResultKinds, ClosingKinds
<1>8. PairInv'
  <2>1. calls \in Seq(BOOLEAN)
    BY DEF StreamInv, PairInv
  <2> QED BY <1>2, <1>3, <1>4, <1>5, <1>6, <1>7, <2>1, PairsKept
<1> QED BY <1>2, <1>3, <1>4, <1>5, <1>6, <1>7, <1>8, OpenFacts, NodeSends

\* The chart node: its own event and, when it drew, the only chart so far.
LEMMA ChartStepKeeps ==
  ASSUME GraphInv, TypeOK', StreamInv, ChartStep
  PROVE  StreamInv'
<1> DEFINE charts == ChartEvents(state'.chartSpec)
           events == <<Event("agent_step")>> \o charts
<1>1. /\ pc = "chart_spec" /\ pc' = "final_respond" /\ turn' = turn /\ history' = history
      /\ UNCHANGED <<stream, final, calls>> /\ Send(events)
      /\ emitted' = (emitted \/ charts # <<>>)
  BY DEF ChartStep, ChartSpec, Superstep
<1>2. Event("agent_step") \in StreamEvent /\ Event("agent_step").event = "agent_step"
  BY EventType DEF GraphInv, Names
<1>3. state'.chartSpec \in ChartSpecResult \cup {None}
  BY DEF TypeOK, AgentState
<1>4. charts = <<>> \/ \E e \in StreamEvent : e.event = "chart" /\ charts = <<e>>
  BY <1>3, ChartEventsType
<1> HIDE DEF charts
<1>5. /\ charts \in Seq(StreamEvent) /\ Len(charts) <= 1
      /\ Kinds(charts) = IF charts = <<>> THEN {} ELSE {"chart"}
  <2>1. CASE charts = <<>>
    BY <2>1, NoEvent
  <2>2. CASE charts # <<>>
    <3>1. PICK e \in StreamEvent : e.event = "chart" /\ charts = <<e>>
      BY <1>4, <2>2
    <3> QED BY <2>2, <3>1, OneEvent
  <2> QED BY <2>1, <2>2
<1>e. /\ <<Event("agent_step")>> \in Seq(StreamEvent) /\ Len(<<Event("agent_step")>>) = 1
      /\ <<Event("agent_step")>>[1].event = "agent_step"
      /\ Kinds(<<Event("agent_step")>>) = {"agent_step"}
  BY <1>2, OneEvent
<1>f. events \in Seq(StreamEvent) /\ Kinds(events) = {"agent_step"} \cup Kinds(charts)
  BY <1>e, <1>5, ConcatKinds
<1>g. \A i, j \in DOMAIN events : events[i].event = "chart" /\ events[j].event = "chart" => i = j
  <2>1. /\ Len(events) = 1 + Len(charts) /\ Len(charts) \in Nat
        /\ events[1] = <<Event("agent_step")>>[1]
    BY <1>e, <1>5, ConcatProperties
  <2>2. DOMAIN events = 1..Len(events)
    BY <1>f
  <2>3. DOMAIN events \subseteq {1, 2} /\ events[1].event # "chart"
    BY <1>5, <1>e, <2>1, <2>2
  <2> QED BY <2>3
<1> HIDE DEF events
<1>6. "chart" \notin Kinds(out) /\ ~emitted
  <2>1. ~emitted /\ stream # "closed"
    BY <1>1 DEF StreamInv, StreamTyped, ChartInv, BeforeChart
  <2> QED BY <2>1, OpenFacts
<1>7. /\ emitted' \in BOOLEAN
      /\ emitted' <=> emitted \/ "chart" \in Kinds(events)
      /\ pc' \notin BeforeChart /\ pc' \in AfterRespond
      /\ Kinds(events) \cap ClosingKinds = {} /\ Kinds(events) \cap ToolKinds = {}
  BY <1>1, <1>5, <1>6, <1>f
  DEF BeforeChart, BeforeExecution, ClosingKinds, ToolKinds, ResultKinds, AfterRespond
<1>8. stream # "closed" /\ calls' \in Seq(BOOLEAN)
  BY <1>1 DEF StreamInv, StreamTyped, PairInv
<1>9. PairInv'
  BY <1>1, <1>f, <1>7, <1>8, PairsKept
<1>10. pc # "idle" /\ pc' # "idle" /\ pc' # "tools"
  BY <1>1
<1> QED BY <1>1, <1>f, <1>g, <1>6, <1>7, <1>9, <1>10, NodeSends

\* What a message announces: each of its calls that has a name, once.
LEMMA StartEvents ==
  ASSUME TypeOK, NEW asked \in Seq(BOOLEAN)
  PROVE  LET starts == ToolStartEvents(asked) IN
         /\ starts \in Seq(StreamEvent)
         /\ \A n \in DOMAIN starts :
                starts[n].event = "tool_start" /\ starts[n].call \in DOMAIN asked
         /\ \A m, n \in DOMAIN starts : starts[m].call = starts[n].call => m = n
         /\ \A c \in DOMAIN asked : asked[c] => \E n \in DOMAIN starts : starts[n].call = c
<1> DEFINE named == {c \in DOMAIN asked : asked[c]}
           N == Cardinality(named)
           starts == ToolStartEvents(asked)
<1>1. named \in SUBSET Nat /\ IsFiniteSet(named) /\ named \subseteq DOMAIN asked
  <2>1. Len(asked) \in Nat /\ DOMAIN asked = 1..Len(asked)
    OBVIOUS
  <2>2. IsFiniteSet(1..Len(asked))
    BY <2>1, FS_Interval
  <2>3. named \subseteq 1..Len(asked) /\ 1..Len(asked) \subseteq Nat
    BY <2>1
  <2> HIDE DEF named
  <2> QED BY <2>1, <2>2, <2>3, FS_Subset
<1>2. starts = [n \in 1..N |-> ToolEvent("tool_start", Nth(named, n))]
  BY DEF ToolStartEvents
<1>d. \A c \in DOMAIN asked : asked[c] => c \in named
  OBVIOUS
<1> HIDE DEF named, starts
<1>3. /\ N \in Nat
      /\ \A n \in 1..N : Nth(named, n) \in named
      /\ \A m, n \in 1..N : m < n => Nth(named, m) < Nth(named, n)
      /\ \A i \in named : \E n \in 1..N : Nth(named, n) = i
  BY <1>1, NthEnumerates
<1> HIDE DEF N
<1>4. DOMAIN starts = 1..N /\ \A n \in 1..N : starts[n] = ToolEvent("tool_start", Nth(named, n))
  BY <1>2
<1>5. turn \in Nat
  BY GraphAssumption DEF TypeOK
<1>6. \A n \in 1..N : /\ starts[n] \in StreamEvent
                      /\ starts[n].event = "tool_start" /\ starts[n].call = Nth(named, n)
  <2> SUFFICES ASSUME NEW n \in 1..N
               PROVE  /\ starts[n] \in StreamEvent
                      /\ starts[n].event = "tool_start" /\ starts[n].call = Nth(named, n)
    OBVIOUS
  <2>1. Nth(named, n) \in Nat
    BY <1>1, <1>3
  <2>2. starts[n] = [event |-> "tool_start", from |-> turn, call |-> Nth(named, n)]
    BY <1>4 DEF ToolEvent
  <2> QED BY <1>5, <2>1, <2>2 DEF StreamEvent, Names
<1>7. starts \in Seq(StreamEvent)
  BY <1>2, <1>3, <1>4, <1>6
<1>8. ASSUME NEW m \in 1..N, NEW n \in 1..N, starts[m].call = starts[n].call PROVE m = n
  <2>1. Nth(named, m) = Nth(named, n) /\ Nth(named, m) \in Nat
    BY <1>1, <1>3, <1>6, <1>8
  <2>2. ~(m < n) /\ ~(n < m)
    BY <1>3, <2>1
  <2> QED BY <1>3, <2>2
<1>9. \A c \in DOMAIN asked : asked[c] => \E n \in 1..N : starts[n].call = c
  BY <1>3, <1>6, <1>d
<1>10. \A n \in 1..N : starts[n].event = "tool_start" /\ starts[n].call \in DOMAIN asked
  BY <1>1, <1>3, <1>6
<1> QED BY <1>4, <1>7, <1>8, <1>9, <1>10 DEF starts

\* A list of calls is a sequence.
LEMMA AskedType ==
  ASSUME NEW message, NEW asked \in Asked(message)
  PROVE  asked \in Seq(BOOLEAN) /\ (message.kind # "call" => asked = <<>>)
<1>1. CASE message.kind = "call"
  <2>1. PICK n \in 1..MaxCalls : asked \in [1..n -> BOOLEAN]
    BY <1>1 DEF Asked, CallLists
  <2>2. n \in Nat
    BY StreamAssumption
  <2> QED BY <1>1, <2>1, <2>2
<1>2. CASE message.kind # "call"
  BY <1>2 DEF Asked
<1> QED BY <1>1, <1>2

\* The announcements follow events that are not about tools.
LEMMA Announced ==
  ASSUME TypeOK, NEW pre \in Seq(StreamEvent), Kinds(pre) \cap ToolKinds = {},
         calls' \in Seq(BOOLEAN), out' = pre \o ToolStartEvents(calls')
  PROVE  OncePerCall' /\ EndsAnnounced' /\ ToBeAnswered'
<1> DEFINE starts == ToolStartEvents(calls')
           n == Len(pre)
<1>1. /\ starts \in Seq(StreamEvent)
      /\ \A i \in DOMAIN starts :
             starts[i].event = "tool_start" /\ starts[i].call \in DOMAIN calls'
      /\ \A i, j \in DOMAIN starts : starts[i].call = starts[j].call => i = j
      /\ \A c \in DOMAIN calls' : calls'[c] => \E i \in DOMAIN starts : starts[i].call = c
  BY StartEvents
<1>2. out' = pre \o starts
  OBVIOUS
<1> HIDE DEF starts
<1>3. /\ Len(out') = n + Len(starts) /\ out' \in Seq(StreamEvent)
      /\ \A i \in 1..(n + Len(starts)) : out'[i] = IF i <= n THEN pre[i] ELSE starts[i - n]
  BY <1>1, <1>2, ConcatProperties
<1>4. /\ n \in Nat /\ Len(starts) \in Nat
      /\ DOMAIN out' = 1..(n + Len(starts)) /\ DOMAIN starts = 1..Len(starts)
      /\ DOMAIN pre = 1..n
  BY <1>1, <1>3
<1>5. \A i \in 1..n : pre[i].event \notin ToolKinds
  BY <1>4 DEF Kinds
<1> HIDE DEF n
<1>6. \A i \in DOMAIN out' :
          IF i <= n THEN ~IsAnnouncement(i)' /\ ~IsResult(i)'
          ELSE /\ i - n \in DOMAIN starts /\ out'[i] = starts[i - n]
               /\ IsAnnouncement(i)' /\ ~IsResult(i)' /\ out'[i].event # "tool_end"
  <2> SUFFICES ASSUME NEW i \in DOMAIN out'
               PROVE  IF i <= n THEN ~IsAnnouncement(i)' /\ ~IsResult(i)'
                      ELSE /\ i - n \in DOMAIN starts /\ out'[i] = starts[i - n]
                           /\ IsAnnouncement(i)' /\ ~IsResult(i)' /\ out'[i].event # "tool_end"
    OBVIOUS
  <2>1. CASE i <= n
    <3>1. out'[i].event \notin ToolKinds
      BY <1>3, <1>4, <1>5, <2>1
    <3> QED BY <2>1, <3>1 DEF IsAnnouncement, IsResult, ToolKinds
  <2>2. CASE ~(i <= n)
    <3>1. i - n \in DOMAIN starts /\ out'[i] = starts[i - n]
      BY <1>3, <1>4, <2>2
    <3>2. out'[i].event = "tool_start"
      BY <1>1, <3>1
    <3> QED BY <2>2, <3>1, <3>2 DEF IsAnnouncement, IsResult, ResultKinds
  <2> QED BY <2>1, <2>2
<1>7. OncePerCall'
  <2> SUFFICES ASSUME NEW i \in DOMAIN out', NEW j \in DOMAIN out',
                      out'[i].call = out'[j].call,
                      \/ IsAnnouncement(i)' /\ IsAnnouncement(j)'
                      \/ IsResult(i)' /\ IsResult(j)'
               PROVE  i = j
    BY DEF OncePerCall
  <2>1. i - n = j - n
    BY <1>1, <1>6
  <2> QED BY <1>4, <2>1
<1>8. EndsAnnounced'
  BY <1>6 DEF EndsAnnounced, IsResult, ResultKinds
<1>9. ASSUME NEW c \in DOMAIN calls', calls'[c]
      PROVE  \E i \in DOMAIN out' : IsAnnouncement(i)' /\ out'[i].call = c
  <2>1. PICK k \in DOMAIN starts : starts[k].call = c
    BY <1>1, <1>9
  <2>2. n + k \in DOMAIN out' /\ ~(n + k <= n) /\ (n + k) - n = k
    BY <1>4
  <2> QED BY <1>6, <2>1, <2>2
<1>10. ToBeAnswered'
  BY <1>1, <1>6, <1>9 DEF ToBeAnswered
<1> QED BY <1>7, <1>8, <1>10

\* The model's first call: it asks for tools exactly when it leads to them.
LEMMA RespondStepKeeps ==
  ASSUME GraphInv, StreamInv, RespondStep
  PROVE  StreamInv'
<1>t. TypeOK
  BY DEF GraphInv
<1>1. PICK kind \in {"call", "reply"} :
        Superstep("respond", [state EXCEPT !.messages = Say(kind)], RouteAfterRespond(kind))
  BY DEF RespondStep, Respond
<1> DEFINE last == state'.messages[Len(state'.messages)]
<1>2. PICK tokens \in Tokens, asked \in Asked(last) :
        Send(tokens \o ToolStartEvents(asked)) /\ calls' = asked
  BY DEF RespondStep
<1>3. last.kind = kind
  <2>1. state'.messages = Say(kind)
    BY <1>1, <1>t DEF Superstep, TypeOK, AgentState
  <2> QED BY <1>t, <2>1, SayType
<1>a. calls' \in Seq(BOOLEAN) /\ (kind # "call" => calls' = <<>>)
  BY <1>2, <1>3, AskedType
<1> HIDE DEF last
<1> DEFINE starts == ToolStartEvents(calls')
           events == tokens \o starts
<1>4. /\ pc = "respond" /\ pc' = RouteAfterRespond(kind) /\ turn' = turn /\ history' = history
      /\ UNCHANGED <<stream, emitted, final>> /\ Send(events)
  BY <1>1, <1>2 DEF RespondStep, Superstep
<1>5. tokens \in Seq(StreamEvent) /\ Kinds(tokens) \subseteq {"token"}
  <2>1. Event("token") \in StreamEvent /\ Event("token").event = "token"
    BY <1>t, EventType DEF Names
  <2>2. tokens = <<>> \/ tokens = <<Event("token")>>
    BY DEF Tokens
  <2> QED BY <2>1, <2>2, NoEvent, OneEvent
<1>6. /\ starts \in Seq(StreamEvent) /\ Kinds(starts) \subseteq {"tool_start"}
      /\ kind # "call" => Kinds(starts) = {}
  <2>1. /\ starts \in Seq(StreamEvent)
        /\ \A n \in DOMAIN starts :
               starts[n].event = "tool_start" /\ starts[n].call \in DOMAIN calls'
    BY <1>t, <1>a, StartEvents
  <2> HIDE DEF starts
  <2> QED BY <1>a, <2>1 DEF Kinds
<1> HIDE DEF starts
<1>7. events \in Seq(StreamEvent) /\ Kinds(events) = Kinds(tokens) \cup Kinds(starts)
  BY <1>5, <1>6, ConcatKinds
<1> HIDE DEF events
<1>8. \A i \in DOMAIN events : events[i].event # "chart"
  BY <1>5, <1>6, <1>7 DEF Kinds
<1>9. pc' # "idle" /\ pc' \notin BeforeChart /\ pc' \in AfterRespond
  BY <1>4 DEF RouteAfterRespond, BeforeChart, BeforeExecution, AfterRespond
<1>10. /\ stream # "closed" /\ emitted \in BOOLEAN /\ out \in Seq(StreamEvent)
       /\ Kinds(out) \cap ToolKinds = {}
  BY <1>4 DEF StreamInv, StreamTyped, PairInv, AfterRespond
<1>11. Kinds(events) \cap ClosingKinds = {} /\ "chart" \notin Kinds(events)
  BY <1>5, <1>6, <1>7 DEF ClosingKinds
<1>12. PairInv'
  <2>1. CASE kind = "call"
    <3>1. pc' = "tools"
      BY <1>4, <2>1 DEF RouteAfterRespond
    <3>2. out \o tokens \in Seq(StreamEvent) /\ Kinds(out \o tokens) \cap ToolKinds = {}
      BY <1>5, <1>10, ConcatKinds DEF ToolKinds, ResultKinds
    <3>3. out' = (out \o tokens) \o starts
      BY <1>4, <1>5, <1>6, <1>10, ConcatAssociative DEF Send, events
    <3>4. OncePerCall' /\ EndsAnnounced' /\ ToBeAnswered'
      BY <1>t, <1>a, <3>2, <3>3, Announced DEF starts
    <3>5. "done" \notin Kinds(out')
      BY <1>4, <1>7, <1>10, <1>11, OpenFacts, SendKinds DEF ClosingKinds
    <3> QED BY <1>a, <3>1, <3>4, <3>5, SentIsKind DEF PairInv, AfterRespond
  <2>2. CASE kind = "reply"
    <3>1. Kinds(events) \cap ToolKinds = {} /\ pc' # "tools" /\ pc # "tools"
      BY <1>4, <1>5, <1>6, <1>7, <2>2 DEF ToolKinds, ResultKinds, RouteAfterRespond
    <3> QED BY <1>4, <1>7, <1>9, <1>10, <1>a, <3>1, PairsKept
  <2> QED BY <2>1, <2>2
<1> QED BY <1>4, <1>7, <1>8, <1>9, <1>10, <1>11, <1>12, NodeSends

\* The answers of the tools: one for each call, so that one comes to each
\* announcement, and a tool that has run had a name.
LEMMA ToolsStepKeeps ==
  ASSUME GraphInv, StreamInv, ToolsStep
  PROVE  StreamInv'
<1>1. PICK ok \in Outcomes(calls) : Send(ToolResultEvents(calls, ok))
  BY DEF ToolsStep
<1> DEFINE events == ToolResultEvents(calls, ok)
           n == Len(out)
<1>2. /\ pc = "tools" /\ pc' = "final_respond" /\ turn' = turn /\ history' = history
      /\ UNCHANGED <<stream, emitted, final>> /\ calls' = <<>>
  BY DEF ToolsStep, Tools, Superstep, RouteAfterTools
<1>3. /\ stream # "closed" /\ emitted \in BOOLEAN /\ out \in Seq(StreamEvent)
      /\ calls \in Seq(BOOLEAN) /\ ToBeAnswered /\ OncePerCall /\ EndsAnnounced
  BY <1>2 DEF StreamInv, StreamTyped, PairInv
<1>4. /\ ok \in [DOMAIN calls -> BOOLEAN]
      /\ \A c \in DOMAIN calls : ok[c] => calls[c]
  BY DEF Outcomes
<1>5. /\ DOMAIN events = DOMAIN calls
      /\ \A c \in DOMAIN calls :
             events[c] = ToolEvent(IF ok[c] THEN "tool_end" ELSE "tool_error", c)
  BY DEF ToolResultEvents
<1>6. turn \in Nat /\ DOMAIN calls = 1..Len(calls) /\ Len(calls) \in Nat
  BY <1>3, GraphAssumption DEF GraphInv, TypeOK
<1>7. \A c \in DOMAIN calls :
          /\ events[c] \in StreamEvent /\ events[c].call = c
          /\ events[c].event \in ResultKinds /\ (events[c].event = "tool_end" => ok[c])
  BY <1>4, <1>5, <1>6 DEF ToolEvent, StreamEvent, Names, ResultKinds
<1>8. events \in Seq(StreamEvent) /\ Len(events) = Len(calls)
  BY <1>5, <1>6, <1>7 DEF ToolResultEvents
<1>9. Send(events)
  BY <1>1
<1> HIDE DEF events
<1>10. Kinds(events) \subseteq ResultKinds
  BY <1>5, <1>7 DEF Kinds
<1>a. /\ n \in Nat /\ Len(out') = n + Len(calls)
      /\ DOMAIN out = 1..n /\ DOMAIN out' = 1..Len(out')
  BY <1>3, <1>8, <1>9, SendFacts
<1>b. \A i \in 1..n : out'[i] = out[i]
  BY <1>3, <1>8, <1>9, SendFacts
<1>c. \A i \in 1..Len(out') : i > n => i - n \in DOMAIN calls /\ out'[i] = events[i - n]
  BY <1>3, <1>6, <1>8, <1>9, SendFacts
<1> HIDE DEF n
<1>d. \A i \in DOMAIN out :
          /\ i \in DOMAIN out' /\ out'[i] = out[i] /\ ~IsResult(i)'
          /\ IsAnnouncement(i)' <=> IsAnnouncement(i)
  BY <1>3, <1>6, <1>a, <1>b DEF ToBeAnswered, IsResult, IsAnnouncement
<1>e. \A i \in DOMAIN out' : i \notin DOMAIN out =>
          /\ i > n /\ i - n \in DOMAIN calls /\ out'[i] = events[i - n]
          /\ IsResult(i)' /\ ~IsAnnouncement(i)' /\ out'[i].call = i - n
          /\ out'[i].event = "tool_end" => ok[i - n]
  <2> SUFFICES ASSUME NEW i \in DOMAIN out', i \notin DOMAIN out
               PROVE  /\ i > n /\ i - n \in DOMAIN calls /\ out'[i] = events[i - n]
                      /\ IsResult(i)' /\ ~IsAnnouncement(i)' /\ out'[i].call = i - n
                      /\ out'[i].event = "tool_end" => ok[i - n]
    OBVIOUS
  <2>1. i > n
    BY <1>a
  <2>2. i - n \in DOMAIN calls /\ out'[i] = events[i - n]
    BY <1>a, <1>c, <2>1
  <2> QED BY <1>7, <2>1, <2>2 DEF IsResult, IsAnnouncement, ResultKinds
<1>11. OncePerCall'
  <2> SUFFICES ASSUME NEW i \in DOMAIN out', NEW j \in DOMAIN out',
                      out'[i].call = out'[j].call,
                      \/ IsAnnouncement(i)' /\ IsAnnouncement(j)'
                      \/ IsResult(i)' /\ IsResult(j)'
               PROVE  i = j
    BY DEF OncePerCall
  <2>1. CASE IsAnnouncement(i)' /\ IsAnnouncement(j)'
    <3>1. i \in DOMAIN out /\ j \in DOMAIN out
      BY <1>e, <2>1
    <3> QED BY <1>3, <1>d, <2>1, <3>1 DEF OncePerCall
  <2>2. CASE IsResult(i)' /\ IsResult(j)'
    <3>1. i - n = j - n
      BY <1>d, <1>e, <2>2
    <3> QED BY <1>a, <3>1
  <2> QED BY <2>1, <2>2
<1>12. EndsAnnounced'
  <2> SUFFICES ASSUME NEW i \in DOMAIN out', out'[i].event = "tool_end"
               PROVE  \E j \in 1..(i - 1) : IsAnnouncement(j)' /\ out'[j].call = out'[i].call
    BY DEF EndsAnnounced
  <2>1. i \notin DOMAIN out
    BY <1>d DEF IsResult, ResultKinds
  <2>2. i > n /\ i - n \in DOMAIN calls /\ calls[i - n] /\ out'[i].call = i - n
    BY <1>4, <1>e, <2>1
  <2>3. PICK j \in DOMAIN out : IsAnnouncement(j) /\ out[j].call = i - n
    BY <1>3, <2>2 DEF ToBeAnswered
  <2>4. j \in 1..(i - 1)
    BY <1>a, <2>2, <2>3
  <2> QED BY <1>d, <2>2, <2>3, <2>4
<1>13. StartsAnswered'
  <2> SUFFICES ASSUME NEW i \in DOMAIN out', IsAnnouncement(i)'
               PROVE  \E j \in (i + 1)..Len(out') :
                          IsResult(j)' /\ out'[j].call = out'[i].call
    BY DEF StartsAnswered
  <2>1. i \in DOMAIN out /\ IsAnnouncement(i) /\ out'[i] = out[i]
    BY <1>d, <1>e
  <2>2. out[i].call \in DOMAIN calls
    BY <1>3, <2>1 DEF ToBeAnswered
  <2> DEFINE j == n + out[i].call
  <2>3. /\ j \in DOMAIN out' /\ j \notin DOMAIN out /\ j \in (i + 1)..Len(out')
        /\ j - n = out[i].call
    BY <1>6, <1>a, <2>1, <2>2
  <2> HIDE DEF j
  <2> QED BY <1>e, <2>1, <2>3
<1>14. PairInv'
  BY <1>2, <1>11, <1>12, <1>13 DEF PairInv, AfterRespond
<1>15. /\ Kinds(events) \cap ClosingKinds = {} /\ "chart" \notin Kinds(events)
       /\ pc' # "idle" /\ pc # "idle" /\ pc' \notin BeforeChart
       /\ \A i \in DOMAIN events : events[i].event # "chart"
  <2>1. Kinds(events) \cap ClosingKinds = {} /\ "chart" \notin Kinds(events)
    BY <1>10 DEF ClosingKinds, ResultKinds
  <2> QED BY <1>2, <2>1 DEF Kinds, BeforeChart, BeforeExecution
<1> QED BY <1>2, <1>3, <1>8, <1>9, <1>14, <1>15, NodeSends

\* The reply of the turn is stored, the last message of its state.
LEMMA StoreReplyKeeps ==
  ASSUME GraphInv, StreamInv, StoreReply
  PROVE  StreamInv'
<1>t. /\ history \in Seq(Message) /\ state \in AgentState /\ out \in Seq(StreamEvent)
      /\ state.messages \in Seq(Message) /\ emitted \in BOOLEAN
  BY DEF GraphInv, TypeOK, AgentState, StreamInv, StreamTyped
<1> DEFINE last == state.messages[Len(state.messages)]
           row == [last EXCEPT !.kind = "reply"]
<1>1. /\ pc = "persist" /\ pc' = "idle" /\ turn' = turn /\ history' = Append(history, row)
      /\ stream' = "stored" /\ final' = state.chartSpec /\ UNCHANGED <<out, emitted, calls>>
  BY DEF StoreReply, PersistAssistantResult, EndRun
<1>2. row \in Message /\ row.kind = "reply" /\ row.turn = turn
  <2>1. state.messages # <<>> /\ last.turn = turn
    BY <1>1 DEF GraphInv, Safety, PhaseInv, ReplyEndsTurn
  <2>2. last \in Message
    BY <1>t, <2>1
  <2> HIDE DEF last
  <2> QED BY <2>1, <2>2 DEF Message
<1> HIDE DEF row
<1>3. Replied'
  <2>1. /\ Len(history) + 1 \in DOMAIN history'
        /\ history'[Len(history) + 1] = row
    BY <1>1, <1>2, <1>t
  <2> QED BY <2>1, <1>1, <1>2 DEF Replied
<1>4. stream = "open"
  BY <1>1 DEF StreamInv, StreamTyped
<1>5. Kinds(out') = Kinds(out) /\ "done" \notin Kinds(out)
  BY <1>1, <1>4, OpenFacts
<1>6. StreamTyped'
  BY <1>1, <1>t DEF StreamTyped, AgentState
<1>7. ShapeInv'
  BY <1>1, <1>4 DEF StreamInv, ShapeInv, StreamShape
<1>8. ChartInv'
  <2>1. OneChartPerTurn' /\ (emitted' <=> Sent("chart")')
    BY <1>1, <1>4, <1>5, SentIsKind DEF StreamInv, ChartInv, OneChartPerTurn
  <2>2. DrawnChartShown' /\ pc' \notin BeforeChart
    BY <1>1, <1>5, SentIsKind DEF DrawnChartShown, BeforeChart, BeforeExecution
  <2> QED BY <2>1, <2>2 DEF ChartInv
<1>9. PairInv'
  <2>1. calls \in Seq(BOOLEAN) /\ OncePerCall /\ EndsAnnounced /\ StartsAnswered
    BY <1>1, <1>4 DEF StreamInv, PairInv
  <2>2. OncePerCall' /\ EndsAnnounced' /\ StartsAnswered'
    BY <1>1, <2>1 DEF OncePerCall, EndsAnnounced, StartsAnswered, IsAnnouncement, IsResult
  <2> QED BY <1>1, <2>1, <2>2 DEF PairInv, AfterRespond
<1> QED BY <1>3, <1>6, <1>7, <1>8, <1>9 DEF StreamInv, StoredInv

\* A request begins with start, or with the error that is all it gets.
LEMMA BeginKeeps ==
  ASSUME GraphInv, StreamInv, OpenStream \/ RefuseStream
  PROVE  StreamInv'
<1>1. turn \in Nat /\ emitted \in BOOLEAN /\ final \in ChartSpecResult \cup {None}
  BY GraphAssumption DEF GraphInv, TypeOK, StreamInv, StreamTyped
<1>2. PICK name \in {"start", "error"} :
        /\ out' = <<[event |-> name, from |-> turn + 1, call |-> 0]>>
        /\ stream' = (IF name = "start" THEN "open" ELSE "closed")
        /\ pc' = (IF name = "start" THEN "check" ELSE "idle")
        /\ name = "start" => emitted' = FALSE /\ final' = None
        /\ name = "error" => emitted' = emitted /\ final' = final
        /\ calls' = (IF name = "start" THEN <<>> ELSE calls)
  <2>1. CASE OpenStream
    BY <2>1 DEF OpenStream, AppendUserMessage
  <2>2. CASE RefuseStream
    BY <2>2 DEF RefuseStream, vars, StreamInv, StreamTyped
  <2> QED BY <2>1, <2>2
<1> DEFINE e == [event |-> name, from |-> turn + 1, call |-> 0]
<1>3. /\ out' \in Seq(StreamEvent) /\ Kinds(out') = {name} /\ DOMAIN out' = {1}
      /\ Len(out') = 1 /\ out'[1].event = name
  <2>1. e \in StreamEvent /\ e.event = name
    BY <1>1, <1>2 DEF StreamEvent, Names
  <2>2. out' = <<e>>
    BY <1>2
  <2> HIDE DEF e
  <2> QED BY <2>1, <2>2, OneEvent
<1>4. StreamTyped'
  BY <1>1, <1>2, <1>3 DEF StreamTyped
<1>5. ShapeInv'
  BY <1>2, <1>3 DEF ShapeInv, StreamShape
<1>6. /\ ~Sent("done")' /\ ~Sent("chart")'
      /\ ~Sent("tool_start")' /\ ~Sent("tool_end")' /\ ~Sent("tool_error")'
  BY <1>2, <1>3, SentIsKind
<1>7. StoredInv'
  BY <1>2, <1>6 DEF StoredInv
<1>8. ChartInv'
  <2>1. OneChartPerTurn'
    BY <1>3 DEF OneChartPerTurn
  <2>2. pc' \in BeforeChart => ~emitted'
    BY <1>2 DEF BeforeChart, BeforeExecution
  <2>3. stream' # "closed" => (emitted' <=> Sent("chart")')
    BY <1>2, <1>6
  <2> QED BY <1>6, <2>1, <2>2, <2>3 DEF ChartInv, DrawnChartShown
<1>9. PairInv'
  <2>1. calls' \in Seq(BOOLEAN)
    <3>1. calls \in Seq(BOOLEAN) /\ <<>> \in Seq(BOOLEAN)
      BY DEF StreamInv, PairInv
    <3> QED BY <1>2, <3>1
  <2>2. \A i \in DOMAIN out' : ~IsAnnouncement(i)' /\ ~IsResult(i)' /\ out'[i].event = name
    BY <1>2, <1>3 DEF IsAnnouncement, IsResult, ResultKinds
  <2>3. OncePerCall' /\ EndsAnnounced' /\ StartsAnswered'
    BY <1>2, <2>2 DEF OncePerCall, EndsAnnounced, StartsAnswered
  <2>4. Kinds(out') \cap ToolKinds = {} /\ pc' # "tools"
    BY <1>2, <1>3 DEF ToolKinds, ResultKinds
  <2> QED BY <2>1, <2>3, <2>4 DEF PairInv
<1> QED BY <1>4, <1>5, <1>7, <1>8, <1>9 DEF StreamInv

\* A stream that ends without done.
LEMMA EndKeeps ==
  ASSUME GraphInv, StreamInv, BreakStream \/ LeaveStream
  PROVE  StreamInv'
<1>1. /\ stream # "closed" /\ stream' = "closed" /\ pc' = "idle"
      /\ UNCHANGED <<emitted, final>>
  BY DEF BreakStream, LeaveStream, Break, EndRun, StreamInv, StreamTyped, vars
<1>2. PICK events \in BreakEvents : Send(events)
  BY DEF BreakStream, LeaveStream
<1>3. /\ events \in Seq(StreamEvent) /\ Kinds(events) \subseteq {"error"}
      /\ \A i \in DOMAIN events : i = Len(events)
  <2>1. Event("error") \in StreamEvent /\ Event("error").event = "error"
    BY EventType DEF GraphInv, Names
  <2>2. events = <<>> \/ events = <<Event("error")>>
    BY DEF BreakEvents
  <2>3. CASE events = <<>>
    BY <2>3, NoEvent
  <2>4. CASE events = <<Event("error")>>
    BY <2>1, <2>4, OneEvent
  <2> QED BY <2>2, <2>3, <2>4
<1>4. out \in Seq(StreamEvent) /\ out' \in Seq(StreamEvent) /\ emitted \in BOOLEAN
  BY <1>2, <1>3, SendFacts DEF StreamInv, StreamTyped
<1>5. "done" \notin Kinds(out')
  BY <1>1, <1>2, <1>3, <1>4, OpenFacts, SendKinds
<1>6. ShapeInv' /\ OneChartPerTurn'
  <2>1. \A i \in DOMAIN events : events[i].event = "error"
    BY <1>3 DEF Kinds
  <2>2. "chart" \notin Kinds(events)
    BY <1>3
  <2> QED BY <1>1, <1>2, <1>3, <2>1, <2>2, SendStep
<1>7. StreamTyped'
  BY <1>1, <1>4 DEF StreamInv, StreamTyped
<1>8. StoredInv' /\ DrawnChartShown' /\ ~Sent("done")'
  BY <1>1, <1>5, SentIsKind DEF StoredInv, DrawnChartShown
<1>9. ChartInv'
  BY <1>1, <1>6, <1>8 DEF ChartInv, BeforeChart, BeforeExecution
<1>10. PairInv'
  <2>1. calls' \in Seq(BOOLEAN)
    <3>1. calls \in Seq(BOOLEAN) /\ <<>> \in Seq(BOOLEAN)
      BY DEF StreamInv, PairInv
    <3> QED BY <3>1 DEF BreakStream, LeaveStream
  <2>2. Kinds(events) \cap ToolKinds = {} /\ pc' \in AfterRespond
    BY <1>1, <1>3 DEF ToolKinds, ResultKinds, AfterRespond
  <2> QED BY <1>1, <1>2, <1>3, <1>5, <2>1, <2>2, PairsKept
<1> QED BY <1>6, <1>7, <1>8, <1>9, <1>10 DEF StreamInv

\* A stream that is done: the reply is stored and a chart the turn has drawn is
\* among the events.
LEMMA CloseKeeps ==
  ASSUME GraphInv, StreamInv, CloseStream
  PROVE  StreamInv'
<1> DEFINE charts == IF emitted THEN <<>> ELSE ChartEvents(final)
           events == charts \o <<Event("done")>>
<1>1. /\ stream = "stored" /\ stream' = "closed" /\ Send(events) /\ pc = "idle" /\ pc' = pc
      /\ UNCHANGED <<turn, history, emitted, final, calls>>
  BY DEF CloseStream, ClosingEvents, vars, StreamInv, StreamTyped
<1>2. /\ out \in Seq(StreamEvent) /\ emitted \in BOOLEAN
      /\ final \in ChartSpecResult \cup {None}
  BY DEF StreamInv, StreamTyped
<1>3. charts = <<>> \/ \E e \in StreamEvent : e.event = "chart" /\ charts = <<e>>
  BY <1>2, ChartEventsType
<1>4. ~emitted /\ final # None /\ final.drawn => charts # <<>>
  <2> SUFFICES ASSUME ~emitted, final # None, final.drawn PROVE charts # <<>>
    OBVIOUS
  <2>1. PICK e \in StreamEvent : charts = <<e>>
    BY <1>2, ChartEventsType
  <2> QED BY <2>1
<1>5. emitted => charts = <<>>
  OBVIOUS
<1> HIDE DEF charts
<1>6. /\ charts \in Seq(StreamEvent) /\ Len(charts) <= 1
      /\ Kinds(charts) = IF charts = <<>> THEN {} ELSE {"chart"}
  <2>1. CASE charts = <<>>
    BY <2>1, NoEvent
  <2>2. CASE charts # <<>>
    <3>1. PICK e \in StreamEvent : e.event = "chart" /\ charts = <<e>>
      BY <1>3, <2>2
    <3> QED BY <2>2, <3>1, OneEvent
  <2> QED BY <2>1, <2>2
<1>7. /\ <<Event("done")>> \in Seq(StreamEvent) /\ Len(<<Event("done")>>) = 1
      /\ <<Event("done")>>[1].event = "done" /\ Kinds(<<Event("done")>>) = {"done"}
  <2>1. Event("done") \in StreamEvent /\ Event("done").event = "done"
    BY EventType DEF GraphInv, Names
  <2> QED BY <2>1, OneEvent
<1>8. events \in Seq(StreamEvent) /\ Kinds(events) = Kinds(charts) \cup {"done"}
  BY <1>6, <1>7, ConcatKinds
<1>9. \A i \in DOMAIN events :
          IF i <= Len(charts) THEN i = 1 /\ events[i].event = "chart"
          ELSE i = Len(events) /\ events[i].event = "done"
  <2>1. /\ Len(events) = Len(charts) + 1 /\ Len(charts) \in Nat
        /\ \A i \in 1..(Len(charts) + 1) :
               events[i] = IF i <= Len(charts) THEN charts[i]
                           ELSE <<Event("done")>>[i - Len(charts)]
    BY <1>6, <1>7, ConcatProperties
  <2>2. DOMAIN events = 1..Len(events)
    BY <1>8
  <2>3. \A i \in DOMAIN charts : charts[i].event \in Kinds(charts)
    BY DEF Kinds
  <2>4. \A i \in 1..Len(charts) : i = 1 /\ charts[i].event = "chart"
    BY <1>6, <2>1, <2>3
  <2> HIDE DEF events
  <2> QED BY <1>7, <2>1, <2>2, <2>4
<1> HIDE DEF events
<1>a. Kinds(out') = Kinds(out) \cup Kinds(charts) \cup {"done"} /\ out' \in Seq(StreamEvent)
  BY <1>1, <1>2, <1>8, SendKinds, SendFacts
<1>b. emitted <=> "chart" \in Kinds(out)
  BY <1>1, OpenFacts
<1>c. ShapeInv' /\ OneChartPerTurn'
  <2>1. "chart" \in Kinds(events) => "chart" \notin Kinds(out)
    BY <1>5, <1>6, <1>8, <1>b
  <2>2. \A i \in DOMAIN events :
            events[i].event \in ClosingKinds => i = Len(events) /\ stream' = "closed"
    BY <1>1, <1>9 DEF ClosingKinds
  <2>3. \A i, j \in DOMAIN events :
            events[i].event = "chart" /\ events[j].event = "chart" => i = j
    BY <1>9
  <2> QED BY <1>1, <1>8, <2>1, <2>2, <2>3, SendStep
<1>d. StreamTyped'
  BY <1>1, <1>2, <1>a DEF StreamTyped
<1>e. StoredInv'
  BY <1>1 DEF StreamInv, StoredInv, Replied
<1>f. ChartInv'
  <2>1. emitted \/ (final # None /\ final.drawn) => "chart" \in Kinds(out')
    BY <1>4, <1>6, <1>a, <1>b
  <2>2. DrawnChartShown'
    BY <1>1, <2>1, SentIsKind DEF DrawnChartShown, Of
  <2> QED BY <1>1, <1>c, <2>2 DEF ChartInv, BeforeChart, BeforeExecution
<1>g. PairInv'
  <2>1. Kinds(events) \cap ToolKinds = {} /\ pc' \in AfterRespond
    BY <1>1, <1>6, <1>8 DEF ToolKinds, ResultKinds, AfterRespond
  <2>2. calls' \in Seq(BOOLEAN)
    BY <1>1 DEF StreamInv, PairInv
  <2> QED BY <1>1, <1>8, <2>1, <2>2, PairsKept
<1> QED BY <1>c, <1>d, <1>e, <1>f, <1>g DEF StreamInv

\* What the stream does not see.
LEMMA UnseenKeeps ==
  ASSUME StreamInv, ExpireCheckpoint \/ StreamsOver \/ UNCHANGED svars
  PROVE  StreamInv'
<1>1. UNCHANGED <<turn, pc, history, stream, out, emitted, final, calls>>
  BY DEF ExpireCheckpoint, Expire, StreamsOver, Over, vars, svars
<1> QED
  BY <1>1
  DEF StreamInv, StreamTyped, ShapeInv, StreamShape, StoredInv, Replied, Sent, ChartInv,
      OneChartPerTurn, DrawnChartShown, Of, PairInv, OncePerCall, EndsAnnounced,
      StartsAnswered, ToBeAnswered, IsAnnouncement, IsResult, Kinds

\* Every step keeps the invariant, over a graph that keeps its own.
LEMMA StreamStepInv ==
  GraphInv /\ GraphInv' /\ StreamInv /\ [StreamNext]_svars => StreamInv'
<1> SUFFICES ASSUME GraphInv, GraphInv', StreamInv, [StreamNext]_svars PROVE StreamInv'
  OBVIOUS
<1>1. TypeOK'
  BY DEF GraphInv
<1> QED BY <1>1, PlainStep, ChartStepKeeps, RespondStepKeeps, ToolsStepKeeps, StoreReplyKeeps,
           BeginKeeps, EndKeeps, CloseKeeps, UnseenKeeps DEF StreamNext

\* The invariant of the stream.
LEMMA StreamInvariant == StreamSpec => []StreamInv
<1>1. StreamSpec => []GraphInv
  BY StreamImplementsGraph, GraphInvariant
<1> QED BY <1>1, StreamInitInv, StreamStepInv, PTL DEF StreamSpec
-----------------------------------------------------------------------------
(* What a client may rely on.                                              *)

\* Every event list a client can receive begins with start and ends with its
\* only closing event, whatever fails and whenever.
THEOREM EventsAreShaped == StreamSpec => []StreamShape
<1>1. StreamInv => StreamShape
  BY DEF StreamInv, ShapeInv
<1> QED BY <1>1, StreamInvariant, PTL

\* done is sent over a stored reply of the same turn only.
THEOREM DoneIsStored == StreamSpec => []DoneMeansStored
<1>1. StreamInv => DoneMeansStored
  BY DEF StreamInv, StoredInv, Replied, DoneMeansStored
<1> QED BY <1>1, StreamInvariant, PTL

\* The chart of a turn is sent once, although it reaches the code twice.
THEOREM ChartsAreSentOnce == StreamSpec => []OneChartPerTurn
<1>1. StreamInv => OneChartPerTurn
  BY DEF StreamInv, ChartInv
<1> QED BY <1>1, StreamInvariant, PTL

\* No request is done without the chart its turn has drawn.
THEOREM DrawnChartsAreSent == StreamSpec => []DrawnChartShown
<1>1. StreamInv => DrawnChartShown
  BY DEF StreamInv, ChartInv
<1> QED BY <1>1, StreamInvariant, PTL

\* Whatever calls a message makes, with a name or without, and whatever becomes
\* of them: a client can pair the events by the id of the call.
THEOREM ToolEventsArePaired == StreamSpec => []ToolEventsPaired
<1>1. StreamInv => ToolEventsPaired
  BY DEF StreamInv, PairInv, OncePerCall, EndsAnnounced, StartsAnswered, ToolEventsPaired
<1> QED BY <1>1, StreamInvariant, PTL
=============================================================================
