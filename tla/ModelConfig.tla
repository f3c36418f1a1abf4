----------------------------- MODULE ModelConfig -----------------------------
(***************************************************************************)
(* Which configuration the model calls of a turn use.  Every node that     *)
(* calls a model resolves its configuration anew: a profile is read from   *)
(* the database (the one the request's alias names, or a default one, or   *)
(* none, and then the environment's), the result is committed as a row of  *)
(* llm_effective_config_snapshots, a client is made of it and called, and  *)
(* the node writes the row's id into the state.  The id in the final state *)
(* is stored with the reply.  Between two such nodes profiles change.      *)
(*                                                                         *)
(* API threads resolve once more before the run, for the summarization     *)
(* model.  Studio threads pass StudioSchema's gate before each resolution, *)
(* and keep no reply.                                                      *)
(*                                                                         *)
(* The repository is made without decrypt_api_key (runtime.py, studio_     *)
(* graph.py), so that a profile's credential never has a key; reading it   *)
(* is a second statement without effect here, taken with the first.        *)
(***************************************************************************)
EXTENDS StudioSchema, Integers, Sequences

CONSTANTS
    ApiThreads,     \* threads served by the API
    StudioThreads,  \* threads run in Studio: these Calls' turns are followed
    Profiles,       \* rows of llm_model_profiles, named by their unique alias
    Aliases,        \* what a request may ask for, registered or not
    EnvKey,         \* settings.llm_api_key is set
    TurnLimits,     \* bound: how many turns the threads take, the combinations tried
    MaxEdits        \* bound: edits of profiles

Threads == ApiThreads \cup StudioThreads

VARIABLES
    profiles,       \* llm_model_profiles
    edits,          \* how often they were edited
    snapshots,      \* llm_effective_config_snapshots by thread; an id is a place.
                    \* The turn and alias it was resolved for are history
    run,            \* the turn each thread is in
    snapshotId,     \* llm_snapshot_id in the checkpoint of a thread; 0 is NULL
    replies         \* assistant rows: the id stored, and the last call's own

configVars == <<profiles, edits, snapshots, run, snapshotId, replies>>

allVars == <<profiles, edits, snapshots, run, snapshotId, replies,
             tables, flag, lock, gate, seen, app>>

ASSUME ConfigAssumption ==
    /\ StudioThreads \subseteq Calls /\ ApiThreads \cap Calls = {} /\ Profiles \subseteq Aliases /\ None \notin Aliases
    /\ EnvKey \in BOOLEAN /\ TurnLimits \subseteq [Threads -> Nat] /\ MaxEdits \in Nat

ResolvingNodes == {"prepare", "intent", "sql_plan", "chart_plan", "respond", "final_respond"}

Profile == [active : BOOLEAN, default : BOOLEAN, version : 0..MaxEdits]

\* A configuration as its digest tells it from others.
Config == [source : {"request_override", "db_default", "env_fallback"},
           profile : Profiles \cup {None}, version : 0..MaxEdits]

\* The turn and the alias are history, see above.
Snapshot == [turn : Nat, alias : Aliases \cup {None}, config : Config]

Turn == [turn : Nat, node : ResolvingNodes, called : Nat,
         pc : {"idle", "ensure", "select", "save", "call", "persist"},
         alias : Aliases \cup {None}, config : Config \cup {None}]

Idle == [turn |-> 0, pc |-> "idle", node |-> "prepare", alias |-> None,
         config |-> None, called |-> 0]

ConfigInit ==
    /\ SchemaInit
    /\ profiles \in [Profiles -> [active : BOOLEAN, default : BOOLEAN, version : {0}] \cup {None}]
    /\ edits = 0
    /\ snapshots = [t \in Threads |-> <<>>]
    /\ run = [t \in Threads |-> Idle]
    /\ snapshotId = [t \in Threads |-> 0]
    /\ replies = {}

-----------------------------------------------------------------------------
(* Profiles are edited elsewhere, by statements of their own.              *)

\* The foreign key keeps a profile that a snapshot names.
EditProfile(p) ==
    /\ edits < MaxEdits
    /\ edits' = edits + 1
    /\ \E row \in [active : BOOLEAN, default : BOOLEAN, version : {edits + 1}] \cup {None} :
           /\ row = None => \A t \in Threads : \A i \in DOMAIN snapshots[t] :
                                snapshots[t][i].config.profile # p
           /\ row # profiles[p]
           /\ profiles' = [profiles EXCEPT ![p] = row]
    /\ UNCHANGED <<snapshots, run, snapshotId, replies, schemaVars>>

-----------------------------------------------------------------------------
(* A turn.                                                                 *)

\* The turn of a thread is over; nothing but its number stays behind.
EndTurn(t) == [Idle EXCEPT !.turn = run[t].turn]

\* Where a resolution starts: in Studio with _ensure_schema.
Resolving(t) == IF t \in StudioThreads THEN "ensure" ELSE "select"

BeginTurn(t) ==
    /\ run[t].pc = "idle"
    /\ \E limit \in TurnLimits : /\ run[t].turn < limit[t]
                                 /\ \A u \in Threads : run[u].turn <= limit[u]
    /\ t \in ApiThreads => app = "up"
    /\ \E alias \in Aliases \cup {None} :
           run' = [run EXCEPT ![t] =
                       [turn |-> @.turn + 1, pc |-> Resolving(t), alias |-> alias,
                        node |-> IF t \in StudioThreads THEN "intent" ELSE "prepare",
                        config |-> None, called |-> 0]]
    /\ UNCHANGED <<profiles, edits, snapshots, snapshotId, replies, schemaVars>>

\* _ensure_schema, in steps of StudioSchema; it returns, or the turn fails.
PassGate(t) ==
    /\ t \in StudioThreads /\ run[t].pc = "ensure"
    /\ \/ EnsureSchema(t) \/ Acquire(t) \/ LookAtTables(t) \/ CommitTables(t)
    /\ run' = [run EXCEPT ![t].pc = IF gate'[t] = "in" THEN "select" ELSE "ensure"]
    /\ UNCHANGED <<profiles, edits, snapshots, snapshotId, replies>>

\* CREATE TABLE raises: another process has created the tables since.
MeetTables(t) ==
    /\ t \in StudioThreads /\ run[t].pc = "ensure"
    /\ gate[t] = "creating" /\ tables /\ ~seen[t]
    /\ Abandon(t)
    /\ run' = [run EXCEPT ![t] = EndTurn(t)]
    /\ UNCHANGED <<profiles, edits, snapshots, snapshotId, replies>>

Row(p, source) == [source |-> source, profile |-> p, version |-> profiles[p].version]

\* Mutant: a source the rows do not know.
EnvFallbackUnknown == [source |-> "env", profile |-> None, version |-> 0]

EnvFallback == [source |-> "env_fallback", profile |-> None, version |-> 0]

Active(p) == p \in Profiles /\ profiles[p] # None /\ profiles[p].active

\* Mutant: an alias that is not active is served by a default profile.
SelectableDefaulting(alias) ==
    IF alias # None /\ Active(alias) THEN {Row(alias, "request_override")}
    ELSE LET defaults == {p \in Profiles : Active(p) /\ profiles[p].default} IN
         IF defaults = {} THEN {EnvFallback} ELSE {Row(p, "db_default") : p \in defaults}

\* What a request may be given now.  Of several default profiles it is the one
\* the database returns first; an alias that is not active gets what no
\* database profile is left with: the environment's configuration.
Selectable(alias) ==
    IF alias # None
    THEN IF Active(alias) THEN {Row(alias, "request_override")} ELSE {EnvFallback}
    ELSE LET defaults == {p \in Profiles : Active(p) /\ profiles[p].default} IN
         IF defaults = {} THEN {EnvFallback} ELSE {Row(p, "db_default") : p \in defaults}

SelectProfile(t) ==
    /\ run[t].pc = "select"
    /\ \E config \in Selectable(run[t].alias) :
           run' = [run EXCEPT ![t].pc = "save", ![t].config = config]
    /\ UNCHANGED <<profiles, edits, snapshots, snapshotId, replies, schemaVars>>

\* build_chat_model_kwargs refuses a configuration without a key.
HasKey(config) == config.source = "env_fallback" /\ EnvKey

\* The snapshot is committed, then a client is made of the configuration or
\* refused.  The one made before the run is not called by a node.
SaveSnapshot(t) ==
    LET config == run[t].config IN
    /\ run[t].pc = "save"
    /\ config.profile # None => profiles[config.profile] # None
    /\ snapshots' = [snapshots EXCEPT
           ![t] = Append(@, [turn |-> run[t].turn, alias |-> run[t].alias, config |-> config])]
    /\ run' = [run EXCEPT ![t] =
           IF ~HasKey(config) THEN EndTurn(t)
           ELSE IF @.node = "prepare" THEN [@ EXCEPT !.config = None, !.pc = "select", !.node = "intent"]
           ELSE [@ EXCEPT !.config = None, !.pc = "call"]]
    /\ IF t \in StudioThreads THEN Leave(t) ELSE UNCHANGED schemaVars
    /\ UNCHANGED <<profiles, edits, snapshotId, replies>>

\* The profile was deleted since it was read: the foreign key refuses the row.
MissProfile(t) ==
    /\ run[t].pc = "save"
    /\ run[t].config.profile # None /\ profiles[run[t].config.profile] = None
    /\ run' = [run EXCEPT ![t] = EndTurn(t)]
    /\ IF t \in StudioThreads THEN Leave(t) ELSE UNCHANGED schemaVars
    /\ UNCHANGED <<profiles, edits, snapshots, snapshotId, replies>>

\* The next node that calls a model, if any (see AgentGraph).
NodesAfter(node) ==
    CASE node = "intent"        -> {"respond", "sql_plan", "end"}
      [] node = "sql_plan"      -> {"chart_plan", "final_respond", "end"}
      [] node = "chart_plan"    -> {"final_respond"}
      [] node = "respond"       -> {"final_respond", "end"}
      [] node = "final_respond" -> {"end"}

\* Mutant: the plan nodes leave the id of an earlier node in the state.
WrittenIdSparse(t) ==
    IF run[t].node \in {"sql_plan", "chart_plan"} THEN snapshotId[t] ELSE Len(snapshots[t])

\* The id of the configuration this node was given.
WrittenId(t) == Len(snapshots[t])

\* The model answers, the node's update is checkpointed and the run goes on.
CallModel(t) ==
    /\ run[t].pc = "call"
    /\ snapshotId' = [snapshotId EXCEPT ![t] = WrittenId(t)]
    /\ \E next \in NodesAfter(run[t].node) :
           run' = [run EXCEPT ![t] =
               IF next = "end" /\ t \in StudioThreads THEN EndTurn(t)
               ELSE IF next = "end" THEN [@ EXCEPT !.pc = "persist", !.called = Len(snapshots[t])]
               ELSE [@ EXCEPT !.pc = Resolving(t), !.node = next, !.called = Len(snapshots[t])]]
    /\ UNCHANGED <<profiles, edits, snapshots, replies, schemaVars>>

PersistAssistantResult(t) ==
    /\ run[t].pc = "persist"
    /\ replies' = replies \cup
           {[thread |-> t, turn |-> run[t].turn, snapshot |-> snapshotId[t], called |-> run[t].called]}
    /\ run' = [run EXCEPT ![t] = EndTurn(t)]
    /\ UNCHANGED <<profiles, edits, snapshots, snapshotId, schemaVars>>

\* A model or a statement raises, or the request is cancelled.
FailTurn(t) ==
    /\ run[t].pc # "idle"
    /\ run' = [run EXCEPT ![t] = EndTurn(t)]
    /\ \/ t \in StudioThreads /\ Abandon(t)
       \/ (t \in StudioThreads => gate[t] = "out") /\ UNCHANGED schemaVars
    /\ UNCHANGED <<profiles, edits, snapshots, snapshotId, replies>>

\* The Studio process starts again; its turns are broken off.
RestartTurns ==
    /\ RestartStudio
    /\ run' = [t \in Threads |-> IF t \in StudioThreads THEN EndTurn(t) ELSE run[t]]
    /\ UNCHANGED <<profiles, edits, snapshots, snapshotId, replies>>

\* The lifespan of the API, and Studio's other calls.
Elsewhere ==
    /\ \/ StartApp \/ FinishApp
       \/ \E c \in Calls \ StudioThreads :
              \/ EnsureSchema(c) \/ Acquire(c) \/ LookAtTables(c) \/ CommitTables(c)
              \/ Abandon(c) \/ Leave(c)
    /\ UNCHANGED configVars

TurnStep(t) ==
    \/ PassGate(t) \/ MeetTables(t) \/ SelectProfile(t) \/ SaveSnapshot(t) \/ MissProfile(t)
    \/ CallModel(t) \/ PersistAssistantResult(t)

ConfigNext ==
    \/ \E t \in Threads : BeginTurn(t) \/ TurnStep(t) \/ FailTurn(t)
    \/ \E p \in Profiles : EditProfile(p)
    \/ RestartTurns
    \/ Elsewhere

ConfigSpec == ConfigInit /\ [][ConfigNext]_allVars

\* The step a call that holds the lock takes next; if it cannot commit, it raises.
GateStep(c) == (LookAtTables(c) \/ CommitTables(c) \/ (Creating(c) /\ Abandon(c))) /\ UNCHANGED configVars

\* Models and databases answer or raise; the lock is handed to those who wait in
\* the order they came.
FairConfigSpec ==
    /\ ConfigSpec
    /\ \A t \in Threads : WF_allVars(TurnStep(t))
    /\ \A t \in StudioThreads : SF_allVars(PassGate(t))
    /\ \A c \in Calls \ StudioThreads : WF_allVars(GateStep(c))
-----------------------------------------------------------------------------
ConfigTypeOK ==
    /\ SchemaTypeOK
    /\ profiles \in [Profiles -> Profile \cup {None}] /\ edits \in 0..MaxEdits
    /\ snapshots \in [Threads -> Seq(Snapshot)]
    /\ run \in [Threads -> Turn]
    /\ snapshotId \in [Threads -> Nat]
    /\ replies \subseteq [thread : ApiThreads, turn : Nat, snapshot : Nat, called : Nat]

\* The snapshot stored with a reply is the configuration of the last model call
\* of its turn (state.py: llm_snapshot_id), not one left by an earlier node, an
\* earlier turn or the preparation of the run.
ReplySnapshotIsLastCall ==
    \A r \in replies :
        /\ r.snapshot = r.called
        /\ r.snapshot \in DOMAIN snapshots[r.thread]
        /\ snapshots[r.thread][r.snapshot].turn = r.turn

\* A request that names an alias never gets a model that another profile
\* describes: it gets its own, or the configuration of the environment.
AliasNotReplaced ==
    \A t \in Threads : \A i \in DOMAIN snapshots[t] :
        snapshots[t][i].alias # None =>
            snapshots[t][i].config.profile \in {snapshots[t][i].alias, None}

\* A turn ends: nobody waits for ever for the schema, its lock or a profile.
TurnsEnd == \A t \in Threads : run[t].pc # "idle" ~> run[t].pc = "idle"

\* A run consumes one resolved configuration and does not read the live default
\* again (the resolver's docstring): its model calls would share one digest.
OneConfigPerTurn ==
    \A t \in Threads : \A i, j \in DOMAIN snapshots[t] :
        snapshots[t][i].turn = snapshots[t][j].turn => snapshots[t][i].config = snapshots[t][j].config
=============================================================================
