-------------------------- MODULE ModelConfigProofs --------------------------
(***************************************************************************)
(* Proofs about ModelConfig, for any threads, profiles, aliases and        *)
(* bounds: its steps are steps of StudioSchema, and the snapshot stored    *)
(* with a reply is that of the last model call.                            *)
(***************************************************************************)
EXTENDS ModelConfig, StudioSchemaProofs

-----------------------------------------------------------------------------
(* The gate inside the turns is the gate.                                  *)

\* What a turn does at the gate is what a call does there.
LEMMA ConfigStepIsSchemaStep == [ConfigNext]_allVars => [SchemaNext]_schemaVars
<1> SUFFICES ASSUME [ConfigNext]_allVars PROVE [SchemaNext]_schemaVars
    OBVIOUS
<1>1. StudioThreads \subseteq Calls
    BY ConfigAssumption
<1>2. ASSUME NEW t \in Threads, TurnStep(t) PROVE [SchemaNext]_schemaVars
  <2>1. CASE PassGate(t)
      BY <1>1, <2>1 DEF PassGate, SchemaNext
  <2>2. CASE MeetTables(t)
      BY <1>1, <2>2 DEF MeetTables, SchemaNext
  <2>3. CASE SaveSnapshot(t)
      BY <1>1, <2>3 DEF SaveSnapshot, SchemaNext
  <2>4. CASE MissProfile(t)
      BY <1>1, <2>4 DEF MissProfile, SchemaNext
  <2>5. CASE SelectProfile(t) \/ CallModel(t) \/ PersistAssistantResult(t)
      BY <2>5 DEF SelectProfile, CallModel, PersistAssistantResult
  <2> QED
      BY <1>2, <2>1, <2>2, <2>3, <2>4, <2>5 DEF TurnStep
<1>3. ASSUME NEW t \in Threads, FailTurn(t) PROVE [SchemaNext]_schemaVars
    BY <1>1, <1>3 DEF FailTurn, SchemaNext
<1>4. ASSUME NEW t \in Threads, BeginTurn(t) PROVE [SchemaNext]_schemaVars
    BY <1>4 DEF BeginTurn
<1>5. ASSUME NEW p \in Profiles, EditProfile(p) PROVE [SchemaNext]_schemaVars
    BY <1>5 DEF EditProfile
<1>6. CASE RestartTurns
    BY <1>6 DEF RestartTurns, SchemaNext
<1>7. CASE Elsewhere
    BY <1>7 DEF Elsewhere, SchemaNext
<1>8. CASE UNCHANGED allVars
    BY <1>8 DEF allVars, schemaVars
<1> QED
    BY <1>2, <1>3, <1>4, <1>5, <1>6, <1>7, <1>8 DEF ConfigNext

\* The turns, with their profiles and snapshots, implement the gate they pass.
THEOREM ConfigImplementsSchema == ConfigSpec => SchemaSpec
<1>1. ConfigInit => SchemaInit
    BY DEF ConfigInit
<1> QED
    BY <1>1, ConfigStepIsSchemaStep, PTL DEF ConfigSpec, SchemaSpec

\* No turn, in the API or in Studio, reads a table that does not exist.
THEOREM ConfigTablesExistWhenUsed == ConfigSpec => []SchemaBeforeUse
<1> QED
    BY ConfigImplementsSchema, TablesExistWhenUsed, PTL

-----------------------------------------------------------------------------
(* What is known of a turn on the way to its reply.                        *)

\* A configuration a request with this alias may be given.
Suits(config, alias) ==
    /\ config \in Config
    /\ alias # None => config.profile \in {alias, None}

LastOfTurn(t, i) == i \in DOMAIN snapshots[t] /\ snapshots[t][i].turn = run[t].turn

TurnInv(t) ==
    /\ run[t].pc = "save" => Suits(run[t].config, run[t].alias)
    /\ run[t].pc = "call" => run[t].node # "prepare" /\ LastOfTurn(t, Len(snapshots[t]))
    /\ run[t].pc = "persist" => t \in ApiThreads /\ run[t].called # 0
    /\ run[t].called # 0 => run[t].called = snapshotId[t] /\ LastOfTurn(t, run[t].called)

ConfigInv ==
    /\ ConfigTypeOK
    /\ \A t \in Threads : TurnInv(t)
    /\ ReplySnapshotIsLastCall
    /\ AliasNotReplaced

LEMMA ConfigInitInv == ConfigInit => ConfigInv
<1> SUFFICES ASSUME ConfigInit PROVE ConfigInv
    OBVIOUS
<1> USE ConfigAssumption DEF ConfigInit
<1>1. SchemaTypeOK
    BY SchemaInitInv DEF SchemaInv
<1>2. Idle \in Turn
    BY DEF Idle, Turn, ResolvingNodes
<1>3. profiles \in [Profiles -> Profile \cup {None}]
    BY DEF Profile
<1>4. snapshots \in [Threads -> Seq(Snapshot)] /\ edits \in 0..MaxEdits
    OBVIOUS
<1>5. ConfigTypeOK
    BY <1>1, <1>2, <1>3, <1>4 DEF ConfigTypeOK
<1>6. \A t \in Threads : TurnInv(t)
    BY DEF TurnInv, Idle
<1>7. ReplySnapshotIsLastCall /\ AliasNotReplaced
    BY DEF ReplySnapshotIsLastCall, AliasNotReplaced
<1> QED
    BY <1>5, <1>6, <1>7 DEF ConfigInv

\* What the other threads know they keep.
LEMMA KeepTurn ==
    ASSUME NEW u \in Threads, TurnInv(u), run'[u] = run[u],
           snapshots'[u] = snapshots[u], snapshotId'[u] = snapshotId[u]
    PROVE  TurnInv(u)'
<1> QED
    BY DEF TurnInv, LastOfTurn

LEMMA EndedTurn ==
    ASSUME NEW t \in Threads, run \in [Threads -> Turn]
    PROVE  EndTurn(t) \in Turn /\ EndTurn(t).called = 0 /\ EndTurn(t).pc = "idle"
<1> QED
    BY DEF EndTurn, Idle, Turn, ResolvingNodes

\* What is given suits the request, and names a profile that exists.
LEMMA SelectableSuits ==
    ASSUME ConfigTypeOK, NEW alias \in Aliases \cup {None}, NEW config \in Selectable(alias)
    PROVE  Suits(config, alias)
<1> USE ConfigAssumption DEF ConfigTypeOK
<1>1. EnvFallback \in Config /\ EnvFallback.profile = None
    BY DEF EnvFallback, Config
<1>2. ASSUME NEW p \in Profiles, Active(p), NEW source \in {"request_override", "db_default"}
      PROVE  Row(p, source) \in Config /\ Row(p, source).profile = p
    BY <1>2 DEF Row, Active, Config, Profile
<1>3. CASE alias # None /\ config # EnvFallback
  <2>1. Active(alias) /\ config = Row(alias, "request_override")
      BY <1>3 DEF Selectable
  <2>2. alias \in Profiles
      BY <2>1 DEF Active
  <2> QED
      BY <1>2, <2>1, <2>2 DEF Suits
<1>4. CASE alias = None /\ config # EnvFallback
  <2>1. PICK p \in Profiles : Active(p) /\ config = Row(p, "db_default")
      BY <1>4 DEF Selectable
  <2> QED
      BY <1>2, <1>4, <2>1 DEF Suits
<1> QED
    BY <1>1, <1>3, <1>4 DEF Suits

\* The tables and the gate keep their types.
LEMMA GateKeepsType == SchemaInv /\ [ConfigNext]_allVars => SchemaTypeOK'
<1> QED
    BY ConfigStepIsSchemaStep, SchemaNextInv DEF SchemaInv

\* A step of one turn that touches nothing but the turn and the gate.
LEMMA TurnMoves ==
    ASSUME ConfigInv, SchemaTypeOK', NEW t \in Threads, NEW r \in Turn,
           run' = [run EXCEPT ![t] = r], TurnInv(t)',
           UNCHANGED <<profiles, edits, snapshots, snapshotId, replies>>
    PROVE  ConfigInv'
<1> USE DEF ConfigInv
<1>1. ConfigTypeOK'
    BY DEF ConfigTypeOK
<1>2. \A u \in Threads : TurnInv(u)'
  <2> SUFFICES ASSUME NEW u \in Threads, u # t PROVE TurnInv(u)'
      OBVIOUS
  <2>1. run'[u] = run[u]
      BY DEF ConfigTypeOK
  <2> QED
      BY <2>1, KeepTurn
<1>3. ReplySnapshotIsLastCall' /\ AliasNotReplaced'
    BY DEF ReplySnapshotIsLastCall, AliasNotReplaced
<1> QED
    BY <1>1, <1>2, <1>3

\* The turn is broken off.
LEMMA TurnEnds ==
    ASSUME ConfigInv, SchemaTypeOK', NEW t \in Threads,
           run' = [run EXCEPT ![t] = EndTurn(t)],
           UNCHANGED <<profiles, edits, snapshots, snapshotId, replies>>
    PROVE  ConfigInv'
<1>1. run \in [Threads -> Turn]
    BY DEF ConfigInv, ConfigTypeOK
<1>2. EndTurn(t) \in Turn /\ EndTurn(t).called = 0 /\ EndTurn(t).pc = "idle"
    BY <1>1, EndedTurn
<1>3. run'[t] = EndTurn(t)
    BY <1>1
<1>4. TurnInv(t)'
    BY <1>2, <1>3 DEF TurnInv
<1> QED
    BY <1>2, <1>4, TurnMoves

LEMMA BeginTurnInv ==
    ASSUME ConfigInv, SchemaTypeOK', NEW t \in Threads, BeginTurn(t)
    PROVE  ConfigInv'
<1>1. PICK alias \in Aliases \cup {None} :
          run' = [run EXCEPT ![t] =
                      [turn |-> run[t].turn + 1, pc |-> Resolving(t), alias |-> alias,
                       node |-> IF t \in StudioThreads THEN "intent" ELSE "prepare",
                       config |-> None, called |-> 0]]
    BY DEF BeginTurn
<1> DEFINE r == [turn |-> run[t].turn + 1, pc |-> Resolving(t), alias |-> alias,
                 node |-> IF t \in StudioThreads THEN "intent" ELSE "prepare",
                 config |-> None, called |-> 0]
<1>2. r \in Turn /\ r.pc \in {"ensure", "select"} /\ r.called = 0
    BY DEF ConfigInv, ConfigTypeOK, Turn, Resolving, ResolvingNodes
<1>3. run'[t] = r
    BY <1>1 DEF ConfigInv, ConfigTypeOK
<1>4. TurnInv(t)'
    BY <1>2, <1>3 DEF TurnInv
<1>5. UNCHANGED <<profiles, edits, snapshots, snapshotId, replies>>
    BY DEF BeginTurn
<1>6. run' = [run EXCEPT ![t] = r]
    BY <1>1
<1> HIDE DEF r
<1> QED
    BY <1>2, <1>4, <1>5, <1>6, TurnMoves

LEMMA PassGateInv ==
    ASSUME ConfigInv, SchemaTypeOK', NEW t \in Threads, PassGate(t)
    PROVE  ConfigInv'
<1> DEFINE r == [run[t] EXCEPT !.pc = IF gate'[t] = "in" THEN "select" ELSE "ensure"]
<1>1. run[t] \in Turn /\ TurnInv(t) /\ run[t].pc = "ensure"
    BY DEF ConfigInv, ConfigTypeOK, PassGate
<1>2. r \in Turn /\ r.pc \in {"ensure", "select"} /\ r.called = run[t].called /\ r.turn = run[t].turn
    BY <1>1 DEF Turn
<1>3. UNCHANGED <<profiles, edits, snapshots, snapshotId, replies>>
    BY DEF PassGate
<1>4. run' = [run EXCEPT ![t] = r]
    BY DEF PassGate
<1>5. run'[t] = r
    BY <1>4 DEF ConfigInv, ConfigTypeOK
<1> HIDE DEF r
<1>6. TurnInv(t)'
    BY <1>1, <1>2, <1>3, <1>5 DEF TurnInv, LastOfTurn
<1> QED
    BY <1>2, <1>3, <1>4, <1>6, TurnMoves

LEMMA SelectProfileInv ==
    ASSUME ConfigInv, SchemaTypeOK', NEW t \in Threads, SelectProfile(t)
    PROVE  ConfigInv'
<1>1. run[t] \in Turn /\ TurnInv(t) /\ ConfigTypeOK
    BY DEF ConfigInv, ConfigTypeOK
<1>2. PICK config \in Selectable(run[t].alias) :
          run' = [run EXCEPT ![t].pc = "save", ![t].config = config]
    BY DEF SelectProfile
<1>3. Suits(config, run[t].alias)
    BY <1>1, SelectableSuits DEF Turn
<1> DEFINE r == [run[t] EXCEPT !.pc = "save", !.config = config]
<1>4. /\ r \in Turn /\ r.pc = "save" /\ r.config = config /\ r.alias = run[t].alias
      /\ r.called = run[t].called /\ r.turn = run[t].turn
    BY <1>1, <1>3 DEF Turn, Suits
<1>5. UNCHANGED <<profiles, edits, snapshots, snapshotId, replies>>
    BY DEF SelectProfile
<1>6. run' = [run EXCEPT ![t] = r]
    BY <1>2
<1>7. run'[t] = r
    BY <1>6 DEF ConfigInv, ConfigTypeOK
<1> HIDE DEF r
<1>8. TurnInv(t)'
    BY <1>1, <1>3, <1>4, <1>5, <1>7 DEF TurnInv, LastOfTurn
<1> QED
    BY <1>4, <1>5, <1>6, <1>8, TurnMoves

LEMMA SaveSnapshotInv ==
    ASSUME ConfigInv, SchemaTypeOK', NEW t \in Threads, SaveSnapshot(t)
    PROVE  ConfigInv'
<1> DEFINE config == run[t].config
           row == [turn |-> run[t].turn, alias |-> run[t].alias, config |-> config]
           r == IF ~HasKey(config) THEN EndTurn(t)
                ELSE IF run[t].node = "prepare"
                     THEN [run[t] EXCEPT !.config = None, !.pc = "select", !.node = "intent"]
                     ELSE [run[t] EXCEPT !.config = None, !.pc = "call"]
<1>1. run[t] \in Turn /\ run \in [Threads -> Turn] /\ TurnInv(t) /\ ConfigTypeOK /\ run[t].pc = "save"
    BY DEF ConfigInv, ConfigTypeOK, SaveSnapshot
<1>2. Suits(config, run[t].alias)
    BY <1>1 DEF TurnInv
<1>3. row \in Snapshot
    BY <1>1, <1>2 DEF Turn, Snapshot, Suits
<1>4. /\ snapshots' = [snapshots EXCEPT ![t] = Append(@, row)]
      /\ run' = [run EXCEPT ![t] = r]
      /\ UNCHANGED <<profiles, edits, snapshotId, replies>>
    BY DEF SaveSnapshot
<1>5. /\ r \in Turn /\ r.pc \in {"idle", "select", "call"} /\ r.turn = run[t].turn
      /\ r.called \in {0, run[t].called} /\ (r.pc = "call" => r.node # "prepare")
    BY <1>1 DEF Turn, EndTurn, Idle, ResolvingNodes
<1>6. run'[t] = r
    BY <1>1, <1>4
<1>7. snapshots[t] \in Seq(Snapshot) /\ snapshots'[t] = Append(snapshots[t], row)
    BY <1>1, <1>4 DEF ConfigTypeOK
<1>8. row.turn = run[t].turn /\ row.alias = run[t].alias /\ row.config = config
    OBVIOUS
<1> HIDE DEF r, row, config
<1>9. /\ Len(snapshots'[t]) = Len(snapshots[t]) + 1
      /\ snapshots'[t][Len(snapshots'[t])] = row
      /\ \A k \in DOMAIN snapshots[t] : k \in DOMAIN snapshots'[t] /\ snapshots'[t][k] = snapshots[t][k]
      /\ \A k \in DOMAIN snapshots'[t] : k = Len(snapshots'[t]) \/ k \in DOMAIN snapshots[t]
      /\ Len(snapshots'[t]) \in DOMAIN snapshots'[t]
    BY <1>3, <1>7
<1>10. TurnInv(t)'
  <2>1. (run[t].pc = "call" => run[t].node # "prepare" /\ LastOfTurn(t, Len(snapshots[t])))'
      BY <1>5, <1>6, <1>8, <1>9 DEF LastOfTurn
  <2>2. (run[t].called # 0 => run[t].called = snapshotId[t] /\ LastOfTurn(t, run[t].called))'
      BY <1>1, <1>4, <1>5, <1>6, <1>9 DEF LastOfTurn, TurnInv
  <2> QED
      BY <1>5, <1>6, <2>1, <2>2 DEF TurnInv
<1>11. \A u \in Threads : u # t => run'[u] = run[u] /\ snapshots'[u] = snapshots[u]
    BY <1>1, <1>4 DEF ConfigTypeOK
<1>12. \A u \in Threads : TurnInv(u)'
    BY <1>4, <1>10, <1>11, KeepTurn DEF ConfigInv
<1>13. ConfigTypeOK'
  <2>1. Append(snapshots[t], row) \in Seq(Snapshot)
      BY <1>3, <1>7
  <2>2. (snapshots \in [Threads -> Seq(Snapshot)])'
      BY <1>1, <1>4, <2>1 DEF ConfigTypeOK
  <2>3. (run \in [Threads -> Turn])'
      BY <1>1, <1>4, <1>5
  <2> QED
      BY <1>1, <1>4, <2>2, <2>3 DEF ConfigTypeOK
<1>14. ReplySnapshotIsLastCall'
  <2> SUFFICES ASSUME NEW q \in replies
               PROVE  /\ q.snapshot = q.called
                      /\ q.snapshot \in DOMAIN snapshots'[q.thread]
                      /\ snapshots'[q.thread][q.snapshot].turn = q.turn
      BY <1>4 DEF ReplySnapshotIsLastCall
  <2>1. /\ q.snapshot = q.called
        /\ q.snapshot \in DOMAIN snapshots[q.thread]
        /\ snapshots[q.thread][q.snapshot].turn = q.turn
      BY DEF ConfigInv, ReplySnapshotIsLastCall
  <2>2. q.thread \in Threads
      BY <1>1 DEF ConfigTypeOK, Threads
  <2> QED
      BY <1>9, <1>11, <2>1, <2>2
<1>15. AliasNotReplaced'
  <2> SUFFICES ASSUME NEW u \in Threads, NEW k \in DOMAIN snapshots'[u], snapshots'[u][k].alias # None
               PROVE  snapshots'[u][k].config.profile \in {snapshots'[u][k].alias, None}
      BY DEF AliasNotReplaced
  <2>1. CASE k \in DOMAIN snapshots[u] /\ snapshots'[u][k] = snapshots[u][k]
      BY <2>1 DEF ConfigInv, AliasNotReplaced
  <2>2. CASE u = t /\ k = Len(snapshots'[t])
      BY <1>2, <1>8, <1>9, <2>2 DEF Suits
  <2> QED
      BY <1>9, <1>11, <2>1, <2>2
<1> QED
    BY <1>12, <1>13, <1>14, <1>15 DEF ConfigInv

LEMMA CallModelInv ==
    ASSUME ConfigInv, SchemaTypeOK', NEW t \in Threads, CallModel(t)
    PROVE  ConfigInv'
<1>1. /\ run[t] \in Turn /\ run \in [Threads -> Turn] /\ TurnInv(t) /\ ConfigTypeOK
      /\ run[t].pc = "call" /\ snapshots[t] \in Seq(Snapshot)
    BY DEF ConfigInv, ConfigTypeOK, CallModel
<1>2. run[t].node # "prepare" /\ LastOfTurn(t, Len(snapshots[t]))
    BY <1>1 DEF TurnInv
<1>3. PICK next \in NodesAfter(run[t].node) :
          run' = [run EXCEPT ![t] =
              IF next = "end" /\ t \in StudioThreads THEN EndTurn(t)
              ELSE IF next = "end" THEN [@ EXCEPT !.pc = "persist", !.called = Len(snapshots[t])]
              ELSE [@ EXCEPT !.pc = Resolving(t), !.node = next, !.called = Len(snapshots[t])]]
    BY DEF CallModel
<1>4. next \in {"end"} \cup (ResolvingNodes \ {"prepare"})
    BY <1>1, <1>2 DEF NodesAfter, Turn, ResolvingNodes
<1> DEFINE r == IF next = "end" /\ t \in StudioThreads THEN EndTurn(t)
                ELSE IF next = "end" THEN [run[t] EXCEPT !.pc = "persist", !.called = Len(snapshots[t])]
                ELSE [run[t] EXCEPT !.pc = Resolving(t), !.node = next, !.called = Len(snapshots[t])]
<1>5. r \in Turn /\ r.pc \in {"idle", "ensure", "select", "persist"} /\ r.turn = run[t].turn
  <2>1. Len(snapshots[t]) \in Nat
      BY <1>1
  <2>2. CASE next = "end" /\ t \in StudioThreads
      BY <1>1, <2>2, EndedTurn DEF EndTurn, Idle
  <2>3. CASE next = "end" /\ t \notin StudioThreads
      BY <1>1, <2>1, <2>3 DEF Turn
  <2>4. CASE next # "end"
      BY <1>1, <1>4, <2>1, <2>4 DEF Turn, Resolving, ResolvingNodes
  <2> QED
      BY <2>2, <2>3, <2>4
<1>6. r.called \in {0, Len(snapshots[t])} /\ (r.pc = "persist" => t \in ApiThreads /\ r.called = Len(snapshots[t]))
  <2>1. CASE next = "end" /\ t \in StudioThreads
      BY <1>1, <2>1, EndedTurn
  <2>2. CASE next = "end" /\ t \notin StudioThreads
      BY <1>1, <2>2 DEF Turn, Threads
  <2>3. CASE next # "end"
      BY <1>1, <2>3 DEF Turn, Resolving
  <2> QED
      BY <2>1, <2>2, <2>3
<1>7. /\ run' = [run EXCEPT ![t] = r]
      /\ snapshotId' = [snapshotId EXCEPT ![t] = Len(snapshots[t])]
      /\ UNCHANGED <<profiles, edits, snapshots, replies>>
    BY <1>3 DEF CallModel, WrittenId
<1> HIDE DEF r
<1>8. run'[t] = r /\ snapshotId'[t] = Len(snapshots[t])
    BY <1>1, <1>7 DEF ConfigTypeOK
<1>9. Len(snapshots[t]) \in Nat \ {0}
    BY <1>1, <1>2 DEF LastOfTurn
<1>10. TurnInv(t)'
    BY <1>2, <1>5, <1>6, <1>7, <1>8, <1>9 DEF TurnInv, LastOfTurn
<1>11. \A u \in Threads : TurnInv(u)'
  <2> SUFFICES ASSUME NEW u \in Threads, u # t PROVE TurnInv(u)'
      BY <1>10
  <2>1. run'[u] = run[u] /\ snapshotId'[u] = snapshotId[u]
      BY <1>1, <1>7 DEF ConfigTypeOK
  <2> QED
      BY <1>7, <2>1, KeepTurn DEF ConfigInv
<1>12. ConfigTypeOK'
  <2>1. (snapshotId \in [Threads -> Nat])'
      BY <1>1, <1>7, <1>9 DEF ConfigTypeOK
  <2>2. (run \in [Threads -> Turn])'
      BY <1>1, <1>5, <1>7
  <2> QED
      BY <1>1, <1>7, <2>1, <2>2 DEF ConfigTypeOK
<1>13. ReplySnapshotIsLastCall' /\ AliasNotReplaced'
    BY <1>7 DEF ConfigInv, ReplySnapshotIsLastCall, AliasNotReplaced
<1> QED
    BY <1>11, <1>12, <1>13 DEF ConfigInv

LEMMA PersistInv ==
    ASSUME ConfigInv, SchemaTypeOK', NEW t \in Threads, PersistAssistantResult(t)
    PROVE  ConfigInv'
<1> DEFINE q == [thread |-> t, turn |-> run[t].turn, snapshot |-> snapshotId[t], called |-> run[t].called]
<1>1. /\ run[t] \in Turn /\ run \in [Threads -> Turn] /\ TurnInv(t) /\ ConfigTypeOK
      /\ run[t].pc = "persist"
    BY DEF ConfigInv, ConfigTypeOK, PersistAssistantResult
<1>2. t \in ApiThreads /\ run[t].called = snapshotId[t] /\ LastOfTurn(t, run[t].called)
    BY <1>1 DEF TurnInv
<1>3. q \in [thread : ApiThreads, turn : Nat, snapshot : Nat, called : Nat]
    BY <1>1, <1>2 DEF ConfigTypeOK, Turn
<1>4. /\ run' = [run EXCEPT ![t] = EndTurn(t)] /\ replies' = replies \cup {q}
      /\ UNCHANGED <<profiles, edits, snapshots, snapshotId>>
    BY DEF PersistAssistantResult
<1>5. EndTurn(t) \in Turn /\ EndTurn(t).called = 0 /\ EndTurn(t).pc = "idle"
    BY <1>1, EndedTurn
<1>6. ConfigTypeOK'
    BY <1>1, <1>3, <1>4, <1>5 DEF ConfigTypeOK
<1>7. \A u \in Threads : TurnInv(u)'
  <2>1. TurnInv(t)'
      BY <1>1, <1>4, <1>5 DEF TurnInv
  <2> SUFFICES ASSUME NEW u \in Threads, u # t PROVE TurnInv(u)'
      BY <2>1
  <2>2. run'[u] = run[u]
      BY <1>1, <1>4
  <2> QED
      BY <1>4, <2>2, KeepTurn DEF ConfigInv
<1>8. ReplySnapshotIsLastCall'
    BY <1>2, <1>4 DEF ConfigInv, ReplySnapshotIsLastCall, LastOfTurn
<1>9. AliasNotReplaced'
    BY <1>4 DEF ConfigInv, AliasNotReplaced
<1> QED
    BY <1>6, <1>7, <1>8, <1>9 DEF ConfigInv

LEMMA EditProfileInv ==
    ASSUME ConfigInv, SchemaTypeOK', NEW p \in Profiles, EditProfile(p)
    PROVE  ConfigInv'
<1>1. PICK row \in [active : BOOLEAN, default : BOOLEAN, version : {edits + 1}] \cup {None} :
          profiles' = [profiles EXCEPT ![p] = row]
    BY DEF EditProfile
<1>2. edits' = edits + 1 /\ edits < MaxEdits /\ UNCHANGED <<snapshots, run, snapshotId, replies>>
    BY DEF EditProfile
<1>3. edits' \in 0..MaxEdits
    BY <1>2, ConfigAssumption DEF ConfigInv, ConfigTypeOK
<1>4. row \in Profile \cup {None}
    BY <1>2, <1>3 DEF Profile
<1>5. ConfigTypeOK'
    BY <1>1, <1>2, <1>3, <1>4 DEF ConfigInv, ConfigTypeOK
<1>6. \A u \in Threads : TurnInv(u)'
    BY <1>2, KeepTurn DEF ConfigInv
<1>7. ReplySnapshotIsLastCall' /\ AliasNotReplaced'
    BY <1>2 DEF ConfigInv, ReplySnapshotIsLastCall, AliasNotReplaced
<1> QED
    BY <1>5, <1>6, <1>7 DEF ConfigInv

LEMMA RestartTurnsInv ==
    ASSUME ConfigInv, SchemaTypeOK', RestartTurns
    PROVE  ConfigInv'
<1>1. /\ run' = [t \in Threads |-> IF t \in StudioThreads THEN EndTurn(t) ELSE run[t]]
      /\ UNCHANGED <<profiles, edits, snapshots, snapshotId, replies>>
    BY DEF RestartTurns
<1>2. run \in [Threads -> Turn]
    BY DEF ConfigInv, ConfigTypeOK
<1>3. \A t \in Threads : EndTurn(t) \in Turn /\ EndTurn(t).called = 0 /\ EndTurn(t).pc = "idle"
    BY <1>2, EndedTurn
<1>4. ConfigTypeOK'
  <2>1. (run \in [Threads -> Turn])'
      BY <1>1, <1>2, <1>3
  <2> QED
      BY <1>1, <2>1 DEF ConfigInv, ConfigTypeOK
<1>5. \A u \in Threads : TurnInv(u)'
  <2> SUFFICES ASSUME NEW u \in Threads PROVE TurnInv(u)'
      OBVIOUS
  <2>1. CASE u \in StudioThreads
      BY <1>1, <1>3, <2>1 DEF TurnInv
  <2>2. CASE u \notin StudioThreads
      BY <1>1, <2>2, KeepTurn DEF ConfigInv
  <2> QED
      BY <2>1, <2>2
<1>6. ReplySnapshotIsLastCall' /\ AliasNotReplaced'
    BY <1>1 DEF ConfigInv, ReplySnapshotIsLastCall, AliasNotReplaced
<1> QED
    BY <1>4, <1>5, <1>6 DEF ConfigInv

LEMMA NothingMoves ==
    ASSUME ConfigInv, SchemaTypeOK', UNCHANGED configVars
    PROVE  ConfigInv'
<1> USE DEF configVars, ConfigInv
<1>1. ConfigTypeOK'
    BY DEF ConfigTypeOK
<1>2. \A u \in Threads : TurnInv(u)'
    BY KeepTurn
<1>3. ReplySnapshotIsLastCall' /\ AliasNotReplaced'
    BY DEF ReplySnapshotIsLastCall, AliasNotReplaced
<1> QED
    BY <1>1, <1>2, <1>3

LEMMA ConfigNextInv == ConfigInv /\ SchemaInv /\ [ConfigNext]_allVars => ConfigInv'
<1> SUFFICES ASSUME ConfigInv, SchemaInv, [ConfigNext]_allVars PROVE ConfigInv'
    OBVIOUS
<1>1. SchemaTypeOK'
    BY GateKeepsType
<1>2. ASSUME NEW t \in Threads, TurnStep(t) PROVE ConfigInv'
  <2>1. CASE PassGate(t)
      BY <1>1, <2>1, PassGateInv
  <2>2. CASE MeetTables(t)
      BY <1>1, <2>2, TurnEnds DEF MeetTables
  <2>3. CASE SelectProfile(t)
      BY <1>1, <2>3, SelectProfileInv
  <2>4. CASE SaveSnapshot(t)
      BY <1>1, <2>4, SaveSnapshotInv
  <2>5. CASE MissProfile(t)
      BY <1>1, <2>5, TurnEnds DEF MissProfile
  <2>6. CASE CallModel(t)
      BY <1>1, <2>6, CallModelInv
  <2>7. CASE PersistAssistantResult(t)
      BY <1>1, <2>7, PersistInv
  <2> QED
      BY <1>2, <2>1, <2>2, <2>3, <2>4, <2>5, <2>6, <2>7 DEF TurnStep
<1>3. ASSUME NEW t \in Threads, BeginTurn(t) PROVE ConfigInv'
    BY <1>1, <1>3, BeginTurnInv
<1>4. ASSUME NEW t \in Threads, FailTurn(t) PROVE ConfigInv'
    BY <1>1, <1>4, TurnEnds DEF FailTurn
<1>5. ASSUME NEW p \in Profiles, EditProfile(p) PROVE ConfigInv'
    BY <1>1, <1>5, EditProfileInv
<1>6. CASE RestartTurns
    BY <1>1, <1>6, RestartTurnsInv
<1>7. CASE Elsewhere
    BY <1>1, <1>7, NothingMoves DEF Elsewhere
<1>8. CASE UNCHANGED allVars
    BY <1>1, <1>8, NothingMoves DEF allVars, configVars
<1> QED
    BY <1>2, <1>3, <1>4, <1>5, <1>6, <1>7, <1>8 DEF ConfigNext

LEMMA ConfigInvariant == ConfigSpec => []ConfigInv
<1>1. SchemaSpec => []SchemaInv
    BY SchemaInvariant
<1> QED
    BY <1>1, ConfigImplementsSchema, ConfigInitInv, ConfigNextInv, PTL DEF ConfigSpec

\* The rows of profiles, snapshots, turns and replies have their types.
THEOREM ConfigTypeCorrect == ConfigSpec => []ConfigTypeOK
<1>1. ConfigInv => ConfigTypeOK
    BY DEF ConfigInv
<1> QED
    BY <1>1, ConfigInvariant, PTL

\* The snapshot stored with a reply is the one its last model call was given,
\* whatever nodes the turn went through and whatever turns came before.
THEOREM RepliesNameLastCall == ConfigSpec => []ReplySnapshotIsLastCall
<1>1. ConfigInv => ReplySnapshotIsLastCall
    BY DEF ConfigInv
<1> QED
    BY <1>1, ConfigInvariant, PTL

\* A request that names an alias is never answered by another profile's model,
\* however the profiles change while it runs.
THEOREM AliasKept == ConfigSpec => []AliasNotReplaced
<1>1. ConfigInv => AliasNotReplaced
    BY DEF ConfigInv
<1> QED
    BY <1>1, ConfigInvariant, PTL
=============================================================================
