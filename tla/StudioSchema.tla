----------------------------- MODULE StudioSchema -----------------------------
(***************************************************************************)
(* How the tables come to exist before they are read.  The API process     *)
(* creates them in its lifespan, before it takes requests.  LangGraph      *)
(* Studio imports the graph without that lifespan: each call that resolves *)
(* a model configuration passes _ensure_schema first, a flag tested before *)
(* and again under an asyncio.Lock.  Both processes run                    *)
(* initialize_agent_schema, one transaction that looks which tables exist  *)
(* and creates the others; if another process commits them in between,     *)
(* CREATE TABLE raises.                                                    *)
(***************************************************************************)
CONSTANTS
    Calls,      \* coroutines of the Studio process that resolve a configuration
    None        \* nobody

VARIABLES
    tables,     \* the tables are committed
    flag,       \* _schema_initialized
    lock,       \* who holds _schema_lock
    gate,       \* where each call is in _ensure_schema: "out", "waiting",
                \* "create", "creating", or "in" when it has returned
    seen,       \* what the open create_all of a call found
    app         \* the API process: "down", "creating" or "up"

schemaVars == <<tables, flag, lock, gate, seen, app>>

ASSUME SchemaAssumption == None \notin Calls

SchemaInit ==
    /\ tables \in BOOLEAN
    /\ flag = FALSE
    /\ lock = None
    /\ gate = [c \in Calls |-> "out"]
    /\ seen = [c \in Calls |-> FALSE]
    /\ app = "down"

LockFree == lock = None /\ \A c \in Calls : gate[c] # "waiting"

\* The test before the lock.  A lock that nobody holds or waits for is taken
\* without giving up control.
EnsureSchema(c) ==
    /\ gate[c] = "out"
    /\ gate' = [gate EXCEPT ![c] = IF flag THEN "in" ELSE IF LockFree THEN "create" ELSE "waiting"]
    /\ lock' = IF ~flag /\ LockFree THEN c ELSE lock
    /\ UNCHANGED <<tables, flag, seen, app>>

\* Mutant: the flag is not tested again under the lock.
AcquireUntested(c) ==
    /\ gate[c] = "waiting" /\ lock = None
    /\ gate' = [gate EXCEPT ![c] = "create"]
    /\ lock' = c
    /\ UNCHANGED <<tables, flag, seen, app>>

\* A waiting call gets the lock and tests the flag again; if it is set by now, the lock
\* is given back before anything else can run.
Acquire(c) ==
    /\ gate[c] = "waiting" /\ lock = None
    /\ gate' = [gate EXCEPT ![c] = IF flag THEN "in" ELSE "create"]
    /\ lock' = IF flag THEN None ELSE c
    /\ UNCHANGED <<tables, flag, seen, app>>

\* Mutant: the flag is set before the tables are created.
LookAtTablesEarly(c) ==
    /\ gate[c] = "create"
    /\ gate' = [gate EXCEPT ![c] = "creating"]
    /\ seen' = [seen EXCEPT ![c] = tables]
    /\ flag' = TRUE
    /\ UNCHANGED <<tables, lock, app>>

\* create_all opens its transaction and looks which tables exist.
LookAtTables(c) ==
    /\ gate[c] = "create"
    /\ gate' = [gate EXCEPT ![c] = "creating"]
    /\ seen' = [seen EXCEPT ![c] = tables]
    /\ UNCHANGED <<tables, flag, lock, app>>

\* The transaction commits, the flag is set and the lock released.
CommitTables(c) ==
    /\ gate[c] = "creating"
    /\ tables => seen[c]
    /\ tables' = TRUE
    /\ flag' = TRUE
    /\ lock' = None
    /\ gate' = [gate EXCEPT ![c] = "in"]
    /\ seen' = [seen EXCEPT ![c] = FALSE]
    /\ UNCHANGED app

\* Mutant: a creation that raises keeps the lock.
AbandonHolding(c) ==
    /\ gate[c] # "out"
    /\ gate' = [gate EXCEPT ![c] = "out"]
    /\ \/ tables' = tables
       \/ gate[c] = "creating" /\ tables' = TRUE
    /\ seen' = [seen EXCEPT ![c] = FALSE]
    /\ UNCHANGED <<flag, lock, app>>

\* The call is cancelled, its creation fails, or it raises after the gate; a
\* commit whose acknowledgement was lost has created the tables all the same.
Abandon(c) ==
    /\ gate[c] # "out"
    /\ gate' = [gate EXCEPT ![c] = "out"]
    /\ lock' = IF lock = c THEN None ELSE lock
    /\ \/ tables' = tables
       \/ gate[c] = "creating" /\ tables' = TRUE
    /\ seen' = [seen EXCEPT ![c] = FALSE]
    /\ UNCHANGED <<flag, app>>

\* The configuration is resolved and the call is done with the gate.
Leave(c) ==
    /\ gate[c] = "in"
    /\ gate' = [gate EXCEPT ![c] = "out"]
    /\ UNCHANGED <<tables, flag, lock, seen, app>>

\* The Studio process starts again: its flag, lock and calls are gone.
RestartStudio ==
    /\ flag' = FALSE
    /\ lock' = None
    /\ gate' = [c \in Calls |-> "out"]
    /\ \/ tables' = tables
       \/ (\E c \in Calls : gate[c] = "creating") /\ tables' = TRUE
    /\ seen' = [c \in Calls |-> FALSE]
    /\ UNCHANGED app

\* The lifespan of the API process: it looks, and creates what it missed.
StartApp ==
    /\ app = "down"
    /\ app' = IF tables THEN "up" ELSE "creating"
    /\ UNCHANGED <<tables, flag, lock, gate, seen>>

\* Mutant: requests are taken although the creation has failed.
FinishAppAnyway ==
    /\ app = "creating"
    /\ app' = "up"
    /\ UNCHANGED <<tables, flag, lock, gate, seen>>

\* Its transaction commits, or fails: Studio was first, or the database is gone.
FinishApp ==
    /\ app = "creating"
    /\ \/ ~tables /\ tables' = TRUE /\ app' = "up"
       \/ tables' = tables /\ app' = "down"
    /\ UNCHANGED <<flag, lock, gate, seen>>

SchemaNext ==
    \/ \E c \in Calls :
           \/ EnsureSchema(c) \/ Acquire(c) \/ LookAtTables(c) \/ CommitTables(c)
           \/ Abandon(c) \/ Leave(c)
    \/ RestartStudio \/ StartApp \/ FinishApp

SchemaSpec == SchemaInit /\ [][SchemaNext]_schemaVars
-----------------------------------------------------------------------------
SchemaTypeOK ==
    /\ tables \in BOOLEAN /\ flag \in BOOLEAN
    /\ lock \in Calls \cup {None}
    /\ gate \in [Calls -> {"out", "waiting", "create", "creating", "in"}]
    /\ seen \in [Calls -> BOOLEAN]
    /\ app \in {"down", "creating", "up"}

Creating(c) == gate[c] \in {"create", "creating"}

\* Nothing reads a table that does not exist: who has passed _ensure_schema and
\* who is served by the API finds the tables, whichever process created them
\* and whatever failed or was started again in between.
SchemaBeforeUse == flag \/ app = "up" \/ (\E c \in Calls : gate[c] = "in") => tables

\* At most one coroutine of the Studio process is creating tables, and none
\* once the process knows that they are there.
OneInitialiser ==
    \A c \in Calls : Creating(c) => ~flag /\ \A d \in Calls : Creating(d) => d = c
=============================================================================
