-------------------------- MODULE ConversationStore --------------------------
(***************************************************************************)
(* ConversationRepository over PostgreSQL: every call of the repository is *)
(* one short READ COMMITTED transaction, and many calls run at once.       *)
(*                                                                         *)
(* A call stamps its time before it opens the transaction, upserts the     *)
(* thread row (which takes the row's lock until the transaction ends),     *)
(* inserts its own row and, for a message, bumps the thread's counter.     *)
(* Nothing of it is visible before the commit.  A call that fails rolls    *)
(* everything back.  The application's clock never runs backwards.         *)
(***************************************************************************)
EXTENDS Integers, FiniteSets

CONSTANTS
    Threads,    \* thread ids
    Users,      \* user ids
    CallsOf,    \* bound: the calls each user may make
    Calls,      \* calls of the repository, each made at most once; the id of a
                \* call is also the uuid of the row it inserts
    Times,      \* the readings of the clock the model tells apart
    None,       \* NULL
    Foreign     \* a uuid that is no row of conversation_messages

VARIABLES
    clock,      \* the clock of the application, as last read
    threads,    \* conversation_threads, as committed
    messages,   \* conversation_messages, as committed
    summaries,  \* conversation_summaries, as committed
    holder,     \* thread id -> the call whose transaction holds its row lock
    pc,         \* how far each call has come
    arg,        \* the arguments of each call that has begun
    stamp,      \* the "now" each running call read before its transaction, else 0
    draft       \* the thread row as each open transaction sees it, else None

vars == <<clock, threads, messages, summaries, holder, pc, arg, stamp, draft>>

ThreadRow == [user : Users, last : Times \cup {None}, count : Nat]

Append == [op : {"append"}, thread : Threads, user : Users, covers : {None}]

Summarize ==
    [op : {"summary"}, thread : Threads, user : Users, covers : Calls \cup {None, Foreign}]

ASSUME StoreAssumption ==
    /\ None \notin Calls /\ Foreign \notin Calls /\ None # Foreign
    /\ Times \subseteq Nat /\ 0 \in Times /\ None \notin Times
    /\ None \notin ThreadRow
    /\ CallsOf \in [Users -> SUBSET Calls]

NoRow == [t \in Threads |-> None]

Init ==
    /\ clock = 0
    /\ threads = NoRow
    /\ messages = {}
    /\ summaries = {}
    /\ holder = NoRow
    /\ pc = [c \in Calls |-> "idle"]
    /\ arg = [c \in Calls |-> None]
    /\ stamp = [c \in Calls |-> 0]
    /\ draft = [c \in Calls |-> None]

\* The rows a call would insert.
MessageRow(c) ==
    [id |-> c, thread |-> arg[c].thread, user |-> arg[c].user, at |-> stamp[c]]

SummaryRow(c) ==
    [id |-> c, thread |-> arg[c].thread, user |-> arg[c].user, covers |-> arg[c].covers]

\* Mutant: the inserted row gets no default for message_count.
UpsertRowNoDefault(row, user, last) ==
    [user  |-> user,
     last  |-> IF last # None THEN last ELSE IF row = None THEN None ELSE row.last,
     count |-> IF row = None THEN None ELSE row.count]

\* ON CONFLICT DO UPDATE: the row is inserted with count 0, or handed to user;
\* last_message_at is written only when the caller gives one.
UpsertRow(row, user, last) ==
    [user  |-> user,
     last  |-> IF last # None THEN last ELSE IF row = None THEN None ELSE row.last,
     count |-> IF row = None THEN 0 ELSE row.count]

\* Mutant: filing a summary counts as activity.
LastMessageAtAlways(c) == stamp[c]

LastMessageAt(c) == IF arg[c].op = "append" THEN stamp[c] ELSE None

\* message_count + 1 is computed by the database from the row under the lock.
CountedRow(row, at) == [user |-> row.user, last |-> at, count |-> row.count + 1]

\* Mutants: no row lock at all; a lock only on rows that already exist
\* (SELECT, then INSERT, instead of the upsert).
RowLockFreeAlways(t) == TRUE

RowLockFreeUntilCreated(t) == threads[t] = None \/ holder[t] = None

RowLockFree(t) == holder[t] = None

\* The foreign key of covered_through_message_id.
ForeignKeyHolds(c) ==
    arg[c].covers # None => \E m \in messages : m.id = arg[c].covers

-----------------------------------------------------------------------------
\* POST /conversations: a thread with a new uuid, inserted in one statement.
CreateThread(t, u) ==
    /\ threads[t] = None
    /\ \A c \in Calls : pc[c] # "idle" => arg[c].thread # t
    /\ threads' = [threads EXCEPT ![t] = [user |-> u, last |-> None, count |-> 0]]
    /\ UNCHANGED <<clock, messages, summaries, holder, pc, arg, stamp, draft>>

\* A call starts: its "now" is read here, before any lock is asked for.
BeginCall(c, a) ==
    /\ pc[c] = "idle" /\ c \in CallsOf[a.user]
    /\ pc' = [pc EXCEPT ![c] = "stamped"]
    /\ arg' = [arg EXCEPT ![c] = a]
    /\ \E now \in Times : /\ now >= clock
                           /\ clock' = now
                           /\ stamp' = [stamp EXCEPT ![c] = now]
    /\ UNCHANGED <<threads, messages, summaries, holder, draft>>

BeginAppend(c) == \E a \in Append : BeginCall(c, a)

\* A summary covers a stored message of its thread, or an id that only the
\* agent's checkpoint knows, or nothing.
BeginSummary(c) ==
    \E a \in Summarize :
        /\ a.covers \in Calls => \E m \in messages : m.id = a.covers /\ m.thread = a.thread
        /\ BeginCall(c, a)

Upsert(c) ==
    LET t == arg[c].thread IN
    /\ pc[c] = "stamped"
    /\ RowLockFree(t)
    /\ holder' = [holder EXCEPT ![t] = c]
    /\ draft' = [draft EXCEPT ![c] = UpsertRow(threads[t], arg[c].user, LastMessageAt(c))]
    /\ pc' = [pc EXCEPT ![c] = "upserted"]
    /\ UNCHANGED <<clock, threads, messages, summaries, arg, stamp>>

\* Mutant: the row is committed by its flush, the counter follows later.
InsertRowAutocommit(c) ==
    /\ pc[c] = "upserted"
    /\ ForeignKeyHolds(c)
    /\ pc' = [pc EXCEPT ![c] = "inserted"]
    /\ messages' = IF arg[c].op = "append" THEN messages \cup {MessageRow(c)} ELSE messages
    /\ UNCHANGED <<clock, threads, summaries, holder, arg, stamp, draft>>

\* session.add(row); flush: the row exists inside the transaction.
InsertRow(c) ==
    /\ pc[c] = "upserted"
    /\ ForeignKeyHolds(c)
    /\ pc' = [pc EXCEPT ![c] = "inserted"]
    /\ UNCHANGED <<clock, threads, messages, summaries, holder, arg, stamp, draft>>

CountMessage(c) ==
    /\ pc[c] = "inserted"
    /\ arg[c].op = "append"
    /\ draft' = [draft EXCEPT ![c] = CountedRow(@, stamp[c])]
    /\ pc' = [pc EXCEPT ![c] = "counted"]
    /\ UNCHANGED <<clock, threads, messages, summaries, holder, arg, stamp>>

\* The locals of a call end with it.
EndCall(c) ==
    /\ stamp' = [stamp EXCEPT ![c] = 0]
    /\ draft' = [draft EXCEPT ![c] = None]

Publish(c) ==
    LET t == arg[c].thread IN
    /\ threads' = [threads EXCEPT ![t] = draft[c]]
    /\ holder' = [holder EXCEPT ![t] = None]
    /\ pc' = [pc EXCEPT ![c] = "committed"]
    /\ EndCall(c)
    /\ UNCHANGED <<clock, arg>>

CommitMessage(c) ==
    /\ pc[c] = "counted"
    /\ messages' = messages \cup {MessageRow(c)}
    /\ Publish(c)
    /\ UNCHANGED summaries

CommitSummary(c) ==
    /\ pc[c] = "inserted"
    /\ arg[c].op = "summary"
    /\ summaries' = summaries \cup {SummaryRow(c)}
    /\ Publish(c)
    /\ UNCHANGED messages

\* Mutant: a failed transaction keeps its lock.
ReleasedNothing(c) == holder

\* The locks a rollback leaves.
Released(c) == [t \in Threads |-> IF holder[t] = c THEN None ELSE holder[t]]

Rollback(c) ==
    /\ holder' = Released(c)
    /\ pc' = [pc EXCEPT ![c] = "failed"]
    /\ EndCall(c)
    /\ UNCHANGED <<clock, threads, messages, summaries, arg>>

\* The database refuses the foreign key.
RejectSummary(c) == pc[c] = "upserted" /\ ~ForeignKeyHolds(c) /\ Rollback(c)

\* A lost connection, a cancelled request or a crash between two statements.
Abort(c) == pc[c] \in {"stamped", "upserted", "inserted", "counted"} /\ Rollback(c)

\* What the event loop and the database do on their own for a running call.
Progress(c) ==
    Upsert(c) \/ InsertRow(c) \/ CountMessage(c) \/ CommitMessage(c) \/ CommitSummary(c)
        \/ RejectSummary(c)

Done == (\A c \in Calls : pc[c] \in {"committed", "failed"}) /\ UNCHANGED vars

Next ==
    \/ \E t \in Threads, u \in Users : CreateThread(t, u)
    \/ \E c \in Calls : BeginAppend(c) \/ BeginSummary(c) \/ Progress(c) \/ Abort(c)
    \/ Done

Spec == Init /\ [][Next]_vars

\* Every coroutine the loop runs is eventually resumed, every statement is
\* answered and every free lock is granted.  As a call is made at most once,
\* a waiting call cannot be overtaken for ever and weak fairness is enough.
Fairness == \A c \in Calls : WF_vars(Progress(c))

FairSpec == Spec /\ Fairness
-----------------------------------------------------------------------------
InTransaction(c) == pc[c] \in {"upserted", "inserted", "counted"}

\* Every table and local keeps its shape, and a thread row always has a number
\* for message_count (the column is NOT NULL).
TypeOK ==
    /\ clock \in Times
    /\ threads \in [Threads -> ThreadRow \cup {None}]
    /\ messages \subseteq [id : Calls, thread : Threads, user : Users, at : Times]
    /\ summaries \subseteq
           [id : Calls, thread : Threads, user : Users, covers : Calls \cup {None, Foreign}]
    /\ holder \in [Threads -> Calls \cup {None}]
    /\ pc \in [Calls -> {"idle", "stamped", "upserted", "inserted", "counted",
                         "committed", "failed"}]
    /\ arg \in [Calls -> Append \cup Summarize \cup {None}]
    /\ stamp \in [Calls -> Times]
    /\ draft \in [Calls -> ThreadRow \cup {None}]

MessagesOf(t) == {m \in messages : m.thread = t}

\* The redundant message_count of a thread equals the number of its rows in
\* conversation_messages, whatever calls overlap, fail or are cancelled.
CountMatchesRows ==
    \A t \in Threads :
        IF threads[t] = None THEN MessagesOf(t) = {}
        ELSE threads[t].count = Cardinality(MessagesOf(t))

\* last_message_at, which the conversation list sorts by instead of scanning
\* conversation_messages, is the time of some message of that thread, and is
\* NULL exactly while the thread has none: filing a summary never touches it.
LastMessageAtIsAMessage ==
    \A t \in Threads :
        threads[t] # None =>
            IF threads[t].last = None THEN MessagesOf(t) = {}
            ELSE \E m \in MessagesOf(t) : m.at = threads[t].last

\* Two transactions never write one thread row at a time.
RowWritersExclude ==
    \A c, d \in Calls :
        InTransaction(c) /\ InTransaction(d) /\ arg[c].thread = arg[d].thread => c = d

\* last_message_at stands in for a scan of conversation_messages when the
\* conversation list is sorted (models.py says so): it would have to be the
\* latest time of the thread's messages.
LastMessageAtIsLatest ==
    \A t \in Threads : \A m \in MessagesOf(t) : threads[t].last >= m.at

\* Every call that begins ends, by commit or by rollback, even when another
\* call fails while it holds the thread's row lock.
EveryCallEnds ==
    \A c \in Calls : pc[c] = "stamped" ~> pc[c] \in {"committed", "failed"}

\* What the store promises: the committed tables are a ledger.
SummariesOf(t) == {s \in summaries : s.thread = t}

Book ==
    [t \in Threads |->
        [owner     |-> IF threads[t] = None THEN None ELSE threads[t].user,
         messages  |-> MessagesOf(t),
         summaries |-> SummariesOf(t),
         count     |-> IF threads[t] = None THEN 0 ELSE threads[t].count,
         last      |-> IF threads[t] = None THEN None ELSE threads[t].last]]

Ledger == INSTANCE ConversationLedger WITH Entries <- Calls, book <- Book

\* The store implements the ledger: every transaction takes effect at its
\* commit, at once, or not at all.
LedgerSpec == Ledger!Spec
=============================================================================
