----------------------- MODULE ConversationStoreProofs -----------------------
(***************************************************************************)
(* Proofs about ConversationStore, for any number of threads, users, calls *)
(* and clock readings: types, mutual exclusion of row writers, the         *)
(* redundant columns of the thread row, and the implementation of the      *)
(* ledger.                                                                 *)
(***************************************************************************)
EXTENDS ConversationStore, FiniteSetTheorems, TLAPS

\* A call has arguments from the moment it begins.
ArgsInv ==
    \A c \in Calls :
        /\ pc[c] # "idle" => arg[c] \in Append \cup Summarize
        /\ pc[c] = "counted" => arg[c].op = "append"

\* An open transaction holds the row lock of its thread.
LockInv == \A c \in Calls : InTransaction(c) => holder[arg[c].thread] = c

BaseCount(t) == IF threads[t] = None THEN 0 ELSE threads[t].count

BaseLast(t) == IF threads[t] = None THEN None ELSE threads[t].last

\* The thread row an open transaction sees is the committed row plus what the
\* transaction itself has done.
DraftOf(c) ==
    [user  |-> arg[c].user,
     last  |-> IF arg[c].op = "append" THEN stamp[c] ELSE BaseLast(arg[c].thread),
     count |-> IF pc[c] = "counted" THEN BaseCount(arg[c].thread) + 1
               ELSE BaseCount(arg[c].thread)]

DraftInv == \A c \in Calls : InTransaction(c) => draft[c] = DraftOf(c)

\* The committed messages are finitely many, and rows of committed calls only.
MessagesInv ==
    /\ IsFiniteSet(messages)
    /\ \A m \in messages : pc[m.id] = "committed"

\* A summary names a message of its own thread, and only one that is stored
\* once its row is in.
CoversInv ==
    \A c \in Calls :
        /\ pc[c] # "idle" /\ arg[c].covers \in Calls =>
               \E m \in messages : m.id = arg[c].covers /\ m.thread = arg[c].thread
        /\ pc[c] = "inserted" => ForeignKeyHolds(c)

StoreInv ==
    /\ TypeOK
    /\ ArgsInv
    /\ LockInv
    /\ DraftInv
    /\ MessagesInv
    /\ CoversInv
    /\ CountMatchesRows
    /\ LastMessageAtIsAMessage
-----------------------------------------------------------------------------
\* The invariant holds in the empty store.
LEMMA InitInv == Init => StoreInv
<1> SUFFICES ASSUME Init PROVE StoreInv
  OBVIOUS
<1> USE StoreAssumption DEF Init, NoRow
<1>1. TypeOK
  BY DEF TypeOK
<1>2. ArgsInv /\ LockInv /\ DraftInv /\ CoversInv
  BY DEF ArgsInv, LockInv, DraftInv, CoversInv, InTransaction
<1>3. MessagesInv
  BY FS_EmptySet DEF MessagesInv
<1>4. CountMatchesRows /\ LastMessageAtIsAMessage
  BY DEF CountMatchesRows, LastMessageAtIsAMessage, MessagesOf
<1> QED BY <1>1, <1>2, <1>3, <1>4 DEF StoreInv

\* The shapes of tables and locals survive every step.
LEMMA TypeStep == StoreInv /\ [Next]_vars => TypeOK'
<1> SUFFICES ASSUME StoreInv, [Next]_vars PROVE TypeOK'
  OBVIOUS
<1> USE StoreAssumption DEF StoreInv, TypeOK
<1>1. ASSUME NEW t \in Threads, NEW u \in Users, CreateThread(t, u) PROVE TypeOK'
  BY <1>1 DEF CreateThread, ThreadRow
<1>2. ASSUME NEW c \in Calls, BeginAppend(c) \/ BeginSummary(c) PROVE TypeOK'
  BY <1>2 DEF BeginAppend, BeginSummary, BeginCall
<1>3. ASSUME NEW c \in Calls, Upsert(c) PROVE TypeOK'
  <2>1. arg[c] \in Append \cup Summarize
    BY <1>3 DEF Upsert, ArgsInv
  <2>2. UpsertRow(threads[arg[c].thread], arg[c].user, LastMessageAt(c)) \in ThreadRow
    BY <2>1 DEF UpsertRow, LastMessageAt, ThreadRow, Append, Summarize
  <2> QED BY <1>3, <2>1, <2>2 DEF Upsert, Append, Summarize
<1>4. ASSUME NEW c \in Calls, InsertRow(c) PROVE TypeOK'
  BY <1>4 DEF InsertRow
<1>5. ASSUME NEW c \in Calls, CountMessage(c) PROVE TypeOK'
  <2>1. draft[c] \in ThreadRow
    <3>1. draft[c] = DraftOf(c) /\ arg[c] \in Append \cup Summarize
      BY <1>5 DEF CountMessage, DraftInv, ArgsInv, InTransaction
    <3>2. arg[c].op = "append" /\ pc[c] = "inserted"
      BY <1>5 DEF CountMessage
    <3> QED BY <3>1, <3>2 DEF DraftOf, BaseCount, BaseLast, ThreadRow, Append, Summarize
  <2>2. stamp[c] \in Times
    OBVIOUS
  <2>3. CountedRow(draft[c], stamp[c]) \in ThreadRow
    BY ONLY <2>1, <2>2 DEF CountedRow, ThreadRow
  <2> QED BY <1>5, <2>3 DEF CountMessage
<1>6. ASSUME NEW c \in Calls, CommitMessage(c) \/ CommitSummary(c) PROVE TypeOK'
  <2>1. arg[c] \in Append \cup Summarize
    BY <1>6 DEF CommitMessage, CommitSummary, ArgsInv
  <2>2. MessageRow(c) \in [id : Calls, thread : Threads, user : Users, at : Times]
    BY <2>1 DEF MessageRow, Append, Summarize
  <2>3. SummaryRow(c) \in [id : Calls, thread : Threads, user : Users,
                           covers : Calls \cup {None, Foreign}]
    BY <2>1 DEF SummaryRow, Append, Summarize
  <2> QED BY <1>6, <2>1, <2>2, <2>3 DEF CommitMessage, CommitSummary, Publish, EndCall
<1>7. ASSUME NEW c \in Calls, RejectSummary(c) \/ Abort(c) PROVE TypeOK'
  BY <1>7 DEF RejectSummary, Abort, Rollback, Released, EndCall
<1>8. CASE Done \/ UNCHANGED vars
  BY <1>8 DEF Done, vars
<1> QED BY <1>1, <1>2, <1>3, <1>4, <1>5, <1>6, <1>7, <1>8 DEF Next, Progress

\* Arguments stay, and a lock is granted to one transaction at a time.
LEMMA LockStep == StoreInv /\ [Next]_vars => ArgsInv' /\ LockInv'
<1> SUFFICES ASSUME StoreInv, [Next]_vars PROVE ArgsInv' /\ LockInv'
  OBVIOUS
<1> USE StoreAssumption DEF StoreInv, TypeOK, ArgsInv, LockInv, InTransaction
<1>1. ASSUME NEW t \in Threads, NEW u \in Users, CreateThread(t, u)
      PROVE  ArgsInv' /\ LockInv'
  BY <1>1 DEF CreateThread
<1>2. ASSUME NEW c \in Calls, BeginAppend(c) \/ BeginSummary(c) PROVE ArgsInv' /\ LockInv'
  <2>1. PICK a \in Append \cup Summarize : BeginCall(c, a)
    BY <1>2 DEF BeginAppend, BeginSummary
  <2> QED BY <2>1 DEF BeginCall
<1>3. ASSUME NEW c \in Calls, Upsert(c) PROVE ArgsInv' /\ LockInv'
  <2>1. \A d \in Calls : InTransaction(d) => arg[d].thread # arg[c].thread
    BY <1>3 DEF Upsert, RowLockFree
  <2>2. arg[c].thread \in Threads
    BY <1>3 DEF Upsert, Append, Summarize
  <2> QED BY <1>3, <2>1, <2>2 DEF Upsert
<1>4. ASSUME NEW c \in Calls, InsertRow(c) \/ CountMessage(c) PROVE ArgsInv' /\ LockInv'
  BY <1>4 DEF InsertRow, CountMessage
<1>5. ASSUME NEW c \in Calls, CommitMessage(c) \/ CommitSummary(c)
      PROVE  ArgsInv' /\ LockInv'
  <2>1. Publish(c) /\ InTransaction(c)
    BY <1>5 DEF CommitMessage, CommitSummary
  <2>2. \A d \in Calls : InTransaction(d) /\ d # c => arg[d].thread # arg[c].thread
    BY <2>1
  <2> QED BY <2>1, <2>2 DEF Publish
<1>6. ASSUME NEW c \in Calls, RejectSummary(c) \/ Abort(c) PROVE ArgsInv' /\ LockInv'
  <2>1. Rollback(c) /\ pc[c] # "idle"
    BY <1>6 DEF RejectSummary, Abort
  <2>2. ArgsInv'
    BY <2>1 DEF Rollback
  <2>3. ASSUME NEW d \in Calls, InTransaction(d)' PROVE holder'[arg'[d].thread] = d
    <3>1. d # c /\ InTransaction(d) /\ arg'[d] = arg[d]
      BY <2>1, <2>3 DEF Rollback
    <3>2. arg[d].thread \in Threads
      BY <3>1 DEF Append, Summarize
    <3> QED BY <2>1, <3>1, <3>2 DEF Rollback, Released
  <2> QED BY <2>2, <2>3
<1>7. CASE Done \/ UNCHANGED vars
  BY <1>7 DEF Done, vars
<1> QED BY <1>1, <1>2, <1>3, <1>4, <1>5, <1>6, <1>7 DEF Next, Progress

\* No transaction but the holder of the row lock moves the row a draft is based on.
LEMMA DraftStep == StoreInv /\ [Next]_vars => DraftInv'
<1> SUFFICES ASSUME StoreInv, [Next]_vars,
                    NEW d \in Calls, InTransaction(d)'
             PROVE  draft'[d] = DraftOf(d)'
  BY DEF DraftInv
<1> USE StoreAssumption DEF StoreInv, TypeOK, DraftInv, InTransaction, BaseCount, BaseLast
<1>1. ASSUME NEW t \in Threads, NEW u \in Users, CreateThread(t, u)
      PROVE  draft'[d] = DraftOf(d)'
  BY <1>1 DEF CreateThread, DraftOf
<1>2. ASSUME NEW c \in Calls, BeginAppend(c) \/ BeginSummary(c)
      PROVE  draft'[d] = DraftOf(d)'
  BY <1>2 DEF BeginAppend, BeginSummary, BeginCall, DraftOf
<1>3. ASSUME NEW c \in Calls, Upsert(c) PROVE draft'[d] = DraftOf(d)'
  <2>1. stamp[c] # None /\ arg[c].op \in {"append", "summary"}
    BY <1>3 DEF Upsert, ArgsInv, Append, Summarize
  <2>2. CASE d = c
    BY <1>3, <2>1, <2>2 DEF Upsert, DraftOf, UpsertRow, LastMessageAt
  <2>3. CASE d # c
    BY <1>3, <2>3 DEF Upsert, DraftOf
  <2> QED BY <2>2, <2>3
<1>4. ASSUME NEW c \in Calls, InsertRow(c) PROVE draft'[d] = DraftOf(d)'
  BY <1>4 DEF InsertRow, DraftOf
<1>5. ASSUME NEW c \in Calls, CountMessage(c) PROVE draft'[d] = DraftOf(d)'
  <2>1. CASE d = c
    BY <1>5, <2>1 DEF CountMessage, CountedRow, DraftOf
  <2>2. CASE d # c
    BY <1>5, <2>2 DEF CountMessage, DraftOf
  <2> QED BY <2>1, <2>2
<1>6. ASSUME NEW c \in Calls, CommitMessage(c) \/ CommitSummary(c)
      PROVE  draft'[d] = DraftOf(d)'
  <2>1. Publish(c) /\ InTransaction(c)
    BY <1>6 DEF CommitMessage, CommitSummary
  <2>2. d # c /\ InTransaction(d)
    BY <2>1 DEF Publish
  <2>3. arg[d].thread # arg[c].thread
    BY <2>1, <2>2 DEF LockInv
  <2> QED BY <2>1, <2>2, <2>3 DEF Publish, EndCall, DraftOf
<1>7. ASSUME NEW c \in Calls, RejectSummary(c) \/ Abort(c) PROVE draft'[d] = DraftOf(d)'
  BY <1>7 DEF RejectSummary, Abort, Rollback, EndCall, DraftOf
<1>8. CASE Done \/ UNCHANGED vars
  BY <1>8 DEF Done, vars, DraftOf
<1> QED BY <1>1, <1>2, <1>3, <1>4, <1>5, <1>6, <1>7, <1>8 DEF Next, Progress

\* A step either leaves the stored messages alone or adds the row of the one
\* append that commits.
LEMMA MessagesChange ==
    ASSUME StoreInv, [Next]_vars
    PROVE  \/ /\ messages' = messages
              /\ \A d \in Calls : ~CommitMessage(d)
           \/ \E c \in Calls : CommitMessage(c)
<1> USE DEF StoreInv, TypeOK
<1>1. ASSUME \A c \in Calls : ~CommitMessage(c) PROVE messages' = messages
  BY <1>1 DEF Next, Progress, CreateThread, BeginAppend, BeginSummary, BeginCall, Upsert,
              InsertRow, CountMessage, CommitSummary, RejectSummary, Abort, Rollback, Done, vars
<1> QED BY <1>1

\* What a call that has begun would insert does not change any more.
LEMMA RowsStable ==
    ASSUME StoreInv, [Next]_vars, NEW c \in Calls, pc[c] # "idle"
    PROVE  /\ arg'[c] = arg[c]
           /\ pc[c] = "committed" => pc'[c] = "committed"
           /\ pc'[c] # "idle"
<1> USE DEF StoreInv, TypeOK
<1> QED BY DEF Next, Progress, CreateThread, BeginAppend, BeginSummary, BeginCall, Upsert,
               InsertRow, CountMessage, CommitMessage, CommitSummary, Publish,
               RejectSummary, Abort, Rollback, Done, vars

\* Stored messages are finitely many, and rows of committed appends only.
LEMMA MessagesStep == StoreInv /\ [Next]_vars => MessagesInv'
<1> SUFFICES ASSUME StoreInv, [Next]_vars PROVE MessagesInv'
  OBVIOUS
<1>1. ASSUME NEW m \in messages PROVE pc'[m.id] = "committed"
  <2>1. m.id \in Calls /\ pc[m.id] = "committed"
    BY DEF StoreInv, MessagesInv, TypeOK
  <2> QED BY <2>1, RowsStable
<1>2. CASE messages' = messages
  BY <1>1, <1>2 DEF StoreInv, MessagesInv
<1>3. ASSUME NEW c \in Calls, CommitMessage(c) PROVE MessagesInv'
  <2>1. pc'[c] = "committed" /\ MessageRow(c).id = c
    BY <1>3 DEF CommitMessage, Publish, MessageRow, StoreInv, TypeOK
  <2>2. messages' = messages \cup {MessageRow(c)}
    BY <1>3 DEF CommitMessage
  <2>3. IsFiniteSet(messages')
    BY <2>2, FS_AddElement DEF StoreInv, MessagesInv
  <2>4. \A m \in messages' : pc'[m.id] = "committed"
    BY <1>1, <2>1, <2>2
  <2> QED BY <2>3, <2>4 DEF MessagesInv
<1> QED BY <1>2, <1>3, MessagesChange

\* A committing append adds exactly one row, to its own thread.
LEMMA CommitAddsOneRow ==
    ASSUME StoreInv, NEW c \in Calls, CommitMessage(c), NEW t \in Threads
    PROVE  IF t = arg[c].thread
           THEN /\ MessagesOf(t)' = MessagesOf(t) \cup {MessageRow(c)}
                /\ MessageRow(c) \notin MessagesOf(t)
                /\ Cardinality(MessagesOf(t)') = Cardinality(MessagesOf(t)) + 1
           ELSE MessagesOf(t)' = MessagesOf(t)
<1>1. pc[c] = "counted" /\ messages' = messages \cup {MessageRow(c)}
  BY DEF CommitMessage
<1>2. MessageRow(c) \notin messages /\ MessageRow(c).thread = arg[c].thread
  BY <1>1 DEF StoreInv, MessagesInv, MessageRow
<1>3. CASE t = arg[c].thread
  <2>1. MessagesOf(t)' = MessagesOf(t) \cup {MessageRow(c)}
    BY <1>1, <1>2, <1>3 DEF MessagesOf
  <2>2. IsFiniteSet(MessagesOf(t)) /\ MessageRow(c) \notin MessagesOf(t)
    BY <1>2, FS_Subset DEF MessagesOf, StoreInv, MessagesInv
  <2>3. Cardinality(MessagesOf(t) \cup {MessageRow(c)}) = Cardinality(MessagesOf(t)) + 1
    BY <2>2, FS_AddElement
  <2> QED BY <1>3, <2>1, <2>2, <2>3
<1>4. CASE t # arg[c].thread
  BY <1>1, <1>2, <1>4 DEF MessagesOf
<1> QED BY <1>3, <1>4

\* The thread rows a step may change: the new row of CreateThread, or the
\* draft of the one transaction that commits.
LEMMA ThreadsChange ==
    ASSUME StoreInv, [Next]_vars
    PROVE  \/ threads' = threads /\ messages' = messages
           \/ \E t \in Threads, u \in Users : CreateThread(t, u)
           \/ \E c \in Calls : CommitMessage(c)
           \/ \E c \in Calls : CommitSummary(c)
<1> USE DEF StoreInv, TypeOK
<1>1. ASSUME \A t \in Threads, u \in Users : ~CreateThread(t, u),
             \A c \in Calls : ~CommitMessage(c) /\ ~CommitSummary(c)
      PROVE  threads' = threads /\ messages' = messages
  BY <1>1 DEF Next, Progress, BeginAppend, BeginSummary, BeginCall, Upsert,
              InsertRow, CountMessage, RejectSummary, Abort, Rollback, Done, vars
<1> QED BY <1>1

\* The row a commit writes, in terms of the row that was there.
LEMMA CommittedRow ==
    ASSUME StoreInv, NEW c \in Calls, CommitMessage(c) \/ CommitSummary(c)
    PROVE  LET t == arg[c].thread IN
           /\ t \in Threads /\ arg[c] \in Append \cup Summarize
           /\ threads' = [threads EXCEPT ![t] = DraftOf(c)]
           /\ DraftOf(c) # None
           /\ CommitMessage(c) => /\ DraftOf(c).count = BaseCount(t) + 1
                                  /\ DraftOf(c).last = stamp[c]
           /\ CommitSummary(c) => /\ DraftOf(c).count = BaseCount(t)
                                  /\ DraftOf(c).last = BaseLast(t)
<1> DEFINE t == arg[c].thread
<1> USE DEF StoreInv
<1>1. /\ Publish(c) /\ InTransaction(c)
      /\ CommitMessage(c) => pc[c] = "counted" /\ arg[c].op = "append"
      /\ CommitSummary(c) => pc[c] = "inserted" /\ arg[c].op = "summary"
  BY DEF CommitMessage, CommitSummary, InTransaction, ArgsInv
<1>2. arg[c] \in Append \cup Summarize /\ t \in Threads
  BY <1>1 DEF ArgsInv, InTransaction, Append, Summarize
<1>3. draft[c] = DraftOf(c)
  BY <1>1 DEF DraftInv
<1>4. DraftOf(c) \in ThreadRow
  <2>1. BaseCount(t) \in Nat /\ BaseLast(t) \in Times \cup {None}
    BY <1>2 DEF TypeOK, BaseCount, BaseLast, ThreadRow
  <2>2. arg[c].user \in Users /\ stamp[c] \in Times
    BY <1>2 DEF TypeOK, Append, Summarize
  <2> QED BY <2>1, <2>2 DEF DraftOf, ThreadRow
<1>5. DraftOf(c) # None
  BY <1>4, StoreAssumption
<1> QED BY <1>1, <1>2, <1>3, <1>5 DEF Publish, DraftOf

\* A commit adds one row exactly when it adds one to the count.
LEMMA CountStep == StoreInv /\ [Next]_vars => CountMatchesRows'
<1> SUFFICES ASSUME StoreInv, [Next]_vars, NEW t \in Threads
             PROVE  IF threads'[t] = None THEN MessagesOf(t)' = {}
                    ELSE threads'[t].count = Cardinality(MessagesOf(t)')
  BY DEF CountMatchesRows
<1>0. IF threads[t] = None THEN MessagesOf(t) = {}
      ELSE threads[t].count = Cardinality(MessagesOf(t))
  BY DEF StoreInv, CountMatchesRows
<1>1. Cardinality(MessagesOf(t)) = BaseCount(t)
  BY <1>0, FS_EmptySet DEF BaseCount
<1>2. CASE threads' = threads /\ messages' = messages
  BY <1>0, <1>2 DEF MessagesOf
<1>3. ASSUME NEW t1 \in Threads, NEW u \in Users, CreateThread(t1, u)
      PROVE  IF threads'[t] = None THEN MessagesOf(t)' = {}
             ELSE threads'[t].count = Cardinality(MessagesOf(t)')
  <2>1. MessagesOf(t)' = MessagesOf(t)
    BY <1>3 DEF CreateThread, MessagesOf
  <2>2. CASE t = t1
    <3>1. MessagesOf(t) = {} /\ threads'[t].count = 0
      BY <1>0, <1>3, <2>2 DEF CreateThread, StoreInv, TypeOK
    <3>2. threads'[t] # None
      <4>1. [user |-> u, last |-> None, count |-> 0] \in ThreadRow
        BY DEF ThreadRow
      <4> QED BY <1>3, <2>2, <4>1, StoreAssumption DEF CreateThread, StoreInv, TypeOK
    <3> QED BY <2>1, <3>1, <3>2, FS_EmptySet
  <2>3. CASE t # t1
    BY <1>0, <1>3, <2>1, <2>3 DEF CreateThread, StoreInv, TypeOK
  <2> QED BY <2>2, <2>3
<1>4. ASSUME NEW c \in Calls, CommitMessage(c)
      PROVE  IF threads'[t] = None THEN MessagesOf(t)' = {}
             ELSE threads'[t].count = Cardinality(MessagesOf(t)')
  <2>1. CASE t = arg[c].thread
    <3>1. threads'[t] # None /\ threads'[t].count = BaseCount(t) + 1
      BY <1>4, <2>1, CommittedRow DEF StoreInv, TypeOK
    <3>2. Cardinality(MessagesOf(t)') = Cardinality(MessagesOf(t)) + 1
      BY <1>4, <2>1, CommitAddsOneRow
    <3> QED BY <1>1, <3>1, <3>2
  <2>2. CASE t # arg[c].thread
    <3>1. threads'[t] = threads[t]
      BY <1>4, <2>2, CommittedRow DEF StoreInv, TypeOK
    <3>2. MessagesOf(t)' = MessagesOf(t)
      BY <1>4, <2>2, CommitAddsOneRow
    <3> QED BY <1>0, <3>1, <3>2
  <2> QED BY <2>1, <2>2
<1>5. ASSUME NEW c \in Calls, CommitSummary(c)
      PROVE  IF threads'[t] = None THEN MessagesOf(t)' = {}
             ELSE threads'[t].count = Cardinality(MessagesOf(t)')
  <2>1. MessagesOf(t)' = MessagesOf(t)
    BY <1>5 DEF CommitSummary, MessagesOf
  <2>2. CASE t = arg[c].thread
    BY <1>1, <1>5, <2>1, <2>2, CommittedRow DEF StoreInv, TypeOK
  <2>3. CASE t # arg[c].thread
    BY <1>0, <1>5, <2>1, <2>3, CommittedRow DEF StoreInv, TypeOK
  <2> QED BY <2>2, <2>3
<1> QED BY <1>2, <1>3, <1>4, <1>5, ThreadsChange

\* A commit writes last_message_at exactly when it adds the message of that time.
LEMMA LastStep == StoreInv /\ [Next]_vars => LastMessageAtIsAMessage'
<1> DEFINE LastOK(t) ==
        threads[t] # None =>
            IF threads[t].last = None THEN MessagesOf(t) = {}
            ELSE \E m \in MessagesOf(t) : m.at = threads[t].last
<1> SUFFICES ASSUME StoreInv, [Next]_vars, NEW t \in Threads PROVE LastOK(t)'
  BY DEF LastMessageAtIsAMessage
<1>0. LastOK(t) /\ (threads[t] = None => MessagesOf(t) = {})
  BY DEF StoreInv, LastMessageAtIsAMessage, CountMatchesRows
<1>1. CASE threads' = threads /\ messages' = messages
  BY <1>0, <1>1 DEF MessagesOf
<1>2. ASSUME NEW t1 \in Threads, NEW u \in Users, CreateThread(t1, u) PROVE LastOK(t)'
  BY <1>0, <1>2 DEF CreateThread, MessagesOf, StoreInv, TypeOK
<1>3. ASSUME NEW c \in Calls, CommitMessage(c) PROVE LastOK(t)'
  <2>1. MessageRow(c).at = stamp[c] /\ stamp[c] # None
    BY StoreAssumption DEF MessageRow, StoreInv, TypeOK
  <2>2. CASE t = arg[c].thread
    <3>1. threads'[t].last = stamp[c]
      BY <1>3, <2>2, CommittedRow DEF StoreInv, TypeOK
    <3>2. MessageRow(c) \in MessagesOf(t)'
      BY <1>3, <2>2, CommitAddsOneRow
    <3> QED BY <2>1, <3>1, <3>2
  <2>3. CASE t # arg[c].thread
    <3>1. threads'[t] = threads[t]
      BY <1>3, <2>3, CommittedRow DEF StoreInv, TypeOK
    <3>2. MessagesOf(t)' = MessagesOf(t)
      BY <1>3, <2>3, CommitAddsOneRow
    <3> QED BY <1>0, <3>1, <3>2
  <2> QED BY <2>2, <2>3
<1>4. ASSUME NEW c \in Calls, CommitSummary(c) PROVE LastOK(t)'
  <2>1. MessagesOf(t)' = MessagesOf(t)
    BY <1>4 DEF CommitSummary, MessagesOf
  <2>2. CASE t = arg[c].thread
    BY <1>0, <1>4, <2>1, <2>2, CommittedRow DEF BaseLast, StoreInv, TypeOK
  <2>3. CASE t # arg[c].thread
    BY <1>0, <1>4, <2>1, <2>3, CommittedRow DEF StoreInv, TypeOK
  <2> QED BY <2>2, <2>3
<1> QED BY <1>1, <1>2, <1>3, <1>4, ThreadsChange

\* The message a summary covers was stored before the summary and is never removed.
LEMMA CoversStep == StoreInv /\ [Next]_vars => CoversInv'
<1> SUFFICES ASSUME StoreInv, [Next]_vars PROVE CoversInv'
  OBVIOUS
<1>1. messages \subseteq messages'
  BY MessagesChange DEF CommitMessage
<1>2. ASSUME NEW c \in Calls, pc'[c] # "idle", arg'[c].covers \in Calls
      PROVE  \E m \in messages' : m.id = arg'[c].covers /\ m.thread = arg'[c].thread
  <2>1. CASE pc[c] # "idle"
    BY <1>1, <1>2, <2>1, RowsStable DEF StoreInv, CoversInv
  <2>2. CASE pc[c] = "idle"
    <3>1. PICK a \in Append \cup Summarize :
              /\ BeginCall(c, a)
              /\ a.covers \in Calls =>
                     \E m \in messages : m.id = a.covers /\ m.thread = a.thread
      <4>1. BeginAppend(c) \/ BeginSummary(c)
        BY <1>2, <2>2 DEF Next, Progress, CreateThread, BeginAppend, BeginSummary, BeginCall,
              Upsert, InsertRow, CountMessage, CommitMessage, CommitSummary, Publish,
              RejectSummary, Abort, Rollback, Done, vars, StoreInv, TypeOK
      <4>2. \A a \in Append : a.covers \notin Calls
        BY StoreAssumption DEF Append
      <4> QED BY <4>1, <4>2 DEF BeginAppend, BeginSummary
    <3>2. arg'[c] = a /\ messages' = messages
      BY <3>1 DEF BeginCall, StoreInv, TypeOK
    <3> QED BY <1>2, <3>1, <3>2
  <2> QED BY <2>1, <2>2
<1>3. ASSUME NEW c \in Calls, pc'[c] = "inserted" PROVE ForeignKeyHolds(c)'
  <2>1. pc[c] # "idle" /\ ForeignKeyHolds(c)
    BY <1>3 DEF Next, Progress, CreateThread, BeginAppend, BeginSummary, BeginCall,
              Upsert, InsertRow, CountMessage, CommitMessage, CommitSummary, Publish,
              RejectSummary, Abort, Rollback, Done, vars, StoreInv, TypeOK, CoversInv
  <2> QED BY <1>1, <2>1, RowsStable DEF ForeignKeyHolds
<1> QED BY <1>2, <1>3 DEF CoversInv

-----------------------------------------------------------------------------
\* StoreInv holds in every reachable state, for any number of threads, users
\* and calls.
THEOREM StoreInvariant == Spec => []StoreInv
<1>1. StoreInv /\ [Next]_vars => StoreInv'
  BY TypeStep, LockStep, DraftStep, MessagesStep, CoversStep, CountStep, LastStep DEF StoreInv
<1> QED BY InitInv, <1>1, PTL DEF Spec

\* Type correctness: in particular message_count is always a number.
THEOREM TypeCorrect == Spec => []TypeOK
<1>1. StoreInv => TypeOK
  BY DEF StoreInv
<1> QED BY StoreInvariant, <1>1, PTL

\* The upsert's row lock makes the writers of one thread row exclude each other.
THEOREM WritersExclude == Spec => []RowWritersExclude
<1>1. StoreInv => RowWritersExclude
  BY DEF StoreInv, LockInv, RowWritersExclude
<1> QED BY StoreInvariant, <1>1, PTL

\* message_count never drifts from the rows of conversation_messages.
THEOREM CountCorrect == Spec => []CountMatchesRows
<1>1. StoreInv => CountMatchesRows
  BY DEF StoreInv
<1> QED BY StoreInvariant, <1>1, PTL

\* last_message_at is the time of a message of the thread, never a summary's.
THEOREM LastCorrect == Spec => []LastMessageAtIsAMessage
<1>1. StoreInv => LastMessageAtIsAMessage
  BY DEF StoreInv
<1> QED BY StoreInvariant, <1>1, PTL

-----------------------------------------------------------------------------
\* The ledger counts with the same Cardinality.
LEMMA SameCardinality == ASSUME NEW S PROVE Ledger!Cardinality(S) = Cardinality(S)
<1> QED BY DEF Ledger!Cardinality, Cardinality

\* The empty store is a shelf of unopened books.
LEMMA LedgerInit == Init => Ledger!Init
<1> SUFFICES ASSUME Init PROVE Book = [t \in Threads |-> Ledger!Blank]
  BY DEF Ledger!Init
<1>1. ASSUME NEW t \in Threads PROVE Book[t] = Ledger!Blank
  BY DEF Book, Init, NoRow, MessagesOf, SummariesOf, Ledger!Blank
<1> QED BY <1>1 DEF Book

\* CreateThread opens a book.
LEMMA CreateOpens ==
    ASSUME StoreInv, NEW t \in Threads, NEW u \in Users, CreateThread(t, u)
    PROVE  Ledger!Open(t, u)
<1>1. Book[t].owner = None
  BY DEF Book, CreateThread
<1>2. threads'[t] = [user |-> u, last |-> None, count |-> 0] /\ threads'[t] # None
  <2>1. [user |-> u, last |-> None, count |-> 0] \in ThreadRow
    BY DEF ThreadRow
  <2> QED BY <2>1, StoreAssumption DEF CreateThread, StoreInv, TypeOK
<1>3. \A x \in Threads : MessagesOf(x)' = MessagesOf(x) /\ SummariesOf(x)' = SummariesOf(x)
  BY DEF CreateThread, MessagesOf, SummariesOf
<1>4. ASSUME NEW x \in Threads PROVE Book'[x] = [Book EXCEPT ![t].owner = u][x]
  <2>1. CASE x = t
    BY <1>2, <1>3, <2>1 DEF Book, CreateThread
  <2>2. CASE x # t
    BY <1>3, <2>2 DEF Book, CreateThread, StoreInv, TypeOK
  <2> QED BY <2>1, <2>2
<1>5. Book' = [Book EXCEPT ![t].owner = u]
  BY <1>4 DEF Book
<1> QED BY <1>1, <1>5 DEF Ledger!Open

\* The commit of an append records its message.
LEMMA CommitRecords ==
    ASSUME StoreInv, NEW c \in Calls, CommitMessage(c)
    PROVE  LET t == arg[c].thread
               u == arg[c].user
           IN  t \in Threads /\ u \in Users /\ Ledger!RecordMessage(t, u, MessageRow(c))
<1> DEFINE t == arg[c].thread
           u == arg[c].user
           row == [owner |-> u, messages |-> MessagesOf(t) \cup {MessageRow(c)},
                   summaries |-> SummariesOf(t), count |-> BaseCount(t) + 1,
                   last |-> stamp[c]]
<1>1. t \in Threads /\ u \in Users
  BY CommittedRow DEF Append, Summarize
<1>2. /\ MessagesOf(t)' = MessagesOf(t) \cup {MessageRow(c)}
      /\ MessageRow(c) \notin MessagesOf(t)
      /\ Cardinality(MessagesOf(t) \cup {MessageRow(c)}) = Cardinality(MessagesOf(t)) + 1
  <2>1. arg' = arg
    BY DEF CommitMessage, Publish
  <2> QED BY <1>1, <2>1, CommitAddsOneRow
<1>3. Cardinality(MessagesOf(t)) = BaseCount(t)
  BY <1>1, FS_EmptySet DEF StoreInv, CountMatchesRows, BaseCount
<1>4. ASSUME NEW x \in Threads PROVE Book'[x] = [Book EXCEPT ![t] = row][x]
  <2>1. SummariesOf(x)' = SummariesOf(x)
    BY DEF CommitMessage, SummariesOf
  <2>2. CASE x = t
    <3>1. threads'[t] = DraftOf(c) /\ DraftOf(c) # None
      BY <1>1, CommittedRow DEF StoreInv, TypeOK
    <3>2. /\ threads'[t].user = u /\ threads'[t].last = stamp[c]
          /\ threads'[t].count = BaseCount(t) + 1
      BY <3>1, CommittedRow DEF DraftOf
    <3>3. MessagesOf(x)' = MessagesOf(x) \cup {MessageRow(c)}
      BY <2>2, CommitAddsOneRow
    <3>4. Book'[x] = row
      BY <2>1, <2>2, <3>1, <3>2, <3>3 DEF Book
    <3> QED BY <2>2, <3>4 DEF Book
  <2>3. CASE x # t
    <3>1. threads'[x] = threads[x]
      BY <2>3, CommittedRow DEF StoreInv, TypeOK
    <3>2. MessagesOf(x)' = MessagesOf(x)
      BY <2>3, CommitAddsOneRow
    <3> QED BY <2>1, <2>3, <3>1, <3>2 DEF Book
  <2> QED BY <2>2, <2>3
<1>5. Book' = [Book EXCEPT ![t] = row]
  BY <1>4 DEF Book
<1>6. /\ Book[t].messages = MessagesOf(t)
      /\ Book[t].summaries = SummariesOf(t)
      /\ MessageRow(c).at = stamp[c]
  BY <1>1 DEF Book, MessageRow
<1>7. Cardinality(Book[t].messages \cup {MessageRow(c)}) = BaseCount(t) + 1
  BY <1>2, <1>3, <1>6
<1>8. row = [owner     |-> u,
             messages  |-> Book[t].messages \cup {MessageRow(c)},
             summaries |-> Book[t].summaries,
             count     |-> Cardinality(Book[t].messages \cup {MessageRow(c)}),
             last      |-> MessageRow(c).at]
  BY <1>6, <1>7
<1> HIDE DEF t, u, row
<1>9. Ledger!RecordMessage(t, u, MessageRow(c))
  BY <1>2, <1>5, <1>6, <1>8, SameCardinality DEF Ledger!RecordMessage
<1> QED BY <1>1, <1>9 DEF t, u

\* The commit of a summary files it.
LEMMA CommitFiles ==
    ASSUME StoreInv, NEW c \in Calls, CommitSummary(c)
    PROVE  LET t == arg[c].thread
               u == arg[c].user
           IN  /\ t \in Threads /\ u \in Users /\ arg[c].covers \in Calls \cup {None}
               /\ Ledger!FileSummary(t, u, SummaryRow(c))
<1> DEFINE t == arg[c].thread
           u == arg[c].user
           row == [owner |-> u, messages |-> MessagesOf(t),
                   summaries |-> SummariesOf(t) \cup {SummaryRow(c)},
                   count |-> BaseCount(t), last |-> BaseLast(t)]
<1>1. t \in Threads /\ u \in Users
  BY CommittedRow DEF Append, Summarize
<1>2. /\ arg[c].covers \in Calls \cup {None}
      /\ arg[c].covers # None => \E m \in MessagesOf(t) : m.id = arg[c].covers
  <2>1. pc[c] = "inserted" /\ ForeignKeyHolds(c)
    BY DEF CommitSummary, StoreInv, CoversInv
  <2>2. arg[c].covers # None => arg[c].covers \in Calls
    BY <2>1 DEF ForeignKeyHolds, StoreInv, TypeOK
  <2> QED BY <2>1, <2>2 DEF StoreInv, CoversInv, MessagesOf
<1>3. \A x \in Threads : MessagesOf(x)' = MessagesOf(x)
  BY DEF CommitSummary, MessagesOf
<1>4. \A x \in Threads :
        SummariesOf(x)' = IF x = t THEN SummariesOf(x) \cup {SummaryRow(c)} ELSE SummariesOf(x)
  BY DEF CommitSummary, SummariesOf, SummaryRow
<1>5. ASSUME NEW x \in Threads PROVE Book'[x] = [Book EXCEPT ![t] = row][x]
  <2>1. CASE x = t
    <3>1. threads'[t] = DraftOf(c) /\ DraftOf(c) # None
      BY <1>1, CommittedRow DEF StoreInv, TypeOK
    <3>2. /\ threads'[t].user = u /\ threads'[t].last = BaseLast(t)
          /\ threads'[t].count = BaseCount(t)
      BY <3>1, CommittedRow DEF DraftOf
    <3>3. Book'[x] = row
      BY <1>3, <1>4, <2>1, <3>1, <3>2 DEF Book
    <3> QED BY <2>1, <3>3 DEF Book
  <2>2. CASE x # t
    <3>1. threads'[x] = threads[x]
      BY <2>2, CommittedRow DEF StoreInv, TypeOK
    <3> QED BY <1>3, <1>4, <2>2, <3>1 DEF Book
  <2> QED BY <2>1, <2>2
<1>6. Book' = [Book EXCEPT ![t] = row]
  BY <1>5 DEF Book
<1>7. /\ Book[t].messages = MessagesOf(t) /\ Book[t].summaries = SummariesOf(t)
      /\ Book[t].count = BaseCount(t) /\ Book[t].last = BaseLast(t)
      /\ SummaryRow(c).covers = arg[c].covers
  BY <1>1 DEF Book, BaseCount, BaseLast, SummaryRow
<1> HIDE DEF t, u
<1>8. Ledger!FileSummary(t, u, SummaryRow(c))
  BY <1>2, <1>6, <1>7 DEF Ledger!FileSummary
<1> QED BY <1>1, <1>2, <1>8 DEF t, u

\* Every step of the store is a step of the ledger or leaves it alone.
LEMMA LedgerStep == StoreInv /\ [Next]_vars => [Ledger!Next]_Book
<1> SUFFICES ASSUME StoreInv, [Next]_vars PROVE Ledger!Next \/ Book' = Book
  OBVIOUS
<1>1. ASSUME NEW t \in Threads, NEW u \in Users, CreateThread(t, u) PROVE Ledger!Next
  BY <1>1, CreateOpens DEF Ledger!Next
<1>2. ASSUME NEW c \in Calls, CommitMessage(c) PROVE Ledger!Next
  <2>1. stamp[c] \in Times
    BY DEF StoreInv, TypeOK
  <2> QED BY <1>2, <2>1, CommitRecords DEF Ledger!Next, MessageRow
<1>3. ASSUME NEW c \in Calls, CommitSummary(c) PROVE Ledger!Next
  BY <1>3, CommitFiles DEF Ledger!Next, SummaryRow
<1>4. CASE /\ \A t \in Threads, u \in Users : ~CreateThread(t, u)
           /\ \A c \in Calls : ~CommitMessage(c) /\ ~CommitSummary(c)
  <2>1. threads' = threads /\ messages' = messages /\ summaries' = summaries
    BY <1>4 DEF Next, Progress, BeginAppend, BeginSummary, BeginCall, Upsert,
                InsertRow, CountMessage, RejectSummary, Abort, Rollback, Done, vars
  <2> QED BY <2>1 DEF Book, MessagesOf, SummariesOf
<1> QED BY <1>1, <1>2, <1>3, <1>4

\* The store implements the ledger: its overlapping transactions look like
\* single, instantaneous entries.
THEOREM StoreImplementsLedger == Spec => LedgerSpec
<1>1. StoreInv /\ [Next]_vars => [Ledger!Next]_Book
  BY LedgerStep
<1> QED BY LedgerInit, StoreInvariant, <1>1, PTL DEF Spec, LedgerSpec, Ledger!Spec

=============================================================================
