----------------------------- MODULE ChatService -----------------------------
(***************************************************************************)
(* Overlapping chat requests on one thread: nothing in AgentService keeps  *)
(* them apart.  Each request stores its question, tests for a checkpoint,  *)
(* loads its input, runs the graph over its own copy of the state (every   *)
(* superstep of which becomes the thread's latest checkpoint), and stores  *)
(* the reply.  A blocking request takes the reply from the values its run  *)
(* returns; a streaming request reads the latest checkpoint once more.     *)
(*                                                                         *)
(* The store is the ledger that ConversationStore implements; the graph is *)
(* abstracted to the question its intent node reads and the reply it ends  *)
(* with (AgentGraph has the rest).                                         *)
(***************************************************************************)
EXTENDS Ranks, SequencesExt

CONSTANTS
    Requests,   \* chat requests, each made once
    Streaming,  \* those made to /chat/stream
    RestoreLimit, \* rows restored from PostgreSQL (20 in the code)
    MaxOverlap, \* bound: how many requests are in flight at once
    MaxLosses,  \* bound: how often the checkpoint is lost
    User, Thread, None

ASSUME ServiceAssumption ==
    /\ Streaming \subseteq Requests
    /\ RestoreLimit \in Nat \ {0}
    /\ MaxOverlap \in Nat \ {0} /\ MaxLosses \in Nat
    /\ None \notin Requests

VARIABLES
    book,       \* the thread in the conversation store
    clock,      \* the clock of the application
    ckpt,       \* the messages of the latest checkpoint, empty when there is none
    losses,     \* how often the checkpoint was lost
    overlapped, \* the requests that were in flight together with another one
    pc,         \* how far each request has come
    stamp,      \* the time each request read for the row it is about to store
    input,      \* the input messages of each run
    local,      \* the messages of each run's own state
    question,   \* the request whose question each run's intent node has read
    content     \* the message each request takes for its reply

vars == <<book, clock, ckpt, losses, overlapped, pc, stamp, input, local, question, content>>

Roles == {"user", "assistant"}

\* Row ids are uuids of the store; ids of the graph are drawn by add_messages.
RowId(r, role) == <<r, role, "row">>
GraphId(r, role) == <<r, role, "graph">>

RowIds == {RowId(r, role) : r \in Requests, role \in Roles}

\* Every reading of the clock is a new time.
Times == Nat

Store == INSTANCE ConversationLedger WITH
    Threads <- {Thread}, Users <- {User}, Entries <- RowIds

\* Mutant: a role the store does not know.
ReplyAsAi(id, r, to) == [id |-> id, role |-> "ai", by |-> r, to |-> to]

\* A message of the graph: the request that asked or ran, and for a reply the
\* request whose question it answers, if its run saw any question.
Human(id, r) == [id |-> id, role |-> "user", by |-> r, to |-> r]
Reply(id, r, to) == [id |-> id, role |-> "assistant", by |-> r, to |-> to]

\* The row of a message: the request that stores it and the message it holds.
Row(r, m, at) == [id |-> RowId(r, m.role), owner |-> r, at |-> at, holds |-> m]

Rows == book[Thread].messages

Init ==
    /\ Store!Init
    /\ clock = 0
    /\ ckpt = <<>>
    /\ losses = 0
    /\ overlapped = {}
    /\ pc = [r \in Requests |-> "idle"]
    /\ stamp = [r \in Requests |-> 0]
    /\ input = [r \in Requests |-> <<>>]
    /\ local = [r \in Requests |-> <<>>]
    /\ question = [r \in Requests |-> None]
    /\ content = [r \in Requests |-> None]

Ended == {"done", "failed"}

InFlight(r) == pc[r] \notin Ended \cup {"idle"}

Go(r, from, to) == pc[r] = from /\ pc' = [pc EXCEPT ![r] = to]

\* "now" is read before the transaction that stores the row.
Stamp(r) == stamp' = [stamp EXCEPT ![r] = clock] /\ clock' = clock + 1

-----------------------------------------------------------------------------
Ask(r) ==
    LET others == {q \in Requests : InFlight(q)} IN
    /\ Cardinality(others) < MaxOverlap
    /\ overlapped' = IF others = {} THEN overlapped ELSE overlapped \cup others \cup {r}
    /\ Go(r, "idle", "asking")
    /\ Stamp(r)
    /\ UNCHANGED <<book, ckpt, losses, input, local, question, content>>

\* Mutant: the question is stored when its reply is.
StoreQuestionLate(r) ==
    /\ Go(r, "asking", "asked")
    /\ UNCHANGED <<book, clock, ckpt, losses, overlapped, stamp, input, local, question, content>>

StoreQuestion(r) ==
    /\ Go(r, "asking", "asked")
    /\ Store!RecordMessage(Thread, User, Row(r, Human(RowId(r, "user"), r), stamp[r]))
    /\ UNCHANGED <<clock, ckpt, losses, overlapped, stamp, input, local, question, content>>

\* ORDER BY created_at DESC LIMIT: the rows that fewer than RestoreLimit are
\* newer than.
Newest == {x \in Rows : Cardinality({y \in Rows : x.at < y.at}) < RestoreLimit}

\* load_messages: the newest rows, oldest first.
LoadMessages ==
    [i \in 1..Cardinality(Newest) |->
        LET row == CHOOSE x \in Newest : Cardinality({y \in Newest : y.at < x.at}) = i - 1
        IN  [row.holds EXCEPT !.id = row.id]]

Question(r) == <<Human(GraphId(r, "user"), r)>>

\* _checkpoint_exists, and what the input is when there is one.
FindCheckpoint(r) ==
    /\ ckpt # <<>>
    /\ Go(r, "asked", "prepared")
    /\ input' = [input EXCEPT ![r] = Question(r)]
    /\ UNCHANGED <<book, clock, ckpt, losses, overlapped, stamp, local, question, content>>

MissCheckpoint(r) ==
    /\ ckpt = <<>>
    /\ Go(r, "asked", "restoring")
    /\ UNCHANGED <<book, clock, ckpt, losses, overlapped, stamp, input, local, question, content>>

\* Mutant: a restored message gets an id of its own each time.
RestoredAnew(r) == [i \in DOMAIN LoadMessages |-> [LoadMessages[i] EXCEPT !.id = <<r, i>>]]

\* The question's own row is taken to be among the restored ones, if there are any.
RestoredInput(r) == IF Rows = {} THEN Question(r) ELSE LoadMessages

Restore(r) ==
    /\ Go(r, "restoring", "prepared")
    /\ input' = [input EXCEPT ![r] = RestoredInput(r)]
    /\ UNCHANGED <<book, clock, ckpt, losses, overlapped, stamp, local, question, content>>

\* Mutant: messages are appended whatever their ids.
AddMessagesBlindly(old, new) == old \o new

\* add_messages: a message whose id is there replaces it, the others follow.
AddMessages(old, new) ==
    LET ids == {old[i].id : i \in DOMAIN old}
        fresh == {i \in DOMAIN new : new[i].id \notin ids}
    IN  old \o [n \in 1..Cardinality(fresh) |-> new[Nth(fresh, n)]]

\* Mutant: the input counts only when there is no checkpoint by then.
StartedOnCheckpoint(r) == IF ckpt = <<>> THEN input[r] ELSE ckpt

\* Mutant: the run does not see the thread's checkpoint.
StartedFresh(r) == input[r]

\* The run's state starts from the latest checkpoint there is now.
Started(r) == AddMessages(ckpt, input[r])

StartRun(r) ==
    /\ Go(r, "prepared", "running")
    /\ local' = [local EXCEPT ![r] = Started(r)]
    /\ ckpt' = Started(r)
    /\ UNCHANGED <<book, clock, losses, overlapped, stamp, input, question, content>>

\* Mutant: the first human message instead of the last.
FirstHuman(messages) == SelectInSeq(messages, LAMBDA m : m.role = "user")

\* The place of the latest human message, 0 when there is none.
LatestHuman(messages) == SelectLastInSeq(messages, LAMBDA m : m.role = "user")

\* _latest_human_question over the run's own messages; without any human
\* message the question is empty.
LatestQuestion(messages) ==
    LET i == LatestHuman(messages) IN IF i = 0 THEN None ELSE messages[i].by

ReadQuestion(r) ==
    /\ Go(r, "running", "thinking")
    /\ question' = [question EXCEPT ![r] = LatestQuestion(local[r])]
    /\ ckpt' = local[r]
    /\ UNCHANGED <<book, clock, losses, overlapped, stamp, input, local, content>>

\* The graph ends with the reply as its last message.
EndRun(r) ==
    LET messages == Append(local[r], Reply(GraphId(r, "assistant"), r, question[r])) IN
    /\ Go(r, "thinking", "ended")
    /\ local' = [local EXCEPT ![r] = messages]
    /\ ckpt' = messages
    /\ UNCHANGED <<book, clock, losses, overlapped, stamp, input, question, content>>

\* Mutant: a blocking request looks at the latest checkpoint, too.
TakeSharedReply(r) ==
    /\ r \notin Streaming
    /\ Go(r, "ended", "replying")
    /\ content' = [content EXCEPT ![r] = Last(IF ckpt = <<>> THEN local[r] ELSE ckpt)]
    /\ Stamp(r)
    /\ UNCHANGED <<book, ckpt, losses, overlapped, input, local, question>>

\* ainvoke returns the values of the run itself.
TakeOwnReply(r) ==
    /\ r \notin Streaming
    /\ Go(r, "ended", "replying")
    /\ content' = [content EXCEPT ![r] = Last(local[r])]
    /\ Stamp(r)
    /\ UNCHANGED <<book, ckpt, losses, overlapped, input, local, question>>

\* Mutant: a streaming request waits for a final state that has messages.
TakeLatestMessageOnly(r) ==
    /\ r \in Streaming /\ ckpt # <<>>
    /\ Go(r, "ended", "replying")
    /\ content' = [content EXCEPT ![r] = Last(ckpt)]
    /\ Stamp(r)
    /\ UNCHANGED <<book, ckpt, losses, overlapped, input, local, question>>

\* aget_state reads the thread's latest checkpoint; if it has no messages the
\* tokens of the own reply are joined.
TakeLatestMessage(r) ==
    /\ r \in Streaming
    /\ Go(r, "ended", "replying")
    /\ content' = [content EXCEPT ![r] = Last(IF ckpt = <<>> THEN local[r] ELSE ckpt)]
    /\ Stamp(r)
    /\ UNCHANGED <<book, ckpt, losses, overlapped, input, local, question>>

\* Whatever message was taken, its text is stored as the assistant's.
StoreReply(r) ==
    LET m == [content[r] EXCEPT !.id = RowId(r, "assistant"), !.role = "assistant"] IN
    /\ Go(r, "replying", "stored")
    /\ Store!RecordMessage(Thread, User, Row(r, m, stamp[r]))
    /\ UNCHANGED <<clock, ckpt, losses, overlapped, stamp, input, local, question, content>>

\* The summary, if there is one, is saved and the client is told.
Finish(r) ==
    /\ Go(r, "stored", "done")
    /\ UNCHANGED <<book, clock, ckpt, losses, overlapped, stamp, input, local, question, content>>

\* Any step raises (after "stored": the summary is refused), or the client is
\* gone and the request is cancelled.
Fail(r) ==
    /\ InFlight(r)
    /\ pc' = [pc EXCEPT ![r] = "failed"]
    /\ UNCHANGED <<book, clock, ckpt, losses, overlapped, stamp, input, local, question, content>>

\* The TTL runs out, or Redis loses the thread.
LoseCheckpoint ==
    /\ losses < MaxLosses
    /\ ckpt # <<>>
    /\ ckpt' = <<>>
    /\ losses' = losses + 1
    /\ UNCHANGED <<book, clock, overlapped, pc, stamp, input, local, question, content>>

Progress(r) ==
    \/ StoreQuestion(r) \/ FindCheckpoint(r) \/ MissCheckpoint(r) \/ Restore(r)
    \/ StartRun(r) \/ ReadQuestion(r) \/ EndRun(r) \/ TakeOwnReply(r)
    \/ TakeLatestMessage(r) \/ StoreReply(r) \/ Finish(r)

AllEnded == (\A r \in Requests : pc[r] \in Ended) /\ UNCHANGED vars

Next ==
    \/ \E r \in Requests : Ask(r) \/ Progress(r) \/ Fail(r)
    \/ LoseCheckpoint
    \/ AllEnded

Spec == Init /\ [][Next]_vars

\* The event loop resumes every request, and the model, the databases and the
\* client libraries answer or raise.
FairSpec == Spec /\ \A r \in Requests : WF_vars(Progress(r))
-----------------------------------------------------------------------------
Ids == {<<r, role, at>> : r \in Requests, role \in Roles, at \in {"row", "graph"}}

Message == [id : Ids, role : Roles, by : Requests, to : Requests \cup {None}]

\* Rows, checkpoint and run states hold messages of known roles, and every
\* stored row is stamped with a time that was read.
TypeOK ==
    /\ clock \in Times
    /\ losses \in 0..MaxLosses /\ overlapped \subseteq Requests
    /\ ckpt \in Seq(Message)
    /\ pc \in [Requests -> Ended \cup {"idle", "asking", "asked", "restoring", "prepared",
                                       "running", "thinking", "ended", "replying", "stored"}]
    /\ stamp \in [Requests -> Times]
    /\ input \in [Requests -> Seq(Message)] /\ local \in [Requests -> Seq(Message)]
    /\ question \in [Requests -> Requests \cup {None}]
    /\ content \in [Requests -> Message \cup {None}]
    /\ Rows \subseteq [id : RowIds, owner : Requests, at : Times, holds : Message]

QuestionBefore(r, at) ==
    \E y \in Rows : y.owner = r /\ y.holds.role = "user" /\ y.at < at

\* One row per request and role at most, and a reply only after the question of
\* its request and the one it answers, whoever asked that: their rows are there
\* and have the earlier created_at, which is what the history is sorted by.
RepliesFollowQuestions ==
    \A x \in Rows :
        /\ \A y \in Rows : x.owner = y.owner /\ x.holds.role = y.holds.role => x = y
        /\ x.holds.role = "assistant" =>
               /\ QuestionBefore(x.owner, x.at)
               /\ x.holds.to # None => QuestionBefore(x.holds.to, x.at)

RepliesOf(R) == {x \in Rows : x.owner \in R /\ x.holds.role = "assistant"}

\* Whatever else runs on the thread, a blocking request stores the reply that
\* its own run has given.
BlockingReplyIsOwn == \A x \in RepliesOf(Requests \ Streaming) : x.holds.by = x.owner

Holds(messages, r, role) ==
    \E i \in DOMAIN messages : messages[i].role = role /\ messages[i].by = r

\* So many newer rows that a restored context leaves the question of r out.
Outrun(r) ==
    \E x \in Rows :
        /\ x.owner = r /\ x.holds.role = "user"
        /\ Cardinality({y \in Rows : x.at < y.at}) >= RestoreLimit

\* However runs overlap and whenever the checkpoint is lost, the question of a
\* request is among the messages its run works on, unless other requests have
\* stored as many rows since as a restored context has room for.
OwnQuestionSeen ==
    \A r \in Requests :
        pc[r] \in {"running", "thinking", "ended"} => Holds(local[r], r, "user") \/ Outrun(r)

\* Runs that overlap write their checkpoints over each other, and one of their
\* exchanges is lost; but never one that was complete before they began: it is
\* in the context of every later run, as long as the checkpoint lives.
ExchangeKept ==
    \A r \in Requests \ overlapped, q \in Requests :
        pc[r] = "done" /\ pc[q] \in {"running", "thinking", "ended"} =>
            Holds(local[q], r, "user") /\ Holds(local[q], r, "assistant")

\* The same holds for a streaming request: the final state it reads after the
\* run (stream_graph's docstring) would have to end with its own run's reply.
StreamReplyIsOwn == \A x \in RepliesOf(Streaming) : x.holds.by = x.owner

\* The latest human message, which intent takes for the question of this turn
\* (its docstring), would have to be the request's own.
QuestionIsOwn == \A r \in Requests : question[r] \in {None, r}

\* A request that had the thread to itself stores the reply of its own run to
\* its own question, whatever overlapped, broke off or was lost before it.
AnswersOwnQuestion ==
    \A x \in RepliesOf(Requests \ overlapped) : x.holds.to = x.owner /\ x.holds.by = x.owner

OnceAsked(messages, r) ==
    \A i, j \in DOMAIN messages :
        /\ messages[i].role = "user" /\ messages[i].by = r
        /\ messages[j].role = "user" /\ messages[j].by = r
        => i = j

\* A question is stored before contexts are restored from the store, so that it
\* reaches the runs as a row or as a message of its own.  However requests
\* overlap, the question of one that had to restore its context is in no run
\* twice; that of one that found a checkpoint is not in its own run twice, nor
\* in any as long as the checkpoint lives, if it had the thread to itself.
QuestionOnce ==
    \A r, q \in Requests :
        \/ input[r] # Question(r)
        \/ r \notin overlapped /\ (q = r \/ losses = 0)
        => OnceAsked(local[q], r)

\* Requests that restore the same rows do not put a message into a run's
\* context twice: a restored row keeps its id.
NoMessageTwice ==
    \A r \in Requests : \A i, j \in DOMAIN local[r] :
        local[r][i].id = local[r][j].id => i = j

\* Every request ends, with a reply or with an error.
EveryRequestEnds == \A r \in Requests : pc[r] = "asking" ~> pc[r] \in Ended
=============================================================================
