------------------------- MODULE ConversationLedger -------------------------
(***************************************************************************)
(* What the conversation store promises its callers, with no transaction   *)
(* in sight: a thread is an account book.  Opening a book, recording one   *)
(* message and filing one summary each happen at one instant, the message  *)
(* count is the number of recorded messages and the last activity is the   *)
(* time of the message recorded last.                                      *)
(***************************************************************************)
EXTENDS FiniteSets

CONSTANTS
    Threads,    \* thread ids
    Users,      \* user ids
    Entries,    \* ids of messages and summaries
    Times,      \* when a message may be recorded
    None        \* no owner, or no last activity

VARIABLE book   \* thread id -> its book; a book without an owner is not opened yet

Blank == [owner |-> None, messages |-> {}, summaries |-> {}, count |-> 0, last |-> None]

Init == book = [t \in Threads |-> Blank]

Open(t, u) ==
    /\ book[t].owner = None
    /\ book' = [book EXCEPT ![t].owner = u]

\* A writer opens the book on first use, and takes it over from any other owner.
RecordMessage(t, u, m) ==
    LET old == book[t]
        recorded == old.messages \cup {m}
    IN
    /\ m \notin old.messages
    /\ book' = [book EXCEPT ![t] = [owner     |-> u,
                                    messages  |-> recorded,
                                    summaries |-> old.summaries,
                                    count     |-> Cardinality(recorded),
                                    last      |-> m.at]]

\* A summary covers a message of the same book, if it names one.
FileSummary(t, u, s) ==
    LET old == book[t] IN
    /\ s.covers # None => \E m \in old.messages : m.id = s.covers
    /\ book' = [book EXCEPT ![t] = [owner     |-> u,
                                    messages  |-> old.messages,
                                    summaries |-> old.summaries \cup {s},
                                    count     |-> old.count,
                                    last      |-> old.last]]

Next ==
    \E t \in Threads, u \in Users :
        \/ Open(t, u)
        \/ \E e \in Entries, at \in Times :
               RecordMessage(t, u, [id |-> e, thread |-> t, user |-> u, at |-> at])
        \/ \E e \in Entries, c \in Entries \cup {None} :
               FileSummary(t, u, [id |-> e, thread |-> t, user |-> u, covers |-> c])

Spec == Init /\ [][Next]_book
=============================================================================
