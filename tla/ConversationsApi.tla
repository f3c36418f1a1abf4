--------------------------- MODULE ConversationsApi ---------------------------
(***************************************************************************)
(* The routes GET /conversations and GET /conversations/{id}/messages over *)
(* the repository.  Each reads a page and then a total, in two sessions:   *)
(* calls of the repository commit in between, and an upsert of another     *)
(* user takes a thread out of the list that is being read.                 *)
(*                                                                         *)
(* The requests of one user are followed, one at a time.  Which threads a  *)
(* full page leaves out (it is sorted by last_message_at, or updated_at    *)
(* for an empty thread) is left open; equal stamps of messages are, too.   *)
(***************************************************************************)
EXTENDS ConversationStore

CONSTANTS
    Reader,     \* the user whose requests are followed
    Limit       \* the limit they give

VARIABLES
    request,    \* the request between its two reads: the thread it lists or None,
                \* the length of its page, and (history) whether the reader has
                \* lost a thread since
    listed      \* the message_count the reader was last shown for each thread

apiVars == <<clock, threads, messages, summaries, holder, pc, arg, stamp, draft, request, listed>>

ASSUME ApiAssumption == None \notin Threads /\ Reader \in Users /\ Limit \in Nat \ {0}

ApiInit == Init /\ request = None /\ listed = NoRow

ThreadsOf(u) == {t \in Threads : threads[t] # None /\ threads[t].user = u}

MessagesBy(t, u) == {m \in MessagesOf(t) : m.user = u}

Smaller(m, n) == IF m <= n THEN m ELSE n

\* What ORDER BY ... LIMIT may return.
Page(rows) == {page \in SUBSET rows : Cardinality(page) = Smaller(Limit, Cardinality(rows))}

\* The newest rows, as created_at tells.
NewestPage(rows) == {page \in Page(rows) : \A m \in page, n \in rows \ page : n.at <= m.at}

Paged(t, page) == [of |-> t, shown |-> Cardinality(page), lost |-> FALSE]

ListThreads ==
    /\ request = None
    /\ \E page \in Page(ThreadsOf(Reader)) :
           /\ request' = Paged(None, page)
           /\ listed' = [t \in Threads |-> IF t \in page THEN threads[t].count ELSE None]
    /\ UNCHANGED vars

ListMessages(t) ==
    /\ request = None
    /\ \E page \in NewestPage(MessagesBy(t, Reader)) : request' = Paged(t, page)
    /\ UNCHANGED <<vars, listed>>

\* Mutants: the total is the length of the page; messages are counted for the
\* owner of the thread only.
TotalOfPage == request.shown

TotalOfOwner ==
    IF request.of = None THEN Cardinality(ThreadsOf(Reader))
    ELSE IF request.of \in ThreadsOf(Reader) THEN Cardinality(MessagesOf(request.of)) ELSE 0

\* count_threads or count_messages.
Total ==
    IF request.of = None THEN Cardinality(ThreadsOf(Reader))
    ELSE Cardinality(MessagesBy(request.of, Reader))

\* The response is made of the page read before and the Total read now.
Respond ==
    /\ request # None
    /\ request' = None
    /\ UNCHANGED <<vars, listed>>

\* A step of the repository between the reads.
StoreStep ==
    /\ Next
    /\ request' = IF request = None THEN None
                  ELSE [request EXCEPT !.lost = @ \/ ~(ThreadsOf(Reader) \subseteq ThreadsOf(Reader)')]
    /\ UNCHANGED listed

ApiNext ==
    \/ ListThreads
    \/ \E t \in Threads : ListMessages(t)
    \/ Respond
    \/ StoreStep

ApiSpec == ApiInit /\ [][ApiNext]_apiVars

FairApiSpec == ApiSpec /\ Fairness
-----------------------------------------------------------------------------
\* A page never has more rows than the total beside it, although both are read
\* in sessions of their own - except a page of threads of which another user's
\* call has taken one over in between.
PageWithinTotal ==
    [][Respond => request.shown <= Total \/ (request.of = None /\ request.lost)]_apiVars

\* A thread in which nobody else has written shows, when it is opened, at least
\* the messages the list has announced with its message_count: the redundant
\* counter never runs ahead of the rows.
AnnouncedMessagesShown ==
    [][Respond /\ request.of # None =>
          LET t == request.of IN
          MessagesOf(t) = MessagesBy(t, Reader) /\ listed[t] # None => Total >= listed[t]]_apiVars
=============================================================================
