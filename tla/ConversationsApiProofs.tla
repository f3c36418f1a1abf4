----------------------- MODULE ConversationsApiProofs -----------------------
(***************************************************************************)
(* Proofs about ConversationsApi, for any store, reader and limit: the     *)
(* store beneath the reads is the store, so that its theorems hold here;   *)
(* and what a list shows agrees with what it counts, although the two are  *)
(* read at different times.                                                *)
(***************************************************************************)
EXTENDS ConversationsApi, ConversationStoreProofs

\* Reading changes nothing.
LEMMA ApiStepIsStoreStep == [ApiNext]_apiVars => [Next]_vars
BY DEF ApiNext, apiVars, vars, ListThreads, ListMessages, Respond, StoreStep

\* The store under its readers is the store, with all that is proved of it.
THEOREM ApiImplementsStore == ApiSpec => Spec
<1>1. ApiInit => Init
  BY DEF ApiInit
<1> QED BY <1>1, ApiStepIsStoreStep, PTL DEF ApiSpec, Spec

-----------------------------------------------------------------------------
(* What a request knows between its two reads.                             *)

Created == {t \in Threads : threads[t] # None}

\* A page is part of what can be counted now: rows are only added, and a page
\* of threads is marked when the reader loses one.
PageInv ==
    /\ IsFiniteSet(Created)
    /\ request # None =>
         /\ request \in [of : Threads \cup {None}, shown : Nat, lost : BOOLEAN]
         /\ request.of = None =>
                request.lost \/ request.shown <= Cardinality(ThreadsOf(Reader))
         /\ request.of # None => request.shown <= Cardinality(MessagesBy(request.of, Reader))

\* A message_count the list has shown was the number of rows then.
ListedInv ==
    \A t \in Threads :
        listed[t] # None => listed[t] \in Nat /\ listed[t] <= Cardinality(MessagesOf(t))

ApiInv == PageInv /\ ListedInv

\* Before the first request there is nothing to agree on.
LEMMA ApiInitInv == ApiInit => ApiInv
<1> SUFFICES ASSUME ApiInit PROVE ApiInv
  OBVIOUS
<1>1. Created = {} /\ request = None /\ \A t \in Threads : listed[t] = None
  BY DEF ApiInit, Init, Created, NoRow
<1> QED BY <1>1, FS_EmptySet DEF ApiInv, PageInv, ListedInv

\* The sets that are counted are finite.
LEMMA CountedFinite ==
    ASSUME StoreInv, IsFiniteSet(Created), NEW t, NEW u
    PROVE  /\ IsFiniteSet(ThreadsOf(u)) /\ Cardinality(ThreadsOf(u)) \in Nat
           /\ IsFiniteSet(MessagesOf(t)) /\ Cardinality(MessagesOf(t)) \in Nat
           /\ IsFiniteSet(MessagesBy(t, u)) /\ Cardinality(MessagesBy(t, u)) \in Nat
<1>1. IsFiniteSet(messages)
  BY DEF StoreInv, MessagesInv
<1>2. ThreadsOf(u) \subseteq Created
  BY DEF ThreadsOf, Created
<1>3. MessagesOf(t) \subseteq messages /\ MessagesBy(t, u) \subseteq messages
  BY DEF MessagesOf, MessagesBy
<1>4. IsFiniteSet(ThreadsOf(u)) /\ IsFiniteSet(MessagesOf(t)) /\ IsFiniteSet(MessagesBy(t, u))
  BY <1>1, <1>2, <1>3, FS_Subset
<1> QED BY <1>4, FS_CardinalityType

\* A page has no more rows than the set it is taken from.
LEMMA PageFits ==
    ASSUME NEW rows, IsFiniteSet(rows), NEW page \in Page(rows)
    PROVE  Cardinality(page) \in Nat /\ Cardinality(page) <= Cardinality(rows)
<1>1. page \subseteq rows
  BY DEF Page
<1> QED BY <1>1, FS_Subset, FS_CardinalityType

\* The store adds messages and threads and takes none away.
LEMMA RowsStay ==
    ASSUME StoreInv, IsFiniteSet(Created), [Next]_vars
    PROVE  messages \subseteq messages' /\ IsFiniteSet(Created')
<1> USE DEF StoreInv, TypeOK
<1>1. ASSUME NEW t \in Threads, NEW u \in Users, CreateThread(t, u)
      PROVE  messages \subseteq messages' /\ IsFiniteSet(Created')
  <2>1. messages' = messages /\ Created' \subseteq Created \cup {t}
    BY <1>1 DEF CreateThread, Created
  <2> QED BY <2>1, FS_AddElement, FS_Subset
<1>2. ASSUME NEW c \in Calls, CommitMessage(c) \/ CommitSummary(c)
      PROVE  messages \subseteq messages' /\ IsFiniteSet(Created')
  <2>1. messages \subseteq messages' /\ Created' \subseteq Created \cup {arg[c].thread}
    BY <1>2 DEF CommitMessage, CommitSummary, Publish, Created
  <2> QED BY <2>1, FS_AddElement, FS_Subset
<1>3. CASE messages' = messages /\ threads' = threads
  BY <1>3 DEF Created
<1> QED
  BY <1>1, <1>2, <1>3 DEF Next, Progress, BeginAppend, BeginSummary, BeginCall, Upsert, InsertRow,
     CountMessage, RejectSummary, Abort, Rollback, Done, vars

\* What was counted of a thread's messages is counted later, too.
LEMMA CountsGrow ==
    ASSUME StoreInv, StoreInv', IsFiniteSet(Created), [Next]_vars, NEW t, NEW u
    PROVE  /\ Cardinality(MessagesOf(t)) <= Cardinality(MessagesOf(t)')
           /\ Cardinality(MessagesBy(t, u)) <= Cardinality(MessagesBy(t, u)')
           /\ Cardinality(MessagesOf(t)) \in Nat /\ Cardinality(MessagesOf(t)') \in Nat
           /\ Cardinality(MessagesBy(t, u)) \in Nat /\ Cardinality(MessagesBy(t, u)') \in Nat
<1>1. messages \subseteq messages' /\ IsFiniteSet(messages')
  BY RowsStay DEF StoreInv, MessagesInv
<1>2. /\ MessagesOf(t) \subseteq MessagesOf(t)' /\ MessagesOf(t)' \subseteq messages'
      /\ MessagesBy(t, u) \subseteq MessagesBy(t, u)' /\ MessagesBy(t, u)' \subseteq messages'
  BY <1>1 DEF MessagesOf, MessagesBy
<1> QED BY <1>1, <1>2, FS_Subset, FS_CardinalityType

\* Every step of the store and of the reader keeps the two in agreement.
LEMMA ApiStepInv == StoreInv /\ StoreInv' /\ ApiInv /\ [ApiNext]_apiVars => ApiInv'
<1> SUFFICES ASSUME StoreInv, StoreInv', ApiInv, [ApiNext]_apiVars PROVE ApiInv'
  OBVIOUS
<1> USE ApiAssumption DEF ApiInv
<1>1. IsFiniteSet(Created)
  BY DEF PageInv
<1>2. CASE ListThreads
  <2>1. PICK page \in Page(ThreadsOf(Reader)) :
           /\ request' = Paged(None, page)
           /\ listed' = [t \in Threads |-> IF t \in page THEN threads[t].count ELSE None]
    BY <1>2 DEF ListThreads
  <2>2. page \subseteq ThreadsOf(Reader) /\ UNCHANGED vars
    BY <1>2 DEF ListThreads, Page
  <2>3. Cardinality(page) \in Nat /\ Cardinality(page) <= Cardinality(ThreadsOf(Reader))
    BY <1>1, CountedFinite, PageFits
  <2>4. PageInv'
    BY <1>1, <2>1, <2>2, <2>3 DEF PageInv, Paged, Created, ThreadsOf, vars
  <2>5. ListedInv'
    <3> SUFFICES ASSUME NEW t \in Threads, listed'[t] # None
                 PROVE  listed'[t] \in Nat /\ listed'[t] <= Cardinality(MessagesOf(t)')
      BY DEF ListedInv
    <3>1. listed'[t] = threads[t].count /\ threads[t] # None
      BY <2>1, <2>2 DEF ThreadsOf
    <3>2. threads[t].count = Cardinality(MessagesOf(t)) /\ MessagesOf(t)' = MessagesOf(t)
      BY <2>2, <3>1 DEF StoreInv, CountMatchesRows, MessagesOf, vars
    <3>3. Cardinality(MessagesOf(t)) \in Nat
      BY <1>1, CountedFinite
    <3> QED BY <3>1, <3>2, <3>3
  <2> QED BY <2>4, <2>5
<1>3. ASSUME NEW t \in Threads, ListMessages(t) PROVE ApiInv'
  <2>1. PICK page \in Page(MessagesBy(t, Reader)) : request' = Paged(t, page)
    BY <1>3 DEF ListMessages, NewestPage
  <2>2. UNCHANGED <<vars, listed>>
    BY <1>3 DEF ListMessages
  <2>3. Cardinality(page) \in Nat /\ Cardinality(page) <= Cardinality(MessagesBy(t, Reader))
    BY <1>1, CountedFinite, PageFits
  <2>4. PageInv'
    BY <1>1, <2>1, <2>2, <2>3 DEF PageInv, Paged, Created, MessagesBy, MessagesOf, vars
  <2>5. ListedInv'
    BY <2>2 DEF ListedInv, MessagesOf, vars
  <2> QED BY <2>4, <2>5
<1>4. CASE StoreStep
  <2>1. [Next]_vars /\ listed' = listed
    BY <1>4 DEF StoreStep
  <2>2. IsFiniteSet(Created')
    BY <1>1, <2>1, RowsStay
  <2>3. ListedInv'
    <3> SUFFICES ASSUME NEW t \in Threads, listed[t] # None
                 PROVE  listed[t] \in Nat /\ listed[t] <= Cardinality(MessagesOf(t)')
      BY <2>1 DEF ListedInv
    <3>1. listed[t] \in Nat /\ listed[t] <= Cardinality(MessagesOf(t))
      BY DEF ListedInv
    <3>2. Cardinality(MessagesOf(t)) <= Cardinality(MessagesOf(t)')
      BY <1>1, <2>1, CountsGrow
    <3>3. Cardinality(MessagesOf(t)) \in Nat /\ Cardinality(MessagesOf(t)') \in Nat
      BY <1>1, <2>1, CountsGrow
    <3> QED BY <3>1, <3>2, <3>3
  <2>4. CASE request = None
    BY <1>4, <2>2, <2>3, <2>4 DEF StoreStep, PageInv
  <2>5. CASE request # None
    <3>1. /\ request \in [of : Threads \cup {None}, shown : Nat, lost : BOOLEAN]
          /\ request' = [request EXCEPT
                !.lost = @ \/ ~(ThreadsOf(Reader) \subseteq ThreadsOf(Reader)')]
      BY <1>4, <2>5 DEF StoreStep, PageInv
    <3>2. ASSUME request.of = None, ~request'.lost
          PROVE  request.shown <= Cardinality(ThreadsOf(Reader)')
      <4>1. ~request.lost /\ ThreadsOf(Reader) \subseteq ThreadsOf(Reader)'
        BY <3>1, <3>2
      <4>2. request.shown <= Cardinality(ThreadsOf(Reader))
        BY <2>5, <3>2, <4>1 DEF PageInv
      <4>3. ThreadsOf(Reader)' \subseteq Created' /\ IsFiniteSet(ThreadsOf(Reader)')
        BY <2>2, FS_Subset DEF ThreadsOf, Created
      <4> QED BY <3>1, <4>1, <4>2, <4>3, FS_Subset, FS_CardinalityType
    <3>3. ASSUME request.of # None
          PROVE  request.shown <= Cardinality(MessagesBy(request.of, Reader)')
      <4>1. request.shown <= Cardinality(MessagesBy(request.of, Reader))
        BY <2>5, <3>3 DEF PageInv
      <4> QED BY <1>1, <2>1, <3>1, <4>1, CountsGrow
    <3> QED BY <2>2, <2>3, <3>1, <3>2, <3>3 DEF PageInv
  <2> QED BY <2>4, <2>5
<1>5. CASE Respond
  <2>1. request' = None /\ UNCHANGED <<vars, listed>>
    BY <1>5 DEF Respond
  <2> QED BY <1>1, <2>1 DEF PageInv, ListedInv, Created, MessagesOf, vars
<1>6. CASE UNCHANGED apiVars
  BY <1>6 DEF apiVars, PageInv, ListedInv, Created, ThreadsOf, MessagesBy, MessagesOf
<1> QED BY <1>2, <1>3, <1>4, <1>5, <1>6 DEF ApiNext

-----------------------------------------------------------------------------
\* The invariant, with that of the store, holds in every reachable state.
LEMMA ApiInvariant == ApiSpec => [](StoreInv /\ ApiInv)
<1>1. ApiSpec => []StoreInv
  BY ApiImplementsStore, StoreInvariant, PTL
<1>2. ApiSpec => ApiInit /\ [][ApiNext]_apiVars
  BY DEF ApiSpec
<1> QED BY <1>1, <1>2, ApiInitInv, ApiStepInv, PTL

\* The page of a response never has more rows than the total beside it, unless
\* another user's call has taken a thread of the reader over between the reads.
THEOREM PagesFitTotals == ApiSpec => PageWithinTotal
<1>1. ApiInv /\ Respond => request.shown <= Total \/ (request.of = None /\ request.lost)
  BY DEF ApiInv, PageInv, Respond, Total
<1> QED BY <1>1, ApiInvariant, PTL DEF PageWithinTotal

\* A thread in which nobody else has written shows at least the messages the list
\* has announced.
THEOREM AnnouncedAreShown == ApiSpec => AnnouncedMessagesShown
<1>1. ASSUME StoreInv, ApiInv, Respond, request.of # None,
             MessagesOf(request.of) = MessagesBy(request.of, Reader), listed[request.of] # None
      PROVE  Total >= listed[request.of]
  <2>1. request.of \in Threads /\ IsFiniteSet(Created)
    BY <1>1 DEF ApiInv, PageInv, Respond
  <2>2. /\ listed[request.of] \in Nat
        /\ listed[request.of] <= Cardinality(MessagesOf(request.of))
    BY <1>1, <2>1 DEF ApiInv, ListedInv
  <2>3. Cardinality(MessagesOf(request.of)) \in Nat
    BY <1>1, <2>1, CountedFinite
  <2> QED BY <1>1, <2>2, <2>3 DEF Total
<1> QED BY <1>1, ApiInvariant, PTL DEF AnnouncedMessagesShown
=============================================================================
