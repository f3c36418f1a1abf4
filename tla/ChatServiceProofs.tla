-------------------------- MODULE ChatServiceProofs --------------------------
(***************************************************************************)
(* Proofs about ChatService, for any number of requests, any overlap and   *)
(* any loss of checkpoints.                                                *)
(***************************************************************************)
EXTENDS ChatService, RanksProofs, FiniteSetTheorems, SequenceTheorems, WellFoundedInduction, TLAPS

(* The inductive invariant.                                                *)

\* The id of a message tells its role, and who has asked a question.
Proper ==
    {m \in Message : /\ m.role = m.id[2]
                     /\ m.role = "user" => m.by = m.id[1] /\ m.to = m.id[1]}

PcValues ==
    Ended \cup {"idle", "asking", "asked", "restoring", "prepared", "running", "thinking",
                "ended", "replying", "stored"}

BeforeRun == {"idle", "asking", "asked", "restoring", "prepared"}

InRun == {"running", "thinking", "ended"}

Distinct(messages) ==
    \A i, j \in DOMAIN messages : messages[i].id = messages[j].id => i = j

HoldsId(messages, id) == \E i \in DOMAIN messages : messages[i].id = id

EndsWithQuestion(messages, r) ==
    /\ messages # <<>>
    /\ messages[Len(messages)].role = "user" /\ messages[Len(messages)].by = r

\* TypeOK, with messages that are Proper, and the thread has a book.
TypeInv ==
    /\ clock \in Nat /\ losses \in 0..MaxLosses /\ overlapped \subseteq Requests
    /\ book = [t \in {Thread} |-> book[t]]
    /\ IsFiniteSet(Rows)
    /\ Rows \subseteq [id : RowIds, owner : Requests, at : Nat, holds : Proper]
    /\ pc \in [Requests -> PcValues]
    /\ stamp \in [Requests -> Nat]
    /\ question \in [Requests -> Requests \cup {None}]
    /\ content \in [Requests -> Message \cup {None}]
    /\ ckpt \in Seq(Proper)
    /\ input \in [Requests -> Seq(Proper)]
    /\ local \in [Requests -> Seq(Proper)]

\* A row is named for the request that has stored it and for its role, and no
\* two rows have one name or one time.
RowsInv ==
    /\ \A x \in Rows :
           /\ x.at < clock
           /\ x.id = RowId(x.owner, x.holds.role) /\ x.holds.id = x.id
           /\ IF x.holds.role = "user" THEN pc[x.owner] \notin {"idle", "asking"}
              ELSE pc[x.owner] \in {"stored", "done", "failed"}
    /\ \A x, y \in Rows : x.at = y.at \/ x.id = y.id => x = y

Stamped(r) == pc[r] \in {"asking", "replying"}

\* The time of a row that is still to be stored is nobody else's.
StampInv ==
    \A r \in Requests :
        Stamped(r) =>
            /\ stamp[r] < clock
            /\ \A x \in Rows : x.at # stamp[r]
            /\ \A q \in Requests : Stamped(q) /\ stamp[q] = stamp[r] => q = r

\* The row of a request's question, stamped before the reply is.
AskedInv ==
    \A r \in Requests :
        pc[r] \notin {"idle", "asking", "failed"} =>
            \E y \in Rows :
                /\ y.owner = r /\ y.holds.role = "user"
                /\ IF pc[r] \in {"replying", "stored", "done"} THEN y.at < stamp[r]
                   ELSE y.at = stamp[r]

\* No message is twice in a list, and no reply is there before it is given.
Known(id) ==
    \/ HoldsId(ckpt, id)
    \/ \E q \in Requests : HoldsId(input[q], id) \/ HoldsId(local[q], id)

IdsInv ==
    /\ Distinct(ckpt)
    /\ \A r \in Requests : Distinct(input[r]) /\ Distinct(local[r])
    /\ \A r \in Requests :
           pc[r] \in BeforeRun \cup {"running", "thinking"} => ~Known(GraphId(r, "assistant"))

\* The question of a request is in what its run is given and works on, if newer
\* rows have not outrun it, and a run ends with a reply.
RunOf(r) ==
    /\ pc[r] = "prepared" => Holds(input[r], r, "user") \/ Outrun(r)
    /\ pc[r] \in InRun => Holds(local[r], r, "user") \/ Outrun(r)
    /\ pc[r] = "ended" =>
           /\ local[r] # <<>>
           /\ Last(local[r]) = Reply(GraphId(r, "assistant"), r, question[r])
    /\ pc[r] = "replying" =>
           content[r] \in Message /\ (r \notin Streaming => content[r].by = r)

RunInv == \A r \in Requests : RunOf(r)

\* Requests that are in flight together are overlapped.
SoleInv ==
    \A r, q \in Requests : r # q /\ InFlight(r) /\ InFlight(q) => r \in overlapped

\* Nobody knows the question of a request that has not asked; the checkpoint
\* does not hold that of a request which has the thread to itself and has not
\* started its run.
Heard(r) == \E q \in Requests : Holds(input[q], r, "user") \/ Holds(local[q], r, "user")

NewInv ==
    \A r \in Requests :
        /\ pc[r] = "idle" \/ (r \notin overlapped /\ pc[r] \in BeforeRun) =>
               ~Holds(ckpt, r, "user")
        /\ pc[r] = "idle" => ~Heard(r)

\* A request that has the thread to itself: its question is the latest row,
\* then the last of its input, once, then what its run reads and answers.
AloneOf(r) ==
    /\ pc[r] \in {"asking", "asked", "restoring"} => \A x \in Rows : x.at <= stamp[r]
    /\ pc[r] = "prepared" => EndsWithQuestion(input[r], r) /\ OnceAsked(input[r], r)
    /\ pc[r] \in {"running", "thinking"} => EndsWithQuestion(local[r], r)
    /\ pc[r] \in {"thinking", "ended"} => question[r] = r
    /\ pc[r] = "ended" => ckpt \in {<<>>, local[r]}
    /\ pc[r] = "replying" => content[r].by = r /\ content[r].to = r
    /\ OnceAsked(local[r], r)

AloneInv == \A r \in Requests \ overlapped : AloneOf(r)

HoldsExchange(messages, r) == Holds(messages, r, "user") /\ Holds(messages, r, "assistant")

\* The question of a request is known by the id of its row or by the one the
\* graph gives it: by the latter only if the input is the question alone, and
\* then not by the former, as long as the request had the thread to itself and
\* the checkpoint it found lives.
OnceOf(r) ==
    /\ pc[r] \in {"idle", "asking", "asked", "restoring"} => input[r] = <<>>
    /\ Known(GraphId(r, "user")) => input[r] = Question(r)
    /\ \/ pc[r] \in {"idle", "asking"}
       \/ r \notin overlapped /\ pc[r] \in {"asked", "restoring"}
       => ~Known(RowId(r, "user"))
    /\ r \notin overlapped /\ losses = 0 /\ input[r] = Question(r) =>
           /\ ckpt # <<>> /\ ~Known(RowId(r, "user"))
           /\ \A q \in Requests :
                  pc[q] # "restoring" /\ (pc[q] \in InRun => local[q] # <<>>)

OnceInv == \A r \in Requests : OnceOf(r)

\* Until a checkpoint is lost, the exchange of such a request stays in the
\* latest one and in every run that starts from it.
KeptInv ==
    losses = 0 =>
        \A r \in Requests \ overlapped :
            pc[r] \in {"ended", "replying", "stored", "done"} =>
                /\ HoldsExchange(ckpt, r)
                /\ \A q \in Requests : q # r /\ pc[q] \in InRun => HoldsExchange(local[q], r)

Asked(r) == \E y \in Rows : y.owner = r /\ y.holds.role = "user"

AboutAsked(messages) ==
    \A i \in DOMAIN messages : messages[i].to # None => Asked(messages[i].to)

\* Whatever is said, the question it is about has been stored, and before the
\* time that is read for the row of a reply.
AboutInv ==
    /\ AboutAsked(ckpt)
    /\ \A x \in Rows : x.holds.to # None => Asked(x.holds.to)
    /\ \A r \in Requests :
           /\ AboutAsked(input[r]) /\ AboutAsked(local[r])
           /\ question[r] # None => Asked(question[r])
           /\ pc[r] = "replying" /\ content[r].to # None =>
                  QuestionBefore(content[r].to, stamp[r])

ServiceInv ==
    /\ TypeInv
    /\ RowsInv
    /\ StampInv
    /\ AskedInv
    /\ IdsInv
    /\ RunInv
    /\ SoleInv
    /\ NewInv
    /\ AloneInv
    /\ OnceInv
    /\ KeptInv
    /\ AboutInv
    /\ RepliesFollowQuestions
    /\ BlockingReplyIsOwn
    /\ AnswersOwnQuestion
-----------------------------------------------------------------------------
(* What the operators on messages return.                                  *)

\* What follows the old messages in s are the new ones that h says.
Placed(old, new, s, h) ==
    /\ \A i \in (Len(old) + 1)..Len(s) : s[i] = new[h[i]] /\ ~HoldsId(old, new[h[i]].id)
    /\ \A i, j \in (Len(old) + 1)..Len(s) : i < j => h[i] < h[j]
    /\ \A k \in DOMAIN new :
           ~HoldsId(old, new[k].id) => \E i \in (Len(old) + 1)..Len(s) : h[i] = k

\* add_messages keeps the messages that are there, and what follows them are the
\* new ones whose ids are not there, each in its turn.
LEMMA AddedMessages ==
    ASSUME NEW M, NEW old \in Seq(M), NEW new \in Seq(M)
    PROVE  LET s == AddMessages(old, new) IN
           /\ s \in Seq(M) /\ Len(old) <= Len(s)
           /\ \A i \in 1..Len(old) : s[i] = old[i]
           /\ \E h \in [(Len(old) + 1)..Len(s) -> DOMAIN new] : Placed(old, new, s, h)
<1> DEFINE ids == {old[i].id : i \in DOMAIN old}
           fresh == {i \in DOMAIN new : new[i].id \notin ids}
           N == Cardinality(fresh)
           t == [n \in 1..N |-> new[Nth(fresh, n)]]
           s == AddMessages(old, new)
           h == [i \in (Len(old) + 1)..Len(s) |-> Nth(fresh, i - Len(old))]
<1>1. /\ Len(old) \in Nat /\ DOMAIN old = 1..Len(old)
      /\ Len(new) \in Nat /\ DOMAIN new = 1..Len(new)
  OBVIOUS
<1>2. fresh \in SUBSET Nat /\ IsFiniteSet(fresh)
  <2>1. fresh \subseteq 1..Len(new) /\ 1..Len(new) \subseteq Nat
    BY <1>1
  <2>2. IsFiniteSet(1..Len(new))
    BY <1>1, FS_Interval
  <2> HIDE DEF fresh
  <2> QED BY <2>1, <2>2, FS_Subset
<1>3. fresh = {k \in DOMAIN new : ~HoldsId(old, new[k].id)}
  BY DEF HoldsId
<1>4. s = old \o t
  BY DEF AddMessages
<1> HIDE DEF fresh
<1>5. /\ N \in Nat
      /\ \A n \in 1..N : Nth(fresh, n) \in fresh
      /\ \A m, n \in 1..N : m < n => Nth(fresh, m) < Nth(fresh, n)
      /\ \A i \in fresh : \E n \in 1..N : Nth(fresh, n) = i
  BY <1>2, NthEnumerates
<1> HIDE DEF N
<1>6. fresh \subseteq DOMAIN new
  BY <1>3
<1>7. \A n \in 1..N : new[Nth(fresh, n)] \in M
  BY <1>1, <1>5, <1>6
<1>8. t \in Seq(M) /\ Len(t) = N
  BY <1>5, <1>7
<1>9. \A n \in 1..N : t[n] = new[Nth(fresh, n)]
  OBVIOUS
<1> HIDE DEF t, s
<1>10. /\ s \in Seq(M) /\ Len(s) = Len(old) + N
       /\ \A i \in 1..Len(old) : s[i] = old[i]
       /\ \A i \in (Len(old) + 1)..Len(s) : s[i] = t[i - Len(old)]
  <2>1. /\ s \in Seq(M) /\ Len(s) = Len(old) + Len(t)
        /\ \A i \in 1..(Len(old) + Len(t)) :
               s[i] = IF i <= Len(old) THEN old[i] ELSE t[i - Len(old)]
    BY <1>4, <1>8, ConcatProperties
  <2> QED BY <1>1, <1>5, <1>8, <2>1
<1>11. \A i \in (Len(old) + 1)..Len(s) : i - Len(old) \in 1..N
  BY <1>1, <1>5, <1>10
<1>12. h \in [(Len(old) + 1)..Len(s) -> DOMAIN new]
  BY <1>5, <1>6, <1>11
<1>13. \A i \in (Len(old) + 1)..Len(s) : s[i] = new[h[i]] /\ ~HoldsId(old, new[h[i]].id)
  BY <1>3, <1>5, <1>9, <1>10, <1>11
<1>14. \A i, j \in (Len(old) + 1)..Len(s) : i < j => h[i] < h[j]
  BY <1>1, <1>5, <1>11
<1>15. ASSUME NEW k \in DOMAIN new, ~HoldsId(old, new[k].id)
       PROVE  \E i \in (Len(old) + 1)..Len(s) : h[i] = k
  <2>1. PICK n \in 1..N : Nth(fresh, n) = k
    BY <1>3, <1>5, <1>15
  <2>2. Len(old) + n \in (Len(old) + 1)..Len(s) /\ (Len(old) + n) - Len(old) = n
    BY <1>1, <1>5, <1>10
  <2>3. h[Len(old) + n] = k
    BY <2>1, <2>2
  <2> QED BY <2>2, <2>3
<1>16. Len(old) <= Len(s)
  BY <1>1, <1>5, <1>10
<1>17. Placed(old, new, s, h)
  BY <1>13, <1>14, <1>15 DEF Placed
<1> QED BY <1>10, <1>12, <1>16, <1>17 DEF s

\* Added messages bring no id that neither list has, and none twice.
LEMMA AddedIds ==
    ASSUME NEW M, NEW old \in Seq(M), NEW new \in Seq(M)
    PROVE  /\ \A id : HoldsId(AddMessages(old, new), id) => HoldsId(old, id) \/ HoldsId(new, id)
           /\ Distinct(old) /\ Distinct(new) => Distinct(AddMessages(old, new))
<1> DEFINE s == AddMessages(old, new)
           Tail1 == (Len(old) + 1)..Len(s)
<1>1. /\ s \in Seq(M) /\ Len(old) <= Len(s)
      /\ \A i \in 1..Len(old) : s[i] = old[i]
  BY AddedMessages
<1>2a. PICK h \in [Tail1 -> DOMAIN new] : Placed(old, new, s, h)
  BY AddedMessages
<1>2. /\ \A i \in Tail1 : s[i] = new[h[i]] /\ ~HoldsId(old, new[h[i]].id)
      /\ \A i, j \in Tail1 : i < j => h[i] < h[j]
  BY <1>2a DEF Placed
<1>3. /\ Len(old) \in Nat /\ DOMAIN old = 1..Len(old)
      /\ Len(s) \in Nat /\ DOMAIN s = 1..Len(s)
      /\ DOMAIN new \subseteq Nat
  BY <1>1
<1> HIDE DEF s
<1>4. \A i \in DOMAIN s : i \in DOMAIN old \/ i \in Tail1
  BY <1>1, <1>3
<1>5. ASSUME NEW id, HoldsId(s, id) PROVE HoldsId(old, id) \/ HoldsId(new, id)
  <2>1. PICK i \in DOMAIN s : s[i].id = id
    BY <1>5 DEF HoldsId
  <2>2. CASE i \in DOMAIN old
    BY <1>1, <1>3, <2>1, <2>2 DEF HoldsId
  <2>3. CASE i \in Tail1
    <3>1. h[i] \in DOMAIN new /\ new[h[i]].id = id
      BY <1>2, <2>1, <2>3
    <3> QED BY <3>1 DEF HoldsId
  <2> QED BY <1>4, <2>2, <2>3
<1>6. ASSUME Distinct(old), Distinct(new), NEW i \in DOMAIN s, NEW j \in DOMAIN s,
             s[i].id = s[j].id
      PROVE  i = j
  <2>1. CASE i \in DOMAIN old /\ j \in DOMAIN old
    BY <1>1, <1>3, <1>6, <2>1 DEF Distinct
  <2>2. ASSUME NEW k \in DOMAIN old, NEW l \in Tail1 PROVE s[k].id # s[l].id
    BY <1>1, <1>2, <1>3 DEF HoldsId
  <2>3. CASE i \in Tail1 /\ j \in Tail1
    <3>1. h[i] \in DOMAIN new /\ h[j] \in DOMAIN new /\ h[i] = h[j]
      BY <1>2, <1>6, <2>3 DEF Distinct
    <3>2. ~(i < j) /\ ~(j < i)
      BY <1>2, <1>3, <2>3, <3>1
    <3> QED BY <1>3, <2>3, <3>2
  <2> QED BY <1>4, <1>6, <2>1, <2>2, <2>3
<1> QED BY <1>5, <1>6 DEF s, Distinct

\* Added messages hold what either list holds and nothing else: a question that
\* is replaced is replaced by itself.
LEMMA AddedHolds ==
    ASSUME NEW old \in Seq(Proper), NEW new \in Seq(Proper), NEW r
    PROVE  /\ \A role : Holds(old, r, role) => Holds(AddMessages(old, new), r, role)
           /\ Holds(new, r, "user") => Holds(AddMessages(old, new), r, "user")
           /\ \A role : Holds(AddMessages(old, new), r, role) =>
                            Holds(old, r, role) \/ Holds(new, r, role)
<1> DEFINE s == AddMessages(old, new)
           Tail1 == (Len(old) + 1)..Len(s)
<1>1. /\ s \in Seq(Proper) /\ Len(old) <= Len(s)
      /\ \A i \in 1..Len(old) : s[i] = old[i]
  BY AddedMessages
<1>2a. PICK h \in [Tail1 -> DOMAIN new] : Placed(old, new, s, h)
  BY AddedMessages
<1>2. /\ \A i \in Tail1 : s[i] = new[h[i]] /\ ~HoldsId(old, new[h[i]].id)
      /\ \A i, j \in Tail1 : i < j => h[i] < h[j]
      /\ \A k \in DOMAIN new : ~HoldsId(old, new[k].id) => \E i \in Tail1 : h[i] = k
  BY <1>2a DEF Placed
<1>3. /\ Len(old) \in Nat /\ DOMAIN old = 1..Len(old)
      /\ Len(s) \in Nat /\ DOMAIN s = 1..Len(s)
      /\ \A i \in DOMAIN old : old[i] \in Proper
      /\ \A i \in DOMAIN new : new[i] \in Proper
  BY <1>1
<1> HIDE DEF s
<1>4. /\ DOMAIN old \subseteq DOMAIN s /\ Tail1 \subseteq DOMAIN s
      /\ \A i \in DOMAIN s : i \in DOMAIN old \/ i \in Tail1
  BY <1>1, <1>3
<1>5. ASSUME NEW role, Holds(old, r, role) PROVE Holds(s, r, role)
  <2>1. PICK i \in DOMAIN old : old[i].role = role /\ old[i].by = r
    BY <1>5 DEF Holds
  <2>2. i \in DOMAIN s /\ s[i] = old[i]
    BY <1>1, <1>3, <1>4
  <2> QED BY <2>1, <2>2 DEF Holds
<1>6. ASSUME Holds(new, r, "user") PROVE Holds(s, r, "user")
  <2>1. PICK k \in DOMAIN new : new[k].role = "user" /\ new[k].by = r
    BY <1>6 DEF Holds
  <2>2. CASE HoldsId(old, new[k].id)
    <3>1. PICK i \in DOMAIN old : old[i].id = new[k].id
      BY <2>2 DEF HoldsId
    <3>2. old[i].role = "user" /\ old[i].by = r
      BY <1>3, <2>1, <3>1 DEF Proper
    <3> QED BY <1>5, <3>2 DEF Holds
  <2>3. CASE ~HoldsId(old, new[k].id)
    <3>1. PICK i \in Tail1 : h[i] = k
      BY <1>2, <2>3
    <3> QED BY <1>2, <1>4, <2>1, <3>1 DEF Holds
  <2> QED BY <2>2, <2>3
<1>7. ASSUME NEW role, Holds(s, r, role) PROVE Holds(old, r, role) \/ Holds(new, r, role)
  <2>1. PICK i \in DOMAIN s : s[i].role = role /\ s[i].by = r
    BY <1>7 DEF Holds
  <2>2. CASE i \in DOMAIN old
    BY <1>1, <1>3, <2>1, <2>2 DEF Holds
  <2>3. CASE i \in Tail1
    <3>1. h[i] \in DOMAIN new /\ new[h[i]].role = role /\ new[h[i]].by = r
      BY <1>2, <2>1, <2>3
    <3> QED BY <3>1 DEF Holds
  <2> QED BY <1>4, <2>2, <2>3
<1> QED BY <1>5, <1>6, <1>7 DEF s

\* A question that is not there yet is added once if it comes once, and last if
\* it comes last.
LEMMA AddedQuestion ==
    ASSUME NEW old \in Seq(Proper), NEW new \in Seq(Proper), NEW r, ~Holds(old, r, "user")
    PROVE  /\ EndsWithQuestion(new, r) => EndsWithQuestion(AddMessages(old, new), r)
           /\ OnceAsked(new, r) => OnceAsked(AddMessages(old, new), r)
<1> DEFINE s == AddMessages(old, new)
           Tail1 == (Len(old) + 1)..Len(s)
<1>1. /\ s \in Seq(Proper) /\ Len(old) <= Len(s)
      /\ \A i \in 1..Len(old) : s[i] = old[i]
  BY AddedMessages
<1>2a. PICK h \in [Tail1 -> DOMAIN new] : Placed(old, new, s, h)
  BY AddedMessages
<1>2. /\ \A i \in Tail1 : s[i] = new[h[i]] /\ ~HoldsId(old, new[h[i]].id)
      /\ \A i, j \in Tail1 : i < j => h[i] < h[j]
      /\ \A k \in DOMAIN new : ~HoldsId(old, new[k].id) => \E i \in Tail1 : h[i] = k
  BY <1>2a DEF Placed
<1>3. /\ Len(old) \in Nat /\ DOMAIN old = 1..Len(old)
      /\ Len(new) \in Nat /\ DOMAIN new = 1..Len(new)
      /\ Len(s) \in Nat /\ DOMAIN s = 1..Len(s)
      /\ \A i \in DOMAIN old : old[i] \in Proper
      /\ \A i \in DOMAIN new : new[i] \in Proper
  BY <1>1
<1> HIDE DEF s
<1>4. ASSUME NEW i \in DOMAIN s, s[i].role = "user", s[i].by = r PROVE i \in Tail1
  BY <1>1, <1>3, <1>4 DEF Holds
<1>5. ASSUME EndsWithQuestion(new, r) PROVE EndsWithQuestion(s, r)
  <2> DEFINE k == Len(new)
  <2>1. k \in DOMAIN new /\ new[k].role = "user" /\ new[k].by = r
    BY <1>3, <1>5 DEF EndsWithQuestion
  <2>2. ~HoldsId(old, new[k].id)
    <3> SUFFICES ASSUME NEW i \in DOMAIN old, old[i].id = new[k].id PROVE FALSE
      BY DEF HoldsId
    <3>1. old[i].role = "user" /\ old[i].by = r
      BY <1>3, <2>1 DEF Proper
    <3> QED BY <3>1 DEF Holds
  <2>3. PICK i \in Tail1 : h[i] = k
    BY <1>2, <2>1, <2>2
  <2>4. Len(s) \in Tail1 /\ h[Len(s)] \in 1..k
    BY <1>2, <1>3, <2>3
  <2>5. ~(i < Len(s))
    BY <1>2, <1>3, <2>3, <2>4
  <2>6. i = Len(s) /\ s # <<>>
    BY <1>1, <1>3, <2>3, <2>5
  <2> QED BY <1>2, <2>1, <2>3, <2>6 DEF EndsWithQuestion
<1>6. ASSUME OnceAsked(new, r) PROVE OnceAsked(s, r)
  <2> SUFFICES ASSUME NEW i \in DOMAIN s, NEW j \in DOMAIN s,
                      s[i].role = "user", s[i].by = r, s[j].role = "user", s[j].by = r
               PROVE  i = j
    BY DEF OnceAsked
  <2>1. i \in Tail1 /\ j \in Tail1
    BY <1>4
  <2>2. h[i] = h[j]
    BY <1>2, <1>6, <2>1 DEF OnceAsked
  <2>3. ~(i < j) /\ ~(j < i)
    BY <1>2, <1>3, <2>1, <2>2
  <2> QED BY <1>3, <2>1, <2>3
<1> QED BY <1>5, <1>6 DEF s

\* The newest rows are rows, and the latest is one of them.
LEMMA NewestRows == Newest \subseteq Rows
BY DEF Newest

LEMMA LatestIsNewest ==
    ASSUME TypeInv, NEW x \in Rows, \A y \in Rows : y.at <= x.at
    PROVE  x \in Newest
<1>1. x.at \in Nat /\ \A y \in Rows : y.at \in Nat
  BY DEF TypeInv
<1>2. {y \in Rows : x.at < y.at} = {}
  BY <1>1
<1>3. Cardinality({y \in Rows : x.at < y.at}) < RestoreLimit
  BY <1>2, FS_EmptySet, ServiceAssumption
<1> QED BY <1>3 DEF Newest

\* Once newer rows have outrun a question, they always have.
LEMMA OutrunStays ==
    ASSUME TypeInv, TypeInv', Rows \subseteq Rows', NEW r, Outrun(r)
    PROVE  Outrun(r)'
<1>1. PICK x \in Rows :
          /\ x.owner = r /\ x.holds.role = "user"
          /\ Cardinality({y \in Rows : x.at < y.at}) >= RestoreLimit
  BY DEF Outrun
<1> DEFINE Y == {y \in Rows : x.at < y.at}
           Z == {y \in Rows' : x.at < y.at}
<1>2. Y \subseteq Z /\ Z \subseteq Rows'
  OBVIOUS
<1>3. IsFiniteSet(Rows')
  BY DEF TypeInv
<1> HIDE DEF Y, Z
<1>4. IsFiniteSet(Z)
  BY <1>2, <1>3, FS_Subset
<1>5. Cardinality(Y) <= Cardinality(Z) /\ IsFiniteSet(Y)
  BY <1>2, <1>4, FS_Subset
<1>6. Cardinality(Y) \in Nat /\ Cardinality(Z) \in Nat
  BY <1>4, <1>5, FS_CardinalityType
<1>7. Cardinality(Z) >= RestoreLimit
  BY <1>1, <1>5, <1>6, ServiceAssumption DEF Y
<1> QED BY <1>1, <1>7 DEF Outrun, Z

\* load_messages returns the rows of the thread, the earlier one first.
LEMMA LoadedMessages ==
    ASSUME TypeInv, RowsInv
    PROVE  /\ LoadMessages \in Seq(Proper)
           /\ \E h \in [DOMAIN LoadMessages -> Newest] :
                  /\ \A i \in DOMAIN LoadMessages : LoadMessages[i] = h[i].holds
                  /\ \A i, j \in DOMAIN LoadMessages : i < j => h[i].at < h[j].at
                  /\ \A x \in Newest : \E i \in DOMAIN LoadMessages : h[i] = x
<1> DEFINE R == Newest
           N == Cardinality(R)
           f == [x \in R |-> x.at]
           Rank(x) == Cardinality({y \in R : y.at < x.at})
           h == [i \in 1..N |-> CHOOSE x \in R : Rank(x) = i - 1]
           m == [i \in 1..N |-> [h[i].holds EXCEPT !.id = h[i].id]]
<1>1. /\ IsFiniteSet(R)
      /\ \A x \in R : x.at \in Nat /\ x.holds \in Proper /\ x.holds.id = x.id
      /\ \A x, y \in R : x.at = y.at => x = y
  <2>1. IsFiniteSet(Newest)
    BY NewestRows, FS_Subset DEF TypeInv
  <2> QED BY <2>1, NewestRows DEF TypeInv, RowsInv
<1>2. LoadMessages = m
  BY DEF LoadMessages
<1> HIDE DEF R
<1>3. f \in [R -> Nat] /\ \A x, y \in R : f[x] = f[y] => x = y
  BY <1>1
<1>4. ASSUME NEW x \in R PROVE {z \in R : f[z] < f[x]} = {y \in R : y.at < x.at}
  OBVIOUS
<1>5. /\ N \in Nat
      /\ \A n \in 1..N : \E x \in R : Rank(x) = n - 1
      /\ \A x \in R : Rank(x) + 1 \in 1..N
  <2> HIDE DEF f
  <2>1. /\ N \in Nat
        /\ \A n \in 1..N : \E x \in R : Cardinality({z \in R : f[z] < f[x]}) = n - 1
        /\ \A x \in R : Cardinality({z \in R : f[z] < f[x]}) + 1 \in 1..N
    BY <1>1, <1>3, RanksAreFilled
  <2> QED BY <1>4, <2>1
<1>6. ASSUME NEW x \in R, NEW y \in R, x.at < y.at PROVE Rank(x) < Rank(y)
  <2>1. f[x] < f[y]
    BY <1>6
  <2> HIDE DEF f
  <2>2. \A a, b \in R : f[a] < f[b] =>
            Cardinality({z \in R : f[z] < f[a]}) < Cardinality({z \in R : f[z] < f[b]})
    BY <1>1, <1>3, RankGrows
  <2>3. Cardinality({z \in R : f[z] < f[x]}) < Cardinality({z \in R : f[z] < f[y]})
    BY <2>1, <2>2
  <2> QED BY <1>4, <2>3
<1>7. ASSUME NEW x \in R PROVE Rank(x) \in Nat
  BY <1>1, FS_Subset, FS_CardinalityType
<1> HIDE DEF Rank, N, f
<1>8. ASSUME NEW i \in 1..N PROVE h[i] \in R /\ Rank(h[i]) = i - 1
  BY <1>5
<1>9. h \in [1..N -> R]
  BY <1>8
<1> HIDE DEF h
<1>10. ASSUME NEW i \in 1..N PROVE m[i] = h[i].holds
  <2>1. h[i].holds.id = h[i].id /\ h[i].holds \in Message
    BY <1>1, <1>8 DEF Proper
  <2>2. [h[i].holds EXCEPT !.id = h[i].holds.id] = h[i].holds
    BY <2>1 DEF Message
  <2> QED BY <2>1, <2>2
<1>11. m \in Seq(Proper) /\ DOMAIN m = 1..N
  <2>1. DOMAIN m = 1..N /\ \A i \in 1..N : m[i] \in Proper
    BY <1>1, <1>8, <1>10
  <2>2. m = [i \in 1..N |-> m[i]]
    OBVIOUS
  <2> HIDE DEF m
  <2>3. m \in [1..N -> Proper]
    BY <2>1, <2>2
  <2> QED BY <1>5, <2>1, <2>3, SeqDef
<1> HIDE DEF m
<1>12. ASSUME NEW i \in 1..N, NEW j \in 1..N, i < j PROVE h[i].at < h[j].at
  <2>1. h[i] \in R /\ h[j] \in R /\ Rank(h[i]) < Rank(h[j])
    BY <1>5, <1>8, <1>12
  <2>2. ~(h[j].at < h[i].at) /\ h[i].at # h[j].at
    BY <1>1, <1>6, <1>7, <2>1
  <2> QED BY <1>1, <2>1, <2>2
<1>13. ASSUME NEW x \in R PROVE \E i \in 1..N : h[i] = x
  <2> DEFINE i == Rank(x) + 1
  <2>1. i \in 1..N /\ i - 1 = Rank(x)
    BY <1>5, <1>7
  <2> HIDE DEF i
  <2>2. h[i] \in R /\ Rank(h[i]) = Rank(x)
    BY <1>8, <2>1
  <2>3. ~(h[i].at < x.at) /\ ~(x.at < h[i].at)
    BY <1>6, <1>7, <2>2
  <2>4. h[i] = x
    BY <1>1, <2>2, <2>3
  <2> QED BY <2>1, <2>4
<1>14. \E g \in [DOMAIN m -> R] :
           /\ \A i \in DOMAIN m : m[i] = g[i].holds
           /\ \A i, j \in DOMAIN m : i < j => g[i].at < g[j].at
           /\ \A x \in R : \E i \in DOMAIN m : g[i] = x
  <2>1. h \in [DOMAIN m -> R]
    BY <1>9, <1>11
  <2> QED BY <1>10, <1>11, <1>12, <1>13, <2>1
<1> QED BY <1>2, <1>11, <1>14 DEF R

\* Rows that are restored come with the ids of rows, each once, and every
\* question among the newest rows is among them.
LEMMA LoadedIds ==
    ASSUME TypeInv, RowsInv
    PROVE  /\ Distinct(LoadMessages)
           /\ \A id : HoldsId(LoadMessages, id) => \E x \in Rows : x.id = id
           /\ \A x \in Newest : Holds(LoadMessages, x.holds.by, x.holds.role)
           /\ \A r, role : Holds(LoadMessages, r, role) =>
                               \E x \in Rows : x.holds.role = role /\ x.holds.by = r
<1> DEFINE s == LoadMessages
           R == Newest
<1>1. s \in Seq(Proper)
  BY LoadedMessages
<1>2. PICK h \in [DOMAIN s -> R] :
          /\ \A i \in DOMAIN s : s[i] = h[i].holds
          /\ \A i, j \in DOMAIN s : i < j => h[i].at < h[j].at
          /\ \A x \in R : \E i \in DOMAIN s : h[i] = x
  BY LoadedMessages
<1>3. /\ \A x \in R : x.at \in Nat /\ x.holds.id = x.id
      /\ \A x, y \in R : x.id = y.id => x = y
  BY NewestRows DEF TypeInv, RowsInv
<1>r. R \subseteq Rows
  BY NewestRows
<1> HIDE DEF s, R
<1>4. DOMAIN s \subseteq Nat
  BY <1>1
<1>5. ASSUME NEW i \in DOMAIN s, NEW j \in DOMAIN s, s[i].id = s[j].id PROVE i = j
  <2>1. h[i] \in R /\ h[j] \in R /\ h[i] = h[j]
    BY <1>2, <1>3, <1>5
  <2>2. h[i].at \in Nat /\ ~(i < j) /\ ~(j < i)
    BY <1>2, <1>3, <2>1
  <2> QED BY <1>4, <2>2
<1>6. Distinct(s)
  BY <1>5 DEF Distinct
<1>7. \A id : HoldsId(s, id) => \E x \in Rows : x.id = id
  BY <1>2, <1>3, <1>r DEF HoldsId
<1>8. \A x \in R : Holds(s, x.holds.by, x.holds.role)
  BY <1>2 DEF Holds
<1>9. \A r, role : Holds(s, r, role) => \E x \in Rows : x.holds.role = role /\ x.holds.by = r
  BY <1>2, <1>r DEF Holds
<1> QED BY <1>6, <1>7, <1>8, <1>9 DEF s, R

\* The question whose row is the latest is the last message that is restored,
\* and is restored once.
LEMMA LoadedQuestion ==
    ASSUME TypeInv, RowsInv, NEW r \in Requests
    PROVE  /\ OnceAsked(LoadMessages, r)
           /\ \A x \in Rows :
                  /\ x.holds.role = "user" /\ x.holds.by = r
                  /\ \A y \in Rows : y.at <= x.at
                  => EndsWithQuestion(LoadMessages, r)
<1> DEFINE s == LoadMessages
           R == Newest
<1>1. s \in Seq(Proper)
  BY LoadedMessages
<1>2. PICK h \in [DOMAIN s -> R] :
          /\ \A i \in DOMAIN s : s[i] = h[i].holds
          /\ \A i, j \in DOMAIN s : i < j => h[i].at < h[j].at
          /\ \A x \in R : \E i \in DOMAIN s : h[i] = x
  BY LoadedMessages
<1>3. /\ \A x \in R : /\ x.at \in Nat /\ x.holds.id = x.id
                      /\ x.id = RowId(x.owner, x.holds.role)
                      /\ x.holds \in Proper
      /\ \A x, y \in R : x.id = y.id => x = y
  BY NewestRows DEF TypeInv, RowsInv
<1>r. /\ R \subseteq Rows
      /\ \A x \in Rows : (\A y \in Rows : y.at <= x.at) => x \in R
  BY NewestRows, LatestIsNewest
<1> HIDE DEF s, R
<1>4. Len(s) \in Nat /\ DOMAIN s = 1..Len(s)
  BY <1>1
<1>5. Distinct(s)
  BY LoadedIds DEF s
<1>6. ASSUME NEW x \in R, x.holds.role = "user", x.holds.by = r
      PROVE  x.id = RowId(r, "user")
  <2>1. x.id[1] = r /\ x.id = <<x.owner, "user", "row">>
    BY <1>3, <1>6 DEF Proper, RowId
  <2> QED BY <2>1 DEF RowId
<1>7. OnceAsked(s, r)
  <2> SUFFICES ASSUME NEW i \in DOMAIN s, NEW j \in DOMAIN s,
                      s[i].role = "user", s[i].by = r, s[j].role = "user", s[j].by = r
               PROVE  i = j
    BY DEF OnceAsked
  <2>1. s[i].id = RowId(r, "user") /\ s[j].id = RowId(r, "user")
    BY <1>2, <1>3, <1>6
  <2> QED BY <1>5, <2>1 DEF Distinct
<1>8. ASSUME NEW x \in Rows, x.holds.role = "user", x.holds.by = r,
             \A y \in Rows : y.at <= x.at
      PROVE  EndsWithQuestion(s, r)
  <2>1. PICK i \in DOMAIN s : h[i] = x
    BY <1>2, <1>8, <1>r
  <2>2. Len(s) \in DOMAIN s /\ i \in 1..Len(s)
    BY <1>4, <2>1
  <2>3. h[Len(s)] \in R /\ h[Len(s)].at <= h[i].at
    BY <1>2, <1>8, <1>r, <2>1, <2>2
  <2>4. h[Len(s)].at \in Nat /\ h[i].at \in Nat
    BY <1>2, <1>3, <2>1, <2>3
  <2>5. ~(i < Len(s))
    BY <1>2, <2>2, <2>3, <2>4
  <2>6. i = Len(s) /\ s # <<>>
    BY <1>1, <1>4, <2>2, <2>5
  <2> QED BY <1>2, <1>8, <2>1, <2>6 DEF EndsWithQuestion
<1> QED BY <1>7, <1>8 DEF s, R

\* A set of numbers that has a bound has a largest number, if it has any.
LEMMA LargestNumber ==
    ASSUME NEW n \in Nat, NEW S \in SUBSET (1..n), S # {}
    PROVE  \E m \in S : \A k \in S : m >= k
<1> DEFINE T == {n - k : k \in S}
<1>1. T \subseteq Nat /\ T # {}
  <2>1. \A k \in S : n - k \in Nat
    OBVIOUS
  <2>2. PICK k \in S : TRUE
    OBVIOUS
  <2>3. n - k \in T
    BY <2>2
  <2> QED BY <2>1, <2>3
<1>2. PICK m \in T : \A k \in T : ~(<<k, m>> \in OpToRel(<, Nat))
  <2> HIDE DEF T
  <2> QED BY <1>1, NatLessThanWellFounded, WFMin
<1>3. \A k \in T : ~(k < m)
  BY <1>1, <1>2 DEF OpToRel
<1>4. PICK l \in S : m = n - l
  BY <1>2
<1>5. \A k \in S : l >= k
  BY <1>3, <1>4
<1> QED BY <1>4, <1>5

\* The latest human message is one, if there is any, and the last message if
\* that is one.
LEMMA LatestHumanFound ==
    ASSUME NEW s \in Seq(Proper), NEW r, Holds(s, r, "user")
    PROVE  /\ LatestHuman(s) \in DOMAIN s /\ s[LatestHuman(s)].role = "user"
           /\ EndsWithQuestion(s, r) => s[LatestHuman(s)].by = r
<1> DEFINE I == {i \in 1..Len(s) : s[i].role = "user"}
           m == LatestHuman(s)
<1>1. Len(s) \in Nat /\ DOMAIN s = 1..Len(s)
  OBVIOUS
<1>2. I # {}
  BY <1>1 DEF Holds
<1>3. m = CHOOSE x \in I : \A y \in I : x >= y
  BY <1>2 DEF LatestHuman, SelectLastInSeq, Max
<1>4. I \subseteq 1..Len(s)
  OBVIOUS
<1> HIDE DEF I, m
<1>5. m \in I /\ \A y \in I : m >= y
  BY <1>1, <1>2, <1>3, <1>4, LargestNumber
<1>6. m \in DOMAIN s /\ s[m].role = "user"
  BY <1>1, <1>5 DEF I
<1>7. ASSUME EndsWithQuestion(s, r) PROVE s[m].by = r
  <2>1. Len(s) \in I
    BY <1>1, <1>7 DEF I, EndsWithQuestion
  <2>2. m \in 1..Len(s) /\ ~(m < Len(s))
    BY <1>1, <1>4, <1>5, <2>1
  <2> DEFINE n == Len(s)
  <2>3. n \in Nat /\ m \in 1..n /\ ~(m < n)
    BY <1>1, <2>2
  <2> HIDE DEF n
  <2>4. m = n
    BY <2>3
  <2> QED BY <1>7, <2>4 DEF EndsWithQuestion, n
<1> QED BY <1>6, <1>7 DEF m

\* The question that intent finds is one that is asked in the messages, or none,
\* and the last message if that is one.
LEMMA LatestQuestionFound ==
    ASSUME NEW s \in Seq(Proper)
    PROVE  /\ LatestQuestion(s) \in Requests \cup {None}
           /\ LatestQuestion(s) # None =>
                  \E i \in DOMAIN s : s[i].role = "user" /\ s[i].by = LatestQuestion(s)
           /\ \A r : EndsWithQuestion(s, r) => LatestQuestion(s) = r
<1> DEFINE k == LatestHuman(s)
<1>1. CASE \E r : Holds(s, r, "user")
  <2>1. k \in DOMAIN s /\ s[k].role = "user" /\ \A r : EndsWithQuestion(s, r) => s[k].by = r
    <3>1. PICK r : Holds(s, r, "user")
      BY <1>1
    <3>2. k \in DOMAIN s /\ s[k].role = "user"
      BY <3>1, LatestHumanFound
    <3>3. ASSUME NEW q, EndsWithQuestion(s, q) PROVE s[k].by = q
      <4>1. Len(s) \in DOMAIN s
        BY <3>3 DEF EndsWithQuestion
      <4>2. Holds(s, q, "user")
        BY <3>3, <4>1 DEF Holds, EndsWithQuestion
      <4> QED BY <3>3, <4>2, LatestHumanFound
    <3> QED BY <3>2, <3>3
  <2>2. k # 0 /\ s[k].by \in Requests
    BY <2>1 DEF Proper, Message
  <2>3. LatestQuestion(s) = s[k].by
    BY <2>2 DEF LatestQuestion
  <2> HIDE DEF k
  <2> QED BY <2>1, <2>2, <2>3
<1>2. CASE ~\E r : Holds(s, r, "user")
  <2>1. \A i \in 1..Len(s) : s[i].role # "user"
    BY <1>2 DEF Holds
  <2>2. k = 0
    BY <2>1 DEF LatestHuman, SelectLastInSeq
  <2>3. LatestQuestion(s) = None
    BY <2>2 DEF LatestQuestion
  <2>4. \A r : ~EndsWithQuestion(s, r)
    BY <2>1 DEF EndsWithQuestion
  <2> QED BY <2>3, <2>4
<1> QED BY <1>1, <1>2

\* The messages that requests make are proper ones.
LEMMA ProperMessages ==
    ASSUME NEW r \in Requests
    PROVE  /\ Human(RowId(r, "user"), r) \in Proper
           /\ Human(GraphId(r, "user"), r) \in Proper
           /\ \A to \in Requests \cup {None} : Reply(GraphId(r, "assistant"), r, to) \in Proper
           /\ \A m \in Message :
                  LET reply == [m EXCEPT !.id = RowId(r, "assistant"), !.role = "assistant"] IN
                  /\ reply \in Proper
                  /\ reply.id = RowId(r, "assistant") /\ reply.role = "assistant"
                  /\ reply.by = m.by /\ reply.to = m.to
<1>1. \A role \in Roles : RowId(r, role) \in Ids /\ GraphId(r, role) \in Ids
  BY DEF RowId, GraphId, Ids
<1>2. Human(RowId(r, "user"), r) \in Message /\ Human(GraphId(r, "user"), r) \in Message
  BY <1>1 DEF Human, Message, Roles
<1>3. Human(RowId(r, "user"), r) \in Proper /\ Human(GraphId(r, "user"), r) \in Proper
  BY <1>2 DEF Proper, Human, RowId, GraphId
<1>4. ASSUME NEW to \in Requests \cup {None} PROVE Reply(GraphId(r, "assistant"), r, to) \in Proper
  <2>1. Reply(GraphId(r, "assistant"), r, to) \in Message
    BY <1>1 DEF Reply, Message, Roles
  <2> QED BY <2>1 DEF Proper, Reply, GraphId
<1>5. ASSUME NEW m \in Message
      PROVE  LET reply == [m EXCEPT !.id = RowId(r, "assistant"), !.role = "assistant"] IN
             /\ reply \in Proper
             /\ reply.id = RowId(r, "assistant") /\ reply.role = "assistant"
             /\ reply.by = m.by /\ reply.to = m.to
  <2> DEFINE reply == [m EXCEPT !.id = RowId(r, "assistant"), !.role = "assistant"]
  <2>1. /\ reply.id = RowId(r, "assistant") /\ reply.role = "assistant"
        /\ reply.by = m.by /\ reply.to = m.to
    BY DEF Message
  <2>2. reply \in Message
    BY <1>1 DEF Message, Roles
  <2>3. reply.id[2] = "assistant"
    BY <2>1 DEF RowId
  <2> HIDE DEF reply
  <2>4. reply \in Proper
    BY <2>1, <2>2, <2>3 DEF Proper
  <2> QED BY <2>1, <2>4 DEF reply
<1> QED BY <1>3, <1>4, <1>5

\* What the graph is given when there is a checkpoint: the question alone.
LEMMA QuestionAlone ==
    ASSUME NEW r \in Requests
    PROVE  /\ Question(r) \in Seq(Proper) /\ Distinct(Question(r))
           /\ EndsWithQuestion(Question(r), r) /\ OnceAsked(Question(r), r)
           /\ \A id : HoldsId(Question(r), id) <=> id = GraphId(r, "user")
           /\ \A q, role : Holds(Question(r), q, role) => q = r /\ role = "user"
           /\ Holds(Question(r), r, "user")
<1>1. /\ Question(r) \in Seq(Proper) /\ Question(r) # <<>> /\ Len(Question(r)) = 1
      /\ DOMAIN Question(r) = {1} /\ Question(r)[1] = Human(GraphId(r, "user"), r)
  <2>1. Human(GraphId(r, "user"), r) \in Proper
    BY ProperMessages
  <2> QED BY <2>1 DEF Question
<1>2. LET m == Human(GraphId(r, "user"), r) IN
      m.id = GraphId(r, "user") /\ m.role = "user" /\ m.by = r
  BY DEF Human
<1> QED BY <1>1, <1>2 DEF Distinct, EndsWithQuestion, OnceAsked, HoldsId, Holds

\* Recording a message adds its row to the thread's.
LEMMA RecordedRow ==
    ASSUME TypeInv, NEW x, Store!RecordMessage(Thread, User, x)
    PROVE  Rows' = Rows \cup {x} /\ book' = [t \in {Thread} |-> book'[t]]
<1>1. book = [t \in {Thread} |-> book[t]]
  BY DEF TypeInv
<1> QED BY <1>1 DEF Store!RecordMessage, Rows
-----------------------------------------------------------------------------
(* Every step preserves the invariant, one part after the other.           *)

\* What the state is made of, under the invariant.
LEMMA TypeStep == ASSUME ServiceInv, [Next]_vars PROVE TypeInv'
<1>1. TypeInv /\ RowsInv /\ RunInv
  BY DEF ServiceInv
<1> USE <1>1
<1>2. ASSUME NEW r \in Requests, Ask(r) PROVE TypeInv'
  BY <1>2 DEF TypeInv, Ask, Go, Stamp, InFlight, Rows, PcValues
<1>3. ASSUME NEW r \in Requests, StoreQuestion(r) PROVE TypeInv'
  <2> DEFINE m == Human(RowId(r, "user"), r)
             x == Row(r, m, stamp[r])
  <2>1. Rows' = Rows \cup {x} /\ book' = [t \in {Thread} |-> book'[t]]
    BY <1>3, RecordedRow DEF StoreQuestion
  <2>2. x \in [id : RowIds, owner : Requests, at : Nat, holds : Proper]
    <3>1. m \in Proper /\ m.role = "user"
      BY ProperMessages DEF Human
    <3> HIDE DEF m
    <3> QED BY <3>1 DEF Row, RowIds, Roles, TypeInv
  <2>3. IsFiniteSet(Rows')
    BY <2>1, FS_AddElement DEF TypeInv
  <2> HIDE DEF x
  <2> QED BY <1>3, <2>1, <2>2, <2>3 DEF TypeInv, StoreQuestion, Go, PcValues
<1>4. ASSUME NEW r \in Requests, FindCheckpoint(r) \/ MissCheckpoint(r) \/ Finish(r) \/ Fail(r)
      PROVE  TypeInv'
  <2>1. Question(r) \in Seq(Proper)
    BY QuestionAlone
  <2>2. CASE FindCheckpoint(r)
    BY <2>1, <2>2 DEF TypeInv, FindCheckpoint, Go, Rows, PcValues
  <2>3. CASE MissCheckpoint(r)
    BY <2>3 DEF TypeInv, MissCheckpoint, Go, Rows, PcValues
  <2>4. CASE Finish(r) \/ Fail(r)
    BY <2>4 DEF TypeInv, Finish, Fail, Go, Rows, PcValues, Ended
  <2> QED BY <1>4, <2>2, <2>3, <2>4
<1>5. ASSUME NEW r \in Requests, Restore(r) PROVE TypeInv'
  <2>1. RestoredInput(r) \in Seq(Proper)
    BY LoadedMessages, QuestionAlone DEF RestoredInput
  <2> QED BY <1>5, <2>1 DEF TypeInv, Restore, Go, Rows, PcValues
<1>6. ASSUME NEW r \in Requests, StartRun(r) PROVE TypeInv'
  <2>1. Started(r) \in Seq(Proper)
    BY AddedMessages DEF Started, TypeInv
  <2> QED BY <1>6, <2>1 DEF TypeInv, StartRun, Go, Rows, PcValues
<1>7. ASSUME NEW r \in Requests, ReadQuestion(r) PROVE TypeInv'
  <2>1. LatestQuestion(local[r]) \in Requests \cup {None}
    BY LatestQuestionFound DEF TypeInv
  <2> QED BY <1>7, <2>1 DEF TypeInv, ReadQuestion, Go, Rows, PcValues
<1>8. ASSUME NEW r \in Requests, EndRun(r) PROVE TypeInv'
  <2> DEFINE messages == Append(local[r], Reply(GraphId(r, "assistant"), r, question[r]))
  <2>2. messages \in Seq(Proper)
    <3>1. local[r] \in Seq(Proper) /\ Reply(GraphId(r, "assistant"), r, question[r]) \in Proper
      BY ProperMessages DEF TypeInv
    <3> QED BY <3>1
  <2> HIDE DEF messages
  <2>3. local' = [local EXCEPT ![r] = messages] /\ ckpt' = messages
    BY <1>8 DEF EndRun, messages
  <2> QED BY <1>8, <2>2, <2>3 DEF TypeInv, EndRun, Go, Rows, PcValues, Ended
<1>9. ASSUME NEW r \in Requests, TakeOwnReply(r) \/ TakeLatestMessage(r) PROVE TypeInv'
  <2>1. local[r] \in Seq(Proper) /\ local[r] # <<>> /\ ckpt \in Seq(Proper)
    BY <1>9 DEF TypeInv, RunInv, RunOf, TakeOwnReply, TakeLatestMessage, Go
  <2>2. /\ Last(local[r]) \in Message
        /\ Last(IF ckpt = <<>> THEN local[r] ELSE ckpt) \in Message
    BY <2>1 DEF Last, Proper
  <2>3. CASE TakeOwnReply(r)
    BY <2>2, <2>3 DEF TypeInv, TakeOwnReply, Go, Stamp, Rows, PcValues
  <2>4. CASE TakeLatestMessage(r)
    <3> DEFINE m == Last(IF ckpt = <<>> THEN local[r] ELSE ckpt)
    <3>1. m \in Message /\ content' = [content EXCEPT ![r] = m]
      BY <2>2, <2>4 DEF TakeLatestMessage
    <3> HIDE DEF m
    <3> QED BY <2>4, <3>1 DEF TypeInv, TakeLatestMessage, Go, Stamp, Rows, PcValues
  <2> QED BY <1>9, <2>3, <2>4
<1>10. ASSUME NEW r \in Requests, StoreReply(r) PROVE TypeInv'
  <2> DEFINE m == [content[r] EXCEPT !.id = RowId(r, "assistant"), !.role = "assistant"]
             x == Row(r, m, stamp[r])
  <2>1. Rows' = Rows \cup {x} /\ book' = [t \in {Thread} |-> book'[t]]
    BY <1>10, RecordedRow DEF StoreReply
  <2>2. content[r] \in Message
    BY <1>10 DEF RunInv, RunOf, StoreReply, Go
  <2>3. m \in Proper /\ m.role = "assistant"
    BY <2>2, ProperMessages
  <2>4. x \in [id : RowIds, owner : Requests, at : Nat, holds : Proper]
    <3> HIDE DEF m
    <3> QED BY <2>3 DEF Row, RowIds, Roles, TypeInv
  <2>5. IsFiniteSet(Rows')
    BY <2>1, FS_AddElement DEF TypeInv
  <2> HIDE DEF x
  <2> QED BY <1>10, <2>1, <2>4, <2>5 DEF TypeInv, StoreReply, Go, PcValues
<1>11. ASSUME LoseCheckpoint PROVE TypeInv'
  BY <1>11, ServiceAssumption DEF TypeInv, LoseCheckpoint, Rows
<1>12. ASSUME UNCHANGED vars PROVE TypeInv'
  BY <1>12 DEF TypeInv, vars, Rows
<1> QED BY <1>2, <1>3, <1>4, <1>5, <1>6, <1>7, <1>8, <1>9, <1>10, <1>11, <1>12
        DEF Next, Progress, AllEnded

\* A row that is stored while its request asks or replies.
LEMMA StoredRow ==
    ASSUME ServiceInv, NEW r \in Requests, Stamped(r), NEW m \in Proper,
           m.id = RowId(r, m.role),
           IF m.role = "user" THEN pc[r] = "asking" ELSE pc[r] = "replying"
    PROVE  LET x == Row(r, m, stamp[r]) IN
           /\ x.owner = r /\ x.holds = m /\ x.at = stamp[r] /\ x.at < clock
           /\ x.id = m.id
           /\ \A y \in Rows : y.at # x.at /\ y.id # x.id
<1> DEFINE x == Row(r, m, stamp[r])
<1>1. x.owner = r /\ x.holds = m /\ x.at = stamp[r] /\ x.id = m.id
  BY DEF Row
<1>2. stamp[r] < clock /\ \A y \in Rows : y.at # stamp[r]
  BY DEF ServiceInv, StampInv
<1>3. ASSUME NEW y \in Rows PROVE y.id # m.id
  <2>1. /\ y.id = RowId(y.owner, y.holds.role)
        /\ IF y.holds.role = "user" THEN pc[y.owner] \notin {"idle", "asking"}
           ELSE pc[y.owner] \in {"stored", "done", "failed"}
    BY DEF ServiceInv, RowsInv
  <2>2. y.id = m.id => y.owner = r /\ y.holds.role = m.role
    BY <2>1 DEF RowId
  <2> QED BY <2>1, <2>2
<1> HIDE DEF x
<1> QED BY <1>1, <1>2, <1>3 DEF x

\* Rows keep their names and their times.
LEMMA RowsStep == ASSUME ServiceInv, [Next]_vars PROVE RowsInv'
<1>1. TypeInv /\ RowsInv /\ StampInv
  BY DEF ServiceInv
<1> USE <1>1
<1>2. ASSUME Rows' = Rows, clock' \in {clock, clock + 1},
             \A q \in Requests :
                 /\ pc[q] \notin {"idle", "asking"} => pc'[q] \notin {"idle", "asking"}
                 /\ pc[q] \in {"stored", "done", "failed"} =>
                        pc'[q] \in {"stored", "done", "failed"}
      PROVE  RowsInv'
  <2>1. \A x \in Rows : x.at < clock' /\ x.owner \in Requests
    BY <1>2 DEF TypeInv, RowsInv
  <2> QED BY <1>2, <2>1 DEF RowsInv
<1>3. ASSUME NEW r \in Requests, NEW m \in Proper, m.id = RowId(r, m.role), Stamped(r),
             IF m.role = "user" THEN pc[r] = "asking" ELSE pc[r] = "replying",
             Store!RecordMessage(Thread, User, Row(r, m, stamp[r])), clock' = clock,
             pc' = [pc EXCEPT ![r] = IF m.role = "user" THEN "asked" ELSE "stored"]
      PROVE  RowsInv'
  <2> DEFINE x == Row(r, m, stamp[r])
  <2>1. Rows' = Rows \cup {x}
    BY <1>3, RecordedRow
  <2>2. /\ x.owner = r /\ x.holds = m /\ x.at < clock /\ x.id = m.id
        /\ \A y \in Rows : y.at # x.at /\ y.id # x.id
    BY <1>3, StoredRow
  <2> HIDE DEF x
  <2>3. \A y \in Rows :
            /\ y.at < clock'
            /\ y.id = RowId(y.owner, y.holds.role) /\ y.holds.id = y.id
            /\ IF y.holds.role = "user" THEN pc'[y.owner] \notin {"idle", "asking"}
               ELSE pc'[y.owner] \in {"stored", "done", "failed"}
    BY <1>3 DEF TypeInv, RowsInv
  <2>4. /\ x.at < clock'
        /\ x.id = RowId(x.owner, x.holds.role) /\ x.holds.id = x.id
        /\ IF x.holds.role = "user" THEN pc'[x.owner] \notin {"idle", "asking"}
           ELSE pc'[x.owner] \in {"stored", "done", "failed"}
    BY <1>3, <2>2 DEF TypeInv
  <2>5. \A y, z \in Rows' : y.at = z.at \/ y.id = z.id => y = z
    BY <2>1, <2>2 DEF RowsInv
  <2> QED BY <2>1, <2>3, <2>4, <2>5 DEF RowsInv
<1>4. ASSUME NEW r \in Requests, Ask(r) PROVE RowsInv'
  BY <1>2, <1>4 DEF Ask, Go, Stamp, Rows, TypeInv
<1>5. ASSUME NEW r \in Requests, StoreQuestion(r) PROVE RowsInv'
  <2> DEFINE m == Human(RowId(r, "user"), r)
  <2>1. m \in Proper /\ m.id = RowId(r, m.role) /\ m.role = "user"
    BY ProperMessages DEF Human
  <2> HIDE DEF m
  <2> QED BY <1>3, <1>5, <2>1 DEF StoreQuestion, Go, Stamped, m
<1>6. ASSUME NEW r \in Requests, FindCheckpoint(r) \/ MissCheckpoint(r) \/ Restore(r)
      PROVE  RowsInv'
  BY <1>2, <1>6 DEF FindCheckpoint, MissCheckpoint, Restore, Go, Rows, TypeInv
<1>7. ASSUME NEW r \in Requests, StartRun(r) \/ ReadQuestion(r) \/ EndRun(r) PROVE RowsInv'
  BY <1>2, <1>7 DEF StartRun, ReadQuestion, EndRun, Go, Rows, TypeInv
<1>8. ASSUME NEW r \in Requests, TakeOwnReply(r) \/ TakeLatestMessage(r) PROVE RowsInv'
  BY <1>2, <1>8 DEF TakeOwnReply, TakeLatestMessage, Go, Stamp, Rows, TypeInv
<1>9. ASSUME NEW r \in Requests, StoreReply(r) PROVE RowsInv'
  <2> DEFINE m == [content[r] EXCEPT !.id = RowId(r, "assistant"), !.role = "assistant"]
  <2>1. content[r] \in Message
    BY <1>9 DEF ServiceInv, RunInv, RunOf, StoreReply, Go
  <2>2. m \in Proper /\ m.id = RowId(r, m.role) /\ m.role = "assistant"
    BY <2>1, ProperMessages
  <2>3. /\ Store!RecordMessage(Thread, User, Row(r, m, stamp[r])) /\ clock' = clock
        /\ pc[r] = "replying" /\ pc' = [pc EXCEPT ![r] = "stored"]
    BY <1>9 DEF StoreReply, Go
  <2> HIDE DEF m
  <2> QED BY <1>3, <2>2, <2>3 DEF Stamped
<1>10. ASSUME NEW r \in Requests, Finish(r) \/ Fail(r) PROVE RowsInv'
  BY <1>2, <1>10 DEF Finish, Fail, InFlight, Ended, Go, Rows, TypeInv
<1>11. ASSUME LoseCheckpoint \/ UNCHANGED vars PROVE RowsInv'
  BY <1>2, <1>11 DEF LoseCheckpoint, vars, Rows, TypeInv
<1> QED BY <1>4, <1>5, <1>6, <1>7, <1>8, <1>9, <1>10, <1>11 DEF Next, Progress, AllEnded

\* What a request stores for its question.
LEMMA QuestionStored ==
    ASSUME ServiceInv, NEW r \in Requests, StoreQuestion(r)
    PROVE  \E x : /\ Rows' = Rows \cup {x}
                  /\ x.owner = r /\ x.at = stamp[r] /\ x.at < clock
                  /\ x.holds.role = "user" /\ x.holds.by = r /\ x.holds.to = r
                  /\ \A y \in Rows : y.at # x.at
<1> DEFINE m == Human(RowId(r, "user"), r)
           x == Row(r, m, stamp[r])
<1>1. m \in Proper /\ m.id = RowId(r, m.role) /\ m.role = "user" /\ m.by = r /\ m.to = r
  BY ProperMessages DEF Human
<1>2. Rows' = Rows \cup {x}
  BY RecordedRow DEF StoreQuestion, ServiceInv
<1>3. pc[r] = "asking"
  BY DEF StoreQuestion, Go
<1> HIDE DEF m
<1>4. x.owner = r /\ x.at = stamp[r] /\ x.at < clock /\ x.holds = m
  BY <1>1, <1>3, StoredRow DEF Stamped
<1>5. \A y \in Rows : y.at # x.at
  BY <1>1, <1>3, StoredRow DEF Stamped
<1> HIDE DEF x
<1> QED BY <1>1, <1>2, <1>4, <1>5

\* The same for its reply.
LEMMA ReplyStored ==
    ASSUME ServiceInv, NEW r \in Requests, StoreReply(r)
    PROVE  \E x : /\ Rows' = Rows \cup {x}
                  /\ x.owner = r /\ x.at = stamp[r] /\ x.at < clock
                  /\ x.holds.role = "assistant"
                  /\ x.holds.by = content[r].by /\ x.holds.to = content[r].to
                  /\ \A y \in Rows : y.at # x.at
<1> DEFINE m == [content[r] EXCEPT !.id = RowId(r, "assistant"), !.role = "assistant"]
           x == Row(r, m, stamp[r])
<1>1. content[r] \in Message
  BY DEF ServiceInv, RunInv, RunOf, StoreReply, Go
<1>2. /\ m \in Proper /\ m.id = RowId(r, m.role) /\ m.role = "assistant"
      /\ m.by = content[r].by /\ m.to = content[r].to
  BY <1>1, ProperMessages
<1>3. Rows' = Rows \cup {x}
  BY RecordedRow DEF StoreReply, ServiceInv
<1>4. pc[r] = "replying"
  BY DEF StoreReply, Go
<1> HIDE DEF m
<1>5. x.owner = r /\ x.at = stamp[r] /\ x.at < clock /\ x.holds = m
  BY <1>2, <1>4, StoredRow DEF Stamped
<1>6. \A y \in Rows : y.at # x.at
  BY <1>2, <1>4, StoredRow DEF Stamped
<1> HIDE DEF x
<1> QED BY <1>2, <1>3, <1>5, <1>6

\* The time of a row to come stays nobody else's.
LEMMA StampStep == ASSUME ServiceInv, [Next]_vars PROVE StampInv'
<1>1. TypeInv /\ RowsInv /\ StampInv
  BY DEF ServiceInv
<1> USE <1>1
<1>2. ASSUME Rows' = Rows, clock' = clock, stamp' = stamp,
             \A q \in Requests : Stamped(q)' => Stamped(q)
      PROVE  StampInv'
  BY <1>2 DEF StampInv
<1>3. ASSUME NEW r \in Requests, Stamp(r), Rows' = Rows,
             \A q \in Requests : q # r /\ Stamped(q)' => Stamped(q)
      PROVE  StampInv'
  <2>1. /\ clock \in Nat /\ clock' = clock + 1
        /\ stamp'[r] = clock /\ \A q \in Requests : q # r => stamp'[q] = stamp[q]
    BY <1>3 DEF Stamp, TypeInv
  <2>2. \A x \in Rows : x.at < clock /\ x.at \in Nat
    BY DEF RowsInv, TypeInv
  <2>3. \A q \in Requests : stamp[q] \in Nat
    BY DEF TypeInv
  <2> QED BY <1>3, <2>1, <2>2, <2>3 DEF StampInv
<1>4. ASSUME NEW r \in Requests, NEW x, Rows' = Rows \cup {x}, x.at = stamp[r],
             clock' = clock, stamp' = stamp, Stamped(r),
             \A q \in Requests : Stamped(q)' => q # r /\ Stamped(q)
      PROVE  StampInv'
  BY <1>4 DEF StampInv
<1>5. ASSUME NEW r \in Requests, Ask(r) PROVE StampInv'
  BY <1>3, <1>5 DEF Ask, Go, Rows, TypeInv, Stamped
<1>6. ASSUME NEW r \in Requests, StoreQuestion(r) PROVE StampInv'
  <2>1. PICK x : Rows' = Rows \cup {x} /\ x.at = stamp[r]
    BY <1>6, QuestionStored
  <2> QED BY <1>4, <1>6, <2>1 DEF StoreQuestion, Go, TypeInv, Stamped
<1>7. ASSUME NEW r \in Requests, FindCheckpoint(r) \/ MissCheckpoint(r) \/ Restore(r)
      PROVE  StampInv'
  BY <1>2, <1>7 DEF FindCheckpoint, MissCheckpoint, Restore, Go, Rows, TypeInv, Stamped
<1>8. ASSUME NEW r \in Requests, StartRun(r) \/ ReadQuestion(r) \/ EndRun(r) PROVE StampInv'
  BY <1>2, <1>8 DEF StartRun, ReadQuestion, EndRun, Go, Rows, TypeInv, Stamped
<1>9. ASSUME NEW r \in Requests, TakeOwnReply(r) \/ TakeLatestMessage(r) PROVE StampInv'
  BY <1>3, <1>9 DEF TakeOwnReply, TakeLatestMessage, Go, Rows, TypeInv, Stamped
<1>10. ASSUME NEW r \in Requests, StoreReply(r) PROVE StampInv'
  <2>1. PICK x : Rows' = Rows \cup {x} /\ x.at = stamp[r]
    BY <1>10, ReplyStored
  <2> QED BY <1>4, <1>10, <2>1 DEF StoreReply, Go, TypeInv, Stamped
<1>11. ASSUME NEW r \in Requests, Finish(r) \/ Fail(r) PROVE StampInv'
  BY <1>2, <1>11 DEF Finish, Fail, Go, Rows, TypeInv, Stamped
<1>12. ASSUME LoseCheckpoint \/ UNCHANGED vars PROVE StampInv'
  BY <1>2, <1>12 DEF LoseCheckpoint, vars, Rows, Stamped
<1> QED BY <1>5, <1>6, <1>7, <1>8, <1>9, <1>10, <1>11, <1>12 DEF Next, Progress, AllEnded

\* No row is taken away.
LEMMA RowsStay == ASSUME ServiceInv, [Next]_vars PROVE Rows \subseteq Rows'
<1>1. ASSUME NEW r \in Requests, StoreQuestion(r) \/ StoreReply(r) PROVE Rows \subseteq Rows'
  BY <1>1, QuestionStored, ReplyStored
<1>2. ASSUME NEW r \in Requests, Ask(r) \/ FindCheckpoint(r) \/ MissCheckpoint(r) \/ Restore(r)
      PROVE  Rows' = Rows
  BY <1>2 DEF Ask, FindCheckpoint, MissCheckpoint, Restore, Rows
<1>3. ASSUME NEW r \in Requests, StartRun(r) \/ ReadQuestion(r) \/ EndRun(r) PROVE Rows' = Rows
  BY <1>3 DEF StartRun, ReadQuestion, EndRun, Rows
<1>4. ASSUME NEW r \in Requests,
             TakeOwnReply(r) \/ TakeLatestMessage(r) \/ Finish(r) \/ Fail(r)
      PROVE  Rows' = Rows
  BY <1>4 DEF TakeOwnReply, TakeLatestMessage, Finish, Fail, Rows
<1>5. ASSUME LoseCheckpoint \/ UNCHANGED vars PROVE Rows' = Rows
  BY <1>5 DEF LoseCheckpoint, vars, Rows
<1> QED BY <1>1, <1>2, <1>3, <1>4, <1>5 DEF Next, Progress, AllEnded

\* The row of a question stays where it is.
LEMMA AskedStep == ASSUME ServiceInv, [Next]_vars PROVE AskedInv'
<1> DEFINE Late == {"replying", "stored", "done"}
           Early == {"idle", "asking", "failed"}
<1>1. TypeInv /\ RowsInv /\ AskedInv
  BY DEF ServiceInv
<1> USE <1>1
<1>2. ASSUME Rows \subseteq Rows',
             \A q \in Requests : pc'[q] \notin Early =>
                 stamp'[q] = stamp[q] /\ pc[q] \notin Early /\ (pc'[q] \in Late <=> pc[q] \in Late)
      PROVE  AskedInv'
  BY <1>2 DEF AskedInv
<1>3. ASSUME NEW r \in Requests, Ask(r) PROVE AskedInv'
  <2>1. \A q \in Requests : q # r => pc'[q] = pc[q] /\ stamp'[q] = stamp[q]
    BY <1>3 DEF Ask, Go, Stamp, TypeInv
  <2>2. pc'[r] = "asking" /\ Rows' = Rows
    BY <1>3 DEF Ask, Go, TypeInv, Rows
  <2> QED BY <1>2, <2>1, <2>2
<1>4. ASSUME NEW r \in Requests, StoreQuestion(r) PROVE AskedInv'
  <2>1. PICK x : /\ Rows' = Rows \cup {x}
                 /\ x.owner = r /\ x.at = stamp[r] /\ x.holds.role = "user"
    BY <1>4, QuestionStored
  <2>2. /\ stamp' = stamp /\ pc'[r] = "asked"
        /\ \A q \in Requests : q # r => pc'[q] = pc[q]
    BY <1>4 DEF StoreQuestion, Go, TypeInv
  <2> QED BY <2>1, <2>2 DEF AskedInv
<1>5. ASSUME NEW r \in Requests, FindCheckpoint(r) \/ MissCheckpoint(r) \/ Restore(r)
      PROVE  AskedInv'
  BY <1>2, <1>5 DEF FindCheckpoint, MissCheckpoint, Restore, Go, Rows, TypeInv
<1>6. ASSUME NEW r \in Requests, StartRun(r) \/ ReadQuestion(r) \/ EndRun(r) PROVE AskedInv'
  BY <1>2, <1>6 DEF StartRun, ReadQuestion, EndRun, Go, Rows, TypeInv
<1>7. ASSUME NEW r \in Requests, TakeOwnReply(r) \/ TakeLatestMessage(r) PROVE AskedInv'
  <2>1. /\ Rows' = Rows /\ pc[r] = "ended" /\ pc'[r] = "replying" /\ stamp'[r] = clock
        /\ \A q \in Requests : q # r => pc'[q] = pc[q] /\ stamp'[q] = stamp[q]
    BY <1>7 DEF TakeOwnReply, TakeLatestMessage, Go, Stamp, TypeInv, Rows
  <2>2. \E y \in Rows : y.owner = r /\ y.holds.role = "user" /\ y.at < clock
    BY <2>1 DEF AskedInv, RowsInv
  <2> QED BY <2>1, <2>2 DEF AskedInv
<1>8. ASSUME NEW r \in Requests, StoreReply(r) PROVE AskedInv'
  <2>1. PICK x : Rows' = Rows \cup {x}
    BY <1>8, ReplyStored
  <2> QED BY <1>2, <1>8, <2>1 DEF StoreReply, Go, TypeInv
<1>9. ASSUME NEW r \in Requests, Finish(r) \/ Fail(r) PROVE AskedInv'
  BY <1>2, <1>9 DEF Finish, Fail, Go, Rows, TypeInv
<1>10. ASSUME LoseCheckpoint \/ UNCHANGED vars PROVE AskedInv'
  BY <1>2, <1>10 DEF LoseCheckpoint, vars, Rows
<1> QED BY <1>3, <1>4, <1>5, <1>6, <1>7, <1>8, <1>9, <1>10 DEF Next, Progress, AllEnded

\* Whoever is in flight together stays overlapped.
LEMMA SoleStep == ASSUME ServiceInv, [Next]_vars PROVE SoleInv'
<1>1. TypeInv /\ SoleInv
  BY DEF ServiceInv
<1> USE <1>1
<1>2. ASSUME overlapped' = overlapped, \A q \in Requests : InFlight(q)' => InFlight(q)
      PROVE  SoleInv'
  BY <1>2 DEF SoleInv
<1>3. ASSUME NEW r \in Requests, Ask(r) PROVE SoleInv'
  <2> DEFINE others == {q \in Requests : InFlight(q)}
  <2>1. overlapped' = IF others = {} THEN overlapped ELSE overlapped \cup others \cup {r}
    BY <1>3 DEF Ask
  <2>2. \A q \in Requests : q # r => (InFlight(q)' <=> q \in others)
    BY <1>3 DEF Ask, Go, InFlight, TypeInv
  <2> HIDE DEF others
  <2> QED BY <2>1, <2>2 DEF SoleInv
<1>4. ASSUME NEW r \in Requests, Progress(r) PROVE SoleInv'
  <2>1. /\ overlapped' = overlapped /\ InFlight(r)
        /\ \A q \in Requests : q # r => pc'[q] = pc[q]
    BY <1>4 DEF Progress, StoreQuestion, FindCheckpoint, MissCheckpoint, Restore, StartRun,
                ReadQuestion, EndRun, TakeOwnReply, TakeLatestMessage, StoreReply, Finish,
                Go, InFlight, Ended, TypeInv
  <2> QED BY <1>2, <2>1 DEF InFlight
<1>5. ASSUME NEW r \in Requests, Fail(r) PROVE SoleInv'
  BY <1>2, <1>5 DEF Fail, InFlight, TypeInv
<1>6. ASSUME LoseCheckpoint \/ UNCHANGED vars PROVE SoleInv'
  BY <1>2, <1>6 DEF LoseCheckpoint, vars, InFlight
<1> QED BY <1>3, <1>4, <1>5, <1>6 DEF Next, AllEnded

\* A reply is stored after the questions of its request and of its answer.
LEMMA FollowStep == ASSUME ServiceInv, [Next]_vars PROVE RepliesFollowQuestions'
<1>1. TypeInv /\ RowsInv /\ AskedInv /\ AboutInv /\ RepliesFollowQuestions /\ RowsInv'
  BY RowsStep DEF ServiceInv
<1> USE <1>1
<1>2. \A x, y \in Rows' : x.owner = y.owner /\ x.holds.role = y.holds.role => x = y
  BY DEF RowsInv
<1>3. ASSUME Rows' = Rows PROVE RepliesFollowQuestions'
  BY <1>3 DEF RepliesFollowQuestions, QuestionBefore
<1>4. ASSUME NEW r \in Requests, StoreQuestion(r) PROVE RepliesFollowQuestions'
  <2>1. PICK x : Rows' = Rows \cup {x} /\ x.holds.role = "user"
    BY <1>4, QuestionStored
  <2> QED BY <1>2, <2>1 DEF RepliesFollowQuestions, QuestionBefore
<1>5. ASSUME NEW r \in Requests, StoreReply(r) PROVE RepliesFollowQuestions'
  <2>1. PICK x : /\ Rows' = Rows \cup {x} /\ x.owner = r /\ x.at = stamp[r]
                 /\ x.holds.to = content[r].to
    BY <1>5, ReplyStored
  <2>2. pc[r] = "replying"
    BY <1>5 DEF StoreReply, Go
  <2>3. /\ QuestionBefore(r, stamp[r])
        /\ content[r].to # None => QuestionBefore(content[r].to, stamp[r])
    BY <2>2 DEF AskedInv, AboutInv, QuestionBefore
  <2>4. \A q, at : QuestionBefore(q, at) => QuestionBefore(q, at)'
    BY <2>1 DEF QuestionBefore
  <2>5. ASSUME NEW y \in Rows, y.holds.role = "assistant"
        PROVE  /\ QuestionBefore(y.owner, y.at)'
               /\ y.holds.to # None => QuestionBefore(y.holds.to, y.at)'
    BY <2>4, <2>5 DEF RepliesFollowQuestions
  <2>6. /\ QuestionBefore(x.owner, x.at)'
        /\ x.holds.to # None => QuestionBefore(x.holds.to, x.at)'
    BY <2>1, <2>3, <2>4
  <2> QED BY <1>2, <2>1, <2>5, <2>6 DEF RepliesFollowQuestions
<1>6. ASSUME NEW r \in Requests, Ask(r) \/ FindCheckpoint(r) \/ MissCheckpoint(r) \/ Restore(r)
      PROVE  Rows' = Rows
  BY <1>6 DEF Ask, FindCheckpoint, MissCheckpoint, Restore, Rows
<1>7. ASSUME NEW r \in Requests, StartRun(r) \/ ReadQuestion(r) \/ EndRun(r) PROVE Rows' = Rows
  BY <1>7 DEF StartRun, ReadQuestion, EndRun, Rows
<1>8. ASSUME NEW r \in Requests,
             TakeOwnReply(r) \/ TakeLatestMessage(r) \/ Finish(r) \/ Fail(r)
      PROVE  Rows' = Rows
  BY <1>8 DEF TakeOwnReply, TakeLatestMessage, Finish, Fail, Rows
<1>9. ASSUME LoseCheckpoint \/ UNCHANGED vars PROVE Rows' = Rows
  BY <1>9 DEF LoseCheckpoint, vars, Rows
<1> QED BY <1>3, <1>4, <1>5, <1>6, <1>7, <1>8, <1>9 DEF Next, Progress, AllEnded

\* A list to which a message is appended.
LEMMA AppendedMessage ==
    ASSUME NEW s \in Seq(Proper), NEW m \in Proper
    PROVE  LET a == Append(s, m) IN
           /\ a \in Seq(Proper) /\ a # <<>> /\ Last(a) = m
           /\ \A q, role : Holds(a, q, role) <=> Holds(s, q, role) \/ (m.role = role /\ m.by = q)
           /\ \A id : HoldsId(a, id) <=> HoldsId(s, id) \/ m.id = id
           /\ Distinct(s) /\ ~HoldsId(s, m.id) => Distinct(a)
           /\ \A q : OnceAsked(s, q) /\ m.role # "user" => OnceAsked(a, q)
<1> DEFINE a == Append(s, m)
           n == Len(s) + 1
<1>1. /\ a \in Seq(Proper) /\ DOMAIN a = DOMAIN s \cup {n} /\ n \notin DOMAIN s
      /\ a[n] = m /\ \A i \in DOMAIN s : a[i] = s[i]
  OBVIOUS
<1>2. a # <<>> /\ Last(a) = m
  BY DEF Last
<1> HIDE DEF a, n
<1>3. \A q, role : Holds(a, q, role) <=> Holds(s, q, role) \/ (m.role = role /\ m.by = q)
  BY <1>1 DEF Holds
<1>4. \A id : HoldsId(a, id) <=> HoldsId(s, id) \/ m.id = id
  BY <1>1 DEF HoldsId
<1>5. Distinct(s) /\ ~HoldsId(s, m.id) => Distinct(a)
  BY <1>1 DEF HoldsId, Distinct
<1>6. \A q : OnceAsked(s, q) /\ m.role # "user" => OnceAsked(a, q)
  BY <1>1 DEF OnceAsked
<1> QED BY <1>1, <1>2, <1>3, <1>4, <1>5, <1>6 DEF a

\* The row of a question holds the question of the request that has stored it.
LEMMA QuestionRow ==
    ASSUME TypeInv, RowsInv, NEW x \in Rows, x.holds.role = "user"
    PROVE  x.holds.by = x.owner
<1>1. x.holds \in Proper /\ x.holds.id = RowId(x.owner, "user")
  BY DEF TypeInv, RowsInv
<1> QED BY <1>1 DEF Proper, RowId

\* A context that is restored holds each message once, and the request's
\* question, if newer rows have not outrun it.
LEMMA RestoredMessages ==
    ASSUME ServiceInv, NEW r \in Requests, Restore(r)
    PROVE  /\ RestoredInput(r) \in Seq(Proper) /\ Distinct(RestoredInput(r))
           /\ Holds(RestoredInput(r), r, "user") \/ Outrun(r)
           /\ \A q, role : ~HoldsId(RestoredInput(r), GraphId(q, role))
           /\ \A id : HoldsId(RestoredInput(r), id) => \E x \in Rows : x.id = id
           /\ \A q \in Requests : q # r /\ Holds(RestoredInput(r), q, "user") =>
                                      pc[q] \notin {"idle", "asking"}
<1>1. TypeInv /\ RowsInv /\ AskedInv /\ pc[r] = "restoring"
  BY DEF ServiceInv, Restore, Go
<1>2. PICK y \in Rows : y.owner = r /\ y.holds.role = "user"
  BY <1>1 DEF AskedInv
<1>3. RestoredInput(r) = LoadMessages
  BY <1>2 DEF RestoredInput
<1>4. Holds(LoadMessages, r, "user") \/ Outrun(r)
  <2>1. CASE y \in Newest
    BY <1>1, <1>2, <2>1, QuestionRow, LoadedIds
  <2>2. CASE y \notin Newest
    <3> DEFINE Y == {z \in Rows : y.at < z.at}
    <3>1. Y \subseteq Rows /\ IsFiniteSet(Rows)
      BY <1>1 DEF TypeInv
    <3>2. ~(Cardinality(Y) < RestoreLimit)
      BY <2>2 DEF Newest
    <3> HIDE DEF Y
    <3>3. Cardinality(Y) \in Nat
      BY <3>1, FS_Subset, FS_CardinalityType
    <3>4. Cardinality(Y) >= RestoreLimit
      BY <3>2, <3>3, ServiceAssumption
    <3> QED BY <1>2, <3>4 DEF Outrun, Y
  <2> QED BY <2>1, <2>2
<1>5. ASSUME NEW q, NEW role, HoldsId(LoadMessages, GraphId(q, role)) PROVE FALSE
  <2>1. PICK x \in Rows : x.id = GraphId(q, role)
    BY <1>1, <1>5, LoadedIds
  <2>2. x.id = RowId(x.owner, x.holds.role)
    BY <1>1 DEF RowsInv
  <2> QED BY <2>1, <2>2 DEF RowId, GraphId
<1>6. ASSUME NEW q \in Requests, Holds(LoadMessages, q, "user")
      PROVE  pc[q] \notin {"idle", "asking"}
  <2>1. PICK x \in Rows : x.holds.role = "user" /\ x.holds.by = q
    BY <1>1, <1>6, LoadedIds
  <2> QED BY <1>1, <2>1, QuestionRow DEF RowsInv
<1> QED BY <1>1, <1>3, <1>4, <1>5, <1>6, LoadedMessages, LoadedIds

\* A run keeps its question, and ends with its reply.
LEMMA RunStep == ASSUME ServiceInv, [Next]_vars PROVE RunInv'
<1>1. TypeInv /\ RunInv
  BY DEF ServiceInv
<1> USE <1>1
<1>o. \A q \in Requests : Outrun(q) => Outrun(q)'
  BY RowsStay, TypeStep, OutrunStays
<1>2. ASSUME NEW r \in Requests, RunOf(r)',
             \A q \in Requests : q # r =>
                 /\ pc'[q] = pc[q] /\ input'[q] = input[q] /\ local'[q] = local[q]
                 /\ question'[q] = question[q] /\ content'[q] = content[q]
      PROVE  RunInv'
  BY <1>o, <1>2 DEF RunInv, RunOf
<1>3. ASSUME NEW r \in Requests, Ask(r) \/ StoreQuestion(r) \/ MissCheckpoint(r) PROVE RunInv'
  BY <1>2, <1>3 DEF Ask, StoreQuestion, MissCheckpoint, Go, TypeInv, RunOf, InRun
<1>4. ASSUME NEW r \in Requests, FindCheckpoint(r) PROVE RunInv'
  <2>1. Holds(Question(r), r, "user")
    BY QuestionAlone
  <2> QED BY <1>2, <1>4, <2>1 DEF FindCheckpoint, Go, TypeInv, RunOf, InRun
<1>5. ASSUME NEW r \in Requests, Restore(r) PROVE RunInv'
  <2>1. Holds(RestoredInput(r), r, "user") \/ Outrun(r)'
    BY <1>o, <1>5, RestoredMessages
  <2>2. pc'[r] = "prepared" /\ input'[r] = RestoredInput(r)
    BY <1>5 DEF Restore, Go, TypeInv
  <2>3. RunOf(r)'
    BY <2>1, <2>2 DEF RunOf, InRun
  <2> QED BY <1>2, <1>5, <2>3 DEF Restore, Go, TypeInv
<1>6. ASSUME NEW r \in Requests, StartRun(r) PROVE RunInv'
  <2>1. Holds(input[r], r, "user") \/ Outrun(r)'
    BY <1>o, <1>6 DEF RunInv, RunOf, StartRun, Go
  <2>2. Holds(Started(r), r, "user") \/ Outrun(r)'
    BY <2>1, AddedHolds DEF Started, TypeInv
  <2>3. pc'[r] = "running" /\ local'[r] = Started(r)
    BY <1>6 DEF StartRun, Go, TypeInv
  <2>4. RunOf(r)'
    BY <2>2, <2>3 DEF RunOf, InRun
  <2> QED BY <1>2, <1>6, <2>4 DEF StartRun, Go, TypeInv
<1>7. ASSUME NEW r \in Requests, ReadQuestion(r) PROVE RunInv'
  <2>1. pc[r] = "running" /\ pc'[r] = "thinking" /\ local' = local
    BY <1>7 DEF ReadQuestion, Go, TypeInv
  <2>2. RunOf(r)'
    BY <1>o, <2>1 DEF RunInv, RunOf, InRun
  <2> QED BY <1>2, <1>7, <2>2 DEF ReadQuestion, Go, TypeInv
<1>8. ASSUME NEW r \in Requests, EndRun(r) PROVE RunInv'
  <2> DEFINE m == Reply(GraphId(r, "assistant"), r, question[r])
             a == Append(local[r], m)
  <2>1. Holds(local[r], r, "user") \/ Outrun(r)'
    BY <1>o, <1>8 DEF RunInv, RunOf, EndRun, Go, InRun
  <2>2. m \in Proper /\ local[r] \in Seq(Proper)
    BY ProperMessages DEF TypeInv
  <2>3. a # <<>> /\ Last(a) = m /\ (Holds(a, r, "user") \/ Outrun(r)')
    BY <2>1, <2>2, AppendedMessage
  <2>4. /\ pc'[r] = "ended" /\ local'[r] = a /\ question'[r] = question[r]
        /\ \A q \in Requests : q # r =>
                 /\ pc'[q] = pc[q] /\ input'[q] = input[q] /\ local'[q] = local[q]
                 /\ question'[q] = question[q] /\ content'[q] = content[q]
    BY <1>8 DEF EndRun, Go, TypeInv
  <2> HIDE DEF a
  <2>5. RunOf(r)'
    BY <2>3, <2>4 DEF RunOf, InRun
  <2> QED BY <1>2, <2>4, <2>5
<1>9. ASSUME NEW r \in Requests, TakeOwnReply(r) PROVE RunInv'
  <2>1. Last(local[r]) = Reply(GraphId(r, "assistant"), r, question[r])
    BY <1>9 DEF RunInv, RunOf, TakeOwnReply, Go
  <2>2. Last(local[r]) \in Message /\ Last(local[r]).by = r
    <3>1. Reply(GraphId(r, "assistant"), r, question[r]) \in Proper
      BY ProperMessages DEF TypeInv
    <3>2. Reply(GraphId(r, "assistant"), r, question[r]).by = r
      BY DEF Reply
    <3> QED BY <2>1, <3>1, <3>2 DEF Proper
  <2> QED BY <1>2, <1>9, <2>2 DEF TakeOwnReply, Go, TypeInv, RunOf, InRun
<1>10. ASSUME NEW r \in Requests, TakeLatestMessage(r) PROVE RunInv'
  <2> DEFINE m == Last(IF ckpt = <<>> THEN local[r] ELSE ckpt)
  <2>1. local[r] \in Seq(Proper) /\ local[r] # <<>> /\ ckpt \in Seq(Proper)
    BY <1>10 DEF TypeInv, RunInv, RunOf, TakeLatestMessage, Go
  <2>2. m \in Message
    BY <2>1 DEF Last, Proper
  <2>3. /\ r \in Streaming /\ pc'[r] = "replying" /\ content'[r] = m
        /\ \A q \in Requests : q # r =>
                 /\ pc'[q] = pc[q] /\ input'[q] = input[q] /\ local'[q] = local[q]
                 /\ question'[q] = question[q] /\ content'[q] = content[q]
    BY <1>10 DEF TakeLatestMessage, Go, TypeInv
  <2> HIDE DEF m
  <2>4. RunOf(r)'
    BY <2>2, <2>3 DEF RunOf, InRun
  <2> QED BY <1>2, <2>3, <2>4
<1>11. ASSUME NEW r \in Requests, StoreReply(r) \/ Finish(r) \/ Fail(r) PROVE RunInv'
  BY <1>2, <1>11 DEF StoreReply, Finish, Fail, Go, TypeInv, RunOf, InRun
<1>12. ASSUME LoseCheckpoint \/ UNCHANGED vars PROVE RunInv'
  BY <1>o, <1>12 DEF LoseCheckpoint, vars, RunInv, RunOf
<1> QED BY <1>3, <1>4, <1>5, <1>6, <1>7, <1>8, <1>9, <1>10, <1>11, <1>12
        DEF Next, Progress, AllEnded

\* No message comes twice, and no reply before its run has ended.
LEMMA IdsStep == ASSUME ServiceInv, [Next]_vars PROVE IdsInv'
<1> DEFINE Early == BeforeRun \cup {"running", "thinking"}
           Id(q) == GraphId(q, "assistant")
<1>1. TypeInv /\ RowsInv /\ IdsInv
  BY DEF ServiceInv
<1> USE <1>1
<1>2. ASSUME Distinct(ckpt'), \A q \in Requests : Distinct(input'[q]) /\ Distinct(local'[q]),
             \A q \in Requests : pc'[q] \in Early =>
                 pc[q] \in Early /\ (Known(Id(q))' => Known(Id(q)))
      PROVE  IdsInv'
  BY <1>2 DEF IdsInv
<1>3. ASSUME ckpt' \in {ckpt, <<>>}, input' = input, local' = local,
             \A q \in Requests : pc'[q] \in Early => pc[q] \in Early
      PROVE  IdsInv'
  <2>1. Distinct(ckpt') /\ \A id : HoldsId(ckpt', id) => HoldsId(ckpt, id)
    BY <1>3 DEF IdsInv, Distinct, HoldsId
  <2> QED BY <1>2, <1>3, <2>1 DEF IdsInv, Known
<1>4. ASSUME NEW r \in Requests, Ask(r) \/ StoreQuestion(r) \/ MissCheckpoint(r) PROVE IdsInv'
  BY <1>3, <1>4 DEF Ask, StoreQuestion, MissCheckpoint, Go, TypeInv, BeforeRun
<1>5. ASSUME NEW r \in Requests, NEW s, Distinct(s),
             \A q \in Requests : ~HoldsId(s, Id(q)),
             input' = [input EXCEPT ![r] = s], local' = local, ckpt' = ckpt,
             \A q \in Requests : pc'[q] \in Early => pc[q] \in Early
      PROVE  IdsInv'
  <2>1. input'[r] = s /\ \A q \in Requests : q # r => input'[q] = input[q]
    BY <1>5 DEF TypeInv
  <2> QED BY <1>2, <1>5, <2>1 DEF IdsInv, Known
<1>6. ASSUME NEW r \in Requests, FindCheckpoint(r) PROVE IdsInv'
  <2>1. Distinct(Question(r)) /\ \A q \in Requests : ~HoldsId(Question(r), Id(q))
    BY QuestionAlone DEF GraphId
  <2>2. \A q \in Requests : pc'[q] \in Early => pc[q] \in Early
    BY <1>6 DEF FindCheckpoint, Go, TypeInv, BeforeRun
  <2> QED BY <1>5, <1>6, <2>1, <2>2 DEF FindCheckpoint
<1>7. ASSUME NEW r \in Requests, Restore(r) PROVE IdsInv'
  <2>1. Distinct(RestoredInput(r)) /\ \A q \in Requests : ~HoldsId(RestoredInput(r), Id(q))
    BY <1>7, RestoredMessages
  <2>2. \A q \in Requests : pc'[q] \in Early => pc[q] \in Early
    BY <1>7 DEF Restore, Go, TypeInv, BeforeRun
  <2> QED BY <1>5, <1>7, <2>1, <2>2 DEF Restore
<1>8. ASSUME NEW r \in Requests, StartRun(r) PROVE IdsInv'
  <2> DEFINE s == Started(r)
  <2>1. ckpt \in Seq(Proper) /\ input[r] \in Seq(Proper) /\ Distinct(ckpt) /\ Distinct(input[r])
    BY DEF TypeInv, IdsInv
  <2>2. Distinct(s) /\ \A id : HoldsId(s, id) => HoldsId(ckpt, id) \/ HoldsId(input[r], id)
    BY <2>1, AddedIds DEF Started
  <2>3. /\ ckpt' = s /\ input' = input /\ local'[r] = s
        /\ \A q \in Requests : q # r => local'[q] = local[q]
        /\ \A q \in Requests : pc'[q] \in Early => pc[q] \in Early
    BY <1>8 DEF StartRun, Go, TypeInv, BeforeRun
  <2> HIDE DEF s
  <2>4. \A id : Known(id)' => Known(id)
    BY <2>2, <2>3 DEF Known
  <2> QED BY <1>2, <2>2, <2>3, <2>4 DEF IdsInv
<1>9. ASSUME NEW r \in Requests, ReadQuestion(r) PROVE IdsInv'
  <2>1. /\ ckpt' = local[r] /\ input' = input /\ local' = local
        /\ \A q \in Requests : pc'[q] \in Early => pc[q] \in Early
    BY <1>9 DEF ReadQuestion, Go, TypeInv, BeforeRun
  <2>2. \A id : Known(id)' => Known(id)
    BY <2>1 DEF Known
  <2> QED BY <1>2, <2>1, <2>2 DEF IdsInv
<1>10. ASSUME NEW r \in Requests, EndRun(r) PROVE IdsInv'
  <2> DEFINE m == Reply(GraphId(r, "assistant"), r, question[r])
             a == Append(local[r], m)
  <2>1. m \in Proper /\ local[r] \in Seq(Proper) /\ m.id = Id(r)
    BY ProperMessages DEF TypeInv, Reply
  <2>2. ~HoldsId(local[r], Id(r)) /\ Distinct(local[r])
    BY <1>10 DEF IdsInv, Known, EndRun, Go
  <2> HIDE DEF m
  <2>3. Distinct(a) /\ \A id : HoldsId(a, id) <=> HoldsId(local[r], id) \/ m.id = id
    BY <2>1, <2>2, AppendedMessage
  <2>4. /\ ckpt' = a /\ input' = input /\ local'[r] = a
        /\ \A q \in Requests : q # r => local'[q] = local[q]
        /\ \A q \in Requests : pc'[q] \in Early => pc[q] \in Early /\ q # r
    BY <1>10 DEF EndRun, Go, TypeInv, BeforeRun, m
  <2> HIDE DEF a
  <2>5. \A id : Known(id)' => Known(id) \/ id = Id(r)
    BY <2>1, <2>3, <2>4 DEF Known
  <2>6. \A q \in Requests : Id(q) = Id(r) => q = r
    BY DEF GraphId
  <2> QED BY <1>2, <2>3, <2>4, <2>5, <2>6 DEF IdsInv
<1>11. ASSUME NEW r \in Requests,
              TakeOwnReply(r) \/ TakeLatestMessage(r) \/ StoreReply(r) \/ Finish(r) \/ Fail(r)
       PROVE  IdsInv'
  BY <1>3, <1>11 DEF TakeOwnReply, TakeLatestMessage, StoreReply, Finish, Fail, Go, TypeInv,
                     BeforeRun
<1>12. ASSUME LoseCheckpoint \/ UNCHANGED vars PROVE IdsInv'
  BY <1>3, <1>12 DEF LoseCheckpoint, vars
<1> QED BY <1>4, <1>6, <1>7, <1>8, <1>9, <1>10, <1>11, <1>12 DEF Next, Progress, AllEnded

\* Nobody hears of a question before it is asked, and of one that has the thread
\* to itself before its run starts.
LEMMA NewStep == ASSUME ServiceInv, [Next]_vars PROVE NewInv'
<1>1. TypeInv /\ RowsInv /\ SoleInv /\ NewInv
  BY DEF ServiceInv
<1> USE <1>1
<1>2. ASSUME overlapped \subseteq overlapped',
             \A q \in Requests : /\ pc'[q] = "idle" => pc[q] = "idle"
                                 /\ pc'[q] \in BeforeRun => pc[q] \in BeforeRun,
             ckpt' \in {ckpt, <<>>},
             \A q \in Requests : pc'[q] = "idle" /\ Heard(q)' => Heard(q)
      PROVE  NewInv'
  <2>1. \A q : Holds(ckpt', q, "user") => Holds(ckpt, q, "user")
    BY <1>2 DEF Holds
  <2> QED BY <1>2, <2>1 DEF NewInv
<1>3. ASSUME NEW r \in Requests, InFlight(r), overlapped' = overlapped, pc'[r] \notin BeforeRun,
             \A q \in Requests : q # r => pc'[q] = pc[q],
             \A q \in Requests : Holds(ckpt', q, "user") => Holds(ckpt, q, "user") \/ Heard(q),
             \A q \in Requests : Heard(q)' => Holds(ckpt, q, "user") \/ Heard(q)
      PROVE  NewInv'
  <2> SUFFICES ASSUME NEW q \in Requests
               PROVE  /\ pc'[q] = "idle" \/ (q \notin overlapped /\ pc'[q] \in BeforeRun) =>
                             ~Holds(ckpt', q, "user")
                      /\ pc'[q] = "idle" => ~Heard(q)'
    BY <1>3 DEF NewInv
  <2>1. CASE q = r
    BY <1>3, <2>1 DEF BeforeRun
  <2>2. CASE q # r /\ pc[q] = "idle"
    BY <1>3, <2>2 DEF NewInv
  <2>3. CASE q # r /\ pc[q] # "idle"
    <3>1. q \notin overlapped => ~InFlight(q)
      BY <1>3, <2>3 DEF SoleInv
    <3>2. q \notin overlapped => pc[q] \notin BeforeRun
      BY <2>3, <3>1 DEF InFlight, BeforeRun, Ended
    <3> QED BY <1>3, <2>3, <3>2
  <2> QED BY <2>1, <2>2, <2>3
<1>4. ASSUME NEW r \in Requests, Ask(r) \/ StoreQuestion(r) \/ MissCheckpoint(r) PROVE NewInv'
  BY <1>2, <1>4 DEF Ask, StoreQuestion, MissCheckpoint, Go, TypeInv, BeforeRun, Heard
<1>5. ASSUME NEW r \in Requests, NEW s, input' = [input EXCEPT ![r] = s], local' = local,
             ckpt' = ckpt, overlapped' = overlapped, pc' = [pc EXCEPT ![r] = "prepared"],
             pc[r] \in BeforeRun,
             \A q \in Requests : pc[q] = "idle" /\ q # r => ~Holds(s, q, "user")
      PROVE  NewInv'
  <2>1. /\ input'[r] = s /\ pc'[r] = "prepared"
        /\ \A q \in Requests : q # r => input'[q] = input[q] /\ pc'[q] = pc[q]
    BY <1>5 DEF TypeInv
  <2> QED BY <1>2, <1>5, <2>1 DEF Heard
<1>6. ASSUME NEW r \in Requests, FindCheckpoint(r) PROVE NewInv'
  <2>1. \A q \in Requests : pc[q] = "idle" /\ q # r => ~Holds(Question(r), q, "user")
    BY QuestionAlone
  <2> QED BY <1>5, <1>6, <2>1 DEF FindCheckpoint, Go, BeforeRun
<1>7. ASSUME NEW r \in Requests, Restore(r) PROVE NewInv'
  BY <1>5, <1>7, RestoredMessages DEF Restore, Go, BeforeRun
<1>8. ASSUME NEW r \in Requests, StartRun(r) PROVE NewInv'
  <2> DEFINE s == Started(r)
  <2>1. \A q \in Requests : Holds(s, q, "user") =>
            Holds(ckpt, q, "user") \/ Holds(input[r], q, "user")
    BY AddedHolds DEF Started, TypeInv
  <2>2. /\ ckpt' = s /\ input' = input /\ local'[r] = s
        /\ \A q \in Requests : q # r => local'[q] = local[q] /\ pc'[q] = pc[q]
        /\ InFlight(r) /\ overlapped' = overlapped /\ pc'[r] \notin BeforeRun
    BY <1>8 DEF StartRun, Go, TypeInv, BeforeRun, InFlight, Ended
  <2> HIDE DEF s
  <2> QED BY <1>3, <2>1, <2>2 DEF Heard
<1>9. ASSUME NEW r \in Requests, ReadQuestion(r) PROVE NewInv'
  <2>1. /\ ckpt' = local[r] /\ input' = input /\ local' = local
        /\ \A q \in Requests : q # r => pc'[q] = pc[q]
        /\ InFlight(r) /\ overlapped' = overlapped /\ pc'[r] \notin BeforeRun
    BY <1>9 DEF ReadQuestion, Go, TypeInv, BeforeRun, InFlight, Ended
  <2> QED BY <1>3, <2>1 DEF Heard
<1>10. ASSUME NEW r \in Requests, EndRun(r) PROVE NewInv'
  <2> DEFINE m == Reply(GraphId(r, "assistant"), r, question[r])
             a == Append(local[r], m)
  <2>1. m \in Proper /\ local[r] \in Seq(Proper) /\ m.role = "assistant"
    BY ProperMessages DEF TypeInv, Reply
  <2>2. /\ ckpt' = a /\ input' = input /\ local'[r] = a
        /\ \A q \in Requests : q # r => local'[q] = local[q] /\ pc'[q] = pc[q]
        /\ InFlight(r) /\ overlapped' = overlapped /\ pc'[r] \notin BeforeRun
    BY <1>10 DEF EndRun, Go, TypeInv, BeforeRun, InFlight, Ended
  <2> HIDE DEF m
  <2>3. \A q : Holds(a, q, "user") => Holds(local[r], q, "user")
    BY <2>1, AppendedMessage
  <2> HIDE DEF a
  <2> QED BY <1>3, <2>2, <2>3 DEF Heard
<1>11. ASSUME NEW r \in Requests,
              TakeOwnReply(r) \/ TakeLatestMessage(r) \/ StoreReply(r) \/ Finish(r) \/ Fail(r)
       PROVE  NewInv'
  BY <1>2, <1>11 DEF TakeOwnReply, TakeLatestMessage, StoreReply, Finish, Fail, Go, TypeInv,
                     BeforeRun, Heard
<1>12. ASSUME LoseCheckpoint \/ UNCHANGED vars PROVE NewInv'
  BY <1>2, <1>12 DEF LoseCheckpoint, vars, Heard
<1> QED BY <1>4, <1>6, <1>7, <1>8, <1>9, <1>10, <1>11, <1>12 DEF Next, Progress, AllEnded

\* A request that has the thread to itself gets its own question answered.
LEMMA AloneStep == ASSUME ServiceInv, [Next]_vars PROVE AloneInv'
<1>1. TypeInv /\ RowsInv /\ AskedInv /\ RunInv /\ SoleInv /\ NewInv /\ AloneInv
  BY DEF ServiceInv
<1> USE <1>1
<1>2. ASSUME NEW r \in Requests, overlapped \subseteq overlapped',
             r \notin overlapped' => AloneOf(r)',
             \A q \in Requests : q # r =>
                 /\ pc'[q] = pc[q] /\ local'[q] = local[q]
                 /\ q \notin overlapped' => ~InFlight(q)
      PROVE  AloneInv'
  <2> SUFFICES ASSUME NEW q \in Requests, q \notin overlapped', q # r PROVE AloneOf(q)'
    BY <1>2 DEF AloneInv
  <2>1. pc'[q] \in {"idle", "done", "failed"}
    BY <1>2 DEF InFlight, Ended, TypeInv
  <2>2. OnceAsked(local'[q], q)
    BY <1>2 DEF AloneInv, AloneOf
  <2> QED BY <2>1, <2>2 DEF AloneOf
<1>3. ASSUME NEW r \in Requests, InFlight(r), overlapped' = overlapped,
             r \notin overlapped => AloneOf(r)',
             \A q \in Requests : q # r => pc'[q] = pc[q] /\ local'[q] = local[q]
      PROVE  AloneInv'
  <2>1. \A q \in Requests : q # r /\ q \notin overlapped => ~InFlight(q)
    BY <1>3 DEF SoleInv
  <2> QED BY <1>2, <1>3, <2>1
<1>4. ASSUME NEW r \in Requests, Ask(r) PROVE AloneInv'
  <2> DEFINE others == {q \in Requests : InFlight(q)}
  <2>1. overlapped' = IF others = {} THEN overlapped ELSE overlapped \cup others \cup {r}
    BY <1>4 DEF Ask
  <2>2. \A q \in Requests : q \notin overlapped' => ~InFlight(q)
    BY <2>1
  <2>3. overlapped \subseteq overlapped'
    BY <2>1
  <2>4. /\ pc'[r] = "asking" /\ local' = local /\ Rows' = Rows /\ stamp'[r] = clock
        /\ \A q \in Requests : q # r => pc'[q] = pc[q]
    BY <1>4 DEF Ask, Go, Stamp, TypeInv, Rows
  <2>5. \A x \in Rows : x.at <= clock
    BY DEF RowsInv, TypeInv
  <2>6. r \notin overlapped' => AloneOf(r)'
    BY <2>3, <2>4, <2>5 DEF AloneInv, AloneOf
  <2> QED BY <1>2, <2>2, <2>3, <2>4, <2>6
<1>5. ASSUME NEW r \in Requests, StoreQuestion(r) PROVE AloneInv'
  <2>1. PICK x : Rows' = Rows \cup {x} /\ x.at = stamp[r]
    BY <1>5, QuestionStored
  <2>2. /\ pc[r] = "asking" /\ pc'[r] = "asked" /\ local' = local /\ stamp' = stamp
        /\ overlapped' = overlapped /\ stamp[r] \in Nat
        /\ \A q \in Requests : q # r => pc'[q] = pc[q]
    BY <1>5 DEF StoreQuestion, Go, TypeInv
  <2>3. r \notin overlapped => AloneOf(r)'
    BY <2>1, <2>2 DEF AloneInv, AloneOf
  <2> QED BY <1>3, <2>2, <2>3 DEF InFlight, Ended
<1>6. ASSUME NEW r \in Requests, FindCheckpoint(r) PROVE AloneInv'
  <2>1. EndsWithQuestion(Question(r), r) /\ OnceAsked(Question(r), r)
    BY QuestionAlone
  <2>2. /\ pc[r] = "asked" /\ pc'[r] = "prepared" /\ local' = local /\ input'[r] = Question(r)
        /\ overlapped' = overlapped /\ \A q \in Requests : q # r => pc'[q] = pc[q]
    BY <1>6 DEF FindCheckpoint, Go, TypeInv
  <2>3. r \notin overlapped => AloneOf(r)'
    BY <2>1, <2>2 DEF AloneInv, AloneOf
  <2> QED BY <1>3, <2>2, <2>3 DEF InFlight, Ended
<1>7. ASSUME NEW r \in Requests, MissCheckpoint(r) PROVE AloneInv'
  <2>1. /\ pc[r] = "asked" /\ pc'[r] = "restoring" /\ local' = local /\ Rows' = Rows
        /\ stamp' = stamp /\ overlapped' = overlapped
        /\ \A q \in Requests : q # r => pc'[q] = pc[q]
    BY <1>7 DEF MissCheckpoint, Go, TypeInv, Rows
  <2>2. r \notin overlapped => AloneOf(r)'
    BY <2>1 DEF AloneInv, AloneOf
  <2> QED BY <1>3, <2>1, <2>2 DEF InFlight, Ended
<1>8. ASSUME NEW r \in Requests, Restore(r) PROVE AloneInv'
  <2>1. /\ pc[r] = "restoring" /\ pc'[r] = "prepared" /\ local' = local
        /\ input'[r] = RestoredInput(r) /\ overlapped' = overlapped
        /\ \A q \in Requests : q # r => pc'[q] = pc[q]
    BY <1>8 DEF Restore, Go, TypeInv
  <2>2. PICK y \in Rows : y.owner = r /\ y.holds.role = "user" /\ y.at = stamp[r]
    BY <2>1 DEF AskedInv
  <2>3. RestoredInput(r) = LoadMessages /\ y.holds.by = r
    BY <2>2, QuestionRow DEF RestoredInput
  <2>4. ASSUME r \notin overlapped
        PROVE  EndsWithQuestion(LoadMessages, r) /\ OnceAsked(LoadMessages, r)
    <3>1. \A x \in Rows : x.at <= y.at
      BY <2>1, <2>2, <2>4 DEF AloneInv, AloneOf
    <3> QED BY <2>2, <2>3, <3>1, LoadedQuestion
  <2>5. r \notin overlapped => AloneOf(r)'
    BY <2>1, <2>3, <2>4 DEF AloneInv, AloneOf
  <2> QED BY <1>3, <2>1, <2>5 DEF InFlight, Ended
<1>9. ASSUME NEW r \in Requests, StartRun(r) PROVE AloneInv'
  <2> DEFINE s == Started(r)
  <2>1. /\ pc[r] = "prepared" /\ pc'[r] = "running" /\ local'[r] = s
        /\ overlapped' = overlapped
        /\ \A q \in Requests : q # r => pc'[q] = pc[q] /\ local'[q] = local[q]
    BY <1>9 DEF StartRun, Go, TypeInv
  <2>2. ASSUME r \notin overlapped PROVE EndsWithQuestion(s, r) /\ OnceAsked(s, r)
    <3>1. ~Holds(ckpt, r, "user")
      BY <2>1, <2>2 DEF NewInv, BeforeRun
    <3>2. EndsWithQuestion(input[r], r) /\ OnceAsked(input[r], r)
      BY <2>1, <2>2 DEF AloneInv, AloneOf
    <3>3. ckpt \in Seq(Proper) /\ input[r] \in Seq(Proper)
      BY DEF TypeInv
    <3> QED BY <3>1, <3>2, <3>3, AddedQuestion DEF Started
  <2> HIDE DEF s
  <2>3. r \notin overlapped => AloneOf(r)'
    BY <2>1, <2>2 DEF AloneOf
  <2> QED BY <1>3, <2>1, <2>3 DEF InFlight, Ended
<1>10. ASSUME NEW r \in Requests, ReadQuestion(r) PROVE AloneInv'
  <2>1. /\ pc[r] = "running" /\ pc'[r] = "thinking" /\ local' = local
        /\ question'[r] = LatestQuestion(local[r]) /\ overlapped' = overlapped
        /\ \A q \in Requests : q # r => pc'[q] = pc[q]
    BY <1>10 DEF ReadQuestion, Go, TypeInv
  <2>2. local[r] \in Seq(Proper)
    BY DEF TypeInv
  <2>3. r \notin overlapped => EndsWithQuestion(local[r], r)
    BY <2>1 DEF AloneInv, AloneOf
  <2>4. r \notin overlapped => question'[r] = r
    BY <2>1, <2>2, <2>3, LatestQuestionFound
  <2>5. r \notin overlapped => AloneOf(r)'
    BY <2>1, <2>3, <2>4 DEF AloneInv, AloneOf
  <2> QED BY <1>3, <2>1, <2>5 DEF InFlight, Ended
<1>11. ASSUME NEW r \in Requests, EndRun(r) PROVE AloneInv'
  <2> DEFINE m == Reply(GraphId(r, "assistant"), r, question[r])
             a == Append(local[r], m)
  <2>1. /\ pc[r] = "thinking" /\ pc'[r] = "ended" /\ local'[r] = a /\ ckpt' = a
        /\ question' = question /\ overlapped' = overlapped
        /\ \A q \in Requests : q # r => pc'[q] = pc[q] /\ local'[q] = local[q]
    BY <1>11 DEF EndRun, Go, TypeInv
  <2>2. m \in Proper /\ local[r] \in Seq(Proper) /\ m.role = "assistant"
    BY ProperMessages DEF TypeInv, Reply
  <2> HIDE DEF m
  <2>3. OnceAsked(local[r], r) => OnceAsked(a, r)
    BY <2>2, AppendedMessage
  <2> HIDE DEF a
  <2>4. r \notin overlapped => AloneOf(r)'
    BY <2>1, <2>3 DEF AloneInv, AloneOf
  <2> QED BY <1>3, <2>1, <2>4 DEF InFlight, Ended
<1>12. ASSUME NEW r \in Requests, TakeOwnReply(r) \/ TakeLatestMessage(r) PROVE AloneInv'
  <2> DEFINE m == Reply(GraphId(r, "assistant"), r, question[r])
             l == Last(IF ckpt = <<>> THEN local[r] ELSE ckpt)
  <2>1. /\ pc[r] = "ended" /\ pc'[r] = "replying" /\ local' = local
        /\ content'[r] \in {l, Last(local[r])} /\ overlapped' = overlapped
        /\ \A q \in Requests : q # r => pc'[q] = pc[q]
    BY <1>12 DEF TakeOwnReply, TakeLatestMessage, Go, TypeInv
  <2>2. Last(local[r]) = m
    BY <2>1 DEF RunInv, RunOf
  <2>3. r \notin overlapped => question[r] = r /\ ckpt \in {<<>>, local[r]}
    BY <2>1 DEF AloneInv, AloneOf
  <2>4. r \notin overlapped => l = m
    BY <2>2, <2>3
  <2>5. m.by = r /\ m.to = question[r]
    BY DEF Reply
  <2> HIDE DEF l, m
  <2>6. r \notin overlapped => content'[r].by = r /\ content'[r].to = r
    BY <2>1, <2>2, <2>3, <2>4, <2>5
  <2>7. r \notin overlapped => AloneOf(r)'
    BY <2>1, <2>6 DEF AloneInv, AloneOf
  <2> QED BY <1>3, <2>1, <2>7 DEF InFlight, Ended
<1>13. ASSUME NEW r \in Requests, StoreReply(r) \/ Finish(r) \/ Fail(r) PROVE AloneInv'
  <2>1. /\ InFlight(r) /\ pc'[r] \in {"stored", "done", "failed"} /\ local' = local
        /\ overlapped' = overlapped /\ \A q \in Requests : q # r => pc'[q] = pc[q]
    BY <1>13 DEF StoreReply, Finish, Fail, Go, TypeInv, InFlight, Ended
  <2>2. r \notin overlapped => AloneOf(r)'
    BY <2>1 DEF AloneInv, AloneOf
  <2> QED BY <1>3, <2>1, <2>2
<1>14. ASSUME LoseCheckpoint \/ UNCHANGED vars PROVE AloneInv'
  BY <1>14 DEF LoseCheckpoint, vars, Rows, AloneInv, AloneOf
<1> QED BY <1>4, <1>5, <1>6, <1>7, <1>8, <1>9, <1>10, <1>11, <1>12, <1>13, <1>14
        DEF Next, Progress, AllEnded

\* A question has one id in whatever is restored or checkpointed, and does not
\* come to what holds it under the other one.
LEMMA OnceStep == ASSUME ServiceInv, [Next]_vars PROVE OnceInv'
<1> DEFINE Id(q) == GraphId(q, "user")
           Name(q) == RowId(q, "user")
           Unasked(q) ==
               \/ pc[q] \in {"idle", "asking"}
               \/ q \notin overlapped /\ pc[q] \in {"asked", "restoring"}
           Found(q) == q \notin overlapped /\ losses = 0 /\ input[q] = Question(q)
           Preparing == {"idle", "asking", "asked", "restoring"}
<1>1. TypeInv /\ RowsInv /\ SoleInv /\ OnceInv
  BY DEF ServiceInv
<1> USE <1>1
<1>2. ASSUME input' = input, overlapped \subseteq overlapped', losses' = losses,
             \A q \in Requests : Known(Id(q))' => Known(Id(q)),
             \A q \in Requests : Known(Name(q))' => Known(Name(q)),
             \A q \in Requests : /\ pc'[q] \in Preparing => pc[q] \in Preparing
                                 /\ Unasked(q)' => Unasked(q),
             \A r \in Requests : Found(r) =>
                 /\ ckpt' # <<>>
                 /\ \A q \in Requests :
                        pc'[q] # "restoring" /\ (pc'[q] \in InRun => local'[q] # <<>>)
      PROVE  OnceInv'
  BY <1>2 DEF OnceInv, OnceOf
<1>3. ASSUME UNCHANGED <<input, ckpt, local>>, overlapped \subseteq overlapped', losses' = losses,
             \A q \in Requests : /\ pc'[q] \in Preparing => pc[q] \in Preparing
                                 /\ Unasked(q)' => Unasked(q)
                                 /\ pc'[q] = "restoring" => pc[q] = "restoring"
                                 /\ pc'[q] \in InRun => pc[q] \in InRun
      PROVE  OnceInv'
  <2>1. \A id : Known(id)' => Known(id)
    BY <1>3 DEF Known
  <2> QED BY <1>2, <1>3, <2>1 DEF OnceInv, OnceOf
<1>4. ASSUME NEW r \in Requests, Ask(r) PROVE OnceInv'
  <2>1. overlapped \subseteq overlapped'
    BY <1>4 DEF Ask
  <2> QED BY <1>3, <1>4, <2>1 DEF Ask, Go, TypeInv, InRun
<1>5. ASSUME NEW r \in Requests, StoreQuestion(r) PROVE OnceInv'
  BY <1>3, <1>5 DEF StoreQuestion, Go, TypeInv, InRun
<1>6. ASSUME NEW r \in Requests, MissCheckpoint(r) PROVE OnceInv'
  <2>1. /\ pc[r] = "asked" /\ pc'[r] = "restoring" /\ ckpt = <<>>
        /\ UNCHANGED <<input, ckpt, local, overlapped, losses>>
        /\ \A q \in Requests : q # r => pc'[q] = pc[q]
    BY <1>6 DEF MissCheckpoint, Go, TypeInv
  <2>2. \A id : Known(id)' => Known(id)
    BY <2>1 DEF Known
  <2>3. \A q \in Requests : ~Found(q)
    BY <2>1 DEF OnceInv, OnceOf
  <2> QED BY <1>2, <2>1, <2>2, <2>3
<1>7. ASSUME NEW r \in Requests, pc[r] \in {"asked", "restoring"}, pc'[r] = "prepared",
             \A q \in Requests : q # r => input'[q] = input[q] /\ pc'[q] = pc[q],
             UNCHANGED <<ckpt, local, overlapped, losses>>,
             \A q \in Requests : HoldsId(input'[r], Id(q)) => q = r /\ input'[r] = Question(r),
             \A q \in Requests :
                 q # r /\ (Unasked(q) \/ Found(q)) => ~HoldsId(input'[r], Name(q)),
             input'[r] = Question(r) /\ r \notin overlapped =>
                 /\ ckpt # <<>> /\ ~HoldsId(input'[r], Name(r))
                 /\ \A q \in Requests : q # r => pc[q] # "restoring" /\ pc[q] \notin InRun
      PROVE  OnceInv'
  <2> DEFINE s == input'[r]
  <2>2. \A id : Known(id)' => Known(id) \/ HoldsId(s, id)
    BY <1>7 DEF Known
  <2>3. ASSUME NEW q \in Requests, q # r PROVE OnceOf(q)'
    <3>1. Known(Id(q))' => Known(Id(q))
      BY <1>7, <2>2, <2>3
    <3>2. Unasked(q) \/ Found(q) => (Known(Name(q))' => Known(Name(q)))
      BY <1>7, <2>2, <2>3
    <3> QED BY <1>7, <2>3, <3>1, <3>2 DEF OnceInv, OnceOf, InRun
  <2>4. OnceOf(r)'
    <3>1. input[r] = <<>> /\ Question(r) # <<>>
      BY <1>7, QuestionAlone DEF OnceInv, OnceOf, EndsWithQuestion
    <3>2. ~Known(Id(r))
      BY <3>1 DEF OnceInv, OnceOf
    <3>3. Known(Id(r))' => s = Question(r)
      BY <1>7, <2>2, <3>2
    <3>4. r \notin overlapped => ~Known(Name(r))
      BY <1>7 DEF OnceInv, OnceOf
    <3>5. s = Question(r) /\ r \notin overlapped => ~Known(Name(r))'
      BY <1>7, <2>2, <3>4
    <3> QED BY <1>7, <3>3, <3>5 DEF OnceOf, InRun
  <2> QED BY <2>3, <2>4 DEF OnceInv
<1>8. ASSUME NEW r \in Requests, FindCheckpoint(r) PROVE OnceInv'
  <2>1. /\ pc[r] = "asked" /\ pc'[r] = "prepared" /\ ckpt # <<>> /\ input'[r] = Question(r)
        /\ \A q \in Requests : q # r => input'[q] = input[q] /\ pc'[q] = pc[q]
        /\ UNCHANGED <<ckpt, local, overlapped, losses>>
    BY <1>8 DEF FindCheckpoint, Go, TypeInv
  <2>2. /\ \A q \in Requests : HoldsId(Question(r), Id(q)) => q = r
        /\ \A q \in Requests : ~HoldsId(Question(r), Name(q))
    BY QuestionAlone DEF GraphId, RowId
  <2>3. ASSUME r \notin overlapped, NEW q \in Requests, q # r
        PROVE  pc[q] # "restoring" /\ pc[q] \notin InRun
    BY <2>1, <2>3 DEF SoleInv, InFlight, InRun, Ended
  <2> HIDE DEF Id, Name, Unasked, Found
  <2> QED BY <1>7, <2>1, <2>2, <2>3
<1>9. ASSUME NEW r \in Requests, Restore(r) PROVE OnceInv'
  <2>1. /\ pc[r] = "restoring" /\ pc'[r] = "prepared" /\ input'[r] = RestoredInput(r)
        /\ \A q \in Requests : q # r => input'[q] = input[q] /\ pc'[q] = pc[q]
        /\ UNCHANGED <<ckpt, local, overlapped, losses>>
    BY <1>9 DEF Restore, Go, TypeInv
  <2>2. /\ \A q \in Requests : ~HoldsId(input'[r], Id(q))
        /\ \A id : HoldsId(input'[r], id) => \E x \in Rows : x.id = id
    BY <1>9, <2>1, RestoredMessages
  <2>3. input'[r] # Question(r)
    BY <2>2, QuestionAlone
  <2>4. ASSUME NEW q \in Requests, q # r, Unasked(q), HoldsId(input'[r], Name(q)) PROVE FALSE
    <3>1. PICK x \in Rows : x.id = Name(q)
      BY <2>2, <2>4
    <3>2. x.owner = q /\ x.holds.role = "user"
      BY <3>1 DEF RowsInv, RowId
    <3>3. pc[q] \notin {"idle", "asking"}
      BY <3>1, <3>2 DEF RowsInv
    <3> QED BY <2>1, <2>4, <3>3 DEF SoleInv, InFlight, Ended
  <2>5. \A q \in Requests : ~Found(q)
    BY <2>1 DEF OnceInv, OnceOf
  <2> HIDE DEF Id, Name, Unasked, Found
  <2> QED BY <1>7, <2>1, <2>2, <2>3, <2>4, <2>5
<1>10. ASSUME NEW r \in Requests, StartRun(r) PROVE OnceInv'
  <2> DEFINE s == Started(r)
  <2>1. ckpt \in Seq(Proper) /\ input[r] \in Seq(Proper)
    BY DEF TypeInv
  <2>2. \A id : HoldsId(s, id) => HoldsId(ckpt, id) \/ HoldsId(input[r], id)
    BY <2>1, AddedIds DEF Started
  <2>3. ckpt # <<>> => s # <<>>
    BY <2>1, AddedMessages DEF Started
  <2>4. /\ pc[r] = "prepared" /\ pc'[r] = "running" /\ ckpt' = s /\ local'[r] = s
        /\ UNCHANGED <<input, overlapped, losses>>
        /\ \A q \in Requests : q # r => local'[q] = local[q] /\ pc'[q] = pc[q]
    BY <1>10 DEF StartRun, Go, TypeInv
  <2> HIDE DEF s
  <2>5. \A id : Known(id)' => Known(id)
    BY <2>2, <2>4 DEF Known
  <2>6. ASSUME NEW q \in Requests, Found(q)
        PROVE  /\ ckpt' # <<>>
               /\ \A p \in Requests :
                      pc'[p] # "restoring" /\ (pc'[p] \in InRun => local'[p] # <<>>)
    BY <2>3, <2>4, <2>6 DEF OnceInv, OnceOf
  <2> QED BY <1>2, <2>4, <2>5, <2>6
<1>11. ASSUME NEW r \in Requests, ReadQuestion(r) PROVE OnceInv'
  <2>1. /\ pc[r] = "running" /\ pc'[r] = "thinking" /\ ckpt' = local[r]
        /\ UNCHANGED <<input, local, overlapped, losses>>
        /\ \A q \in Requests : q # r => pc'[q] = pc[q]
    BY <1>11 DEF ReadQuestion, Go, TypeInv
  <2>2. \A id : Known(id)' => Known(id)
    BY <2>1 DEF Known
  <2>3. ASSUME NEW q \in Requests, Found(q)
        PROVE  /\ ckpt' # <<>>
               /\ \A p \in Requests :
                      pc'[p] # "restoring" /\ (pc'[p] \in InRun => local'[p] # <<>>)
    BY <2>1, <2>3 DEF OnceInv, OnceOf, InRun
  <2> QED BY <1>2, <2>1, <2>2, <2>3
<1>12. ASSUME NEW r \in Requests, EndRun(r) PROVE OnceInv'
  <2> DEFINE m == Reply(GraphId(r, "assistant"), r, question[r])
             a == Append(local[r], m)
  <2>1. m \in Proper /\ local[r] \in Seq(Proper) /\ m.id = GraphId(r, "assistant")
    BY ProperMessages DEF TypeInv, Reply
  <2> HIDE DEF m
  <2>2. a # <<>> /\ \A id : HoldsId(a, id) => HoldsId(local[r], id) \/ id = GraphId(r, "assistant")
    BY <2>1, AppendedMessage
  <2>3. /\ pc[r] = "thinking" /\ pc'[r] = "ended" /\ ckpt' = a /\ local'[r] = a
        /\ UNCHANGED <<input, overlapped, losses>>
        /\ \A q \in Requests : q # r => local'[q] = local[q] /\ pc'[q] = pc[q]
    BY <1>12 DEF EndRun, Go, TypeInv, m
  <2> HIDE DEF a
  <2>4. \A id : Known(id)' => Known(id) \/ id = GraphId(r, "assistant")
    BY <2>2, <2>3 DEF Known
  <2>5. \A q : Id(q) # GraphId(r, "assistant") /\ Name(q) # GraphId(r, "assistant")
    BY DEF GraphId, RowId
  <2>6. ASSUME NEW q \in Requests, Found(q)
        PROVE  /\ ckpt' # <<>>
               /\ \A p \in Requests :
                      pc'[p] # "restoring" /\ (pc'[p] \in InRun => local'[p] # <<>>)
    BY <2>2, <2>3, <2>6 DEF OnceInv, OnceOf
  <2> QED BY <1>2, <2>3, <2>4, <2>5, <2>6
<1>13. ASSUME NEW r \in Requests,
              TakeOwnReply(r) \/ TakeLatestMessage(r) \/ StoreReply(r) \/ Finish(r) \/ Fail(r)
       PROVE  OnceInv'
  BY <1>3, <1>13 DEF TakeOwnReply, TakeLatestMessage, StoreReply, Finish, Fail, Go, TypeInv, InRun
<1>14. ASSUME LoseCheckpoint PROVE OnceInv'
  <2>1. /\ losses' # 0 /\ ckpt' = <<>> /\ UNCHANGED <<input, local, overlapped, pc>>
    BY <1>14 DEF LoseCheckpoint, TypeInv
  <2>2. \A id : Known(id)' => Known(id)
    BY <2>1 DEF Known, HoldsId
  <2> QED BY <2>1, <2>2 DEF OnceInv, OnceOf
<1>15. ASSUME UNCHANGED vars PROVE OnceInv'
  BY <1>3, <1>15 DEF vars
<1> QED BY <1>4, <1>5, <1>6, <1>8, <1>9, <1>10, <1>11, <1>12, <1>13, <1>14, <1>15
        DEF Next, Progress, AllEnded

\* What a complete exchange has said is not lost by later runs.
LEMMA KeptStep == ASSUME ServiceInv, [Next]_vars PROVE KeptInv'
<1> DEFINE Given == {"ended", "replying", "stored", "done"}
<1>1. TypeInv /\ SoleInv /\ AloneInv /\ KeptInv
  BY DEF ServiceInv
<1> USE <1>1
<1>2. ASSUME overlapped \subseteq overlapped', losses' = losses, ckpt' = ckpt, local' = local,
             \A q \in Requests : /\ pc'[q] \in Given => pc[q] \in Given
                                 /\ pc'[q] \in InRun => pc[q] \in InRun
      PROVE  KeptInv'
  BY <1>2 DEF KeptInv
<1>3. ASSUME NEW q \in Requests, overlapped' = overlapped, losses' = losses,
             pc'[q] \in {"running", "thinking"},
             \A r \in Requests : r # q => pc'[r] = pc[r] /\ local'[r] = local[r],
             \A r \in Requests : HoldsExchange(ckpt, r) /\ (pc[q] \in InRun => HoldsExchange(local[q], r))
                 => HoldsExchange(ckpt', r) /\ HoldsExchange(local'[q], r)
      PROVE  KeptInv'
  BY <1>3 DEF KeptInv
<1>4. ASSUME NEW r \in Requests, Ask(r) \/ StoreQuestion(r) \/ FindCheckpoint(r) PROVE KeptInv'
  BY <1>2, <1>4 DEF Ask, StoreQuestion, FindCheckpoint, Go, TypeInv, InRun
<1>5. ASSUME NEW r \in Requests, MissCheckpoint(r) \/ Restore(r) PROVE KeptInv'
  BY <1>2, <1>5 DEF MissCheckpoint, Restore, Go, TypeInv, InRun
<1>6. ASSUME NEW q \in Requests, StartRun(q) PROVE KeptInv'
  <2> DEFINE s == Started(q)
  <2>1. \A r \in Requests : HoldsExchange(ckpt, r) => HoldsExchange(s, r)
    BY AddedHolds DEF HoldsExchange, Started, TypeInv
  <2>2. /\ pc'[q] = "running" /\ local'[q] = s /\ ckpt' = s
        /\ overlapped' = overlapped /\ losses' = losses
        /\ \A r \in Requests : r # q => pc'[r] = pc[r] /\ local'[r] = local[r]
    BY <1>6 DEF StartRun, Go, TypeInv
  <2> HIDE DEF s
  <2> QED BY <1>3, <2>1, <2>2
<1>7. ASSUME NEW q \in Requests, ReadQuestion(q) PROVE KeptInv'
  <2>1. /\ pc[q] = "running" /\ pc'[q] = "thinking" /\ local' = local /\ ckpt' = local[q]
        /\ overlapped' = overlapped /\ losses' = losses
        /\ \A r \in Requests : r # q => pc'[r] = pc[r]
    BY <1>7 DEF ReadQuestion, Go, TypeInv
  <2> QED BY <1>3, <2>1 DEF InRun
<1>8. ASSUME NEW q \in Requests, EndRun(q) PROVE KeptInv'
  <2> DEFINE m == Reply(GraphId(q, "assistant"), q, question[q])
             a == Append(local[q], m)
  <2>1. /\ pc[q] = "thinking" /\ pc'[q] = "ended" /\ local'[q] = a /\ ckpt' = a
        /\ overlapped' = overlapped /\ losses' = losses
        /\ \A r \in Requests : r # q => pc'[r] = pc[r] /\ local'[r] = local[r]
    BY <1>8 DEF EndRun, Go, TypeInv
  <2>2. m \in Proper /\ local[q] \in Seq(Proper) /\ m.role = "assistant" /\ m.by = q
    BY ProperMessages DEF TypeInv, Reply
  <2> HIDE DEF m
  <2>3. \A r, role : Holds(local[q], r, role) => Holds(a, r, role)
    BY <2>2, AppendedMessage
  <2>4. ASSUME q \notin overlapped PROVE HoldsExchange(a, q)
    <3>1. EndsWithQuestion(local[q], q) /\ local[q] \in Seq(Proper)
      BY <2>1, <2>2, <2>4 DEF AloneInv, AloneOf
    <3>2. Len(local[q]) \in DOMAIN local[q]
      BY <3>1 DEF EndsWithQuestion
    <3>3. Holds(local[q], q, "user")
      BY <3>1, <3>2 DEF EndsWithQuestion, Holds
    <3> QED BY <2>2, <3>3, AppendedMessage DEF HoldsExchange
  <2> HIDE DEF a
  <2>5. \A r \in Requests : q \notin overlapped /\ r # q => pc[r] \notin InRun
    BY <2>1 DEF SoleInv, InFlight, InRun, Ended
  <2> SUFFICES ASSUME losses = 0, NEW r \in Requests, r \notin overlapped, pc'[r] \in Given
               PROVE  /\ HoldsExchange(ckpt', r)
                      /\ \A p \in Requests : p # r /\ pc'[p] \in InRun =>
                             HoldsExchange(local'[p], r)
    BY <2>1 DEF KeptInv
  <2>6. CASE r = q
    BY <2>1, <2>4, <2>5, <2>6
  <2>7. CASE r # q
    <3>1. \A p \in Requests : p # r /\ pc[p] \in InRun => HoldsExchange(local[p], r)
      BY <2>1, <2>7 DEF KeptInv
    <3>2. HoldsExchange(local[q], r)
      BY <2>1, <2>7, <3>1 DEF InRun
    <3>3. HoldsExchange(a, r)
      BY <2>3, <3>2 DEF HoldsExchange
    <3> QED BY <2>1, <3>1, <3>3
  <2> QED BY <2>6, <2>7
<1>9. ASSUME NEW r \in Requests,
             TakeOwnReply(r) \/ TakeLatestMessage(r) \/ StoreReply(r) \/ Finish(r) \/ Fail(r)
      PROVE  KeptInv'
  BY <1>2, <1>9 DEF TakeOwnReply, TakeLatestMessage, StoreReply, Finish, Fail, Go, TypeInv, InRun
<1>10. ASSUME LoseCheckpoint PROVE KeptInv'
  <2>1. losses' # 0
    BY <1>10 DEF LoseCheckpoint, TypeInv
  <2> QED BY <2>1 DEF KeptInv
<1>11. ASSUME UNCHANGED vars PROVE KeptInv'
  BY <1>2, <1>11 DEF vars
<1> QED BY <1>4, <1>5, <1>6, <1>7, <1>8, <1>9, <1>10, <1>11 DEF Next, Progress, AllEnded

\* Whatever is stored as a reply is the one its request had taken.
LEMMA ReplyStep ==
    ASSUME ServiceInv, [Next]_vars PROVE BlockingReplyIsOwn' /\ AnswersOwnQuestion'
<1>1. TypeInv /\ RunInv /\ AloneInv /\ BlockingReplyIsOwn /\ AnswersOwnQuestion
  BY DEF ServiceInv
<1> USE <1>1
<1>2. ASSUME overlapped \subseteq overlapped', RepliesOf(Requests)' \subseteq RepliesOf(Requests)
      PROVE  BlockingReplyIsOwn' /\ AnswersOwnQuestion'
  BY <1>2 DEF BlockingReplyIsOwn, AnswersOwnQuestion, RepliesOf
<1>3. ASSUME NEW r \in Requests, Ask(r) \/ FindCheckpoint(r) \/ MissCheckpoint(r) \/ Restore(r)
      PROVE  overlapped \subseteq overlapped' /\ RepliesOf(Requests)' \subseteq RepliesOf(Requests)
  BY <1>3 DEF Ask, FindCheckpoint, MissCheckpoint, Restore, RepliesOf, Rows
<1>4. ASSUME NEW r \in Requests, StoreQuestion(r)
      PROVE  overlapped \subseteq overlapped' /\ RepliesOf(Requests)' \subseteq RepliesOf(Requests)
  <2>1. PICK x : Rows' = Rows \cup {x} /\ x.holds.role = "user"
    BY <1>4, QuestionStored
  <2> QED BY <1>4, <2>1 DEF StoreQuestion, RepliesOf
<1>5. ASSUME NEW r \in Requests, StartRun(r) \/ ReadQuestion(r) \/ EndRun(r)
      PROVE  overlapped \subseteq overlapped' /\ RepliesOf(Requests)' \subseteq RepliesOf(Requests)
  BY <1>5 DEF StartRun, ReadQuestion, EndRun, RepliesOf, Rows
<1>6. ASSUME NEW r \in Requests,
             TakeOwnReply(r) \/ TakeLatestMessage(r) \/ Finish(r) \/ Fail(r)
      PROVE  overlapped \subseteq overlapped' /\ RepliesOf(Requests)' \subseteq RepliesOf(Requests)
  BY <1>6 DEF TakeOwnReply, TakeLatestMessage, Finish, Fail, RepliesOf, Rows
<1>7. ASSUME NEW r \in Requests, StoreReply(r)
      PROVE  BlockingReplyIsOwn' /\ AnswersOwnQuestion'
  <2>1. PICK x : /\ Rows' = Rows \cup {x} /\ x.owner = r
                 /\ x.holds.by = content[r].by /\ x.holds.to = content[r].to
    BY <1>7, ReplyStored
  <2>2. pc[r] = "replying" /\ overlapped' = overlapped
    BY <1>7 DEF StoreReply, Go
  <2>3. r \notin Streaming => content[r].by = r
    BY <2>2 DEF RunInv, RunOf
  <2>5. r \notin overlapped => content[r].by = r /\ content[r].to = r
    BY <2>2 DEF AloneInv, AloneOf
  <2>6. BlockingReplyIsOwn'
    BY <2>1, <2>3 DEF BlockingReplyIsOwn, RepliesOf
  <2>7. AnswersOwnQuestion'
    BY <2>1, <2>2, <2>5 DEF AnswersOwnQuestion, RepliesOf
  <2> QED BY <2>6, <2>7
<1>8. ASSUME LoseCheckpoint \/ UNCHANGED vars
      PROVE  overlapped \subseteq overlapped' /\ RepliesOf(Requests)' \subseteq RepliesOf(Requests)
  BY <1>8 DEF LoseCheckpoint, vars, RepliesOf, Rows
<1> QED BY <1>2, <1>3, <1>4, <1>5, <1>6, <1>7, <1>8 DEF Next, Progress, AllEnded

\* Every message that is added is one of the two lists'.
LEMMA AddedAbout ==
    ASSUME NEW old \in Seq(Proper), NEW new \in Seq(Proper), AboutAsked(old), AboutAsked(new)
    PROVE  AboutAsked(AddMessages(old, new))
<1> DEFINE s == AddMessages(old, new)
           Tail1 == (Len(old) + 1)..Len(s)
<1>1. /\ s \in Seq(Proper) /\ Len(old) <= Len(s)
      /\ \A i \in 1..Len(old) : s[i] = old[i]
  BY AddedMessages
<1>2. PICK h \in [Tail1 -> DOMAIN new] : Placed(old, new, s, h)
  BY AddedMessages
<1>3. \A i \in Tail1 : s[i] = new[h[i]] /\ h[i] \in DOMAIN new
  BY <1>2 DEF Placed
<1> HIDE DEF s
<1>4. \A i \in DOMAIN s : i \in DOMAIN old \/ i \in Tail1
  BY <1>1
<1>5. \A i \in DOMAIN old : s[i] = old[i]
  BY <1>1
<1> HIDE DEF Tail1
<1>6. AboutAsked(s)
  BY <1>3, <1>4, <1>5 DEF AboutAsked
<1> QED BY <1>6 DEF s

\* No question is answered before it has been stored.
LEMMA AboutStep == ASSUME ServiceInv, [Next]_vars PROVE AboutInv'
<1>1. TypeInv /\ RowsInv /\ RunInv /\ AboutInv
  BY DEF ServiceInv
<1> USE <1>1
<1>2. ASSUME Rows \subseteq Rows',
             \A x \in Rows' : x \in Rows \/ (x.holds.to # None => Asked(x.holds.to)'),
             ckpt' \in {ckpt, <<>>}, input' = input, local' = local, question' = question,
             \A q \in Requests : pc'[q] = "replying" =>
                 pc[q] = "replying" /\ content'[q] = content[q] /\ stamp'[q] = stamp[q]
      PROVE  AboutInv'
  <2>1. \A q : Asked(q) => Asked(q)'
    BY <1>2 DEF Asked
  <2>2. \A q, at : QuestionBefore(q, at) => QuestionBefore(q, at)'
    BY <1>2 DEF QuestionBefore
  <2>3. AboutAsked(ckpt)'
    BY <1>2, <2>1 DEF AboutInv, AboutAsked
  <2>4. \A q \in Requests : AboutAsked(input[q])' /\ AboutAsked(local[q])'
    BY <1>2, <2>1 DEF AboutInv, AboutAsked
  <2> QED BY <1>2, <2>1, <2>2, <2>3, <2>4 DEF AboutInv
<1>3. ASSUME Rows' = Rows, AboutAsked(ckpt'),
             \A q \in Requests : AboutAsked(input'[q]) /\ AboutAsked(local'[q]),
             \A q \in Requests : question'[q] # None => Asked(question'[q]),
             stamp' = stamp, content' = content,
             \A q \in Requests : pc'[q] = "replying" => pc[q] = "replying"
      PROVE  AboutInv'
  <2>1. \A q : Asked(q) => Asked(q)'
    BY <1>3 DEF Asked
  <2>2. \A q, at : QuestionBefore(q, at) => QuestionBefore(q, at)'
    BY <1>3 DEF QuestionBefore
  <2>3. AboutAsked(ckpt)' /\ \A q \in Requests : AboutAsked(input[q])' /\ AboutAsked(local[q])'
    BY <1>3, <2>1 DEF AboutAsked
  <2> QED BY <1>3, <2>1, <2>2, <2>3 DEF AboutInv
<1>4. ASSUME NEW r \in Requests, Ask(r) \/ MissCheckpoint(r) \/ Finish(r) \/ Fail(r)
      PROVE  AboutInv'
  BY <1>2, <1>4 DEF Ask, MissCheckpoint, Finish, Fail, Go, Stamp, TypeInv, Rows
<1>5. ASSUME NEW r \in Requests, StoreQuestion(r) PROVE AboutInv'
  <2>1. PICK x : /\ Rows' = Rows \cup {x}
                 /\ x.owner = r /\ x.holds.role = "user" /\ x.holds.to = r
    BY <1>5, QuestionStored
  <2>2. Asked(x.holds.to)'
    BY <2>1 DEF Asked
  <2> QED BY <1>2, <1>5, <2>1, <2>2 DEF StoreQuestion, Go, TypeInv
<1>6. ASSUME NEW r \in Requests, pc[r] \in {"asked", "restoring"}
      PROVE  Asked(r)
  BY <1>6 DEF ServiceInv, AskedInv, Asked
<1>7. ASSUME NEW r \in Requests, FindCheckpoint(r) PROVE AboutInv'
  <2>1. AboutAsked(Question(r))
    BY <1>6, <1>7 DEF AboutAsked, Question, Human, FindCheckpoint, Go
  <2>2. /\ input'[r] = Question(r) /\ \A q \in Requests : q # r => input'[q] = input[q]
        /\ \A q \in Requests : pc'[q] = "replying" => pc[q] = "replying"
    BY <1>7 DEF FindCheckpoint, Go, TypeInv
  <2> QED BY <1>3, <1>7, <2>1, <2>2 DEF FindCheckpoint, AboutInv, Rows
<1>8. ASSUME NEW r \in Requests, Restore(r) PROVE AboutInv'
  <2>1. PICK h \in [DOMAIN LoadMessages -> Newest] :
            \A i \in DOMAIN LoadMessages : LoadMessages[i] = h[i].holds
    BY LoadedMessages
  <2>2. AboutAsked(LoadMessages)
    BY <2>1, NewestRows DEF AboutAsked, AboutInv
  <2>3. RestoredInput(r) = LoadMessages
    <3>1. Asked(r)
      BY <1>6, <1>8 DEF Restore, Go
    <3> QED BY <3>1 DEF Asked, RestoredInput
  <2>4. /\ input'[r] = LoadMessages /\ \A q \in Requests : q # r => input'[q] = input[q]
        /\ \A q \in Requests : pc'[q] = "replying" => pc[q] = "replying"
    BY <1>8, <2>3 DEF Restore, Go, TypeInv
  <2> QED BY <1>3, <1>8, <2>2, <2>4 DEF Restore, AboutInv, Rows
<1>9. ASSUME NEW r \in Requests, StartRun(r) PROVE AboutInv'
  <2>1. AboutAsked(Started(r))
    BY AddedAbout DEF Started, TypeInv, AboutInv
  <2>2. /\ local'[r] = Started(r) /\ \A q \in Requests : q # r => local'[q] = local[q]
        /\ \A q \in Requests : pc'[q] = "replying" => pc[q] = "replying"
    BY <1>9 DEF StartRun, Go, TypeInv
  <2> QED BY <1>3, <1>9, <2>1, <2>2 DEF StartRun, AboutInv, Rows
<1>10. ASSUME NEW r \in Requests, ReadQuestion(r) PROVE AboutInv'
  <2> DEFINE asked == LatestQuestion(local[r])
  <2>1. local[r] \in Seq(Proper)
    BY DEF TypeInv
  <2>4. asked # None => Asked(asked)
    <3> SUFFICES ASSUME asked # None PROVE Asked(asked)
      OBVIOUS
    <3>1. PICK i \in DOMAIN local[r] : local[r][i].role = "user" /\ local[r][i].by = asked
      BY <2>1, LatestQuestionFound
    <3>2. local[r][i].to = asked
      BY <2>1, <3>1 DEF Proper
    <3> QED BY <3>1, <3>2 DEF AboutInv, AboutAsked
  <2>5. /\ question'[r] = asked /\ \A q \in Requests : q # r => question'[q] = question[q]
        /\ \A q \in Requests : pc'[q] = "replying" => pc[q] = "replying"
    BY <1>10 DEF ReadQuestion, Go, TypeInv
  <2> HIDE DEF asked
  <2> QED BY <1>3, <1>10, <2>4, <2>5 DEF ReadQuestion, AboutInv, Rows
<1>11. ASSUME NEW r \in Requests, EndRun(r) PROVE AboutInv'
  <2> DEFINE m == Reply(GraphId(r, "assistant"), r, question[r])
             a == Append(local[r], m)
  <2>1. local[r] \in Seq(Proper)
    BY DEF TypeInv
  <2>2. m.to # None => Asked(m.to)
    BY DEF AboutInv, Reply
  <2> HIDE DEF m
  <2>3. \A i \in DOMAIN a : a[i] = m \/ (i \in DOMAIN local[r] /\ a[i] = local[r][i])
    BY <2>1
  <2>4. AboutAsked(a)
    <3> HIDE DEF a
    <3> QED BY <2>2, <2>3 DEF AboutInv, AboutAsked
  <2>5. /\ ckpt' = a /\ local'[r] = a /\ \A q \in Requests : q # r => local'[q] = local[q]
        /\ \A q \in Requests : pc'[q] = "replying" => pc[q] = "replying"
    BY <1>11 DEF EndRun, Go, TypeInv, m
  <2> HIDE DEF a
  <2> QED BY <1>3, <1>11, <2>4, <2>5 DEF EndRun, AboutInv, Rows
<1>12. ASSUME NEW r \in Requests, TakeOwnReply(r) \/ TakeLatestMessage(r) PROVE AboutInv'
  <2> DEFINE l == IF ckpt = <<>> THEN local[r] ELSE ckpt
             m == content'[r]
  <2>1. /\ local[r] \in Seq(Proper) /\ local[r] # <<>> /\ ckpt \in Seq(Proper)
    BY <1>12 DEF TypeInv, RunInv, RunOf, TakeOwnReply, TakeLatestMessage, Go
  <2>2. m \in {Last(l), Last(local[r])}
    BY <1>12 DEF TakeOwnReply, TakeLatestMessage, TypeInv
  <2>3. l \in {ckpt, local[r]} /\ l # <<>>
    BY <2>1
  <2> HIDE DEF l, m
  <2>4. \A s \in Seq(Proper) : s # <<>> => Last(s) = s[Len(s)] /\ Len(s) \in DOMAIN s
    BY DEF Last
  <2>5. m.to # None => Asked(m.to)
    BY <2>1, <2>2, <2>3, <2>4 DEF AboutInv, AboutAsked
  <2>6. /\ Rows' = Rows /\ ckpt' = ckpt /\ input' = input /\ local' = local
        /\ question' = question /\ stamp'[r] = clock
        /\ \A q \in Requests : q # r =>
               pc'[q] = pc[q] /\ stamp'[q] = stamp[q] /\ content'[q] = content[q]
    BY <1>12 DEF TakeOwnReply, TakeLatestMessage, Go, Stamp, TypeInv, Rows
  <2>7. content'[r].to # None =>
            \E y \in Rows : y.owner = content'[r].to /\ y.holds.role = "user" /\ y.at < clock
    BY <2>5 DEF Asked, RowsInv, m
  <2>8. ASSUME NEW q \in Requests, pc'[q] = "replying", content'[q].to # None
        PROVE  \E y \in Rows : /\ y.owner = content'[q].to /\ y.holds.role = "user"
                               /\ y.at < stamp'[q]
    BY <2>6, <2>7, <2>8 DEF AboutInv, QuestionBefore
  <2>9. \A q \in Requests : pc'[q] = "replying" /\ content'[q].to # None =>
            QuestionBefore(content[q].to, stamp[q])'
    BY <2>6, <2>8 DEF QuestionBefore
  <2>10. \A q : Asked(q) => Asked(q)'
    BY <2>6 DEF Asked
  <2>11. AboutAsked(ckpt)' /\ \A q \in Requests : AboutAsked(input[q])' /\ AboutAsked(local[q])'
    BY <2>6, <2>10 DEF AboutInv, AboutAsked
  <2> QED BY <2>6, <2>9, <2>10, <2>11 DEF AboutInv
<1>13. ASSUME NEW r \in Requests, StoreReply(r) PROVE AboutInv'
  <2>1. PICK x : Rows' = Rows \cup {x} /\ x.holds.to = content[r].to
    BY <1>13, ReplyStored
  <2>2. x.holds.to # None => Asked(x.holds.to)'
    BY <1>13, <2>1 DEF StoreReply, Go, AboutInv, QuestionBefore, Asked
  <2> QED BY <1>2, <1>13, <2>1, <2>2 DEF StoreReply, Go, TypeInv
<1>14. ASSUME LoseCheckpoint \/ UNCHANGED vars PROVE AboutInv'
  BY <1>2, <1>14 DEF LoseCheckpoint, vars, Rows
<1> QED BY <1>4, <1>5, <1>7, <1>8, <1>9, <1>10, <1>11, <1>12, <1>13, <1>14
        DEF Next, Progress, AllEnded

\* The invariant holds at the start.
LEMMA ServiceStart == ASSUME Init PROVE ServiceInv
<1>1. book = [t \in {Thread} |-> Store!Blank] /\ Rows = {}
  BY DEF Init, Store!Init, Store!Blank, Rows
<1>2. /\ clock = 0 /\ ckpt = <<>> /\ losses = 0 /\ overlapped = {}
      /\ pc = [r \in Requests |-> "idle"] /\ stamp = [r \in Requests |-> 0]
      /\ input = [r \in Requests |-> <<>>] /\ local = [r \in Requests |-> <<>>]
      /\ question = [r \in Requests |-> None] /\ content = [r \in Requests |-> None]
  BY DEF Init
<1>3. TypeInv
  BY <1>1, <1>2, FS_EmptySet, ServiceAssumption DEF TypeInv, PcValues
<1>4. RowsInv /\ StampInv /\ AskedInv
  BY <1>1, <1>2 DEF RowsInv, StampInv, AskedInv, Stamped
<1>5. IdsInv /\ NewInv
  BY <1>2 DEF IdsInv, NewInv, Distinct, Known, HoldsId, Heard, Holds
<1>o. OnceInv
  <2>1. \A id : ~Known(id)
    BY <1>2 DEF Known, HoldsId
  <2>2. \A r \in Requests : Question(r) # <<>>
    BY QuestionAlone DEF EndsWithQuestion
  <2> QED BY <1>2, <2>1, <2>2 DEF OnceInv, OnceOf
<1>6. RunInv /\ SoleInv
  BY <1>2 DEF RunInv, RunOf, SoleInv, InFlight, InRun
<1>7. AloneInv /\ KeptInv
  BY <1>2 DEF AloneInv, AloneOf, OnceAsked, KeptInv, InRun
<1>8. AboutInv
  BY <1>1, <1>2 DEF AboutInv, AboutAsked
<1>9. RepliesFollowQuestions /\ BlockingReplyIsOwn /\ AnswersOwnQuestion
  BY <1>1 DEF RepliesFollowQuestions, BlockingReplyIsOwn, AnswersOwnQuestion, RepliesOf
<1> QED BY <1>3, <1>4, <1>5, <1>o, <1>6, <1>7, <1>8, <1>9 DEF ServiceInv
-----------------------------------------------------------------------------
\* The inductive invariant.
THEOREM ServiceInvariant == Spec => []ServiceInv
<1>1. Init => ServiceInv
  BY ServiceStart
<1>2. ServiceInv /\ [Next]_vars => ServiceInv'
  <2> SUFFICES ASSUME ServiceInv, [Next]_vars PROVE ServiceInv'
    OBVIOUS
  <2> QED BY TypeStep, RowsStep, StampStep, AskedStep, IdsStep, RunStep, SoleStep, NewStep,
             AloneStep, OnceStep, KeptStep, AboutStep, FollowStep, ReplyStep DEF ServiceInv
<1> QED BY <1>1, <1>2, PTL DEF Spec

\* Rows, checkpoints and runs hold messages of known roles, and rows are stamped
\* with times that were read: the rows record_message stores and the messages
\* the graph's state collects.
THEOREM ServiceTypes == Spec => []TypeOK
<1>1. ServiceInv => TypeOK
  <2> SUFFICES ASSUME TypeInv PROVE TypeOK
    BY DEF ServiceInv
  <2>1. Proper \subseteq Message
    BY DEF Proper
  <2>2. \A s \in Seq(Proper) : s \in Seq(Message)
    BY <2>1, SeqMonotonic
  <2>3. /\ ckpt \in Seq(Message)
        /\ input \in [Requests -> Seq(Message)] /\ local \in [Requests -> Seq(Message)]
    BY <2>2 DEF TypeInv
  <2>4. Rows \subseteq [id : RowIds, owner : Requests, at : Times, holds : Message]
    BY <2>1 DEF TypeInv, Times
  <2> QED BY <2>3, <2>4 DEF TypeInv, TypeOK, Times, PcValues
<1> QED BY <1>1, ServiceInvariant, PTL

\* In the history of a thread every reply comes after its own question and after
\* the one it answers, however requests overlap or break off between the two
\* rows that chat stores.
THEOREM HistoryInOrder == Spec => []RepliesFollowQuestions
<1>1. ServiceInv => RepliesFollowQuestions
  BY DEF ServiceInv
<1> QED BY <1>1, ServiceInvariant, PTL

\* A blocking request stores what its own run has answered: _extract_reply looks
\* at the values ainvoke returns, and no other request can change those.
THEOREM BlockingRequestStoresItsOwn == Spec => []BlockingReplyIsOwn
<1>1. ServiceInv => BlockingReplyIsOwn
  BY DEF ServiceInv
<1> QED BY <1>1, ServiceInvariant, PTL

\* A request that has the thread to itself, blocking or streaming, stores its
\* own run's reply to its own question, whatever happened on the thread before.
THEOREM LoneRequestAnswersItsQuestion == Spec => []AnswersOwnQuestion
<1>1. ServiceInv => AnswersOwnQuestion
  BY DEF ServiceInv
<1> QED BY <1>1, ServiceInvariant, PTL

\* The question of a request is among the messages of its run, whether its input
\* is the question or the restored context, and whatever checkpoint it starts on,
\* unless as many newer rows as list_recent_messages returns have outrun it.
THEOREM RunSeesItsQuestion == Spec => []OwnQuestionSeen
<1>1. ServiceInv => OwnQuestionSeen
  BY DEF ServiceInv, RunInv, RunOf, InRun, OwnQuestionSeen
<1> QED BY <1>1, ServiceInvariant, PTL

\* add_messages never puts a message into a run's state twice: the context that
\* is restored carries the ids of its rows.
THEOREM NoMessageComesTwice == Spec => []NoMessageTwice
<1>1. ServiceInv => NoMessageTwice
  BY DEF ServiceInv, IdsInv, Distinct, NoMessageTwice
<1> QED BY <1>1, ServiceInvariant, PTL

\* A question is stored before contexts are restored from the store, and is a
\* row as well as a message of its own.  However requests overlap, that of a
\* request that had to restore its context (or has not got its input yet) is in
\* no run twice; that of one that found a checkpoint and had the thread to itself
\* is in no run twice as long as checkpoints live, and never twice in its own.
THEOREM QuestionsComeOnce == Spec => []QuestionOnce
<1>1. ServiceInv => QuestionOnce
  <2> SUFFICES ASSUME ServiceInv, NEW r \in Requests, NEW q \in Requests,
                      \/ input[r] # Question(r)
                      \/ r \notin overlapped /\ (q = r \/ losses = 0)
               PROVE  OnceAsked(local[q], r)
    BY DEF QuestionOnce
  <2>1. local[q] \in Seq(Proper) /\ Distinct(local[q])
    BY DEF ServiceInv, TypeInv, IdsInv
  <2>2. ASSUME NEW i \in DOMAIN local[q], local[q][i].role = "user", local[q][i].by = r
        PROVE  local[q][i].id \in {RowId(r, "user"), GraphId(r, "user")}
    <3>1. local[q][i].id \in Ids /\ local[q][i].id[1] = r /\ local[q][i].id[2] = "user"
      BY <2>1, <2>2 DEF Proper, Message
    <3> QED BY <3>1 DEF Ids, RowId, GraphId
  <2>3. \/ ~HoldsId(local[q], GraphId(r, "user")) \/ ~HoldsId(local[q], RowId(r, "user"))
        => OnceAsked(local[q], r)
    BY <2>1, <2>2 DEF HoldsId, Distinct, OnceAsked
  <2>4. CASE input[r] # Question(r)
    <3>1. ~HoldsId(local[q], GraphId(r, "user"))
      BY <2>4 DEF ServiceInv, OnceInv, OnceOf, Known
    <3> QED BY <2>3, <3>1
  <2>5. CASE r \notin overlapped /\ losses = 0 /\ input[r] = Question(r)
    <3>1. ~HoldsId(local[q], RowId(r, "user"))
      BY <2>5 DEF ServiceInv, OnceInv, OnceOf, Known
    <3> QED BY <2>3, <3>1
  <2>6. CASE r \notin overlapped /\ q = r
    BY <2>6 DEF ServiceInv, AloneInv, AloneOf
  <2> QED BY <2>4, <2>5, <2>6
<1> QED BY <1>1, ServiceInvariant, PTL

\* As long as no checkpoint is lost, the exchange of a request that had the
\* thread to itself is in the context of every later run.
THEOREM LoneExchangeIsKept == Spec => [](losses = 0 => ExchangeKept)
<1>1. ServiceInv => (losses = 0 => ExchangeKept)
  <2> SUFFICES ASSUME KeptInv, losses = 0 PROVE ExchangeKept
    BY DEF ServiceInv
  <2>1. ASSUME NEW r \in Requests \ overlapped, NEW q \in Requests,
               pc[r] = "done", pc[q] \in {"running", "thinking", "ended"}
        PROVE  HoldsExchange(local[q], r)
    <3>1. q # r
      BY <2>1
    <3> QED BY <2>1, <3>1 DEF KeptInv, InRun
  <2> QED BY <2>1 DEF ExchangeKept, HoldsExchange
<1> QED BY <1>1, ServiceInvariant, PTL
-----------------------------------------------------------------------------
(* The rows of overlapping requests are entries of the ledger that the     *)
(* conversation store implements.                                          *)

\* What the ledger knows of a row.
Entry(x) == [id |-> x.id, thread |-> Thread, user |-> User, at |-> x.at]

LedgerBook ==
    [t \in {Thread} |->
        [owner     |-> book[t].owner,
         messages  |-> {Entry(x) : x \in book[t].messages},
         summaries |-> book[t].summaries,
         count     |-> book[t].count,
         last      |-> book[t].last]]

Ledger == INSTANCE ConversationLedger WITH
    Threads <- {Thread}, Users <- {User}, Entries <- RowIds, book <- LedgerBook

\* All of them count with the same Cardinality.
LEMMA SameCount ==
    ASSUME NEW S
    PROVE  Store!Cardinality(S) = Cardinality(S) /\ Ledger!Cardinality(S) = Cardinality(S)
<1> QED BY DEF Store!Cardinality, Ledger!Cardinality, Cardinality

\* Different rows are different entries.
LEMMA EntriesCount ==
    ASSUME NEW S, IsFiniteSet(S), \A x, y \in S : x.id = y.id => x = y
    PROVE  Cardinality({Entry(x) : x \in S}) = Cardinality(S)
<1> DEFINE T == {Entry(x) : x \in S}
           f == [x \in S |-> Entry(x)]
<1>1. \A x, y \in S : f[x] = f[y] => x = y
  BY DEF Entry
<1>2. f \in [S -> T] /\ \A e \in T : \E x \in S : f[x] = e
  OBVIOUS
<1> HIDE DEF f, T
<1>3. f \in Bijection(S, T)
  BY <1>1, <1>2 DEF Bijection, Injection, IsInjective, Surjection
<1>4. Cardinality(T) = Cardinality(S)
  BY <1>3, FS_Bijection DEF ExistsBijection
<1> QED BY <1>4 DEF T

\* Storing a row records its entry.
LEMMA RowIsEntry ==
    ASSUME ServiceInv, RowsInv', TypeInv', NEW x,
           Store!RecordMessage(Thread, User, x)
    PROVE  Ledger!RecordMessage(Thread, User, Entry(x)) /\ x.id \in RowIds /\ x.at \in Times
<1> DEFINE old == {Entry(y) : y \in Rows}
<1>1. /\ Rows' = Rows \cup {x} /\ x \notin Rows
      /\ book = [t \in {Thread} |-> book[t]] /\ book' = [t \in {Thread} |-> book'[t]]
  BY RecordedRow DEF ServiceInv, TypeInv, Store!RecordMessage, Rows
<1>2. /\ IsFiniteSet(Rows') /\ x.id \in RowIds /\ x.at \in Times
      /\ \A y, z \in Rows' : y.id = z.id => y = z
  BY <1>1 DEF RowsInv, TypeInv, Times
<1>3. /\ book'[Thread].owner = User /\ book'[Thread].summaries = book[Thread].summaries
      /\ book'[Thread].count = Cardinality(Rows') /\ book'[Thread].last = x.at
  BY <1>1, SameCount DEF Store!RecordMessage, Rows
<1>4. {Entry(y) : y \in Rows'} = old \cup {Entry(x)}
  BY <1>1
<1>5. Cardinality(old \cup {Entry(x)}) = Cardinality(Rows')
  <2>1. Cardinality({Entry(y) : y \in Rows'}) = Cardinality(Rows')
    BY <1>2, EntriesCount
  <2> QED BY <1>4, <2>1
<1>6. Entry(x) \notin old
  BY <1>1, <1>2 DEF Entry
<1>7. LedgerBook[Thread].messages = old /\ Entry(x).at = x.at
  BY DEF LedgerBook, Rows, Entry
<1>8. LedgerBook[Thread].summaries = book[Thread].summaries
  BY DEF LedgerBook
<1>9. LedgerBook' = [LedgerBook EXCEPT ![Thread] =
                        [owner     |-> User,
                         messages  |-> old \cup {Entry(x)},
                         summaries |-> LedgerBook[Thread].summaries,
                         count     |-> Cardinality(old \cup {Entry(x)}),
                         last      |-> Entry(x).at]]
  <2> HIDE DEF old
  <2> QED BY <1>3, <1>4, <1>5, <1>7, <1>8 DEF LedgerBook, Rows
<1> HIDE DEF old
<1>10. Ledger!RecordMessage(Thread, User, Entry(x))
  BY <1>6, <1>7, <1>9, SameCount DEF Ledger!RecordMessage
<1> QED BY <1>2, <1>10

\* A step of the service is one of the ledger, or does not touch it.
LEMMA LedgerStep == ASSUME ServiceInv, [Next]_vars PROVE [Ledger!Next]_LedgerBook
<1>1. ASSUME UNCHANGED book PROVE [Ledger!Next]_LedgerBook
  BY <1>1 DEF LedgerBook
<1>2. ASSUME NEW x, Store!RecordMessage(Thread, User, x) PROVE [Ledger!Next]_LedgerBook
  <2>1. Ledger!RecordMessage(Thread, User, Entry(x)) /\ x.id \in RowIds /\ x.at \in Times
    BY <1>2, RowIsEntry, RowsStep, TypeStep
  <2>2. Entry(x) = [id |-> x.id, thread |-> Thread, user |-> User, at |-> x.at]
    BY DEF Entry
  <2> HIDE DEF Entry
  <2> QED BY <2>1, <2>2 DEF Ledger!Next
<1>3. ASSUME NEW r \in Requests, Ask(r) \/ FindCheckpoint(r) \/ MissCheckpoint(r) \/ Restore(r)
      PROVE  UNCHANGED book
  BY <1>3 DEF Ask, FindCheckpoint, MissCheckpoint, Restore
<1>4. ASSUME NEW r \in Requests, StartRun(r) \/ ReadQuestion(r) \/ EndRun(r) PROVE UNCHANGED book
  BY <1>4 DEF StartRun, ReadQuestion, EndRun
<1>5. ASSUME NEW r \in Requests,
             TakeOwnReply(r) \/ TakeLatestMessage(r) \/ Finish(r) \/ Fail(r)
      PROVE  UNCHANGED book
  BY <1>5 DEF TakeOwnReply, TakeLatestMessage, Finish, Fail
<1>6. ASSUME NEW r \in Requests, StoreQuestion(r) \/ StoreReply(r)
      PROVE  [Ledger!Next]_LedgerBook
  BY <1>2, <1>6 DEF StoreQuestion, StoreReply
<1>7. ASSUME LoseCheckpoint \/ UNCHANGED vars PROVE UNCHANGED book
  BY <1>7 DEF LoseCheckpoint, vars
<1> QED BY <1>1, <1>3, <1>4, <1>5, <1>6, <1>7 DEF Next, Progress, AllEnded

\* Overlapping requests write the history of the thread as the ledger would: one
\* new entry at a time, each counted once.  StoreImplementsLedger proves that
\* the store does that for any writers.
THEOREM ServiceKeepsLedger == Spec => Ledger!Spec
<1>1. Init => Ledger!Init
  <2> SUFFICES ASSUME Init PROVE LedgerBook = [t \in {Thread} |-> Ledger!Blank]
    BY DEF Ledger!Init
  <2>1. ASSUME NEW t \in {Thread} PROVE LedgerBook[t] = Ledger!Blank
    <3>1. book[t] = Store!Blank
      BY DEF Init, Store!Init
    <3> QED BY <3>1 DEF Store!Blank, Ledger!Blank, LedgerBook
  <2> QED BY <2>1 DEF LedgerBook
<1>2. ServiceInv /\ [Next]_vars => [Ledger!Next]_LedgerBook
  BY LedgerStep
<1> QED BY <1>1, <1>2, ServiceInvariant, PTL DEF Spec, Ledger!Spec
=============================================================================
