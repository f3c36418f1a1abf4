-------------------------- MODULE StudioSchemaProofs --------------------------
(***************************************************************************)
(* Proofs about StudioSchema, for any set of calls.                        *)
(***************************************************************************)
EXTENDS StudioSchema, TLAPS

\* Who creates holds the lock, and who holds it creates; nobody holds it once
\* the flag is set.
LockInv ==
    /\ \A c \in Calls : Creating(c) <=> lock = c
    /\ lock # None => ~flag

SchemaInv == SchemaTypeOK /\ LockInv /\ SchemaBeforeUse

\* The tables are looked for, created and used in the states SchemaInv allows.
LEMMA SchemaInitInv == SchemaInit => SchemaInv
<1> SUFFICES ASSUME SchemaInit PROVE SchemaInv
    OBVIOUS
<1> USE SchemaAssumption DEF SchemaInit
<1>1. SchemaTypeOK
    BY DEF SchemaTypeOK
<1>2. LockInv
    BY DEF LockInv, Creating
<1>3. SchemaBeforeUse
    BY DEF SchemaBeforeUse
<1> QED
    BY <1>1, <1>2, <1>3 DEF SchemaInv

\* Every step keeps SchemaInv.
LEMMA SchemaNextInv == SchemaInv /\ [SchemaNext]_schemaVars => SchemaInv'
<1> SUFFICES ASSUME SchemaInv, [SchemaNext]_schemaVars PROVE SchemaInv'
    OBVIOUS
<1> USE SchemaAssumption DEF SchemaInv
<1>1. ASSUME NEW c \in Calls, EnsureSchema(c) PROVE SchemaInv'
    BY <1>1 DEF EnsureSchema, LockFree, SchemaTypeOK, LockInv, SchemaBeforeUse, Creating
<1>2. ASSUME NEW c \in Calls, Acquire(c) PROVE SchemaInv'
    BY <1>2 DEF Acquire, SchemaTypeOK, LockInv, SchemaBeforeUse, Creating
<1>3. ASSUME NEW c \in Calls, LookAtTables(c) PROVE SchemaInv'
    BY <1>3 DEF LookAtTables, SchemaTypeOK, LockInv, SchemaBeforeUse, Creating
<1>4. ASSUME NEW c \in Calls, CommitTables(c) PROVE SchemaInv'
    BY <1>4 DEF CommitTables, SchemaTypeOK, LockInv, SchemaBeforeUse, Creating
<1>5. ASSUME NEW c \in Calls, Abandon(c) PROVE SchemaInv'
  <2> USE <1>5 DEF Abandon
  <2>1. SchemaTypeOK'
      BY DEF SchemaTypeOK
  <2>2. LockInv'
      BY DEF SchemaTypeOK, LockInv, Creating
  <2>3. tables => tables'
      BY DEF SchemaTypeOK
  <2>4. \A d \in Calls : gate'[d] = "in" => gate[d] = "in"
      BY DEF SchemaTypeOK
  <2>5. SchemaBeforeUse'
      BY <2>3, <2>4 DEF SchemaBeforeUse
  <2> QED
      BY <2>1, <2>2, <2>5
<1>6. ASSUME NEW c \in Calls, Leave(c) PROVE SchemaInv'
    BY <1>6 DEF Leave, SchemaTypeOK, LockInv, SchemaBeforeUse, Creating
<1>7. CASE RestartStudio
    BY <1>7 DEF RestartStudio, SchemaTypeOK, LockInv, SchemaBeforeUse, Creating
<1>8. CASE StartApp
    BY <1>8 DEF StartApp, SchemaTypeOK, LockInv, SchemaBeforeUse, Creating
<1>9. CASE FinishApp
    BY <1>9 DEF FinishApp, SchemaTypeOK, LockInv, SchemaBeforeUse, Creating
<1>10. CASE UNCHANGED schemaVars
    BY <1>10 DEF schemaVars, SchemaTypeOK, LockInv, SchemaBeforeUse, Creating
<1> QED
    BY <1>1, <1>2, <1>3, <1>4, <1>5, <1>6, <1>7, <1>8, <1>9, <1>10 DEF SchemaNext

LEMMA SchemaInvariant == SchemaSpec => []SchemaInv
<1> QED
    BY SchemaInitInv, SchemaNextInv, PTL DEF SchemaSpec

\* Nothing reads a table before it exists, in the API and in Studio, however
\* creations of both processes interleave, fail and start again.
THEOREM TablesExistWhenUsed == SchemaSpec => []SchemaBeforeUse
<1>1. SchemaInv => SchemaBeforeUse
    BY DEF SchemaInv
<1> QED
    BY <1>1, SchemaInvariant, PTL

\* The test, the lock and the second test leave one coroutine of the Studio
\* process at most that creates tables, and none that creates them again.
THEOREM SchemaCreatedByOne == SchemaSpec => []OneInitialiser
<1>1. SchemaInv => OneInitialiser
  <2> SUFFICES ASSUME SchemaInv, NEW c \in Calls, Creating(c)
               PROVE ~flag /\ \A d \in Calls : Creating(d) => d = c
      BY DEF OneInitialiser
  <2>1. lock = c
      BY DEF SchemaInv, LockInv
  <2> QED
      BY <2>1, SchemaAssumption DEF SchemaInv, LockInv
<1> QED
    BY <1>1, SchemaInvariant, PTL
=============================================================================
