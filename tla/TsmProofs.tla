----------------------------- MODULE TsmProofs -----------------------------
(***************************************************************************)
(* Proofs about the transaction table, for every number of slots and of    *)
(* ids: its types, that no two transactions share an id, that the search   *)
(* for an id ends, that the table implements the pool of invoke ids, and   *)
(* that the id that has been away longest comes back first.                *)
(***************************************************************************)
EXTENDS TsmReuse, FiniteSetTheorems, FunctionTheorems, WellFoundedInduction, TLAPS

(* The cursor stays within the ids, and probe counts are naturals.         *)
LEMMA CursorArithmetic ==
    /\ \A id \in InvokeIds : Increment(id) \in InvokeIds
    /\ \A id, c \in InvokeIds : ((id - c) % MaxInvokeId) \in Nat
  BY TableFits DEF InvokeIds, Increment

(* Every operation of the table keeps the types, and keeps unused slots    *)
(* IDLE.                                                                   *)
LEMMA TypeStep == TypeOK /\ [Next]_vars => TypeOK'
<1> SUFFICES ASSUME TypeOK, [Next]_vars
             PROVE  TypeOK'
  OBVIOUS
<1> USE TableFits, TimersFit DEF TypeOK, TsmStates, FreeSlots, IsFirstHolder
<1>1. ASSUME NEW id \in InvokeIds, NEW s \in Slots, GrantInvokeId(id, s)
      PROVE  TypeOK'
  BY <1>1, CursorArithmetic DEF GrantInvokeId, InvokeIds
<1>2. CASE RefuseInvokeId
  BY <1>2 DEF RefuseInvokeId
<1>3. ASSUME NEW id \in InvokeIds, NEW s \in Slots, SetConfirmed(id, s)
      PROVE  TypeOK'
  BY <1>3 DEF SetConfirmed, InvokeIds
<1>4. ASSUME NEW id \in 0 .. MaxInvokeId, NEW s \in Slots, FreeInvokeId(id, s)
      PROVE  TypeOK'
  BY <1>4 DEF FreeInvokeId
<1>5. CASE FreeAllInvokeIds
  BY <1>5 DEF FreeAllInvokeIds
<1>6. CASE TimerTick
  BY <1>6 DEF TimerTick, Counting, Expiring, Retrying
<1>7. CASE UNCHANGED vars
  BY <1>7 DEF vars
<1> QED
  BY <1>1, <1>2, <1>3, <1>4, <1>5, <1>6, <1>7 DEF Next

(* The table, the cursor and the last result have their types, and unused  *)
(* slots are IDLE, in every reachable state.                               *)
THEOREM TypeCorrect == Spec => []TypeOK
<1>1. Init => TypeOK
  BY TableFits DEF Init, TypeOK, TsmStates, FreeSlots, InvokeIds
<1> QED
  BY <1>1, TypeStep, PTL DEF Spec

(* Only a grant puts an id into the table, and it takes one no slot holds. *)
LEMMA UniqueStep == TypeOK /\ UniqueInvokeIds /\ [Next]_vars => UniqueInvokeIds'
<1> SUFFICES ASSUME TypeOK, UniqueInvokeIds, [Next]_vars
             PROVE  UniqueInvokeIds'
  OBVIOUS
<1> USE DEF TypeOK, UniqueInvokeIds
<1>1. ASSUME NEW id \in InvokeIds, NEW s \in Slots, GrantInvokeId(id, s)
      PROVE  UniqueInvokeIds'
  BY <1>1 DEF GrantInvokeId, FirstUnused, InvokeIdFree
<1>2. CASE RefuseInvokeId
  BY <1>2 DEF RefuseInvokeId
<1>3. ASSUME NEW id \in InvokeIds, NEW s \in Slots, SetConfirmed(id, s)
      PROVE  UniqueInvokeIds'
  BY <1>3 DEF SetConfirmed
<1>4. ASSUME NEW id \in 0 .. MaxInvokeId, NEW s \in Slots, FreeInvokeId(id, s)
      PROVE  UniqueInvokeIds'
  BY <1>4 DEF FreeInvokeId
<1>5. CASE FreeAllInvokeIds
  BY <1>5 DEF FreeAllInvokeIds
<1>6. CASE TimerTick
  BY <1>6 DEF TimerTick
<1>7. CASE UNCHANGED vars
  BY <1>7 DEF vars
<1> QED
  BY <1>1, <1>2, <1>3, <1>4, <1>5, <1>6, <1>7 DEF Next

(* No two transactions share an invoke id, whatever the size of the table  *)
(* and whatever was granted, freed and cleared before.                     *)
THEOREM IdsAreUnique == Spec => []UniqueInvokeIds
<1>1. Init => UniqueInvokeIds
  BY DEF Init, UniqueInvokeIds
<1> QED
  BY <1>1, TypeCorrect, UniqueStep, PTL DEF Spec
-----------------------------------------------------------------------------
(* How many ids are out, as far as the free slots tell: the busy slots are *)
(* mapped onto the ids that are out, and one to one if ids are unique.     *)
BusySlots == {s \in Slots : InvokeID[s] # 0}

LEMMA OutstandingCount ==
  ASSUME TypeOK
  PROVE  /\ IsFiniteSet(Outstanding)
         /\ FreeSlots # {} => Cardinality(Outstanding) < MaxTransactions
         /\ FreeSlots = {} /\ UniqueInvokeIds => Cardinality(Outstanding) = MaxTransactions
<1> DEFINE hold == [s \in BusySlots |-> InvokeID[s]]
<1>1. IsFiniteSet(Slots) /\ Cardinality(Slots) = MaxTransactions
  BY FS_Interval, TableFits DEF Slots
<1>2. IsFiniteSet(BusySlots)
  BY <1>1, FS_Subset DEF BusySlots
<1>3. hold \in Surjection(BusySlots, Outstanding)
  BY DEF Surjection, BusySlots, Outstanding
<1>4. /\ IsFiniteSet(Outstanding)
      /\ Cardinality(Outstanding) <= Cardinality(BusySlots)
      /\ hold \in Injection(BusySlots, Outstanding)
           => Cardinality(Outstanding) = Cardinality(BusySlots)
  BY <1>2, <1>3, FS_Surjection
<1>5. Cardinality(Outstanding) \in Nat /\ Cardinality(BusySlots) \in Nat
  BY <1>2, <1>4, FS_CardinalityType
<1>6. ASSUME NEW s \in FreeSlots
      PROVE  Cardinality(Outstanding) < MaxTransactions
  <2>1. IsFiniteSet(Slots \ {s}) /\ Cardinality(Slots \ {s}) = MaxTransactions - 1
    BY <1>1, FS_RemoveElement DEF FreeSlots
  <2>2. BusySlots \subseteq Slots \ {s}
    BY DEF BusySlots, FreeSlots
  <2>3. Cardinality(BusySlots) <= MaxTransactions - 1
    BY <2>1, <2>2, FS_Subset
  <2> QED
    BY <1>4, <1>5, <2>3, TableFits
<1>7. ASSUME FreeSlots = {}, UniqueInvokeIds
      PROVE  Cardinality(Outstanding) = MaxTransactions
  <2>1. BusySlots = Slots
    BY <1>7 DEF BusySlots, FreeSlots
  <2>2. hold \in Injection(BusySlots, Outstanding)
    BY <1>3, <1>7 DEF Injection, IsInjective, Surjection, UniqueInvokeIds, BusySlots
  <2> QED
    BY <1>1, <1>4, <2>1, <2>2
<1> QED
  BY <1>4, <1>6, <1>7

(* A set of ids that is not empty has one that the cursor reaches first.   *)
LEMMA FirstProbe ==
  ASSUME Current_Invoke_ID \in InvokeIds,
         NEW S \in SUBSET InvokeIds, S # {}
  PROVE  \E id \in S : \A j \in S : ~(ProbesTo(j) < ProbesTo(id))
<1> DEFINE probes == {ProbesTo(id) : id \in S}
<1>1. probes \subseteq Nat /\ probes # {}
  BY CursorArithmetic DEF ProbesTo
<1>2. PICK n \in probes : \A m \in probes : <<m, n>> \notin OpToRel(<, Nat)
  BY <1>1, NatLessThanWellFounded, WFMin
<1>3. \A m \in probes : ~(m < n)
  BY <1>1, <1>2 DEF OpToRel
<1> QED
  BY <1>3

(* The while loop of tsm_next_free_invokeID ends: as many ids as slots are *)
(* enough, because a free slot leaves fewer ids out than there are.        *)
LEMMA LoopEnds == TypeOK => SearchEnds
<1> SUFFICES ASSUME TypeOK, FreeSlots # {}
             PROVE  \E id \in InvokeIds : FirstUnused(id)
  BY DEF SearchEnds
<1> DEFINE unused == {id \in InvokeIds : InvokeIdFree(id)}
<1>1. IsFiniteSet(InvokeIds) /\ Cardinality(InvokeIds) = MaxInvokeId
  BY FS_Interval, TableFits DEF InvokeIds
<1>2. Outstanding \subseteq InvokeIds
  BY TableFits DEF Outstanding, TypeOK, InvokeIds
<1>3. Outstanding # InvokeIds
  BY <1>1, OutstandingCount, TableFits
<1>4. unused # {}
  BY <1>2, <1>3 DEF Outstanding, InvokeIdFree, InvokeIds
<1>5. PICK id \in unused : \A j \in unused : ~(ProbesTo(j) < ProbesTo(id))
  BY <1>4, FirstProbe DEF TypeOK
<1> QED
  BY <1>5 DEF FirstUnused

(* In every reachable state a request that finds a free slot finds an id.  *)
THEOREM SearchAlwaysEnds == Spec => []SearchEnds
  BY TypeCorrect, LoopEnds, PTL

(* The pool counts with the cardinality of its own instance.               *)
LEMMA SameCardinality == \A S : Pool!Cardinality(S) = Cardinality(S)
  BY DEF Pool!Cardinality, Cardinality

(* Every call of the table is a call of the pool, or changes nothing of it. *)
LEMMA PoolStep ==
  TypeOK /\ UniqueInvokeIds /\ [Next]_vars => [Pool!Next]_Pool!vars
<1> SUFFICES ASSUME TypeOK, UniqueInvokeIds, [Next]_vars
             PROVE  [Pool!Next]_Pool!vars
  OBVIOUS
<1>1. ASSUME NEW id \in InvokeIds, NEW s \in Slots, GrantInvokeId(id, s)
      PROVE  Pool!Reserve(id)
  <2>1. FreeSlots # {}
    BY <1>1 DEF GrantInvokeId, IsFirstHolder, FreeSlots
  <2>2. Cardinality(Outstanding) < MaxTransactions
    BY <2>1, OutstandingCount
  <2>3. id \notin Outstanding
    BY <1>1 DEF GrantInvokeId, FirstUnused, InvokeIdFree, Outstanding
  <2>4. Outstanding' = Outstanding \cup {id}
    BY <1>1 DEF GrantInvokeId, IsFirstHolder, Outstanding, TypeOK, InvokeIds
  <2> QED
    BY <1>1, <2>2, <2>3, <2>4, SameCardinality DEF Pool!Reserve, GrantInvokeId
<1>2. CASE RefuseInvokeId
  BY <1>2, OutstandingCount, SameCardinality DEF RefuseInvokeId, Pool!Refuse, Pool!Next, Outstanding
<1>3. ASSUME NEW id \in InvokeIds, NEW s \in Slots, SetConfirmed(id, s)
      PROVE  UNCHANGED Pool!vars
  BY <1>3 DEF SetConfirmed, Pool!vars, Outstanding
<1>4. ASSUME NEW id \in 0 .. MaxInvokeId, NEW s \in Slots, FreeInvokeId(id, s)
      PROVE  [Pool!Next]_Pool!vars
  <2>1. Outstanding' = Outstanding \ {id}
    BY <1>4 DEF FreeInvokeId, IsFirstHolder, Outstanding, TypeOK, UniqueInvokeIds
  <2>2. CASE id = 0
    BY <1>4, <2>1, <2>2 DEF FreeInvokeId, Pool!vars, Outstanding
  <2>3. CASE id \in InvokeIds
    BY <1>4, <2>1, <2>3 DEF FreeInvokeId, Pool!Release, Pool!Next
  <2> QED
    BY <2>2, <2>3, TableFits DEF InvokeIds
<1>5. CASE FreeAllInvokeIds
  BY <1>5 DEF FreeAllInvokeIds, Pool!Clear, Pool!Next, Outstanding
<1>6. CASE TimerTick
  BY <1>6 DEF TimerTick, Pool!vars, Outstanding
<1>7. CASE UNCHANGED vars
  BY <1>7 DEF vars, Pool!vars, Outstanding
<1> QED
  BY <1>1, <1>2, <1>3, <1>4, <1>5, <1>6, <1>7 DEF Next, Pool!Next

(* The transaction table implements the pool of invoke ids.                *)
THEOREM TableImplementsPool == Spec => PoolSpec
<1>1. Init => Pool!Init
  BY DEF Init, Pool!Init, Outstanding
<1> QED
  BY <1>1, TypeCorrect, IdsAreUnique, PoolStep, PTL DEF Spec, PoolSpec, Pool!Spec
-----------------------------------------------------------------------------
(* How many increments lead from one id to another. *)
StepsFrom(a, b) == IF a <= b THEN b - a ELSE b - a + MaxInvokeId

(* The uint8_t arithmetic of the cursor, without the remainder.            *)
LEMMA CursorSteps ==
  /\ \A id \in InvokeIds : Increment(id) = IF id = MaxInvokeId THEN 1 ELSE id + 1
  /\ Current_Invoke_ID \in InvokeIds =>
       \A id \in InvokeIds : ProbesTo(id) = StepsFrom(Current_Invoke_ID, id)
<1>1. MaxInvokeId \in Nat \ {0}
  BY TableFits
<1>2. \A x \in 0 .. MaxInvokeId - 1 : x % MaxInvokeId = x
  BY <1>1
<1>3. \A x \in -MaxInvokeId .. -1 : x % MaxInvokeId = x + MaxInvokeId
  BY <1>1
<1>4. MaxInvokeId % MaxInvokeId = 0
  BY <1>1
<1>5. ASSUME NEW id \in InvokeIds
      PROVE  Increment(id) = IF id = MaxInvokeId THEN 1 ELSE id + 1
  BY <1>1, <1>2, <1>4 DEF InvokeIds, Increment
<1>6. ASSUME Current_Invoke_ID \in InvokeIds, NEW id \in InvokeIds
      PROVE  ProbesTo(id) = StepsFrom(Current_Invoke_ID, id)
  <2>1. CASE Current_Invoke_ID <= id
    BY <1>1, <1>2, <1>6, <2>1 DEF InvokeIds, ProbesTo, StepsFrom
  <2>2. CASE ~(Current_Invoke_ID <= id)
    <3>1. id - Current_Invoke_ID \in -MaxInvokeId .. -1
      BY <1>1, <1>6, <2>2 DEF InvokeIds
    <3> QED
      BY <1>3, <2>2, <3>1 DEF ProbesTo, StepsFrom
  <2> QED
    BY <2>1, <2>2
<1> QED
  BY <1>5, <1>6

(* The ids that the cursor has gone over since an id was last granted have *)
(* been out in the meantime.  When the cursor goes over the id itself, as  *)
(* the id is still out, it begins to count anew.                           *)
Passed(id, j) == /\ j # id
                 /\ StepsFrom(Increment(id), j) < StepsFrom(Increment(id), Current_Invoke_ID)

PassedWereOut ==
  /\ beenOut \in [InvokeIds -> SUBSET InvokeIds]
  /\ \A id, j \in InvokeIds : Passed(id, j) => j \in beenOut[id] \cup Outstanding

(* An id that no slot holds is not out, and only such an id is free.       *)
LEMMA HeldIsOut ==
  TypeOK => /\ Outstanding \subseteq InvokeIds
            /\ \A id \in InvokeIds : InvokeIdFree(id) <=> id \notin Outstanding
  BY TableFits DEF TypeOK, Outstanding, InvokeIdFree, InvokeIds

(* A grant goes over ids that are out, one after the other, and takes the  *)
(* next; every other call leaves the cursor where it is.                   *)
LEMMA PassedStep ==
  TypeOK /\ PassedWereOut /\ [ReuseNext]_<<vars, beenOut>> => PassedWereOut'
<1> SUFFICES ASSUME TypeOK, PassedWereOut, [ReuseNext]_<<vars, beenOut>>
             PROVE  PassedWereOut'
  OBVIOUS
<1>1. Current_Invoke_ID \in InvokeIds /\ Outstanding \subseteq InvokeIds
  BY HeldIsOut DEF TypeOK
<1>2. CASE UNCHANGED <<vars, beenOut>>
  BY <1>2 DEF PassedWereOut, Passed, Outstanding, vars
<1>3. ASSUME ReuseNext, \A k \in InvokeIds : ~IsGrantOf(k)
      PROVE  PassedWereOut'
  <2>1. beenOut' = [id \in InvokeIds |-> beenOut[id] \cup Outstanding]
    BY <1>3 DEF ReuseNext
  <2>2. Current_Invoke_ID' = Current_Invoke_ID
    BY <1>3 DEF ReuseNext, Next, IsGrantOf, RefuseInvokeId, SetConfirmed, FreeInvokeId,
                FreeAllInvokeIds, TimerTick
  <2> QED
    BY <1>1, <2>1, <2>2 DEF PassedWereOut, Passed
<1>4. ASSUME ReuseNext, NEW k \in InvokeIds, IsGrantOf(k)
      PROVE  PassedWereOut'
  <2>1. PICK s \in Slots : GrantInvokeId(k, s)
    BY <1>4 DEF IsGrantOf
  <2>2. Current_Invoke_ID' = Increment(k)
    BY <2>1 DEF GrantInvokeId
  <2>3. k \in Outstanding'
    BY <2>1 DEF GrantInvokeId, Outstanding, TypeOK, InvokeIds
  <2>4. \A id \in InvokeIds : id # k => ~IsGrantOf(id)
    BY <2>1 DEF IsGrantOf, GrantInvokeId
  <2>5. /\ beenOut' \in [InvokeIds -> SUBSET InvokeIds]
        /\ \A id \in InvokeIds : id # k => beenOut'[id] = beenOut[id] \cup Outstanding
    BY <1>1, <1>4, <2>4 DEF ReuseNext, PassedWereOut
  <2>6. \A j \in InvokeIds : StepsFrom(Current_Invoke_ID, j) < StepsFrom(Current_Invoke_ID, k)
                               => j \in Outstanding
    BY <1>1, <2>1, CursorSteps, HeldIsOut DEF GrantInvokeId, FirstUnused
  <2>7. ASSUME NEW id \in InvokeIds, NEW j \in InvokeIds, Passed(id, j)'
        PROVE  j \in beenOut'[id] \cup Outstanding'
    <3>1. /\ j # id
          /\ StepsFrom(Increment(id), j) < StepsFrom(Increment(id), Increment(k))
      BY <2>2, <2>7 DEF Passed
    <3>2. id # k
      BY <3>1, CursorSteps, TableFits DEF StepsFrom, InvokeIds
    <3>3. \/ StepsFrom(Increment(id), j) < StepsFrom(Increment(id), Current_Invoke_ID)
          \/ StepsFrom(Current_Invoke_ID, j) < StepsFrom(Current_Invoke_ID, k)
          \/ j = k
      BY <1>1, <3>1, CursorSteps, TableFits DEF StepsFrom, InvokeIds
    <3> QED
      BY <2>3, <2>5, <2>6, <3>1, <3>2, <3>3 DEF PassedWereOut, Passed
  <2> QED
    BY <2>5, <2>7 DEF PassedWereOut
<1> QED
  BY <1>2, <1>3, <1>4

(* An id is not granted again before every other id has been out in the    *)
(* meantime, for every size of the table: when the search comes round to   *)
(* it, it has gone over all the others.                                    *)
THEOREM OldestComesBack == ReuseSpec => OldestIdFirst
<1> DEFINE Round == \A id \in InvokeIds :
                      IsGrantOf(id) => InvokeIds \ {id} \subseteq beenOut[id] \cup Outstanding
<1>1. ReuseInit => TypeOK /\ PassedWereOut
  BY TableFits DEF ReuseInit, Init, TypeOK, TsmStates, FreeSlots, InvokeIds, PassedWereOut
<1>2. TypeOK /\ [ReuseNext]_<<vars, beenOut>> => TypeOK'
  BY TypeStep DEF ReuseNext, vars
<1>3. TypeOK /\ PassedWereOut => Round
  <2> SUFFICES ASSUME TypeOK, PassedWereOut, NEW k \in InvokeIds, IsGrantOf(k),
                      NEW j \in InvokeIds, j # k
               PROVE  j \in beenOut[k] \cup Outstanding
    OBVIOUS
  <2>1. Current_Invoke_ID \in InvokeIds
    BY DEF TypeOK
  <2>2. StepsFrom(Current_Invoke_ID, j) < StepsFrom(Current_Invoke_ID, k) => j \in Outstanding
    BY <2>1, CursorSteps, HeldIsOut DEF IsGrantOf, GrantInvokeId, FirstUnused
  <2>3. \/ StepsFrom(Increment(k), j) < StepsFrom(Increment(k), Current_Invoke_ID)
        \/ StepsFrom(Current_Invoke_ID, j) < StepsFrom(Current_Invoke_ID, k)
    BY <2>1, CursorSteps, TableFits DEF StepsFrom, InvokeIds
  <2> QED
    BY <2>2, <2>3 DEF PassedWereOut, Passed
<1>4. TypeOK /\ PassedWereOut /\ [ReuseNext]_<<vars, beenOut>> => [Round]_vars
  BY <1>3
<1> QED
  BY <1>1, <1>2, <1>4, PassedStep, PTL DEF ReuseSpec, OldestIdFirst
=============================================================================
