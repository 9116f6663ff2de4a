---------------------- MODULE CommandDispatcherProofs ----------------------
(***************************************************************************)
(* Proofs about the safety of CommandDispatcher.tla, for any messages and  *)
(* any limit.                                                              *)
(***************************************************************************)
EXTENDS CommandDispatcher, FiniteSetTheorems, SequenceTheorems, TLAPS

(* How often a message is in a sequence.                                   *)
Copies(s, m) == {i \in DOMAIN s : s[i] = m}
Count(s, m) == Cardinality(Copies(s, m))

-----------------------------------------------------------------------------
(* Lemmas about the removal of a message.                                  *)

LEMMA RankProperties ==
  ASSUME NEW positions, positions \subseteq Nat, IsFiniteSet(positions)
  PROVE  /\ \A i \in positions : Rank(i, positions) \in 1 .. Cardinality(positions)
         /\ \A i, j \in positions : i < j => Rank(i, positions) < Rank(j, positions)
<1> DEFINE UpTo(i) == {j \in positions : j <= i}
<1>1. ASSUME NEW i \in positions
      PROVE  /\ IsFiniteSet(UpTo(i)) /\ Cardinality(UpTo(i)) \in Nat
             /\ Cardinality(UpTo(i)) <= Cardinality(positions)
  BY FS_Subset, FS_CardinalityType
<1>2. ASSUME NEW i \in positions
      PROVE  Cardinality(UpTo(i)) # 0
  <2>1. i \in UpTo(i)
    OBVIOUS
  <2> QED
    BY <1>1, <2>1, FS_EmptySet
<1>3. ASSUME NEW i \in positions, NEW j \in positions, i < j
      PROVE  Cardinality(UpTo(i)) < Cardinality(UpTo(j))
  <2>1. UpTo(i) \in SUBSET UpTo(j) /\ UpTo(i) # UpTo(j)
    <3>1. i \in Nat /\ j \in Nat /\ j \in UpTo(j) /\ j \notin UpTo(i)
      BY <1>3
    <3>2. ASSUME NEW k \in UpTo(i)
          PROVE  k \in UpTo(j)
      BY <1>3, <3>1
    <3> QED
      BY <3>1, <3>2
  <2>2. /\ Cardinality(UpTo(i)) <= Cardinality(UpTo(j))
        /\ Cardinality(UpTo(j)) = Cardinality(UpTo(i)) => UpTo(j) = UpTo(i)
    BY <1>1, <2>1, FS_Subset
  <2> QED
    BY <1>1, <2>1, <2>2
<1>4. Cardinality(positions) \in Nat
  BY FS_CardinalityType
<1> QED
  BY <1>1, <1>2, <1>3, <1>4 DEF Rank

(* Every rank is taken by a position, which Nth finds.                     *)
LEMMA NthProperties ==
  ASSUME NEW positions, positions \subseteq Nat, IsFiniteSet(positions)
  PROVE  /\ \A k \in 1 .. Cardinality(positions) :
               Nth(k, positions) \in positions /\ Rank(Nth(k, positions), positions) = k
         /\ \A k, l \in 1 .. Cardinality(positions) :
               k < l => Nth(k, positions) < Nth(l, positions)
         /\ \A i \in positions :
               \E k \in 1 .. Cardinality(positions) : Nth(k, positions) = i
<1> DEFINE ranks == 1 .. Cardinality(positions)
           rank == [i \in positions |-> Rank(i, positions)]
<1>1. Cardinality(positions) \in Nat /\ IsFiniteSet(ranks)
      /\ Cardinality(ranks) = Cardinality(positions)
  BY FS_CardinalityType, FS_Interval
<1>2. rank \in Injection(positions, ranks)
  <2>1. rank \in [positions -> ranks]
    BY RankProperties
  <2>2. \A i, j \in positions : rank[i] = rank[j] => i = j
    <3> SUFFICES ASSUME NEW i \in positions, NEW j \in positions, i # j
                 PROVE  rank[i] # rank[j]
      OBVIOUS
    <3>1. i < j \/ j < i
      OBVIOUS
    <3>2. rank[i] < rank[j] \/ rank[j] < rank[i]
      BY <3>1, RankProperties
    <3>3. rank[i] \in Int /\ rank[j] \in Int
      BY <2>1, <1>1
    <3> QED
      BY <3>2, <3>3
  <2> QED
    BY <2>1, <2>2 DEF Injection, IsInjective
<1>3. rank \in Surjection(positions, ranks)
  BY <1>1, <1>2, FS_Injection
<1>4. ASSUME NEW k \in ranks
      PROVE  Nth(k, positions) \in positions /\ Rank(Nth(k, positions), positions) = k
  <2>1. \E i \in positions : Rank(i, positions) = k
    BY <1>3 DEF Surjection
  <2> QED
    BY <2>1 DEF Nth
<1>5. ASSUME NEW k \in ranks, NEW l \in ranks, k < l
      PROVE  Nth(k, positions) < Nth(l, positions)
  <2>1. Nth(k, positions) \in Nat /\ Nth(l, positions) \in Nat
    BY <1>4
  <2>2. ~(Nth(l, positions) < Nth(k, positions))
    <3> SUFFICES ASSUME Nth(l, positions) < Nth(k, positions)
                 PROVE  FALSE
      OBVIOUS
    <3>1. Rank(Nth(l, positions), positions) < Rank(Nth(k, positions), positions)
      BY <1>4, RankProperties
    <3>2. l < k
      BY <1>4, <3>1
    <3> QED
      BY <1>1, <1>5, <3>2
  <2>3. Nth(l, positions) # Nth(k, positions)
    BY <1>4, <1>5, <1>1
  <2> QED
    BY <2>1, <2>2, <2>3
<1>6. ASSUME NEW i \in positions
      PROVE  \E k \in ranks : Nth(k, positions) = i
  <2>1. rank[i] \in ranks
    BY <1>2 DEF Injection
  <2>2. Nth(rank[i], positions) \in positions /\ rank[Nth(rank[i], positions)] = rank[i]
    BY <1>4, <2>1
  <2>3. Nth(rank[i], positions) = i
    BY <1>2, <2>2 DEF Injection, IsInjective
  <2> QED
    BY <2>1, <2>3
<1> QED
  BY <1>4, <1>5, <1>6

(* What is left of a queue is in its order, and all of it but the message. *)
LEMMA WithoutProperties ==
  ASSUME NEW S, NEW queue \in Seq(S), NEW m
  PROVE  /\ Without(queue, m) \in Seq(S)
         /\ Len(Without(queue, m)) = Cardinality(Kept(queue, m))
         /\ Len(Without(queue, m)) <= Len(queue)
         /\ \E from \in [1 .. Len(Without(queue, m)) -> Kept(queue, m)] :
               /\ \A k \in 1 .. Len(Without(queue, m)) : Without(queue, m)[k] = queue[from[k]]
               /\ \A k, l \in 1 .. Len(Without(queue, m)) : k < l => from[k] < from[l]
               /\ \A i \in Kept(queue, m) : \E k \in 1 .. Len(Without(queue, m)) : from[k] = i
<1> DEFINE K == Kept(queue, m)
           from == [k \in 1 .. Cardinality(K) |-> Nth(k, K)]
<1>1. DOMAIN queue = 1 .. Len(queue) /\ Len(queue) \in Nat
      /\ \A i \in DOMAIN queue : queue[i] \in S
  BY LenProperties, ElementOfSeq
<1>2. K \in SUBSET (1 .. Len(queue)) /\ K \subseteq Nat
  BY <1>1 DEF Kept
<1>3. IsFiniteSet(K) /\ Cardinality(K) <= Len(queue) /\ Cardinality(K) \in Nat
  <2>1. IsFiniteSet(1 .. Len(queue)) /\ Cardinality(1 .. Len(queue)) = Len(queue)
    BY <1>1, FS_Interval
  <2> QED
    BY <1>2, <2>1, FS_Subset, FS_CardinalityType
<1>4. from \in [1 .. Cardinality(K) -> K]
  BY <1>2, <1>3, NthProperties
<1>5. Without(queue, m) = [k \in 1 .. Cardinality(K) |-> queue[from[k]]]
  BY DEF Without
<1>6. ASSUME NEW k \in 1 .. Cardinality(K)
      PROVE  queue[from[k]] \in S
  BY <1>1, <1>2, <1>4
<1>7. Without(queue, m) \in Seq(S)
  <2> HIDE DEF K, from
  <2> DEFINE e(k) == queue[from[k]]
  <2>1. \A k \in 1 .. Cardinality(K) : e(k) \in S
    BY <1>6
  <2> HIDE DEF e
  <2>2. [k \in 1 .. Cardinality(K) |-> e(k)] \in Seq(S)
    BY <1>3, <2>1
  <2> QED
    BY <1>5, <2>2 DEF e
<1>8. Len(Without(queue, m)) = Cardinality(K)
  <2>1. DOMAIN Without(queue, m) = 1 .. Cardinality(K)
    BY <1>5
  <2> HIDE DEF K, from
  <2> QED
    BY <1>3, <1>7, <2>1, LenProperties
<1>9. /\ \A k \in 1 .. Cardinality(K) : Without(queue, m)[k] = queue[from[k]]
      /\ \A k, l \in 1 .. Cardinality(K) : k < l => from[k] < from[l]
      /\ \A i \in K : \E k \in 1 .. Cardinality(K) : from[k] = i
  BY <1>2, <1>3, <1>5, NthProperties
<1> HIDE DEF K, from
<1>10. \E f \in [1 .. Cardinality(K) -> K] :
          /\ \A k \in 1 .. Cardinality(K) : Without(queue, m)[k] = queue[f[k]]
          /\ \A k, l \in 1 .. Cardinality(K) : k < l => f[k] < f[l]
          /\ \A i \in K : \E k \in 1 .. Cardinality(K) : f[k] = i
  BY <1>4, <1>9
<1> QED
  BY <1>3, <1>7, <1>8, <1>10 DEF K

LEMMA CopiesAreFinite ==
  ASSUME NEW S, NEW s \in Seq(S), NEW m
  PROVE  /\ IsFiniteSet(Copies(s, m)) /\ Count(s, m) \in Nat
         /\ Copies(s, m) = {i \in 1 .. Len(s) : s[i] = m}
<1>1. DOMAIN s = 1 .. Len(s) /\ Len(s) \in Nat
  BY LenProperties
<1>2. IsFiniteSet(1 .. Len(s))
  BY <1>1, FS_Interval
<1>3. Copies(s, m) \in SUBSET (1 .. Len(s)) /\ Copies(s, m) = {i \in 1 .. Len(s) : s[i] = m}
  BY <1>1 DEF Copies
<1> QED
  BY <1>2, <1>3, FS_Subset, FS_CardinalityType DEF Count

LEMMA CountAbsent ==
  ASSUME NEW S, NEW s \in Seq(S), NEW m, \A i \in 1 .. Len(s) : s[i] # m
  PROVE  Count(s, m) = 0
BY CopiesAreFinite, FS_EmptySet DEF Count

LEMMA CountAppend ==
  ASSUME NEW S, NEW s \in Seq(S), NEW e \in S, NEW m
  PROVE  Count(Append(s, e), m) = Count(s, m) + IF e = m THEN 1 ELSE 0
<1> DEFINE t == Append(s, e)
           last == Len(s) + 1
<1>1. /\ t \in Seq(S) /\ Len(t) = last /\ t[last] = e
      /\ \A i \in 1 .. Len(s) : t[i] = s[i]
  BY AppendProperties
<1>2. Len(s) \in Nat
  BY LenProperties
<1> HIDE DEF t
<1>3. /\ IsFiniteSet(Copies(s, m)) /\ Copies(s, m) = {i \in 1 .. Len(s) : s[i] = m}
      /\ Copies(t, m) = {i \in 1 .. Len(t) : t[i] = m} /\ Count(s, m) \in Nat
  BY <1>1, CopiesAreFinite
<1>4. CASE e = m
  <2>1. Copies(t, m) = Copies(s, m) \cup {last} /\ last \notin Copies(s, m)
    BY <1>1, <1>2, <1>3, <1>4
  <2>2. Count(t, m) = Count(s, m) + 1
    BY <1>3, <2>1, FS_AddElement DEF Count
  <2> QED
    BY <1>4, <2>2 DEF t
<1>5. CASE e # m
  <2>1. Copies(t, m) = Copies(s, m)
    BY <1>1, <1>2, <1>3, <1>5
  <2>2. Count(t, m) = Count(s, m)
    BY <2>1 DEF Count
  <2> QED
    BY <1>3, <1>5, <2>2 DEF t
<1> QED
  BY <1>4, <1>5

(* What is left after a message was taken comes, in its order, from behind *)
(* the front; only copies of the front are missing.                        *)
IsRestOf(rest, queue, from) ==
    /\ from \in [1 .. Len(rest) -> 2 .. Len(queue)]
    /\ \A k \in 1 .. Len(rest) : rest[k] = queue[from[k]]
    /\ \A k, l \in 1 .. Len(rest) : k < l => from[k] < from[l]
    /\ \A i \in 1 .. Len(queue) :
          queue[i] = Head(queue) \/ \E k \in 1 .. Len(rest) : rest[k] = queue[i]

LEMMA TailIsRest ==
  ASSUME NEW S, NEW queue \in Seq(S), queue # <<>>
  PROVE  \E from : IsRestOf(Tail(queue), queue, from)
<1> DEFINE from == [k \in 1 .. Len(Tail(queue)) |-> k + 1]
<1>1. /\ Tail(queue) \in Seq(S) /\ Len(Tail(queue)) = Len(queue) - 1 /\ Len(queue) \in Nat \ {0}
      /\ \A k \in 1 .. Len(Tail(queue)) : Tail(queue)[k] = queue[k + 1]
  BY HeadTailProperties, EmptySeq
<1>2. Head(queue) = queue[1]
  OBVIOUS
<1>3. ASSUME NEW i \in 1 .. Len(queue), queue[i] # Head(queue)
      PROVE  \E k \in 1 .. Len(Tail(queue)) : Tail(queue)[k] = queue[i]
  <2>1. i - 1 \in 1 .. Len(Tail(queue)) /\ (i - 1) + 1 = i
    BY <1>1, <1>2, <1>3
  <2> QED
    BY <1>1, <2>1
<1>4. from \in [1 .. Len(Tail(queue)) -> 2 .. Len(queue)]
  BY <1>1
<1>5. /\ \A k \in 1 .. Len(Tail(queue)) : Tail(queue)[k] = queue[from[k]]
      /\ \A k, l \in 1 .. Len(Tail(queue)) : k < l => from[k] < from[l]
  BY <1>1
<1> HIDE DEF from
<1>6. IsRestOf(Tail(queue), queue, from)
  BY <1>3, <1>4, <1>5 DEF IsRestOf
<1> QED
  BY <1>6

LEMMA WithoutIsRest ==
  ASSUME NEW S, NEW queue \in Seq(S), queue # <<>>
  PROVE  \E from : IsRestOf(Without(queue, Head(queue)), queue, from)
<1> DEFINE rest == Without(queue, Head(queue))
           K == Kept(queue, Head(queue))
<1>1. DOMAIN queue = 1 .. Len(queue) /\ Len(queue) \in Nat \ {0}
  BY LenProperties, EmptySeq
<1>2. Head(queue) = queue[1]
  OBVIOUS
<1>3. K \subseteq 2 .. Len(queue)
  BY <1>1, <1>2 DEF Kept
<1>4. PICK from \in [1 .. Len(rest) -> K] :
         /\ \A k \in 1 .. Len(rest) : rest[k] = queue[from[k]]
         /\ \A k, l \in 1 .. Len(rest) : k < l => from[k] < from[l]
         /\ \A i \in K : \E k \in 1 .. Len(rest) : from[k] = i
  BY WithoutProperties
<1>5. from \in [1 .. Len(rest) -> 2 .. Len(queue)]
  BY <1>3, <1>4
<1>6. ASSUME NEW i \in 1 .. Len(queue), queue[i] # Head(queue)
      PROVE  \E k \in 1 .. Len(rest) : rest[k] = queue[i]
  <2>1. i \in K
    BY <1>1, <1>6 DEF Kept
  <2>2. PICK k \in 1 .. Len(rest) : from[k] = i
    BY <1>4, <2>1
  <2> QED
    BY <1>4, <2>2
<1> HIDE DEF rest, K
<1>7. IsRestOf(rest, queue, from)
  BY <1>4, <1>5, <1>6 DEF IsRestOf
<1> QED
  BY <1>7 DEF rest

LEMMA ErasedProperties ==
  ASSUME NEW S, NEW queue \in Seq(S), queue # <<>>
  PROVE  /\ Erased(queue) \in Seq(S)
         /\ Len(Erased(queue)) <= Len(queue)
         /\ \E from : IsRestOf(Erased(queue), queue, from)
<1>1. Tail(queue) \in Seq(S) /\ Len(Tail(queue)) = Len(queue) - 1 /\ Len(queue) \in Nat
  BY HeadTailProperties, LenProperties
<1>2. /\ Without(queue, Head(queue)) \in Seq(S)
      /\ Len(Without(queue, Head(queue))) <= Len(queue)
  BY WithoutProperties
<1> QED
  BY <1>1, <1>2, TailIsRest, WithoutIsRest DEF Erased

LEMMA CountOfRest ==
  ASSUME NEW S, NEW queue \in Seq(S), queue # <<>>, NEW rest \in Seq(S),
         NEW from, IsRestOf(rest, queue, from), NEW m
  PROVE  Count(rest, m) <= Count(queue, m) - IF Head(queue) = m THEN 1 ELSE 0
<1> DEFINE behind == Copies(queue, m) \ {1}
           f == [k \in Copies(rest, m) |-> from[k]]
<1>1. /\ IsFiniteSet(Copies(rest, m)) /\ Copies(rest, m) = {k \in 1 .. Len(rest) : rest[k] = m}
      /\ IsFiniteSet(Copies(queue, m)) /\ Copies(queue, m) = {i \in 1 .. Len(queue) : queue[i] = m}
      /\ Count(rest, m) \in Nat /\ Count(queue, m) \in Nat
  BY CopiesAreFinite
<1>2. IsFiniteSet(behind) /\ Cardinality(behind) = Count(queue, m) - IF Head(queue) = m THEN 1 ELSE 0
  <2>1. Len(queue) \in Nat \ {0} /\ Head(queue) = queue[1]
    BY EmptySeq
  <2>2. 1 \in Copies(queue, m) <=> Head(queue) = m
    BY <1>1, <2>1
  <2>3. /\ IsFiniteSet(behind)
        /\ Cardinality(behind) = IF 1 \in Copies(queue, m) THEN Cardinality(Copies(queue, m)) - 1
                                                           ELSE Cardinality(Copies(queue, m))
    BY <1>1, FS_RemoveElement
  <2> HIDE DEF behind
  <2> QED
    BY <1>1, <2>2, <2>3 DEF Count
<1>3. f \in [Copies(rest, m) -> behind]
  <2> SUFFICES ASSUME NEW k \in Copies(rest, m)
               PROVE  from[k] \in behind
    OBVIOUS
  <2>1. k \in 1 .. Len(rest) /\ rest[k] = m
    BY <1>1
  <2>2. from[k] \in 2 .. Len(queue) /\ queue[from[k]] = m
    BY <2>1 DEF IsRestOf
  <2>3. Len(queue) \in Nat
    BY LenProperties
  <2>4. from[k] \in 1 .. Len(queue) /\ from[k] # 1
    BY <2>2, <2>3
  <2> QED
    BY <1>1, <2>2, <2>4
<1>4. f \in Injection(Copies(rest, m), behind)
  <2> SUFFICES ASSUME NEW k \in Copies(rest, m), NEW l \in Copies(rest, m), k # l
               PROVE  from[k] # from[l]
    BY <1>3 DEF Injection, IsInjective
  <2>1. k \in 1 .. Len(rest) /\ l \in 1 .. Len(rest) /\ Len(rest) \in Nat
    BY <1>1, LenProperties
  <2>2. k < l \/ l < k
    BY <2>1
  <2>3. from[k] < from[l] \/ from[l] < from[k]
    BY <2>1, <2>2 DEF IsRestOf
  <2>4. from[k] \in 2 .. Len(queue) /\ from[l] \in 2 .. Len(queue) /\ Len(queue) \in Nat
    BY <2>1, LenProperties DEF IsRestOf
  <2> QED
    BY <2>3, <2>4
<1> HIDE DEF f, behind
<1> QED
  BY <1>2, <1>4, FS_Injection DEF Count
-----------------------------------------------------------------------------
(* Types. *)

LEMMA KindInKinds ==
  \A m \in Messages : Kind(m) \in Kinds
BY DEF Kinds

(* A message in hand is one message.                                       *)
LEMMA InHandIsMessage ==
  ASSUME TypeOK
  PROVE  /\ get.pc # "idle" => get.msg = <<get.msg[1]>> /\ get.msg[1] \in Messages
         /\ translate.pc = "work" => translate.msg = <<translate.msg[1]>>
                                     /\ translate.msg[1] \in Messages
BY DEF TypeOK, Optional

(* The actions change the queue at its two ends.                           *)
LEMMA PushAppends ==
  ASSUME TypeOK, PushBack
  PROVE  My_Receive_msg' = Append(My_Receive_msg, get.msg[1])
<1>1. get.msg = <<get.msg[1]>> /\ get.msg[1] \in Messages
  BY InHandIsMessage DEF PushBack, Appending
<1>2. My_Receive_msg' = My_Receive_msg \o get.msg
  BY DEF PushBack, Appending, AtBack
<1>3. Append(My_Receive_msg, get.msg[1]) = My_Receive_msg \o <<get.msg[1]>>
  BY <1>1, AppendIsConcat DEF TypeOK
<1> QED
  BY <1>1, <1>2, <1>3

LEMMA OutcomesTyped ==
  \A m \in Messages, ret \in {1, -1} :
     Outcomes(m, ret) \subseteq [msg : Messages, outcome : {"WRITE_SUCCESS", "WRITE_FAIL"}]
<1> SUFFICES ASSUME NEW m \in Messages, NEW ret \in {1, -1}
             PROVE  Outcomes(m, ret)
                      \subseteq [msg : Messages, outcome : {"WRITE_SUCCESS", "WRITE_FAIL"}]
  OBVIOUS
<1>1. CASE m \in WriteLists
  BY <1>1 DEF Outcomes
<1>2. CASE m \notin WriteLists /\ m \in Reads /\ ret < 0
  BY <1>2 DEF Outcomes
<1>3. CASE m \notin WriteLists /\ ~(m \in Reads /\ ret < 0)
  BY <1>3 DEF Outcomes
<1> QED
  BY <1>1, <1>2, <1>3

LEMMA TypeInit == Init => TypeOK
<1>1. <<>> \in Seq(Messages)
  BY EmptySeq
<1>2. <<>> \in Optional
  BY DEF Optional
<1>3. Init => /\ get \in [pc : {"idle"}, msg : Optional] /\ get.msg = <<>>
              /\ translate \in [pc : {"idle"}, kind : {"none"}, msg : Optional]
              /\ translate.msg = <<>>
  BY <1>2 DEF Init, Waiting
<1>4. Init => capacity \in Nat /\ item \in [WriteLists -> {"unchanged", "edited", "written"}]
  BY DEF Init
<1> QED
  BY <1>1, <1>3, <1>4 DEF Init, TypeOK

LEMMA TypeStep == TypeOK /\ [Next]_vars => TypeOK'
<1> SUFFICES ASSUME TypeOK, [Next]_vars
             PROVE  TypeOK'
  OBVIOUS
<1> USE DEF TypeOK, queueVars, outcomeVars
<1>1. ASSUME NEW m \in Messages, Post(m)
      PROVE  TypeOK'
  BY <1>1, AppendProperties DEF Post
<1>2. CASE GetMessage
  BY <1>2, HeadTailProperties DEF GetMessage, Optional
<1>3. CASE CheckLength
  BY <1>3 DEF CheckLength
<1>4. CASE ClearQueue
  BY <1>4, EmptySeq DEF ClearQueue, Optional
<1>5. CASE PushBack
  <2>1. My_Receive_msg' \in Seq(Messages)
    <3>1. My_Receive_msg' = Append(My_Receive_msg, get.msg[1])
      BY <1>5, PushAppends
    <3>2. get.msg[1] \in Messages
      BY <1>5, InHandIsMessage DEF PushBack, Appending
    <3> QED
      BY <3>1, <3>2, AppendProperties
  <2>2. /\ get' \in [pc : {"idle", "check", "clear", "push", "push_again"}, msg : Optional]
        /\ get'.msg = <<>> <=> get'.pc = "idle"
    BY <1>5 DEF PushBack, Appending, Optional
  <2> QED
    BY <1>5, <2>1, <2>2 DEF PushBack, Appending
<1>6. CASE SeeLength
  BY <1>6 DEF SeeLength
<1>7. CASE Peek
  <2>1. My_Receive_msg # <<>> => Kind(Head(My_Receive_msg)) \in Kinds
    BY HeadTailProperties, KindInKinds
  <2> QED
    BY <1>7, <2>1 DEF Peek, Sees, Crash, Optional
<1>15. CASE PeekWhileMoving
  BY <1>15 DEF PeekWhileMoving, Sees, Crash, GoOn, Waiting, Optional
<1>16. CASE Move
  <2>1. capacity' \in Nat
    BY <1>16 DEF Move, Larger
  <2> QED
    BY <1>16, <2>1 DEF Move
<1>8. CASE Take
  <2>1. Head(My_Receive_msg) \in Messages
    BY <1>8, HeadTailProperties DEF Take
  <2>2. My_Receive_msg' \in Seq(Messages)
    BY <1>8, ErasedProperties DEF Take
  <2>3. dealt' \in Seq(Messages)
    BY <1>8, <2>1, AppendProperties DEF Take
  <2> QED
    BY <1>8, <2>1, <2>2, <2>3 DEF Take, Optional
<1>9. CASE TakeNothing
  BY <1>9 DEF TakeNothing, Crash, Optional
<1>10. CASE WorkOnAnother
  BY <1>10 DEF WorkOnAnother, Crash, GoOn, Waiting, Optional
<1>11. ASSUME NEW ret \in {1, -1}, Work(ret)
       PROVE  TypeOK'
  <2>1. outcomes' \subseteq [msg : Messages, outcome : {"WRITE_SUCCESS", "WRITE_FAIL"}]
    BY <1>11, InHandIsMessage, OutcomesTyped DEF Work
  <2> QED
    BY <1>11, <2>1 DEF Work, GoOn, Waiting, Optional
<1>12. ASSUME NEW o \in outcomes, Resume(o)
       PROVE  TypeOK'
  BY <1>12 DEF Resume
<1>13. CASE CloseScreen
  BY <1>13, EmptySeq DEF CloseScreen
<1>14. CASE UNCHANGED vars
  BY <1>14 DEF vars
<1> QED
  BY <1>1, <1>2, <1>3, <1>4, <1>5, <1>6, <1>7, <1>8, <1>9, <1>10, <1>11, <1>12, <1>13, <1>14,
     <1>15, <1>16
  DEF Next, Get, Translate

(* The queues hold messages, and a thread has a message in hand exactly    *)
(* when it has taken one.                                                  *)
THEOREM TypeCorrect == Spec => []TypeOK
<1>1. Init => TypeOK
  BY TypeInit
<1>2. TypeOK /\ [Next]_vars => TypeOK'
  BY TypeStep
<1> QED
  BY <1>1, <1>2, PTL DEF Spec
-----------------------------------------------------------------------------
(* The inductive invariant. *)

(* The length that was read holds until the message is appended: only this *)
(* thread makes the queue longer.                                          *)
LengthHolds ==
    /\ get.pc = "push" => Len(My_Receive_msg) <= Limit
    /\ get.pc = "push_again" => Len(My_Receive_msg) <= Limit + 1
    /\ Len(My_Receive_msg) <= Limit + 2

(* What the unlocked reads have seen of the front holds until a clear; the *)
(* length that was read may be that of a vector that is moved for its      *)
(* first message.                                                          *)
FrontHolds ==
    ~overlapped => /\ translate.pc \notin {"crashed", "returned"}
                   /\ translate.pc = "peek" => My_Receive_msg # <<>> \/ Moving
                   /\ translate.pc = "take" => /\ My_Receive_msg # <<>>
                                               /\ translate.kind = Kind(Head(My_Receive_msg))
                   /\ translate.pc = "work" => AsSeen

(* The mailbox is what was posted last, the message in hand came before it. *)
Given == Len(posted) - Len(mailbox)
MailboxIsRest ==
    /\ Given \in Nat
    /\ \A i \in 1 .. Len(mailbox) : mailbox[i] = posted[Given + i]
    /\ get.pc # "idle" => Given > 0 /\ get.msg[1] = posted[Given]
    /\ get.pc = "push_again" => get.msg[1] \in WriteOneLists
PostedOnce == \A p, q \in 1 .. Len(posted) : posted[p] = posted[q] => p = q

(* How many of the posted messages are past the first thread, or were      *)
(* dropped; what the queue holds, or has held, is among them.              *)
Past == IF get.pc \in {"check", "clear", "push"} THEN Given - 1 ELSE Given
Came(m) == \E p \in 1 .. Past : posted[p] = m
NotAfter(m, n) ==
    \A p, q \in 1 .. Len(posted) : posted[p] = m /\ posted[q] = n => p <= q
InOrder ==
    /\ \A i \in 1 .. Len(My_Receive_msg) : Came(My_Receive_msg[i])
    /\ \A i \in 1 .. Len(dealt) : Came(dealt[i])
    /\ \A i, j \in 1 .. Len(My_Receive_msg) :
          i < j => NotAfter(My_Receive_msg[i], My_Receive_msg[j])
    /\ \A i, j \in 1 .. Len(dealt) : i < j => NotAfter(dealt[i], dealt[j])
    /\ \A i \in 1 .. Len(dealt), j \in 1 .. Len(My_Receive_msg) :
          NotAfter(dealt[i], My_Receive_msg[j])

(* Copies that were carried out, that wait, and that are still to be made. *)
Expected(m) == IF get.pc = "push_again" /\ get.msg[1] = m THEN 1 ELSE 0
Allowed(m) == IF m \in WriteOneLists THEN 2 ELSE 1
CopiesBounded ==
    \A m \in Messages : Count(dealt, m) + Count(My_Receive_msg, m) + Expected(m) <= Allowed(m)

(* Until the queue is cleared, what came is there or was carried out.      *)
NoneMissing ==
    ~cleared => \A p \in 1 .. Past : \/ \E i \in 1 .. Len(My_Receive_msg) : My_Receive_msg[i] = posted[p]
                                     \/ \E i \in 1 .. Len(dealt) : dealt[i] = posted[p]

IInv == TypeOK /\ LengthHolds /\ FrontHolds /\ MailboxIsRest /\ PostedOnce /\ InOrder
        /\ CopiesBounded /\ NoneMissing

LEMMA ContainsPosted ==
  ASSUME TypeOK, NEW m
  PROVE  Contains(posted, m) <=> \E p \in 1 .. Len(posted) : posted[p] = m
BY DEF Contains, TypeOK

(* What the actions do to the lengths and the front of the queue.          *)
LEMMA QueueAfterTake ==
  ASSUME TypeOK, Take
  PROVE  /\ My_Receive_msg \in Seq(Messages) /\ My_Receive_msg # <<>>
         /\ Len(My_Receive_msg') <= Len(My_Receive_msg)
         /\ Len(My_Receive_msg) \in Nat /\ Len(My_Receive_msg') \in Nat
         /\ dealt' = Append(dealt, My_Receive_msg[1])
         /\ Head(My_Receive_msg) = My_Receive_msg[1] /\ My_Receive_msg[1] \in Messages
         /\ My_Receive_msg' \in Seq(Messages)
         /\ \E from : IsRestOf(My_Receive_msg', My_Receive_msg, from)
<1>1. My_Receive_msg \in Seq(Messages) /\ My_Receive_msg # <<>>
      /\ My_Receive_msg' = Erased(My_Receive_msg) /\ dealt' = Append(dealt, Head(My_Receive_msg))
  BY DEF Take, TypeOK
<1>2. Head(My_Receive_msg) = My_Receive_msg[1] /\ Head(My_Receive_msg) \in Messages
  BY <1>1, HeadTailProperties
<1> QED
  BY <1>1, <1>2, ErasedProperties, LenProperties

LEMMA QueueAfterPush ==
  ASSUME TypeOK, PushBack
  PROVE  /\ My_Receive_msg' = Append(My_Receive_msg, get.msg[1]) /\ get.msg[1] \in Messages
         /\ My_Receive_msg \in Seq(Messages) /\ Len(My_Receive_msg) \in Nat
         /\ Len(My_Receive_msg') = Len(My_Receive_msg) + 1
         /\ \A i \in 1 .. Len(My_Receive_msg) : My_Receive_msg'[i] = My_Receive_msg[i]
         /\ My_Receive_msg'[Len(My_Receive_msg')] = get.msg[1]
         /\ My_Receive_msg' # <<>>
         /\ My_Receive_msg # <<>> => Head(My_Receive_msg') = Head(My_Receive_msg)
<1>1. My_Receive_msg' = Append(My_Receive_msg, get.msg[1]) /\ get.msg[1] \in Messages
  BY PushAppends, InHandIsMessage DEF PushBack, Appending
<1>2. My_Receive_msg \in Seq(Messages) /\ Len(My_Receive_msg) \in Nat
  BY LenProperties DEF TypeOK
<1>3. My_Receive_msg # <<>> => Head(My_Receive_msg') = Head(My_Receive_msg)
  BY <1>1, <1>2, HeadTailAppend
<1> QED
  BY <1>1, <1>2, <1>3, AppendProperties

LEMMA LengthStep == TypeOK /\ LengthHolds /\ [Next]_vars => LengthHolds'
<1> SUFFICES ASSUME TypeOK, LengthHolds, [Next]_vars
             PROVE  LengthHolds'
  OBVIOUS
<1> USE DEF LengthHolds, queueVars, outcomeVars
<1>0. Len(My_Receive_msg) \in Nat /\ get \in [pc : {"idle", "check", "clear", "push", "push_again"},
                                             msg : Optional]
  BY LenProperties DEF TypeOK
<1>1. ASSUME NEW m \in Messages, Post(m)
      PROVE  LengthHolds'
  BY <1>1 DEF Post
<1>2. CASE GetMessage
  BY <1>0, <1>2 DEF GetMessage
<1>3. CASE CheckLength
  BY <1>0, <1>3, LimitAssumption DEF CheckLength, TooLong
<1>4. CASE ClearQueue
  BY <1>4, LimitAssumption, EmptySeq DEF ClearQueue
<1>5. CASE PushBack
  BY <1>0, <1>5, QueueAfterPush, LimitAssumption DEF PushBack, Appending
<1>6. CASE SeeLength \/ Peek \/ PeekWhileMoving \/ TakeNothing \/ WorkOnAnother \/ Move
  BY <1>6 DEF SeeLength, Peek, PeekWhileMoving, TakeNothing, WorkOnAnother, Move
<1>7. CASE Take
  <2>1. /\ Len(My_Receive_msg') <= Len(My_Receive_msg) /\ Len(My_Receive_msg') \in Nat
        /\ get' = get
    BY <1>7, QueueAfterTake DEF Take
  <2> QED
    BY <1>0, <2>1, LimitAssumption
<1>8. ASSUME NEW ret \in {1, -1}, Work(ret)
      PROVE  LengthHolds'
  BY <1>8 DEF Work
<1>9. ASSUME NEW o \in outcomes, Resume(o)
      PROVE  LengthHolds'
  BY <1>9 DEF Resume
<1>10. CASE CloseScreen
  BY <1>10, LimitAssumption, EmptySeq DEF CloseScreen
<1>11. CASE UNCHANGED vars
  BY <1>11 DEF vars
<1> QED
  BY <1>1, <1>2, <1>3, <1>4, <1>5, <1>6, <1>7, <1>8, <1>9, <1>10, <1>11 DEF Next, Get, Translate

LEMMA FrontStep == TypeOK /\ FrontHolds /\ [Next]_vars => FrontHolds'
<1> SUFFICES ASSUME TypeOK, FrontHolds, [Next]_vars
             PROVE  FrontHolds'
  OBVIOUS
<1> USE DEF FrontHolds, Moving, AsSeen, queueVars, outcomeVars
<1>0. translate \in [pc : {"idle", "peek", "take", "work", "crashed", "returned"},
                     kind : Kinds \cup {"none"}, msg : Optional]
  BY DEF TypeOK
<1>1. ASSUME NEW m \in Messages, Post(m)
      PROVE  FrontHolds'
  BY <1>1 DEF Post
<1>2. CASE GetMessage \/ CheckLength
  BY <1>2 DEF GetMessage, CheckLength
<1>3. CASE ClearQueue \/ CloseScreen
  BY <1>3 DEF ClearQueue, CloseScreen, Looking
<1>4. CASE Move
  BY <1>4 DEF Move
<1>5. CASE PushBack
  <2>1. My_Receive_msg' # <<>> /\ translate' = translate /\ overlapped' = overlapped
        /\ (My_Receive_msg # <<>> => Head(My_Receive_msg') = Head(My_Receive_msg))
    BY <1>5, QueueAfterPush DEF PushBack, Appending
  <2> QED
    BY <2>1
<1>6. CASE SeeLength
  <2>1. My_Receive_msg # <<>> \/ Moving
    BY <1>6, EmptySeq DEF SeeLength, HasMessage
  <2>2. translate'.pc = "peek" /\ UNCHANGED <<My_Receive_msg, lock>>
    BY <1>0, <1>6 DEF SeeLength
  <2> QED
    BY <2>1, <2>2
<1>7. CASE Peek
  BY <1>7 DEF Peek, Sees
<1>8. CASE PeekWhileMoving
  BY <1>8 DEF PeekWhileMoving
<1>9. CASE Take
  BY <1>0, <1>9 DEF Take
<1>10. CASE TakeNothing
  BY <1>10 DEF TakeNothing
<1>11. CASE WorkOnAnother
  BY <1>11 DEF WorkOnAnother, GoOn, Waiting
<1>12. ASSUME NEW ret \in {1, -1}, Work(ret)
       PROVE  FrontHolds'
  BY <1>12 DEF Work, GoOn, Waiting
<1>13. ASSUME NEW o \in outcomes, Resume(o)
       PROVE  FrontHolds'
  BY <1>13 DEF Resume
<1>14. CASE UNCHANGED vars
  BY <1>14 DEF vars
<1> QED
  BY <1>1, <1>2, <1>3, <1>4, <1>5, <1>6, <1>7, <1>8, <1>9, <1>10, <1>11, <1>12, <1>13, <1>14
  DEF Next, Get, Translate

LEMMA PostAppends ==
  ASSUME TypeOK, NEW m \in Messages, Post(m)
  PROVE  /\ Len(posted') = Len(posted) + 1 /\ Len(posted) \in Nat
         /\ \A p \in 1 .. Len(posted) : posted'[p] = posted[p] /\ posted[p] # m
         /\ posted'[Len(posted')] = m
         /\ Len(mailbox') = Len(mailbox) + 1 /\ Len(mailbox) \in Nat
         /\ \A i \in 1 .. Len(mailbox) : mailbox'[i] = mailbox[i]
         /\ mailbox'[Len(mailbox')] = m
BY AppendProperties, ContainsPosted, LenProperties DEF Post, TypeOK

LEMMA PlacesStep ==
  TypeOK /\ MailboxIsRest /\ PostedOnce /\ [Next]_vars => MailboxIsRest' /\ PostedOnce'
<1> SUFFICES ASSUME TypeOK, MailboxIsRest, PostedOnce, [Next]_vars
             PROVE  MailboxIsRest' /\ PostedOnce'
  OBVIOUS
<1> USE DEF MailboxIsRest, PostedOnce, Given, queueVars, outcomeVars
<1>0. /\ Len(posted) \in Nat /\ Len(mailbox) \in Nat
      /\ get \in [pc : {"idle", "check", "clear", "push", "push_again"}, msg : Optional]
  BY LenProperties DEF TypeOK
<1>1. ASSUME NEW m \in Messages, Post(m)
      PROVE  MailboxIsRest' /\ PostedOnce'
  <2>1. get' = get /\ Given' = Given
    BY <1>1, PostAppends DEF Post
  <2>2. ASSUME NEW i \in 1 .. Len(mailbox')
        PROVE  mailbox'[i] = posted'[Given + i]
    <3>1. CASE i \in 1 .. Len(mailbox)
      <4>1. Given + i \in 1 .. Len(posted)
        BY <1>0, <3>1
      <4> QED
        BY <1>1, <3>1, <4>1, PostAppends
    <3>2. CASE i = Len(mailbox')
      <4>1. Given + i = Len(posted')
        <5>1. Len(posted') = Len(posted) + 1 /\ Len(mailbox') = Len(mailbox) + 1
          BY <1>1, PostAppends
        <5> QED
          BY <1>0, <3>2, <5>1
      <4> QED
        BY <1>1, <3>2, <4>1, PostAppends
    <3> QED
      BY <1>0, <1>1, <3>1, <3>2, PostAppends
  <2>3. get.pc # "idle" => posted'[Given] = posted[Given]
    <3>1. get.pc # "idle" => Given \in 1 .. Len(posted)
      BY <1>0
    <3> QED
      BY <1>1, <3>1, PostAppends
  <2>4. PostedOnce'
    <3> SUFFICES ASSUME NEW p \in 1 .. Len(posted'), NEW q \in 1 .. Len(posted'),
                        posted'[p] = posted'[q]
                 PROVE  p = q
      OBVIOUS
    <3>1. /\ Len(posted') = Len(posted) + 1 /\ posted'[Len(posted')] = m
          /\ \A r \in 1 .. Len(posted) : posted'[r] = posted[r] /\ posted[r] # m
      BY <1>1, PostAppends
    <3>2. /\ p \in 1 .. Len(posted) \/ p = Len(posted')
          /\ q \in 1 .. Len(posted) \/ q = Len(posted')
      BY <1>0, <3>1
    <3>3. CASE p \in 1 .. Len(posted) /\ q \in 1 .. Len(posted)
      BY <3>1, <3>3
    <3>4. CASE p = Len(posted') \/ q = Len(posted')
      BY <3>1, <3>2, <3>4
    <3> QED
      BY <3>2, <3>3, <3>4
  <2>5. /\ Given' \in Nat
        /\ \A i \in 1 .. Len(mailbox') : mailbox'[i] = posted'[Given' + i]
    BY <2>1, <2>2
  <2>6. /\ get'.pc # "idle" => Given' > 0 /\ get'.msg[1] = posted'[Given']
        /\ get'.pc = "push_again" => get'.msg[1] \in WriteOneLists
    BY <2>1, <2>3
  <2> QED
    BY <2>4, <2>5, <2>6
<1>2. CASE GetMessage
  <2>1. /\ mailbox' = Tail(mailbox) /\ posted' = posted /\ mailbox # <<>>
        /\ get' = [pc |-> "check", msg |-> <<mailbox[1]>>]
    BY <1>2 DEF GetMessage, TypeOK
  <2>2. /\ Len(mailbox') = Len(mailbox) - 1 /\ Len(mailbox) \in Nat \ {0}
        /\ \A i \in 1 .. Len(mailbox') : mailbox'[i] = mailbox[i + 1]
    BY <2>1, HeadTailProperties, EmptySeq DEF TypeOK
  <2>3. Given' = Given + 1 /\ mailbox[1] = posted[Given + 1]
    BY <1>0, <2>1, <2>2
  <2>4. ASSUME NEW i \in 1 .. Len(mailbox')
        PROVE  mailbox'[i] = posted[Given' + i]
    <3>1. i + 1 \in 1 .. Len(mailbox)
      BY <1>0, <2>2
    <3>2. Given \in Nat /\ Given' = Given + 1
      BY <2>3
    <3>3. Given + (i + 1) = Given' + i
      <4> HIDE DEF Given
      <4> QED
        BY <3>1, <3>2
    <3> QED
      BY <2>1, <2>2, <3>1, <3>3
  <2> QED
    BY <1>0, <2>1, <2>3, <2>4
<1>3. CASE CheckLength
  BY <1>0, <1>3 DEF CheckLength
<1>4. CASE ClearQueue
  BY <1>4 DEF ClearQueue
<1>5. CASE PushBack
  BY <1>0, <1>5 DEF PushBack, Appending, FallsThrough
<1>6. CASE Move \/ Translate \/ CloseScreen \/ (\E o \in outcomes : Resume(o)) \/ UNCHANGED vars
  <2>1. UNCHANGED <<mailbox, posted, get>>
    BY <1>6 DEF Translate, SeeLength, Peek, PeekWhileMoving, Move, Take, TakeNothing, WorkOnAnother, Work,
                CloseScreen, Resume, vars
  <2> QED
    BY <2>1
<1> QED
  BY <1>1, <1>2, <1>3, <1>4, <1>5, <1>6 DEF Next, Get

(* A message that came stays before the others, whatever is posted.        *)
LEMMA CameStays ==
  ASSUME TypeOK, MailboxIsRest, [Next]_vars
  PROVE  /\ Past \in Int /\ Past <= Len(posted) /\ Past <= Past' /\ Past' <= Len(posted')
         /\ \A p \in 1 .. Len(posted) : posted'[p] = posted[p]
         /\ \A m : Came(m) => Came(m)'
         /\ \A m, n : Came(m) /\ Came(n) /\ NotAfter(m, n) => NotAfter(m, n)'
<1>0. /\ Len(posted) \in Nat /\ Len(mailbox) \in Nat
      /\ get \in [pc : {"idle", "check", "clear", "push", "push_again"}, msg : Optional]
  BY LenProperties DEF TypeOK
<1>1. Past \in Int /\ Past <= Len(posted)
  BY <1>0 DEF Past, Given
<1>2. CASE UNCHANGED posted
  <2> DEFINE Grows == Past' \in Int /\ Past <= Past' /\ Past' <= Len(posted)
  <2>1. ASSUME GetMessage
        PROVE  Grows
    <3>1. Len(mailbox') = Len(mailbox) - 1
      BY <2>1, HeadTailProperties DEF GetMessage, TypeOK
    <3> QED
      BY <1>0, <1>2, <2>1, <3>1 DEF Past, Given, GetMessage
  <2>2. ASSUME ~GetMessage
        PROVE  Grows
    <3>1. UNCHANGED mailbox
      BY <1>2, <2>2, PostAppends
      DEF Next, vars, Get, Translate, CheckLength, ClearQueue, PushBack, Appending, SeeLength, Peek, PeekWhileMoving, Move, Take,
          TakeNothing, WorkOnAnother, Work, Resume, CloseScreen, queueVars
    <3>2. get.pc \in {"idle", "push_again"} => get'.pc \in {"idle", "push_again"}
      BY <1>0, <1>2, <2>2, PostAppends
      DEF Next, vars, Get, Translate, CheckLength, ClearQueue, PushBack, Appending, SeeLength, Peek, PeekWhileMoving, Move, Take,
          TakeNothing, WorkOnAnother, Work, Resume, CloseScreen, queueVars
    <3> QED
      BY <1>0, <1>2, <3>1, <3>2 DEF Past, Given
  <2>3. Grows
    BY <2>1, <2>2
  <2>4. \A m : Came(m) => Came(m)'
    BY <1>1, <1>2, <2>3 DEF Came
  <2> QED
    BY <1>1, <1>2, <2>3, <2>4 DEF NotAfter
<1>3. ASSUME NEW m \in Messages, Post(m)
      PROVE  /\ Past' = Past /\ Past' <= Len(posted')
             /\ \A p \in 1 .. Len(posted) : posted'[p] = posted[p]
             /\ \A k : Came(k) => Came(k)'
             /\ \A k, n : Came(k) /\ Came(n) /\ NotAfter(k, n) => NotAfter(k, n)'
  <2>1. Past' = Past /\ Past' <= Len(posted')
    BY <1>0, <1>1, <1>3, PostAppends DEF Post, Past, Given
  <2>2. \A p \in 1 .. Len(posted) : posted'[p] = posted[p] /\ posted[p] # m
    BY <1>3, PostAppends
  <2>3. ASSUME NEW k, Came(k)
        PROVE  /\ Came(k)' /\ k # m
               /\ \A p \in 1 .. Len(posted') : posted'[p] = k => p \in 1 .. Len(posted)
    <3>1. PICK p \in 1 .. Past : posted[p] = k
      BY <2>3 DEF Came
    <3>2. p \in 1 .. Len(posted)
      BY <1>0, <1>1
    <3>3. posted'[p] = k /\ k # m
      BY <2>2, <3>1, <3>2
    <3>4. posted'[Len(posted')] = m /\ Len(posted') = Len(posted) + 1
      BY <1>3, PostAppends
    <3> QED
      BY <1>0, <2>1, <3>3, <3>4 DEF Came
  <2> QED
    BY <2>1, <2>2, <2>3 DEF NotAfter
<1>4. UNCHANGED posted \/ \E m \in Messages : Post(m)
  BY DEF Next, vars, Get, Translate, GetMessage, CheckLength, ClearQueue, PushBack, Appending, SeeLength,
         Peek, PeekWhileMoving, Move, Take, TakeNothing, WorkOnAnother, Work, Resume, CloseScreen
<1> QED
  BY <1>1, <1>2, <1>3, <1>4

(* The steps that leave the two sequences alone.                           *)
LEMMA SequencesStay ==
  ASSUME [Next]_vars, ~PushBack, ~Take, ~ClearQueue, ~CloseScreen
  PROVE  UNCHANGED <<My_Receive_msg, dealt, cleared>>
BY DEF Next, vars, Get, Translate, Post, GetMessage, CheckLength, SeeLength, Peek, PeekWhileMoving, Move,
       TakeNothing, WorkOnAnother, Work, Resume, queueVars

LEMMA OrderStep ==
  TypeOK /\ MailboxIsRest /\ PostedOnce /\ InOrder /\ [Next]_vars => InOrder'
<1> SUFFICES ASSUME TypeOK, MailboxIsRest, PostedOnce, InOrder, [Next]_vars
             PROVE  InOrder'
  OBVIOUS
<1>0. /\ Len(posted) \in Nat /\ Len(dealt) \in Nat
      /\ dealt \in Seq(Messages) /\ My_Receive_msg \in Seq(Messages)
  BY LenProperties DEF TypeOK
<1>1. CASE UNCHANGED <<My_Receive_msg, dealt>>
  BY <1>1, CameStays DEF InOrder
<1>2. CASE ClearQueue \/ CloseScreen
  <2>1. My_Receive_msg' = <<>> /\ dealt' = dealt /\ Len(<<>>) = 0
    BY <1>2, EmptySeq DEF ClearQueue, CloseScreen
  <2> QED
    BY <2>1, CameStays DEF InOrder
<1>3. CASE PushBack
  <2>0. PICK m \in Messages : m = get.msg[1]
    BY <1>3, QueueAfterPush
  <2>1. /\ Len(My_Receive_msg) \in Nat /\ Len(My_Receive_msg') = Len(My_Receive_msg) + 1
        /\ \A i \in 1 .. Len(My_Receive_msg) : My_Receive_msg'[i] = My_Receive_msg[i]
        /\ My_Receive_msg'[Len(My_Receive_msg')] = m
    BY <1>3, <2>0, QueueAfterPush
  <2>2. dealt' = dealt /\ posted' = posted /\ mailbox' = mailbox
        /\ get.pc \in {"push", "push_again"} /\ get'.pc \in {"idle", "push_again"}
    BY <1>3 DEF PushBack, Appending, TypeOK
  <2>3. Given \in 1 .. Len(posted) /\ m = posted[Given] /\ Past' = Given /\ Past <= Given
    <3>1. Given' = Given
      BY <2>2 DEF Given
    <3>2. Len(mailbox) \in Nat
      BY LenProperties DEF TypeOK
    <3> QED
      BY <1>0, <2>0, <2>2, <3>1, <3>2 DEF MailboxIsRest, Past, Given
  <2>4. Came(m)'
    BY <2>2, <2>3 DEF Came
  <2>5. ASSUME NEW k, Came(k)
        PROVE  NotAfter(k, m)'
    <3>1. PICK r \in 1 .. Past : posted[r] = k
      BY <2>5 DEF Came
    <3>2. r \in 1 .. Len(posted) /\ r <= Given
      BY <2>3, CameStays, <1>0
    <3>3. NotAfter(k, m)
      BY <2>3, <3>1, <3>2 DEF NotAfter, PostedOnce
    <3> QED
      BY <2>2, <3>3 DEF NotAfter
  <2> DEFINE CameNow(k) == \E p \in 1 .. Past' : posted'[p] = k
             NotAfterNow(k, n) ==
                 \A p, q \in 1 .. Len(posted') : posted'[p] = k /\ posted'[q] = n => p <= q
  <2>a. /\ CameNow(m) /\ \A k : Came(k) => CameNow(k) /\ NotAfterNow(k, m)
        /\ \A k, n : Came(k) /\ Came(n) /\ NotAfter(k, n) => NotAfterNow(k, n)
    BY <2>4, <2>5, CameStays DEF Came, NotAfter
  <2> HIDE DEF CameNow, NotAfterNow
  <2>6. \A i \in 1 .. Len(My_Receive_msg') : CameNow(My_Receive_msg'[i])
    <3> SUFFICES ASSUME NEW i \in 1 .. Len(My_Receive_msg')
                 PROVE  CameNow(My_Receive_msg'[i])
      OBVIOUS
    <3>1. i \in 1 .. Len(My_Receive_msg) \/ i = Len(My_Receive_msg')
      BY <2>1
    <3> QED
      BY <2>1, <2>a, <3>1 DEF InOrder
  <2>7. \A i, j \in 1 .. Len(My_Receive_msg') :
           i < j => NotAfterNow(My_Receive_msg'[i], My_Receive_msg'[j])
    <3> SUFFICES ASSUME NEW i \in 1 .. Len(My_Receive_msg'), NEW j \in 1 .. Len(My_Receive_msg'),
                        i < j
                 PROVE  NotAfterNow(My_Receive_msg'[i], My_Receive_msg'[j])
      OBVIOUS
    <3>1. i \in 1 .. Len(My_Receive_msg)
          /\ (j \in 1 .. Len(My_Receive_msg) \/ j = Len(My_Receive_msg'))
      BY <2>1
    <3> QED
      BY <2>1, <2>a, <3>1 DEF InOrder
  <2>8. \A i \in 1 .. Len(dealt), j \in 1 .. Len(My_Receive_msg') :
           NotAfterNow(dealt[i], My_Receive_msg'[j])
    <3> SUFFICES ASSUME NEW i \in 1 .. Len(dealt), NEW j \in 1 .. Len(My_Receive_msg')
                 PROVE  NotAfterNow(dealt[i], My_Receive_msg'[j])
      OBVIOUS
    <3>1. j \in 1 .. Len(My_Receive_msg) \/ j = Len(My_Receive_msg')
      BY <2>1
    <3> QED
      BY <2>1, <2>a, <3>1 DEF InOrder
  <2> QED
    <3>1. /\ \A i \in 1 .. Len(dealt) : CameNow(dealt[i])
          /\ \A i, j \in 1 .. Len(dealt) : i < j => NotAfterNow(dealt[i], dealt[j])
      BY <2>a DEF InOrder
    <3> QED
      BY <2>2, <2>6, <2>7, <2>8, <3>1 DEF InOrder, Came, NotAfter, CameNow, NotAfterNow
<1>4. CASE Take
  <2>1. /\ Len(My_Receive_msg) \in Nat /\ 1 \in 1 .. Len(My_Receive_msg)
        /\ dealt' = Append(dealt, My_Receive_msg[1]) /\ My_Receive_msg[1] \in Messages
    BY <1>4, QueueAfterTake, EmptySeq
  <2>2. PICK from : IsRestOf(My_Receive_msg', My_Receive_msg, from)
    BY <1>4, QueueAfterTake
  <2>3. /\ Len(dealt') = Len(dealt) + 1 /\ dealt'[Len(dealt')] = My_Receive_msg[1]
        /\ \A i \in 1 .. Len(dealt) : dealt'[i] = dealt[i]
    BY <1>0, <2>1, AppendProperties
  <2>4. /\ \A m : Came(m)' <=> Came(m)
        /\ \A m, n : NotAfter(m, n)' <=> NotAfter(m, n)
    BY <1>4 DEF Take, Came, NotAfter, Past, Given
  <2>5. ASSUME NEW k \in 1 .. Len(My_Receive_msg')
        PROVE  /\ from[k] \in 1 .. Len(My_Receive_msg) /\ 1 < from[k]
               /\ My_Receive_msg'[k] = My_Receive_msg[from[k]]
    <3>1. from[k] \in 2 .. Len(My_Receive_msg) /\ My_Receive_msg'[k] = My_Receive_msg[from[k]]
      BY <2>2 DEF IsRestOf
    <3> QED
      BY <2>1, <3>1
  <2>6. /\ \A k \in 1 .. Len(My_Receive_msg') : Came(My_Receive_msg'[k])
        /\ \A i \in 1 .. Len(dealt') : Came(dealt'[i])
    <3>1. ASSUME NEW k \in 1 .. Len(My_Receive_msg')
          PROVE  Came(My_Receive_msg'[k])
      <4>1. Came(My_Receive_msg[from[k]])
        BY <2>5 DEF InOrder
      <4> QED
        BY <2>5, <4>1
    <3>2. ASSUME NEW i \in 1 .. Len(dealt')
          PROVE  Came(dealt'[i])
      <4>1. i \in 1 .. Len(dealt) \/ i = Len(dealt')
        BY <1>0, <2>3
      <4>2. CASE i \in 1 .. Len(dealt)
        BY <2>3, <4>2 DEF InOrder
      <4>3. CASE i = Len(dealt')
        BY <2>1, <2>3, <4>3 DEF InOrder
      <4> QED
        BY <4>1, <4>2, <4>3
    <3> QED
      BY <3>1, <3>2
  <2>7. \A k, l \in 1 .. Len(My_Receive_msg') :
           k < l => NotAfter(My_Receive_msg'[k], My_Receive_msg'[l])
    BY <2>2, <2>5 DEF InOrder, IsRestOf
  <2>8. \A i, j \in 1 .. Len(dealt') : i < j => NotAfter(dealt'[i], dealt'[j])
    <3> SUFFICES ASSUME NEW i \in 1 .. Len(dealt'), NEW j \in 1 .. Len(dealt'), i < j
                 PROVE  NotAfter(dealt'[i], dealt'[j])
      OBVIOUS
    <3>1. i \in 1 .. Len(dealt) /\ (j \in 1 .. Len(dealt) \/ j = Len(dealt'))
      BY <1>0, <2>3
    <3> QED
      BY <2>1, <2>3, <3>1 DEF InOrder
  <2>9. \A i \in 1 .. Len(dealt'), k \in 1 .. Len(My_Receive_msg') :
           NotAfter(dealt'[i], My_Receive_msg'[k])
    <3> SUFFICES ASSUME NEW i \in 1 .. Len(dealt'), NEW k \in 1 .. Len(My_Receive_msg')
                 PROVE  NotAfter(dealt'[i], My_Receive_msg'[k])
      OBVIOUS
    <3>1. CASE i \in 1 .. Len(dealt)
      BY <2>3, <2>5, <3>1 DEF InOrder
    <3>2. CASE i = Len(dealt')
      BY <2>1, <2>3, <2>5, <3>2 DEF InOrder
    <3> QED
      BY <1>0, <2>3, <3>1, <3>2
  <2> QED
    BY <2>4, <2>6, <2>7, <2>8, <2>9 DEF InOrder
<1> QED
  BY <1>1, <1>2, <1>3, <1>4, SequencesStay

LEMMA CopiesStep ==
  TypeOK /\ MailboxIsRest /\ PostedOnce /\ InOrder /\ CopiesBounded /\ [Next]_vars
    => CopiesBounded'
<1> SUFFICES ASSUME TypeOK, MailboxIsRest, PostedOnce, InOrder, CopiesBounded, [Next]_vars,
                    NEW m \in Messages
             PROVE  (Count(dealt, m) + Count(My_Receive_msg, m) + Expected(m) <= Allowed(m))'
  BY DEF CopiesBounded
<1>0. /\ dealt \in Seq(Messages) /\ My_Receive_msg \in Seq(Messages) /\ TypeOK'
      /\ Count(dealt, m) \in Nat /\ Count(My_Receive_msg, m) \in Nat
      /\ Expected(m) \in {0, 1} /\ Allowed(m) \in {1, 2} /\ Allowed(m)' = Allowed(m)
      /\ Count(dealt, m) + Count(My_Receive_msg, m) + Expected(m) <= Allowed(m)
  BY CopiesAreFinite, TypeStep DEF TypeOK, Expected, Allowed, CopiesBounded
<1>1. CASE UNCHANGED <<My_Receive_msg, dealt>> /\ ~PushBack
  <2>1. Count(dealt, m)' = Count(dealt, m) /\ Count(My_Receive_msg, m)' = Count(My_Receive_msg, m)
    BY <1>1 DEF Count, Copies
  <2>2. get'.pc = "push_again" => get' = get
    BY <1>0, <1>1 DEF TypeOK, Next, vars, Get, Translate, Post, GetMessage, CheckLength, ClearQueue,
          SeeLength, Peek, PeekWhileMoving, Move, Take, TakeNothing, WorkOnAnother, Work, Resume, CloseScreen,
          queueVars, outcomeVars
  <2>3. Expected(m)' \in {0, Expected(m)}
    BY <2>2 DEF Expected
  <2> QED
    BY <1>0, <2>1, <2>3
<1>2. CASE ClearQueue \/ CloseScreen
  <2>1. Count(My_Receive_msg, m)' = 0
    <3>1. My_Receive_msg' = <<>> /\ Copies(<<>>, m) = {}
      BY <1>2, EmptySeq DEF ClearQueue, CloseScreen, Copies
    <3> QED
      BY <3>1, FS_EmptySet DEF Count
  <2>2. Count(dealt, m)' = Count(dealt, m)
    BY <1>2 DEF ClearQueue, CloseScreen
  <2>3. Expected(m)' \in {0, Expected(m)}
    BY <1>2 DEF ClearQueue, CloseScreen, Expected
  <2> QED
    BY <1>0, <2>1, <2>2, <2>3
<1>3. CASE PushBack
  <2>1. /\ My_Receive_msg' = Append(My_Receive_msg, get.msg[1]) /\ get.msg[1] \in Messages
        /\ dealt' = dealt
    BY <1>3, QueueAfterPush DEF PushBack, Appending
  <2>2. Count(dealt, m)' = Count(dealt, m)
    BY <2>1
  <2>3. Count(My_Receive_msg', m) = Count(My_Receive_msg, m) + IF get.msg[1] = m THEN 1 ELSE 0
    BY <1>0, <2>1, CountAppend
  <2>4. CASE get.msg[1] # m
    <3>1. Expected(m)' = 0
      BY <1>3, <2>4 DEF PushBack, Appending, Expected, TypeOK
    <3> QED
      BY <1>0, <2>2, <2>3, <2>4, <3>1
  <2>5. CASE get.msg[1] = m /\ get.pc = "push"
    <3>1. \A p \in 1 .. Past : posted[p] # m
      <4>1. Past = Given - 1 /\ Given > 0 /\ m = posted[Given] /\ Given \in Nat
            /\ Given <= Len(posted) /\ Len(posted) \in Nat
        <5>1. Past = Given - 1 /\ Given > 0 /\ m = posted[Given] /\ Given \in Nat
          BY <2>5 DEF Past, MailboxIsRest
        <5>2. Len(posted) \in Nat /\ Len(mailbox) \in Nat
          BY LenProperties DEF TypeOK
        <5>3. Given <= Len(posted)
          BY <5>2 DEF Given
        <5> QED
          BY <5>1, <5>2, <5>3
      <4> HIDE DEF Given, Past
      <4> QED
        BY <4>1 DEF PostedOnce
    <3>2. Count(dealt, m) = 0 /\ Count(My_Receive_msg, m) = 0
      <4>1. ~Came(m)
        BY <3>1 DEF Came
      <4>2. /\ \A i \in 1 .. Len(dealt) : dealt[i] # m
            /\ \A i \in 1 .. Len(My_Receive_msg) : My_Receive_msg[i] # m
        BY <4>1 DEF InOrder
      <4> QED
        BY <1>0, <4>2, CountAbsent
    <3>3. Expected(m)' = 1 => m \in WriteOneLists
      BY <1>3, <2>5 DEF PushBack, Appending, Expected, FallsThrough
    <3>4. Expected(m)' \in {0, 1}
      BY DEF Expected
    <3> QED
      BY <1>0, <2>2, <2>3, <2>5, <3>2, <3>3, <3>4 DEF Allowed
  <2>6. CASE get.msg[1] = m /\ get.pc = "push_again"
    <3>1. Expected(m) = 1
      BY <2>6 DEF Expected
    <3>2. Expected(m)' = 0
      BY <1>3, <2>6 DEF PushBack, Appending, Expected
    <3> QED
      BY <1>0, <2>2, <2>3, <2>6, <3>1, <3>2
  <2> QED
    BY <1>3, <2>4, <2>5, <2>6 DEF PushBack, Appending
<1>4. CASE Take
  <2>1. /\ My_Receive_msg # <<>> /\ My_Receive_msg' \in Seq(Messages)
        /\ dealt' = Append(dealt, My_Receive_msg[1]) /\ My_Receive_msg[1] \in Messages
        /\ Head(My_Receive_msg) = My_Receive_msg[1]
    BY <1>4, QueueAfterTake
  <2>2. PICK from : IsRestOf(My_Receive_msg', My_Receive_msg, from)
    BY <1>4, QueueAfterTake
  <2>3. Count(My_Receive_msg', m)
          <= Count(My_Receive_msg, m) - IF My_Receive_msg[1] = m THEN 1 ELSE 0
    BY <1>0, <2>1, <2>2, CountOfRest
  <2>4. Count(dealt', m) = Count(dealt, m) + IF My_Receive_msg[1] = m THEN 1 ELSE 0
    BY <1>0, <2>1, CountAppend
  <2>5. Expected(m)' = Expected(m)
    BY <1>4 DEF Take, Expected
  <2>6. Count(My_Receive_msg', m) \in Nat /\ Count(dealt', m) \in Nat
    BY <1>0, CopiesAreFinite DEF TypeOK
  <2> QED
    BY <1>0, <2>3, <2>4, <2>5, <2>6
<1> QED
  BY <1>1, <1>2, <1>3, <1>4, SequencesStay

LEMMA MissingStep ==
  TypeOK /\ MailboxIsRest /\ NoneMissing /\ [Next]_vars => NoneMissing'
<1> SUFFICES ASSUME TypeOK, MailboxIsRest, NoneMissing, [Next]_vars, ~cleared', NEW p \in 1 .. Past'
             PROVE  (\/ \E i \in 1 .. Len(My_Receive_msg) : My_Receive_msg[i] = posted[p]
                     \/ \E i \in 1 .. Len(dealt) : dealt[i] = posted[p])'
  BY DEF NoneMissing
<1>0. /\ Len(posted) \in Nat /\ dealt \in Seq(Messages) /\ Len(dealt) \in Nat
      /\ Past \in Int /\ Past' \in Int /\ Past <= Len(posted) /\ Len(mailbox) \in Nat
      /\ \A q \in 1 .. Len(posted) : posted'[q] = posted[q]
  <2>1. TypeOK'
    BY TypeStep
  <2>2. /\ Len(posted) \in Nat /\ Len(posted') \in Nat /\ Len(dealt) \in Nat
        /\ Len(mailbox) \in Nat /\ Len(mailbox') \in Nat
    BY <2>1, LenProperties DEF TypeOK
  <2>3. Past' \in Int
    BY <2>2 DEF Past, Given
  <2> QED
    BY <2>2, <2>3, CameStays DEF TypeOK
<1>1. CASE UNCHANGED <<My_Receive_msg, dealt>> /\ ~PushBack /\ ~ClearQueue /\ ~CloseScreen /\ ~Take
  <2>1. Past' = Past
    <3>1. CASE GetMessage
      <4>1. Len(mailbox') = Len(mailbox) - 1
        BY <3>1, HeadTailProperties DEF GetMessage, TypeOK
      <4> QED
        BY <1>0, <3>1, <4>1 DEF Past, Given, GetMessage
    <3>2. ASSUME NEW m \in Messages, Post(m)
          PROVE  Past' = Past
      BY <1>0, <3>2, PostAppends DEF Post, Past, Given
    <3>3. CASE CheckLength
      BY <3>3 DEF CheckLength, Past, Given, TypeOK, queueVars
    <3>4. CASE UNCHANGED <<get, posted, mailbox>>
      BY <3>4 DEF Past, Given
    <3> QED
      BY <1>1, <3>1, <3>2, <3>3, <3>4 DEF Next, vars, Get, Translate, SeeLength, Peek, PeekWhileMoving, Move,
          TakeNothing, WorkOnAnother, Work, Resume, queueVars
  <2>2. ~cleared /\ posted'[p] = posted[p]
    BY <1>0, <1>1, <2>1, SequencesStay
  <2> QED
    BY <1>1, <2>1, <2>2 DEF NoneMissing
<1>2. CASE ClearQueue \/ CloseScreen
  BY <1>2 DEF ClearQueue, CloseScreen
<1>3. CASE PushBack
  <2>1. /\ Len(My_Receive_msg) \in Nat /\ Len(My_Receive_msg') = Len(My_Receive_msg) + 1
        /\ \A i \in 1 .. Len(My_Receive_msg) : My_Receive_msg'[i] = My_Receive_msg[i]
        /\ My_Receive_msg'[Len(My_Receive_msg')] = get.msg[1]
    BY <1>3, QueueAfterPush
  <2>2. dealt' = dealt /\ posted' = posted /\ mailbox' = mailbox /\ ~cleared
        /\ get.pc \in {"push", "push_again"} /\ get'.pc \in {"idle", "push_again"}
    BY <1>3 DEF PushBack, Appending, TypeOK
  <2>3. get.msg[1] = posted[Given] /\ Past' = Given /\ Given - 1 <= Past
    <3>1. Given' = Given /\ Given \in Nat
      BY <2>2 DEF Given, MailboxIsRest
    <3> HIDE DEF Given
    <3> QED
      BY <2>2, <3>1 DEF MailboxIsRest, Past
  <2>4. CASE p = Given
    <3>1. Len(My_Receive_msg') \in 1 .. Len(My_Receive_msg')
      BY <2>1
    <3> QED
      BY <2>1, <2>2, <2>3, <2>4, <3>1
  <2>5. CASE p # Given
    <3>1. p \in 1 .. Past
      <4>1. Given \in Nat
        BY DEF MailboxIsRest
      <4> HIDE DEF Given
      <4> QED
        BY <1>0, <2>3, <2>5, <4>1
    <3>2. \A i \in 1 .. Len(My_Receive_msg) : i \in 1 .. Len(My_Receive_msg')
      BY <2>1
    <3> QED
      BY <2>1, <2>2, <3>1, <3>2 DEF NoneMissing
  <2> QED
    BY <2>4, <2>5
<1>4. CASE Take
  <2>1. /\ My_Receive_msg[1] = Head(My_Receive_msg) /\ My_Receive_msg[1] \in Messages
        /\ dealt' = Append(dealt, My_Receive_msg[1])
    BY <1>4, QueueAfterTake
  <2>2. PICK from : IsRestOf(My_Receive_msg', My_Receive_msg, from)
    BY <1>4, QueueAfterTake
  <2>3. /\ Len(dealt') = Len(dealt) + 1 /\ dealt'[Len(dealt')] = My_Receive_msg[1]
        /\ \A i \in 1 .. Len(dealt) : dealt'[i] = dealt[i]
    BY <1>0, <2>1, AppendProperties
  <2>4. Past' = Past /\ posted' = posted /\ ~cleared
    BY <1>4 DEF Take, Past, Given
  <2>5. ASSUME NEW i \in 1 .. Len(My_Receive_msg), My_Receive_msg[i] = posted[p]
        PROVE  \/ \E k \in 1 .. Len(My_Receive_msg') : My_Receive_msg'[k] = posted[p]
               \/ \E k \in 1 .. Len(dealt') : dealt'[k] = posted[p]
    <3>1. CASE My_Receive_msg[i] = My_Receive_msg[1]
      BY <1>0, <2>3, <2>5, <3>1
    <3>2. CASE My_Receive_msg[i] # My_Receive_msg[1]
      BY <2>1, <2>2, <2>5, <3>2 DEF IsRestOf
    <3> QED
      BY <3>1, <3>2
  <2>6. ASSUME NEW i \in 1 .. Len(dealt), dealt[i] = posted[p]
        PROVE  \E k \in 1 .. Len(dealt') : dealt'[k] = posted[p]
    BY <1>0, <2>3, <2>6
  <2> QED
    BY <2>4, <2>5, <2>6 DEF NoneMissing
<1> QED
  BY <1>1, <1>2, <1>3, <1>4, SequencesStay
-----------------------------------------------------------------------------
(* The invariant and what follows from it. *)

LEMMA Invariance == Spec => []IInv
<1>1. Init => IInv
  <2> SUFFICES ASSUME Init
               PROVE  IInv
    OBVIOUS
  <2>1. Len(<<>>) = 0 /\ <<>> \in Seq(Messages)
    BY EmptySeq
  <2>2. /\ LengthHolds /\ FrontHolds /\ MailboxIsRest /\ PostedOnce /\ InOrder /\ NoneMissing
    BY <2>1, LimitAssumption DEF Init, Waiting, LengthHolds, FrontHolds, MailboxIsRest, PostedOnce,
          InOrder, NoneMissing, Past, Given
  <2>3. \A m \in Messages : Count(<<>>, m) = 0
    BY FS_EmptySet DEF Count, Copies
  <2>4. CopiesBounded
    BY <2>3 DEF Init, CopiesBounded, Expected, Allowed
  <2> QED
    BY <2>2, <2>4, TypeInit DEF IInv
<1>2. IInv /\ [Next]_vars => IInv'
  BY TypeStep, LengthStep, FrontStep, PlacesStep, OrderStep, CopiesStep, MissingStep DEF IInv
<1> QED
  BY <1>1, <1>2, PTL DEF Spec

(* The queue never gets longer than the limit and the two copies that may  *)
(* be on their way to it when its length is read.                          *)
THEOREM QueueIsBounded == Spec => []QueueBounded
<1>1. IInv => QueueBounded
  BY DEF IInv, LengthHolds, QueueBounded
<1> QED
  BY <1>1, Invariance, PTL

(* Commands are carried out in the order in which they were posted.        *)
THEOREM DealsInOrder == Spec => []DealtInOrder
<1>1. IInv => DealtInOrder
  <2> SUFFICES ASSUME IInv, NEW i \in DOMAIN dealt, NEW j \in DOMAIN dealt, i < j
               PROVE  Position(posted, dealt[i]) <= Position(posted, dealt[j])
    BY DEF DealtInOrder
  <2>1. /\ DOMAIN dealt = 1 .. Len(dealt) /\ DOMAIN posted = 1 .. Len(posted)
        /\ Len(posted) \in Nat /\ Len(mailbox) \in Nat
    BY LenProperties DEF IInv, TypeOK
  <2>2. \A k \in 1 .. Len(dealt) : Position(posted, dealt[k]) \in DOMAIN posted
                                   /\ posted[Position(posted, dealt[k])] = dealt[k]
    <3> SUFFICES ASSUME NEW k \in 1 .. Len(dealt)
                 PROVE  \E q \in DOMAIN posted : posted[q] = dealt[k]
      BY DEF Position
    <3>1. PICK q \in 1 .. Past : posted[q] = dealt[k]
      BY DEF IInv, InOrder, Came
    <3>2. q \in 1 .. Len(posted)
      BY <2>1 DEF Past, Given
    <3> QED
      BY <2>1, <3>1, <3>2
  <2>3. NotAfter(dealt[i], dealt[j])
    BY <2>1 DEF IInv, InOrder
  <2> QED
    BY <2>1, <2>2, <2>3 DEF NotAfter
<1> QED
  BY <1>1, Invariance, PTL

(* A command is carried out once at most, a MY_WRITE_ONE_LIST twice.       *)
THEOREM DealsAtMostOnce == Spec => []DealtAtMostOnce
<1>1. IInv => DealtAtMostOnce
  <2> SUFFICES ASSUME IInv, NEW m \in Messages
               PROVE  Count(dealt, m) <= IF m \in WriteOneLists THEN 2 ELSE 1
    BY DEF DealtAtMostOnce, Count, Copies
  <2>1. Count(dealt, m) \in Nat /\ Count(My_Receive_msg, m) \in Nat /\ Expected(m) \in {0, 1}
    BY CopiesAreFinite DEF IInv, TypeOK, Expected
  <2> QED
    BY <2>1 DEF IInv, CopiesBounded, Allowed
<1> QED
  BY <1>1, Invariance, PTL

LEMMA ConcatContains ==
  ASSUME NEW S, NEW s \in Seq(S), NEW t \in Seq(S), NEW m, Contains(s, m) \/ Contains(t, m)
  PROVE  s \o t \in Seq(S) /\ Contains(s \o t, m)
<1>1. /\ s \o t \in Seq(S) /\ Len(s \o t) = Len(s) + Len(t)
      /\ \A i \in 1 .. Len(s) + Len(t) : (s \o t)[i] = IF i <= Len(s) THEN s[i] ELSE t[i - Len(s)]
  BY ConcatProperties
<1>2. Len(s) \in Nat /\ Len(t) \in Nat
  BY LenProperties
<1>3. ASSUME NEW i \in 1 .. Len(s), s[i] = m
      PROVE  \E k \in 1 .. Len(s \o t) : (s \o t)[k] = m
  BY <1>1, <1>2, <1>3
<1>4. ASSUME NEW i \in 1 .. Len(t), t[i] = m
      PROVE  \E k \in 1 .. Len(s \o t) : (s \o t)[k] = m
  <2>1. Len(s) + i \in 1 .. Len(s \o t) /\ (Len(s) + i) - Len(s) = i /\ ~(Len(s) + i <= Len(s))
    BY <1>1, <1>2
  <2> QED
    BY <1>1, <1>4, <2>1
<1> QED
  BY <1>1, <1>3, <1>4 DEF Contains

(* Until the queue is cleared, what was posted is somewhere.               *)
THEOREM LosesNothing == Spec => []NothingLost
<1>1. IInv => NothingLost
  <2> SUFFICES ASSUME IInv, ~cleared, NEW m \in Messages, Contains(posted, m)
               PROVE  Contains(mailbox \o get.msg \o My_Receive_msg \o dealt, m)
    BY DEF NothingLost
  <2>1. PICK p \in 1 .. Len(posted) : posted[p] = m
    BY ContainsPosted DEF IInv
  <2>2. /\ mailbox \in Seq(Messages) /\ My_Receive_msg \in Seq(Messages) /\ dealt \in Seq(Messages)
        /\ get.msg \in Seq(Messages) /\ Len(mailbox) \in Nat /\ Len(posted) \in Nat
    <3>1. \A k \in Messages : <<k>> \in Seq(Messages)
      OBVIOUS
    <3>2. get.msg \in Optional
      BY DEF IInv, TypeOK
    <3>3. get.msg \in Seq(Messages)
      BY <3>1, <3>2, EmptySeq DEF Optional
    <3> QED
      BY <3>3, LenProperties DEF IInv, TypeOK
  <2>3. \/ Contains(mailbox, m) \/ Contains(get.msg, m)
        \/ Contains(My_Receive_msg, m) \/ Contains(dealt, m)
    <3>1. CASE p > Given
      <4>1. p - Given \in 1 .. Len(mailbox) /\ Given + (p - Given) = p
        BY <2>2, <3>1 DEF Given
      <4> QED
        BY <2>1, <4>1 DEF IInv, MailboxIsRest, Contains
    <3>2. CASE p \in 1 .. Past
      BY <2>1, <3>2 DEF IInv, NoneMissing, Contains
    <3>3. CASE p = Given /\ get.pc # "idle"
      <4>1. get.msg = <<m>>
        BY <2>1, <3>3, InHandIsMessage DEF IInv, MailboxIsRest
      <4> QED
        BY <4>1 DEF Contains
    <3> QED
      BY <2>2, <3>1, <3>2, <3>3 DEF Past, Given
  <2>4. mailbox \o get.msg \in Seq(Messages) /\ mailbox \o get.msg \o My_Receive_msg \in Seq(Messages)
    BY <2>2, ConcatProperties
  <2> QED
    BY <2>2, <2>3, <2>4, ConcatContains
<1> QED
  BY <1>1, Invariance, PTL

(* What the second thread saw of the queue holds until it is carried out,  *)
(* but for a clear before its lock and a look at elements that are moved.  *)
THEOREM LooksHold == Spec => []LookHolds
<1>1. IInv => LookHolds
  BY DEF IInv, FrontHolds, LookHolds
<1> QED
  BY <1>1, Invariance, PTL
=============================================================================
