----------------------------- MODULE NativeProofs ------------------------------
(***************************************************************************)
(* Proofs about the native layer: what a version of the store means, that  *)
(* the store implements the abstract one, and that neither array is ever   *)
(* written beyond its memory.                                              *)
(***************************************************************************)
EXTENDS NativeStore, NativeArrays, NumberFacts

-----------------------------------------------------------------------------
(***************************************************************************)
(* NativeStore.  For any number of threads, keys and cookies, any bound of *)
(* the version and of the queues, a version names one cookie under one key, *)
(* for ever; and the store implements the abstract one.                    *)
(***************************************************************************)

TypeOK ==
  /\ cookies_ \in [Key -> VersionedCookie \cup {Absent}]
  /\ version_ \in Version
  /\ txn \in [Client -> Transaction \cup {NoTransaction}]

\* A version that a thread has seen, the store has reached.
SeenReached ==
  seen # NothingSeen => seen.version \in Nat /\ seen.version <= version_

IInv == TypeOK /\ VersionsDistinct /\ SeenReached /\ VersionIdentifiesCookie

\* What every call may do to the cookies: a key loses its cookie, keeps it, or
\* gets one with a version of its own that the store has not reached before.
Fresh(k) ==
  /\ cookies_'[k] \in VersionedCookie
  /\ version_ < cookies_'[k].version /\ cookies_'[k].version <= version_'

Advances ==
  /\ cookies_' \in [Key -> VersionedCookie \cup {Absent}]
  /\ version_' \in Version /\ version_ <= version_'
  /\ \A k \in Key : cookies_'[k] = Absent \/ cookies_'[k] = cookies_[k] \/ Fresh(k)
  /\ \A k, l \in Key :
       k # l /\ Fresh(k) /\ Fresh(l) => cookies_'[k].version # cookies_'[l].version

\* A key without a cookie holds nothing that looks like one.
LEMMA AbsentIsNoCookie ==
  /\ Absent \notin VersionedCookie
  /\ \A k \in Key : TypeOK /\ Present(k) => cookies_[k] \in VersionedCookie
BY NativeAssumption DEF Absent, VersionedCookie, Present, TypeOK

\* Whatever advances the store keeps the invariant.
LEMMA AdvancesKeeps ==
  ASSUME IInv, Advances, txn' \in [Client -> Transaction \cup {NoTransaction}],
         seen' = seen
  PROVE  IInv'
<1>1. TypeOK'
  BY DEF TypeOK, Advances
<1>2. version_ \in Nat /\ version_' \in Nat /\ version_ <= version_'
  BY NativeAssumption DEF IInv, TypeOK, Advances, Version
<1>3. ASSUME NEW k \in Key, Present(k)'
      PROVE  /\ cookies_'[k] \in VersionedCookie
             /\ \/ Present(k) /\ cookies_'[k] = cookies_[k] /\ cookies_[k].version \in 1..version_
                \/ Fresh(k)
  <2>1. cookies_'[k] # Absent /\ cookies_'[k] \in VersionedCookie
    BY <1>1, <1>3 DEF TypeOK, Present
  <2>2. CASE cookies_'[k] = cookies_[k]
    BY <2>1, <2>2 DEF IInv, VersionsDistinct, Present
  <2>3. CASE Fresh(k)
    BY <2>1, <2>3
  <2> QED BY <2>1, <2>2, <2>3 DEF Advances
<1>4. ASSUME NEW k \in Key, Present(k)'
      PROVE  cookies_'[k].version \in 1..version_'
  <2>1. cookies_'[k].version \in Nat
    BY <1>3, <1>4, NativeAssumption DEF VersionedCookie, Version
  <2> QED BY <1>2, <1>3, <1>4, <2>1 DEF Fresh
<1>5. ASSUME NEW k \in Key, NEW l \in Key \ {k}, Present(k)', Present(l)'
      PROVE  cookies_'[l].version # cookies_'[k].version
  <2>1. cookies_'[k].version \in Nat /\ cookies_'[l].version \in Nat
    BY <1>4, <1>5
  <2>2. CASE Fresh(k) /\ Fresh(l)
    BY <2>2 DEF Advances
  <2>3. CASE Present(k) /\ Present(l) /\ cookies_'[k] = cookies_[k] /\ cookies_'[l] = cookies_[l]
    BY <2>3 DEF IInv, VersionsDistinct
  <2>4. ASSUME NEW m \in Key, NEW n \in Key, Fresh(m), cookies_'[m].version \in Nat,
               cookies_'[n] = cookies_[n], cookies_[n].version \in 1..version_
        PROVE  cookies_'[m].version # cookies_'[n].version
    BY <1>2, <2>4 DEF Fresh
  <2> QED BY <1>3, <1>5, <2>1, <2>2, <2>3, <2>4
<1>6. SeenReached'
  BY <1>2 DEF IInv, SeenReached
<1>7. ASSUME NEW k \in Key, seen # NothingSeen, Present(k)',
             cookies_'[k].version = seen.version
      PROVE  k = seen.key /\ cookies_'[k].cookie = seen.cookie
  <2>1. ~Fresh(k)
    <3>1. seen.version \in Nat /\ seen.version <= version_
      BY <1>7 DEF IInv, SeenReached
    <3> QED BY <1>2, <1>7, <3>1 DEF Fresh
  <2>2. Present(k) /\ cookies_'[k] = cookies_[k]
    BY <1>3, <1>7, <2>1
  <2> QED BY <1>7, <2>2 DEF IInv, VersionIdentifiesCookie
<1>8. VersionIdentifiesCookie'
  BY <1>7 DEF VersionIdentifiesCookie
<1> QED BY <1>1, <1>4, <1>5, <1>6, <1>8 DEF IInv, VersionsDistinct

(***************************************************************************)
(* A commit gives the i-th operation of the queue the version that counts  *)
(* the operations up to it that change something.                          *)
(***************************************************************************)
Counted(ops, m) == Cardinality(Effective(ops) \cap 1..m)

\* Later operations that change something get larger versions.
LEMMA CountsGrow ==
  ASSUME NEW ops, NEW m \in Nat, NEW n \in Nat, m <= n
  PROVE  /\ Counted(ops, m) \in Nat /\ Counted(ops, n) \in Nat
         /\ Counted(ops, m) <= Counted(ops, n)
         /\ (\E i \in Effective(ops) : i \in 1..n /\ m < i) =>
              Counted(ops, m) < Counted(ops, n)
<1> DEFINE first == Effective(ops) \cap 1..m
           more  == Effective(ops) \cap 1..n
<1>1. IsFiniteSet(first) /\ IsFiniteSet(more)
  <2>1. IsFiniteSet(1..m) /\ IsFiniteSet(1..n)
    BY FS_Interval
  <2> QED BY <2>1, FS_Intersection
<1>2. Cardinality(first) \in Nat /\ Cardinality(more) \in Nat
  BY <1>1, FS_CardinalityType
<1>3. first \in SUBSET more
  OBVIOUS
<1>4. Cardinality(first) <= Cardinality(more)
  BY <1>1, <1>3, FS_Subset
<1>5. ASSUME NEW i \in Effective(ops), i \in 1..n, m < i
      PROVE  Cardinality(first) # Cardinality(more)
  <2>1. i \in more /\ i \notin first
    BY <1>5
  <2> HIDE DEF first, more
  <2> QED BY <1>1, <1>3, <2>1, FS_Subset
<1> HIDE DEF first, more
<1>6. Counted(ops, m) = Cardinality(first) /\ Counted(ops, n) = Cardinality(more)
  BY DEF Counted, first, more
<1> QED BY <1>2, <1>4, <1>5, <1>6

\* What AfterOperations finds under a key.
LEMMA LastOperation ==
  ASSUME NEW ops \in Seq(Operation), NEW n \in 0..Len(ops), NEW k \in Key
  PROVE  \/ AfterOperations(ops, n, k) \in {cookies_[k], Absent}
         \/ \E last \in Effective(ops) :
              /\ last \in 1..n /\ ops[last].key = k /\ ops[last].cookie \in Cookie
              /\ AfterOperations(ops, n, k) =
                   [cookie |-> ops[last].cookie, version |-> version_ + Counted(ops, last)]
<1> DEFINE touching == {i \in 1..n : ops[i].key = k}
           last == CHOOSE i \in touching : \A j \in touching : j <= i
<1>1. Len(ops) \in Nat /\ n \in Nat /\ 1..n \subseteq 1..Len(ops)
  OBVIOUS
<1>2. CASE touching = {}
  BY <1>2 DEF AfterOperations
<1>3. CASE touching # {}
  <2>1. \E i \in touching : \A j \in touching : j <= i
    <3>1. touching \subseteq 0..n
      BY <1>1
    <3> HIDE DEF touching
    <3> QED BY <1>1, <1>3, <3>1, Greatest
  <2>2. last \in touching
    <3> HIDE DEF touching
    <3> QED BY <2>1
  <2>3. last \in 1..n /\ last \in 1..Len(ops) /\ ops[last].key = k
    <3> HIDE DEF last
    <3> QED BY <1>1, <2>2
  <2>4. AfterOperations(ops, n, k) =
          IF ~IsUpsert(ops[last]) THEN Absent
          ELSE [cookie |-> ops[last].cookie, version |-> version_ + Counted(ops, last)]
    BY <1>3 DEF AfterOperations, Counted
  <2> HIDE DEF last
  <2>5. CASE IsUpsert(ops[last])
    <3>1. ops[last] \in Operation
      BY <2>3
    <3>2. ops[last].cookie \in Cookie
      BY <2>5, <3>1 DEF IsUpsert, Operation
    <3>3. last \in Effective(ops)
      BY <2>3, <2>5 DEF Effective
    <3> QED BY <2>3, <2>4, <2>5, <3>2, <3>3
  <2> QED BY <2>4, <2>5
<1> QED BY <1>2, <1>3

\* A commit, also one that is cut short, advances the store.
LEMMA CommitAdvances ==
  ASSUME IInv, NEW ops \in Seq(Operation), NEW n \in 0..Len(ops), NEW spent \in Nat,
         n <= spent, version_ + Counted(ops, spent) <= MaxVersion,
         version_' = version_ + Counted(ops, spent),
         cookies_' = [k \in Key |-> AfterOperations(ops, n, k)]
  PROVE  Advances
<1>1. n \in Nat /\ version_ \in Nat /\ MaxVersion \in Nat /\ Counted(ops, spent) \in Nat
  BY NativeAssumption, CountsGrow DEF IInv, TypeOK, Version
<1>2. version_' \in Version /\ version_ <= version_'
  BY <1>1 DEF Version
<1> DEFINE Last(k, i) ==
      /\ i \in Effective(ops) /\ i \in 1..n /\ ops[i].key = k
      /\ ops[i].cookie \in Cookie
      /\ cookies_'[k] = [cookie |-> ops[i].cookie, version |-> version_ + Counted(ops, i)]
<1>3. ASSUME NEW k \in Key
      PROVE  cookies_'[k] \in {cookies_[k], Absent} \/ \E i \in 1..n : Last(k, i)
  BY LastOperation
<1>4. ASSUME NEW k \in Key, NEW i \in 1..n, Last(k, i)
      PROVE  Fresh(k) /\ Counted(ops, i) \in Nat
  <2>1. i \in Nat /\ i <= spent /\ 0 < i /\ i \in 1..i
    BY <1>1
  <2>2. /\ Counted(ops, i) \in Nat /\ Counted(ops, i) <= Counted(ops, spent)
        /\ Counted(ops, 0) \in Nat /\ Counted(ops, 0) < Counted(ops, i)
    BY <1>4, <2>1, CountsGrow
  <2>3. version_ + Counted(ops, i) \in Version
    BY <1>1, <2>2 DEF Version
  <2> QED BY <1>1, <1>4, <2>2, <2>3 DEF Fresh, VersionedCookie
<1>5. ASSUME NEW k \in Key, NEW l \in Key, k # l, Fresh(k), Fresh(l)
      PROVE  cookies_'[k].version # cookies_'[l].version
  <2>1. ASSUME NEW m \in Key, Fresh(m) PROVE \E i \in 1..n : Last(m, i)
    <3>1. cookies_'[m] # Absent
      BY <2>1, AbsentIsNoCookie DEF Fresh
    <3>2. cookies_'[m] # cookies_[m]
      <4> SUFFICES ASSUME cookies_'[m] = cookies_[m] PROVE FALSE
        OBVIOUS
      <4>1. Present(m)
        BY <3>1 DEF Present
      <4>2. cookies_[m].version \in 1..version_
        BY <4>1 DEF IInv, VersionsDistinct
      <4> QED BY <1>1, <2>1, <4>2 DEF Fresh
    <3> QED BY <1>3, <3>1, <3>2
  <2>2. PICK i \in 1..n : Last(k, i)
    BY <1>5, <2>1
  <2>3. PICK j \in 1..n : Last(l, j)
    BY <1>5, <2>1
  <2>4. i # j /\ i \in Nat /\ j \in Nat /\ i \in 1..i /\ j \in 1..j
    BY <1>1, <1>5, <2>2, <2>3
  <2>5. Counted(ops, i) # Counted(ops, j)
    <3>1. ASSUME NEW a \in Nat, NEW b \in Nat, a < b, b \in 1..b, b \in Effective(ops)
          PROVE  Counted(ops, a) # Counted(ops, b)
      BY <3>1, CountsGrow
    <3>2. i \in Effective(ops) /\ j \in Effective(ops) /\ (i < j \/ j < i)
      BY <2>2, <2>3, <2>4
    <3> HIDE DEF Last
    <3> QED BY <2>4, <3>1, <3>2
  <2> QED BY <1>1, <1>4, <2>2, <2>3, <2>5
<1>6. ASSUME NEW k \in Key PROVE cookies_'[k] = Absent \/ cookies_'[k] = cookies_[k] \/ Fresh(k)
  BY <1>3, <1>4
<1>7. cookies_' \in [Key -> VersionedCookie \cup {Absent}]
  <2>1. \A k \in Key : cookies_'[k] \in VersionedCookie \cup {Absent}
    BY <1>6 DEF IInv, TypeOK, Fresh
  <2> QED BY <2>1
<1> QED BY <1>2, <1>5, <1>6, <1>7 DEF Advances

\* The invariant is kept by every step, and holds at the start.
LEMMA StepKeeps == IInv /\ [Next]_vars => IInv'
<1> SUFFICES ASSUME IInv, [Next]_vars PROVE IInv'
  OBVIOUS
<1> DEFINE Txns == [Client -> Transaction \cup {NoTransaction}]
<1>1. /\ cookies_ \in [Key -> VersionedCookie \cup {Absent}] /\ txn \in Txns
      /\ version_ \in Version /\ version_ \in Nat /\ MaxVersion \in Nat
  BY NativeAssumption DEF IInv, TypeOK, Version
<1>2. ASSUME cookies_' = cookies_, version_' = version_ \/ version_' = version_ + 1,
             version_' \in Version
      PROVE  Advances
  <2>1. version_ <= version_'
    BY <1>1, <1>2
  <2>2. \A k \in Key : ~Fresh(k)
    <3> SUFFICES ASSUME NEW k \in Key, Fresh(k) PROVE FALSE
      OBVIOUS
    <3>1. Present(k)
      BY <1>2, AbsentIsNoCookie DEF Fresh, Present
    <3> QED BY <1>1, <1>2, <3>1 DEF Fresh, IInv, VersionsDistinct
  <2> QED BY <1>1, <1>2, <2>1, <2>2 DEF Advances
<1>3. ASSUME NEW doomed \in SUBSET Key, version_' \in Version,
             version_' = version_ \/ version_' = version_ + 1,
             cookies_' = [k \in Key |-> IF k \in doomed THEN Absent ELSE cookies_[k]]
      PROVE  Advances
  <2>1. version_ <= version_' /\ cookies_' \in [Key -> VersionedCookie \cup {Absent}]
    BY <1>1, <1>3
  <2>2. \A k \in Key : cookies_'[k] = Absent \/ cookies_'[k] = cookies_[k]
    BY <1>3
  <2>3. \A k \in Key : ~Fresh(k)
    <3> SUFFICES ASSUME NEW k \in Key, Fresh(k) PROVE FALSE
      OBVIOUS
    <3>1. Present(k) /\ cookies_'[k] = cookies_[k]
      BY <2>2, AbsentIsNoCookie DEF Fresh, Present
    <3> QED BY <1>1, <3>1 DEF Fresh, IInv, VersionsDistinct
  <2> QED BY <1>3, <2>1, <2>2, <2>3 DEF Advances
<1>4. ASSUME NEW k \in Key, NEW cookie \in Cookie, Upsert(k, cookie) PROVE IInv'
  <2>1. version_' = version_ + 1 /\ version_' \in Version
    BY <1>1, <1>4 DEF Upsert, Version
  <2>2. /\ cookies_'[k] = [cookie |-> cookie, version |-> version_']
        /\ \A l \in Key \ {k} : cookies_'[l] = cookies_[l]
    BY <1>1, <1>4, <2>1 DEF Upsert
  <2>3. cookies_' \in [Key -> VersionedCookie \cup {Absent}] /\ Fresh(k)
    <3>1. [cookie |-> cookie, version |-> version_'] \in VersionedCookie
      BY <2>1 DEF VersionedCookie
    <3> QED BY <1>1, <1>4, <2>1, <2>2, <3>1 DEF Upsert, Fresh
  <2>4. \A l \in Key \ {k} : ~Fresh(l)
    <3> SUFFICES ASSUME NEW l \in Key \ {k}, Fresh(l) PROVE FALSE
      OBVIOUS
    <3>1. Present(l)
      BY <2>2, AbsentIsNoCookie DEF Fresh, Present
    <3> QED BY <1>1, <2>2, <3>1 DEF Fresh, IInv, VersionsDistinct
  <2>5. Advances
    BY <1>1, <2>1, <2>2, <2>3, <2>4 DEF Advances
  <2> QED BY <1>1, <1>4, <2>5, AdvancesKeeps DEF Upsert
<1>5. CASE UpsertThrows
  <2>1. version_' \in Version
    BY <1>1, <1>5 DEF UpsertThrows, Version
  <2> QED BY <1>1, <1>2, <1>5, <2>1, AdvancesKeeps DEF UpsertThrows
<1>6. ASSUME NEW doomed \in SUBSET Key, EraseIf(doomed) \/ EraseIfThrows(doomed)
      PROVE  IInv'
  <2>1. version_' \in Version /\ (version_' = version_ \/ version_' = version_ + 1)
    BY <1>1, <1>6 DEF EraseIf, EraseIfThrows, Version
  <2>2. Advances
    BY <1>3, <1>6, <2>1 DEF EraseIf, EraseIfThrows
  <2> QED BY <1>1, <1>6, <2>2, AdvancesKeeps DEF EraseIf, EraseIfThrows
<1>7. ASSUME NEW k \in Key, Get(k) PROVE IInv'
  <2>1. UNCHANGED <<cookies_, version_, txn>> /\ Present(k)
    BY <1>7 DEF Get
  <2>2. cookies_[k].version \in 1..version_
    BY <2>1 DEF IInv, VersionsDistinct
  <2>3. TypeOK' /\ VersionsDistinct'
    BY <2>1 DEF IInv, TypeOK, VersionsDistinct, Present
  <2>4. seen' = [key |-> k, cookie |-> cookies_[k].cookie, version |-> cookies_[k].version]
    BY <1>7 DEF Get
  <2>5. SeenReached'
    BY <1>1, <2>1, <2>2, <2>4 DEF IInv, SeenReached
  <2>6. VersionIdentifiesCookie'
    <3> SUFFICES ASSUME NEW l \in Key, Present(l), cookies_[l].version = seen'.version
                 PROVE  l = seen'.key /\ cookies_[l].cookie = seen'.cookie
      BY <2>1 DEF VersionIdentifiesCookie, Present
    <3> QED BY <2>1, <2>4 DEF IInv, VersionsDistinct
  <2> QED BY <2>3, <2>5, <2>6 DEF IInv
<1>8. ASSUME NEW c \in Client, UNCHANGED <<cookies_, version_, seen>>, txn' \in Txns
      PROVE  IInv'
  BY <1>1, <1>2, <1>8, AdvancesKeeps
<1>9. ASSUME NEW c \in Client, Alive(c)
      PROVE  /\ txn[c] \in Transaction /\ txn[c].operations \in Seq(Operation)
             /\ Len(txn[c].operations) \in Nat
  BY <1>1, <1>9 DEF Alive, Transaction
<1>10. ASSUME NEW c \in Client,
              \/ Construct(c) \/ RefuseCommit(c) \/ Rollback(c) \/ Destroy(c)
              \/ \E op \in Operation : Queue(c, op)
       PROVE  IInv'
  <2>1. UNCHANGED <<cookies_, version_, seen>>
    BY <1>10 DEF Construct, RefuseCommit, Rollback, Destroy, Queue
  <2>2. txn' \in Txns
    <3>1. CASE Construct(c)
      <4>1. [base_version |-> version_, operations |-> <<>>, finished |-> FALSE]
              \in Transaction
        BY <1>1 DEF Transaction
      <4> QED BY <1>1, <3>1, <4>1 DEF Construct
    <3>2. CASE RefuseCommit(c)
      BY <1>1, <1>9, <3>2 DEF RefuseCommit, Transaction
    <3>3. CASE Rollback(c)
      <4>1. [txn[c] EXCEPT !.operations = <<>>, !.finished = TRUE] \in Transaction
        <5>1. <<>> \in Seq(Operation)
          OBVIOUS
        <5> QED BY <1>9, <3>3, <5>1 DEF Rollback, Transaction
      <4>2. txn' = [txn EXCEPT ![c] = [txn[c] EXCEPT !.operations = <<>>, !.finished = TRUE]]
        BY <1>1, <3>3 DEF Rollback
      <4> QED BY <1>1, <4>1, <4>2
    <3>4. CASE Destroy(c)
      BY <1>1, <3>4 DEF Destroy
    <3>5. ASSUME NEW op \in Operation, Queue(c, op) PROVE txn' \in Txns
      <4>1. Append(txn[c].operations, op) \in Seq(Operation)
        BY <1>9, <3>5 DEF Queue
      <4>2. [txn[c] EXCEPT !.operations = Append(txn[c].operations, op)] \in Transaction
        BY <1>9, <3>5, <4>1 DEF Queue, Transaction
      <4>3. txn' = [txn EXCEPT ![c] = [txn[c] EXCEPT !.operations =
                                         Append(txn[c].operations, op)]]
        BY <1>1, <3>5 DEF Queue
      <4> QED BY <1>1, <4>2, <4>3
    <3> QED BY <1>10, <3>1, <3>2, <3>3, <3>4, <3>5
  <2> QED BY <1>8, <2>1, <2>2
<1>11. ASSUME NEW c \in Client, Commit(c) PROVE IInv'
  <2> DEFINE ops == txn[c].operations
  <2>1. ops \in Seq(Operation) /\ Len(ops) \in Nat /\ txn[c] \in Transaction
    BY <1>9, <1>11 DEF Commit
  <2>2. Cardinality(Effective(ops)) = Counted(ops, Len(ops))
    <3>1. Effective(ops) \cap 1..Len(ops) = Effective(ops)
      BY DEF Effective
    <3> QED BY <3>1 DEF Counted
  <2>3. /\ version_ + Counted(ops, Len(ops)) <= MaxVersion
        /\ version_' = version_ + Counted(ops, Len(ops))
        /\ cookies_' = [k \in Key |-> AfterOperations(ops, Len(ops), k)]
        /\ seen' = seen
    BY <1>11, <2>2 DEF Commit
  <2>4. Advances
    <3> HIDE DEF ops
    <3> QED BY <2>1, <2>3, CommitAdvances
  <2>5. txn' \in Txns
    BY <1>1, <1>11, <2>1 DEF Commit, Transaction
  <2> QED BY <2>3, <2>4, <2>5, AdvancesKeeps
<1>12. ASSUME NEW c \in Client, NEW failing \in 1..MaxOperations,
              NEW spent \in 0..MaxOperations, CommitThrows(c, failing, spent)
       PROVE  IInv'
  <2> DEFINE ops == txn[c].operations
             n == failing - 1
  <2>1. ops \in Seq(Operation) /\ Len(ops) \in Nat
    BY <1>9, <1>12 DEF CommitThrows
  <2>2. n \in 0..Len(ops) /\ spent \in Nat /\ n <= spent
    BY <1>12, <2>1, NativeAssumption DEF CommitThrows
  <2>3. /\ version_ + Counted(ops, spent) <= MaxVersion
        /\ version_' = version_ + Counted(ops, spent)
        /\ cookies_' = [k \in Key |-> AfterOperations(ops, n, k)]
        /\ seen' = seen /\ txn' = txn
    BY <1>12 DEF CommitThrows, Counted
  <2>4. Advances
    <3> HIDE DEF ops, n
    <3> QED BY <2>1, <2>2, <2>3, CommitAdvances
  <2> QED BY <1>1, <2>3, <2>4, AdvancesKeeps
<1>13. CASE UNCHANGED vars
  BY <1>1, <1>13, <1>2, AdvancesKeeps DEF vars
<1> QED BY <1>4, <1>5, <1>6, <1>7, <1>10, <1>11, <1>12, <1>13 DEF Next

LEMMA InitKeeps == Init => IInv
<1> SUFFICES ASSUME Init PROVE IInv
  OBVIOUS
<1>1. TypeOK
  BY NativeAssumption DEF Init, TypeOK, Version
<1>2. \A k \in Key : ~Present(k)
  BY DEF Init, Present
<1>3. seen = NothingSeen
  BY DEF Init
<1> QED BY <1>1, <1>2, <1>3
        DEF IInv, VersionsDistinct, SeenReached, VersionIdentifiesCookie

\* At every moment two cookies of the store have different versions, none of
\* them ahead of the store, whether commits end half way or not
\* (store.cpp:129-186).
THEOREM NoVersionTwice == Spec => []VersionsDistinct
<1>1. IInv => VersionsDistinct
  BY DEF IInv
<1> QED BY <1>1, InitKeeps, StepKeeps, PTL DEF Spec

\* A version read from the store identifies its cookie as long as it is
\* remembered, whatever happened in between.
THEOREM VersionIsIdentity == Spec => []VersionIdentifiesCookie
<1>1. IInv => VersionIdentifiesCookie
  BY DEF IInv
<1> QED BY <1>1, InitKeeps, StepKeeps, PTL DEF Spec

(***************************************************************************)
(* The refinement.  A transaction was constructed at a version the store   *)
(* has reached, so one that is stale stays stale; and a commit that counts *)
(* no operation changes nothing.                                           *)
(***************************************************************************)
BaseReached == \A c \in Client : Alive(c) => txn[c].base_version <= version_

RInv == IInv /\ BaseReached /\ torn \in BOOLEAN

Held == [k \in Key |-> cookies_[k].cookie]
Opened == {c \in Client : Alive(c) /\ ~txn[c].finished}
Current == {c \in Client : /\ Alive(c) /\ ~txn[c].finished
                           /\ txn[c].base_version = version_
                           /\ ~torn}

\* The fields of an open transaction.
LEMMA TransactionTyping ==
  ASSUME IInv, NEW c \in Client, Alive(c)
  PROVE  /\ txn[c] \in Transaction /\ txn[c].operations \in Seq(Operation)
         /\ Len(txn[c].operations) \in Nat /\ txn[c].base_version \in Nat
         /\ txn[c].finished \in BOOLEAN
BY NativeAssumption DEF IInv, TypeOK, Alive, Transaction, Version

\* A commit that counts no operation changes nothing.
LEMMA UncountedChangesNothing ==
  ASSUME IInv, NEW ops \in Seq(Operation), NEW n \in 0..Len(ops), NEW spent \in Nat,
         n <= spent, Counted(ops, spent) = 0, NEW k \in Key
  PROVE  AfterOperations(ops, n, k) = cookies_[k]
<1>1. Len(ops) \in Nat /\ n \in Nat
  OBVIOUS
<1>2. ASSUME NEW i \in 1..n PROVE i \notin Effective(ops)
  <2>1. Counted(ops, 0) \in Nat /\ i \in 1..spent /\ 0 < i
    BY <1>1, CountsGrow
  <2>2. i \in Effective(ops) => Counted(ops, 0) < Counted(ops, spent)
    BY <2>1, CountsGrow
  <2> QED BY <2>1, <2>2
<1>3. CASE AfterOperations(ops, n, k) \notin {cookies_[k], Absent}
  BY <1>2, <1>3, LastOperation
<1>4. CASE AfterOperations(ops, n, k) # cookies_[k] /\ Present(k)
  <2> DEFINE touching == {i \in 1..n : ops[i].key = k}
  <2>1. touching # {} /\ touching \subseteq Nat
    BY <1>1, <1>4 DEF AfterOperations
  <2>2. PICK first \in touching : \A j \in touching : first <= j
    <3> HIDE DEF touching
    <3> QED BY <2>1, Least
  <2>3. first \in 1..n /\ first \in 1..Len(ops) /\ ops[first].key = k
    BY <1>1, <2>2
  <2>4. {j \in 1..(first - 1) : ops[j].key = ops[first].key} = {}
    BY <1>1, <2>2, <2>3
  <2>5. Found(ops, first) = cookies_[k].cookie
    BY <2>3, <2>4 DEF Found
  <2>6. cookies_[k].cookie # NoCookie
    BY <1>4, AbsentIsNoCookie, NativeAssumption DEF IInv, VersionedCookie
  <2>7. first \in Effective(ops)
    BY <2>3, <2>5, <2>6 DEF Effective
  <2> QED BY <1>2, <2>3, <2>7
<1> QED BY <1>3, <1>4 DEF Present

\* No transaction is current once the version is ahead of what it was.
LEMMA NewVersionLeavesNoneCurrent ==
  ASSUME RInv, version_' \in Nat, version_ < version_',
         \A c \in Client : Alive(c)' /\ ~txn'[c].finished =>
           Alive(c) /\ txn'[c].base_version = txn[c].base_version
  PROVE  Current' = {}
<1> SUFFICES ASSUME NEW c \in Client, Alive(c)', ~txn'[c].finished,
                    txn'[c].base_version = version_'
             PROVE  FALSE
  BY DEF Current
<1>1. version_ \in Nat
  BY NativeAssumption DEF RInv, IInv, TypeOK, Version
<1> QED BY <1>1, TransactionTyping DEF RInv, BaseReached

\* What a call may do to the abstract store.
Stutters == UNCHANGED <<Held, Opened, Current, torn>>
Overwrites == Opened' = Opened /\ Current' = {} /\ torn' \in {torn, TRUE}
Begins(c) == /\ c \notin Opened /\ Opened' = Opened \cup {c}
             /\ Current' = Current \cup {c} /\ UNCHANGED <<Held, torn>>
Drops(c) == /\ c \in Opened /\ Opened' = Opened \ {c}
            /\ Current' = Current \ {c} /\ UNCHANGED <<Held, torn>>
Publishes(c) == /\ c \in Current /\ Opened' = Opened \ {c}
                /\ Current' = {} /\ UNCHANGED torn

\* What a step means to the abstract store, until a predicate has thrown.
LEMMA ServesOptimistically ==
  ASSUME RInv, ~torn, Next
  PROVE  \/ Stutters \/ Overwrites
         \/ \E c \in Client : Begins(c) \/ Drops(c) \/ Publishes(c)
<1>1. /\ version_ \in Nat /\ IInv /\ cookies_ \in [Key -> VersionedCookie \cup {Absent}]
      /\ txn \in [Client -> Transaction \cup {NoTransaction}]
  BY NativeAssumption DEF RInv, IInv, TypeOK, Version
<1>2. ASSUME NEW k \in Key, NEW cookie \in Cookie, Upsert(k, cookie)
      PROVE  Overwrites
  BY <1>1, <1>2, NewVersionLeavesNoneCurrent DEF Upsert, Opened, Alive, Overwrites
<1>3. ASSUME UpsertThrows PROVE Overwrites
  BY <1>1, <1>3, NewVersionLeavesNoneCurrent DEF UpsertThrows, Opened, Alive, Overwrites
<1>4. ASSUME NEW doomed \in SUBSET Key, EraseIf(doomed)
      PROVE  Overwrites
  BY <1>1, <1>4, NewVersionLeavesNoneCurrent DEF EraseIf, Opened, Alive, Overwrites
<1>5. ASSUME NEW doomed \in SUBSET Key, EraseIfThrows(doomed)
      PROVE  Overwrites
  BY <1>5 DEF EraseIfThrows, Opened, Current, Alive, Overwrites
<1>6. ASSUME NEW k \in Key, Get(k)
      PROVE  Stutters
  BY <1>6 DEF Get, Held, Opened, Current, Alive, Stutters
<1>7. ASSUME NEW c \in Client, Construct(c)
      PROVE  Begins(c)
  <2> DEFINE new == [base_version |-> version_, operations |-> <<>>, finished |-> FALSE]
  <2>1. new # NoTransaction
    <3>1. <<>> \in Seq(Operation) /\ version_ \in Version
      BY DEF RInv, IInv, TypeOK
    <3>2. new \in Transaction
      BY <3>1 DEF Transaction
    <3> QED BY <3>2, SlotAssumption
  <2>2. /\ txn'[c] = new /\ txn[c] = NoTransaction /\ version_' = version_
        /\ \A d \in Client \ {c} : txn'[d] = txn[d]
    BY <1>1, <1>7 DEF Construct, Alive
  <2>3. new.base_version = version_ /\ new.finished = FALSE
    OBVIOUS
  <2>4. UNCHANGED <<Held, torn>>
    BY <1>7 DEF Construct, Held
  <2> HIDE DEF new
  <2>5. \A d \in Client : /\ d \in Opened' <=> d \in Opened \cup {c}
                          /\ d \in Current' <=> d \in Current \cup {c}
    BY <2>1, <2>2, <2>3, <2>4 DEF Opened, Current, Alive
  <2>6. c \notin Opened
    BY <2>2 DEF Opened, Alive
  <2>7. Opened' = Opened \cup {c} /\ Current' = Current \cup {c}
    BY <2>5 DEF Opened, Current
  <2> QED BY <2>4, <2>6, <2>7 DEF Begins
<1>8. ASSUME NEW c \in Client, NEW op \in Operation, Queue(c, op)
      PROVE  Stutters
  <2>1. txn[c] \in Transaction
    BY <1>1, <1>8, TransactionTyping DEF Queue
  <2>2. txn' = [txn EXCEPT ![c] = [txn[c] EXCEPT !.operations =
                                    Append(txn[c].operations, op)]]
    BY <1>1, <1>8 DEF Queue
  <2>3. [txn[c] EXCEPT !.operations = Append(txn[c].operations, op)] \in Transaction
    <3>1. Append(txn[c].operations, op) \in Seq(Operation)
      BY <2>1 DEF Transaction
    <3> QED BY <2>1, <3>1 DEF Transaction
  <2>4. /\ txn'[c].base_version = txn[c].base_version
        /\ txn'[c].finished = txn[c].finished /\ txn'[c] # NoTransaction
        /\ txn[c] # NoTransaction
        /\ \A d \in Client \ {c} : txn'[d] = txn[d]
    BY <1>1, <2>1, <2>2, <2>3, SlotAssumption DEF Transaction
  <2>5. UNCHANGED <<Held, torn, version_>>
    BY <1>8 DEF Queue, Held
  <2>6. \A d \in Client : /\ d \in Opened' <=> d \in Opened
                          /\ d \in Current' <=> d \in Current
    BY <2>4, <2>5 DEF Opened, Current, Alive
  <2>7. Opened' = Opened /\ Current' = Current
    BY <2>6 DEF Opened, Current
  <2> QED BY <2>5, <2>7 DEF Stutters
\* A transaction that ends leaves the others as they are.
<1>9. ASSUME NEW c \in Client, \A d \in Client \ {c} : txn'[d] = txn[d],
             ~Alive(c)' \/ txn'[c].finished
      PROVE  Opened' = Opened \ {c} /\
             (UNCHANGED <<version_, torn>> => Current' = Current \ {c})
  <2>1. \A d \in Client : d \in Opened' <=> d \in Opened \ {c}
    BY <1>9 DEF Opened, Alive
  <2>2. ASSUME UNCHANGED <<version_, torn>>, NEW d \in Client
        PROVE  d \in Current' <=> d \in Current \ {c}
    BY <1>9, <2>2 DEF Current, Alive
  <2> QED BY <2>1, <2>2 DEF Opened, Current
<1>10. ASSUME NEW c \in Client, RefuseCommit(c) \/ Rollback(c) \/ Destroy(c)
       PROVE  Stutters \/ Drops(c)
  <2>1. txn[c] \in Transaction
    BY <1>1, <1>10, TransactionTyping DEF RefuseCommit, Rollback, Destroy
  <2>2. UNCHANGED <<Held, torn, version_>>
    BY <1>10 DEF RefuseCommit, Rollback, Destroy, Held
  <2>3. /\ \A d \in Client \ {c} : txn'[d] = txn[d]
        /\ ~Alive(c)' \/ txn'[c].finished
    BY <1>1, <1>10, <2>1 DEF RefuseCommit, Rollback, Destroy, Alive, Transaction
  <2>4. Opened' = Opened \ {c} /\ Current' = Current \ {c}
    BY <1>9, <2>2, <2>3
  <2>5. c \notin Opened => Opened \ {c} = Opened /\ Current \ {c} = Current
    BY DEF Opened, Current
  <2> QED BY <2>2, <2>4, <2>5 DEF Stutters, Drops
<1>11. ASSUME NEW c \in Client, Commit(c)
       PROVE  Drops(c) \/ Publishes(c)
  <2> DEFINE ops == txn[c].operations
  <2>1. ops \in Seq(Operation) /\ Len(ops) \in Nat /\ txn[c] \in Transaction
    BY <1>1, <1>11, TransactionTyping DEF Commit
  <2>2. Cardinality(Effective(ops)) = Counted(ops, Len(ops))
    <3>1. Effective(ops) \cap 1..Len(ops) = Effective(ops)
      BY DEF Effective
    <3> QED BY <3>1 DEF Counted
  <2>3. /\ version_' = version_ + Counted(ops, Len(ops))
        /\ cookies_' = [k \in Key |-> AfterOperations(ops, Len(ops), k)]
        /\ torn' = torn /\ Counted(ops, Len(ops)) \in Nat
    BY <1>11, <2>1, <2>2, CountsGrow DEF Commit
  <2>4. /\ \A d \in Client \ {c} : txn'[d] = txn[d]
        /\ txn'[c].finished
    BY <1>1, <1>11, <2>1 DEF Commit, Transaction
  <2>5. c \in Current /\ c \in Opened
    BY <1>11 DEF Commit, Current, Opened, Stale
  <2>6. CASE Counted(ops, Len(ops)) = 0
    <3>1. version_' = version_
      BY <1>1, <2>3, <2>6
    <3>2. \A k \in Key : AfterOperations(ops, Len(ops), k) = cookies_[k]
      <4> HIDE DEF ops
      <4> QED BY <1>1, <2>1, <2>6, UncountedChangesNothing
    <3>3. Held' = Held
      BY <2>3, <3>2 DEF Held
    <3> QED BY <1>9, <2>3, <2>4, <2>5, <3>1, <3>3 DEF Drops
  <2>7. CASE Counted(ops, Len(ops)) # 0
    <3>1. version_' \in Nat /\ version_ < version_'
      BY <1>1, <2>3, <2>7
    <3>2. Current' = {}
      BY <2>4, <3>1, NewVersionLeavesNoneCurrent DEF Alive
    <3> QED BY <1>9, <2>3, <2>4, <2>5, <3>2 DEF Publishes
  <2> QED BY <2>6, <2>7
<1>12. ASSUME NEW c \in Client, NEW failing \in 1..MaxOperations,
              NEW spent \in 0..MaxOperations, CommitThrows(c, failing, spent)
       PROVE  Stutters \/ Overwrites
  <2> DEFINE ops == txn[c].operations
             n == failing - 1
  <2>1. ops \in Seq(Operation) /\ Len(ops) \in Nat
    BY <1>1, <1>12, TransactionTyping DEF CommitThrows
  <2>2. n \in 0..Len(ops) /\ spent \in Nat /\ n <= spent
    BY <1>12, <2>1, NativeAssumption DEF CommitThrows
  <2>3. /\ version_' = version_ + Counted(ops, spent)
        /\ cookies_' = [k \in Key |-> AfterOperations(ops, n, k)]
        /\ UNCHANGED <<txn, torn>>
    BY <1>12 DEF CommitThrows, Counted
  <2>3a. Counted(ops, spent) \in Nat
    <3> HIDE DEF ops
    <3> QED BY <2>2, CountsGrow
  <2>4. Opened' = Opened
    BY <2>3 DEF Opened, Alive
  <2>5. CASE Counted(ops, spent) = 0
    <3>1. version_' = version_
      BY <1>1, <2>3, <2>5
    <3>2. \A k \in Key : AfterOperations(ops, n, k) = cookies_[k]
      <4> HIDE DEF ops, n
      <4> QED BY <1>1, <2>1, <2>2, <2>5, UncountedChangesNothing
    <3>3. Held' = Held
      BY <2>3, <3>2 DEF Held
    <3>4. Current' = Current
      BY <2>3, <3>1 DEF Current, Alive
    <3> QED BY <2>3, <2>4, <3>3, <3>4 DEF Stutters
  <2>6. CASE Counted(ops, spent) # 0
    <3>1. version_' \in Nat /\ version_ < version_'
      BY <1>1, <2>3, <2>6, <2>3a
    <3>2. Current' = {}
      BY <2>3, <3>1, NewVersionLeavesNoneCurrent DEF Alive
    <3> QED BY <2>3, <2>4, <3>2 DEF Overwrites
  <2> QED BY <2>5, <2>6
<1> HIDE DEF Next
<1> QED BY <1>2, <1>3, <1>4, <1>5, <1>6, <1>7, <1>8, <1>10, <1>11, <1>12 DEF Next

\* No transaction gets ahead of the store.
LEMMA StepKeepsBases == RInv /\ [Next]_vars => RInv'
<1> SUFFICES ASSUME RInv, [Next]_vars PROVE RInv'
  OBVIOUS
<1>1. /\ IInv /\ IInv' /\ version_ \in Nat /\ version_' \in Nat
      /\ txn \in [Client -> Transaction \cup {NoTransaction}]
  BY StepKeeps, NativeAssumption DEF RInv, IInv, TypeOK, Version
<1>2. ASSUME UNCHANGED txn, version_ <= version_' PROVE BaseReached'
  <2> SUFFICES ASSUME NEW c \in Client, Alive(c) PROVE txn[c].base_version <= version_'
    BY <1>2 DEF BaseReached, Alive
  <2> QED BY <1>1, <1>2, TransactionTyping DEF RInv, BaseReached
<1>3. ASSUME version_ <= version_', NEW c \in Client,
             \A d \in Client \ {c} : txn'[d] = txn[d],
             Alive(c)' => Alive(c) /\ txn'[c].base_version = txn[c].base_version
      PROVE  BaseReached'
  <2> SUFFICES ASSUME NEW d \in Client, Alive(d)' PROVE txn'[d].base_version <= version_'
    BY DEF BaseReached
  <2>1. Alive(d) /\ txn'[d].base_version = txn[d].base_version
    BY <1>3 DEF Alive
  <2> QED BY <1>1, <1>3, <2>1, TransactionTyping DEF RInv, BaseReached
<1>4. ASSUME NEW c \in Client, Construct(c) PROVE BaseReached'
  <2> SUFFICES ASSUME NEW d \in Client, Alive(d)' PROVE txn'[d].base_version <= version_'
    BY DEF BaseReached
  <2>1. CASE d = c
    BY <1>1, <1>4, <2>1 DEF Construct
  <2>2. CASE d # c
    BY <1>1, <1>4, <2>2 DEF Construct, RInv, BaseReached, Alive
  <2> QED BY <2>1, <2>2
<1>5. ASSUME NEW c \in Client, Alive(c),
             \/ \E op \in Operation : Queue(c, op)
             \/ Commit(c) \/ RefuseCommit(c) \/ Rollback(c) \/ Destroy(c)
      PROVE  BaseReached'
  <2>1. txn[c] \in Transaction
    BY <1>1, <1>5, TransactionTyping
  <2>2. version_ <= version_'
    <3>1. CASE Commit(c)
      <4>1. Cardinality(Effective(txn[c].operations)) \in Nat
        <5>1. Len(txn[c].operations) \in Nat
          BY <1>1, <1>5, TransactionTyping
        <5>2. IsFiniteSet(Effective(txn[c].operations))
          <6>1. IsFiniteSet(1..Len(txn[c].operations))
            BY <5>1, FS_Interval
          <6>2. Effective(txn[c].operations) \subseteq 1..Len(txn[c].operations)
            BY DEF Effective
          <6> QED BY <6>1, <6>2, FS_Subset
        <5> QED BY <5>2, FS_CardinalityType
      <4> QED BY <1>1, <3>1, <4>1 DEF Commit
    <3>2. CASE ~Commit(c)
      BY <1>1, <1>5, <3>2 DEF Queue, RefuseCommit, Rollback, Destroy
    <3> QED BY <3>1, <3>2
  <2>3. \A d \in Client \ {c} : txn'[d] = txn[d]
    BY <1>1, <1>5 DEF Queue, Commit, RefuseCommit, Rollback, Destroy
  <2>4. Alive(c)' => txn'[c].base_version = txn[c].base_version
    BY <1>1, <1>5, <2>1
    DEF Queue, Commit, RefuseCommit, Rollback, Destroy, Alive, Transaction
  <2> QED BY <1>3, <1>5, <2>2, <2>3, <2>4
<1>6. ASSUME NEW c \in Client, NEW failing \in 1..MaxOperations,
             NEW spent \in 0..MaxOperations, CommitThrows(c, failing, spent)
      PROVE  BaseReached'
  <2>1. Counted(txn[c].operations, spent) \in Nat
    BY CountsGrow
  <2> QED BY <1>1, <1>2, <1>6, <2>1 DEF CommitThrows, Counted
<1>7. ASSUME NEW k \in Key, NEW cookie \in Cookie, Upsert(k, cookie) PROVE BaseReached'
  BY <1>1, <1>2, <1>7 DEF Upsert
<1>8. ASSUME NEW doomed \in SUBSET Key, EraseIf(doomed) \/ EraseIfThrows(doomed)
      PROVE  BaseReached'
  BY <1>1, <1>2, <1>8 DEF EraseIf, EraseIfThrows
<1>9. ASSUME UpsertThrows \/ UNCHANGED vars PROVE BaseReached'
  BY <1>1, <1>2, <1>9 DEF UpsertThrows, vars
<1>10. ASSUME NEW k \in Key, Get(k) PROVE BaseReached'
  BY <1>1, <1>2, <1>10 DEF Get
<1>11. BaseReached'
  BY <1>4, <1>5, <1>6, <1>7, <1>8, <1>9, <1>10
  DEF Next, Queue, Commit, RefuseCommit, Rollback, Destroy
<1>12. torn' \in BOOLEAN
  BY DEF RInv, Next, Upsert, UpsertThrows, EraseIf, EraseIfThrows, Get, Construct,
         Queue, Commit, CommitThrows, RefuseCommit, Rollback, Destroy, vars
<1> QED BY <1>1, <1>11, <1>12 DEF RInv

\* The contents that the abstract store sees.
LEMMA HeldTyping == IInv => Held \in [Key -> Cookie \cup {NoCookie}]
BY DEF IInv, TypeOK, Held, VersionedCookie, Absent

\* The native store is an optimistic store until a predicate throws in the
\* middle of an erase_if: calls that throw anywhere else, commits among them,
\* keep the promise (store.cpp:129-186).
THEOREM NativeStoreIsOptimistic == Spec => ImplementsOptimisticStore
<1>1. Init => RInv /\ Optimistic!Init
  <2> SUFFICES ASSUME Init PROVE RInv /\ Optimistic!Init
    OBVIOUS
  <2>1. /\ IInv /\ torn = FALSE /\ \A c \in Client : ~Alive(c)
    BY InitKeeps DEF Init, Alive
  <2> QED BY <2>1, HeldTyping DEF RInv, BaseReached, Optimistic!Init, Held
<1>2. RInv /\ RInv' /\ [Next]_vars => [Optimistic!Next]_(Optimistic!vars)
  <2> SUFFICES ASSUME RInv, RInv', [Next]_vars
               PROVE  [Optimistic!Next]_<<Held, Opened, Current, torn>>
    BY DEF Optimistic!vars, Held, Opened, Current
  <2>1. /\ Held' \in [Key -> Cookie \cup {NoCookie}]
        /\ Opened' \subseteq Client /\ torn' \in BOOLEAN
    <3>1. IInv' => Held' \in [Key -> Cookie \cup {NoCookie}]
      BY DEF IInv, TypeOK, Held, VersionedCookie, Absent
    <3> QED BY <3>1 DEF RInv, Opened
  <2>2. CASE UNCHANGED vars
    BY <2>2 DEF vars, Held, Opened, Current, Alive
  <2>3. CASE Next /\ torn
    <3>1. torn'
      BY <2>3 DEF Next, Upsert, UpsertThrows, EraseIf, EraseIfThrows, Get, Construct,
                  Queue, Commit, CommitThrows, RefuseCommit, Rollback, Destroy
    <3>2. Optimistic!Exhausted
      BY <2>1, <2>3, <3>1 DEF Optimistic!Exhausted, Held, Opened
    <3> QED BY <3>2 DEF Optimistic!Next
  <2>4. CASE Next /\ ~torn
    <3>1. CASE Stutters
      BY <3>1 DEF Stutters
    <3>2. CASE Overwrites
      <4>1. Optimistic!Overwrite
        BY <2>1, <3>2 DEF Overwrites, Optimistic!Overwrite, Optimistic!Change,
                          Held, Opened, Current
      <4> QED BY <2>1, <2>4, <4>1 DEF Optimistic!Next, Optimistic!Serve
    <3>3. ASSUME NEW c \in Client, Begins(c) PROVE Optimistic!Begin(c)
      BY <3>3 DEF Begins, Optimistic!Begin, Held, Opened, Current
    <3>4. ASSUME NEW c \in Client, Drops(c) PROVE Optimistic!Drop(c)
      BY <3>4 DEF Drops, Optimistic!Drop, Held, Opened, Current
    <3>5. ASSUME NEW c \in Client, Publishes(c) PROVE Optimistic!Publish(c)
      BY <2>1, <3>5 DEF Publishes, Optimistic!Publish, Optimistic!Change,
                        Held, Opened, Current
    <3>6. CASE \E c \in Client : Begins(c) \/ Drops(c) \/ Publishes(c)
      <4>1. Optimistic!Serve
        BY <3>3, <3>4, <3>5, <3>6 DEF Optimistic!Serve
      <4> QED BY <2>1, <2>4, <4>1 DEF Optimistic!Next
    <3> QED BY <2>4, <3>1, <3>2, <3>6, ServesOptimistically
  <2> QED BY <2>2, <2>3, <2>4
<1> QED BY <1>1, <1>2, StepKeepsBases, PTL
        DEF Spec, ImplementsOptimisticStore, Optimistic!Spec

-----------------------------------------------------------------------------
(***************************************************************************)
(* NativeArrays.  For every width of a word and every size of an item.     *)
(***************************************************************************)

Array == [length : 0..SIZE_MAX, capacity : 0..SIZE_MAX, bytes : 0..SIZE_MAX]

\* GrowthNeverWraps is inductive together with the types: a length that is a
\* word behind a capacity that is a word cannot reach the last word.
ArraysSound == buffer \in Array /\ collection \in Array /\ GrowthNeverWraps

\* Words, and numbers that fit one.
LEMMA WordSize == SIZE_MAX \in Nat \ {0} /\ SIZE_MAX + 1 \in Nat \ {0}
BY ArrayAssumption

LEMMA Unwrapped == ASSUME NEW n \in 0..SIZE_MAX PROVE Wrapped(n) = n
BY WordSize, FitsWord DEF Wrapped

\* next_capacity is enough and a word, though the doubling may have to stop.
LEMMA NextCapacity ==
  ASSUME NEW current \in 0..SIZE_MAX, NEW required \in 0..SIZE_MAX
  PROVE  next_capacity(current, required) \in required..SIZE_MAX
<1> DEFINE least == IF current < SmallestBuffer THEN SmallestBuffer ELSE current
           enough == {c \in required..SIZE_MAX : \E n \in 0..Width : c = least * 2^n}
<1>1. next_capacity(current, required) =
        IF enough = {} THEN required
        ELSE CHOOSE c \in enough : \A d \in enough : c <= d
  BY DEF next_capacity
<1>2. enough \subseteq required..SIZE_MAX /\ enough \subseteq Nat
  BY WordSize
<1> HIDE DEF enough
<1>3. enough # {} => \E c \in enough : \A d \in enough : c <= d
  BY <1>2, Least
<1>4. CASE enough = {}
  BY <1>1, <1>4, WordSize
<1>5. CASE enough # {}
  <2>1. next_capacity(current, required) \in enough
    BY <1>1, <1>3, <1>5
  <2> QED BY <1>2, <2>1
<1> QED BY <1>4, <1>5

\* What luck_buffer_reserve leaves: the same text, and room for the minimum.
LEMMA ReserveBufferRoom ==
  ASSUME ArraysSound, NEW minimum \in 0..SIZE_MAX
  PROVE  /\ BufferReserved(minimum) \in Array
         /\ BufferReserved(minimum).length = buffer.length
         /\ BufferReserved(minimum).capacity = BufferReserved(minimum).bytes
         /\ BufferReserved(minimum).capacity >= minimum
         /\ BufferReserved(minimum).capacity >= buffer.capacity
<1>1. buffer \in Array /\ buffer.bytes = buffer.capacity
  BY DEF ArraysSound, GrowthNeverWraps
<1>2. next_capacity(buffer.capacity, minimum) \in minimum..SIZE_MAX
  BY <1>1, NextCapacity DEF Array
<1>3. CASE minimum <= buffer.capacity
  BY <1>1, <1>3 DEF BufferReserved, Array
<1>4. CASE minimum > buffer.capacity
  <2> DEFINE capacity == next_capacity(buffer.capacity, minimum)
  <2>1. BufferReserved(minimum) = [buffer EXCEPT !.capacity = capacity, !.bytes = capacity]
    BY <1>1, <1>4 DEF BufferReserved, Array
  <2>2. capacity \in minimum..SIZE_MAX
    BY <1>2
  <2> HIDE DEF capacity
  <2>3. capacity \in 0..SIZE_MAX /\ capacity >= minimum /\ capacity >= buffer.capacity
    BY <1>1, <1>4, <2>2, WordSize DEF Array
  <2>4. /\ BufferReserved(minimum) \in Array
        /\ BufferReserved(minimum).length = buffer.length
        /\ BufferReserved(minimum).capacity = capacity
        /\ BufferReserved(minimum).bytes = capacity
    BY <1>1, <2>1, <2>3 DEF Array
  <2> QED BY <2>3, <2>4
<1> QED BY <1>1, <1>3, <1>4 DEF Array

\* The first test of luck_buffer_append leaves room for the text and the NUL.
LEMMA AppendFits ==
  ASSUME ArraysSound, NEW length \in 0..SIZE_MAX, Appendable(length)
  PROVE  buffer.length + length + 1 \in 1..SIZE_MAX
<1>1. buffer.length \in 0..(SIZE_MAX - 1)
  BY WordSize DEF ArraysSound, GrowthNeverWraps, Array
<1>2. Wrapped(SIZE_MAX - buffer.length - 1) = SIZE_MAX - buffer.length - 1
  <2>1. SIZE_MAX - buffer.length - 1 \in 0..SIZE_MAX
    BY <1>1, WordSize
  <2> QED BY <2>1, Unwrapped
<1> QED BY <1>1, <1>2, WordSize DEF Appendable

\* Each operation of the arrays keeps them in their memory.
LEMMA AppendStep == ArraysSound /\ AppendText => ArraysSound'
<1> SUFFICES ASSUME ArraysSound, AppendText PROVE ArraysSound'
  OBVIOUS
<1>1. PICK length \in Chunk :
        /\ Appendable(length)
        /\ buffer' = [BufferReserved(Wrapped(buffer.length + length + 1))
                        EXCEPT !.length = Wrapped(@ + length)]
  BY DEF AppendText
<1> DEFINE minimum == buffer.length + length + 1
           reserved == BufferReserved(minimum)
<1>2. buffer \in Array /\ collection \in Array /\ length \in 0..SIZE_MAX
  BY ArrayAssumption DEF ArraysSound
<1>3. minimum \in 1..SIZE_MAX /\ buffer.length + length \in 0..SIZE_MAX
  BY <1>1, <1>2, AppendFits, WordSize DEF Array
<1>4. Wrapped(minimum) = minimum /\ Wrapped(buffer.length + length) = buffer.length + length
  BY <1>3, Unwrapped, WordSize
<1>5. /\ reserved \in Array /\ reserved.length = buffer.length
      /\ reserved.capacity = reserved.bytes /\ reserved.capacity >= minimum
  BY <1>3, ReserveBufferRoom, WordSize
<1>6. buffer' = [reserved EXCEPT !.length = buffer.length + length]
  BY <1>1, <1>4, <1>5 DEF Array
<1>7. buffer' \in Array /\ buffer'.bytes = buffer'.capacity
        /\ buffer'.length + 1 <= buffer'.bytes
  <2>1. minimum = buffer.length + length + 1
    OBVIOUS
  <2> HIDE DEF reserved, minimum
  <2> QED BY <1>2, <1>3, <1>5, <1>6, <2>1, WordSize DEF Array
<1>8. collection' = collection
  BY DEF AppendText
<1> QED BY <1>2, <1>7, <1>8 DEF ArraysSound, GrowthNeverWraps

LEMMA ReserveBufferStep == ArraysSound /\ (ClearBuffer \/ ReserveBuffer) => ArraysSound'
<1> SUFFICES ASSUME ArraysSound, ClearBuffer \/ ReserveBuffer PROVE ArraysSound'
  OBVIOUS
<1>1. CASE ClearBuffer
  BY <1>1, WordSize DEF ArraysSound, GrowthNeverWraps, ClearBuffer, Array
<1>2. CASE ReserveBuffer
  <2>1. PICK minimum \in Chunk : buffer' = BufferReserved(minimum)
    BY <1>2 DEF ReserveBuffer
  <2>2. minimum \in 0..SIZE_MAX /\ buffer \in Array
    BY ArrayAssumption DEF ArraysSound
  <2>3. /\ buffer' \in Array /\ buffer'.length = buffer.length
        /\ buffer'.capacity = buffer'.bytes /\ buffer'.capacity >= buffer.capacity
    BY <2>1, <2>2, ReserveBufferRoom
  <2>4. buffer'.length > 0 => buffer'.length + 1 <= buffer'.bytes
    BY <2>2, <2>3 DEF ArraysSound, GrowthNeverWraps, Array
  <2> QED BY <1>2, <2>3, <2>4 DEF ArraysSound, GrowthNeverWraps, ReserveBuffer
<1> QED BY <1>1, <1>2

(***************************************************************************)
(* The collection.                                                         *)
(***************************************************************************)
\* What luck_cookie_collection_reserve lets through does not wrap.
LEMMA ReservedRoom ==
  ASSUME ArraysSound, NEW capacity \in 0..SIZE_MAX, Fits(capacity)
  PROVE  /\ Reserved(capacity) \in Array
         /\ Reserved(capacity).length = collection.length
         /\ Reserved(capacity).capacity >= capacity
         /\ Reserved(capacity).capacity >= collection.capacity
         /\ Reserved(capacity).capacity * ItemSize <= Reserved(capacity).bytes
<1>1. collection \in Array /\ collection.capacity * ItemSize <= collection.bytes
  BY DEF ArraysSound, GrowthNeverWraps
<1>2. ItemSize \in Nat \ {0}
  BY ArrayAssumption
<1>3. capacity * ItemSize <= SIZE_MAX
  BY <1>2, WordSize, QuotientBounds DEF Fits
<1>4. capacity * ItemSize \in 0..SIZE_MAX
  <2>1. capacity * ItemSize \in Nat
    BY <1>2
  <2> QED BY <1>3, <2>1, WordSize
<1>5. Wrapped(capacity * ItemSize) = capacity * ItemSize
  BY <1>4, Unwrapped
<1>6. CASE capacity <= collection.capacity
  <2>1. Reserved(capacity) = collection
    BY <1>6 DEF Reserved
  <2> QED BY <1>1, <1>6, <2>1 DEF Array
<1>7. CASE capacity > collection.capacity
  <2>1. Reserved(capacity) = [collection EXCEPT !.capacity = capacity,
                                                !.bytes = Wrapped(capacity * ItemSize)]
    <3>1. ~(capacity <= collection.capacity)
      BY <1>1, <1>7 DEF Array
    <3> QED BY <3>1 DEF Reserved
  <2> DEFINE bytes == capacity * ItemSize
  <2>2. bytes \in 0..SIZE_MAX /\ bytes = capacity * ItemSize
    BY <1>4
  <2> HIDE DEF bytes
  <2>3. Reserved(capacity) = [collection EXCEPT !.capacity = capacity, !.bytes = bytes]
    BY <1>5, <2>1, <2>2
  <2>4. /\ Reserved(capacity) \in Array
        /\ Reserved(capacity).length = collection.length
        /\ Reserved(capacity).capacity = capacity
        /\ Reserved(capacity).bytes = bytes
    BY <1>1, <2>2, <2>3 DEF Array
  <2> QED BY <1>1, <1>7, <2>2, <2>4 DEF Array
<1> QED BY <1>1, <1>6, <1>7 DEF Array

\* Doubling that does not decrease did not wrap.
LEMMA Doubled ==
  ASSUME NEW capacity \in 1..SIZE_MAX, Wrapped(capacity * 2) >= capacity
  PROVE  Wrapped(capacity * 2) \in (capacity + 1)..SIZE_MAX
<1>1. CASE capacity * 2 <= SIZE_MAX
  BY <1>1, WordSize, Unwrapped
<1>2. CASE capacity * 2 > SIZE_MAX
  <2>1. capacity * 2 \in (SIZE_MAX + 1)..(2 * (SIZE_MAX + 1) - 1)
    BY <1>2, WordSize
  <2>2. Wrapped(capacity * 2) = capacity * 2 - (SIZE_MAX + 1)
    BY <2>1, WordSize, WrapsOnce DEF Wrapped
  <2> QED BY <2>2, WordSize
<1> QED BY <1>1, <1>2, WordSize

LEMMA PushStep == ArraysSound /\ Push => ArraysSound'
<1> SUFFICES ASSUME ArraysSound, Push PROVE ArraysSound'
  OBVIOUS
<1> DEFINE full == collection.length = collection.capacity
           doubled == IF collection.capacity = 0 THEN SmallestCollection
                      ELSE Wrapped(collection.capacity * 2)
           room == IF full THEN Reserved(doubled) ELSE collection
<1>1. /\ full => doubled >= collection.capacity /\ Fits(doubled)
      /\ collection' = [room EXCEPT !.length = @ + 1]
      /\ buffer' = buffer
  BY DEF Push
<1>2. /\ collection \in Array /\ collection.length <= collection.capacity
      /\ collection.capacity * ItemSize <= collection.bytes
  BY DEF ArraysSound, GrowthNeverWraps
<1>3. /\ room \in Array /\ room.length = collection.length
      /\ room.length < room.capacity
      /\ room.capacity * ItemSize <= room.bytes
  <2>1. CASE full
    <3>1. doubled \in (collection.capacity + 1)..SIZE_MAX
      <4>1. CASE collection.capacity = 0
        BY <4>1, ArrayAssumption, WordSize
      <4>2. CASE collection.capacity # 0
        <5>1. collection.capacity \in 1..SIZE_MAX
          BY <1>2, <4>2 DEF Array
        <5> QED BY <1>1, <2>1, <4>2, <5>1, Doubled
      <4> QED BY <4>1, <4>2
    <3>2. Fits(doubled) /\ doubled \in 0..SIZE_MAX
      BY <1>1, <1>2, <2>1, <3>1 DEF Array
    <3> HIDE DEF doubled
    <3>3. /\ Reserved(doubled) \in Array
          /\ Reserved(doubled).length = collection.length
          /\ Reserved(doubled).capacity >= doubled
          /\ Reserved(doubled).capacity * ItemSize <= Reserved(doubled).bytes
      BY <3>2, ReservedRoom
    <3> QED BY <1>2, <2>1, <3>1, <3>3 DEF Array
  <2>2. CASE ~full
    BY <1>2, <2>2 DEF Array
  <2> QED BY <2>1, <2>2
<1>4. /\ collection' \in Array /\ collection'.length <= collection'.capacity
      /\ collection'.capacity = room.capacity /\ collection'.bytes = room.bytes
  <2> HIDE DEF room
  <2> QED BY <1>1, <1>3, WordSize DEF Array
<1>5. collection'.capacity * ItemSize <= collection'.bytes
  BY <1>3, <1>4
<1> HIDE DEF room, full, doubled
<1> QED BY <1>1, <1>4, <1>5 DEF ArraysSound, GrowthNeverWraps

LEMMA ReserveCollectionStep ==
  ArraysSound /\ (ReserveCollection \/ ClearCollection) => ArraysSound'
<1> SUFFICES ASSUME ArraysSound, ReserveCollection \/ ClearCollection PROVE ArraysSound'
  OBVIOUS
<1>1. CASE ClearCollection
  BY <1>1, WordSize DEF ArraysSound, GrowthNeverWraps, ClearCollection, Array
<1>2. CASE ReserveCollection
  <2>1. PICK capacity \in Chunk : Fits(capacity) /\ collection' = Reserved(capacity)
    BY <1>2 DEF ReserveCollection
  <2>2. capacity \in 0..SIZE_MAX /\ collection \in Array
    BY ArrayAssumption DEF ArraysSound
  <2>3. /\ collection' \in Array /\ collection'.length = collection.length
        /\ collection'.capacity >= collection.capacity
        /\ collection'.capacity * ItemSize <= collection'.bytes
    BY <2>1, <2>2, ReservedRoom
  <2>4. collection'.length <= collection'.capacity
    BY <2>2, <2>3 DEF ArraysSound, GrowthNeverWraps, Array
  <2> QED BY <1>2, <2>3, <2>4 DEF ArraysSound, GrowthNeverWraps, ReserveCollection
<1> QED BY <1>1, <1>2

\* Whatever is appended, pushed, reserved and cleared, in any order: what is
\* written lies in the memory that was asked for (buffer.c:7-66,
\* cookie.c:156-180).
THEOREM ArraysStayInMemory == ArraySpec => []GrowthNeverWraps
<1>1. ArrayInit => ArraysSound
  BY WordSize, ArrayAssumption DEF ArrayInit, Empty, ArraysSound, Array, GrowthNeverWraps
<1>2. ArraysSound /\ [ArrayNext]_array_vars => ArraysSound'
  <2>1. ArraysSound /\ UNCHANGED array_vars => ArraysSound'
    BY DEF ArraysSound, GrowthNeverWraps, array_vars
  <2> QED BY <2>1, AppendStep, ReserveBufferStep, PushStep, ReserveCollectionStep
          DEF ArrayNext
<1>3. ArraysSound => GrowthNeverWraps
  BY DEF ArraysSound
<1> QED BY <1>1, <1>2, <1>3, PTL DEF ArraySpec
=============================================================================
