------------------------------ MODULE NativeStore ------------------------------
(***************************************************************************)
(* The concurrent store of the native layer (native/cpp/src/store.cpp).    *)
(* Every method holds the shared mutex from its first access to its last,  *)
(* so one action is one call; threads interleave between calls.  A         *)
(* transaction queues its operations outside the lock and only remembers   *)
(* the version the store had when it was constructed.                      *)
(*                                                                         *)
(* Client is a set of threads, each with at most one live transaction.     *)
(* MaxVersion bounds the version, a uint64_t that 2^64 mutations would     *)
(* wrap; MaxOperations bounds the queue of a transaction.  erase_if may    *)
(* be given a predicate that throws.                                       *)
(***************************************************************************)
EXTENDS Naturals, Sequences, FiniteSets

CONSTANTS Client, Key, Cookie, NoCookie, NoTransaction, NothingSeen,
          MaxVersion, MaxOperations

ASSUME NativeAssumption ==
  /\ MaxVersion \in Nat
  /\ MaxOperations \in Nat
  /\ NoCookie \notin Cookie

VARIABLES
  cookies_,   \* by key, the cookie and the version that stored it
  version_,
  txn,        \* the transaction of each client
  seen,       \* not in the code: a VersionedCookie that get() has returned to a thread
              \* which still remembers it, and the key that was asked for
  torn        \* not in the code: whether a predicate threw after an erase

vars == <<cookies_, version_, txn, seen, torn>>

Version == 0..MaxVersion

VersionedCookie == [cookie : Cookie, version : Version]

Operation == [key : Key, cookie : Cookie \cup {NoCookie}]

IsUpsert(op) == op.cookie # NoCookie

Transaction == [base_version : Version, operations : Seq(Operation),
                finished : BOOLEAN]

ASSUME SlotAssumption == NoTransaction \notin Transaction

Absent == [cookie |-> NoCookie, version |-> 0]

Present(k) == cookies_[k] # Absent

Init ==
  /\ cookies_ = [k \in Key |-> Absent]
  /\ version_ = 0
  /\ txn = [c \in Client |-> NoTransaction]
  /\ seen = NothingSeen
  /\ torn = FALSE

(***************************************************************************)
(* The store's own methods.                                                *)
(***************************************************************************)
Upsert(k, cookie) ==
  /\ version_ < MaxVersion
  /\ version_' = version_ + 1
  /\ cookies_' = [cookies_ EXCEPT ![k] = [cookie |-> cookie,
                                          version |-> version_ + 1]]
  /\ UNCHANGED <<txn, seen, torn>>

\* A faulty EraseIf, which does not advance the version.
EraseIfSilently(doomed) ==
  /\ \E k \in doomed : Present(k)
  /\ cookies_' = [k \in Key |-> IF k \in doomed THEN Absent ELSE cookies_[k]]
  /\ UNCHANGED <<version_, txn, seen, torn>>

\* erase_if with a predicate that holds of the cookies of `doomed`; erase(key)
\* and clear() are the predicates of one key and of every key.
EraseIf(doomed) ==
  /\ \E k \in doomed : Present(k)
  /\ version_ < MaxVersion
  /\ version_' = version_ + 1
  /\ cookies_' = [k \in Key |-> IF k \in doomed THEN Absent ELSE cookies_[k]]
  /\ UNCHANGED <<txn, seen, torn>>

\* emplace throws: the version is spent and nothing is stored.
UpsertThrows ==
  /\ \E k \in Key : ~Present(k)
  /\ version_ < MaxVersion
  /\ version_' = version_ + 1
  /\ UNCHANGED <<cookies_, txn, seen, torn>>

\* The predicate throws: the cookies erased before stay erased, and the
\* version is not advanced.
EraseIfThrows(doomed) ==
  /\ \E k \in doomed : Present(k)
  /\ \E k \in Key \ doomed : Present(k)
  /\ cookies_' = [k \in Key |-> IF k \in doomed THEN Absent ELSE cookies_[k]]
  /\ torn' = TRUE
  /\ UNCHANGED <<version_, txn, seen>>

\* Of all that threads remember, `seen` is any one.
Get(k) ==
  /\ Present(k)
  /\ seen' = [key |-> k, cookie |-> cookies_[k].cookie, version |-> cookies_[k].version]
  /\ UNCHANGED <<cookies_, version_, txn, torn>>

(***************************************************************************)
(* Transactions.                                                           *)
(***************************************************************************)
Alive(c) == txn[c] # NoTransaction

Construct(c) ==
  /\ ~Alive(c)
  /\ txn' = [txn EXCEPT ![c] = [base_version |-> version_,
                                operations   |-> <<>>,
                                finished     |-> FALSE]]
  /\ UNCHANGED <<cookies_, version_, seen, torn>>

\* Transaction::upsert and Transaction::erase; both throw once finished.
Queue(c, op) ==
  /\ Alive(c) /\ ~txn[c].finished
  /\ Len(txn[c].operations) < MaxOperations
  /\ txn' = [txn EXCEPT ![c].operations = Append(@, op)]
  /\ UNCHANGED <<cookies_, version_, seen, torn>>

\* The cookie that operation i of the queue finds under its key.
Found(ops, i) ==
  LET earlier == {j \in 1..(i - 1) : ops[j].key = ops[i].key}
  IN IF earlier = {} THEN cookies_[ops[i].key].cookie
     ELSE ops[CHOOSE j \in earlier : \A h \in earlier : h <= j].cookie

\* A faulty Effective: an upsert that replaces a cookie does not count.
EffectiveInserts(ops) ==
  {i \in 1..Len(ops) : IsUpsert(ops[i]) # (Found(ops, i) # NoCookie)}

\* The operations that count as a mutation: an upsert always does, an erase
\* when there is something to erase.
Effective(ops) ==
  {i \in 1..Len(ops) : IsUpsert(ops[i]) \/ Found(ops, i) # NoCookie}

\* A faulty AfterOperations: one version for the whole commit.
AfterOperationsAtOnce(ops, n, k) ==
  LET touching == {i \in 1..n : ops[i].key = k}
      last     == CHOOSE i \in touching : \A j \in touching : j <= i
  IN IF touching = {} THEN cookies_[k]
     ELSE IF ~IsUpsert(ops[last]) THEN Absent
     ELSE [cookie  |-> ops[last].cookie,
           version |-> version_ + Cardinality(Effective(ops))]

\* What a key holds after the first n operations.
AfterOperations(ops, n, k) ==
  LET touching == {i \in 1..n : ops[i].key = k}
      last     == CHOOSE i \in touching : \A j \in touching : j <= i
  IN IF touching = {} THEN cookies_[k]
     ELSE IF ~IsUpsert(ops[last]) THEN Absent
     ELSE [cookie  |-> ops[last].cookie,
           version |-> version_ + Cardinality(Effective(ops) \cap 1..last)]

Stale(c) == txn[c].base_version # version_

Commit(c) ==
  LET ops == txn[c].operations
      new == version_ + Cardinality(Effective(ops))
  IN /\ Alive(c) /\ ~txn[c].finished
     /\ ~Stale(c)
     /\ new <= MaxVersion
     /\ cookies_' = [k \in Key |-> AfterOperations(ops, Len(ops), k)]
     /\ version_' = new
     /\ txn' = [txn EXCEPT ![c].finished = TRUE]
     /\ UNCHANGED <<seen, torn>>

\* key() or insert_or_assign throws at an upsert: the operations before it
\* stay applied, insert_or_assign has spent a version, and the transaction is
\* not finished.  (Its applied cookies are moved out, and its version is stale
\* from then on.)
CommitThrows(c, failing, spent) ==
  LET ops == txn[c].operations
      new == version_ + Cardinality(Effective(ops) \cap 1..spent)
  IN /\ Alive(c) /\ ~txn[c].finished
     /\ ~Stale(c)
     /\ failing \in 1..Len(ops) /\ IsUpsert(ops[failing])
     /\ spent \in {failing - 1, failing}
     /\ new <= MaxVersion
     /\ cookies_' = [k \in Key |-> AfterOperations(ops, failing - 1, k)]
     /\ version_' = new
     /\ UNCHANGED <<txn, seen, torn>>

\* commit of a stale transaction returns false and finishes it.
RefuseCommit(c) ==
  /\ Alive(c) /\ ~txn[c].finished
  /\ Stale(c)
  /\ txn' = [txn EXCEPT ![c].finished = TRUE]
  /\ UNCHANGED <<cookies_, version_, seen, torn>>

Rollback(c) ==
  /\ Alive(c)
  /\ txn' = [txn EXCEPT ![c].operations = <<>>, ![c].finished = TRUE]
  /\ UNCHANGED <<cookies_, version_, seen, torn>>

\* The destructor rolls back what is not finished.
Destroy(c) ==
  /\ Alive(c)
  /\ txn' = [txn EXCEPT ![c] = NoTransaction]
  /\ UNCHANGED <<cookies_, version_, seen, torn>>

Next ==
  \/ \E k \in Key, cookie \in Cookie : Upsert(k, cookie)
  \/ UpsertThrows
  \/ \E doomed \in SUBSET Key : EraseIf(doomed) \/ EraseIfThrows(doomed)
  \/ \E k \in Key : Get(k)
  \/ \E c \in Client :
       \/ Construct(c)
       \/ \E op \in Operation : Queue(c, op)
       \/ Commit(c)
       \/ \E failing \in 1..MaxOperations, spent \in 0..MaxOperations :
            CommitThrows(c, failing, spent)
       \/ RefuseCommit(c)
       \/ Rollback(c)
       \/ Destroy(c)

Spec == Init /\ [][Next]_vars

(***************************************************************************)
(* Properties.                                                             *)
(***************************************************************************)
\* No two cookies in the store were stored by the same version, and none by
\* a version the store has not reached, whether they came from a commit with
\* many operations or from single calls.
VersionsDistinct ==
  \A k \in Key : Present(k) =>
    /\ cookies_[k].version \in 1..version_
    /\ \A l \in Key \ {k} :
         Present(l) => cookies_[l].version # cookies_[k].version

\* A version identifies a cookie for as long as anyone remembers it: if a key
\* still has the version a thread saw, it still has the cookie it saw, and no
\* other key ever gets that version.  An erase in between cannot hide an ABA
\* change.
VersionIdentifiesCookie ==
  \A k \in Key :
    /\ seen # NothingSeen
    /\ Present(k)
    /\ cookies_[k].version = seen.version
    => /\ k = seen.key
       /\ cookies_[k].cookie = seen.cookie

\* The store implements the abstract one: a transaction that is committed was
\* constructed on the contents it changes, any other is refused, and whatever
\* changes the contents otherwise, a commit that throws half way included,
\* makes every unfinished transaction a stale one.  Only a predicate that
\* throws breaks the promise: what it erased does not advance the version.
Optimistic == INSTANCE OptimisticStore WITH
  Contents  <- [Key -> Cookie \cup {NoCookie}],
  contents  <- [k \in Key |-> cookies_[k].cookie],
  open      <- {c \in Client : Alive(c) /\ ~txn[c].finished},
  current   <- {c \in Client : /\ Alive(c) /\ ~txn[c].finished
                               /\ txn[c].base_version = version_
                               /\ ~torn},
  exhausted <- torn

ImplementsOptimisticStore == Optimistic!Spec
=============================================================================
