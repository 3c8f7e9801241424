------------------------------ MODULE CookieStore ------------------------------
(***************************************************************************)
(* The transactional store of luck-core                                    *)
(* (rust/crates/luck-core/src/store.rs).  Transactions are values that     *)
(* their owner edits without the store, so several of them and the direct  *)
(* operations of the store interleave in any order.                        *)
(*                                                                         *)
(* Transaction is a set of slots for the values of type CookieTransaction  *)
(* that exist at once.  MaxRevision is u64::MAX, at which saturating_add   *)
(* stops counting; it also keeps the reachable states finite.  Batch and   *)
(* ExternalDiff are the collections and the diffs that callers pass in.    *)
(* The list of TransactionOperation values and the commit metadata only    *)
(* describe a commit to a reader and are left out.                         *)
(***************************************************************************)
EXTENDS CookieDiff, SequencesExt

CONSTANTS Transaction, NoTransaction, HistoryLimit, MaxRevision,
          Batch, ExternalDiff

ASSUME StoreAssumption ==
  /\ HistoryLimit \in Nat \ {0}
  /\ MaxRevision \in Nat
  /\ Batch \subseteq Vector
  /\ ExternalDiff \subseteq Diff
  /\ NoTransaction \notin [base_revision : 0..MaxRevision,
                           base : Collection, working : Vector]

VARIABLES
  revision,   \* CookieStore.revision
  cookies,    \* CookieStore.cookies
  history,    \* CookieStore.history, newest first
  tx,         \* the transactions alive
  replaced    \* not in the code: the contents each record of history replaced

vars == <<revision, cookies, history, tx, replaced>>

Revision == 0..MaxRevision

Record == [revision : Revision, parent_revision : Revision, diff : Diff]

CookieTransaction ==
  [base_revision : Revision, base : Collection, working : Vector]

\* Collecting a vector into a map: the last cookie of a key wins.
Keyed(working) ==
  [k \in Key |-> IF working[k] = <<>> THEN NoCookie ELSE Last(working[k])]

\* The vector of a map's values.
Listed(c) == [k \in Key |-> IF c[k] = NoCookie THEN <<>> ELSE <<c[k]>>]

\* u64::saturating_add(1)
NextRevision(r) == IF r < MaxRevision THEN r + 1 ELSE r

\* A faulty PushFront, which trims before it pushes.
PushFrontWhileRoom(x, s, limit) ==
  IF Len(s) < limit THEN <<x>> \o s ELSE s

\* push_front, then pop_back down to the limit.
PushFront(x, s, limit) ==
  [i \in 1..(IF Len(s) < limit THEN Len(s) + 1 ELSE limit) |->
     IF i = 1 THEN x ELSE s[i - 1]]

Init ==
  /\ revision = 0
  /\ \E batch \in Batch : cookies = Keyed(batch)
  /\ history = <<>>
  /\ tx = [t \in Transaction |-> NoTransaction]
  /\ replaced = <<>>

Open(t) == tx[t] # NoTransaction

(***************************************************************************)
(* Operations of a transaction.                                            *)
(***************************************************************************)
Begin(t) ==
  /\ ~Open(t)
  /\ tx' = [tx EXCEPT ![t] = [base_revision |-> revision,
                              base          |-> cookies,
                              working       |-> Listed(cookies)]]
  /\ UNCHANGED <<revision, cookies, history, replaced>>

\* CookieTransaction derives Clone.
Clone(t, u) ==
  /\ Open(t) /\ ~Open(u)
  /\ tx' = [tx EXCEPT ![u] = tx[t]]
  /\ UNCHANGED <<revision, cookies, history, replaced>>

Edit(t, working) ==
  /\ tx' = [tx EXCEPT ![t].working = working]
  /\ UNCHANGED <<revision, cookies, history, replaced>>

\* insert drops the first cookie of the key and pushes the new one.
Insert(t, cookie) ==
  /\ Open(t)
  /\ LET old == tx[t].working
     IN Edit(t, [old EXCEPT ![cookie.key] =
                   Append(IF @ = <<>> THEN <<>> ELSE Tail(@), cookie)])

\* remove takes out the first cookie of the key, if there is one.
RemoveCookie(t, k) ==
  /\ Open(t)
  /\ tx[t].working[k] # <<>>
  /\ LET old == tx[t].working IN Edit(t, [old EXCEPT ![k] = Tail(@)])

\* retain: the keys of the cookies that fail the predicate go entirely.
Retain(t, failing) ==
  /\ Open(t)
  /\ Edit(t, [k \in Key |-> IF k \in failing THEN <<>>
                            ELSE tx[t].working[k]])

Clear(t) == Open(t) /\ Edit(t, [k \in Key |-> <<>>])

ReplaceCollection(t, batch) == Open(t) /\ Edit(t, batch)

Close(t) == tx' = [tx EXCEPT ![t] = NoTransaction]

Abort(t) ==
  /\ Open(t)
  /\ Close(t)
  /\ UNCHANGED <<revision, cookies, history, replaced>>

(***************************************************************************)
(* Operations of the store.                                                *)
(***************************************************************************)
\* The effect of a commit that is not refused.
Install(base, working) ==
  /\ revision' = NextRevision(revision)
  /\ cookies' = Keyed(working)
  /\ history' = PushFront([revision        |-> NextRevision(revision),
                           parent_revision |-> revision,
                           diff |-> diff_collections(base, Keyed(working))],
                          history, HistoryLimit)
  /\ replaced' = PushFront(cookies, replaced, HistoryLimit)

\* A faulty Stale: only a revision from the future is refused.
StaleNever(t) == tx[t].base_revision > revision

\* The check that makes the control optimistic.
Stale(t) == tx[t].base_revision # revision

\* commit consumes the transaction, refused or not.
Commit(t) ==
  /\ Open(t) /\ ~Stale(t)
  /\ Install(tx[t].base, tx[t].working)
  /\ Close(t)

RefuseCommit(t) ==
  /\ Open(t) /\ Stale(t)
  /\ Close(t)
  /\ UNCHANGED <<revision, cookies, history, replaced>>

\* The inner transaction of the direct operations is born and committed here.
ApplyExternalDiff(expected, diff, strategy) ==
  LET report == apply_diff(cookies, diff, strategy)
  IN /\ expected = revision
     /\ UNCHANGED tx
     /\ strategy = "reject" => report.conflicts = {}
     /\ \E contents \in Collected(report.map) : Install(cookies, Listed(contents))

Restore(batch) == Install(cookies, batch) /\ UNCHANGED tx

RollbackReport ==
  apply_diff(cookies, invert(history[1].diff), "reject")

\* A faulty RollbackLast: it returns to the parent's revision number.
RollbackLastToParent ==
  /\ history # <<>>
  /\ RollbackReport.conflicts = {}
  /\ revision' = history[1].parent_revision
  /\ cookies' \in Collected(RollbackReport.map)
  /\ history' = Tail(history)
  /\ replaced' = Tail(replaced)
  /\ UNCHANGED tx

RollbackLast ==
  /\ history # <<>>
  /\ RollbackReport.conflicts = {}
  /\ \E contents \in Collected(RollbackReport.map) :
       Install(cookies, Listed(contents))
  /\ UNCHANGED tx

TransactionNext(t) ==
  \/ Begin(t)
  \/ \E u \in Transaction : Clone(t, u)
  \/ \E cookie \in Cookie : Insert(t, cookie)
  \/ \E k \in Key : RemoveCookie(t, k)
  \/ \E failing \in SUBSET Key : Retain(t, failing)
  \/ Clear(t)
  \/ \E batch \in Batch : ReplaceCollection(t, batch)
  \/ Abort(t)
  \/ Commit(t)
  \/ RefuseCommit(t)

StoreNext ==
  \/ \E expected \in Revision, diff \in ExternalDiff, strategy \in Strategy :
       ApplyExternalDiff(expected, diff, strategy)
  \/ \E batch \in Batch : Restore(batch)
  \/ RollbackLast

Next == StoreNext \/ \E t \in Transaction : TransactionNext(t)

Spec == Init /\ [][Next]_vars

(***************************************************************************)
(* Properties.                                                             *)
(***************************************************************************)
TypeOK ==
  /\ revision \in Revision
  /\ cookies \in Collection
  /\ history \in Seq(Record) /\ Len(history) <= HistoryLimit
  /\ tx \in [Transaction -> CookieTransaction \cup {NoTransaction}]
  /\ replaced \in Seq(Collection) /\ Len(replaced) = Len(history)

\* The records that are kept form an unbroken chain of revisions that ends
\* at the store's own revision, whatever was trimmed, committed, refused,
\* restored or rolled back in between.
HistoryChain ==
  \A i \in 1..Len(history) :
    /\ history[i].revision =
         IF i = 1 THEN revision ELSE history[i - 1].parent_revision
    /\ history[i].revision = NextRevision(history[i].parent_revision)

\* What has been seen of the store at each revision: by the store itself, by
\* the transactions opened on it and by the commits that replaced it.
Seen ==
  {<<revision, cookies>>}
    \cup {<<tx[t].base_revision, tx[t].base>> : t \in {u \in Transaction : Open(u)}}
    \cup {<<history[i].parent_revision, replaced[i]>> : i \in 1..Len(history)}

\* Until the counter saturates a revision names one collection: equal
\* revisions, the only thing commit compares, mean equal contents, so a
\* commit that is accepted never overwrites an update it has not seen.
RevisionNamesContents ==
  \A p, q \in Seen : p[1] = q[1] /\ p[1] < MaxRevision => p[2] = q[2]

\* The newest record describes the step from the contents it replaced to the
\* contents of the store.  (A commit made at u64::MAX may have been stale.)
LastCommitCounted ==
  history # <<>> /\ history[1].parent_revision < MaxRevision

\* rollback_last finds no conflict with the commit it undoes, unless a NaN
\* expiration date makes a cookie differ from itself.
RollbackNeverRefused ==
  LastCommitCounted /\ Ordinary(cookies) => RollbackReport.conflicts = {}

\* A rollback puts back what the last commit replaced, down to the fields a
\* diff compares, whether that commit was a transaction's, an external diff,
\* a restore or another rollback.
RollbackRestores ==
  [][RollbackLast /\ LastCommitCounted
       => SameFields(cookies', replaced[1])]_vars

\* A regular external diff that the reject strategy lets through has an exact
\* inverse, even if it removes a key and adds it again: applying it backwards
\* meets no conflict and gives the contents the diff was applied to.  (NaN
\* excepted, as above.  The exact inverse of a diff that modifies a key twice
\* would modify it in the opposite order, which invert does not, and what a
\* change of key puts in a slot is collected under another key.)
RejectIsReversible ==
  [][\A diff \in ExternalDiff :
       /\ Regular(diff) /\ Ordinary(cookies')
       /\ ApplyExternalDiff(revision, diff, "reject")
       => apply_diff(cookies', invert(diff), "reject")
            = [map |-> cookies, conflicts |-> {}]]_vars

(***************************************************************************)
(* What the proofs need beside these: nothing is known of a revision the   *)
(* store has not reached, and the newest record is the difference between  *)
(* the contents its commit replaced and the contents of the store.         *)
(***************************************************************************)
SeenReached == \A p \in Seen : p[1] <= revision

LastRecordDescribes ==
  LastCommitCounted =>
    history[1].diff = diff_collections(replaced[1], cookies)

IInv == /\ TypeOK
        /\ SeenReached
        /\ RevisionNamesContents
        /\ LastRecordDescribes

\* Until the revision saturates, the store implements the abstract one: every
\* commit is of a transaction whose base revision still names the contents
\* that the store had when it was opened, and every other one is refused.
Optimistic == INSTANCE OptimisticStore WITH
  Client    <- Transaction,
  Contents  <- Collection,
  contents  <- cookies,
  open      <- {t \in Transaction : Open(t)},
  current   <- {t \in Transaction : Open(t) /\ tx[t].base_revision = revision},
  exhausted <- revision = MaxRevision

ImplementsOptimisticStore == Optimistic!Spec
=============================================================================
