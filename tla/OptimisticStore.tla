---------------------------- MODULE OptimisticStore ----------------------------
(***************************************************************************)
(* What both transactional stores of the repository promise, with no       *)
(* revision numbers in it: a client that opened a transaction may publish  *)
(* only while nothing has been published over the contents it opened on.   *)
(* docs/architecture.md calls it optimistic revision control, and the      *)
(* threat model relies on it against stale commits.  CookieStore (Rust)    *)
(* and NativeStore (C++) implement this specification.                     *)
(*                                                                         *)
(* Both number their contents with 64 bits.  A store whose numbers are     *)
(* used up is `exhausted`, and from then on nothing is promised.           *)
(***************************************************************************)
CONSTANTS Client, Contents

VARIABLES
  contents,   \* what the store holds
  open,       \* the clients with a transaction
  current,    \* those whose transaction was opened on these contents
  exhausted

vars == <<contents, open, current, exhausted>>

TypeOK == /\ contents \in Contents
          /\ open \subseteq Client
          /\ current \subseteq open
          /\ exhausted \in BOOLEAN

Init == /\ contents \in Contents
        /\ open = {} /\ current = {}
        /\ exhausted \in BOOLEAN

\* A transaction begins on these contents, or as a copy of a stale one.
Begin(c) == /\ c \notin open
            /\ open' = open \cup {c}
            /\ current' \in {current, current \cup {c}}
            /\ UNCHANGED contents

\* Publishing something new makes every other open transaction a stale one.
Change == /\ contents' \in Contents
          /\ current' \subseteq current
          /\ contents' # contents => current' = {}

\* A commit: only the transactions that are current get here.
Publish(c) == /\ c \in current
              /\ open' = open \ {c}
              /\ c \notin current'
              /\ Change

\* A transaction that is rolled back, or refused because it is stale.
Drop(c) == /\ c \in open
           /\ open' = open \ {c}
           /\ current' = current \ {c}
           /\ UNCHANGED contents

\* A mutation of the store itself; no transaction ends by it.
Overwrite == Change /\ UNCHANGED open

Serve == \/ \E c \in Client : Begin(c) \/ Publish(c) \/ Drop(c)
         \/ Overwrite

Exhausted == /\ exhausted /\ exhausted'
             /\ contents' \in Contents
             /\ open' \subseteq Client

Next == Exhausted \/ (~exhausted /\ Serve /\ exhausted' \in BOOLEAN)

Spec == Init /\ [][Next]_vars
=============================================================================
