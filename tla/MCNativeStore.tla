----------------------------- MODULE MCNativeStore -----------------------------
(* Instances of NativeStore for TLC: threads, keys and cookies are             *)
(* interchangeable, and of a finished transaction nothing is read any more.    *)
EXTENDS NativeStore, TLC

Symmetry == Permutations(Client) \cup Permutations(Key) \cup Permutations(Cookie)

Unfinished(t) == t = NoTransaction \/ ~t.finished

Read == <<cookies_, version_, seen, torn,
          [c \in Client |-> Unfinished(txn[c])],
          [c \in {d \in Client : Unfinished(txn[d])} |-> txn[c]]>>
=============================================================================
