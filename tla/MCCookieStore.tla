----------------------------- MODULE MCCookieStore -----------------------------
(* Instances of CookieStore for TLC. *)
EXTENDS CookieStore, TLC

CONSTANTS k1, f1, nan, blank, unset

Plain(k, field) == [key |-> k, fields |-> field, store_id |-> unset]

\* One collection, with one cookie.
SmallBatch == {[k \in Key |-> IF k = k1 THEN <<Plain(k1, f1)>> ELSE <<>>]}

\* Vectors that name every key twice, and the empty one.
RepeatingBatch ==
  {[k \in Key |-> <<>>]}
    \cup {[k \in Key |-> <<Plain(k, f1), [Plain(k, field) EXCEPT !.store_id = id]>>] :
            field \in Field, id \in Spelling}

Nothing == [k \in Key |-> <<>>]

Modifying(modifications) ==
  [added |-> Nothing, removed |-> Nothing,
   modified |-> [Nothing EXCEPT ![k1] = modifications]]

\* Regular diffs that remove, modify and add the key in every combination,
\* and irregular ones that modify it twice.  Two ordinary cookies of a key
\* differ in the spelling of the store id.
AnyDiff ==
  LET blanked == [Plain(k1, f1) EXCEPT !.store_id = blank]
      upto(S) == {<<>>} \cup {<<x>> : x \in S}
      change(b, a) == [before |-> b, after |-> a]
      changes == {change(Plain(k1, f1), blanked), change(blanked, Plain(k1, f1))}
  IN {[added    |-> [Nothing EXCEPT ![k1] = a],
       removed  |-> [Nothing EXCEPT ![k1] = r],
       modified |-> [Nothing EXCEPT ![k1] = m]] :
        a \in upto({blanked, Plain(k1, nan)}),
        r \in upto({Plain(k1, f1), blanked}),
        m \in upto(changes)}
     \cup {Modifying(<<m, n>>) : <<m, n>> \in {p \in changes \X changes : p[1] # p[2]}}

\* The diffs that add the cookie of one key and move it to another.
AddAndMove ==
  {[added |-> [Nothing EXCEPT ![k1] = <<Plain(k1, f1)>>],
    removed |-> Nothing, modified |-> Nothing]}
    \cup {Modifying(<<[before |-> Plain(k1, f1), after |-> Plain(k, f1)]>>) :
            k \in Key \ {k1}}

Symmetry == Permutations(Transaction)
=============================================================================
