----------------------------- MODULE MCCookieEdits -----------------------------
(* Instances of CookieEdits for TLC. *)
EXTENDS CookieEdits, TLC

CONSTANTS root, sub, far, v1, v2

Secure(k) == [key |-> k, secure |-> TRUE]

Plain(k) == [key |-> k, secure |-> FALSE]

\* The cookies root and sub have one name and the paths "/" and "/sub", so the
\* URL of sub meets both; far belongs to another host.  A URL of http: meets
\* no Secure cookie.
Urls ==
  [r \in Record |->
     {q \in Record : /\ q.key \in (IF r.key = sub THEN {root, sub} ELSE {r.key})
                     /\ q.secure => r.secure}]

Scope == {r \in Record : r.key # far}

Some(kind, records, previous, overwrite) ==
  [kind |-> kind, records |-> records, value |-> v2, previous |-> previous,
   overwrite |-> overwrite]

Inputs ==
  {Some("save", <<Secure(root)>>, p, FALSE) : p \in {None, Secure(sub)}}
    \cup {Some("save", <<Plain(sub)>>, Plain(root), FALSE),
          Some("delete", <<Secure(sub)>>, None, FALSE),
          Some("delete-selected", <<Plain(root), Secure(far)>>, None, FALSE),
          Some("import", <<Plain(root), Plain(far)>>, None, TRUE),
          Some("import", <<Plain(far), Plain(sub), Secure(root)>>, None, FALSE)}

Symmetry == Permutations(Handler)
=============================================================================
