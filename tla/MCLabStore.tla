------------------------------ MODULE MCLabStore ------------------------------
(* Instances of LabStore for TLC: every cookie has a key of its own. *)
EXTENDS LabStore

CONSTANTS hostRoot, hostPath, dots3, dots2, dots1, plain

Same == [c \in Cookie |-> c]

\* hostRoot and hostPath are a `__Host-` cookie at "/" and at another path.
HostPathLost == [c \in Cookie |-> IF c = hostPath THEN hostRoot ELSE c]

\* A cookie whose domain ends in up to three dots, one less with every clone.
DotLost == [c \in Cookie |-> CASE c = dots3 -> dots2
                               [] c = dots2 -> dots1
                               [] c = dots1 -> plain
                               [] OTHER -> c]

\* All cookies, or one that cloning leaves alone.
AllOrPlain == {Cookie, {plain}}

All == {Cookie}

Typed == {dots1}

\* What the parser returns: clones of cookies of distinct keys, whose own keys
\* may coincide.
Distinct == {list \in Cookies : \A r, s \in DOMAIN list : list[r] = list[s] => r = s}

Pasted == {list \in Distinct : \A r \in DOMAIN list : list[r] = dots3} \cup
          {list \in Cookies : \A r \in DOMAIN list : list[r] \in {plain, hostRoot}}

\* Files that select what they list, and what they do not.
Saved == [cookies : {list \in Distinct : \A r \in DOMAIN list : list[r] = plain},
          selected : {{plain}}, filter : All]

Rows == Permutations(Row)
=============================================================================
