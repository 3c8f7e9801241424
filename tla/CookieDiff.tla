------------------------------ MODULE CookieDiff ------------------------------
(***************************************************************************)
(* Cookie collections of luck-core and the differences between them        *)
(* (rust/crates/luck-core/src/diff.rs).                                    *)
(*                                                                         *)
(* A collection is a function from composite keys to cookies, NoCookie     *)
(* where the key is absent: the BTreeMap that every operation of diff.rs   *)
(* and store.rs collects the vector of cookies into.  A cookie keeps what  *)
(* the operations tell apart:                                              *)
(*   key       its composite key;                                          *)
(*   fields    the fields that changed_fields compares (value, flags,      *)
(*             expiry, metadata, ...), as one value;                       *)
(*   store_id  how the store id is spelled.  CookieKey reads None and      *)
(*             Some("") as the same identity and changed_fields does not   *)
(*             look at it, but the derived PartialEq does.                 *)
(* NaN is the subset of Field with a not-a-number expiration_date, which   *)
(* is not equal to itself.                                                 *)
(***************************************************************************)
EXTENDS Naturals, Sequences

CONSTANTS Key, Field, Spelling, NaN, NoCookie

Cookie == [key : Key, fields : Field, store_id : Spelling]

Slot == Cookie \cup {NoCookie}

Collection == {c \in [Key -> Slot] : \A k \in Key : c[k] # NoCookie => c[k].key = k}

ASSUME CookieAssumption ==
  /\ NaN \subseteq Field
  /\ NoCookie \notin Cookie

Empty == [k \in Key |-> NoCookie]

\* Vectors of cookies, which may hold several of one key: a function from the
\* key to its cookies in vector order.
Vector == {v \in [Key -> Seq(Cookie)] :
             \A k \in Key : \A i \in DOMAIN v[k] : v[k][i].key = k}

Strategy == {"reject", "prefer_base", "prefer_diff"}

(***************************************************************************)
(* CookieDiff: public vectors, which a diff that comes from outside fills  *)
(* as it likes.  The modifications are grouped by the key they name, in    *)
(* vector order; their two cookies may have other keys.                    *)
(***************************************************************************)
Diff == [added    : Vector,
         removed  : Vector,
         modified : [Key -> Seq([before : Cookie, after : Cookie])]]

\* The derived `==` of Cookie: NaN makes a cookie different from itself.
SameCookie(a, b) == a = b /\ a.fields \notin NaN

\* changed_fields(before, after) is not empty.
FieldsChanged(a, b) == a.fields # b.fields \/ a.fields \in NaN

Modified(b, a, k) ==
  b[k] # NoCookie /\ a[k] # NoCookie /\ FieldsChanged(b[k], a[k])

diff_collections(b, a) ==
  [added    |-> [k \in Key |-> IF b[k] = NoCookie /\ a[k] # NoCookie
                               THEN <<a[k]>> ELSE <<>>],
   removed  |-> [k \in Key |-> IF a[k] = NoCookie /\ b[k] # NoCookie
                               THEN <<b[k]>> ELSE <<>>],
   modified |-> [k \in Key |-> IF Modified(b, a, k)
                               THEN <<[before |-> b[k], after |-> a[k]]>> ELSE <<>>]]

\* invert keeps the order of the vectors.
invert(d) ==
  [added    |-> d.removed,
   removed  |-> d.added,
   modified |-> [k \in Key |-> [i \in DOMAIN d.modified[k] |->
                   [before |-> d.modified[k][i].after,
                    after  |-> d.modified[k][i].before]]]]

(***************************************************************************)
(* apply_diff goes through the removals, the modifications and the         *)
(* additions.  Each entry touches one slot of the map, so what happens to  *)
(* a slot is a sequence of changes, with NoCookie before an addition and   *)
(* after a removal.                                                        *)
(***************************************************************************)
Changes(d, k) ==
  [i \in DOMAIN d.removed[k] |-> [before |-> d.removed[k][i], after |-> NoCookie]]
    \o d.modified[k]
    \o [i \in DOMAIN d.added[k] |-> [before |-> NoCookie, after |-> d.added[k][i]]]

\* A faulty Fits: only an absent cookie is a conflict.
FitsPresent(held, before) == held = NoCookie <=> before = NoCookie

\* The precondition of a change.
Fits(held, before) ==
  IF before = NoCookie THEN held = NoCookie ELSE SameCookie(held, before)

\* A faulty Changed: it puts back the cookie it replaces.
ChangedBack(held, change, strategy) ==
  IF Fits(held, change.before) \/ strategy = "prefer_diff"
  THEN change.before ELSE held

Changed(held, change, strategy) ==
  IF Fits(held, change.before) \/ strategy = "prefer_diff"
  THEN change.after ELSE held

\* What a slot holds after so many of its changes.
Held(start, changes, strategy) ==
  LET held[n \in 0..Len(changes)] ==
        IF n = 0 THEN start ELSE Changed(held[n - 1], changes[n], strategy)
  IN held

\* apply_diff: the map it ends with, where a modification may have put a
\* cookie of another key, and the keys its report lists conflicts for.
apply_diff(c, d, strategy) ==
  [map |-> [k \in Key |->
              Held(c[k], Changes(d, k), strategy)[Len(Changes(d, k))]],
   conflicts |-> {k \in Key : \E i \in 1..Len(Changes(d, k)) :
                    ~Fits(Held(c[k], Changes(d, k), strategy)[i - 1],
                          Changes(d, k)[i].before)}]

\* Collecting the values of such a map by their own keys.  Which of several
\* cookies of one key comes last in the sorted report is left open.
Collected(map) ==
  LET own(k) == {map[i] : i \in {j \in Key : map[j] # NoCookie /\ map[j].key = k}}
      last(k) == IF own(k) = {} THEN {NoCookie} ELSE own(k)
  IN {c \in [Key -> UNION {last(k) : k \in Key}] : \A k \in Key : c[k] \in last(k)}

(***************************************************************************)
(* What changed_fields can see of a collection: the spelling of the store  *)
(* id is invisible.                                                        *)
(***************************************************************************)
SameFields(c1, c2) ==
  \A k \in Key : /\ c1[k] = NoCookie <=> c2[k] = NoCookie
                 /\ c1[k] # NoCookie => c1[k].fields = c2[k].fields

\* No cookie of the collection has a NaN expiration date.
Ordinary(c) == \A k \in Key : c[k] # NoCookie => c[k].fields \notin NaN

\* A diff modifies no key twice, and no cookie into one of another key.
\* Nothing in the code requires it of a diff from outside.
Regular(d) ==
  \A k \in Key : /\ Len(d.modified[k]) <= 1
                 /\ \A i \in DOMAIN d.modified[k] : d.modified[k][i].after.key = k
=============================================================================
