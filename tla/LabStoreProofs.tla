---------------------------- MODULE LabStoreProofs ----------------------------
(***************************************************************************)
(* Proofs about LabStore: the timeline of undo and redo is bounded, undo   *)
(* and redo keep it up to cloning, the selection names cookies that are    *)
(* there while cloning leaves the keys alone, and every list that is       *)
(* changed can be had back as it was shown.  What cloning makes of a       *)
(* cookie is left open, but for the key depending on the key.              *)
(***************************************************************************)
EXTENDS LabStore, SequenceTheorems, TLAPS

TypeOK == /\ lab \in Capture
          /\ history \in Seq(Capture)
          /\ future \in Seq(Capture)

IInv == TypeOK /\ TimelineBounded

-----------------------------------------------------------------------------
(* Lists. *)

\* A function from some of the rows to cookies is a list.
LEMMA IsList ==
  ASSUME NEW rows \in SUBSET Row, NEW f \in [rows -> Cookie]
  PROVE  f \in Cookies
  BY DEF Cookies

\* What a list consists of.
LEMMA OfList ==
  ASSUME NEW list \in Cookies
  PROVE  /\ DOMAIN list \in SUBSET Row
         /\ list \in [DOMAIN list -> Cookie]
  BY DEF Cookies

\* Cloning, removing and adding make lists of lists.
LEMMA ListTyping ==
  /\ \A list \in Cookies : Cloned(list) \in Cookies /\ Keys(list) \in SUBSET Key
  /\ \A list \in Cookies, keys \in SUBSET Key : Without(list, keys) \in Cookies
  /\ NoCookies \in Cookies
  <1>1. ASSUME NEW list \in Cookies
        PROVE  Cloned(list) \in Cookies /\ Keys(list) \in SUBSET Key
    <2>1. Cloned(list) \in [DOMAIN list -> Cookie]
      BY OfList, LabAssumption DEF Cloned
    <2>2. Keys(list) \in SUBSET Key
      BY OfList, LabAssumption DEF Keys
    <2>3. QED
      BY <2>1, <2>2, OfList, IsList
  <1>2. ASSUME NEW list \in Cookies, NEW keys \in SUBSET Key
        PROVE  Without(list, keys) \in Cookies
    <2> DEFINE rows == {row \in DOMAIN list : KeyOf[list[row]] \notin keys}
    <2>1. rows \in SUBSET Row /\ \A r \in rows : list[r] \in Cookie
      BY OfList
    <2>2. Without(list, keys) = [r \in rows |-> list[r]]
      BY DEF Without
    <2> HIDE DEF rows
    <2>3. QED
      BY <2>1, <2>2, IsList
  <1>3. NoCookies \in Cookies
    <2>1. NoCookies \in [{} -> Cookie]
      BY DEF NoCookies
    <2>2. QED
      BY <2>1, IsList
  <1>4. QED
    BY <1>1, <1>2, <1>3

\* The keys of the rows that are shown are keys.
LEMMA VisibleTyping ==
  ASSUME lab \in Capture
  PROVE  Visible \in SUBSET Key
  <1> DEFINE rows == {row \in DOMAIN lab.cookies : lab.cookies[row] \in lab.filter}
             shown == [r \in rows |-> lab.cookies[r]]
  <1>1. lab.cookies \in Cookies
    BY DEF Capture
  <1>2. rows \in SUBSET Row /\ shown \in [rows -> Cookie]
    BY <1>1, OfList
  <1>3. Visible = Keys(Cloned(shown))
    BY DEF Visible
  <1> HIDE DEF rows, shown
  <1>4. QED
    BY <1>2, <1>3, IsList, ListTyping

\* A capture with other parts.
LEMMA Relisted ==
  ASSUME NEW x \in Capture, NEW list \in Cookies
  PROVE  /\ [x EXCEPT !.cookies = list] \in Capture
         /\ [x EXCEPT !.cookies = list].selected = x.selected
         /\ [x EXCEPT !.cookies = list].cookies = list
  BY DEF Capture

Retaken(x, list, keys) == [x EXCEPT !.cookies = list, !.selected = keys]

LEMMA Recaptured ==
  ASSUME NEW x \in Capture, NEW list \in Cookies, NEW keys \in SUBSET Key
  PROVE  /\ Retaken(x, list, keys) \in Capture
         /\ Retaken(x, list, keys).cookies = list
         /\ Retaken(x, list, keys).selected = keys
  BY DEF Capture, Retaken

\* A copy is a capture with the same selection.
LEMMA CopiedTyping ==
  ASSUME NEW x \in Capture
  PROVE  /\ Copied(x) \in Capture
         /\ Copied(x).cookies = Cloned(x.cookies)
         /\ Copied(x).selected = x.selected
  <1>1. x.cookies \in Cookies
    BY DEF Capture
  <1>2. PICK list \in Cookies : list = Cloned(x.cookies)
    BY <1>1, ListTyping
  <1>3. Copied(x) = [x EXCEPT !.cookies = list]
    BY <1>2 DEF Copied
  <1>4. QED
    BY <1>2, <1>3, Relisted

\* So is what is left when a key is removed.
LEMMA RemovedTyping ==
  ASSUME NEW x \in Capture, NEW k \in Key
  PROVE  /\ Removed(x, k) \in Capture
         /\ Removed(x, k).cookies = Without(x.cookies, {k})
         /\ Removed(x, k).selected = x.selected \ {k}
  <1>1. x.cookies \in Cookies /\ x.selected \in SUBSET Key
    BY DEF Capture
  <1>2. PICK list \in Cookies : list = Without(x.cookies, {k})
    BY <1>1, ListTyping
  <1>3. PICK keys \in SUBSET Key : keys = x.selected \ {k}
    BY <1>1
  <1>4. Removed(x, k) = Retaken(x, list, keys)
    BY <1>2, <1>3 DEF Removed, Retaken
  <1>5. /\ Removed(x, k) \in Capture
        /\ Removed(x, k).cookies = list
        /\ Removed(x, k).selected = keys
    BY <1>4, Recaptured
  <1>6. QED
    BY <1>2, <1>3, <1>5

\* And what a candidate is added to.
LEMMA AddedTyping ==
  ASSUME NEW x \in Capture, NEW candidate \in Candidate, NEW row \in Row
  PROVE  /\ Added(x, candidate, row) \in Capture
         /\ Added(x, candidate, row).selected = x.selected
  <1> DEFINE kept == Without(x.cookies, {KeyOf[candidate]})
             list == [r \in DOMAIN kept \cup {row} |->
                        IF r = row THEN CloneOf[candidate] ELSE kept[r]]
  <1>1. x.cookies \in Cookies /\ KeyOf[candidate] \in Key
        /\ CloneOf[candidate] \in Cookie
    BY LabAssumption DEF Capture
  <1>2. kept \in Cookies
    BY <1>1, ListTyping
  <1> HIDE DEF kept
  <1>3. DOMAIN kept \in SUBSET Row /\ kept \in [DOMAIN kept -> Cookie]
    BY <1>2, OfList
  <1>4. list \in [DOMAIN kept \cup {row} -> Cookie]
    BY <1>1, <1>3
  <1> HIDE DEF list
  <1>5. list \in Cookies
    BY <1>3, <1>4, IsList
  <1>6. Added(x, candidate, row) = [x EXCEPT !.cookies = list]
    BY DEF Added, kept, list
  <1>7. QED
    BY <1>5, <1>6, Relisted

-----------------------------------------------------------------------------
(* Sequences of captures. *)

\* The last element and what is before it.
LEMMA FrontAndLast ==
  ASSUME NEW S, NEW s \in Seq(S), s # <<>>
  PROVE  /\ Last(s) \in S
         /\ Front(s) \in Seq(S)
         /\ Len(Front(s)) = Len(s) - 1
         /\ \A i \in 1..(Len(s) - 1) : Front(s)[i] = s[i]
  <1>1. Len(s) \in Nat \ {0} /\ \A i \in 1..Len(s) : s[i] \in S
    BY EmptySeq, ElementOfSeq
  <1> DEFINE n == Len(s) - 1
  <1>n. n \in Int /\ \A i \in 1..n : s[i] \in S
    BY <1>1
  <1>2. /\ SubSeq(s, 1, n) \in Seq(S)
        /\ Len(SubSeq(s, 1, n)) = n
        /\ \A i \in 1..n : SubSeq(s, 1, n)[i] = s[i]
    <2>1. n \in Nat
      BY <1>1
    <2> HIDE DEF n
    <2>2. /\ SubSeq(s, 1, n) \in Seq(S)
          /\ Len(SubSeq(s, 1, n)) = IF 1 <= n THEN n - 1 + 1 ELSE 0
          /\ \A i \in 1..(n - 1 + 1) : SubSeq(s, 1, n)[i] = s[1 + i - 1]
      BY <1>n, SubSeqProperties
    <2>3. QED
      BY <2>1, <2>2
  <1>3. QED
    BY <1>1, <1>2 DEF Last, Front

\* Reverse gives a sequence of the same elements.
LEMMA ReverseTyping ==
  ASSUME NEW S, NEW s \in Seq(S)
  PROVE  /\ Reverse(s) \in Seq(S)
         /\ Len(Reverse(s)) = Len(s)
         /\ \A i \in 1..Len(s) : Reverse(s)[i] = s[Len(s) - i + 1]
  BY DEF Reverse

\* A checkpoint makes a history of the captures it had and the new one, no
\* longer than the maximum.
LEMMA CheckpointTyping ==
  ASSUME NEW past \in Seq(Capture), NEW x \in Capture,
         Len(past) <= MaximumHistory
  PROVE  /\ Checkpointed(past, x) \in Seq(Capture)
         /\ Len(Checkpointed(past, x)) <= MaximumHistory
  <1>1. MaximumHistory \in Nat /\ MaximumHistory # 0
    BY LabAssumption
  <1>c. PICK copy : copy = Copied(x) /\ copy \in Capture
    BY CopiedTyping
  <1>2. CASE Len(past) < MaximumHistory
    BY <1>1, <1>2, <1>c DEF Checkpointed
  <1>3. CASE ~(Len(past) < MaximumHistory)
    <2>1. past # <<>> /\ Len(past) = MaximumHistory
      BY <1>1, <1>3
    <2>2. Tail(past) \in Seq(Capture) /\ Len(Tail(past)) = Len(past) - 1
      BY <2>1
    <2>3. QED
      BY <1>1, <1>3, <1>c, <2>1, <2>2 DEF Checkpointed
  <1>4. QED
    BY <1>2, <1>3

-----------------------------------------------------------------------------
\* The invariant holds at the start and is kept by every step.
LEMMA InitInvariant == Init => IInv
  <1> SUFFICES ASSUME Init PROVE IInv
    OBVIOUS
  <1>1. lab \in Capture
    BY ListTyping, LabAssumption DEF Init, Capture
  <1>2. QED
    BY <1>1, LabAssumption DEF Init, IInv, TypeOK, TimelineBounded

\* An edit that leaves a capture keeps the invariant.
LEMMA EditInvariant ==
  ASSUME IInv, NEW new \in Capture, Edit(new)
  PROVE  IInv'
  <1>1. Len(history) <= MaximumHistory
    BY LabAssumption DEF IInv, TypeOK, TimelineBounded
  <1>2. /\ Checkpointed(history, lab) \in Seq(Capture)
        /\ Len(Checkpointed(history, lab)) <= MaximumHistory
    BY <1>1, CheckpointTyping DEF IInv, TypeOK
  <1>3. QED
    BY <1>2, LabAssumption DEF IInv, TypeOK, TimelineBounded, Edit

\* The captures that the edits leave.
LEMMA EditedTyping ==
  ASSUME lab \in Capture
  PROVE  /\ \A list \in Cookies : Replaced(list) \in Capture
         /\ [r \in DOMAIN lab.cookies |-> Canonical[CloneOf[lab.cookies[r]]]]
              \in Cookies
         /\ [lab EXCEPT !.cookies = Without(@, lab.selected),
                        !.selected = {}] \in Capture
         /\ [lab EXCEPT !.cookies = NoCookies, !.selected = {}] \in Capture
  <1>1. lab.cookies \in Cookies /\ lab.selected \in SUBSET Key
    BY DEF Capture
  <1>2. \A list \in Cookies : Replaced(list) \in Capture
    BY ListTyping, Recaptured DEF Replaced, Retaken
  <1>3. [r \in DOMAIN lab.cookies |-> Canonical[CloneOf[lab.cookies[r]]]]
          \in [DOMAIN lab.cookies -> Cookie]
    BY <1>1, OfList, LabAssumption
  <1>4. Without(lab.cookies, lab.selected) \in Cookies
    BY <1>1, ListTyping
  <1>5. QED
    BY <1>1, <1>2, <1>3, <1>4, ListTyping, Recaptured, IsList, OfList
       DEF Retaken

\* What SaveEditor makes of the workspace.
Between(old, candidate) ==
  IF old # KeyOf[candidate] /\ old \in Keys(lab.cookies) THEN Removed(lab, old)
  ELSE lab

Past(old, candidate) ==
  IF old # KeyOf[candidate] /\ old \in Keys(lab.cookies)
  THEN Checkpointed(history, lab) ELSE history

LEMMA SaveTyping ==
  ASSUME IInv, NEW old \in Key, NEW candidate \in Candidate
  PROVE  /\ Between(old, candidate) \in Capture
         /\ Past(old, candidate) \in Seq(Capture)
         /\ Len(Past(old, candidate)) <= MaximumHistory
  <1>1. lab \in Capture /\ history \in Seq(Capture)
        /\ Len(history) <= MaximumHistory
    BY LabAssumption DEF IInv, TypeOK, TimelineBounded
  <1>2. QED
    BY <1>1, RemovedTyping, CheckpointTyping DEF Between, Past

LEMMA NextInvariant == IInv /\ [Next]_vars => IInv'
  <1> SUFFICES ASSUME IInv, [Next]_vars PROVE IInv'
    OBVIOUS
  <1>t. /\ lab \in Capture /\ history \in Seq(Capture)
        /\ future \in Seq(Capture) /\ TimelineBounded
    BY DEF IInv, TypeOK
  \* A change of the filter or the selection leaves the timeline as long.
  <1>v. ASSUME lab' \in Capture, UNCHANGED <<history, future>>
        PROVE  IInv'
    BY <1>t, <1>v DEF IInv, TypeOK, TimelineBounded
  <1>1. ASSUME NEW input \in Input, Parse(input) PROVE IInv'
    BY <1>1, <1>t, LabAssumption, EditedTyping, EditInvariant DEF Parse
  <1>2. CASE CanonicalizeAll
    BY <1>2, <1>t, EditedTyping, EditInvariant DEF CanonicalizeAll
  <1>3. ASSUME NEW k \in Key, RemoveCookie(k) PROVE IInv'
    BY <1>3, <1>t, RemovedTyping, EditInvariant DEF RemoveCookie
  <1>4. CASE RemoveSelected
    BY <1>4, <1>t, EditedTyping, EditInvariant DEF RemoveSelected
  <1>5. CASE Clear
    BY <1>5, <1>t, EditedTyping, EditInvariant DEF Clear
  <1>6. ASSUME NEW file \in File, ImportState(file) PROVE IInv'
    BY <1>6, LabAssumption, CopiedTyping, EditInvariant DEF ImportState
  <1>7. ASSUME NEW old \in Key, NEW candidate \in Candidate, NEW row \in Row,
               SaveEditor(old, candidate, row)
        PROVE  IInv'
    <2>1. /\ history' = Checkpointed(Past(old, candidate), Between(old, candidate))
          /\ lab' = Added(Between(old, candidate), candidate, row)
          /\ future' = <<>>
      BY <1>7 DEF SaveEditor, Past, Between
    <2>2. lab' \in Capture
      BY <2>1, SaveTyping, AddedTyping
    <2>3. history' \in Seq(Capture) /\ Len(history') <= MaximumHistory
      BY <2>1, SaveTyping, CheckpointTyping
    <2>4. QED
      BY <2>1, <2>2, <2>3, LabAssumption DEF IInv, TypeOK, TimelineBounded
  <1>8. CASE Undo
    <2>1. /\ Last(history) \in Capture
          /\ Front(history) \in Seq(Capture)
          /\ Len(Front(history)) = Len(history) - 1
      BY <1>8, <1>t, FrontAndLast DEF Undo
    <2>2. Copied(Last(history)) \in Capture /\ Copied(lab) \in Capture
      BY <1>t, <2>1, CopiedTyping
    <2>3. QED
      BY <1>8, <1>t, <2>1, <2>2, LabAssumption
         DEF Undo, IInv, TypeOK, TimelineBounded
  <1>9. CASE Redo
    <2>1. /\ Last(future) \in Capture
          /\ Front(future) \in Seq(Capture)
          /\ Len(Front(future)) = Len(future) - 1
      BY <1>9, <1>t, FrontAndLast DEF Redo
    <2>2. Copied(Last(future)) \in Capture /\ Copied(lab) \in Capture
      BY <1>t, <2>1, CopiedTyping
    <2>3. QED
      BY <1>9, <1>t, <2>1, <2>2, LabAssumption
         DEF Redo, IInv, TypeOK, TimelineBounded
  <1>10. ASSUME NEW filter \in Filter, SetFilter(filter) PROVE IInv'
    BY <1>10, <1>t, <1>v DEF SetFilter, Capture
  <1>11. ASSUME NEW k \in Key, NEW on \in BOOLEAN, SetSelected(k, on) PROVE IInv'
    BY <1>11, <1>t, <1>v DEF SetSelected, Capture
  <1>12. CASE ToggleVisibleSelection
    <2>1. Visible \in SUBSET Key
      BY <1>t, VisibleTyping
    <2> HIDE DEF Visible
    <2>2. QED
      BY <1>12, <1>t, <1>v, <2>1 DEF ToggleVisibleSelection, Capture
  <1>13. CASE UNCHANGED vars
    BY <1>13, <1>t, <1>v DEF vars
  <1>14. QED
    BY <1>1, <1>2, <1>3, <1>4, <1>5, <1>6, <1>7, <1>8, <1>9, <1>10, <1>11,
       <1>12, <1>13 DEF Next

\* Every behaviour of the workspace keeps the invariant.
THEOREM Invariance == Spec => []IInv
  BY InitInvariant, NextInvariant, PTL DEF Spec

\* The captures that undo and redo hold never exceed the maximum, although
\* redo does not trim.
THEOREM HistoryIsBounded == Spec => []TimelineBounded
  <1>1. IInv => TimelineBounded
    BY DEF IInv
  <1>2. QED
    BY <1>1, Invariance, PTL

-----------------------------------------------------------------------------
\* A sequence put together from two and an element between them.
Around(p, y, t) == p \o <<y>> \o t

Framed(z, p, y, t) ==
  /\ Len(z) = Len(p) + 1 + Len(t)
  /\ \A i \in 1..Len(p) : z[i] = p[i]
  /\ z[Len(p) + 1] = y
  /\ \A i \in 1..Len(t) : z[Len(p) + 1 + i] = t[i]

\* A timeline put together from its past, its present and its future.
LEMMA Joined ==
  ASSUME NEW S, NEW p \in Seq(S), NEW y \in S, NEW t \in Seq(S)
  PROVE  Around(p, y, t) \in Seq(S) /\ Framed(Around(p, y, t), p, y, t)
  <1> DEFINE u == p \o <<y>>
  <1>1. /\ u \in Seq(S)
        /\ Len(u) = Len(p) + 1
        /\ \A i \in 1..Len(p) : u[i] = p[i]
        /\ u[Len(p) + 1] = y
    OBVIOUS
  <1>2. Len(p) \in Nat /\ Len(t) \in Nat
    OBVIOUS
  <1> HIDE DEF u
  <1>3. /\ u \o t \in Seq(S)
        /\ Len(u \o t) = Len(u) + Len(t)
        /\ \A i \in 1..(Len(u) + Len(t)) :
             (u \o t)[i] = IF i <= Len(u) THEN u[i] ELSE t[i - Len(u)]
    BY <1>1, ConcatProperties
  <1> DEFINE w == u \o t
  <1> HIDE DEF w
  <1>4. /\ w \in Seq(S)
        /\ Len(w) = Len(p) + 1 + Len(t)
        /\ \A i \in 1..(Len(p) + 1 + Len(t)) :
             w[i] = IF i <= Len(p) + 1 THEN u[i] ELSE t[i - (Len(p) + 1)]
    BY <1>1, <1>3 DEF w
  <1>5. ASSUME NEW i \in 1..Len(p) PROVE w[i] = p[i]
    BY <1>1, <1>2, <1>4
  <1>6. w[Len(p) + 1] = y
    BY <1>1, <1>2, <1>4
  <1>7. ASSUME NEW i \in 1..Len(t) PROVE w[Len(p) + 1 + i] = t[i]
    <2> DEFINE j == Len(p) + 1 + i
    <2>1. j \in 1..(Len(p) + 1 + Len(t)) /\ ~(j <= Len(p) + 1)
          /\ j - (Len(p) + 1) = i
      BY <1>2
    <2> HIDE DEF j
    <2>2. w[j] = t[i]
      BY <1>4, <2>1
    <2>3. QED
      BY <2>2 DEF j
  <1>8. QED
    BY <1>4, <1>5, <1>6, <1>7 DEF w, u, Around, Framed

\* The states of a past, a present and a future; and two of them that differ
\* in two places only.
Laid(past, x, next) == past \o <<x>> \o Reverse(next)

Alike(left, right, y, last, z, x) ==
  /\ Len(left) = Len(right)
  /\ \A i \in 1..Len(right) :
       \/ left[i] = right[i]
       \/ left[i] = y /\ right[i] = last
       \/ left[i] = z /\ right[i] = x

\* Moving the last element of one list over to the head of the rest, with
\* the element between: the two timelines differ in these two places only.
LEMMA MoveBack ==
  ASSUME NEW S, NEW past \in Seq(S), NEW next \in Seq(S),
         NEW x \in S, NEW y \in S, NEW z \in S, past # <<>>
  PROVE  Alike(Laid(Front(past), y, Append(next, z)), Laid(past, x, next),
               y, Last(past), z, x)
  <1> DEFINE f == Front(past)
             a == Append(next, z)
             r == Reverse(a)
             q == Reverse(next)
             m == Len(past)
             n == Len(next)
             left == Around(f, y, r)
             right == Around(past, x, q)
  <1>1. /\ f \in Seq(S)
        /\ Len(f) = m - 1
        /\ \A i \in 1..(m - 1) : f[i] = past[i]
        /\ Last(past) = past[m]
    BY FrontAndLast DEF Last
  <1>2. /\ a \in Seq(S)
        /\ Len(a) = n + 1
        /\ \A i \in 1..n : a[i] = next[i]
        /\ a[n + 1] = z
    BY AppendProperties
  <1>3. /\ q \in Seq(S)
        /\ Len(q) = n
        /\ \A i \in 1..n : q[i] = next[n - i + 1]
    BY ReverseTyping
  <1>4. m \in Nat \ {0} /\ n \in Nat
    BY EmptySeq
  <1> HIDE DEF a
  <1>5. /\ r \in Seq(S)
        /\ Len(r) = Len(a)
        /\ \A i \in 1..Len(a) : r[i] = a[Len(a) - i + 1]
    BY <1>2, ReverseTyping
  <1> HIDE DEF f, r, q, m, n
  <1>6. r[1] = z
    BY <1>2, <1>4, <1>5
  <1>7. ASSUME NEW i \in 1..n PROVE r[i + 1] = q[i]
    <2>1. i + 1 \in 1..Len(a) /\ Len(a) - (i + 1) + 1 = n - i + 1
          /\ n - i + 1 \in 1..n
      BY <1>2, <1>4
    <2>2. r[i + 1] = a[n - i + 1]
      BY <1>5, <2>1
    <2>3. QED
      BY <1>2, <1>3, <2>1, <2>2
  <1>j. /\ f \in Seq(S) /\ r \in Seq(S)
        /\ past \in Seq(S) /\ q \in Seq(S)
    BY <1>1, <1>3, <1>5
  <1>8. left \in Seq(S) /\ Framed(left, f, y, r)
    BY <1>j, Joined
  <1>9. right \in Seq(S) /\ Framed(right, past, x, q)
    BY <1>j, Joined
  <1> HIDE DEF left, right
  <1> USE DEF Framed
  <1>m. Len(past) = m
    BY DEF m
  <1>10. Len(left) = Len(right) /\ Len(right) = m + 1 + n
    BY <1>1, <1>2, <1>3, <1>4, <1>5, <1>8, <1>9, <1>m
  <1>11. ASSUME NEW i \in 1..Len(right)
         PROVE  \/ left[i] = right[i]
                \/ left[i] = y /\ right[i] = Last(past)
                \/ left[i] = z /\ right[i] = x
    <2>1. CASE i < m
      BY <1>1, <1>4, <1>8, <1>9, <1>m, <2>1
    <2>2. CASE i = m
      BY <1>1, <1>4, <1>8, <1>9, <1>m, <2>2
    <2>3. CASE i = m + 1
      <3>1. 1 \in 1..Len(r) /\ Len(f) + 1 + 1 = m + 1
        BY <1>1, <1>2, <1>4, <1>5
      <3>2. left[m + 1] = r[1]
        BY <1>8, <3>1
      <3>3. QED
        BY <1>6, <1>9, <1>m, <2>3, <3>2
    <2>4. CASE i > m + 1
      <3> DEFINE j == i - (m + 1)
      <3>1. /\ j \in 1..n
            /\ j + 1 \in 1..Len(r)
            /\ Len(f) + 1 + (j + 1) = i
            /\ Len(past) + 1 + j = i
        BY <1>1, <1>2, <1>4, <1>5, <1>10, <1>m, <2>4
      <3> HIDE DEF j
      <3>2. left[i] = r[j + 1]
        BY <1>8, <3>1
      <3>3. right[i] = q[j]
        BY <1>3, <1>9, <3>1
      <3>4. QED
        BY <1>7, <3>1, <3>2, <3>3
    <2>5. QED
      BY <1>4, <1>10, <2>1, <2>2, <2>3, <2>4
  <1>12. QED
    BY <1>10, <1>11 DEF left, right, f, a, r, q, Around, Laid, Alike

\* Undo and redo keep the timeline, but for cloning two of its states.
THEOREM MovesKeepTimeline == Spec => UndoRedoKeepTimeline
  <1> DEFINE Kept == /\ Len(Timeline') = Len(Timeline)
                     /\ \A i \in 1..Len(Timeline) :
                          Timeline'[i] \in {Timeline[i], Copied(Timeline[i])}
  <1>1. IInv /\ [Next]_vars => [Undo \/ Redo => Kept]_vars
    <2> SUFFICES ASSUME IInv, Undo \/ Redo PROVE Kept
      OBVIOUS
    <2>0. /\ lab \in Capture /\ history \in Seq(Capture)
          /\ future \in Seq(Capture) /\ Copied(lab) \in Capture
      BY CopiedTyping DEF IInv, TypeOK
    <2>1. CASE Undo
      <3>1. PICK y \in Capture : y = Copied(Last(history))
        BY <2>0, <2>1, FrontAndLast, CopiedTyping DEF Undo
      <3>2. PICK z \in Capture : z = Copied(lab)
        BY <2>0
      <3> DEFINE left  == Laid(Front(history), y, Append(future, z))
                 right == Laid(history, lab, future)
      <3>3. Alike(left, right, y, Last(history), z, lab)
        BY <2>0, <2>1, MoveBack DEF Undo
      <3>4. Timeline' = left /\ Timeline = right
        BY <2>1, <3>1, <3>2 DEF Undo, Timeline, Laid
      <3> HIDE DEF left, right
      <3>5. QED
        BY <3>1, <3>2, <3>3, <3>4 DEF Alike
    <2>2. CASE Redo
      <3>1. PICK z \in Capture : z = Last(future)
        BY <2>0, <2>2, FrontAndLast DEF Redo
      <3>2. PICK x \in Capture : x = Copied(z)
        BY CopiedTyping
      <3>3. PICK y \in Capture : y = Copied(lab)
        BY <2>0
      <3>4. PICK rest \in Seq(Capture) :
              rest = Front(future) /\ Append(rest, z) = future
        <4>1. future # <<>>
          BY <2>2 DEF Redo
        <4>2. Front(future) \in Seq(Capture)
              /\ Append(Front(future), Last(future)) = future
          BY <2>0, <4>1 DEF Last, Front
        <4>3. QED
          BY <3>1, <4>2
      <3>5. PICK past \in Seq(Capture) :
              /\ past = Append(history, y)
              /\ past # <<>> /\ Front(past) = history /\ Last(past) = y
        <4>1. PICK past \in Seq(Capture) :
                /\ past = Append(history, y) /\ past # <<>>
                /\ Len(past) = Len(history) + 1
                /\ \A i \in 1..Len(history) : past[i] = history[i]
                /\ past[Len(history) + 1] = y
          BY <2>0, AppendProperties
        <4>2. /\ Front(past) \in Seq(Capture)
              /\ Len(Front(past)) = Len(past) - 1
              /\ \A i \in 1..(Len(past) - 1) : Front(past)[i] = past[i]
          BY <4>1, FrontAndLast
        <4>c. Len(history) \in Nat /\ Len(past) - 1 = Len(history)
          BY <2>0, <4>1
        <4>3. Front(past) = history
          BY <2>0, <4>1, <4>2, <4>c, SeqEqual
        <4>4. QED
          BY <4>1, <4>3 DEF Last
      <3> DEFINE left  == Laid(Front(past), lab, Append(rest, z))
                 right == Laid(past, x, rest)
      <3>6. Alike(left, right, lab, Last(past), z, x)
        BY <2>0, <3>5, MoveBack
      <3>7. Timeline = left
        BY <3>4, <3>5 DEF Timeline, Laid
      <3>8. Timeline' = right
        BY <2>2, <3>1, <3>2, <3>3, <3>4, <3>5 DEF Redo, Timeline, Laid
      <3> HIDE DEF left, right
      <3>9. QED
        BY <3>2, <3>3, <3>5, <3>6, <3>7, <3>8 DEF Alike
    <2>3. QED
      BY <2>1, <2>2
  <1>2. QED
    BY <1>1, Invariance, PTL DEF Spec, UndoRedoKeepTimeline

-----------------------------------------------------------------------------
(* What an edit leaves behind. *)

\* A checkpoint holds the copy of the state and, in a history of two at
\* least, the capture before it; nothing else that was not there.
LEMMA CheckpointHolds ==
  ASSUME NEW past \in Seq(Capture), NEW x \in Capture,
         Len(past) <= MaximumHistory
  PROVE  /\ Copied(x) \in ToSet(Checkpointed(past, x))
         /\ past # <<>> /\ MaximumHistory > 1 =>
              past[Len(past)] \in ToSet(Checkpointed(past, x))
         /\ Checkpointed(past, x) # <<>>
         /\ Checkpointed(past, x)[Len(Checkpointed(past, x))] = Copied(x)
         /\ ToSet(Checkpointed(past, x)) \subseteq ToSet(past) \cup {Copied(x)}
  <1>1. MaximumHistory \in Nat /\ MaximumHistory # 0 /\ Len(past) \in Nat
    BY LabAssumption
  <1>c. PICK copy \in Capture : copy = Copied(x)
    BY CopiedTyping
  <1> DEFINE kept == IF Len(past) < MaximumHistory THEN past ELSE Tail(past)
             all  == Append(kept, copy)
  <1>2. Checkpointed(past, x) = all
    BY <1>c DEF Checkpointed
  <1>3. /\ kept \in Seq(Capture)
        /\ \A j \in 1..Len(kept) : kept[j] \in ToSet(past)
    <2>1. CASE Len(past) < MaximumHistory
      BY <2>1 DEF ToSet
    <2>2. CASE ~(Len(past) < MaximumHistory)
      <3>1. past # <<>>
        BY <1>1, <2>2
      <3>2. /\ Tail(past) \in Seq(Capture)
            /\ Len(Tail(past)) = Len(past) - 1
            /\ \A j \in 1..(Len(past) - 1) : Tail(past)[j] = past[j + 1]
        BY <3>1
      <3>3. \A j \in 1..(Len(past) - 1) : past[j + 1] \in ToSet(past)
        BY <1>1 DEF ToSet
      <3>4. QED
        BY <2>2, <3>2, <3>3
    <2>3. QED
      BY <2>1, <2>2
  <1>4. past # <<>> /\ MaximumHistory > 1 =>
          Len(kept) > 0 /\ kept[Len(kept)] = past[Len(past)]
    <2>1. SUFFICES ASSUME past # <<>>, MaximumHistory > 1
                   PROVE  Len(kept) > 0 /\ kept[Len(kept)] = past[Len(past)]
      OBVIOUS
    <2>2. CASE Len(past) < MaximumHistory
      BY <1>1, <2>1, <2>2
    <2>3. CASE ~(Len(past) < MaximumHistory)
      <3>1. /\ kept = Tail(past) /\ Len(past) > 1
            /\ Len(Tail(past)) = Len(past) - 1
            /\ \A j \in 1..(Len(past) - 1) : Tail(past)[j] = past[j + 1]
        BY <1>1, <2>1, <2>3
      <3>2. QED
        BY <1>1, <3>1
    <2>4. QED
      BY <2>2, <2>3
  <1> HIDE DEF kept
  <1>5. /\ Len(all) = Len(kept) + 1
        /\ all[Len(kept) + 1] = copy
        /\ \A j \in 1..Len(kept) : all[j] = kept[j]
        /\ Len(kept) \in Nat /\ DOMAIN all = 1..(Len(kept) + 1)
        /\ all # <<>>
    BY <1>3
  <1> HIDE DEF all
  <1>6. copy \in ToSet(all) /\ all[Len(all)] = copy
    BY <1>5 DEF ToSet
  <1>7. ToSet(all) \subseteq ToSet(past) \cup {copy}
    <2>1. ASSUME NEW j \in 1..(Len(kept) + 1)
          PROVE  all[j] \in ToSet(past) \cup {copy}
      <3>1. CASE j = Len(kept) + 1
        BY <1>5, <3>1
      <3>2. CASE j # Len(kept) + 1
        <4>1. j \in 1..Len(kept)
          BY <1>5, <3>2
        <4>2. QED
          BY <1>3, <1>5, <4>1
      <3>3. QED
        BY <3>1, <3>2
    <2>2. QED
      BY <1>5, <2>1 DEF ToSet
  <1>8. past # <<>> /\ MaximumHistory > 1 => past[Len(past)] \in ToSet(all)
    BY <1>4, <1>5 DEF ToSet
  <1>9. QED
    BY <1>2, <1>5, <1>6, <1>7, <1>8, <1>c

\* Appending adds one element; taking the last away adds none.
LEMMA EndElements ==
  ASSUME NEW s \in Seq(Capture), NEW x \in Capture
  PROVE  /\ x \in ToSet(Append(s, x))
         /\ ToSet(Append(s, x)) \subseteq ToSet(s) \cup {x}
         /\ s # <<>> => Last(s) \in ToSet(s) /\ ToSet(Front(s)) \subseteq ToSet(s)
  <1>1. Len(s) \in Nat /\ DOMAIN s = 1..Len(s)
    OBVIOUS
  <1>2. x \in ToSet(Append(s, x)) /\ ToSet(Append(s, x)) \subseteq ToSet(s) \cup {x}
    <2> DEFINE a == Append(s, x)
    <2>1. /\ DOMAIN a = 1..(Len(s) + 1)
          /\ \A j \in 1..Len(s) : a[j] = s[j]
          /\ a[Len(s) + 1] = x
      OBVIOUS
    <2> HIDE DEF a
    <2>2. x \in ToSet(a)
      BY <1>1, <2>1 DEF ToSet
    <2>3. ASSUME NEW j \in 1..(Len(s) + 1) PROVE a[j] \in ToSet(s) \cup {x}
      <3>1. j = Len(s) + 1 \/ j \in 1..Len(s)
        BY <1>1
      <3>2. QED
        BY <1>1, <2>1, <3>1 DEF ToSet
    <2>4. ToSet(a) \subseteq ToSet(s) \cup {x}
      BY <2>1, <2>3 DEF ToSet
    <2>5. QED
      BY <2>2, <2>4 DEF a
  <1>3. ASSUME s # <<>>
        PROVE  Last(s) \in ToSet(s) /\ ToSet(Front(s)) \subseteq ToSet(s)
    <2>1. Len(s) \in 1..Len(s) /\ Last(s) = s[Len(s)]
      BY <1>1, <1>3, EmptySeq DEF Last
    <2>2. /\ DOMAIN Front(s) = 1..(Len(s) - 1)
          /\ \A j \in 1..(Len(s) - 1) : Front(s)[j] = s[j]
      BY <1>3, FrontAndLast
    <2>3. \A j \in 1..(Len(s) - 1) : j \in 1..Len(s)
      BY <1>1
    <2>4. QED
      BY <1>1, <2>1, <2>2, <2>3 DEF ToSet
  <1>4. QED
    BY <1>2, <1>3

\* Whatever changes the list, also as the second of the two edits of a rename,
\* the list as it was shown is one undo or redo away.
THEOREM ListsAreKept == Spec => NothingIsLost
  <1> DEFINE Kept == lab'.cookies # lab.cookies /\ MaximumHistory > 1 =>
                       \E capture \in ToSet(history') \cup ToSet(future') :
                         capture.cookies = Cloned(lab.cookies)
  <1>1. IInv /\ [Next]_vars => Kept
    <2> SUFFICES ASSUME IInv, [Next]_vars, lab'.cookies # lab.cookies,
                        MaximumHistory > 1
                 PROVE  \E capture \in ToSet(history') \cup ToSet(future') :
                          capture.cookies = Cloned(lab.cookies)
      OBVIOUS
    <2>t. /\ history \in Seq(Capture) /\ future \in Seq(Capture)
          /\ lab \in Capture /\ Len(history) <= MaximumHistory
      BY LabAssumption DEF IInv, TypeOK, TimelineBounded
    <2>c. PICK copy \in Capture :
            copy = Copied(lab) /\ copy.cookies = Cloned(lab.cookies)
      BY <2>t, CopiedTyping
    <2> SUFFICES copy \in ToSet(history') \cup ToSet(future')
      BY <2>c
    <2>e. ASSUME history' = Checkpointed(history, lab)
          PROVE  copy \in ToSet(history')
      BY <2>c, <2>e, <2>t, CheckpointHolds
    <2>1. ASSUME NEW new, Edit(new)
          PROVE  copy \in ToSet(history')
      BY <2>1, <2>e DEF Edit
    <2>2. ASSUME NEW old \in Key, NEW candidate \in Candidate, NEW row \in Row,
                 SaveEditor(old, candidate, row)
          PROVE  copy \in ToSet(history')
      <3> DEFINE renamed == old # KeyOf[candidate] /\ old \in Keys(lab.cookies)
                 between == Between(old, candidate)
                 past == Past(old, candidate)
      <3>1. history' = Checkpointed(past, between)
        BY <2>2 DEF SaveEditor, Past, Between
      <3>2. CASE ~renamed
        BY <2>e, <3>1, <3>2 DEF Past, Between
      <3>3. CASE renamed
        <4>1. between \in Capture /\ past \in Seq(Capture)
              /\ Len(past) <= MaximumHistory
          BY SaveTyping
        <4>2. past = Checkpointed(history, lab)
          BY <3>3 DEF Past
        <4>3. past # <<>> /\ past[Len(past)] = copy
          BY <2>c, <2>t, <4>2, CheckpointHolds
        <4> HIDE DEF past, between
        <4>4. QED
          BY <3>1, <4>1, <4>3, CheckpointHolds
      <3>4. QED
        BY <3>2, <3>3
    <2>3. ASSUME Undo PROVE copy \in ToSet(future')
      BY <2>3, <2>c, <2>t, EndElements DEF Undo
    <2>4. ASSUME Redo PROVE copy \in ToSet(history')
      BY <2>4, <2>c, <2>t, EndElements DEF Redo
    <2>5. CASE \/ \E filter \in Filter : SetFilter(filter)
               \/ \E k \in Key, on \in BOOLEAN : SetSelected(k, on)
               \/ ToggleVisibleSelection
               \/ UNCHANGED vars
      BY <2>5, <2>t DEF Capture, SetFilter, SetSelected, ToggleVisibleSelection, vars
    <2>6. QED
      BY <2>1, <2>2, <2>3, <2>4, <2>5
         DEF Next, Parse, CanonicalizeAll, RemoveCookie, RemoveSelected, Clear,
             ImportState
  <1>2. QED
    BY <1>1, Invariance, PTL DEF Spec, NothingIsLost

-----------------------------------------------------------------------------
(* What the selection names. *)

\* A key names a cookie of the list when a row has it.
LEMMA InKeys ==
  ASSUME NEW list, NEW k
  PROVE  k \in Keys(list) <=> \E r \in DOMAIN list : KeyOf[list[r]] = k
  BY DEF Keys

\* Cloning a list whose keys it leaves alone keeps the keys.
LEMMA SteadyKeys ==
  ASSUME NEW x, Steady(x)
  PROVE  Keys(Cloned(x.cookies)) = Keys(x.cookies)
  <1> DEFINE list == x.cookies
             clones == Cloned(list)
  <1>1. DOMAIN clones = DOMAIN list /\ \A r \in DOMAIN list : clones[r] = CloneOf[list[r]]
    BY DEF Cloned
  <1>2. \A r \in DOMAIN list : KeyOf[CloneOf[list[r]]] = KeyOf[list[r]]
    BY DEF Steady
  <1> HIDE DEF clones, list
  <1>3. Keys(clones) = Keys(list)
    BY <1>1, <1>2 DEF Keys
  <1>4. QED
    BY <1>3 DEF clones, list

\* A copy selects what the state selects.
LEMMA CopiedSelects ==
  ASSUME NEW x \in Capture, Steady(x), Selects(x)
  PROVE  Selects(Copied(x))
  BY CopiedTyping, SteadyKeys DEF Selects

\* Removing the cookies of keys leaves the keys of the others.
LEMMA WithoutKeys ==
  ASSUME NEW list, NEW keys
  PROVE  /\ DOMAIN Without(list, keys) \subseteq DOMAIN list
         /\ \A r \in DOMAIN Without(list, keys) : Without(list, keys)[r] = list[r]
         /\ \A r \in DOMAIN list : KeyOf[list[r]] \notin keys =>
              r \in DOMAIN Without(list, keys)
  BY DEF Without

\* So the selection that is left names what is left.
LEMMA RemovedSelects ==
  ASSUME NEW x \in Capture, NEW k \in Key, Steady(x), Selects(x)
  PROVE  Selects(Removed(x, k)) /\ Steady(Removed(x, k))
  <1> DEFINE list == x.cookies
             kept == Without(list, {k})
             y == Removed(x, k)
  <1>1. y.cookies = kept /\ y.selected = x.selected \ {k}
    BY RemovedTyping
  <1>2. /\ DOMAIN kept \subseteq DOMAIN list
        /\ \A r \in DOMAIN kept : kept[r] = list[r]
        /\ \A r \in DOMAIN list : KeyOf[list[r]] # k => r \in DOMAIN kept
    BY WithoutKeys
  <1> HIDE DEF kept, y
  <1>3. Steady(y)
    BY <1>1, <1>2 DEF Steady
  <1>4. ASSUME NEW j \in y.selected PROVE j \in Keys(kept)
    <2>1. j \in Keys(list) /\ j # k
      BY <1>1, <1>4 DEF Selects
    <2>2. QED
      BY <1>2, <2>1, InKeys
  <1>5. QED
    BY <1>1, <1>3, <1>4 DEF Selects, y

\* A candidate that takes the place of cookies of its key is listed under
\* that key, when cloning left the key of those alone.
LEMMA AddedSelects ==
  ASSUME NEW x \in Capture, NEW candidate \in Candidate, NEW row \in Row,
         row \notin DOMAIN Without(x.cookies, {KeyOf[candidate]}),
         Steady(x), Selects(x)
  PROVE  Selects(Added(x, candidate, row))
  <1> DEFINE list == x.cookies
             key == KeyOf[candidate]
             kept == Without(list, {key})
             added == [r \in DOMAIN kept \cup {row} |->
                         IF r = row THEN CloneOf[candidate] ELSE kept[r]]
             y == Added(x, candidate, row)
  <1>1. y.selected = x.selected
    BY AddedTyping
  <1>2. y.cookies = added
    <2>1. DOMAIN x = {"cookies", "selected", "filter"}
      BY DEF Capture
    <2>2. QED
      BY <2>1 DEF Added
  <1>3. /\ DOMAIN kept \subseteq DOMAIN list
        /\ \A r \in DOMAIN kept : kept[r] = list[r]
        /\ \A r \in DOMAIN list : KeyOf[list[r]] # key => r \in DOMAIN kept
    BY WithoutKeys
  <1>t. \A r \in DOMAIN list : list[r] \in Cookie
    BY OfList DEF Capture
  <1>4. /\ DOMAIN added = DOMAIN kept \cup {row}
        /\ added[row] = CloneOf[candidate]
        /\ \A r \in DOMAIN kept : added[r] = kept[r]
    OBVIOUS
  <1>c. candidate \in Cookie
    BY LabAssumption
  <1> HIDE DEF kept, y, added
  <1>5. ASSUME NEW k \in x.selected PROVE k \in Keys(added)
    <2>1. PICK r \in DOMAIN list : KeyOf[list[r]] = k
      BY InKeys DEF Selects
    <2>2. CASE k = key
      <3>1. KeyOf[CloneOf[candidate]] = KeyOf[CloneOf[list[r]]]
        BY <1>c, <1>t, <2>1, <2>2, LabAssumption
      <3>2. KeyOf[CloneOf[list[r]]] = k
        BY <2>1 DEF Steady
      <3>3. QED
        BY <1>4, <3>1, <3>2, InKeys
    <2>3. CASE k # key
      <3>1. r \in DOMAIN kept /\ added[r] = list[r]
        BY <1>3, <1>4, <2>1, <2>3
      <3>2. QED
        BY <1>4, <2>1, <3>1, InKeys
    <2>4. QED
      BY <2>2, <2>3
  <1>6. QED
    BY <1>1, <1>2, <1>5 DEF Selects, y

\* The rows that are shown have keys of the list.
LEMMA VisibleListed ==
  ASSUME lab \in Capture, Steady(lab)
  PROVE  Visible \subseteq Keys(lab.cookies)
  <1> DEFINE list == lab.cookies
             rows == {row \in DOMAIN list : list[row] \in lab.filter}
             shown == [r \in rows |-> list[r]]
             clones == Cloned(shown)
  <1>1. Visible = Keys(clones)
    BY DEF Visible
  <1>2. /\ DOMAIN clones = rows
        /\ \A r \in rows : clones[r] = CloneOf[list[r]]
        /\ rows \subseteq DOMAIN list
    BY DEF Cloned
  <1>3. \A r \in DOMAIN list : KeyOf[CloneOf[list[r]]] = KeyOf[list[r]]
    BY DEF Steady
  <1> HIDE DEF clones, rows, shown, list
  <1>4. Keys(clones) \subseteq Keys(list)
    BY <1>2, <1>3 DEF Keys
  <1>5. QED
    BY <1>1, <1>4 DEF list

\* While cloning leaves the keys alone, the selection, of the workspace and of
\* every capture, names cookies of the list.
THEOREM SelectionNamesPresent == Spec => SelectionPresent
  <1> DEFINE Before == /\ \A state \in States : Steady(state) /\ Selects(state)
                       /\ Steady(lab')
                       /\ \A file \in File :
                            Selects(Copied(file)) \/ ~ImportState(file)
             After == \A state \in States' : Selects(state)
  <1>1. IInv /\ [Next]_vars => [Before => After]_vars
    <2> SUFFICES ASSUME IInv, Next, Before PROVE After
      OBVIOUS
    <2>t. /\ history \in Seq(Capture) /\ future \in Seq(Capture)
          /\ lab \in Capture /\ Len(history) <= MaximumHistory
      BY LabAssumption DEF IInv, TypeOK, TimelineBounded
    <2>b. /\ Steady(lab) /\ Selects(lab)
          /\ \A x \in ToSet(history) : Steady(x) /\ Selects(x)
          /\ \A x \in ToSet(future) : Steady(x) /\ Selects(x)
      BY DEF States
    <2>c. PICK copy \in Capture : copy = Copied(lab) /\ Selects(copy)
      BY <2>b, <2>t, CopiedTyping, CopiedSelects
    \* It is enough to look at what is new.
    <2>n. ASSUME Selects(lab'),
                 \A x \in ToSet(history') : Selects(x),
                 \A x \in ToSet(future') : Selects(x)
          PROVE  After
      BY <2>n DEF States
    <2>0. ToSet(<<>>) = {}
      BY DEF ToSet
    <2>e. ASSUME NEW new, Edit(new), Selects(new)
          PROVE  After
      <3>1. \A x \in ToSet(Checkpointed(history, lab)) : Selects(x)
        BY <2>b, <2>c, <2>t, CheckpointHolds
      <3>2. QED
        BY <2>0, <2>e, <2>n, <3>1 DEF Edit
    <2>v. ASSUME Selects(lab'), UNCHANGED <<history, future>>
          PROVE  After
      BY <2>b, <2>n, <2>v
    <2>s. /\ \A list \in Cookies : Selects(Replaced(list))
          /\ Selects([lab EXCEPT !.cookies = Without(@, lab.selected), !.selected = {}])
          /\ Selects([lab EXCEPT !.cookies = NoCookies, !.selected = {}])
      <3>1. DOMAIN lab = {"cookies", "selected", "filter"}
        BY <2>t DEF Capture
      <3>2. QED
        BY <3>1 DEF Selects, Replaced
    <2>1. ASSUME NEW input \in Input, Parse(input) PROVE After
      BY <2>1, <2>e, <2>s, LabAssumption DEF Parse
    <2>2. CASE CanonicalizeAll
      BY <2>2, <2>e, <2>s, <2>t, EditedTyping DEF CanonicalizeAll
    <2>3. ASSUME NEW k \in Key, RemoveCookie(k) PROVE After
      BY <2>3, <2>b, <2>e, <2>t, RemovedSelects DEF RemoveCookie
    <2>4. CASE RemoveSelected
      BY <2>4, <2>e, <2>s DEF RemoveSelected
    <2>5. CASE Clear
      BY <2>5, <2>e, <2>s DEF Clear
    <2>6. ASSUME NEW file \in File, ImportState(file) PROVE After
      BY <2>6, <2>e DEF ImportState
    <2>7. ASSUME NEW old \in Key, NEW candidate \in Candidate, NEW row \in Row,
                 SaveEditor(old, candidate, row)
          PROVE  After
      <3> DEFINE between == Between(old, candidate)
                 past == Past(old, candidate)
      <3>1. /\ row \notin DOMAIN Without(between.cookies, {KeyOf[candidate]})
            /\ history' = Checkpointed(past, between)
            /\ lab' = Added(between, candidate, row)
            /\ future' = <<>>
        BY <2>7 DEF SaveEditor, Past, Between
      <3>2. /\ between \in Capture /\ past \in Seq(Capture)
            /\ Len(past) <= MaximumHistory
        BY SaveTyping
      <3>3. Steady(between) /\ Selects(between)
        BY <2>b, <2>t, RemovedSelects DEF Between
      <3>4. \A x \in ToSet(past) : Selects(x)
        BY <2>b, <2>c, <2>t, CheckpointHolds DEF Past
      <3> HIDE DEF between, past
      <3>5. Selects(lab')
        BY <3>1, <3>2, <3>3, AddedSelects
      <3>6. \A x \in ToSet(history') : Selects(x)
        BY <3>1, <3>2, <3>3, <3>4, CheckpointHolds, CopiedSelects
      <3>7. QED
        BY <2>0, <2>n, <3>1, <3>5, <3>6
    <2>8. CASE Undo
      <3>1. /\ Last(history) \in ToSet(history) /\ Last(history) \in Capture
            /\ ToSet(Front(history)) \subseteq ToSet(history)
        BY <2>8, <2>t, EndElements, FrontAndLast DEF Undo
      <3>2. Selects(Copied(Last(history)))
        BY <2>b, <3>1, CopiedSelects
      <3>3. ToSet(Append(future, copy)) \subseteq ToSet(future) \cup {copy}
        BY <2>t, EndElements
      <3>4. QED
        BY <2>8, <2>b, <2>c, <2>n, <3>1, <3>2, <3>3 DEF Undo
    <2>9. CASE Redo
      <3>1. /\ Last(future) \in ToSet(future) /\ Last(future) \in Capture
            /\ ToSet(Front(future)) \subseteq ToSet(future)
        BY <2>9, <2>t, EndElements, FrontAndLast DEF Redo
      <3>2. Selects(Copied(Last(future)))
        BY <2>b, <3>1, CopiedSelects
      <3>3. ToSet(Append(history, copy)) \subseteq ToSet(history) \cup {copy}
        BY <2>t, EndElements
      <3>4. QED
        BY <2>9, <2>b, <2>c, <2>n, <3>1, <3>2, <3>3 DEF Redo
    <2>10. ASSUME NEW filter \in Filter, SetFilter(filter) PROVE After
      BY <2>10, <2>b, <2>t, <2>v DEF SetFilter, Capture, Selects
    <2>11. ASSUME NEW k \in Key, NEW on \in BOOLEAN, SetSelected(k, on)
           PROVE  After
      <3>1. k \in Keys(lab.cookies)
        BY <2>11, <2>b, <2>t, VisibleListed DEF SetSelected
      <3>2. QED
        BY <2>11, <2>b, <2>t, <2>v, <3>1 DEF SetSelected, Capture, Selects
    <2>12. CASE ToggleVisibleSelection
      <3>1. Visible \subseteq Keys(lab.cookies)
        BY <2>b, <2>t, VisibleListed
      <3>2. QED
        BY <2>12, <2>b, <2>t, <2>v, <3>1
           DEF ToggleVisibleSelection, Capture, Selects
    <2>13. QED
      BY <2>1, <2>2, <2>3, <2>4, <2>5, <2>6, <2>7, <2>8, <2>9, <2>10, <2>11,
         <2>12 DEF Next
  <1>2. QED
    BY <1>1, Invariance, PTL DEF Spec, SelectionPresent
=============================================================================
