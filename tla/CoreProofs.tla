------------------------------ MODULE CoreProofs -------------------------------
(***************************************************************************)
(* Proofs about what luck-core keeps: the store with its transactions and  *)
(* its history, the two bounded logs, the two domain indexes, these with   *)
(* their native counterparts, and the binary archive; for every set of     *)
(* keys, cookies, transactions, batches and external diffs, every          *)
(* collection and every text of an archive, every limit, every width of    *)
(* the revision counter and of a checksum, and every odd factor.           *)
(***************************************************************************)
EXTENDS CookieStore, BoundedLogs, DomainIndexes, Archives, NumberFacts, SequenceTheorems

-----------------------------------------------------------------------------
(***************************************************************************)
(* What diff_collections, invert and apply_diff compute, for every         *)
(* collection and every diff.                                              *)
(***************************************************************************)

\* A change of one slot of the map.
SlotChange == [before : Slot, after : Slot]

\* What a slot holds is defined from its first change to its last.
LEMMA HeldDefined ==
  ASSUME NEW start, NEW changes, Len(changes) \in Nat, NEW strategy
  PROVE  /\ Held(start, changes, strategy)[0] = start
         /\ \A i \in 1..Len(changes) :
              Held(start, changes, strategy)[i]
                = Changed(Held(start, changes, strategy)[i - 1], changes[i], strategy)
<1> DEFINE Is(g, m) == g = [i \in 0..m |-> IF i = 0 THEN start
                                           ELSE Changed(g[i - 1], changes[i], strategy)]
           Good == {m \in Nat : \E g : Is(g, m)}
<1>1. 0 \in Good
  <2>1. Is([i \in 0..0 |-> start], 0)
    OBVIOUS
  <2> QED BY <2>1
<1>2. ASSUME NEW m \in 1..Len(changes), m - 1 \in Good PROVE m \in Good
  <2>1. m \in Nat /\ m - 1 \in Nat
    OBVIOUS
  <2>2. PICK g : Is(g, m - 1)
    BY <1>2
  <2>3. \A i \in 0..(m - 1) : g[i] = IF i = 0 THEN start
                                     ELSE Changed(g[i - 1], changes[i], strategy)
    BY <2>2
  <2> DEFINE h == [i \in 0..m |-> IF i < m THEN g[i]
                                  ELSE Changed(g[i - 1], changes[i], strategy)]
  <2>4. ASSUME NEW i \in 0..m
        PROVE  h[i] = IF i = 0 THEN start ELSE Changed(h[i - 1], changes[i], strategy)
    <3>1. CASE i < m
      BY <2>1, <2>3, <3>1
    <3>2. CASE i = m
      BY <2>1, <3>2
    <3> HIDE DEF h
    <3> QED BY <2>1, <3>1, <3>2
  <2>5. Is(h, m)
    BY <2>4
  <2> QED BY <2>1, <2>5
<1>3. Len(changes) \in Good
  <2> HIDE DEF Good
  <2>1. Len(changes) \in 0..Len(changes)
    OBVIOUS
  <2> QED BY <1>1, <1>2, <2>1, Upward
<1> DEFINE held == CHOOSE g : Is(g, Len(changes))
<1>4. Is(held, Len(changes))
  BY <1>3
<1>5. Held(start, changes, strategy) = held
  BY DEF Held
<1>6. \A i \in 0..Len(changes) :
        held[i] = IF i = 0 THEN start ELSE Changed(held[i - 1], changes[i], strategy)
  BY <1>4
<1> HIDE DEF held
<1> QED BY <1>5, <1>6

\* A slot holds a cookie or nothing.
LEMMA HeldTyping ==
  ASSUME NEW start \in Slot, NEW changes \in Seq(SlotChange), NEW strategy
  PROVE  \A i \in 0..Len(changes) : Held(start, changes, strategy)[i] \in Slot
<1> DEFINE h == Held(start, changes, strategy)
           Good == {i \in Nat : h[i] \in Slot}
<1>1. Len(changes) \in Nat
  BY LenProperties
<1>2. h[0] = start /\ \A i \in 1..Len(changes) : h[i] = Changed(h[i - 1], changes[i], strategy)
  BY <1>1, HeldDefined
<1> HIDE DEF h
<1>3. ASSUME NEW i \in 1..Len(changes), i - 1 \in Good PROVE i \in Good
  <2>1. changes[i] \in SlotChange
    BY ElementOfSeq
  <2> QED BY <1>1, <1>2, <1>3, <2>1 DEF Changed, SlotChange
<1>4. 0 \in Good
  BY <1>2
<1>5. \A i \in 0..Len(changes) : i \in Good
  <2> HIDE DEF Good
  <2> QED BY <1>1, <1>3, <1>4, Upward
<1> QED BY <1>5 DEF h

\* Under the reject strategy, changes that all fit follow one upon the other.
LEMMA FittingIsChain ==
  ASSUME NEW start \in Slot, NEW changes \in Seq(SlotChange),
         \A i \in 1..Len(changes) :
           Fits(Held(start, changes, "reject")[i - 1], changes[i].before)
  PROVE  \A i \in 1..Len(changes) :
           /\ Held(start, changes, "reject")[i - 1] = changes[i].before
           /\ Held(start, changes, "reject")[i] = changes[i].after
           /\ changes[i].before # NoCookie => changes[i].before.fields \notin NaN
<1>1. Len(changes) \in Nat
  BY LenProperties
<1> QED BY <1>1, HeldDefined DEF Fits, SameCookie, Changed

\* And changes that follow one upon the other all fit.
LEMMA ChainFits ==
  ASSUME NEW start \in Slot, NEW changes \in Seq(SlotChange),
         \A i \in 1..Len(changes) :
           /\ changes[i].before = IF i = 1 THEN start ELSE changes[i - 1].after
           /\ changes[i].before # NoCookie => changes[i].before.fields \notin NaN
  PROVE  /\ \A i \in 1..Len(changes) :
              Fits(Held(start, changes, "reject")[i - 1], changes[i].before)
         /\ Held(start, changes, "reject")[Len(changes)]
              = IF Len(changes) = 0 THEN start ELSE changes[Len(changes)].after
<1> DEFINE h == Held(start, changes, "reject")
           expected(i) == IF i = 0 THEN start ELSE changes[i].after
           Good == {i \in Nat : h[i] = expected(i)}
<1>1. Len(changes) \in Nat
  BY LenProperties
<1>2. h[0] = start /\ \A i \in 1..Len(changes) : h[i] = Changed(h[i - 1], changes[i], "reject")
  BY <1>1, HeldDefined
<1> HIDE DEF h
<1>3. \A i \in 1..Len(changes) : changes[i].before = expected(i - 1)
  BY <1>1
<1>4. ASSUME NEW i \in 1..Len(changes), h[i - 1] = expected(i - 1)
      PROVE  Fits(h[i - 1], changes[i].before)
  BY <1>3, <1>4 DEF Fits, SameCookie
<1>5. ASSUME NEW i \in 1..Len(changes), i - 1 \in Good PROVE i \in Good
  <2>1. Fits(h[i - 1], changes[i].before)
    BY <1>4, <1>5
  <2>2. h[i] = changes[i].after
    BY <1>2, <2>1 DEF Changed
  <2> QED BY <2>2
<1>6. 0 \in Good
  BY <1>2
<1>7. \A i \in 0..Len(changes) : i \in Good
  <2> HIDE DEF Good
  <2> QED BY <1>1, <1>5, <1>6, Upward
<1>8. \A i \in 1..Len(changes) : h[i - 1] = expected(i - 1)
  <2>1. \A i \in 1..Len(changes) : i - 1 \in 0..Len(changes)
    BY <1>1
  <2> QED BY <1>7, <2>1
<1>9. h[Len(changes)] = expected(Len(changes))
  BY <1>1, <1>7
<1> QED BY <1>4, <1>8, <1>9 DEF h

\* Changes that fit can be taken back in the opposite order.
EachFits(start, changes) ==
  \A i \in 1..Len(changes) :
    Fits(Held(start, changes, "reject")[i - 1], changes[i].before)

Turned(there, back) ==
  /\ Len(back) = Len(there)
  /\ \A i \in 1..Len(there) : /\ back[i].before = there[Len(there) + 1 - i].after
                             /\ back[i].after = there[Len(there) + 1 - i].before

LEMMA Backwards ==
  ASSUME NEW start \in Slot, NEW there \in Seq(SlotChange), NEW back \in Seq(SlotChange),
         NEW end, end = Held(start, there, "reject")[Len(there)],
         end # NoCookie => end.fields \notin NaN,
         Turned(there, back), EachFits(start, there)
  PROVE  EachFits(end, back) /\ Held(end, back, "reject")[Len(back)] = start
<1> DEFINE h == Held(start, there, "reject")
           n == Len(there)
<1>1. /\ h[0] = start
      /\ \A i \in 1..n : /\ h[i - 1] = there[i].before
                         /\ h[i] = there[i].after
                         /\ there[i].before # NoCookie => there[i].before.fields \notin NaN
  <2>1. Len(there) \in Nat
    BY LenProperties
  <2>2. \A i \in 1..Len(there) :
          Fits(Held(start, there, "reject")[i - 1], there[i].before)
    BY DEF EachFits
  <2>3. \A i \in 1..Len(there) :
          /\ h[i - 1] = there[i].before
          /\ h[i] = there[i].after
          /\ there[i].before # NoCookie => there[i].before.fields \notin NaN
    BY <2>2, FittingIsChain
  <2>4. h[0] = start
    BY <2>1, HeldDefined
  <2> QED BY <2>3, <2>4
<1>2. end \in Slot
  <2>1. n \in 0..Len(there)
    BY LenProperties
  <2> QED BY <2>1, HeldTyping
<1>3. /\ end # NoCookie => end.fields \notin NaN
      /\ end = h[n] /\ n \in Nat /\ Len(back) = n
      /\ \A i \in 1..n : /\ back[i].before = there[n + 1 - i].after
                        /\ back[i].after = there[n + 1 - i].before
  BY LenProperties DEF Turned
<1> HIDE DEF h, n
<1>4. \A i \in 1..n : back[i].before = h[n + 1 - i] /\ back[i].after = h[n - i]
  <2>1. \A i \in 1..n : n + 1 - i \in 1..n /\ (n + 1 - i) - 1 = n - i
    BY <1>3
  <2> QED BY <1>1, <1>3, <2>1
<1>5. ASSUME NEW i \in 1..n
      PROVE  /\ back[i].before = IF i = 1 THEN end ELSE back[i - 1].after
             /\ back[i].before # NoCookie => back[i].before.fields \notin NaN
  <2>1. CASE i = 1
    <3>1. n + 1 - i = n
      BY <1>3, <2>1
    <3>2. back[i].before = h[n]
      BY <1>4, <3>1
    <3> QED BY <1>3, <2>1, <3>2
  <2>2. CASE i # 1
    <3>1. i - 1 \in 1..n /\ n - (i - 1) = n + 1 - i /\ n + 2 - i \in 1..n
          /\ (n + 2 - i) - 1 = n + 1 - i
      BY <1>3, <2>2
    <3>2. back[i].before = h[n + 1 - i] /\ back[i - 1].after = h[n - (i - 1)]
      BY <1>4, <3>1
    <3>3. h[n + 1 - i] = there[n + 2 - i].before
      BY <1>1, <3>1
    <3> QED BY <1>1, <2>2, <3>1, <3>2, <3>3
  <2> QED BY <2>1, <2>2
<1>6. /\ EachFits(end, back)
      /\ Held(end, back, "reject")[Len(back)]
           = IF Len(back) = 0 THEN end ELSE back[Len(back)].after
  BY <1>2, <1>3, <1>5, ChainFits DEF EachFits
<1>7. (IF n = 0 THEN end ELSE back[n].after) = start
  <2>1. n # 0 => n \in 1..n /\ n - n = 0
    BY <1>3
  <2> QED BY <1>1, <1>3, <1>4, <2>1
<1> QED BY <1>3, <1>6, <1>7

\* A function on an interval from one is a sequence of that length.
LEMMA SequenceOf ==
  ASSUME NEW S, NEW n \in Nat, NEW s \in [1..n -> S]
  PROVE  s \in Seq(S) /\ Len(s) = n
<1>1. s \in Seq(S)
  BY SeqDef
<1>2. Len(s) = n
  BY <1>1, LenProperties
<1> QED BY <1>1, <1>2

\* One sequence behind the other, place by place.
Behind(s, t, u) ==
  /\ u = s \o t
  /\ Len(u) = Len(s) + Len(t)
  /\ \A i \in 1..Len(s) : u[i] = s[i]
  /\ \A i \in 1..Len(t) : u[Len(s) + i] = t[i]

LEMMA OneBehindTheOther ==
  ASSUME NEW S, NEW s \in Seq(S), NEW t \in Seq(S)
  PROVE  \E u \in Seq(S) : Behind(s, t, u)
<1>1. Len(s) \in Nat /\ Len(t) \in Nat
  BY LenProperties
<1>2. /\ s \o t \in Seq(S) /\ Len(s \o t) = Len(s) + Len(t)
      /\ \A i \in 1..(Len(s) + Len(t)) :
           (s \o t)[i] = IF i <= Len(s) THEN s[i] ELSE t[i - Len(s)]
  BY ConcatProperties
<1>3. \A i \in 1..Len(s) : i \in 1..(Len(s) + Len(t)) /\ i <= Len(s)
  BY <1>1
<1>4. \A i \in 1..Len(t) : /\ Len(s) + i \in 1..(Len(s) + Len(t))
                           /\ ~(Len(s) + i <= Len(s)) /\ (Len(s) + i) - Len(s) = i
  BY <1>1
<1>5. PICK u : u = s \o t
  OBVIOUS
<1>6. /\ u \in Seq(S) /\ Len(u) = Len(s) + Len(t)
      /\ \A i \in 1..(Len(s) + Len(t)) : u[i] = IF i <= Len(s) THEN s[i] ELSE t[i - Len(s)]
  BY ONLY <1>2, <1>5
<1>7. /\ \A i \in 1..Len(s) : u[i] = s[i]
      /\ \A i \in 1..Len(t) : u[Len(s) + i] = t[i]
  BY ONLY <1>3, <1>4, <1>6
<1> QED BY <1>5, <1>6, <1>7 DEF Behind

\* The changes of a slot, part by part.
Parts(d, k, changes) ==
  LET r == Len(d.removed[k])
      m == Len(d.modified[k])
      a == Len(d.added[k])
  IN /\ changes \in Seq(SlotChange)
     /\ r \in Nat /\ m \in Nat /\ a \in Nat
     /\ Len(changes) = r + m + a
     /\ \A i \in 1..r : /\ changes[i] = [before |-> d.removed[k][i], after |-> NoCookie]
                       /\ d.removed[k][i] \in Cookie /\ d.removed[k][i].key = k
     /\ \A i \in 1..m : /\ changes[r + i] = d.modified[k][i]
                       /\ d.modified[k][i] \in [before : Cookie, after : Cookie]
     /\ \A i \in 1..a : /\ changes[r + m + i] = [before |-> NoCookie, after |-> d.added[k][i]]
                       /\ d.added[k][i] \in Cookie /\ d.added[k][i].key = k

LEMMA ChangesFacts ==
  ASSUME NEW d \in Diff, NEW k \in Key
  PROVE  Parts(d, k, Changes(d, k))
<1> DEFINE r == Len(d.removed[k])
           m == Len(d.modified[k])
           a == Len(d.added[k])
           rs == [i \in 1..r |-> [before |-> d.removed[k][i], after |-> NoCookie]]
           as == [i \in 1..a |-> [before |-> NoCookie, after |-> d.added[k][i]]]
           ms == d.modified[k]
<1>1. /\ d.removed[k] \in Seq(Cookie) /\ d.added[k] \in Seq(Cookie)
      /\ ms \in Seq([before : Cookie, after : Cookie])
      /\ \A i \in DOMAIN d.removed[k] : d.removed[k][i].key = k
      /\ \A i \in DOMAIN d.added[k] : d.added[k][i].key = k
  BY DEF Diff, Vector
<1>2. /\ r \in Nat /\ m \in Nat /\ a \in Nat
      /\ DOMAIN d.removed[k] = 1..r /\ DOMAIN d.added[k] = 1..a
  BY <1>1, LenProperties
<1>3. /\ \A i \in 1..r : d.removed[k][i] \in Cookie /\ d.removed[k][i].key = k
      /\ \A i \in 1..a : d.added[k][i] \in Cookie /\ d.added[k][i].key = k
      /\ \A i \in 1..m : ms[i] \in [before : Cookie, after : Cookie]
  BY <1>1, <1>2, ElementOfSeq
<1>4. Changes(d, k) = (rs \o ms) \o as
  BY <1>2 DEF Changes
<1>5. rs \in Seq(SlotChange) /\ Len(rs) = r
  <2>1. rs \in [1..r -> SlotChange]
    BY <1>3 DEF SlotChange, Slot
  <2> HIDE DEF rs, r
  <2> QED BY <1>2, <2>1, SequenceOf
<1>6. as \in Seq(SlotChange) /\ Len(as) = a
  <2>1. as \in [1..a -> SlotChange]
    BY <1>3 DEF SlotChange, Slot
  <2> HIDE DEF as, a
  <2> QED BY <1>2, <2>1, SequenceOf
<1>7. ms \in Seq(SlotChange)
  <2>1. ms \in [1..m -> SlotChange]
    <3>1. ms = [i \in 1..m |-> ms[i]]
      BY <1>1, LenProperties
    <3> QED BY <1>3, <3>1 DEF SlotChange, Slot
  <2> QED BY <1>2, <2>1, SeqDef
<1>8. /\ \A i \in 1..r : rs[i] = [before |-> d.removed[k][i], after |-> NoCookie]
      /\ \A i \in 1..a : as[i] = [before |-> NoCookie, after |-> d.added[k][i]]
  OBVIOUS
<1> HIDE DEF rs, as, ms
<1> HIDE DEF r, m, a
<1>9. Len(rs) = r /\ Len(ms) = m /\ Len(as) = a
  BY <1>5, <1>6 DEF m, ms
<1>10. PICK u \in Seq(SlotChange) : Behind(rs, ms, u)
  BY <1>5, <1>7, OneBehindTheOther
<1>11. PICK v \in Seq(SlotChange) : Behind(u, as, v)
  BY <1>6, OneBehindTheOther
<1>12. /\ u = rs \o ms /\ Len(u) = r + m
       /\ \A i \in 1..r : u[i] = rs[i]
       /\ \A i \in 1..m : u[r + i] = ms[i]
  BY <1>9, <1>10 DEF Behind
<1>13. /\ v = u \o as /\ Len(v) = (r + m) + a
       /\ \A i \in 1..(r + m) : v[i] = u[i]
       /\ \A i \in 1..a : v[(r + m) + i] = as[i]
  BY <1>9, <1>12, <1>11 DEF Behind
<1>14. Len(v) = r + m + a /\ \A i \in 1..a : v[r + m + i] = as[i]
  BY <1>13
<1>15. Changes(d, k) = v
  BY <1>4, <1>12, <1>13
<1>16. \A i \in 1..r : v[i] = rs[i]
  <2>1. \A i \in 1..r : i \in 1..(r + m)
    BY <1>2
  <2> QED BY <1>12, <1>13, <2>1
<1>17. \A i \in 1..m : v[r + i] = ms[i]
  <2>1. \A i \in 1..m : r + i \in 1..(r + m)
    BY <1>2
  <2> QED BY <1>12, <1>13, <2>1
<1> QED BY <1>2, <1>3, <1>8, <1>11, <1>14, <1>15, <1>16, <1>17 DEF Parts, ms, r, m, a

\* The operators of diff.rs stay in their types.
LEMMA DiffTyping ==
  ASSUME NEW b \in Collection, NEW a \in Collection
  PROVE  diff_collections(b, a) \in Diff
<1>1. \A k \in Key : /\ b[k] \in Slot /\ a[k] \in Slot
                     /\ b[k] # NoCookie => b[k] \in Cookie /\ b[k].key = k
                     /\ a[k] # NoCookie => a[k] \in Cookie /\ a[k].key = k
  BY DEF Collection, Slot
<1>2. ASSUME NEW c \in [Key -> Seq(Cookie)],
             \A k \in Key : c[k] = <<>> \/ \E x \in Cookie : c[k] = <<x>> /\ x.key = k
      PROVE  c \in Vector
  BY <1>2 DEF Vector
<1>3. diff_collections(b, a).added \in Vector
  <2> DEFINE v == [k \in Key |-> IF b[k] = NoCookie /\ a[k] # NoCookie
                                 THEN <<a[k]>> ELSE <<>>]
  <2>1. v \in [Key -> Seq(Cookie)]
    BY <1>1
  <2>2. \A k \in Key : v[k] = <<>> \/ \E x \in Cookie : v[k] = <<x>> /\ x.key = k
    BY <1>1
  <2>3. v \in Vector
    <3> HIDE DEF v
    <3> QED BY <1>2, <2>1, <2>2
  <2> QED BY <2>3 DEF diff_collections
<1>4. diff_collections(b, a).removed \in Vector
  <2> DEFINE v == [k \in Key |-> IF a[k] = NoCookie /\ b[k] # NoCookie
                                 THEN <<b[k]>> ELSE <<>>]
  <2>1. v \in [Key -> Seq(Cookie)]
    BY <1>1
  <2>2. \A k \in Key : v[k] = <<>> \/ \E x \in Cookie : v[k] = <<x>> /\ x.key = k
    BY <1>1
  <2>3. v \in Vector
    <3> HIDE DEF v
    <3> QED BY <1>2, <2>1, <2>2
  <2> QED BY <2>3 DEF diff_collections
<1>5. diff_collections(b, a).modified \in [Key -> Seq([before : Cookie, after : Cookie])]
  <2> DEFINE Modification == [before : Cookie, after : Cookie]
             one(k) == IF Modified(b, a, k)
                       THEN <<[before |-> b[k], after |-> a[k]]>> ELSE <<>>
  <2>1. ASSUME NEW k \in Key PROVE one(k) \in Seq(Modification)
    <3>1. CASE Modified(b, a, k)
      <4>1. [before |-> b[k], after |-> a[k]] \in Modification
        BY <1>1, <3>1 DEF Modified
      <4> HIDE DEF Modification
      <4> QED BY <3>1, <4>1
    <3> QED BY <3>1
  <2> HIDE DEF one
  <2>2. [k \in Key |-> one(k)] \in [Key -> Seq(Modification)]
    BY <2>1
  <2> QED BY <2>2 DEF diff_collections, one
<1> QED BY <1>3, <1>4, <1>5 DEF diff_collections, Diff

LEMMA InvertTyping ==
  ASSUME NEW d \in Diff
  PROVE  /\ invert(d) \in Diff
         /\ \A k \in Key :
              /\ Len(invert(d).modified[k]) = Len(d.modified[k])
              /\ \A i \in 1..Len(d.modified[k]) :
                   invert(d).modified[k][i] = [before |-> d.modified[k][i].after,
                                               after  |-> d.modified[k][i].before]
<1> DEFINE Modification == [before : Cookie, after : Cookie]
           turned(k) == [i \in DOMAIN d.modified[k] |->
                           [before |-> d.modified[k][i].after,
                            after  |-> d.modified[k][i].before]]
<1>1. ASSUME NEW k \in Key
      PROVE  /\ turned(k) \in Seq(Modification)
             /\ Len(turned(k)) = Len(d.modified[k])
             /\ \A i \in 1..Len(d.modified[k]) :
                  turned(k)[i] = [before |-> d.modified[k][i].after,
                                  after  |-> d.modified[k][i].before]
  <2> DEFINE n == Len(d.modified[k])
  <2>1. d.modified[k] \in Seq(Modification)
    BY DEF Diff
  <2>2. n \in Nat /\ DOMAIN d.modified[k] = 1..n
    BY <2>1, LenProperties
  <2>3. \A i \in 1..n : d.modified[k][i] \in Modification
    BY <2>1, ElementOfSeq
  <2>4. /\ turned(k) \in [1..n -> Modification]
        /\ \A i \in 1..n : turned(k)[i] = [before |-> d.modified[k][i].after,
                                           after  |-> d.modified[k][i].before]
    BY <2>2, <2>3
  <2> HIDE DEF n, turned
  <2>5. turned(k) \in Seq(Modification) /\ Len(turned(k)) = n
    BY <2>2, <2>4, SequenceOf
  <2> QED BY <2>4, <2>5 DEF n
<1>2. invert(d).modified = [k \in Key |-> turned(k)]
  BY DEF invert
<1>3. invert(d).added = d.removed /\ invert(d).removed = d.added
  BY DEF invert
<1> HIDE DEF turned
<1>4. invert(d).modified \in [Key -> Seq(Modification)]
  BY <1>1, <1>2
<1>5. invert(d) \in Diff
  <2>1. PICK w \in [Key -> Seq(Modification)] : w = invert(d).modified
    BY <1>4
  <2>2. d.added \in Vector /\ d.removed \in Vector
    BY DEF Diff
  <2>3. [added |-> d.removed, removed |-> d.added, modified |-> w] \in Diff
    BY <2>1, <2>2 DEF Diff
  <2>4. invert(d) = [added |-> d.removed, removed |-> d.added, modified |-> w]
    BY <2>1 DEF invert
  <2> QED BY <2>3, <2>4
<1> QED BY <1>1, <1>2, <1>5

LEMMA ApplyTyping ==
  ASSUME NEW c \in Collection, NEW d \in Diff, NEW strategy
  PROVE  apply_diff(c, d, strategy).map \in [Key -> Slot]
<1>1. ASSUME NEW k \in Key
      PROVE  Held(c[k], Changes(d, k), strategy)[Len(Changes(d, k))] \in Slot
  <2>1. c[k] \in Slot /\ Changes(d, k) \in Seq(SlotChange)
    BY ChangesFacts DEF Collection, Parts
  <2>2. Len(Changes(d, k)) \in 0..Len(Changes(d, k))
    BY <2>1, LenProperties
  <2> QED BY <2>1, <2>2, HeldTyping
<1> QED BY <1>1 DEF apply_diff

\* Collecting a map gives a collection, and a collection is collected as it is.
LEMMA CollectedTyping ==
  ASSUME NEW map \in [Key -> Slot]
  PROVE  Collected(map) \subseteq Collection
<1> DEFINE own(k) == {map[i] : i \in {j \in Key : map[j] # NoCookie /\ map[j].key = k}}
           last(k) == IF own(k) = {} THEN {NoCookie} ELSE own(k)
<1>1. ASSUME NEW k \in Key, NEW x \in last(k)
      PROVE  x \in Slot /\ (x # NoCookie => x.key = k)
  BY <1>1 DEF Slot
<1>2. Collected(map) = {c \in [Key -> UNION {last(k) : k \in Key}] :
                          \A k \in Key : c[k] \in last(k)}
  BY DEF Collected
<1> HIDE DEF last
<1> QED BY <1>1, <1>2 DEF Collection

LEMMA CollectedItself ==
  ASSUME NEW map \in Collection
  PROVE  Collected(map) = {map}
<1> DEFINE own(k) == {map[i] : i \in {j \in Key : map[j] # NoCookie /\ map[j].key = k}}
           last(k) == IF own(k) = {} THEN {NoCookie} ELSE own(k)
<1>1. ASSUME NEW k \in Key
      PROVE  last(k) = {map[k]}
  <2>1. \A i \in Key : map[i] # NoCookie /\ map[i].key = k <=> i = k /\ map[k] # NoCookie
    BY DEF Collection
  <2>2. CASE map[k] = NoCookie
    BY <2>1, <2>2
  <2>3. CASE map[k] # NoCookie
    BY <2>1, <2>3
  <2> QED BY <2>2, <2>3
<1>2. Collected(map) = {c \in [Key -> UNION {last(k) : k \in Key}] :
                          \A k \in Key : c[k] \in last(k)}
  BY DEF Collected
<1> HIDE DEF last
<1>3. map \in [Key -> UNION {last(k) : k \in Key}] /\ map = [k \in Key |-> map[k]]
  BY <1>1 DEF Collection
<1>4. ASSUME NEW c \in Collected(map) PROVE c = map
  <2>1. c \in [Key -> UNION {last(k) : k \in Key}] /\ \A k \in Key : c[k] = map[k]
    BY <1>1, <1>2
  <2> QED BY <1>3, <2>1
<1>5. map \in Collected(map)
  BY <1>1, <1>2, <1>3
<1> QED BY <1>4, <1>5

\* In a regular diff that meets no conflict no slot is changed twice in the
\* same way, and every slot keeps its key.
LEMMA RegularSlots ==
  ASSUME NEW c \in Collection, NEW d \in Diff, Regular(d),
         apply_diff(c, d, "reject").conflicts = {}, NEW k \in Key
  PROVE  /\ Len(d.removed[k]) \in 0..1
         /\ Len(d.modified[k]) \in 0..1
         /\ Len(d.added[k]) \in 0..1
         /\ EachFits(c[k], Changes(d, k))
         /\ LET end == apply_diff(c, d, "reject").map[k]
            IN end # NoCookie => end.key = k
<1> DEFINE r == Len(d.removed[k])
           m == Len(d.modified[k])
           a == Len(d.added[k])
           ch == Changes(d, k)
           n == Len(ch)
           h == Held(c[k], ch, "reject")
<1>0. Parts(d, k, ch)
  BY ChangesFacts
<1> HIDE DEF ch
<1>1. /\ ch \in Seq(SlotChange) /\ n = r + m + a
      /\ r \in Nat /\ m \in Nat /\ a \in Nat
      /\ \A i \in 1..r : /\ ch[i] = [before |-> d.removed[k][i], after |-> NoCookie]
                        /\ d.removed[k][i] \in Cookie
      /\ \A i \in 1..m : /\ ch[r + i] = d.modified[k][i]
                        /\ d.modified[k][i] \in [before : Cookie, after : Cookie]
      /\ \A i \in 1..a : /\ ch[r + m + i] = [before |-> NoCookie, after |-> d.added[k][i]]
                        /\ d.added[k][i] \in Cookie /\ d.added[k][i].key = k
  BY <1>0 DEF Parts
<1>2. c[k] \in Slot /\ (c[k] # NoCookie => c[k].key = k)
  BY DEF Collection, Slot
<1>3. \A i \in 1..n : Fits(h[i - 1], ch[i].before)
  BY DEF apply_diff, ch
<1>4. \A i \in 1..n : h[i - 1] = ch[i].before /\ h[i] = ch[i].after
  BY <1>1, <1>2, <1>3, FittingIsChain
<1>6. apply_diff(c, d, "reject").map[k] = h[n]
  BY DEF apply_diff, ch
<1>7. m <= 1 /\ \A i \in 1..m : d.modified[k][i].after.key = k
  <2>1. d.modified[k] \in Seq([before : Cookie, after : Cookie])
    BY DEF Diff
  <2>2. DOMAIN d.modified[k] = 1..m
    BY <2>1, LenProperties
  <2> QED BY <2>2 DEF Regular
<1> HIDE DEF h, n, ch, r, m, a
<1>5. h[0] = c[k]
  <2>1. n \in Nat
    BY <1>1
  <2>2. Len(ch) \in Nat
    BY <2>1 DEF n
  <2>3. \A start : Held(start, ch, "reject")[0] = start
    BY <2>2, HeldDefined
  <2> QED BY <2>3 DEF h
<1>8. r <= 1
  <2> SUFFICES ASSUME ~(r <= 1) PROVE FALSE
    OBVIOUS
  <2>1. 1 \in 1..n /\ 2 \in 1..n /\ 1 \in 1..r /\ 2 \in 1..r /\ 2 - 1 = 1
    BY <1>1
  <2>2. h[1] = ch[2].before /\ h[1] = ch[1].after
    BY <1>4, <2>1
  <2>3. /\ ch[1] = [before |-> d.removed[k][1], after |-> NoCookie]
        /\ ch[2] = [before |-> d.removed[k][2], after |-> NoCookie]
        /\ d.removed[k][2] \in Cookie
    BY <1>1, <2>1
  <2>4. ch[1].after = NoCookie /\ ch[2].before = d.removed[k][2]
    BY <2>3
  <2> QED BY <2>2, <2>3, <2>4, CookieAssumption
<1>9. a <= 1
  <2> SUFFICES ASSUME ~(a <= 1) PROVE FALSE
    OBVIOUS
  <2>1. /\ r + m + 1 \in 1..n /\ r + m + 2 \in 1..n
        /\ 1 \in 1..a /\ 2 \in 1..a /\ (r + m + 2) - 1 = r + m + 1
    BY <1>1
  <2>2. h[r + m + 1] = ch[r + m + 2].before /\ h[r + m + 1] = ch[r + m + 1].after
    BY <1>4, <2>1
  <2>3. /\ ch[r + m + 1] = [before |-> NoCookie, after |-> d.added[k][1]]
        /\ ch[r + m + 2] = [before |-> NoCookie, after |-> d.added[k][2]]
        /\ d.added[k][1] \in Cookie
    BY <1>1, <2>1
  <2>4. ch[r + m + 1].after = d.added[k][1] /\ ch[r + m + 2].before = NoCookie
    BY <2>3
  <2> QED BY <2>2, <2>3, <2>4, CookieAssumption
<1>10. h[n] # NoCookie => h[n].key = k
  <2>1. CASE n = 0
    BY <1>2, <1>5, <2>1
  <2>2. CASE a # 0
    <3>1. a = 1 /\ n = r + m + 1 /\ 1 \in 1..a /\ n \in 1..n
      BY <1>1, <1>9, <2>2
    <3> QED BY <1>1, <1>4, <3>1
  <2>3. CASE a = 0 /\ m # 0
    <3>1. m = 1 /\ n = r + 1 /\ 1 \in 1..m /\ n \in 1..n
      BY <1>1, <1>7, <2>3
    <3> QED BY <1>1, <1>4, <1>7, <3>1
  <2>4. CASE a = 0 /\ m = 0 /\ r # 0
    <3>1. r = 1 /\ n = 1 /\ 1 \in 1..r /\ n \in 1..n
      BY <1>1, <1>8, <2>4
    <3> QED BY <1>1, <1>4, <3>1
  <2> QED BY <1>1, <2>1, <2>2, <2>3, <2>4
<1>11. r \in 0..1 /\ m \in 0..1 /\ a \in 0..1
  BY <1>1, <1>7, <1>8, <1>9
<1> QED BY <1>3, <1>6, <1>10, <1>11 DEF EachFits, h, n, ch, r, m, a

\* The changes of the inverse are those of a regular diff, turned, in the
\* opposite order.
LEMMA InverseChanges ==
  ASSUME NEW d \in Diff, NEW k \in Key,
         Len(d.removed[k]) \in 0..1, Len(d.modified[k]) \in 0..1, Len(d.added[k]) \in 0..1
  PROVE  Turned(Changes(d, k), Changes(invert(d), k))
<1> DEFINE r == Len(d.removed[k])
           m == Len(d.modified[k])
           a == Len(d.added[k])
           ch == Changes(d, k)
           hc == Changes(invert(d), k)
           n == Len(ch)
<1>0. Parts(d, k, ch)
  BY ChangesFacts
<1> HIDE DEF ch, hc
<1>1. /\ n = r + m + a
      /\ \A i \in 1..r : ch[i] = [before |-> d.removed[k][i], after |-> NoCookie]
      /\ \A i \in 1..m : ch[r + i] = d.modified[k][i]
      /\ \A i \in 1..a : ch[r + m + i] = [before |-> NoCookie, after |-> d.added[k][i]]
  BY <1>0 DEF Parts
<1>2. PICK v : v = invert(d)
  OBVIOUS
<1>3. /\ Len(hc) = a + m + r
      /\ \A i \in 1..a : hc[i] = [before |-> d.added[k][i], after |-> NoCookie]
      /\ \A i \in 1..m : hc[a + i] = [before |-> d.modified[k][i].after,
                                     after  |-> d.modified[k][i].before]
      /\ \A i \in 1..r : hc[a + m + i] = [before |-> NoCookie, after |-> d.removed[k][i]]
  <2>1. v.removed = d.added /\ v.added = d.removed
    BY <1>2 DEF invert
  <2>2. /\ Len(v.modified[k]) = m
        /\ \A i \in 1..m : v.modified[k][i] = [before |-> d.modified[k][i].after,
                                               after  |-> d.modified[k][i].before]
    BY <1>2, InvertTyping
  <2>3. Parts(v, k, hc)
    BY <1>2, InvertTyping, ChangesFacts DEF hc
  <2>4. Len(v.removed[k]) = a /\ Len(v.added[k]) = r
    BY <2>1
  <2> HIDE DEF hc, r, m, a
  <2>5. Len(hc) = a + m + r
    BY <2>2, <2>3, <2>4 DEF Parts
  <2>6. \A i \in 1..a : hc[i] = [before |-> v.removed[k][i], after |-> NoCookie]
    BY <2>3, <2>4 DEF Parts
  <2>7. \A i \in 1..m : hc[a + i] = v.modified[k][i]
    BY <2>2, <2>3, <2>4 DEF Parts
  <2>8. \A i \in 1..r : hc[a + m + i] = [before |-> NoCookie, after |-> v.added[k][i]]
    BY <2>2, <2>3, <2>4 DEF Parts
  <2>9. \A i \in 1..m : hc[a + i] = [before |-> d.modified[k][i].after,
                                     after  |-> d.modified[k][i].before]
    BY <2>2, <2>7
  <2> QED BY <2>1, <2>5, <2>6, <2>8, <2>9
<1>4. r \in 0..1 /\ m \in 0..1 /\ a \in 0..1
  OBVIOUS
<1> HIDE DEF ch, hc, n, r, m, a
<1>5. Len(hc) = n
  BY <1>1, <1>3, <1>4
<1>6. ASSUME NEW i \in 1..n
      PROVE  hc[i].before = ch[n + 1 - i].after /\ hc[i].after = ch[n + 1 - i].before
  <2>1. CASE i <= a
    <3>1. a = 1 /\ i = 1 /\ 1 \in 1..a /\ n + 1 - i = r + m + 1
      BY <1>1, <1>4, <1>6, <2>1
    <3> QED BY <1>1, <1>3, <3>1
  <2>2. CASE a < i /\ i <= a + m
    <3>1. m = 1 /\ i = a + 1 /\ 1 \in 1..m /\ n + 1 - i = r + 1
      BY <1>1, <1>4, <1>6, <2>2
    <3>2. ch[r + 1] = d.modified[k][1]
      BY <1>1, <3>1
    <3>3. hc[a + 1] = [before |-> d.modified[k][1].after,
                       after  |-> d.modified[k][1].before]
      BY <1>3, <3>1
    <3> QED BY <3>1, <3>2, <3>3
  <2>3. CASE a + m < i
    <3>1. r = 1 /\ i = a + m + 1 /\ 1 \in 1..r /\ n + 1 - i = 1
      BY <1>1, <1>4, <1>6, <2>3
    <3>2. ch[1] = [before |-> d.removed[k][1], after |-> NoCookie]
      BY <1>1, <3>1
    <3>3. hc[a + m + 1] = [before |-> NoCookie, after |-> d.removed[k][1]]
      BY <1>3, <3>1
    <3> QED BY <3>1, <3>2, <3>3
  <2> QED BY <1>1, <1>4, <1>6, <2>1, <2>2, <2>3
<1> QED BY <1>5, <1>6 DEF Turned, ch, hc, n

(***************************************************************************)
(* A regular diff that the reject strategy applies without a conflict can  *)
(* be taken back exactly, wherever the diff came from and even if it       *)
(* removes a key and adds it again, as long as no cookie is unequal to     *)
(* itself afterwards.                                                      *)
(***************************************************************************)
THEOREM RejectInverts ==
  ASSUME NEW c \in Collection, NEW d \in Diff, Regular(d),
         apply_diff(c, d, "reject").conflicts = {},
         Ordinary(apply_diff(c, d, "reject").map)
  PROVE  /\ apply_diff(c, d, "reject").map \in Collection
         /\ apply_diff(apply_diff(c, d, "reject").map, invert(d), "reject")
              = [map |-> c, conflicts |-> {}]
<1> DEFINE e == apply_diff(c, d, "reject").map
           v == invert(d)
<1>1. e \in [Key -> Slot]
  BY ApplyTyping
<1>2. \A k \in Key : e[k] # NoCookie => e[k].key = k
  BY RegularSlots
<1>3. e \in Collection
  <2> HIDE DEF e
  <2> QED BY <1>1, <1>2 DEF Collection
<1>4. v \in Diff
  BY InvertTyping
<1>5. ASSUME NEW k \in Key
      PROVE  /\ EachFits(e[k], Changes(v, k))
             /\ Held(e[k], Changes(v, k), "reject")[Len(Changes(v, k))] = c[k]
  <2>1. c[k] \in Slot
    BY DEF Collection
  <2>2. Changes(d, k) \in Seq(SlotChange) /\ Changes(v, k) \in Seq(SlotChange)
    BY <1>4, ChangesFacts DEF Parts
  <2>3. Turned(Changes(d, k), Changes(v, k))
    BY RegularSlots, InverseChanges
  <2>4. EachFits(c[k], Changes(d, k))
    BY RegularSlots
  <2>5. e[k] = Held(c[k], Changes(d, k), "reject")[Len(Changes(d, k))]
    BY DEF apply_diff
  <2>6. e[k] # NoCookie => e[k].fields \notin NaN
    BY DEF Ordinary
  <2> HIDE DEF e, v
  <2> QED BY <2>1, <2>2, <2>3, <2>4, <2>5, <2>6, Backwards
<1>6. apply_diff(e, v, "reject").conflicts = {}
  <2> HIDE DEF e, v
  <2> QED BY <1>5 DEF EachFits, apply_diff
<1>7. apply_diff(e, v, "reject").map = c
  <2> HIDE DEF e, v
  <2>1. c = [k \in Key |-> c[k]]
    BY DEF Collection
  <2> QED BY <1>5, <2>1 DEF apply_diff
<1>8. apply_diff(e, v, "reject") = [map |-> c, conflicts |-> {}]
  <2> HIDE DEF e, v
  <2>1. apply_diff(e, v, "reject") = [map |-> apply_diff(e, v, "reject").map,
                                      conflicts |-> apply_diff(e, v, "reject").conflicts]
    BY DEF apply_diff
  <2> QED BY <1>6, <1>7, <2>1
<1> QED BY <1>3, <1>8

(***************************************************************************)
(* The difference of two collections turns the second back into the first: *)
(* without a conflict, whatever was there before, and up to the spelling   *)
(* of a store id, which a diff does not record.                            *)
(***************************************************************************)
\* The change that turns the second collection back at one key, if any.
TurnBack(b, a, k) ==
  IF b[k] = NoCookie THEN IF a[k] = NoCookie THEN <<>>
                          ELSE <<[before |-> a[k], after |-> NoCookie]>>
  ELSE IF a[k] = NoCookie THEN <<[before |-> NoCookie, after |-> b[k]]>>
  ELSE IF FieldsChanged(b[k], a[k]) THEN <<[before |-> a[k], after |-> b[k]]>>
  ELSE <<>>

LEMMA DifferenceChanges ==
  ASSUME NEW b \in Collection, NEW a \in Collection, NEW k \in Key
  PROVE  /\ Changes(invert(diff_collections(b, a)), k) = TurnBack(b, a, k)
         /\ b[k] \in Slot /\ a[k] \in Slot
<1> DEFINE d == invert(diff_collections(b, a))
           ch == Changes(d, k)
<1>1. /\ b[k] \in Slot /\ a[k] \in Slot
      /\ b[k] # NoCookie => b[k] \in Cookie
      /\ a[k] # NoCookie => a[k] \in Cookie
  BY DEF Collection, Slot
<1>2. /\ diff_collections(b, a) \in Diff
      /\ d \in Diff
  BY DiffTyping, InvertTyping
<1>3. /\ d.removed[k] = IF b[k] = NoCookie /\ a[k] # NoCookie THEN <<a[k]>> ELSE <<>>
      /\ d.added[k] = IF a[k] = NoCookie /\ b[k] # NoCookie THEN <<b[k]>> ELSE <<>>
      /\ diff_collections(b, a).modified[k]
           = IF Modified(b, a, k) THEN <<[before |-> b[k], after |-> a[k]]>> ELSE <<>>
  BY DEF invert, diff_collections
<1>4. Len(d.modified[k]) = IF Modified(b, a, k) THEN 1 ELSE 0
  <2>1. Len(d.modified[k]) = Len(diff_collections(b, a).modified[k])
    BY <1>2, InvertTyping
  <2> QED BY <1>3, <2>1
<1>5. Modified(b, a, k) => d.modified[k][1] = [before |-> a[k], after |-> b[k]]
  <2> SUFFICES ASSUME Modified(b, a, k) PROVE d.modified[k][1] = [before |-> a[k], after |-> b[k]]
    OBVIOUS
  <2>1. diff_collections(b, a).modified[k] = <<[before |-> b[k], after |-> a[k]]>>
    BY <1>3
  <2>2. 1 \in 1..Len(diff_collections(b, a).modified[k])
    BY <2>1
  <2>3. d.modified[k][1] = [before |-> diff_collections(b, a).modified[k][1].after,
                            after  |-> diff_collections(b, a).modified[k][1].before]
    BY <1>2, <2>2, InvertTyping
  <2> QED BY <2>1, <2>3
<1>6. Parts(d, k, ch)
  BY <1>2, ChangesFacts
<1> HIDE DEF ch, d
<1>7. /\ ch \in Seq(SlotChange)
      /\ Len(ch) = Len(d.removed[k]) + Len(d.modified[k]) + Len(d.added[k])
      /\ \A i \in 1..Len(d.removed[k]) :
           ch[i] = [before |-> d.removed[k][i], after |-> NoCookie]
      /\ \A i \in 1..Len(d.modified[k]) : ch[Len(d.removed[k]) + i] = d.modified[k][i]
      /\ \A i \in 1..Len(d.added[k]) :
           ch[Len(d.removed[k]) + Len(d.modified[k]) + i]
             = [before |-> NoCookie, after |-> d.added[k][i]]
  BY <1>6 DEF Parts
<1>8. ASSUME NEW x, ch[1] = x, Len(ch) = 1 PROVE ch = <<x>>
  <2>1. x \in SlotChange
    <3>1. ch \in Seq(SlotChange)
      BY <1>7
    <3>2. 1 \in 1..Len(ch)
      <4>1. Len(ch) = 1
        BY <1>8
      <4> QED BY <4>1
    <3>3. ch[1] \in SlotChange
      BY <3>1, <3>2, ElementOfSeq
    <3> QED BY <1>8, <3>3
  <2>2. <<x>> \in Seq(SlotChange) /\ Len(<<x>>) = 1 /\ <<x>>[1] = x
    BY <2>1
  <2>3. \A i \in 1..Len(ch) : ch[i] = <<x>>[i]
    BY <1>8, <2>2
  <2> QED BY <1>7, <1>8, <2>2, <2>3, SeqEqual
<1>9. CASE b[k] = NoCookie /\ a[k] # NoCookie
  <2>1. /\ d.removed[k] = <<a[k]>> /\ Len(d.removed[k]) = 1
        /\ d.added[k] = <<>> /\ Len(d.added[k]) = 0 /\ Len(d.modified[k]) = 0
    BY <1>3, <1>4, <1>9 DEF Modified
  <2>2. Len(ch) = 1 /\ ch[1] = [before |-> a[k], after |-> NoCookie]
    BY <1>7, <2>1
  <2> QED BY <1>1, <1>8, <1>9, <2>2 DEF TurnBack, ch, d
<1>10. CASE b[k] # NoCookie /\ a[k] = NoCookie
  <2>1. /\ d.added[k] = <<b[k]>> /\ Len(d.added[k]) = 1
        /\ d.removed[k] = <<>> /\ Len(d.removed[k]) = 0 /\ Len(d.modified[k]) = 0
    BY <1>3, <1>4, <1>10 DEF Modified
  <2>2. Len(ch) = 1 /\ ch[1] = [before |-> NoCookie, after |-> b[k]]
    BY <1>7, <2>1
  <2> QED BY <1>1, <1>8, <1>10, <2>2 DEF TurnBack, ch, d
<1>11. CASE Modified(b, a, k)
  <2>1. /\ b[k] # NoCookie /\ a[k] # NoCookie /\ FieldsChanged(b[k], a[k])
        /\ Len(d.added[k]) = 0 /\ Len(d.removed[k]) = 0 /\ Len(d.modified[k]) = 1
    BY <1>3, <1>4, <1>11 DEF Modified
  <2>2. Len(ch) = 1 /\ ch[1] = [before |-> a[k], after |-> b[k]]
    BY <1>5, <1>7, <1>11, <2>1
  <2> QED BY <1>1, <1>8, <2>1, <2>2 DEF TurnBack, ch, d
<1>12. CASE ~Modified(b, a, k) /\ (b[k] = NoCookie <=> a[k] = NoCookie)
  <2>1. /\ Len(d.added[k]) = 0 /\ Len(d.removed[k]) = 0 /\ Len(d.modified[k]) = 0
        /\ TurnBack(b, a, k) = <<>>
    BY <1>3, <1>4, <1>12 DEF Modified, TurnBack
  <2>2. Len(ch) = 0
    BY <1>7, <2>1
  <2>3. ch = <<>>
    BY <1>7, <2>2, EmptySeq
  <2> QED BY <1>1, <2>1, <2>3 DEF ch, d
<1> QED BY <1>9, <1>10, <1>11, <1>12

\* A slot with one change, and one with none.
LEMMA ShortSlots ==
  ASSUME NEW start
  PROVE  /\ Held(start, <<>>, "reject")[0] = start
         /\ \A x : /\ Held(start, <<x>>, "reject")[0] = start
                  /\ Held(start, <<x>>, "reject")[1] = Changed(start, x, "reject")
<1>1. Held(start, <<>>, "reject")[0] = start
  BY HeldDefined
<1>2. ASSUME NEW x
      PROVE  /\ Held(start, <<x>>, "reject")[0] = start
             /\ Held(start, <<x>>, "reject")[1] = Changed(start, x, "reject")
  <2>1. Len(<<x>>) = 1 /\ <<x>>[1] = x /\ 1 \in 1..1 /\ 1 - 1 = 0
    OBVIOUS
  <2> DEFINE ch == <<x>>
  <2> HIDE DEF ch
  <2>2. Len(ch) = 1 /\ ch[1] = x
    BY <2>1 DEF ch
  <2>3. /\ Held(start, ch, "reject")[0] = start
        /\ Held(start, ch, "reject")[1] = Changed(Held(start, ch, "reject")[1 - 1], ch[1], "reject")
    <3>1. Len(ch) \in Nat /\ 1 \in 1..Len(ch)
      BY <2>2
    <3>2. /\ Held(start, ch, "reject")[0] = start
          /\ \A i \in 1..Len(ch) :
               Held(start, ch, "reject")[i]
                 = Changed(Held(start, ch, "reject")[i - 1], ch[i], "reject")
      BY <3>1, HeldDefined
    <3> QED BY <3>1, <3>2
  <2> QED BY <2>1, <2>2, <2>3 DEF ch
<1> QED BY <1>1, <1>2

THEOREM DiffInverts ==
  ASSUME NEW b \in Collection, NEW a \in Collection, Ordinary(a)
  PROVE  LET report == apply_diff(a, invert(diff_collections(b, a)), "reject")
         IN /\ report.conflicts = {}
            /\ report.map \in Collection
            /\ SameFields(report.map, b)
<1> DEFINE d == invert(diff_collections(b, a))
           report == apply_diff(a, d, "reject")
<1>1. ASSUME NEW k \in Key
      PROVE  /\ \A i \in 1..Len(Changes(d, k)) :
                  Fits(Held(a[k], Changes(d, k), "reject")[i - 1], Changes(d, k)[i].before)
             /\ report.map[k] \in {a[k], b[k]}
             /\ report.map[k] = NoCookie <=> b[k] = NoCookie
             /\ report.map[k] # NoCookie => report.map[k].fields = b[k].fields
  <2> DEFINE x == TurnBack(b, a, k)[1]
  <2>1. Changes(d, k) = TurnBack(b, a, k) /\ b[k] \in Slot /\ a[k] \in Slot
    BY DifferenceChanges
  <2>2. report.map[k] = Held(a[k], TurnBack(b, a, k), "reject")[Len(TurnBack(b, a, k))]
    BY <2>1 DEF apply_diff
  <2>3. a[k] # NoCookie => a[k].fields \notin NaN
    BY DEF Ordinary
  <2> HIDE DEF d, report
  <2>4. CASE TurnBack(b, a, k) = <<>>
    <3>1. b[k] = NoCookie <=> a[k] = NoCookie
      BY <2>4 DEF TurnBack
    <3>2. a[k] # NoCookie => a[k].fields = b[k].fields
      BY <2>4, <3>1 DEF TurnBack, FieldsChanged
    <3>3. Len(TurnBack(b, a, k)) = 0 /\ report.map[k] = a[k]
      BY <2>2, <2>4, ShortSlots
    <3> QED BY <2>1, <3>1, <3>2, <3>3
  <2>5. CASE TurnBack(b, a, k) # <<>>
    <3>1. /\ TurnBack(b, a, k) = <<x>> /\ x = [before |-> a[k], after |-> b[k]]
          /\ Len(TurnBack(b, a, k)) = 1
          /\ a[k] = NoCookie => b[k] # NoCookie
      BY <2>5 DEF TurnBack
    <3> HIDE DEF x
    <3>2. Fits(a[k], x.before)
      BY <2>3, <3>1 DEF Fits, SameCookie
    <3>3. report.map[k] = b[k]
      BY <2>2, <3>1, <3>2, ShortSlots DEF Changed
    <3>4. \A i \in 1..1 : Fits(Held(a[k], <<x>>, "reject")[i - 1], <<x>>[i].before)
      <4>1. 1 - 1 = 0
        OBVIOUS
      <4>2. Held(a[k], <<x>>, "reject")[1 - 1] = a[k]
        BY <4>1, ShortSlots
      <4> QED BY <3>2, <4>2
    <3> QED BY <2>1, <3>1, <3>3, <3>4
  <2> QED BY <2>4, <2>5
<1>2. report.conflicts = {}
  BY <1>1 DEF apply_diff
<1>3. report.map \in [Key -> Slot]
  BY DiffTyping, InvertTyping, ApplyTyping
<1> HIDE DEF report
<1>4. report.map \in Collection
  BY <1>1, <1>3 DEF Collection
<1>5. SameFields(report.map, b)
  BY <1>1 DEF SameFields
<1> QED BY <1>2, <1>4, <1>5 DEF report

(* A cookie with a NaN expiration date always stands in the way: the       *)
(* difference names it, and its precondition never holds.                  *)
LEMMA NaNConflicts ==
  ASSUME NEW b \in Collection, NEW a \in Collection,
         apply_diff(a, invert(diff_collections(b, a)), "reject").conflicts = {}
  PROVE  Ordinary(a)
<1> DEFINE d == invert(diff_collections(b, a))
<1> SUFFICES ASSUME NEW k \in Key, a[k] # NoCookie, a[k].fields \in NaN
             PROVE  FALSE
  BY DEF Ordinary
<1>1. Changes(d, k) = TurnBack(b, a, k)
  BY DifferenceChanges
<1>2. PICK y : TurnBack(b, a, k) = <<[before |-> a[k], after |-> y]>>
  BY DEF TurnBack, FieldsChanged
<1> DEFINE x == [before |-> a[k], after |-> y]
<1>3. \A i \in 1..Len(Changes(d, k)) :
        Fits(Held(a[k], Changes(d, k), "reject")[i - 1], Changes(d, k)[i].before)
  BY DEF apply_diff
<1> HIDE DEF d, x
<1>4. Changes(d, k) = <<x>> /\ x.before = a[k]
  BY <1>1, <1>2 DEF x
<1>5. 1 \in 1..Len(<<x>>) /\ <<x>>[1] = x
  OBVIOUS
<1>6. Fits(Held(a[k], <<x>>, "reject")[1 - 1], x.before)
  BY <1>3, <1>4, <1>5
<1>7. Held(a[k], <<x>>, "reject")[1 - 1] = a[k]
  <2>1. 1 - 1 = 0
    OBVIOUS
  <2> QED BY <2>1, ShortSlots
<1> QED BY <1>4, <1>6, <1>7 DEF Fits, SameCookie

-----------------------------------------------------------------------------
(***************************************************************************)
(* The store.                                                              *)
(***************************************************************************)

-----------------------------------------------------------------------------
(* Collections as vectors and as maps. *)

\* The entries of a vector are cookies of their key, in order.
LEMMA VectorEntries ==
  ASSUME NEW v \in Vector, NEW k \in Key
  PROVE  /\ v[k] \in Seq(Cookie)
         /\ \A i \in 1..Len(v[k]) : v[k][i] \in Cookie /\ v[k][i].key = k
<1>1. v[k] \in Seq(Cookie) /\ \A i \in DOMAIN v[k] : v[k][i].key = k
  BY DEF Vector
<1>2. DOMAIN v[k] = 1..Len(v[k]) /\ \A i \in 1..Len(v[k]) : v[k][i] \in Cookie
  BY <1>1, LenProperties, ElementOfSeq
<1> QED BY <1>1, <1>2

\* And whatever is made of such entries is a vector.
LEMMA VectorMade ==
  ASSUME NEW v \in [Key -> Seq(Cookie)],
         \A k \in Key : \A i \in 1..Len(v[k]) : v[k][i].key = k
  PROVE  v \in Vector
<1>1. \A k \in Key : DOMAIN v[k] = 1..Len(v[k])
  BY LenProperties
<1> QED BY <1>1 DEF Vector

\* Collecting a vector into a map, and listing a map, stay in their types,
\* and the one undoes the other.
LEMMA KeyedTyping ==
  ASSUME NEW working \in Vector
  PROVE  Keyed(working) \in Collection
<1>1. ASSUME NEW k \in Key, working[k] # <<>>
      PROVE  Last(working[k]) \in Cookie /\ Last(working[k]).key = k
  <2>1. /\ working[k] \in Seq(Cookie)
        /\ \A i \in 1..Len(working[k]) : working[k][i] \in Cookie /\ working[k][i].key = k
    BY VectorEntries
  <2>2. Len(working[k]) \in 1..Len(working[k])
    BY <1>1, <2>1, EmptySeq
  <2>3. QED
    BY <2>1, <2>2 DEF Last
<1> DEFINE c == Keyed(working)
<1>2. \A k \in Key : c[k] \in Slot /\ (c[k] # NoCookie => c[k].key = k)
  BY <1>1 DEF Keyed, Slot
<1>3. c \in [Key -> Slot]
  <2>1. \A k \in Key : (IF working[k] = <<>> THEN NoCookie ELSE Last(working[k])) \in Slot
    BY <1>1 DEF Slot
  <2> QED BY <2>1 DEF Keyed
<1> HIDE DEF c
<1>4. c \in Collection
  BY <1>2, <1>3 DEF Collection
<1>5. QED
  BY <1>4 DEF c

LEMMA ListedTyping ==
  ASSUME NEW c \in Collection
  PROVE  Listed(c) \in Vector
<1>1. ASSUME NEW k \in Key
      PROVE  /\ (IF c[k] = NoCookie THEN <<>> ELSE <<c[k]>>) \in Seq(Cookie)
             /\ Listed(c)[k] = IF c[k] = NoCookie THEN <<>> ELSE <<c[k]>>
             /\ c[k] # NoCookie => c[k].key = k
  BY DEF Collection, Listed, Slot
<1>2. Listed(c) \in [Key -> Seq(Cookie)]
  BY <1>1 DEF Listed
<1>3. ASSUME NEW k \in Key, NEW i \in 1..Len(Listed(c)[k])
      PROVE  Listed(c)[k][i].key = k
  <2>1. c[k] # NoCookie
    <3> SUFFICES ASSUME c[k] = NoCookie PROVE FALSE
      OBVIOUS
    <3>1. Listed(c)[k] = <<>>
      BY <1>1
    <3> QED BY <3>1
  <2>2. Listed(c)[k] = <<c[k]>>
    BY <1>1, <2>1
  <2>3. \A x : <<x>> \in Seq({x})
    OBVIOUS
  <2>4. Listed(c)[k] \in Seq({c[k]})
    BY <2>2, <2>3, Zenon
  <2>5. Listed(c)[k][i] \in {c[k]}
    BY <2>4, ElementOfSeq
  <2> QED BY <1>1, <2>1, <2>5
<1>4. QED
  BY <1>2, <1>3, VectorMade

LEMMA KeyedListed ==
  ASSUME NEW c \in Collection
  PROVE  Keyed(Listed(c)) = c
<1>1. ASSUME NEW k \in Key
      PROVE  (IF Listed(c)[k] = <<>> THEN NoCookie ELSE Last(Listed(c)[k])) = c[k]
  BY DEF Listed, Last
<1>2. c = [k \in Key |-> c[k]]
  BY DEF Collection
<1>3. QED
  BY <1>1, <1>2 DEF Keyed

PushedLength(n, limit) == IF n < limit THEN n + 1 ELSE limit

\* What push_front and the trimming after it leave of a history.
LEMMA PushFrontLength ==
  ASSUME NEW S, NEW x \in S, NEW s \in Seq(S), NEW limit \in Nat \ {0},
         Len(s) <= limit
  PROVE  /\ PushFront(x, s, limit) \in Seq(S)
         /\ Len(PushFront(x, s, limit)) = PushedLength(Len(s), limit)
         /\ PushedLength(Len(s), limit) \in 1..limit
<1> DEFINE n == PushedLength(Len(s), limit)
           p == PushFront(x, s, limit)
<1>1. Len(s) \in Nat /\ n \in 1..limit /\ n - 1 <= Len(s)
  BY LenProperties DEF PushedLength
<1>2. p = [i \in 1..n |-> IF i = 1 THEN x ELSE s[i - 1]]
  BY DEF PushFront, PushedLength
<1> HIDE DEF n
<1>3. \A i \in 1..n : (IF i = 1 THEN x ELSE s[i - 1]) \in S
  BY <1>1, ElementOfSeq
<1>4. p \in [1..n -> S]
  BY <1>2, <1>3
<1>5. p \in Seq(S)
  BY <1>1, <1>4, SeqDef
<1>6. Len(p) = n
  BY <1>1, <1>4, <1>5, LenProperties
<1>7. QED
  BY <1>1, <1>5, <1>6 DEF n

LEMMA PushFrontElements ==
  ASSUME NEW S, NEW x \in S, NEW s \in Seq(S), NEW limit \in Nat \ {0},
         Len(s) <= limit
  PROVE  /\ PushFront(x, s, limit)[1] = x
         /\ \A i \in 2..PushedLength(Len(s), limit) :
              /\ i - 1 \in 1..Len(s)
              /\ PushFront(x, s, limit)[i] = s[i - 1]
<1>1. Len(s) \in Nat
  BY LenProperties
<1>2. QED
  BY <1>1 DEF PushFront, PushedLength

\* The revision never goes back, and only stands still at its maximum.
LEMMA NextRevisionProperties ==
  ASSUME NEW r \in Revision
  PROVE  /\ NextRevision(r) \in Revision
         /\ NextRevision(r) >= r
         /\ r < MaxRevision => NextRevision(r) > r
BY StoreAssumption DEF Revision, NextRevision

-----------------------------------------------------------------------------
(* Type correctness. *)

\* What every commit needs to keep the types, wherever its contents are from.
LEMMA InstallTyping ==
  ASSUME TypeOK, NEW base \in Collection, NEW working \in Vector,
         Install(base, working)
  PROVE  /\ revision' \in Revision
         /\ cookies' \in Collection
         /\ history' \in Seq(Record) /\ Len(history') <= HistoryLimit
         /\ replaced' \in Seq(Collection) /\ Len(replaced') = Len(history')
<1> DEFINE record == [revision        |-> NextRevision(revision),
                      parent_revision |-> revision,
                      diff |-> diff_collections(base, Keyed(working))]
<1>1. record \in Record
  BY KeyedTyping, DiffTyping, NextRevisionProperties DEF TypeOK, Record
<1>2. /\ history' = PushFront(record, history, HistoryLimit)
      /\ replaced' = PushFront(cookies, replaced, HistoryLimit)
      /\ revision' = NextRevision(revision)
      /\ cookies' = Keyed(working)
  BY DEF Install
<1> HIDE DEF record
<1>3. history' \in Seq(Record) /\ Len(history') <= HistoryLimit
  <2>1. history \in Seq(Record) /\ Len(history) <= HistoryLimit
    BY DEF TypeOK
  <2>2. QED
    BY ONLY <1>1, <1>2, <2>1, PushFrontLength, StoreAssumption
<1>4. replaced' \in Seq(Collection) /\ Len(replaced') = Len(history')
  <2>1. /\ cookies \in Collection
        /\ history \in Seq(Record) /\ Len(history) <= HistoryLimit
        /\ replaced \in Seq(Collection) /\ Len(replaced) = Len(history)
    BY DEF TypeOK
  <2>2. HistoryLimit \in Nat \ {0}
    BY StoreAssumption
  <2>3. PushFront(cookies, replaced, HistoryLimit) \in Seq(Collection)
    BY ONLY <2>1, <2>2, PushFrontLength
  <2>4. Len(PushFront(cookies, replaced, HistoryLimit))
          = Len(PushFront(record, history, HistoryLimit))
    BY ONLY <1>1, <2>1, <2>2, PushFrontLength
  <2>5. QED
    BY <1>2, <2>3, <2>4
<1>5. QED
  BY <1>2, <1>3, <1>4, KeyedTyping, NextRevisionProperties DEF TypeOK

\* What a rollback may collect are collections.
LEMMA RollbackReportTyping ==
  ASSUME TypeOK, history # <<>>
  PROVE  Collected(RollbackReport.map) \subseteq Collection
<1>1. history[1].diff \in Diff
  <2>1. history \in Seq(Record)
    BY DEF TypeOK
  <2>2. 1 \in 1..Len(history)
    BY <2>1, EmptySeq
  <2>3. history[1] \in Record
    BY <2>1, <2>2, ElementOfSeq
  <2>4. QED
    BY <2>3 DEF Record
<1>2. RollbackReport.map \in [Key -> Slot]
  BY <1>1, InvertTyping, ApplyTyping DEF RollbackReport, TypeOK
<1>3. QED
  BY <1>2, CollectedTyping

\* The direct operations of the store are commits over the current contents.
LEMMA StoreStep ==
  ASSUME TypeOK, StoreNext
  PROVE  /\ UNCHANGED tx
         /\ \E working \in Vector : Install(cookies, working)
<1>1. ASSUME NEW diff \in ExternalDiff, NEW strategy \in Strategy,
             ApplyExternalDiff(revision, diff, strategy)
      PROVE  /\ UNCHANGED tx
             /\ \E working \in Vector : Install(cookies, working)
  <2>1. Collected(apply_diff(cookies, diff, strategy).map) \subseteq Collection
    BY ApplyTyping, CollectedTyping, StoreAssumption DEF TypeOK
  <2>2. QED
    BY <1>1, <2>1, ListedTyping DEF ApplyExternalDiff
<1>2. ASSUME NEW batch \in Batch, Restore(batch)
      PROVE  /\ UNCHANGED tx
             /\ \E working \in Vector : Install(cookies, working)
  BY <1>2, StoreAssumption DEF Restore
<1>3. ASSUME RollbackLast
      PROVE  /\ UNCHANGED tx
             /\ \E working \in Vector : Install(cookies, working)
  BY <1>3, RollbackReportTyping, ListedTyping DEF RollbackLast
<1>4. QED
  <2>1. \A expected, diff, strategy :
          ApplyExternalDiff(expected, diff, strategy) => expected = revision
    BY DEF ApplyExternalDiff
  <2>2. QED
    BY <1>1, <1>2, <1>3, <2>1 DEF StoreNext

Editing(t) ==
  \/ \E cookie \in Cookie : Insert(t, cookie)
  \/ \E k \in Key : RemoveCookie(t, k)
  \/ \E failing \in SUBSET Key : Retain(t, failing)
  \/ Clear(t)
  \/ \E batch \in Batch : ReplaceCollection(t, batch)

\* Without its first cookie an entry of a vector still is one.
LEMMA RestOfEntry ==
  ASSUME NEW v \in Vector, NEW k \in Key, v[k] # <<>>
  PROVE  /\ Tail(v[k]) \in Seq(Cookie)
         /\ \A i \in 1..Len(Tail(v[k])) : Tail(v[k])[i].key = k
<1>1. v[k] \in Seq(Cookie) /\ \A i \in 1..Len(v[k]) : v[k][i].key = k
  BY VectorEntries
<1>2. /\ Tail(v[k]) \in Seq(Cookie)
      /\ Len(v[k]) \in Nat
      /\ Len(Tail(v[k])) = Len(v[k]) - 1
      /\ \A i \in 1..Len(Tail(v[k])) : Tail(v[k])[i] = v[k][i + 1]
  BY <1>1, HeadTailProperties, LenProperties
<1>3. \A i \in 1..Len(Tail(v[k])) : i + 1 \in 1..Len(v[k])
  BY <1>2
<1> QED BY <1>1, <1>2, <1>3

\* A vector with one entry replaced by another of the same key.
LEMMA EntryReplaced ==
  ASSUME NEW v \in Vector, NEW k \in Key, NEW s \in Seq(Cookie),
         \A i \in 1..Len(s) : s[i].key = k
  PROVE  [v EXCEPT ![k] = s] \in Vector
<1> DEFINE w == [v EXCEPT ![k] = s]
<1>1. v \in [Key -> Seq(Cookie)]
  BY DEF Vector
<1>2. w \in [Key -> Seq(Cookie)]
  BY <1>1
<1>3. \A j \in Key : w[j] = IF j = k THEN s ELSE v[j]
  BY <1>1
<1> HIDE DEF w
<1>4. \A j \in Key : \A i \in 1..Len(w[j]) : w[j][i].key = j
  BY <1>3, VectorEntries
<1>5. w \in Vector
  BY <1>2, <1>4, VectorMade
<1> QED BY <1>5 DEF w

\* What an editing operation puts into the transaction is a vector.
LEMMA EditStep ==
  ASSUME TypeOK, NEW t \in Transaction, Editing(t)
  PROVE  Open(t) /\ \E w \in Vector : Edit(t, w)
<1> USE DEF TypeOK
<1>0. Open(t) => tx[t] \in CookieTransaction
  BY DEF Open
<1>1. CASE \E k \in Key : RemoveCookie(t, k)
  <2> PICK k \in Key : RemoveCookie(t, k)
    BY <1>1
  <2>1. Open(t) /\ tx[t].working \in Vector /\ tx[t].working[k] # <<>>
    BY <1>0 DEF RemoveCookie, CookieTransaction
  <2>2. [tx[t].working EXCEPT ![k] = Tail(tx[t].working[k])] \in Vector
    BY <2>1, RestOfEntry, EntryReplaced
  <2>3. Edit(t, [tx[t].working EXCEPT ![k] = Tail(tx[t].working[k])])
    BY DEF RemoveCookie
  <2>4. QED
    BY <2>1, <2>2, <2>3
<1>2. CASE \E cookie \in Cookie : Insert(t, cookie)
  <2> PICK cookie \in Cookie : Insert(t, cookie)
    BY <1>2
  <2> DEFINE k == cookie.key
             rest == IF tx[t].working[k] = <<>> THEN <<>> ELSE Tail(tx[t].working[k])
             s == Append(rest, cookie)
  <2>1. Open(t) /\ tx[t].working \in Vector /\ k \in Key
    BY <1>0 DEF Insert, CookieTransaction, Cookie
  <2>2. rest \in Seq(Cookie) /\ \A i \in 1..Len(rest) : rest[i].key = k
    <3>1. CASE tx[t].working[k] = <<>>
      BY <3>1
    <3>2. CASE tx[t].working[k] # <<>>
      BY <2>1, <3>2, RestOfEntry
    <3> QED BY <3>1, <3>2
  <2>3. Edit(t, [tx[t].working EXCEPT ![k] = s])
    BY DEF Insert
  <2> HIDE DEF rest
  <2>4. /\ s \in Seq(Cookie) /\ Len(s) = Len(rest) + 1 /\ Len(rest) \in Nat
        /\ \A i \in 1..Len(rest) : s[i] = rest[i]
        /\ s[Len(rest) + 1] = cookie
    BY <2>2, AppendProperties, LenProperties
  <2> HIDE DEF s
  <2>5. \A i \in 1..Len(s) : s[i].key = k
    BY <2>2, <2>4
  <2> HIDE DEF k
  <2>6. [tx[t].working EXCEPT ![k] = s] \in Vector
    BY <2>1, <2>4, <2>5, EntryReplaced
  <2>7. QED
    BY <2>1, <2>3, <2>6
<1>3. CASE \E failing \in SUBSET Key : Retain(t, failing)
  <2> PICK failing \in SUBSET Key : Retain(t, failing)
    BY <1>3
  <2> DEFINE w == [k \in Key |-> IF k \in failing THEN <<>> ELSE tx[t].working[k]]
  <2>1. Open(t) /\ tx[t].working \in Vector
    BY <1>0 DEF Retain, CookieTransaction
  <2>2. \A k \in Key : (IF k \in failing THEN <<>> ELSE tx[t].working[k]) \in Seq(Cookie)
    BY <2>1, VectorEntries, EmptySeq
  <2>3. w \in [Key -> Seq(Cookie)]
    BY <2>2
  <2>4. \A k \in Key : \A i \in 1..Len(w[k]) : w[k][i].key = k
    BY <2>1, VectorEntries
  <2>5. w \in Vector
    <3> HIDE DEF w
    <3> QED BY <2>3, <2>4, VectorMade
  <2>6. Edit(t, w)
    BY DEF Retain
  <2>7. QED
    BY <2>1, <2>5, <2>6
<1>4. CASE Clear(t)
  <2>1. [k \in Key |-> <<>>] \in Vector
    BY EmptySeq DEF Vector
  <2>2. QED
    BY <1>4, <2>1 DEF Clear
<1>5. CASE \E batch \in Batch : ReplaceCollection(t, batch)
  BY <1>5, StoreAssumption DEF ReplaceCollection
<1>6. QED
  BY <1>1, <1>2, <1>3, <1>4, <1>5 DEF Editing

\* A transaction's own operations change one slot and leave the store alone,
\* except for a commit that is not stale.
LEMMA TransactionStep ==
  ASSUME TypeOK, NEW t \in Transaction, TransactionNext(t)
  PROVE  /\ tx' \in [Transaction -> CookieTransaction \cup {NoTransaction}]
         /\ \/ UNCHANGED <<revision, cookies, history, replaced>>
            \/ /\ Open(t) /\ ~Stale(t) /\ tx' = [tx EXCEPT ![t] = NoTransaction]
               /\ tx[t] \in CookieTransaction
               /\ Install(tx[t].base, tx[t].working)
<1> USE DEF TypeOK
<1>0. \A u \in Transaction : Open(u) => tx[u] \in CookieTransaction
  BY DEF Open
<1>1. CASE Begin(t)
  BY <1>1, ListedTyping DEF Begin, CookieTransaction
<1>2. CASE \E u \in Transaction : Clone(t, u)
  BY <1>2, <1>0 DEF Clone
<1>3. CASE Editing(t)
  <2>1. PICK w \in Vector : Edit(t, w)
    BY <1>3, EditStep
  <2>2. tx[t] \in CookieTransaction
    BY <1>0, <1>3, EditStep
  <2>3. tx' = [tx EXCEPT ![t] = [tx[t] EXCEPT !.working = w]]
    BY <2>1 DEF Edit
  <2>4. [tx[t] EXCEPT !.working = w] \in CookieTransaction
    BY <2>2 DEF CookieTransaction
  <2>5. QED
    BY <2>1, <2>3, <2>4 DEF Edit
<1>4. CASE Abort(t)
  BY <1>4 DEF Abort, Close
<1>5. CASE Commit(t)
  BY <1>0, <1>5 DEF Commit, Close
<1>6. CASE RefuseCommit(t)
  BY <1>6 DEF RefuseCommit, Close
<1>7. QED
  BY <1>1, <1>2, <1>3, <1>4, <1>5, <1>6 DEF TransactionNext, Editing

\* The store starts well typed.
LEMMA InitTyping == Init => TypeOK
<1> SUFFICES ASSUME Init PROVE TypeOK
  OBVIOUS
<1>1. cookies \in Collection
  BY KeyedTyping, StoreAssumption DEF Init
<1>2. QED
  BY <1>1, EmptySeq, StoreAssumption DEF Init, TypeOK, Revision

\* Every step keeps the types.
LEMMA StepTyping == TypeOK /\ [Next]_vars => TypeOK'
<1> SUFFICES ASSUME TypeOK, [Next]_vars PROVE TypeOK'
  OBVIOUS
<1>1. CASE StoreNext
  BY <1>1, StoreStep, InstallTyping DEF TypeOK
<1>2. CASE \E t \in Transaction : TransactionNext(t)
  <2> PICK t \in Transaction : TransactionNext(t)
    BY <1>2
  <2>1. CASE UNCHANGED <<revision, cookies, history, replaced>>
    BY <2>1, TransactionStep DEF TypeOK
  <2>2. CASE tx[t] \in CookieTransaction /\ Install(tx[t].base, tx[t].working)
    <3>1. tx[t].base \in Collection /\ tx[t].working \in Vector
      BY <2>2 DEF CookieTransaction
    <3>2. QED
      BY <2>2, <3>1, TransactionStep, InstallTyping DEF TypeOK
  <2>3. QED
    BY <2>1, <2>2, TransactionStep
<1>3. CASE UNCHANGED vars
  BY <1>3 DEF vars, TypeOK
<1>4. QED
  BY <1>1, <1>2, <1>3 DEF Next

\* Type correctness of the store in every behaviour.
THEOREM TypeCorrect == Spec => []TypeOK
  BY InitTyping, StepTyping, PTL DEF Spec

-----------------------------------------------------------------------------
(* What a commit does to the records and to what has been seen. *)

\* A commit records itself at the front of the history.
LEMMA InstallRecords ==
  ASSUME TypeOK, NEW base \in Collection, NEW working \in Vector,
         Install(base, working)
  PROVE  /\ history' # <<>>
         /\ history'[1].revision = NextRevision(revision)
         /\ history'[1].parent_revision = revision
         /\ history'[1].diff = diff_collections(base, Keyed(working))
         /\ replaced'[1] = cookies
         /\ 1 \in 1..Len(history')
         /\ \A i \in 2..Len(history') : /\ i - 1 \in 1..Len(history)
                                        /\ history'[i] = history[i - 1]
                                        /\ replaced'[i] = replaced[i - 1]
<1> DEFINE record == [revision        |-> NextRevision(revision),
                      parent_revision |-> revision,
                      diff |-> diff_collections(base, Keyed(working))]
<1>1. record \in Record
  BY KeyedTyping, DiffTyping, NextRevisionProperties DEF TypeOK, Record
<1>2. /\ history' = PushFront(record, history, HistoryLimit)
      /\ replaced' = PushFront(cookies, replaced, HistoryLimit)
  BY DEF Install
<1>0. /\ record.revision = NextRevision(revision)
      /\ record.parent_revision = revision
      /\ record.diff = diff_collections(base, Keyed(working))
  OBVIOUS
<1> HIDE DEF record
<1>3. /\ cookies \in Collection
      /\ history \in Seq(Record) /\ Len(history) <= HistoryLimit
      /\ replaced \in Seq(Collection) /\ Len(replaced) = Len(history)
      /\ HistoryLimit \in Nat \ {0}
  BY StoreAssumption DEF TypeOK
<1>4. /\ history' \in Seq(Record)
      /\ Len(history') = PushedLength(Len(history), HistoryLimit)
      /\ Len(history') \in 1..HistoryLimit
  BY ONLY <1>1, <1>2, <1>3, PushFrontLength
<1>5. /\ history'[1] = record
      /\ \A i \in 2..Len(history') : /\ i - 1 \in 1..Len(history)
                                     /\ history'[i] = history[i - 1]
  <2> DEFINE pushed == PushFront(record, history, HistoryLimit)
  <2>1. /\ pushed[1] = record
        /\ \A i \in 2..PushedLength(Len(history), HistoryLimit) :
             /\ i - 1 \in 1..Len(history)
             /\ pushed[i] = history[i - 1]
    BY ONLY <1>1, <1>3, PushFrontElements
  <2>2. history' = pushed
    BY <1>2
  <2> HIDE DEF pushed
  <2>3. QED
    BY ONLY <1>4, <2>1, <2>2
<1>6. /\ replaced'[1] = cookies
      /\ \A i \in 2..Len(history') : replaced'[i] = replaced[i - 1]
  <2> DEFINE pushed == PushFront(cookies, replaced, HistoryLimit)
  <2>1. /\ pushed[1] = cookies
        /\ \A i \in 2..PushedLength(Len(replaced), HistoryLimit) :
             pushed[i] = replaced[i - 1]
    BY ONLY <1>3, PushFrontElements
  <2>2. replaced' = pushed
    BY <1>2
  <2> HIDE DEF pushed
  <2>3. QED
    BY ONLY <1>3, <1>4, <2>1, <2>2
<1>7. history' # <<>> /\ 1 \in 1..Len(history')
  BY <1>3, <1>4, EmptySeq
<1>8. QED
  BY <1>0, <1>5, <1>6, <1>7

\* A commit adds one observation, its own result.
LEMMA InstallSeen ==
  ASSUME TypeOK, NEW base \in Collection, NEW working \in Vector,
         Install(base, working),
         \A t \in Transaction : tx'[t] \in {tx[t], NoTransaction}
  PROVE  Seen' \subseteq Seen \cup {<<revision', cookies'>>}
<1>1. ASSUME NEW t \in Transaction, Open(t)'
      PROVE  <<tx'[t].base_revision, tx'[t].base>> \in Seen
  BY <1>1 DEF Open, Seen
<1>2. ASSUME NEW i \in 1..Len(history')
      PROVE  <<history'[i].parent_revision, replaced'[i]>> \in Seen
  <2>1. CASE i = 1
    BY <2>1, InstallRecords DEF Seen
  <2>2. CASE i # 1
    <3>1. i \in 2..Len(history')
      <4>1. Len(history') \in Nat
        BY InstallTyping, LenProperties
      <4>2. QED
        BY <2>2, <4>1
    <3>2. QED
      BY <3>1, InstallRecords DEF Seen
  <2>3. QED
    BY <2>1, <2>2
<1>3. QED
  BY <1>1, <1>2 DEF Seen

\* A step that is not a commit leaves the store alone and shows nobody
\* anything but what has been seen.
LEMMA QuietSeen ==
  ASSUME TypeOK, NEW t \in Transaction, TransactionNext(t),
         UNCHANGED <<revision, cookies, history, replaced>>
  PROVE  Seen' \subseteq Seen
<1>1. ASSUME NEW u \in Transaction, Open(u)'
      PROVE  <<tx'[u].base_revision, tx'[u].base>> \in Seen
  <2> USE <1>1 DEF TypeOK
  <2>1. ASSUME Open(t), NEW w, Edit(t, w)
        PROVE  <<tx'[u].base_revision, tx'[u].base>> \in Seen
    <3>1. tx[t] \in CookieTransaction
      BY <2>1 DEF Open
    <3>2. Open(u)
      BY <2>1 DEF Edit, Open
    <3>3. /\ tx'[u].base_revision = tx[u].base_revision
          /\ tx'[u].base = tx[u].base
      BY <2>1, <3>1 DEF Edit, CookieTransaction
    <3>4. QED
      BY <3>2, <3>3 DEF Seen
  <2>2. CASE Close(t)
    BY <2>2 DEF Close, Open, Seen
  <2>3. CASE Begin(t)
    <3>1. CASE u = t
      BY <2>3, <3>1 DEF Begin, Seen
    <3>2. CASE u # t
      BY <2>3, <3>2 DEF Begin, Open, Seen
    <3>3. QED
      BY <3>1, <3>2
  <2>4. CASE \E v \in Transaction : Clone(t, v)
    BY <2>4 DEF Clone, Open, Seen
  <2>5. CASE \/ \E k \in Key : RemoveCookie(t, k)
             \/ \E cookie \in Cookie : Insert(t, cookie)
    BY <2>1, <2>5 DEF RemoveCookie, Insert
  <2>6. CASE \/ \E failing \in SUBSET Key : Retain(t, failing)
             \/ Clear(t)
             \/ \E batch \in Batch : ReplaceCollection(t, batch)
    BY <2>1, <2>6 DEF Retain, Clear, ReplaceCollection
  <2>7. QED
    BY <2>2, <2>3, <2>4, <2>5, <2>6
    DEF TransactionNext, Abort, Commit, RefuseCommit
<1>2. QED
  BY <1>1 DEF Seen

-----------------------------------------------------------------------------
(* The inductive invariant. *)

\* The strengthened invariant holds at the start, is kept, and so always holds.
LEMMA InitIInv == Init => IInv
<1> SUFFICES ASSUME Init PROVE IInv
  OBVIOUS
<1>1. TypeOK
  BY InitTyping
<1>2. Seen = {<<0, cookies>>} /\ revision = 0
  <2>1. /\ \A t \in Transaction : ~Open(t)
        /\ 1..Len(history) = {}
        /\ revision = 0
    BY DEF Init, Open
  <2>2. QED
    BY <2>1 DEF Seen
<1>3. ~LastCommitCounted
  BY DEF Init, LastCommitCounted
<1>4. QED
  BY <1>1, <1>2, <1>3
  DEF IInv, SeenReached, RevisionNamesContents, LastRecordDescribes

\* The revisions in Seen are numbers, so they can be compared.
LEMMA SeenTyping ==
  ASSUME TypeOK, NEW p \in Seen
  PROVE  p[1] \in Revision
<1>1. ASSUME NEW t \in Transaction, Open(t)
      PROVE  tx[t].base_revision \in Revision
  BY <1>1 DEF TypeOK, Open, CookieTransaction
<1>2. ASSUME NEW i \in 1..Len(history)
      PROVE  history[i].parent_revision \in Revision
  <2>1. history[i] \in Record
    BY ElementOfSeq DEF TypeOK
  <2>2. QED
    BY <2>1 DEF Record
<1>3. revision \in Revision
  BY DEF TypeOK
<1>4. QED
  BY <1>1, <1>2, <1>3 DEF Seen

\* The three parts that a commit has to re-establish.  Its base needs to be
\* the contents of the store only while the counter still counts.
LEMMA InstallIInv ==
  ASSUME IInv, NEW base \in Collection, NEW working \in Vector,
         Install(base, working),
         revision < MaxRevision => base = cookies,
         \A t \in Transaction : tx'[t] \in {tx[t], NoTransaction}
  PROVE  SeenReached' /\ RevisionNamesContents' /\ LastRecordDescribes'
<1> USE DEF IInv
<1> DEFINE new == <<revision', cookies'>>
<1>1. Seen' \subseteq Seen \cup {new}
  BY InstallSeen
<1>2. /\ revision \in Revision /\ revision' \in Revision /\ revision' >= revision
      /\ revision < MaxRevision => revision' > revision
      /\ revision' < MaxRevision => revision < MaxRevision
  BY NextRevisionProperties, StoreAssumption DEF Install, TypeOK, Revision
<1>3. \A p \in Seen : p[1] \in Revision /\ p[1] <= revision
  BY SeenTyping DEF SeenReached
<1>4. new[1] = revision'
  OBVIOUS
<1> HIDE DEF new
<1>5. SeenReached'
  <2>1. \A p \in Seen \cup {new} : p[1] <= revision'
    BY <1>2, <1>3, <1>4, StoreAssumption DEF Revision
  <2>2. QED
    BY <1>1, <2>1 DEF SeenReached
<1>6. RevisionNamesContents'
  <2>1. ASSUME NEW p \in Seen \cup {new}, NEW q \in Seen \cup {new},
               p[1] = q[1], p[1] < MaxRevision
        PROVE  p[2] = q[2]
    <3>1. CASE p \in Seen /\ q \in Seen
      BY <2>1, <3>1 DEF RevisionNamesContents
    <3>2. CASE p = new /\ q = new
      BY <3>2
    <3>3. ASSUME NEW r \in Seen, r[1] = revision', revision' < MaxRevision
          PROVE  FALSE
      BY <1>2, <1>3, <3>3, StoreAssumption DEF Revision
    <3>4. QED
      BY <1>4, <2>1, <3>1, <3>2, <3>3
  <2>2. QED
    BY <1>1, <2>1 DEF RevisionNamesContents
<1>7. LastRecordDescribes'
  <2>1. /\ history'[1].parent_revision = revision
        /\ history'[1].diff = diff_collections(base, Keyed(working))
        /\ replaced'[1] = cookies
    BY InstallRecords
  <2>2. cookies' = Keyed(working)
    BY DEF Install
  <2>3. QED
    BY <2>1, <2>2 DEF LastRecordDescribes, LastCommitCounted
<1>8. QED
  BY <1>5, <1>6, <1>7

LEMMA StepIInv == IInv /\ [Next]_vars => IInv'
<1> SUFFICES ASSUME IInv, [Next]_vars PROVE IInv'
  OBVIOUS
<1>1. TypeOK /\ TypeOK'
  BY StepTyping DEF IInv
<1>2. CASE StoreNext
  <2>1. PICK working \in Vector : Install(cookies, working)
    BY <1>1, <1>2, StoreStep
  <2>2. cookies \in Collection /\ UNCHANGED tx
    BY <1>1, <1>2, StoreStep DEF TypeOK
  <2>3. QED
    BY <1>1, <2>1, <2>2, InstallIInv DEF IInv
<1>3. ASSUME NEW t \in Transaction, TransactionNext(t)
      PROVE  IInv'
  <2>1. CASE UNCHANGED <<revision, cookies, history, replaced>>
    <3>1. Seen' \subseteq Seen
      BY <1>1, <1>3, <2>1, QuietSeen
    <3>2. QED
      BY <1>1, <2>1, <3>1
      DEF IInv, SeenReached, RevisionNamesContents, LastRecordDescribes,
          LastCommitCounted
  <2>2. CASE /\ Open(t) /\ ~Stale(t) /\ tx' = [tx EXCEPT ![t] = NoTransaction]
             /\ tx[t] \in CookieTransaction
             /\ Install(tx[t].base, tx[t].working)
    <3>1. tx[t].base \in Collection /\ tx[t].working \in Vector
      BY <2>2 DEF CookieTransaction
    <3>2. revision < MaxRevision => tx[t].base = cookies
      <4> DEFINE p == <<tx[t].base_revision, tx[t].base>>
                 q == <<revision, cookies>>
      <4>1. p \in Seen /\ q \in Seen /\ p[1] = q[1] /\ q[1] = revision
        BY <2>2 DEF Seen, Stale
      <4>2. p[2] = tx[t].base /\ q[2] = cookies
        OBVIOUS
      <4> HIDE DEF p, q
      <4>3. QED
        BY <4>1, <4>2 DEF IInv, RevisionNamesContents
    <3>3. \A u \in Transaction : tx'[u] \in {tx[u], NoTransaction}
      BY <1>1, <2>2 DEF TypeOK
    <3>4. QED
      BY <1>1, <2>2, <3>1, <3>2, <3>3, InstallIInv DEF IInv
  <2>3. QED
    BY <1>1, <1>3, <2>1, <2>2, TransactionStep
<1>4. CASE UNCHANGED vars
  BY <1>1, <1>4
  DEF vars, IInv, SeenReached, RevisionNamesContents, LastRecordDescribes,
      LastCommitCounted, Seen, Open
<1>5. QED
  BY <1>2, <1>3, <1>4 DEF Next

LEMMA Inductive == Spec => []IInv
  BY InitIInv, StepIInv, PTL DEF Spec

\* A revision number stands for one collection, for everybody who saw it.
THEOREM NoLostUpdate == Spec => []RevisionNamesContents
<1>1. IInv => RevisionNamesContents
  BY DEF IInv
<1>2. QED
  BY <1>1, Inductive, PTL

-----------------------------------------------------------------------------
(* The history. *)

LEMMA InitChain == Init => HistoryChain
BY EmptySeq DEF Init, HistoryChain

\* A commit goes on from the newest record of an unbroken chain.
LEMMA InstallChain ==
  ASSUME TypeOK, HistoryChain, NEW base \in Collection, NEW working \in Vector,
         Install(base, working)
  PROVE  HistoryChain'
<1>1. revision' = NextRevision(revision)
  BY DEF Install
<1>2. ASSUME NEW i \in 1..Len(history'), i # 1
      PROVE  /\ history'[i].revision = history'[i - 1].parent_revision
             /\ history'[i].revision = NextRevision(history'[i].parent_revision)
  <2>1. Len(history') \in Nat /\ Len(history) \in Nat
    BY InstallTyping, LenProperties DEF TypeOK
  <2>2. /\ i \in 2..Len(history')
        /\ i - 1 \in 1..Len(history)
        /\ history'[i] = history[i - 1]
    BY <1>2, <2>1, InstallRecords
  <2>3. CASE i = 2
    BY <2>2, <2>3, InstallRecords DEF HistoryChain
  <2>4. CASE i # 2
    <3>1. i - 1 \in 2..Len(history') /\ i - 1 # 1
      BY <2>1, <2>2, <2>4
    <3>2. history'[i - 1] = history[(i - 1) - 1]
      BY <3>1, InstallRecords
    <3>3. QED
      BY <2>2, <3>1, <3>2 DEF HistoryChain
  <2>5. QED
    BY <2>3, <2>4
<1>3. QED
  BY <1>1, <1>2, InstallRecords DEF HistoryChain

LEMMA StepChain == TypeOK /\ HistoryChain /\ [Next]_vars => HistoryChain'
<1> SUFFICES ASSUME TypeOK, HistoryChain, [Next]_vars PROVE HistoryChain'
  OBVIOUS
<1>1. CASE StoreNext
  BY <1>1, StoreStep, InstallChain DEF TypeOK
<1>2. ASSUME NEW t \in Transaction, TransactionNext(t)
      PROVE  HistoryChain'
  <2>1. CASE UNCHANGED <<revision, cookies, history, replaced>>
    BY <2>1 DEF HistoryChain
  <2>2. CASE tx[t] \in CookieTransaction /\ Install(tx[t].base, tx[t].working)
    <3>1. tx[t].base \in Collection /\ tx[t].working \in Vector
      BY <2>2 DEF CookieTransaction
    <3>2. QED
      BY <2>2, <3>1, InstallChain
  <2>3. QED
    BY <1>2, <2>1, <2>2, TransactionStep
<1>3. CASE UNCHANGED vars
  BY <1>3 DEF vars, HistoryChain
<1>4. QED
  BY <1>1, <1>2, <1>3 DEF Next

\* The records that are kept form an unbroken chain of revisions.
THEOREM ChainUnbroken == Spec => []HistoryChain
  BY TypeCorrect, InitChain, StepChain, PTL DEF Spec

\* Undoing the newest record meets no conflict and restores the contents it
\* replaced, in every state of the store.
LEMMA RollbackSucceeds ==
  ASSUME IInv, LastCommitCounted, Ordinary(cookies)
  PROVE  /\ RollbackReport.conflicts = {}
         /\ RollbackReport.map \in Collection
         /\ SameFields(RollbackReport.map, replaced[1])
<1>1. replaced[1] \in Collection
  <2>1. history \in Seq(Record) /\ history # <<>>
    BY DEF IInv, TypeOK, LastCommitCounted
  <2>2. 1 \in 1..Len(replaced) /\ replaced \in Seq(Collection)
    BY <2>1, EmptySeq DEF IInv, TypeOK
  <2>3. QED
    BY <2>2, ElementOfSeq
<1>2. history[1].diff = diff_collections(replaced[1], cookies)
  BY DEF IInv, LastRecordDescribes
<1>3. cookies \in Collection
  BY DEF IInv, TypeOK
<1>4. QED
  BY <1>1, <1>2, <1>3, DiffInverts DEF RollbackReport

\* rollback_last finds no conflict with the commit it undoes.
THEOREM RollbackIsAccepted == Spec => []RollbackNeverRefused
<1>1. IInv => RollbackNeverRefused
  BY RollbackSucceeds DEF RollbackNeverRefused
<1>2. QED
  BY <1>1, Inductive, PTL

\* A rollback that is accepted restores what the last commit replaced.
THEOREM RollbackUndoes == Spec => RollbackRestores
<1>1. IInv => (RollbackLast /\ LastCommitCounted
                 => SameFields(cookies', replaced[1]))
  <2> SUFFICES ASSUME IInv, RollbackLast, LastCommitCounted
               PROVE  SameFields(cookies', replaced[1])
    OBVIOUS
  <2>1. /\ history # <<>>
        /\ RollbackReport.conflicts = {}
        /\ \E contents \in Collected(RollbackReport.map) :
             cookies' = Keyed(Listed(contents))
    BY DEF RollbackLast, Install
  <2>2. Ordinary(cookies)
    <3>1. history[1].diff = diff_collections(replaced[1], cookies)
      BY DEF IInv, LastRecordDescribes
    <3>2. 1 \in 1..Len(replaced) /\ replaced \in Seq(Collection)
      BY <2>1, EmptySeq DEF IInv, TypeOK
    <3>3. replaced[1] \in Collection /\ cookies \in Collection
      BY <3>2, ElementOfSeq DEF IInv, TypeOK
    <3>4. QED
      BY <2>1, <3>1, <3>3, NaNConflicts DEF RollbackReport
  <2>3. cookies' = RollbackReport.map
    BY <2>1, <2>2, RollbackSucceeds, CollectedItself, KeyedListed
  <2>4. QED
    BY <2>2, <2>3, RollbackSucceeds
<1>2. QED
  BY <1>1, Inductive, PTL DEF RollbackRestores

\* What the reject strategy lets through of a regular diff can be taken back
\* exactly.
THEOREM RejectReversible == Spec => RejectIsReversible
<1>1. TypeOK => (\A diff \in ExternalDiff :
        /\ Regular(diff) /\ Ordinary(cookies')
        /\ ApplyExternalDiff(revision, diff, "reject")
        => apply_diff(cookies', invert(diff), "reject")
             = [map |-> cookies, conflicts |-> {}])
  <2> SUFFICES ASSUME TypeOK, NEW diff \in ExternalDiff, Regular(diff),
                      Ordinary(cookies'),
                      ApplyExternalDiff(revision, diff, "reject")
               PROVE  apply_diff(cookies', invert(diff), "reject")
                        = [map |-> cookies, conflicts |-> {}]
    OBVIOUS
  <2> DEFINE report == apply_diff(cookies, diff, "reject")
  <2>1. diff \in Diff /\ cookies \in Collection
    BY StoreAssumption DEF TypeOK
  <2>2. /\ report.conflicts = {}
        /\ \E contents \in Collected(report.map) : cookies' = Keyed(Listed(contents))
    BY DEF ApplyExternalDiff, Install
  <2>3. report.map \in Collection
    <3>1. report.map \in [Key -> Slot]
      BY <2>1, ApplyTyping
    <3>2. \A k \in Key : report.map[k] # NoCookie => report.map[k].key = k
      BY <2>1, <2>2, RegularSlots
    <3> HIDE DEF report
    <3> QED BY <3>1, <3>2 DEF Collection
  <2>4. cookies' = report.map
    BY <2>2, <2>3, CollectedItself, KeyedListed
  <2>5. QED
    BY <2>1, <2>2, <2>4, RejectInverts
<1>2. QED
  BY <1>1, TypeCorrect, PTL DEF RejectIsReversible

-----------------------------------------------------------------------------
(* The store implements the optimistic store of OptimisticStore.tla. *)

Opened == {t \in Transaction : Open(t)}

Current == {t \in Transaction : Open(t) /\ tx[t].base_revision = revision}

Full == revision = MaxRevision

\* After a commit nobody has seen what the store now holds.
LEMMA CurrentAfterInstall ==
  ASSUME IInv, ~Full,
         NEW base \in Collection, NEW working \in Vector,
         Install(base, working),
         \A t \in Transaction : tx'[t] \in {tx[t], NoTransaction}
  PROVE  cookies' \in Collection /\ Current' = {}
<1>1. /\ revision \in Revision /\ revision' \in Revision /\ revision' > revision
      /\ cookies' \in Collection
  BY NextRevisionProperties, InstallTyping, StoreAssumption
  DEF IInv, TypeOK, Install, Full, Revision
<1>2. ASSUME NEW t \in Transaction, Open(t)'
      PROVE  tx'[t].base_revision # revision'
  <2>1. Open(t) /\ tx'[t] = tx[t]
    BY <1>2 DEF Open
  <2>2. <<tx[t].base_revision, tx[t].base>> \in Seen
    BY <2>1 DEF Seen
  <2>3. tx[t].base_revision \in Revision /\ tx[t].base_revision <= revision
    BY <2>2, SeenTyping DEF IInv, SeenReached
  <2>4. QED
    BY <1>1, <2>1, <2>3, StoreAssumption DEF Revision
<1>3. QED
  BY <1>1, <1>2 DEF Current

\* The refinement: the start, a step of the store, a step of a transaction.
LEMMA OptimisticInit == Init => Optimistic!Init
  BY InitTyping DEF Init, TypeOK, Optimistic!Init, Open

\* A store at u64::MAX stays there.
LEMMA StaysFull ==
  ASSUME TypeOK, Full, [Next]_vars
  PROVE  Full'
<1>1. ASSUME NEW base, NEW working, Install(base, working)
      PROVE  Full'
  BY <1>1, StoreAssumption DEF Install, NextRevision, Full
<1>2. CASE StoreNext
  BY <1>1, <1>2, StoreStep
<1>3. ASSUME NEW t \in Transaction, TransactionNext(t)
      PROVE  Full'
  BY <1>1, <1>3, TransactionStep DEF Full
<1>4. CASE UNCHANGED vars
  BY <1>4 DEF vars, Full
<1>5. QED
  BY <1>2, <1>3, <1>4 DEF Next

LEMMA ServeStore ==
  ASSUME IInv, ~Full, StoreNext
  PROVE  cookies' \in Collection /\ Current' = {} /\ Opened' = Opened
<1>1. TypeOK
  BY DEF IInv
<1>2. PICK working \in Vector : Install(cookies, working)
  BY <1>1, StoreStep
<1>3. cookies \in Collection /\ UNCHANGED tx
  BY <1>1, StoreStep DEF TypeOK
<1>4. cookies' \in Collection /\ Current' = {}
  BY <1>2, <1>3, CurrentAfterInstall
<1>5. QED
  BY <1>3, <1>4 DEF Opened, Open

LEMMA ServeTransaction ==
  ASSUME IInv, ~Full, NEW t \in Transaction, TransactionNext(t)
  PROVE  \/ UNCHANGED <<cookies, Opened, Current>>
         \/ \E u \in Transaction \ Opened :
              /\ Opened' = Opened \cup {u}
              /\ Current' \in {Current, Current \cup {u}}
              /\ UNCHANGED cookies
         \/ /\ Opened' = Opened \ {t} /\ t \in Opened
            /\ \/ t \in Current /\ Current' = {} /\ cookies' \in Collection
               \/ Current' = Current \ {t} /\ UNCHANGED cookies
<1> USE DEF TypeOK, Opened, Current
<1>0. TypeOK
  BY DEF IInv
<1>1. CASE Commit(t)
  <2>1. /\ tx[t] \in CookieTransaction
        /\ t \in Current
        /\ tx' = [tx EXCEPT ![t] = NoTransaction]
        /\ Install(tx[t].base, tx[t].working)
    BY <1>0, <1>1 DEF Commit, Close, Open, Stale
  <2>2. tx[t].base \in Collection /\ tx[t].working \in Vector
    BY <2>1 DEF CookieTransaction
  <2>3. \A u \in Transaction : tx'[u] \in {tx[u], NoTransaction}
    BY <1>0, <2>1
  <2>4. cookies' \in Collection /\ Current' = {}
    BY <2>1, <2>2, <2>3, CurrentAfterInstall
  <2>5. Opened' = Opened \ {t} /\ t \in Opened
    BY <1>0, <2>1 DEF Open
  <2>6. QED
    BY <2>1, <2>4, <2>5
<1>2. CASE Abort(t) \/ RefuseCommit(t)
  <2>1. /\ UNCHANGED <<revision, cookies>> /\ Open(t)
        /\ tx' = [tx EXCEPT ![t] = NoTransaction]
    BY <1>2 DEF Abort, RefuseCommit, Close
  <2>2. QED
    BY <1>0, <2>1 DEF Open
<1>3. CASE Begin(t)
  <2>1. /\ UNCHANGED <<revision, cookies>> /\ ~Open(t)
        /\ tx' = [tx EXCEPT ![t] = [base_revision |-> revision,
                                    base          |-> cookies,
                                    working       |-> Listed(cookies)]]
    BY <1>3 DEF Begin
  <2>2. tx'[t] # NoTransaction
    <3>1. tx'[t] \in CookieTransaction
      BY <1>0, <2>1, ListedTyping DEF CookieTransaction
    <3>2. QED
      BY <3>1, StoreAssumption DEF CookieTransaction, Revision
  <2>3. Opened' = Opened \cup {t} /\ Current' = Current \cup {t}
    BY <1>0, <2>1, <2>2 DEF Open
  <2>4. QED
    BY <2>1, <2>3
<1>4. ASSUME NEW u \in Transaction, Clone(t, u)
      PROVE  /\ u \notin Opened /\ Opened' = Opened \cup {u}
             /\ Current' \in {Current, Current \cup {u}}
             /\ UNCHANGED cookies
  <2>1. /\ UNCHANGED <<revision, cookies>> /\ tx' = [tx EXCEPT ![u] = tx[t]]
        /\ Open(t) /\ ~Open(u)
    BY <1>4 DEF Clone
  <2>2. Opened' = Opened \cup {u}
    BY <1>0, <2>1 DEF Open
  <2>3. CASE t \in Current
    <3>1. Current' = Current \cup {u}
      BY <1>0, <2>1, <2>3 DEF Open
    <3>2. QED
      BY <2>1, <2>2, <3>1
  <2>4. CASE t \notin Current
    <3>1. Current' = Current
      BY <1>0, <2>1, <2>4 DEF Open
    <3>2. QED
      BY <2>1, <2>2, <3>1
  <2>5. QED
    BY <2>3, <2>4
<1>5. CASE Editing(t)
  <2>1. PICK w \in Vector : Edit(t, w)
    BY <1>0, <1>5, EditStep
  <2>2. tx[t] \in CookieTransaction
    BY <1>0, <1>5, EditStep DEF Open
  <2>3. /\ tx' = [tx EXCEPT ![t] = [tx[t] EXCEPT !.working = w]]
        /\ UNCHANGED <<revision, cookies>>
    BY <2>1 DEF Edit
  <2>4. /\ [tx[t] EXCEPT !.working = w] \in CookieTransaction
        /\ [tx[t] EXCEPT !.working = w].base_revision = tx[t].base_revision
    BY <2>2 DEF CookieTransaction
  <2>5. NoTransaction \notin CookieTransaction
    BY StoreAssumption DEF CookieTransaction, Revision
  <2>6. QED
    BY <1>0, <2>2, <2>3, <2>4, <2>5 DEF Open
<1>6. QED
  BY <1>1, <1>2, <1>3, <1>4, <1>5 DEF TransactionNext, Editing

\* Every step is a step of the abstract store or a stutter.
LEMMA OptimisticStep ==
  IInv /\ [Next]_vars => [Optimistic!Next]_(Optimistic!vars)
<1> SUFFICES ASSUME IInv, [Next]_vars
             PROVE  [Optimistic!Next]_<<cookies, Opened, Current, Full>>
  BY DEF Optimistic!vars, Current, Opened, Full
<1> USE DEF Optimistic!Next, Optimistic!Serve, Optimistic!Begin,
            Optimistic!Publish, Optimistic!Drop, Optimistic!Overwrite,
            Optimistic!Change, Optimistic!Exhausted
<1>1. Full \in BOOLEAN /\ Full' \in BOOLEAN
  BY DEF Full
<1>2. CASE Full
  <2>1. Full' /\ cookies' \in Collection
    BY <1>2, StaysFull, StepTyping DEF IInv, TypeOK
  <2>2. QED
    BY <1>2, <2>1 DEF Opened, Full
<1>3. CASE ~Full /\ StoreNext
  BY <1>1, <1>3, ServeStore DEF Opened, Current, Full
<1>4. ASSUME ~Full, NEW t \in Transaction, TransactionNext(t)
      PROVE  [Optimistic!Next]_<<cookies, Opened, Current, Full>>
  <2>1. CASE UNCHANGED <<cookies, Opened, Current>>
    <3>1. CASE UNCHANGED Full
      BY <2>1, <3>1
    <3>2. CASE ~UNCHANGED Full
      BY <1>1, <1>4, <2>1, <3>2 DEF Opened, Current, Full, IInv, TypeOK
    <3>3. QED
      BY <3>1, <3>2
  <2>2. ASSUME NEW u \in Transaction \ Opened,
               Opened' = Opened \cup {u},
               Current' \in {Current, Current \cup {u}},
               UNCHANGED cookies
        PROVE  Optimistic!Next
    BY <1>1, <1>4, <2>2 DEF Opened, Current, Full
  <2>3. CASE /\ Opened' = Opened \ {t} /\ t \in Opened
             /\ t \in Current /\ Current' = {} /\ cookies' \in Collection
    BY <1>1, <1>4, <2>3 DEF Opened, Current, Full
  <2>4. CASE /\ Opened' = Opened \ {t} /\ t \in Opened
             /\ Current' = Current \ {t} /\ UNCHANGED cookies
    BY <1>1, <1>4, <2>4 DEF Opened, Current, Full
  <2>5. QED
    BY <1>4, <2>1, <2>2, <2>3, <2>4, ServeTransaction
<1>5. CASE UNCHANGED vars
  BY <1>5 DEF vars, Current, Opened, Open, Full
<1>6. QED
  BY <1>2, <1>3, <1>4, <1>5 DEF Next

\* Transactions, clones, direct operations and rollbacks together behave as an
\* optimistic store; nothing is promised once the revision saturates.
THEOREM StoreIsOptimistic == Spec => ImplementsOptimisticStore
<1>1. QED
  BY Inductive, OptimisticInit, OptimisticStep, PTL
  DEF Spec, ImplementsOptimisticStore, Optimistic!Spec

-----------------------------------------------------------------------------
(***************************************************************************)
(* BoundedLogs.  Both logs keep the newest entries and never use an id     *)
(* twice, whatever their limits, until the counter of the audit log        *)
(* saturates.                                                              *)
(***************************************************************************)

Ids == 0..MaximumId

\* What the logs rely on beside the property: the counters are ahead of every
\* id in use, the audit log is a beginning of all that was recorded, and it
\* only lacks some of that when it is full.
AuditSound ==
  /\ audit \in Log /\ recorded \in Seq(Ids)
  /\ \A i \in 1..Len(recorded) :
       recorded[i] < audit.next_id \/ audit.next_id = MaximumId
  /\ \A i, j \in 1..Len(recorded) :
       i < j => recorded[i] > recorded[j] \/ recorded[i] = MaximumId
  /\ Len(audit.entries) <= Len(recorded)
  /\ Len(audit.entries) <= AtLeastOne(MaximumEvents)
  /\ Len(audit.entries) < Len(recorded) =>
       Len(audit.entries) = AtLeastOne(MaximumEvents)
  /\ \A i \in 1..Len(audit.entries) : audit.entries[i] = recorded[i]

SnapshotsSound ==
  /\ snapshots \in Log /\ created \in Seq(Ids)
  /\ \A i \in 1..Len(created) : created[i] < snapshots.next_id
  /\ \A i, j \in 1..Len(created) : i < j => created[i] < created[j]
  /\ \A i \in 1..Len(snapshots.entries) :
       \E j \in 1..Len(created) : snapshots.entries[i] = created[j]
  /\ \A i, j \in 1..Len(snapshots.entries) :
       i < j => snapshots.entries[i] > snapshots.entries[j]

LogsSound == AuditSound /\ SnapshotsSound

\* How many entries there are after a push.
Room(held, maximum) == IF held < maximum THEN held + 1 ELSE maximum

\* push_front and the trimming: the new entry, then the old ones as far as
\* there is room.
LEMMA PushedProperties ==
  ASSUME NEW s \in Seq(Ids), NEW x \in Ids, NEW maximum \in Nat \ {0}
  PROVE  /\ Pushed(s, x, maximum) \in Seq(Ids)
         /\ Len(Pushed(s, x, maximum)) = Room(Len(s), maximum)
         /\ \A i \in 1..Len(Pushed(s, x, maximum)) :
              Pushed(s, x, maximum)[i] = IF i = 1 THEN x ELSE s[i - 1]
<1> DEFINE longer == <<x>> \o s
           room == Room(Len(s), maximum)
<1>1. <<x>> \in Seq(Ids) /\ Len(<<x>>) = 1 /\ Len(s) \in Nat
  BY LenProperties
<1>2. /\ longer \in Seq(Ids) /\ Len(longer) = Len(s) + 1
      /\ \A i \in 1..(Len(s) + 1) : longer[i] = IF i = 1 THEN x ELSE s[i - 1]
  BY <1>1, ConcatProperties
<1>3. Pushed(s, x, maximum) = SubSeq(longer, 1, room)
  <2>1. room = IF Len(longer) < maximum THEN Len(longer) ELSE maximum
    BY <1>1, <1>2 DEF Room
  <2> HIDE DEF room
  <2> QED BY <2>1 DEF Pushed
<1>4. room \in 1..Len(longer)
  BY <1>1, <1>2 DEF Room
<1> HIDE DEF longer, room
<1>5. \A i \in 1..room : longer[i] \in Ids
  BY <1>2, <1>4, ElementOfSeq
<1>6. /\ SubSeq(longer, 1, room) \in Seq(Ids) /\ Len(SubSeq(longer, 1, room)) = room
      /\ \A i \in 1..room : SubSeq(longer, 1, room)[i] = longer[i]
  BY <1>4, <1>5, SubSeqProperties
<1> QED BY <1>2, <1>3, <1>4, <1>6 DEF room

\* What removing one element leaves of a list.
LEMMA RemoveAtProperties ==
  ASSUME NEW S, NEW s \in Seq(S), NEW i \in 1..Len(s)
  PROVE  /\ RemoveAt(s, i) \in Seq(S)
         /\ Len(RemoveAt(s, i)) = Len(s) - 1
         /\ \A j \in 1..(Len(s) - 1) :
              RemoveAt(s, i)[j] = IF j < i THEN s[j] ELSE s[j + 1]
<1> DEFINE before == SubSeq(s, 1, i - 1)
           after == SubSeq(s, i + 1, Len(s))
<1>1. Len(s) \in Nat /\ \A j \in 1..Len(s) : s[j] \in S
  BY LenProperties, ElementOfSeq
<1>2. /\ before \in Seq(S) /\ Len(before) = i - 1
      /\ \A j \in 1..(i - 1) : before[j] = s[j]
  BY <1>1, SubSeqProperties
<1>3. /\ after \in Seq(S) /\ Len(after) = Len(s) - i
      /\ \A j \in 1..(Len(s) - i) : after[j] = s[i + j]
  BY <1>1, SubSeqProperties
<1> HIDE DEF before, after
<1>4. /\ before \o after \in Seq(S)
      /\ Len(before \o after) = Len(s) - 1
      /\ \A j \in 1..(Len(s) - 1) :
           (before \o after)[j] = IF j <= i - 1 THEN before[j] ELSE after[j - (i - 1)]
  <2>1. /\ before \o after \in Seq(S)
        /\ Len(before \o after) = Len(before) + Len(after)
        /\ \A j \in 1..(Len(before) + Len(after)) :
             (before \o after)[j] = IF j <= Len(before) THEN before[j]
                                     ELSE after[j - Len(before)]
    BY <1>2, <1>3, ConcatProperties
  <2>2. Len(before) + Len(after) = Len(s) - 1
    BY <1>1, <1>2, <1>3
  <2> QED BY <1>2, <2>1, <2>2
<1>5. RemoveAt(s, i) = before \o after
  BY DEF RemoveAt, before, after
<1>6. ASSUME NEW j \in 1..(Len(s) - 1)
      PROVE  (before \o after)[j] = IF j < i THEN s[j] ELSE s[j + 1]
  <2>1. CASE j < i
    <3>1. j <= i - 1 /\ j \in 1..(i - 1)
      BY <1>1, <2>1
    <3>2. (before \o after)[j] = before[j] /\ before[j] = s[j]
      BY <1>2, <1>4, <3>1
    <3> QED BY <2>1, <3>2
  <2>2. CASE j >= i
    <3>1. j - (i - 1) \in 1..(Len(s) - i) /\ i + (j - (i - 1)) = j + 1
      BY <1>1, <2>2
    <3>2. ~(j <= i - 1) /\ ~(j < i)
      BY <1>1, <2>2
    <3>3. (before \o after)[j] = after[j - (i - 1)]
      BY <1>4, <3>2
    <3>4. after[j - (i - 1)] = s[j + 1]
      BY <1>3, <3>1
    <3> QED BY <3>2, <3>3, <3>4
  <2>3. j < i \/ j >= i
    BY <1>1
  <2> QED BY ONLY <2>1, <2>2, <2>3, Zenon
<1> QED BY <1>4, <1>5, <1>6

\* with_limit never takes a limit of 0.
LEMMA Limits ==
  AtLeastOne(MaximumEvents) \in Nat \ {0} /\ AtLeastOne(MaximumSnapshots) \in Nat \ {0}
BY LogAssumption DEF AtLeastOne

\* Both logs start sound, and each of their operations keeps them so.
LEMMA InitSound == LogInit => LogsSound
<1> SUFFICES ASSUME LogInit PROVE LogsSound
  OBVIOUS
<1>1. /\ audit \in Log /\ snapshots \in Log
      /\ recorded \in Seq(Ids) /\ created \in Seq(Ids)
      /\ Len(audit.entries) = 0 /\ Len(snapshots.entries) = 0
      /\ Len(recorded) = 0 /\ Len(created) = 0
  BY LogAssumption, EmptySeq DEF LogInit, Log, Ids
<1> QED BY <1>1, Limits DEF LogsSound, AuditSound, SnapshotsSound

LEMMA RecordStep == AuditSound /\ RecordEvent => AuditSound'
<1> SUFFICES ASSUME AuditSound, RecordEvent PROVE AuditSound'
  OBVIOUS
<1> DEFINE id == audit.next_id
           entries == audit.entries
           limit == AtLeastOne(MaximumEvents)
           next == IF id = MaximumId THEN MaximumId ELSE id + 1
           pushed == Pushed(entries, id, limit)
<1>1. /\ audit' = [next_id |-> next, entries |-> pushed]
      /\ recorded' = <<id>> \o recorded
  BY DEF RecordEvent
<1>2. /\ id \in Ids /\ entries \in Seq(Ids) /\ recorded \in Seq(Ids)
      /\ next \in Ids /\ limit \in Nat \ {0} /\ MaximumId \in Nat
  BY Limits, LogAssumption DEF AuditSound, Log, Ids
<1>3. Len(recorded) \in Nat /\ Len(entries) \in Nat
  BY <1>2, LenProperties
<1> HIDE DEF id, entries, limit, next
<1>4. /\ pushed \in Seq(Ids) /\ Len(pushed) = Room(Len(entries), limit)
      /\ \A i \in 1..Len(pushed) :
           pushed[i] = IF i = 1 THEN id ELSE entries[i - 1]
  BY <1>2, PushedProperties, SMTT(30)
<1> USE DEF id, entries, limit, next
<1>5. /\ recorded' \in Seq(Ids) /\ Len(recorded') = Len(recorded) + 1
      /\ \A i \in 1..(Len(recorded) + 1) :
           recorded'[i] = IF i = 1 THEN id ELSE recorded[i - 1]
  <2>1. <<id>> \in Seq(Ids) /\ Len(<<id>>) = 1
    BY <1>2
  <2> QED BY <1>1, <1>2, <1>3, <2>1, ConcatProperties
<1>6. audit' \in Log /\ audit'.next_id = next /\ audit'.entries = pushed
  BY <1>1, <1>2, <1>4 DEF Log, Ids
<1>7. \A i \in 1..Len(recorded) :
        recorded[i] \in Ids /\ (recorded[i] < id \/ id = MaximumId)
  BY <1>2, ElementOfSeq DEF AuditSound
<1>8. \A i \in 1..Len(recorded') : recorded'[i] < next \/ next = MaximumId
  <2> SUFFICES ASSUME NEW i \in 1..Len(recorded'), next # MaximumId
               PROVE  recorded'[i] < next
    OBVIOUS
  <2>1. next = id + 1 /\ id # MaximumId
    OBVIOUS
  <2>2. CASE i = 1
    BY <1>2, <1>5, <2>1, <2>2 DEF Ids
  <2>3. CASE i # 1
    <3>1. i - 1 \in 1..Len(recorded) /\ recorded'[i] = recorded[i - 1]
      BY <1>3, <1>5, <2>3
    <3>2. recorded[i - 1] \in Nat /\ recorded[i - 1] < id /\ id \in Nat
      BY <1>2, <1>7, <2>1, <3>1 DEF Ids
    <3> HIDE DEF id, next
    <3> QED BY <2>1, <3>1, <3>2
  <2> QED BY <2>2, <2>3
<1>9. \A i, j \in 1..Len(recorded') :
        i < j => recorded'[i] > recorded'[j] \/ recorded'[i] = MaximumId
  <2> SUFFICES ASSUME NEW i \in 1..Len(recorded'), NEW j \in 1..Len(recorded'), i < j
               PROVE  recorded'[i] > recorded'[j] \/ recorded'[i] = MaximumId
    OBVIOUS
  <2>1. j - 1 \in 1..Len(recorded) /\ recorded'[j] = recorded[j - 1]
    BY <1>3, <1>5
  <2>2. CASE i = 1
    BY <1>2, <1>5, <1>7, <2>1, <2>2 DEF Ids
  <2>3. CASE i # 1
    <3>1. i - 1 \in 1..Len(recorded) /\ recorded'[i] = recorded[i - 1] /\ i - 1 < j - 1
      BY <1>3, <1>5, <2>3
    <3> QED BY <2>1, <3>1 DEF AuditSound
  <2> QED BY <2>2, <2>3
<1>10. /\ Len(pushed) <= Len(recorded') /\ Len(pushed) <= limit
       /\ Len(pushed) < Len(recorded') => Len(pushed) = limit
  BY <1>2, <1>3, <1>4, <1>5 DEF AuditSound, Room
<1>11. \A i \in 1..Len(pushed) : pushed[i] = recorded'[i]
  <2> SUFFICES ASSUME NEW i \in 1..Len(pushed) PROVE pushed[i] = recorded'[i]
    OBVIOUS
  <2>1. CASE i = 1
    <3>1. pushed[1] = id /\ recorded'[1] = id
      BY <1>2, <1>3, <1>4, <1>5 DEF Room
    <3> QED BY <2>1, <3>1
  <2>2. CASE i # 1
    <3>1. /\ i - 1 \in 1..Len(entries) /\ pushed[i] = entries[i - 1]
          /\ i \in 1..(Len(recorded) + 1)
      BY <1>2, <1>3, <1>4, <1>5, <1>10, <2>2 DEF Room
    <3> QED BY <1>5, <2>2, <3>1 DEF AuditSound
  <2> QED BY <2>1, <2>2
<1> HIDE DEF next, pushed
<1> QED BY <1>5, <1>6, <1>8, <1>9, <1>10, <1>11 DEF AuditSound

LEMMA ClearStep == AuditSound /\ ClearAudit => AuditSound'
<1> SUFFICES ASSUME AuditSound, ClearAudit PROVE AuditSound'
  OBVIOUS
<1>1. /\ audit' \in Log /\ recorded' \in Seq(Ids)
      /\ Len(audit'.entries) = 0 /\ Len(recorded') = 0
  BY EmptySeq DEF AuditSound, ClearAudit, Log, Ids
<1> QED BY <1>1, Limits DEF AuditSound

LEMMA CreateStep == SnapshotsSound /\ Create => SnapshotsSound'
<1> SUFFICES ASSUME SnapshotsSound, Create PROVE SnapshotsSound'
  OBVIOUS
<1> DEFINE id == snapshots.next_id
           entries == snapshots.entries
           limit == AtLeastOne(MaximumSnapshots)
           pushed == Pushed(entries, id, limit)
<1>1. /\ id < MaximumId
      /\ snapshots' = [next_id |-> id + 1, entries |-> pushed]
      /\ created' = Append(created, id)
  BY DEF Create
<1>2. /\ id \in Ids /\ entries \in Seq(Ids) /\ created \in Seq(Ids)
      /\ limit \in Nat \ {0} /\ MaximumId \in Nat
  BY Limits, LogAssumption DEF SnapshotsSound, Log, Ids
<1>3. Len(entries) \in Nat /\ Len(created) \in Nat
  BY <1>2, LenProperties
<1> HIDE DEF id, limit, entries
<1>4. /\ pushed \in Seq(Ids) /\ Len(pushed) = Room(Len(entries), limit)
      /\ \A i \in 1..Len(pushed) : pushed[i] = IF i = 1 THEN id ELSE entries[i - 1]
  BY <1>2, PushedProperties, SMTT(30)
<1> USE DEF id, limit, entries
<1>5. /\ created' \in Seq(Ids) /\ Len(created') = Len(created) + 1
      /\ \A i \in 1..Len(created) : created'[i] = created[i]
      /\ created'[Len(created) + 1] = id
  BY <1>1, <1>2, AppendProperties
<1>6. snapshots' \in Log /\ snapshots'.next_id = id + 1 /\ snapshots'.entries = pushed
  BY <1>1, <1>2, <1>4 DEF Log, Ids
<1>7. \A i \in 1..Len(created) : created[i] \in Ids /\ created[i] < id
  BY <1>2, ElementOfSeq DEF SnapshotsSound
<1>8. /\ \A i \in 1..Len(created') : created'[i] < id + 1
      /\ \A i, j \in 1..Len(created') : i < j => created'[i] < created'[j]
  <2>1. ASSUME NEW i \in 1..Len(created')
        PROVE  \/ i \in 1..Len(created) /\ created'[i] = created[i]
               \/ i = Len(created) + 1 /\ created'[i] = id
    BY <1>3, <1>5
  <2>2. ASSUME NEW i \in 1..Len(created') PROVE created'[i] < id + 1
    <3>1. CASE i \in 1..Len(created) /\ created'[i] = created[i]
      <4>1. created[i] \in Nat /\ created[i] < id /\ id \in Nat
        BY <1>2, <1>7, <3>1 DEF Ids
      <4> QED BY <3>1, <4>1
    <3>2. CASE created'[i] = id
      <4>1. id \in Nat
        BY <1>2 DEF Ids
      <4> QED BY <3>2, <4>1
    <3> QED BY <2>1, <2>2, <3>1, <3>2
  <2>3. ASSUME NEW i \in 1..Len(created'), NEW j \in 1..Len(created'), i < j
        PROVE  created'[i] < created'[j]
    <3>1. i \in 1..Len(created) /\ created'[i] = created[i]
      BY <1>3, <1>5, <2>1, <2>3
    <3>2. CASE j \in 1..Len(created) /\ created'[j] = created[j]
      BY <2>3, <3>1, <3>2 DEF SnapshotsSound
    <3>3. CASE j = Len(created) + 1 /\ created'[j] = id
      BY <1>7, <3>1, <3>3
    <3> QED BY <2>1, <3>2, <3>3
  <2> QED BY <2>2, <2>3
<1>9. \A i \in 1..Len(entries) : entries[i] \in Ids /\ entries[i] < id
  BY <1>7 DEF SnapshotsSound
<1>10. \A i \in 1..Len(pushed) : i # 1 =>
         i - 1 \in 1..Len(entries) /\ pushed[i] = entries[i - 1]
  BY <1>2, <1>3, <1>4 DEF Room
<1>11. \A i \in 1..Len(pushed) : \E j \in 1..Len(created') : pushed[i] = created'[j]
  <2> SUFFICES ASSUME NEW i \in 1..Len(pushed)
               PROVE  \E j \in 1..Len(created') : pushed[i] = created'[j]
    OBVIOUS
  <2>1. CASE i = 1
    <3>1. pushed[1] = id /\ Len(created) + 1 \in 1..Len(created')
      BY <1>2, <1>3, <1>4, <1>5 DEF Room
    <3> QED BY <1>5, <2>1, <3>1
  <2>2. CASE i # 1
    <3>1. PICK j \in 1..Len(created) : entries[i - 1] = created[j]
      BY <1>10, <2>2 DEF SnapshotsSound
    <3>2. j \in 1..Len(created')
      BY <1>3, <1>5
    <3> HIDE DEF pushed
    <3> QED BY <1>5, <1>10, <2>2, <3>1, <3>2
  <2> QED BY <2>1, <2>2
<1>12. \A i, j \in 1..Len(pushed) : i < j => pushed[i] > pushed[j]
  <2> SUFFICES ASSUME NEW i \in 1..Len(pushed), NEW j \in 1..Len(pushed), i < j
               PROVE  pushed[i] > pushed[j]
    OBVIOUS
  <2>1. j # 1 /\ j - 1 \in 1..Len(entries) /\ pushed[j] = entries[j - 1]
    BY <1>3, <1>4, <1>10
  <2>2. CASE i = 1
    <3>1. pushed[1] = id
      BY <1>2, <1>3, <1>4 DEF Room
    <3> HIDE DEF pushed, entries
    <3> QED BY <1>2, <1>9, <2>1, <2>2, <3>1 DEF Ids
  <2>3. CASE i # 1
    <3>1. i - 1 \in 1..Len(entries) /\ pushed[i] = entries[i - 1] /\ i - 1 < j - 1
      BY <1>4, <1>10, <2>3
    <3> QED BY <2>1, <3>1 DEF SnapshotsSound
  <2> QED BY <2>2, <2>3
<1> HIDE DEF pushed
<1> QED BY <1>5, <1>6, <1>8, <1>11, <1>12 DEF SnapshotsSound

LEMMA CreateFailsStep ==
  SnapshotsSound /\ (CreateFails \/ ClearSnapshots) => SnapshotsSound'
<1> SUFFICES ASSUME SnapshotsSound, CreateFails \/ ClearSnapshots PROVE SnapshotsSound'
  OBVIOUS
<1>1. created \in Seq(Ids) /\ created' = created
  BY DEF SnapshotsSound, CreateFails, ClearSnapshots
<1>2. \A i \in 1..Len(created) : created[i] \in Ids
  BY <1>1, ElementOfSeq
<1>3. CASE CreateFails
  <2>1. /\ snapshots' \in Log /\ snapshots'.next_id = snapshots.next_id + 1
        /\ snapshots'.entries = snapshots.entries /\ snapshots.next_id \in Ids
    <3>1. /\ snapshots \in [next_id : 0..MaximumId, entries : Seq(0..MaximumId)]
          /\ snapshots.next_id < MaximumId /\ MaximumId \in Nat
          /\ snapshots' = [snapshots EXCEPT !.next_id = snapshots.next_id + 1]
      BY <1>3, LogAssumption DEF SnapshotsSound, CreateFails, Log
    <3>2. snapshots.next_id \in 0..MaximumId /\ snapshots.next_id + 1 \in 0..MaximumId
      BY <3>1
    <3> QED BY <3>1, <3>2 DEF Log, Ids
  <2>2. \A i \in 1..Len(created') : created'[i] < snapshots'.next_id
    BY <1>1, <1>2, <2>1 DEF SnapshotsSound, Ids
  <2> QED BY <1>1, <2>1, <2>2 DEF SnapshotsSound
<1>4. CASE ClearSnapshots
  <2>1. /\ snapshots' \in Log /\ snapshots'.next_id = snapshots.next_id
        /\ Len(snapshots'.entries) = 0
    BY <1>4, EmptySeq DEF SnapshotsSound, ClearSnapshots, Log
  <2> QED BY <1>1, <2>1 DEF SnapshotsSound
<1> QED BY <1>3, <1>4

LEMMA EraseStep == ASSUME NEW id, SnapshotsSound, Erase(id) PROVE SnapshotsSound'
<1> DEFINE entries == snapshots.entries
<1>1. PICK i \in DOMAIN entries :
        snapshots' = [snapshots EXCEPT !.entries = RemoveAt(entries, i)]
  BY DEF Erase
<1>2. /\ entries \in Seq(Ids) /\ snapshots.next_id \in Ids
      /\ created' = created /\ i \in 1..Len(entries) /\ Len(entries) \in Nat
  BY LenProperties DEF SnapshotsSound, Erase, Log, Ids
<1>3. /\ RemoveAt(entries, i) \in Seq(Ids)
      /\ Len(RemoveAt(entries, i)) = Len(entries) - 1
      /\ \A j \in 1..(Len(entries) - 1) :
           RemoveAt(entries, i)[j] = IF j < i THEN entries[j] ELSE entries[j + 1]
  BY <1>2, RemoveAtProperties
<1>4. /\ snapshots' \in Log /\ snapshots'.next_id = snapshots.next_id
      /\ snapshots'.entries = RemoveAt(entries, i)
  BY <1>1, <1>2, <1>3 DEF SnapshotsSound, Log, Ids
<1> DEFINE place(j) == IF j < i THEN j ELSE j + 1
<1>5. \A j \in 1..Len(snapshots'.entries) :
        place(j) \in 1..Len(entries) /\ snapshots'.entries[j] = entries[place(j)]
  BY <1>2, <1>3, <1>4
<1>6. \A j, k \in 1..Len(snapshots'.entries) : j < k => place(j) < place(k)
  BY <1>2, <1>3, <1>4
<1> HIDE DEF place
<1> QED BY <1>2, <1>4, <1>5, <1>6 DEF SnapshotsSound

(***************************************************************************)
(* The property follows.                                                   *)
(***************************************************************************)
LEMMA SoundMeansNewest == LogsSound => LogsKeepNewest
<1> SUFFICES ASSUME LogsSound PROVE LogsKeepNewest
  OBVIOUS
<1>1. /\ audit.entries \in Seq(Ids) /\ recorded \in Seq(Ids)
      /\ snapshots.entries \in Seq(Ids) /\ created \in Seq(Ids)
  BY DEF LogsSound, AuditSound, SnapshotsSound, Log, Ids
<1>2. /\ DOMAIN audit.entries = 1..Len(audit.entries) /\ Len(audit.entries) \in Nat
      /\ DOMAIN snapshots.entries = 1..Len(snapshots.entries)
      /\ DOMAIN created = 1..Len(created) /\ Len(recorded) \in Nat
  BY <1>1, LenProperties
<1>3. /\ \A i, j \in DOMAIN created : i < j => created[i] < created[j]
      /\ ToSet(snapshots.entries) \subseteq ToSet(created)
  BY <1>2 DEF LogsSound, SnapshotsSound, ToSet
<1>4. Falling(snapshots.entries, MaximumId)
  BY <1>2 DEF LogsSound, SnapshotsSound, Falling
<1>5. Falling(audit.entries, MaximumId)
  <2> SUFFICES ASSUME NEW i \in 1..Len(audit.entries), NEW j \in 1..Len(audit.entries),
                      i < j
               PROVE  \/ audit.entries[i] > audit.entries[j]
                      \/ audit.entries[i] >= MaximumId
    BY <1>2 DEF Falling
  <2>1. /\ i \in 1..Len(recorded) /\ j \in 1..Len(recorded)
        /\ audit.entries[i] = recorded[i] /\ audit.entries[j] = recorded[j]
    BY <1>2 DEF LogsSound, AuditSound
  <2>2. recorded[i] > recorded[j] \/ recorded[i] = MaximumId
    BY <2>1 DEF LogsSound, AuditSound
  <2>3. MaximumId \in Nat
    BY LogAssumption
  <2> QED BY <2>1, <2>2, <2>3
<1>6. audit.entries = SubSeq(recorded, 1, Len(audit.entries))
  <2> DEFINE held == Len(audit.entries)
  <2>1. held \in Nat /\ held <= Len(recorded)
    BY <1>2 DEF LogsSound, AuditSound
  <2>2. \A i \in 1..held : recorded[i] \in Ids
    BY <1>1, <1>2, <2>1, ElementOfSeq
  <2>3. /\ SubSeq(recorded, 1, held) \in Seq(Ids) /\ Len(SubSeq(recorded, 1, held)) = held
        /\ \A i \in 1..held : SubSeq(recorded, 1, held)[i] = recorded[i]
    BY <2>1, <2>2, SubSeqProperties
  <2>4. \A i \in 1..held : audit.entries[i] = recorded[i]
    BY DEF LogsSound, AuditSound
  <2> QED BY <1>1, <2>3, <2>4, SeqEqual
<1>7. Len(audit.entries) < Len(recorded) =>
        Len(audit.entries) = AtLeastOne(MaximumEvents)
  BY DEF LogsSound, AuditSound
<1> QED BY <1>3, <1>4, <1>5, <1>6, <1>7 DEF LogsKeepNewest

\* For every limit and every order of calls, with a create that fails at any
\* time: no snapshot gets the id of another one, and the audit log holds the
\* events recorded last (audit.rs:44-67, snapshot.cpp:31-54).
THEOREM NewestAreKept == LogSpec => []LogsKeepNewest
<1>1. LogsSound /\ [LogNext]_log_vars => LogsSound'
  <2> SUFFICES ASSUME LogsSound, [LogNext]_log_vars PROVE LogsSound'
    OBVIOUS
  <2>1. ASSUME UNCHANGED <<audit, recorded>> PROVE AuditSound'
    BY <2>1 DEF LogsSound, AuditSound
  <2>2. ASSUME UNCHANGED <<snapshots, created>> PROVE SnapshotsSound'
    BY <2>2 DEF LogsSound, SnapshotsSound
  <2>3. CASE RecordEvent \/ ClearAudit
    <3>1. UNCHANGED <<snapshots, created>>
      BY <2>3 DEF RecordEvent, ClearAudit
    <3> QED BY <2>2, <2>3, <3>1, RecordStep, ClearStep DEF LogsSound
  <2>4. CASE Create \/ CreateFails \/ ClearSnapshots
    <3>1. UNCHANGED <<audit, recorded>>
      BY <2>4 DEF Create, CreateFails, ClearSnapshots
    <3> QED BY <2>1, <2>4, <3>1, CreateStep, CreateFailsStep DEF LogsSound
  <2>5. CASE \E id \in 1..MaximumId : Erase(id)
    <3>1. UNCHANGED <<audit, recorded>>
      BY <2>5 DEF Erase
    <3> QED BY <2>1, <2>5, <3>1, EraseStep DEF LogsSound
  <2>6. CASE UNCHANGED log_vars
    BY <2>1, <2>2, <2>6 DEF LogsSound, log_vars
  <2> QED BY <2>3, <2>4, <2>5, <2>6 DEF LogNext
<1> QED BY <1>1, InitSound, SoundMeansNewest, PTL DEF LogSpec

-----------------------------------------------------------------------------
(***************************************************************************)
(* DomainIndexes.  Both indexes are a function of what is stored: every call *)
(* takes the indexes of the cookies before it to those of the cookies after *)
(* it, for any keys, domains, flags and lists.                             *)
(***************************************************************************)

\* What can be stored: finitely many keys, each with its flags.
Map == UNION {[keys -> SUBSET Flag] : keys \in {ks \in SUBSET CookieKey : IsFiniteSet(ks)}}

Path(k) == Labels(k)

\* The Rust index and the trie of what is stored.
IndexOf(s) ==
  [domains |-> [d \in {IndexDomain(k) : k \in DOMAIN s} |->
                  {k \in DOMAIN s : IndexDomain(k) = d}],
   member  |-> [f \in Flag |-> {k \in DOMAIN s : f \in s[k]}]]

Nodes(s) == {<<>>} \cup UNION {PathTo(Path(k)) : k \in DOMAIN s}

TrieOf(s) ==
  [keys         |-> [q \in Nodes(s) |-> {k \in DOMAIN s : Path(k) = q}],
   domain_count |-> Cardinality({Path(k) : k \in DOMAIN s}),
   key_count    |-> Cardinality(DOMAIN s)]

\* Both indexes are a function of what is stored, and what they are built from
\* or changed by is forgotten.
IndexesExact == stored \in Map /\ index = IndexOf(stored) /\ trie = TrieOf(stored)

-----------------------------------------------------------------------------
(* Maps. *)

\* The stored entries are a finite map from keys to flags.
LEMMA MapKeys ==
  ASSUME NEW s \in Map
  PROVE  /\ DOMAIN s \subseteq CookieKey /\ IsFiniteSet(DOMAIN s)
         /\ s = [k \in DOMAIN s |-> s[k]]
         /\ \A k \in DOMAIN s : s[k] \subseteq Flag
BY DEF Map

LEMMA IsMap ==
  ASSUME NEW s, DOMAIN s \subseteq CookieKey, IsFiniteSet(DOMAIN s),
         s = [k \in DOMAIN s |-> s[k]], \A k \in DOMAIN s : s[k] \subseteq Flag
  PROVE  s \in Map
<1>1. s \in [DOMAIN s -> SUBSET Flag]
  OBVIOUS
<1> QED BY <1>1 DEF Map

LEMMA EmptyMap ==
  /\ <<>> \in Map /\ DOMAIN <<>> = {}
  /\ \A s : s = [k \in DOMAIN s |-> s[k]] /\ DOMAIN s = {} => s = <<>>
<1>1. DOMAIN <<>> = {} /\ IsFiniteSet({})
  BY FS_EmptySet
<1>2. <<>> = [k \in DOMAIN <<>> |-> <<>>[k]]
  OBVIOUS
<1> QED BY <1>1, <1>2, IsMap

\* What storing an entry, and taking one away, does to that map.
LEMMA PutMap ==
  ASSUME NEW s \in Map, NEW c \in Entry
  PROVE  /\ Put(s, c) \in Map
         /\ DOMAIN Put(s, c) = DOMAIN s \cup {c.key}
         /\ \A k \in DOMAIN Put(s, c) :
              Put(s, c)[k] = IF k = c.key THEN c.flags ELSE s[k]
<1>1. c.key \in CookieKey /\ c.flags \subseteq Flag
  BY DEF Entry
<1>2. /\ DOMAIN Put(s, c) = DOMAIN s \cup {c.key}
      /\ \A k \in DOMAIN Put(s, c) :
           Put(s, c)[k] = IF k = c.key THEN c.flags ELSE s[k]
      /\ Put(s, c) = [k \in DOMAIN Put(s, c) |-> Put(s, c)[k]]
  BY DEF Put, With
<1>3. IsFiniteSet(DOMAIN Put(s, c)) /\ DOMAIN Put(s, c) \subseteq CookieKey
  BY <1>1, <1>2, MapKeys, FS_AddElement
<1>4. \A k \in DOMAIN Put(s, c) : Put(s, c)[k] \subseteq Flag
  BY <1>1, <1>2, MapKeys
<1> HIDE DEF Put
<1> QED BY <1>2, <1>3, <1>4, IsMap

LEMMA WithoutMap ==
  ASSUME NEW s \in Map, NEW k
  PROVE  /\ Without(s, k) \in Map
         /\ DOMAIN Without(s, k) = DOMAIN s \ {k}
         /\ \A j \in DOMAIN s \ {k} : Without(s, k)[j] = s[j]
<1>1. /\ DOMAIN Without(s, k) = DOMAIN s \ {k}
      /\ \A j \in DOMAIN s \ {k} : Without(s, k)[j] = s[j]
      /\ Without(s, k) = [j \in DOMAIN Without(s, k) |-> Without(s, k)[j]]
  BY DEF Without
<1>2. IsFiniteSet(DOMAIN Without(s, k)) /\ DOMAIN Without(s, k) \subseteq CookieKey
  BY <1>1, MapKeys, FS_RemoveElement
<1>3. \A j \in DOMAIN Without(s, k) : Without(s, k)[j] \subseteq Flag
  BY <1>1, MapKeys
<1> HIDE DEF Without
<1> QED BY <1>1, <1>2, <1>3, IsMap

-----------------------------------------------------------------------------
(* The Rust index. *)

\* The Rust index: each operation on the index of a map gives the index of the
\* map that is left.
LEMMA IndexOfEmpty == EmptyIndex = IndexOf(<<>>)
<1>1. DOMAIN <<>> = {}
  OBVIOUS
<1>2. <<>> = [d \in {IndexDomain(k) : k \in DOMAIN <<>>} |-> {k \in DOMAIN <<>> : IndexDomain(k) = d}]
  BY <1>1
<1>3. [f \in Flag |-> {}] = [f \in Flag |-> {k \in DOMAIN <<>> : f \in <<>>[k]}]
  BY <1>1
<1> QED BY <1>2, <1>3 DEF EmptyIndex, IndexOf

LEMMA BucketOf ==
  ASSUME NEW s, NEW d
  PROVE  Bucket(IndexOf(s), d) = {k \in DOMAIN s : IndexDomain(k) = d}
BY DEF Bucket, IndexOf

LEMMA InsertKeepsIndex ==
  ASSUME NEW s \in Map, NEW c \in Entry
  PROVE  IndexInsert(IndexOf(s), c) = IndexOf(Put(s, c))
<1> DEFINE after == Put(s, c)
           d == IndexDomain(c.key)
           ix == IndexOf(s)
           domains == With(ix.domains, d, Bucket(ix, d) \cup {c.key})
           member == [f \in Flag |-> IF f \in c.flags THEN ix.member[f] \cup {c.key}
                                     ELSE ix.member[f] \ {c.key}]
<1>1. /\ DOMAIN after = DOMAIN s \cup {c.key}
      /\ \A k \in DOMAIN after : after[k] = IF k = c.key THEN c.flags ELSE s[k]
  BY PutMap
<1> HIDE DEF after
<1>2. domains = [e \in {IndexDomain(k) : k \in DOMAIN after} |-> {k \in DOMAIN after : IndexDomain(k) = e}]
  <2>1. Bucket(ix, d) = {k \in DOMAIN s : IndexDomain(k) = d}
    BY BucketOf
  <2>2. /\ DOMAIN ix.domains = {IndexDomain(k) : k \in DOMAIN s}
        /\ \A e \in DOMAIN ix.domains : ix.domains[e] = {k \in DOMAIN s : IndexDomain(k) = e}
    BY DEF IndexOf
  <2> HIDE DEF ix
  <2>3. DOMAIN domains = {IndexDomain(k) : k \in DOMAIN after}
    BY <1>1, <2>2 DEF With
  <2>4. ASSUME NEW e \in DOMAIN domains
        PROVE  domains[e] = {k \in DOMAIN after : IndexDomain(k) = e}
    <3>1. CASE e = d
      BY <1>1, <2>1, <3>1 DEF With
    <3>2. CASE e # d
      <4>1. e \in DOMAIN ix.domains /\ domains[e] = ix.domains[e]
        BY <3>2 DEF With
      <4> QED BY <1>1, <2>2, <3>2, <4>1
    <3> QED BY <3>1, <3>2
  <2>5. domains = [e \in DOMAIN domains |-> domains[e]]
    BY DEF With
  <2> HIDE DEF domains
  <2> QED BY <2>3, <2>4, <2>5
<1>3. member = [f \in Flag |-> {k \in DOMAIN after : f \in after[k]}]
  <2>1. \A f \in Flag : ix.member[f] = {k \in DOMAIN s : f \in s[k]}
    BY DEF IndexOf
  <2> HIDE DEF ix
  <2>2. ASSUME NEW f \in Flag PROVE member[f] = {k \in DOMAIN after : f \in after[k]}
    BY <1>1, <2>1
  <2> QED BY <2>2
<1>4. IndexInsert(ix, c) = [domains |-> domains, member |-> member]
  BY DEF IndexInsert
<1>5. IndexOf(after) =
        [domains |-> [e \in {IndexDomain(k) : k \in DOMAIN after} |->
                        {k \in DOMAIN after : IndexDomain(k) = e}],
         member |-> [f \in Flag |-> {k \in DOMAIN after : f \in after[k]}]]
  BY DEF IndexOf
<1> QED BY <1>2, <1>3, <1>4, <1>5 DEF after

LEMMA RemoveKeepsIndex ==
  ASSUME NEW s \in Map, NEW k \in CookieKey
  PROVE  IndexRemove(IndexOf(s), k) = IndexOf(Without(s, k))
<1> DEFINE after == Without(s, k)
           d == IndexDomain(k)
           ix == IndexOf(s)
           rest == Bucket(ix, d) \ {k}
           domains == IF rest = {} THEN Without(ix.domains, d) ELSE With(ix.domains, d, rest)
           member == [f \in Flag |-> ix.member[f] \ {k}]
<1>1. /\ DOMAIN after = DOMAIN s \ {k}
      /\ \A j \in DOMAIN after : after[j] = s[j]
  BY WithoutMap
<1> HIDE DEF after
<1>2. domains = [e \in {IndexDomain(j) : j \in DOMAIN after} |-> {j \in DOMAIN after : IndexDomain(j) = e}]
  <2>1. rest = {j \in DOMAIN after : IndexDomain(j) = d}
    BY <1>1, BucketOf
  <2>2. /\ DOMAIN ix.domains = {IndexDomain(j) : j \in DOMAIN s}
        /\ \A e \in DOMAIN ix.domains : ix.domains[e] = {j \in DOMAIN s : IndexDomain(j) = e}
    BY DEF IndexOf
  <2> HIDE DEF ix, rest
  <2>3. DOMAIN domains = {IndexDomain(j) : j \in DOMAIN after}
    <3>1. CASE rest = {}
      BY <1>1, <2>1, <2>2, <3>1 DEF Without
    <3>2. CASE rest # {}
      BY <1>1, <2>1, <2>2, <3>2 DEF With
    <3> QED BY <3>1, <3>2
  <2>4. ASSUME NEW e \in DOMAIN domains
        PROVE  domains[e] = {j \in DOMAIN after : IndexDomain(j) = e}
    <3>1. CASE e = d
      BY <2>1, <3>1 DEF With, Without
    <3>2. CASE e # d
      <4>1. e \in DOMAIN ix.domains /\ domains[e] = ix.domains[e]
        BY <3>2 DEF With, Without
      <4> QED BY <1>1, <2>2, <3>2, <4>1
    <3> QED BY <3>1, <3>2
  <2>5. domains = [e \in DOMAIN domains |-> domains[e]]
    BY DEF With, Without
  <2> HIDE DEF domains
  <2> QED BY <2>3, <2>4, <2>5
<1>3. member = [f \in Flag |-> {j \in DOMAIN after : f \in after[j]}]
  <2>1. \A f \in Flag : ix.member[f] = {j \in DOMAIN s : f \in s[j]}
    BY DEF IndexOf
  <2> HIDE DEF ix
  <2>2. ASSUME NEW f \in Flag PROVE member[f] = {j \in DOMAIN after : f \in after[j]}
    BY <1>1, <2>1
  <2> QED BY <2>2
<1>4. IndexRemove(ix, k) = [domains |-> domains, member |-> member]
  BY DEF IndexRemove
<1>5. IndexOf(after) =
        [domains |-> [e \in {IndexDomain(j) : j \in DOMAIN after} |->
                        {j \in DOMAIN after : IndexDomain(j) = e}],
         member |-> [f \in Flag |-> {j \in DOMAIN after : f \in after[j]}]]
  BY DEF IndexOf
<1> QED BY <1>2, <1>3, <1>4, <1>5 DEF after

-----------------------------------------------------------------------------
(* Texts. *)

Token == Letter \cup {Dot} \cup Blank \cup WideBlank

\* The greatest place of a set of them, as Trimmed and a fold ask for it.
LEMMA GreatestPlace ==
  ASSUME NEW n \in Nat, NEW at, at \subseteq 1..n, at # {}
  PROVE  Max(at) \in at /\ \A i \in at : i <= Max(at)
<1>1. at \subseteq 0..n
  OBVIOUS
<1>2. PICK last \in at : \A j \in at : j <= last
  BY <1>1, Greatest
<1>3. \E i \in at : \A j \in at : i >= j
  BY <1>1, <1>2
<1>4. Max(at) \in at /\ \A j \in at : Max(at) >= j
  BY <1>3 DEF Max
<1> QED BY <1>1, <1>4

\* What is left of a text when it has been trimmed is a text.
LEMMA TrimmedTyping ==
  ASSUME NEW T, NEW text \in Seq(T), NEW S
  PROVE  Trimmed(text, S) \in Seq(T)
<1> DEFINE remain == {i \in DOMAIN text : text[i] \notin S}
<1>1. Trimmed(text, S) = IF remain = {} THEN <<>> ELSE SubSeq(text, Min(remain), Max(remain))
  BY DEF Trimmed
<1>2. remain \subseteq 1..Len(text) /\ Len(text) \in Nat /\ remain \subseteq Nat
  BY LenProperties
<1> HIDE DEF remain
<1>3. CASE remain = {}
  BY <1>1, <1>3, EmptySeq
<1>4. CASE remain # {}
  <2>1. Max(remain) \in remain
    BY <1>2, <1>4, GreatestPlace
  <2>2. \E x \in remain : \A y \in remain : x <= y
    BY <1>2, <1>4, Least
  <2>3. Min(remain) \in remain
    BY <2>2 DEF Min
  <2>4. Min(remain) \in Int /\ Max(remain) \in Int /\ \A i \in Min(remain)..Max(remain) : i \in 1..Len(text)
    <3>1. ASSUME NEW a \in 1..Len(text), NEW b \in 1..Len(text)
          PROVE  a \in Int /\ b \in Int /\ \A i \in a..b : i \in 1..Len(text)
      BY <1>2
    <3>2. Min(remain) \in 1..Len(text) /\ Max(remain) \in 1..Len(text)
      BY <1>2, <2>1, <2>3
    <3> QED BY <3>1, <3>2
  <2>5. \A i \in Min(remain)..Max(remain) : text[i] \in T
    BY <2>4, ElementOfSeq
  <2> QED BY <1>1, <1>4, <2>4, <2>5, SubSeqProperties
<1> QED BY <1>3, <1>4

\* Whatever the normalizations make of a domain or a host is a text, and the
\* path of a key is made of texts, of at least one.
LEMMA TextTyping ==
  /\ \A k \in CookieKey : DomainOf[k] \in Seq(Token)
  /\ \A h \in HostName : h \in Seq(Token)
  /\ \A text \in Seq(Token) : /\ normalized_domain(text) \in Seq(Token)
                              /\ normalize_domain(text) \in Seq(Token)
<1>1. \A text \in Seq(Token) : /\ normalized_domain(text) \in Seq(Token)
                               /\ normalize_domain(text) \in Seq(Token)
  BY TrimmedTyping DEF normalized_domain, normalize_domain
<1> QED BY <1>1, IndexAssumption DEF DomainText, Token

-----------------------------------------------------------------------------
(* Labels. *)

\* One list of labels continues another: further labels follow, or the last one
\* goes on.
Continues(p, q) ==
  /\ Len(p) <= Len(q)
  /\ \A i \in 1..(Len(p) - 1) : q[i] = p[i]
  /\ Len(p[Len(p)]) <= Len(q[Len(p)])
  /\ \A j \in 1..Len(p[Len(p)]) : q[Len(p)][j] = p[Len(p)][j]

\* What one more token does to a list of labels.
LEMMA OneMore ==
  ASSUME NEW S, NEW p \in Seq(Seq(S)), p # <<>>, NEW c \in S
  PROVE  /\ ReadNext(p, c) \in Seq(Seq(S)) /\ ReadNext(p, c) # <<>>
         /\ Len(p) \in Nat \ {0} /\ p[Len(p)] \in Seq(S) /\ Len(p[Len(p)]) \in Nat
         /\ \A i \in 1..(Len(p) - 1) : ReadNext(p, c)[i] = p[i]
         /\ c = Dot => /\ Len(ReadNext(p, c)) = Len(p) + 1
                       /\ ReadNext(p, c)[Len(p)] = p[Len(p)]
         /\ c # Dot => /\ Len(ReadNext(p, c)) = Len(p)
                       /\ ReadNext(p, c)[Len(p)] = Append(p[Len(p)], c)
<1>1. Len(p) \in Nat \ {0} /\ Len(p) \in 1..Len(p)
  BY EmptySeq, LenProperties
<1>2. p[Len(p)] \in Seq(S)
  BY <1>1, ElementOfSeq
<1>3. Len(p[Len(p)]) \in Nat
  BY <1>2, LenProperties
<1>4. CASE c = Dot
  <2>1. <<>> \in Seq(S) /\ ReadNext(p, c) = Append(p, <<>>)
    BY <1>4, EmptySeq DEF ReadNext
  <2>2. /\ ReadNext(p, c) \in Seq(Seq(S)) /\ Len(ReadNext(p, c)) = Len(p) + 1
        /\ \A i \in 1..Len(p) : ReadNext(p, c)[i] = p[i]
    BY <2>1, AppendProperties
  <2>3. ReadNext(p, c) # <<>>
    BY <1>1, <2>2, EmptySeq
  <2> QED BY <1>1, <1>2, <1>3, <1>4, <2>2, <2>3
<1>5. CASE c # Dot
  <2> DEFINE a == Append(p[Len(p)], c)
  <2>1. a \in Seq(S) /\ ReadNext(p, c) = [p EXCEPT ![Len(p)] = a]
    BY <1>2, <1>5, AppendProperties DEF ReadNext
  <2> HIDE DEF a
  <2>2. /\ ReadNext(p, c) \in Seq(Seq(S)) /\ Len(ReadNext(p, c)) = Len(p)
        /\ \A i \in 1..Len(p) : ReadNext(p, c)[i] = IF i = Len(p) THEN a ELSE p[i]
    BY <1>1, <2>1, ExceptSeq
  <2>3. ReadNext(p, c) # <<>>
    BY <1>1, <2>2, EmptySeq
  <2>4. ReadNext(p, c)[Len(p)] = a
    BY <1>1, <2>2
  <2>5. \A i \in 1..(Len(p) - 1) : i \in 1..Len(p) /\ i # Len(p)
    BY <1>1
  <2>6. \A i \in 1..(Len(p) - 1) : ReadNext(p, c)[i] = p[i]
    BY <2>2, <2>5
  <2>7. a = Append(p[Len(p)], c)
    BY DEF a
  <2> QED BY <1>1, <1>2, <1>3, <1>5, <2>2, <2>3, <2>4, <2>6, <2>7
<1> QED BY <1>4, <1>5

\* The labels are read from the last token to the first.
LEMMA LabelsDefined ==
  ASSUME NEW S, NEW text \in Seq(S)
  PROVE  /\ LabelsRead(text)[0] = << <<>> >>
         /\ \A n \in 1..Len(text) :
              LabelsRead(text)[n] = ReadNext(LabelsRead(text)[n - 1], text[Len(text) + 1 - n])
<1> DEFINE Is(g, m) == g = [n \in 0..m |-> IF n = 0 THEN << <<>> >>
                                           ELSE ReadNext(g[n - 1], text[Len(text) + 1 - n])]
           Good == {m \in Nat : \E g : Is(g, m)}
<1>0. Len(text) \in Nat
  BY LenProperties
<1>1. 0 \in Good
  <2>1. Is([n \in 0..0 |-> << <<>> >>], 0)
    OBVIOUS
  <2> QED BY <2>1
<1>2. ASSUME NEW m \in 1..Len(text), m - 1 \in Good PROVE m \in Good
  <2>1. m \in Nat /\ m - 1 \in Nat
    OBVIOUS
  <2>2. PICK g : Is(g, m - 1)
    BY <1>2
  <2>3. \A n \in 0..(m - 1) : g[n] = IF n = 0 THEN << <<>> >>
                                     ELSE ReadNext(g[n - 1], text[Len(text) + 1 - n])
    BY <2>2
  <2> DEFINE h == [n \in 0..m |-> IF n < m THEN g[n]
                                  ELSE ReadNext(g[n - 1], text[Len(text) + 1 - n])]
  <2>4. ASSUME NEW n \in 0..m
        PROVE  h[n] = IF n = 0 THEN << <<>> >> ELSE ReadNext(h[n - 1], text[Len(text) + 1 - n])
    <3>1. CASE n < m
      BY <2>1, <2>3, <3>1
    <3>2. CASE n = m
      BY <2>1, <3>2
    <3> HIDE DEF h
    <3> QED BY <2>1, <3>1, <3>2
  <2>5. Is(h, m)
    BY <2>4
  <2> QED BY <2>1, <2>5
<1>3. Len(text) \in Good
  <2> HIDE DEF Good
  <2>1. Len(text) \in 0..Len(text)
    BY <1>0
  <2> QED BY <1>0, <1>1, <1>2, <2>1, Upward
<1> DEFINE labels == CHOOSE g : Is(g, Len(text))
<1>4. Is(labels, Len(text))
  BY <1>3
<1>5. LabelsRead(text) = labels
  BY DEF LabelsRead
<1>6. \A n \in 0..Len(text) :
        labels[n] = IF n = 0 THEN << <<>> >> ELSE ReadNext(labels[n - 1], text[Len(text) + 1 - n])
  BY <1>4
<1> HIDE DEF labels
<1> QED BY <1>0, <1>5, <1>6

LEMMA LabelsTyped ==
  ASSUME NEW S, NEW text \in Seq(S)
  PROVE  /\ \A n \in 0..Len(text) : LabelsRead(text)[n] \in Seq(Seq(S)) /\ LabelsRead(text)[n] # <<>>
         /\ LabelsFromEnd(text) \in Seq(Seq(S)) /\ LabelsFromEnd(text) # <<>>
<1> DEFINE f == LabelsRead(text)
           Good == {n \in Nat : f[n] \in Seq(Seq(S)) /\ f[n] # <<>>}
<1>1. f[0] = << <<>> >> /\ \A n \in 1..Len(text) : f[n] = ReadNext(f[n - 1], text[Len(text) + 1 - n])
  BY LabelsDefined
<1>2. Len(text) \in Nat
  BY LenProperties
<1>3. << <<>> >> \in Seq(Seq(S)) /\ << <<>> >> # <<>>
  <2>1. <<>> \in Seq(S)
    BY EmptySeq
  <2>2. \A x : << x >> \in Seq({x}) /\ << x >> # <<>>
    OBVIOUS
  <2>3. \A x \in Seq(S) : << x >> \in Seq(Seq(S))
    OBVIOUS
  <2> QED BY <2>1, <2>2, <2>3
<1> HIDE DEF f
<1>4. 0 \in Good
  BY <1>1, <1>3
<1>5. ASSUME NEW n \in 1..Len(text), n - 1 \in Good PROVE n \in Good
  <2>1. text[Len(text) + 1 - n] \in S
    BY <1>2, ElementOfSeq
  <2>2. f[n - 1] \in Seq(Seq(S)) /\ f[n - 1] # <<>>
    BY <1>5
  <2>3. f[n] = ReadNext(f[n - 1], text[Len(text) + 1 - n])
    BY <1>1
  <2> DEFINE c == text[Len(text) + 1 - n]
             p == f[n - 1]
  <2>4. ReadNext(p, c) \in Seq(Seq(S)) /\ ReadNext(p, c) # <<>>
    <3> HIDE DEF c, p
    <3>1. c \in S /\ p \in Seq(Seq(S)) /\ p # <<>>
      BY <2>1, <2>2 DEF c, p
    <3> QED BY <3>1, OneMore
  <2> QED BY <2>3, <2>4
<1>6. \A n \in 0..Len(text) : n \in Good
  <2> HIDE DEF Good
  <2> QED BY <1>2, <1>4, <1>5, Upward
<1>7. Len(text) \in 0..Len(text)
  BY <1>2
<1> QED BY <1>6, <1>7 DEF f, LabelsFromEnd

\* What is read later continues what has been read.
LEMMA ContinuesOn ==
  ASSUME NEW S, NEW p \in Seq(Seq(S)), p # <<>>, NEW q \in Seq(Seq(S)), q # <<>>,
         Continues(p, q), NEW c \in S
  PROVE  Continues(p, ReadNext(q, c))
<1> DEFINE r == ReadNext(q, c)
           l == Len(p)
           k == Len(q)
<1>1. /\ r \in Seq(Seq(S)) /\ k \in Nat \ {0} /\ q[k] \in Seq(S) /\ Len(q[k]) \in Nat
      /\ \A i \in 1..(k - 1) : r[i] = q[i]
      /\ c = Dot => Len(r) = k + 1 /\ r[k] = q[k]
      /\ c # Dot => Len(r) = k /\ r[k] = Append(q[k], c)
  BY OneMore
<1>2. l \in Nat \ {0} /\ p[l] \in Seq(S) /\ Len(p[l]) \in Nat
  BY OneMore
<1>3. /\ l <= k /\ \A i \in 1..(l - 1) : q[i] = p[i]
      /\ Len(p[l]) <= Len(q[l])
      /\ \A j \in 1..Len(p[l]) : q[l][j] = p[l][j]
  BY DEF Continues
<1>4. /\ Len(Append(q[k], c)) = Len(q[k]) + 1
      /\ \A j \in 1..Len(q[k]) : Append(q[k], c)[j] = q[k][j]
  BY <1>1, AppendProperties
<1> HIDE DEF r, l, k
<1>5. l <= Len(r)
  BY <1>1, <1>2, <1>3
<1>6. \A i \in 1..(l - 1) : r[i] = p[i]
  BY <1>1, <1>2, <1>3
<1>7. Len(p[l]) <= Len(r[l]) /\ \A j \in 1..Len(p[l]) : r[l][j] = p[l][j]
  <2>1. CASE l < k
    <3>1. r[l] = q[l]
      BY <1>1, <1>2, <2>1
    <3> QED BY <1>3, <3>1
  <2>2. CASE l = k /\ c = Dot
    BY <1>1, <1>3, <2>2
  <2>3. CASE l = k /\ c # Dot
    <3>1. Len(r[l]) = Len(q[l]) + 1 /\ \A j \in 1..Len(q[l]) : r[l][j] = q[l][j]
      BY <1>1, <1>4, <2>3
    <3>2. Len(q[l]) \in Nat
      BY <1>1, <2>3
    <3>3. Len(p[l]) <= Len(r[l])
      BY <1>2, <1>3, <3>1, <3>2
    <3>4. \A j \in 1..Len(p[l]) : j \in 1..Len(q[l])
      BY <1>2, <1>3, <3>2
    <3>5. \A j \in 1..Len(p[l]) : r[l][j] = p[l][j]
      BY <1>3, <3>1, <3>4
    <3> QED BY <3>3, <3>5
  <2> QED BY <1>2, <1>1, <1>3, <2>1, <2>2, <2>3
<1> QED BY <1>5, <1>6, <1>7 DEF Continues, r, l

LEMMA Onward ==
  ASSUME NEW S, NEW text \in Seq(S), NEW m \in 0..Len(text)
  PROVE  Continues(LabelsRead(text)[m], LabelsFromEnd(text))
<1> DEFINE f == LabelsRead(text)
           Good == {n \in Nat : n >= m => Continues(f[m], f[n])}
<1>1. Len(text) \in Nat
  BY LenProperties
<1>2. \A n \in 0..Len(text) : f[n] \in Seq(Seq(S)) /\ f[n] # <<>>
  BY LabelsTyped
<1>3. \A n \in 1..Len(text) : f[n] = ReadNext(f[n - 1], text[Len(text) + 1 - n])
  BY LabelsDefined
<1> HIDE DEF f
<1>4. Continues(f[m], f[m])
  <2>1. Len(f[m]) \in Nat \ {0} /\ f[m][Len(f[m])] \in Seq(S)
    <3>1. Len(f[m]) \in Nat /\ Len(f[m]) # 0
      BY <1>2, EmptySeq, LenProperties
    <3> QED BY <1>2, <3>1, ElementOfSeq
  <2>2. Len(f[m][Len(f[m])]) \in Nat
    BY <2>1, LenProperties
  <2> QED BY <2>1, <2>2 DEF Continues
<1>5. 0 \in Good
  <2>1. 0 >= m => m = 0
    OBVIOUS
  <2> QED BY <1>4, <2>1
<1>6. ASSUME NEW n \in 1..Len(text), n - 1 \in Good PROVE n \in Good
  <2>1. CASE n = m
    BY <1>4, <2>1
  <2>2. CASE n - 1 >= m
    <3>1. text[Len(text) + 1 - n] \in S /\ n - 1 \in 0..Len(text)
      BY <1>1, ElementOfSeq
    <3>2. Continues(f[m], f[n - 1])
      BY <1>6, <2>2
    <3>3. Continues(f[m], f[n])
      BY <1>2, <1>3, <3>1, <3>2, ContinuesOn
    <3> QED BY <3>3
  <2>3. CASE n < m
    BY <2>3
  <2> QED BY <2>1, <2>2, <2>3
<1>7. Len(text) \in Good
  <2> HIDE DEF Good
  <2>1. \A n \in 0..Len(text) : n \in Good
    BY <1>1, <1>5, <1>6, Upward
  <2> QED BY <1>1, <2>1
<1>8. Len(text) >= m
  BY <1>1
<1> QED BY <1>7, <1>8 DEF f, LabelsFromEnd

\* A token that has been read shows in what continues the labels.
LEMMA ReadOn ==
  ASSUME NEW S, NEW p \in Seq(Seq(S)), p # <<>>, NEW c \in S,
         NEW whole \in Seq(Seq(S)), Continues(p, whole), Continues(ReadNext(p, c), whole)
  PROVE  /\ Len(p) \in Nat \ {0} /\ Len(whole) \in Nat /\ Len(p) <= Len(whole)
         /\ Len(p[Len(p)]) \in Nat /\ Len(whole[Len(p)]) \in Nat
         /\ c = Dot => Len(p) < Len(whole) /\ whole[Len(p)] = p[Len(p)]
                       /\ \A i \in 1..Len(p) : whole[i] = p[i]
         /\ c # Dot => Len(p[Len(p)]) < Len(whole[Len(p)])
                       /\ whole[Len(p)][Len(p[Len(p)]) + 1] = c
<1> DEFINE r == ReadNext(p, c)
           l == Len(p)
<1>6. /\ l \in Nat \ {0} /\ p[l] \in Seq(S) /\ Len(p[l]) \in Nat
      /\ \A i \in 1..(l - 1) : r[i] = p[i]
      /\ c = Dot => Len(r) = l + 1 /\ r[l] = p[l]
      /\ c # Dot => Len(r) = l /\ r[l] = Append(p[l], c)
  BY OneMore
<1>9. /\ Len(r) <= Len(whole)
      /\ \A i \in 1..(Len(r) - 1) : whole[i] = r[i]
      /\ Len(r[Len(r)]) <= Len(whole[Len(r)])
      /\ \A j \in 1..Len(r[Len(r)]) : whole[Len(r)][j] = r[Len(r)][j]
  BY DEF Continues
<1> HIDE DEF r
<1>7. /\ Len(Append(p[l], c)) = Len(p[l]) + 1
      /\ Append(p[l], c)[Len(p[l]) + 1] = c
  BY <1>6, AppendProperties
<1>8. Len(whole) \in Nat /\ l <= Len(whole) /\ Len(whole[l]) \in Nat
  <2>1. Len(whole) \in Nat /\ l <= Len(whole)
    BY LenProperties DEF Continues
  <2>2. l \in 1..Len(whole)
    BY <1>6, <2>1
  <2>3. whole[l] \in Seq(S)
    BY <2>2, ElementOfSeq
  <2> QED BY <2>1, <2>3, LenProperties
<1> HIDE DEF l
<1>10. ASSUME c = Dot
       PROVE  l < Len(whole) /\ whole[l] = p[l] /\ \A i \in 1..l : whole[i] = p[i]
  <2>1. Len(r) = l + 1 /\ r[l] = p[l]
    BY <1>6, <1>10
  <2>2. \A i \in 1..l : whole[i] = r[i]
    BY <1>6, <1>9, <2>1
  <2>3. \A i \in 1..l : r[i] = p[i]
    BY <1>6, <2>1
  <2> QED BY <1>6, <1>8, <1>9, <2>1, <2>2, <2>3
<1>11. ASSUME c # Dot
       PROVE  Len(p[l]) < Len(whole[l]) /\ whole[l][Len(p[l]) + 1] = c
  <2>1. Len(r) = l /\ r[l] = Append(p[l], c)
    BY <1>6, <1>11
  <2>2. Len(r[l]) = Len(p[l]) + 1 /\ r[l][Len(p[l]) + 1] = c
    BY <1>7, <2>1
  <2>3. Len(p[l]) + 1 \in 1..Len(r[l])
    BY <1>6, <2>2
  <2>4. Len(r[l]) <= Len(whole[l]) /\ \A j \in 1..Len(r[l]) : whole[l][j] = r[l][j]
    BY <1>9, <2>1
  <2>5. whole[l][Len(p[l]) + 1] = r[l][Len(p[l]) + 1]
    BY <2>3, <2>4
  <2>6. Len(p[l]) < Len(whole[l])
    BY <1>6, <1>8, <2>2, <2>4
  <2> QED BY <2>2, <2>5, <2>6
<1> QED BY <1>6, <1>8, <1>10, <1>11 DEF l

\* What of the text is still to be read shows in the labels that are read in the
\* end: there is a further label, or the last one goes on, with the next token.
LEMMA MarkAfter ==
  ASSUME NEW S, NEW text \in Seq(S), NEW m \in 0..(Len(text) - 1)
  PROVE  LET p     == LabelsRead(text)[m]
             whole == LabelsFromEnd(text)
             c     == text[Len(text) - m]
         IN /\ LabelsRead(text)[m + 1] = ReadNext(p, c)
            /\ p \in Seq(Seq(S)) /\ p # <<>> /\ c \in S /\ whole \in Seq(Seq(S))
            /\ Continues(p, whole) /\ Continues(ReadNext(p, c), whole)
<1>1. Len(text) \in Nat /\ m \in 0..Len(text) /\ m + 1 \in 1..Len(text) /\ m + 1 \in 0..Len(text)
      /\ (m + 1) - 1 = m /\ Len(text) + 1 - (m + 1) = Len(text) - m /\ Len(text) - m \in 1..Len(text)
  BY LenProperties
<1>2. text[Len(text) - m] \in S
  BY <1>1, ElementOfSeq
<1>3. LabelsRead(text)[m + 1] = ReadNext(LabelsRead(text)[m], text[Len(text) - m])
  <2>1. LabelsRead(text)[m + 1] = ReadNext(LabelsRead(text)[(m + 1) - 1], text[Len(text) + 1 - (m + 1)])
    BY <1>1, LabelsDefined
  <2> QED BY <1>1, <2>1
<1>4. /\ LabelsRead(text)[m] \in Seq(Seq(S)) /\ LabelsRead(text)[m] # <<>>
      /\ LabelsFromEnd(text) \in Seq(Seq(S))
  BY <1>1, LabelsTyped
<1>5. /\ Continues(LabelsRead(text)[m + 1], LabelsFromEnd(text))
      /\ Continues(LabelsRead(text)[m], LabelsFromEnd(text))
  BY <1>1, Onward
<1> QED BY <1>2, <1>3, <1>4, <1>5

\* The ends of two texts are read alike.
LEMMA EndsRead ==
  ASSUME NEW S, NEW d \in Seq(S), NEW h \in Seq(S), NEW m \in 0..Len(d), m <= Len(h),
         \A i \in 1..m : d[Len(d) + 1 - i] = h[Len(h) + 1 - i]
  PROVE  LabelsRead(d)[m] = LabelsRead(h)[m]
<1> DEFINE f == LabelsRead(d)
           g == LabelsRead(h)
           Good == {n \in Nat : f[n] = g[n]}
<1>1. Len(d) \in Nat /\ Len(h) \in Nat
  BY LenProperties
<1>2. /\ f[0] = << <<>> >> /\ \A n \in 1..Len(d) : f[n] = ReadNext(f[n - 1], d[Len(d) + 1 - n])
      /\ g[0] = << <<>> >> /\ \A n \in 1..Len(h) : g[n] = ReadNext(g[n - 1], h[Len(h) + 1 - n])
  BY LabelsDefined
<1> HIDE DEF f, g
<1>3. 0 \in Good
  BY <1>2
<1>4. ASSUME NEW n \in 1..m, n - 1 \in Good PROVE n \in Good
  <2>1. n \in 1..Len(d) /\ n \in 1..Len(h)
    BY <1>1
  <2>2. f[n - 1] = g[n - 1]
    BY <1>4
  <2>3. f[n] = g[n]
    BY <1>2, <2>1, <2>2
  <2> QED BY <2>3
<1>5. m \in Good
  <2> HIDE DEF Good
  <2>1. m \in Nat /\ m \in 0..m
    BY <1>1
  <2>2. \A n \in 0..m : n \in Good
    BY <1>3, <1>4, <2>1, Upward
  <2> QED BY <2>1, <2>2
<1> QED BY <1>5 DEF f, g

\* One sequence begins with another.
Begins(p, q) == Len(p) <= Len(q) /\ \A i \in 1..Len(p) : q[i] = p[i]

\* A domain is the host or a parent of it.
Parent(d, h) ==
  \/ d = h
  \/ /\ Len(h) - Len(d) > 0
     /\ \A i \in 1..Len(d) : h[Len(h) - Len(d) + i] = d[i]
     /\ h[Len(h) - Len(d)] = Dot

\* The labels of a parent come first ...
LEMMA ParentBegins ==
  ASSUME NEW S, NEW d \in Seq(S), NEW h \in Seq(S), Parent(d, h)
  PROVE  Begins(LabelsFromEnd(d), LabelsFromEnd(h))
<1>1. Len(d) \in Nat /\ Len(h) \in Nat
  BY LenProperties
<1>2. CASE d = h
  <2>1. LabelsFromEnd(d) \in Seq(Seq(S))
    BY LabelsTyped
  <2>2. Len(LabelsFromEnd(d)) \in Nat
    BY <2>1, LenProperties
  <2> QED BY <1>2, <2>2 DEF Begins
<1>3. CASE d # h
  <2>1. /\ Len(h) - Len(d) > 0
        /\ \A i \in 1..Len(d) : h[Len(h) - Len(d) + i] = d[i]
        /\ h[Len(h) - Len(d)] = Dot
    BY <1>3 DEF Parent
  <2> DEFINE m == Len(d)
  <2>2. ASSUME NEW i \in 1..m PROVE d[Len(d) + 1 - i] = h[Len(h) + 1 - i]
    <3>1. Len(d) + 1 - i \in 1..Len(d) /\ Len(h) - Len(d) + (Len(d) + 1 - i) = Len(h) + 1 - i
      BY <1>1
    <3> QED BY <2>1, <3>1
  <2>3. m \in 0..Len(d) /\ m <= Len(h) /\ m \in 0..(Len(h) - 1)
    BY <1>1, <2>1
  <2>4. LabelsFromEnd(d) = LabelsRead(h)[m]
    <3>1. LabelsRead(d)[m] = LabelsRead(h)[m]
      BY <2>2, <2>3, EndsRead
    <3> QED BY <3>1 DEF LabelsFromEnd
  <2> DEFINE p == LabelsRead(h)[m]
             whole == LabelsFromEnd(h)
             c == h[Len(h) - m]
  <2> HIDE DEF m
  <2>5. /\ p \in Seq(Seq(S)) /\ p # <<>> /\ c \in S /\ whole \in Seq(Seq(S))
        /\ Continues(p, whole) /\ Continues(ReadNext(p, c), whole)
    BY <2>3, MarkAfter
  <2>7. c = Dot
    BY <2>1 DEF m
  <2> HIDE DEF p, whole, c
  <2>6. /\ Len(p) \in Nat /\ Len(whole) \in Nat
        /\ Len(p) < Len(whole) /\ \A i \in 1..Len(p) : whole[i] = p[i]
    BY <2>5, <2>7, ReadOn
  <2>8. Begins(p, whole)
    BY <2>6 DEF Begins
  <2> QED BY <2>4, <2>8 DEF p, whole
<1> QED BY <1>2, <1>3

\* ... and what the labels of a host begin with is a parent: read together, the
\* two texts go on alike as long as there is something left of the first.
LEMMA BeginsParent ==
  ASSUME NEW S, NEW d \in Seq(S), NEW h \in Seq(S), Begins(LabelsFromEnd(d), LabelsFromEnd(h))
  PROVE  Parent(d, h)
<1> DEFINE f == LabelsRead(d)
           g == LabelsRead(h)
           D == LabelsFromEnd(d)
           H == LabelsFromEnd(h)
           Shows(p, c, whole) ==
             /\ Len(p) \in Nat \ {0} /\ Len(p) <= Len(whole)
             /\ Len(p[Len(p)]) \in Nat /\ Len(whole[Len(p)]) \in Nat
             /\ c = Dot => Len(p) < Len(whole) /\ whole[Len(p)] = p[Len(p)]
             /\ c # Dot => Len(p[Len(p)]) < Len(whole[Len(p)])
                           /\ whole[Len(p)][Len(p[Len(p)]) + 1] = c
           Good == {n \in Nat : /\ n <= Len(h) /\ f[n] = g[n]
                                /\ \A i \in 1..n : d[Len(d) + 1 - i] = h[Len(h) + 1 - i]}
<1>1. Len(d) \in Nat /\ Len(h) \in Nat
  BY LenProperties
<1>2. f[0] = g[0] /\ f[Len(d)] = D /\ g[Len(h)] = H
  BY LabelsDefined DEF LabelsFromEnd
<1>3. Len(D) <= Len(H) /\ \A i \in 1..Len(D) : H[i] = D[i]
  BY DEF Begins
<1>4. \A n \in 0..Len(d) : f[n] \in Seq(Seq(S)) /\ f[n] # <<>>
  BY LabelsTyped
<1>5. D \in Seq(Seq(S)) /\ D # <<>> /\ H \in Seq(Seq(S)) /\ Len(D) \in Nat \ {0} /\ Len(H) \in Nat
  BY LabelsTyped, LenProperties, EmptySeq
<1>6. ASSUME NEW m \in 0..(Len(d) - 1)
      PROVE  Shows(f[m], d[Len(d) - m], D) /\ f[m + 1] = ReadNext(f[m], d[Len(d) - m])
  <2> DEFINE p == f[m]
             c == d[Len(d) - m]
  <2>1. /\ f[m + 1] = ReadNext(p, c)
        /\ p \in Seq(Seq(S)) /\ p # <<>> /\ c \in S /\ D \in Seq(Seq(S))
        /\ Continues(p, D) /\ Continues(ReadNext(p, c), D)
    BY MarkAfter
  <2> HIDE DEF p, c, D
  <2>2. Shows(p, c, D)
    BY <2>1, ReadOn DEF Shows
  <2> QED BY <2>1, <2>2 DEF p, c
<1>7. ASSUME NEW m \in 0..(Len(h) - 1)
      PROVE  Shows(g[m], h[Len(h) - m], H) /\ g[m + 1] = ReadNext(g[m], h[Len(h) - m])
  <2> DEFINE p == g[m]
             c == h[Len(h) - m]
  <2>1. /\ g[m + 1] = ReadNext(p, c)
        /\ p \in Seq(Seq(S)) /\ p # <<>> /\ c \in S /\ H \in Seq(Seq(S))
        /\ Continues(p, H) /\ Continues(ReadNext(p, c), H)
    BY MarkAfter
  <2> HIDE DEF p, c, H
  <2>2. Shows(p, c, H)
    BY <2>1, ReadOn DEF Shows
  <2> QED BY <2>1, <2>2 DEF p, c
<1> HIDE DEF f, g, D, H
<1>8. 0 \in Good
  BY <1>1, <1>2
<1>9. ASSUME NEW n \in 1..Len(d), n - 1 \in Good PROVE n \in Good
  <2> DEFINE m == n - 1
             p == f[m]
             l == Len(p)
             b == d[Len(d) - m]
             c == h[Len(h) - m]
  <2>1. m \in 0..(Len(d) - 1) /\ m + 1 = n /\ Len(d) - m = Len(d) + 1 - n /\ Len(h) - m = Len(h) + 1 - n
    BY <1>1
  <2>2. m <= Len(h) /\ g[m] = p /\ \A i \in 1..m : d[Len(d) + 1 - i] = h[Len(h) + 1 - i]
    BY <1>9
  <2> HIDE DEF p, b, m, c
  <2>3. /\ l \in Nat \ {0} /\ l <= Len(D) /\ Len(p[l]) \in Nat
        /\ Len(D[l]) \in Nat /\ f[m + 1] = ReadNext(p, b)
        /\ b = Dot => l < Len(D) /\ D[l] = p[l]
        /\ b # Dot => Len(p[l]) < Len(D[l]) /\ D[l][Len(p[l]) + 1] = b
    <3> HIDE DEF Shows
    <3>1. Shows(p, b, D) /\ f[m + 1] = ReadNext(p, b)
      BY <2>1, <1>6 DEF p, b
    <3> QED BY <3>1 DEF Shows
  <2> HIDE DEF l
  <2>4. H[l] = D[l] /\ l <= Len(H)
    BY <1>3, <1>5, <2>3
  <2>5. m # Len(h)
    <3>1. SUFFICES ASSUME m = Len(h) PROVE FALSE
      OBVIOUS
    <3>2. H = p
      BY <1>2, <2>2, <3>1
    <3>3. Len(H) = l
      BY <3>2 DEF l
    <3> QED BY <1>3, <1>5, <2>3, <2>4, <3>2, <3>3
  <2>6. m \in 0..(Len(h) - 1)
    BY <1>1, <2>1, <2>2, <2>5
  <2>7. /\ g[m + 1] = ReadNext(p, c)
        /\ c = Dot => Len(p) < Len(H) /\ H[Len(p)] = p[Len(p)]
        /\ c # Dot => Len(p[Len(p)]) < Len(H[Len(p)])
                      /\ H[Len(p)][Len(p[Len(p)]) + 1] = c
    <3> HIDE DEF Shows
    <3>1. Shows(p, c, H) /\ g[m + 1] = ReadNext(p, c)
      BY <1>7, <2>2, <2>6 DEF c
    <3> QED BY <3>1 DEF Shows
  <2>8. /\ c = Dot => H[l] = p[l]
        /\ c # Dot => Len(p[l]) < Len(H[l]) /\ H[l][Len(p[l]) + 1] = c
    BY <2>7 DEF l
  <2>9. b = c
    <3>1. CASE b = Dot
      BY <2>3, <2>4, <2>8, <3>1
    <3>2. CASE b # Dot
      BY <2>3, <2>4, <2>8, <3>2
    <3> QED BY <3>1, <3>2
  <2>10. f[n] = g[n]
    BY <2>1, <2>3, <2>7, <2>9
  <2>11. n <= Len(h) /\ n \in Nat
    BY <1>1, <2>1, <2>6
  <2>12. ASSUME NEW i \in 1..n PROVE d[Len(d) + 1 - i] = h[Len(h) + 1 - i]
    <3>1. CASE i \in 1..m
      BY <2>2, <3>1
    <3>2. CASE i = n
      BY <2>1, <2>9, <3>2 DEF b, c
    <3>3. i \in 1..m \/ i = n
      BY <2>1
    <3> QED BY <3>1, <3>2, <3>3
  <2> QED BY <2>10, <2>11, <2>12
<1>10. Len(d) \in Good
  <2> HIDE DEF Good
  <2>1. \A n \in 0..Len(d) : n \in Good
    BY <1>1, <1>8, <1>9, Upward
  <2> QED BY <1>1, <2>1
<1>11. /\ Len(d) <= Len(h) /\ g[Len(d)] = D
       /\ \A i \in 1..Len(d) : d[Len(d) + 1 - i] = h[Len(h) + 1 - i]
  BY <1>2, <1>10
<1>12. ASSUME NEW i \in 1..Len(d) PROVE h[Len(h) - Len(d) + i] = d[i]
  <2>1. Len(d) + 1 - i \in 1..Len(d) /\ Len(d) + 1 - (Len(d) + 1 - i) = i
        /\ Len(h) + 1 - (Len(d) + 1 - i) = Len(h) - Len(d) + i
    BY <1>1
  <2>2. d[Len(d) + 1 - (Len(d) + 1 - i)] = h[Len(h) + 1 - (Len(d) + 1 - i)]
    BY <1>11, <2>1
  <2> QED BY <2>1, <2>2
<1>13. CASE Len(d) = Len(h)
  <2>1. \A i \in 1..Len(d) : h[i] = d[i]
    <3>1. \A i \in 1..Len(d) : Len(h) - Len(d) + i = i
      BY <1>1, <1>13
    <3> QED BY <1>12, <3>1
  <2>2. d = h
    BY <1>13, <2>1, SeqEqual
  <2> QED BY <2>2 DEF Parent
<1>14. CASE Len(d) # Len(h)
  <2> DEFINE m == Len(d)
             c == h[Len(h) - m]
  <2>1. m \in 0..(Len(h) - 1)
    BY <1>1, <1>11, <1>14
  <2> HIDE DEF m, c
  <2>2. c # Dot => Len(D[Len(D)]) < Len(H[Len(D)])
    <3> HIDE DEF Shows
    <3>1. Shows(D, c, H)
      BY <1>7, <1>11, <2>1 DEF c, m
    <3> QED BY <3>1 DEF Shows
  <2>3. H[Len(D)] = D[Len(D)] /\ Len(D[Len(D)]) \in Nat
    BY <1>3, <1>5, ElementOfSeq, LenProperties
  <2>4. c = Dot
    BY <2>2, <2>3
  <2>5. Len(h) - Len(d) > 0
    BY <1>1, <1>11, <1>14
  <2> QED BY <1>12, <2>4, <2>5 DEF Parent, c, m
<1> QED BY <1>13, <1>14

\* A text is what its labels say.
LEMMA LabelsTell ==
  ASSUME NEW S, NEW d \in Seq(S), NEW h \in Seq(S), LabelsFromEnd(d) = LabelsFromEnd(h)
  PROVE  d = h
<1>1. Len(LabelsFromEnd(d)) \in Nat
  BY LabelsTyped, LenProperties
<1>2. Begins(LabelsFromEnd(d), LabelsFromEnd(h)) /\ Begins(LabelsFromEnd(h), LabelsFromEnd(d))
  BY <1>1 DEF Begins
<1>3. Parent(d, h) /\ Parent(h, d)
  BY <1>2, BeginsParent
<1>4. Len(d) \in Nat /\ Len(h) \in Nat
  BY LenProperties
<1> QED BY <1>3, <1>4 DEF Parent

\* The empty labels are dropped one after the other.
LEMMA KeptDefined ==
  ASSUME NEW labels, Len(labels) \in Nat
  PROVE  /\ Kept(labels)[0] = <<>>
         /\ \A n \in 1..Len(labels) :
              Kept(labels)[n] = IF labels[n] = <<>> THEN Kept(labels)[n - 1]
                                ELSE Append(Kept(labels)[n - 1], labels[n])
<1> DEFINE Is(g, m) == g = [n \in 0..m |-> IF n = 0 THEN <<>>
                                           ELSE IF labels[n] = <<>> THEN g[n - 1]
                                                ELSE Append(g[n - 1], labels[n])]
           Good == {m \in Nat : \E g : Is(g, m)}
<1>1. 0 \in Good
  <2>1. Is([n \in 0..0 |-> <<>>], 0)
    OBVIOUS
  <2> QED BY <2>1
<1>2. ASSUME NEW m \in 1..Len(labels), m - 1 \in Good PROVE m \in Good
  <2>1. m \in Nat /\ m - 1 \in Nat
    OBVIOUS
  <2>2. PICK g : Is(g, m - 1)
    BY <1>2
  <2>3. \A n \in 0..(m - 1) : g[n] = IF n = 0 THEN <<>>
                                     ELSE IF labels[n] = <<>> THEN g[n - 1]
                                          ELSE Append(g[n - 1], labels[n])
    BY <2>2
  <2> DEFINE h == [n \in 0..m |-> IF n < m THEN g[n]
                                  ELSE IF labels[n] = <<>> THEN g[n - 1]
                                       ELSE Append(g[n - 1], labels[n])]
  <2>4. ASSUME NEW n \in 0..m
        PROVE  h[n] = IF n = 0 THEN <<>>
                      ELSE IF labels[n] = <<>> THEN h[n - 1] ELSE Append(h[n - 1], labels[n])
    <3>1. CASE n < m
      BY <2>1, <2>3, <3>1
    <3>2. CASE n = m
      BY <2>1, <3>2
    <3> HIDE DEF h
    <3> QED BY <2>1, <3>1, <3>2
  <2>5. Is(h, m)
    BY <2>4
  <2> QED BY <2>1, <2>5
<1>3. Len(labels) \in Good
  <2> HIDE DEF Good
  <2>1. Len(labels) \in 0..Len(labels)
    OBVIOUS
  <2> QED BY <1>1, <1>2, <2>1, Upward
<1> DEFINE remain == CHOOSE g : Is(g, Len(labels))
<1>4. Is(remain, Len(labels))
  BY <1>3
<1>5. Kept(labels) = remain
  BY DEF Kept
<1>6. \A n \in 0..Len(labels) :
        remain[n] = IF n = 0 THEN <<>>
                  ELSE IF labels[n] = <<>> THEN remain[n - 1] ELSE Append(remain[n - 1], labels[n])
  BY <1>4
<1> HIDE DEF remain
<1> QED BY <1>5, <1>6

\* Up to the first empty label nothing is dropped.
LEMMA FirstAreKept ==
  ASSUME NEW S, NEW labels \in Seq(S), NEW m \in 0..Len(labels),
         \A i \in 1..m : labels[i] # <<>>
  PROVE  /\ WithoutEmpty(labels) \in Seq(S) /\ m <= Len(WithoutEmpty(labels))
         /\ \A i \in 1..m : WithoutEmpty(labels)[i] = labels[i]
         /\ m = Len(labels) => WithoutEmpty(labels) = labels
<1> DEFINE f == Kept(labels)
           Good == {n \in Nat : /\ f[n] \in Seq(S)
                                /\ n <= m => Len(f[n]) = n
                                /\ n >= m => Len(f[n]) >= m
                                /\ \A i \in 1..m : i <= n => f[n][i] = labels[i]}
<1>1. Len(labels) \in Nat
  BY LenProperties
<1>2. /\ f[0] = <<>>
      /\ \A n \in 1..Len(labels) : f[n] = IF labels[n] = <<>> THEN f[n - 1]
                                          ELSE Append(f[n - 1], labels[n])
  BY <1>1, KeptDefined
<1> HIDE DEF f
<1>3. 0 \in Good
  <2>1. f[0] \in Seq(S) /\ Len(f[0]) = 0
    BY <1>2, EmptySeq
  <2> QED BY <1>1, <2>1
<1>4. ASSUME NEW n \in 1..Len(labels), n - 1 \in Good PROVE n \in Good
  <2> DEFINE g == f[n - 1]
  <2>1. /\ n \in Nat /\ n - 1 \in Nat /\ g \in Seq(S)
        /\ n - 1 <= m => Len(g) = n - 1
        /\ n - 1 >= m => Len(g) >= m
        /\ \A i \in 1..m : i <= n - 1 => g[i] = labels[i]
    BY <1>4
  <2>2. Len(g) \in Nat /\ labels[n] \in S
    BY <2>1, LenProperties, ElementOfSeq
  <2>3. /\ Append(g, labels[n]) \in Seq(S) /\ Len(Append(g, labels[n])) = Len(g) + 1
        /\ \A i \in 1..Len(g) : Append(g, labels[n])[i] = g[i]
        /\ Append(g, labels[n])[Len(g) + 1] = labels[n]
    BY <2>1, <2>2, AppendProperties
  <2>4. f[n] = IF labels[n] = <<>> THEN g ELSE Append(g, labels[n])
    BY <1>2
  <2> HIDE DEF g
  <2>5. CASE n <= m
    <3>1. n \in 1..m /\ n - 1 <= m
      BY <2>1, <2>5
    <3>2. f[n] = Append(g, labels[n]) /\ Len(g) = n - 1
      BY <2>1, <2>4, <3>1
    <3>3. Len(f[n]) = n /\ f[n][n] = labels[n] /\ f[n] \in Seq(S)
      BY <2>1, <2>3, <3>2
    <3>4. ASSUME NEW i \in 1..m, i <= n PROVE f[n][i] = labels[i]
      <4>1. CASE i = n
        BY <3>3, <4>1
      <4>2. CASE i # n
        <5>1. i <= n - 1 /\ i \in 1..Len(g)
          BY <2>1, <3>2, <3>4, <4>2
        <5> QED BY <2>1, <2>3, <3>2, <5>1
      <4> QED BY <4>1, <4>2
    <3> QED BY <2>1, <2>5, <3>3, <3>4
  <2>6. CASE ~(n <= m)
    <3>1. n - 1 >= m /\ n >= m
      BY <1>1, <2>1, <2>6
    <3>2. f[n] \in Seq(S) /\ Len(f[n]) >= m
      BY <1>1, <2>1, <2>2, <2>3, <2>4, <3>1
    <3>3. ASSUME NEW i \in 1..m PROVE f[n][i] = labels[i]
      <4>1. g[i] = labels[i] /\ i \in 1..Len(g)
        BY <1>1, <2>1, <2>2, <3>1
      <4> QED BY <2>3, <2>4, <4>1
    <3> QED BY <2>1, <2>6, <3>2, <3>3
  <2> QED BY <2>5, <2>6
<1>5. Len(labels) \in Good
  <2> HIDE DEF Good
  <2>1. \A n \in 0..Len(labels) : n \in Good
    BY <1>1, <1>3, <1>4, Upward
  <2> QED BY <1>1, <2>1
<1>6. WithoutEmpty(labels) = f[Len(labels)]
  BY DEF WithoutEmpty, f
<1> DEFINE w == WithoutEmpty(labels)
<1>7. /\ w \in Seq(S) /\ m <= Len(w) /\ \A i \in 1..m : w[i] = labels[i]
      /\ m = Len(labels) => Len(w) = m
  BY <1>1, <1>5, <1>6
<1> HIDE DEF w
<1>8. m = Len(labels) => w = labels
  BY <1>7, SeqEqual
<1> QED BY <1>7, <1>8 DEF w

-----------------------------------------------------------------------------
(* Paths. *)

\* PathTo(p) are the sequences that p begins with.
LEMMA Beginnings ==
  ASSUME NEW S, NEW p \in Seq(S), NEW n \in 0..Len(p)
  PROVE  /\ SubSeq(p, 1, n) \in Seq(S) /\ Len(SubSeq(p, 1, n)) = n
         /\ \A i \in 1..n : SubSeq(p, 1, n)[i] = p[i]
<1>1. \A i \in 1..n : p[i] \in S
  OBVIOUS
<1> QED BY <1>1, SubSeqProperties

LEMMA PathOf ==
  ASSUME NEW S, NEW p \in Seq(S), NEW q
  PROVE  q \in PathTo(p) <=> q \in Seq(S) /\ Len(q) <= Len(p) /\ \A i \in 1..Len(q) : q[i] = p[i]
<1>1. ASSUME q \in PathTo(p)
      PROVE  q \in Seq(S) /\ Len(q) <= Len(p) /\ \A i \in 1..Len(q) : q[i] = p[i]
  <2>1. PICK n \in 0..Len(p) : q = SubSeq(p, 1, n)
    BY <1>1 DEF PathTo
  <2> QED BY <2>1, Beginnings
<1>2. ASSUME q \in Seq(S), Len(q) <= Len(p), \A i \in 1..Len(q) : q[i] = p[i]
      PROVE  q \in PathTo(p)
  <2>1. Len(q) \in 0..Len(p)
    BY <1>2
  <2>2. /\ SubSeq(p, 1, Len(q)) \in Seq(S) /\ Len(SubSeq(p, 1, Len(q))) = Len(q)
        /\ \A i \in 1..Len(q) : SubSeq(p, 1, Len(q))[i] = p[i]
    BY <2>1, Beginnings
  <2>3. SubSeq(p, 1, Len(q)) = q
    BY <1>2, <2>2
  <2> QED BY <2>1, <2>3 DEF PathTo
<1> QED BY <1>1, <1>2

LEMMA PrefixIsOnPath ==
  ASSUME NEW S, NEW p \in Seq(S), NEW q \in Seq(S)
  PROVE  IsPrefix(q, p) <=> q \in PathTo(p)
<1>1. CASE Len(q) <= Len(p)
  <2>1. SubSeq(q, 1, Len(q)) = q
    BY SubSeqFull
  <2>2. /\ SubSeq(p, 1, Len(q)) \in Seq(S) /\ Len(SubSeq(p, 1, Len(q))) = Len(q)
        /\ \A i \in 1..Len(q) : SubSeq(p, 1, Len(q))[i] = p[i]
    BY <1>1, Beginnings
  <2>3. SubSeq(p, 1, Len(q)) = q <=> \A i \in 1..Len(q) : q[i] = p[i]
    BY <2>2
  <2>4. q \in PathTo(p) <=> \A i \in 1..Len(q) : q[i] = p[i]
    BY <1>1, PathOf
  <2>5. IsPrefix(q, p) <=> q = SubSeq(p, 1, Len(q))
    BY <1>1, <2>1 DEF IsPrefix
  <2> QED BY <2>3, <2>4, <2>5
<1>2. CASE ~(Len(q) <= Len(p))
  BY <1>2, PathOf DEF IsPrefix
<1> QED BY <1>1, <1>2

LEMMA PathFacts ==
  ASSUME NEW S, NEW p \in Seq(S)
  PROVE  /\ p \in PathTo(p) /\ <<>> \in PathTo(p)
         /\ PathTo(p) \subseteq Seq(S)
         /\ \A q \in PathTo(p) : PathTo(q) \subseteq PathTo(p)
<1>1. p \in PathTo(p) /\ <<>> \in PathTo(p) /\ PathTo(p) \subseteq Seq(S)
  <2>1. p \in PathTo(p)
    BY PathOf
  <2>2. SubSeq(p, 1, 0) = <<>> /\ 0 \in 0..Len(p)
    BY SubSeqEmpty
  <2>3. <<>> \in PathTo(p)
    BY <2>2 DEF PathTo
  <2>4. PathTo(p) \subseteq Seq(S)
    BY PathOf
  <2> QED BY <2>1, <2>3, <2>4
<1>2. ASSUME NEW q \in PathTo(p), NEW r \in PathTo(q)
      PROVE  r \in PathTo(p)
  <2>1. q \in Seq(S) /\ Len(q) <= Len(p) /\ \A i \in 1..Len(q) : q[i] = p[i]
    BY PathOf
  <2>2. r \in Seq(S) /\ Len(r) <= Len(q) /\ \A i \in 1..Len(r) : r[i] = q[i]
    BY <2>1, PathOf
  <2>3. Len(r) <= Len(p) /\ \A i \in 1..Len(r) : r[i] = p[i]
    BY <2>1, <2>2
  <2> QED BY <2>2, <2>3, PathOf
<1> QED BY <1>1, <1>2

Labelled == Seq(Token)

LEMMA KeyPaths ==
  ASSUME NEW k \in CookieKey
  PROVE  /\ Path(k) \in Seq(Labelled) /\ Path(k) # <<>>
         /\ Path(k) \in PathTo(Path(k)) /\ <<>> \in PathTo(Path(k))
         /\ PathTo(Path(k)) \subseteq Seq(Labelled)
<1>1. Path(k) \in Seq(Labelled) /\ Path(k) # <<>>
  BY TextTyping, LabelsTyped DEF Path, Labels, reversed_domain_labels, Labelled
<1> HIDE DEF Path
<1> QED BY <1>1, PathFacts

-----------------------------------------------------------------------------
(* The trie. *)

\* The native trie: each operation on the trie of a map gives the trie of the map
\* that is left, with nothing left unpruned.
LEMMA TrieOfEmpty == EmptyTrie = TrieOf(<<>>)
<1>1. DOMAIN <<>> = {}
  OBVIOUS
<1>2. With(<<>>, <<>>, {}) = [q \in Nodes(<<>>) |-> {k \in DOMAIN <<>> : Path(k) = q}]
  BY <1>1 DEF With, Nodes
<1>3. Cardinality(DOMAIN <<>>) = 0 /\ Cardinality({Path(k) : k \in DOMAIN <<>>}) = 0
  <2>1. {Path(k) : k \in DOMAIN <<>>} = {}
    BY <1>1
  <2> QED BY <1>1, <2>1, FS_EmptySet
<1> QED BY <1>2, <1>3 DEF EmptyTrie, TrieOf

\* The image of the keys, and how it grows and shrinks.
LEMMA DomainsFinite ==
  ASSUME NEW s \in Map
  PROVE  IsFiniteSet({Path(k) : k \in DOMAIN s})
<1> DEFINE image == {Path(k) : k \in DOMAIN s}
           f == [k \in DOMAIN s |-> Path(k)]
<1>1. f \in Surjection(DOMAIN s, image)
  BY DEF Surjection
<1> HIDE DEF f, image
<1>2. IsFiniteSet(image)
  BY <1>1, MapKeys, FS_Surjection
<1> QED BY <1>2 DEF image

LEMMA InsertKeepsTrie ==
  ASSUME NEW s \in Map, NEW c \in Entry
  PROVE  TrieInsert(TrieOf(s), c) = TrieOf(Put(s, c))
<1> DEFINE after == Put(s, c)
           t == TrieOf(s)
           key == c.key
           p == Path(key)
           nodes == [q \in DOMAIN t.keys \cup PathTo(p) |->
                       IF q \in DOMAIN t.keys THEN t.keys[q] ELSE {}]
<1>1. key \in CookieKey /\ DOMAIN s \subseteq CookieKey /\ DOMAIN after = DOMAIN s \cup {key}
  BY PutMap, MapKeys DEF Entry
<1>2. /\ DOMAIN t.keys = Nodes(s)
      /\ \A q \in Nodes(s) : t.keys[q] = {k \in DOMAIN s : Path(k) = q}
      /\ t.domain_count = Cardinality({Path(k) : k \in DOMAIN s})
      /\ t.key_count = Cardinality(DOMAIN s)
      /\ t = [keys |-> t.keys, domain_count |-> t.domain_count, key_count |-> t.key_count]
  BY DEF TrieOf
<1>3. Nodes(after) = Nodes(s) \cup PathTo(p)
  BY <1>1, KeyPaths DEF Nodes
<1>4. \A k \in DOMAIN s : Path(k) \in Nodes(s)
  BY <1>1, KeyPaths DEF Nodes
<1>5. p \in PathTo(p)
  BY <1>1, KeyPaths
<1> HIDE DEF after, t
<1>6. /\ DOMAIN nodes = Nodes(after)
      /\ \A q \in Nodes(after) : nodes[q] = {k \in DOMAIN s : Path(k) = q}
  BY <1>2, <1>3, <1>4
<1>7. TrieOf(after) =
        [keys         |-> [q \in Nodes(after) |-> {k \in DOMAIN after : Path(k) = q}],
         domain_count |-> Cardinality({Path(k) : k \in DOMAIN after}),
         key_count    |-> Cardinality(DOMAIN after)]
  BY DEF TrieOf
<1>8. TrieInsert(t, c) =
        IF key \in nodes[p] THEN [t EXCEPT !.keys = nodes]
        ELSE [keys         |-> [nodes EXCEPT ![p] = @ \cup {key}],
              domain_count |-> t.domain_count + (IF nodes[p] = {} THEN 1 ELSE 0),
              key_count    |-> t.key_count + 1]
  BY DEF TrieInsert, Path
<1>9. nodes = [q \in DOMAIN nodes |-> nodes[q]]
  OBVIOUS
<1> HIDE DEF p, nodes
<1>10. key \in nodes[p] <=> key \in DOMAIN s
  BY <1>3, <1>5, <1>6 DEF p
<1>11. CASE key \in DOMAIN s
  <2>1. DOMAIN after = DOMAIN s
    BY <1>1, <1>11
  <2>2. nodes = [q \in Nodes(after) |-> {k \in DOMAIN after : Path(k) = q}]
    BY <1>6, <1>9, <2>1
  <2>3. TrieInsert(t, c) = [keys |-> nodes, domain_count |-> t.domain_count,
                            key_count |-> t.key_count]
    BY <1>2, <1>8, <1>10, <1>11
  <2> QED BY <1>2, <1>7, <2>1, <2>2, <2>3 DEF after, t
<1>12. CASE key \notin DOMAIN s
  <2>1. [nodes EXCEPT ![p] = @ \cup {key}] =
          [q \in Nodes(after) |-> {k \in DOMAIN after : Path(k) = q}]
    <3>1. [nodes EXCEPT ![p] = @ \cup {key}] =
            [q \in Nodes(after) |-> IF q = p THEN nodes[p] \cup {key} ELSE nodes[q]]
      BY <1>3, <1>5, <1>6, <1>9
    <3>2. ASSUME NEW q \in Nodes(after)
          PROVE  (IF q = p THEN nodes[p] \cup {key} ELSE nodes[q]) =
                   {k \in DOMAIN after : Path(k) = q}
      BY <1>1, <1>6 DEF p
    <3> QED BY <3>1, <3>2
  <2>2. Cardinality(DOMAIN after) = t.key_count + 1
    <3>1. Cardinality(DOMAIN s \cup {key}) = Cardinality(DOMAIN s) + 1
      <4> HIDE DEF key
      <4> QED BY <1>12, MapKeys, FS_AddElement
    <3> QED BY <1>1, <1>2, <3>1
  <2>3. nodes[p] = {} <=> Path(key) \notin {Path(k) : k \in DOMAIN s}
    BY <1>1, <1>3, <1>5, <1>6, KeyPaths DEF p
  <2>4. {Path(k) : k \in DOMAIN after} = {Path(k) : k \in DOMAIN s} \cup {Path(key)}
    BY <1>1
  <2>5. Cardinality({Path(k) : k \in DOMAIN after}) =
          t.domain_count + (IF nodes[p] = {} THEN 1 ELSE 0)
    <3> DEFINE ds == {Path(k) : k \in DOMAIN s}
    <3>1. IsFiniteSet(ds) /\ Cardinality(ds) \in Nat
      BY DomainsFinite, FS_CardinalityType
    <3> HIDE DEF ds
    <3>2. Cardinality(ds \cup {Path(key)}) =
            IF Path(key) \in ds THEN Cardinality(ds) ELSE Cardinality(ds) + 1
      BY <3>1, FS_AddElement
    <3>3. /\ {Path(k) : k \in DOMAIN after} = ds \cup {Path(key)}
          /\ t.domain_count = Cardinality(ds)
          /\ nodes[p] = {} <=> Path(key) \notin ds
      BY <1>2, <2>3, <2>4 DEF ds
    <3>4. CASE nodes[p] = {}
      BY <3>2, <3>3, <3>4
    <3>5. CASE nodes[p] # {}
      <4>1. Cardinality({Path(k) : k \in DOMAIN after}) = Cardinality(ds)
        BY <3>2, <3>3, <3>5
      <4>2. t.domain_count + (IF nodes[p] = {} THEN 1 ELSE 0) = Cardinality(ds)
        BY <3>1, <3>3, <3>5
      <4> QED BY <4>1, <4>2
    <3> QED BY <3>4, <3>5
  <2> QED BY <1>7, <1>8, <1>10, <1>12, <2>1, <2>2, <2>5 DEF after, t
<1> QED BY <1>11, <1>12

\* prune leaves the ways to the other keys and erases what only led to this one.
LEMMA PruneIsExact ==
  ASSUME NEW s \in Map, NEW key \in DOMAIN s, NEW keys,
         DOMAIN keys = Nodes(s),
         \A q \in Nodes(s) : keys[q] = {k \in DOMAIN s \ {key} : Path(k) = q}
  PROVE  Prune(keys, Path(key)) =
           [q \in Nodes(Without(s, key)) |-> {k \in DOMAIN s \ {key} : Path(k) = q}]
<1> DEFINE p == Path(key)
           rest == DOMAIN s \ {key}
           left == Nodes(Without(s, key))
           dead == {q \in PathTo(p) \ {<<>>} :
                     \A r \in DOMAIN keys :
                       IsPrefix(q, r) => r \in PathTo(p) /\ keys[r] = {}}
<1>1. key \in CookieKey /\ rest \subseteq CookieKey /\ DOMAIN s = rest \cup {key}
  BY MapKeys
<1>2. left = {<<>>} \cup UNION {PathTo(Path(k)) : k \in rest}
  BY WithoutMap DEF Nodes
<1>3. Nodes(s) = left \cup PathTo(p)
  BY <1>1, <1>2, KeyPaths DEF Nodes
<1>4. p \in Seq(Labelled) /\ PathTo(p) \subseteq Seq(Labelled) /\ Nodes(s) \subseteq Seq(Labelled)
  BY <1>1, KeyPaths DEF Nodes
<1>5. \A k \in rest : Path(k) \in Nodes(s) /\ Path(k) \in left
                      /\ k \in keys[Path(k)] /\ Path(k) \in Seq(Labelled)
  BY <1>1, <1>2, <1>3, KeyPaths
<1> HIDE DEF p, left, rest
<1>6. ASSUME NEW q \in left, q \in dead PROVE FALSE
  <2>1. PICK k \in rest : q \in PathTo(Path(k))
    BY <1>2, <1>6
  <2>2. q \in Seq(Labelled) /\ IsPrefix(q, Path(k))
    BY <1>4, <1>5, <1>6, <2>1, PrefixIsOnPath
  <2> QED BY <1>5, <1>6, <2>2
<1>7. ASSUME NEW q \in Nodes(s), q \notin left PROVE q \in dead
  <2>1. q \in PathTo(p) \ {<<>>} /\ q \in Seq(Labelled)
    BY <1>2, <1>3, <1>4, <1>7
  <2>2. ASSUME NEW r \in Nodes(s), IsPrefix(q, r)
        PROVE  r \in PathTo(p) /\ keys[r] = {}
    <3>1. q \in PathTo(r) /\ r \in Seq(Labelled)
      BY <1>4, <2>1, <2>2, PrefixIsOnPath
    <3>2. r \notin left
      <4>1. SUFFICES ASSUME r \in left PROVE FALSE
        OBVIOUS
      <4>2. r # <<>>
        <5>1. SUFFICES ASSUME r = <<>> PROVE FALSE
          OBVIOUS
        <5>2. Len(q) <= Len(r) /\ q \in Seq(Labelled)
          BY <3>1, PathOf
        <5>3. q = <<>>
          BY <5>1, <5>2
        <5> QED BY <2>1, <5>3
      <4>3. PICK k \in rest : r \in PathTo(Path(k))
        BY <1>2, <4>1, <4>2
      <4>4. q \in PathTo(Path(k))
        BY <1>5, <3>1, <4>3, PathFacts
      <4> QED BY <1>2, <1>7, <4>4
    <3>3. r \in PathTo(p)
      BY <1>3, <3>2
    <3>4. keys[r] = {}
      BY <1>5, <3>2 DEF rest
    <3> QED BY <3>3, <3>4
  <2> QED BY <2>1, <2>2
<1>8. Nodes(s) \ dead = left
  BY <1>3, <1>6, <1>7
<1>9. Prune(keys, p) = [q \in DOMAIN keys \ dead |-> keys[q]]
  BY DEF Prune
<1>10. \A q \in left : keys[q] = {k \in DOMAIN s \ {key} : Path(k) = q}
  BY <1>3
<1> HIDE DEF dead
<1>11. Prune(keys, p) = [q \in left |-> keys[q]]
  BY <1>8, <1>9
<1>12. Prune(keys, p) = [q \in left |-> {k \in DOMAIN s \ {key} : Path(k) = q}]
  BY <1>10, <1>11
<1> QED BY <1>12 DEF p, left

LEMMA EraseKeepsTrie ==
  ASSUME NEW s \in Map, NEW key \in CookieKey
  PROVE  TrieErase(TrieOf(s), key) = TrieOf(Without(s, key))
<1> DEFINE after == Without(s, key)
           t == TrieOf(s)
           p == Path(key)
           rest == t.keys[p] \ {key}
<1>1. DOMAIN s \subseteq CookieKey /\ DOMAIN after = DOMAIN s \ {key}
  BY WithoutMap, MapKeys
<1>2. /\ DOMAIN t.keys = Nodes(s)
      /\ \A q \in Nodes(s) : t.keys[q] = {k \in DOMAIN s : Path(k) = q}
      /\ t.domain_count = Cardinality({Path(k) : k \in DOMAIN s})
      /\ t.key_count = Cardinality(DOMAIN s)
      /\ t.keys = [q \in Nodes(s) |-> t.keys[q]]
  BY DEF TrieOf
<1>3. TrieErase(t, key) =
        IF p \notin DOMAIN t.keys \/ key \notin t.keys[p] THEN t
        ELSE [keys         |-> Prune([t.keys EXCEPT ![p] = rest], p),
              domain_count |-> t.domain_count - (IF rest = {} THEN 1 ELSE 0),
              key_count    |-> t.key_count - 1]
  BY DEF TrieErase, Path
<1>4. TrieOf(after) =
        [keys         |-> [q \in Nodes(after) |-> {k \in DOMAIN after : Path(k) = q}],
         domain_count |-> Cardinality({Path(k) : k \in DOMAIN after}),
         key_count    |-> Cardinality(DOMAIN after)]
  BY DEF TrieOf
<1>5. CASE key \notin DOMAIN s
  <2>1. p \notin DOMAIN t.keys \/ key \notin t.keys[p]
    BY <1>2, <1>5
  <2>2. after = s
    <3>1. s = [k \in DOMAIN s |-> s[k]] /\ after = [k \in DOMAIN after |-> after[k]]
          /\ DOMAIN after = DOMAIN s /\ \A k \in DOMAIN s : after[k] = s[k]
      BY <1>1, <1>5, MapKeys, WithoutMap
    <3> HIDE DEF after
    <3> QED BY <3>1
  <2> QED BY <1>3, <2>1, <2>2
<1>6. CASE key \in DOMAIN s
  <2>1. p \in Nodes(s) /\ key \in t.keys[p]
    BY <1>2, <1>6, KeyPaths DEF Nodes
  <2> HIDE DEF t, p, after
  <2> DEFINE keys == [t.keys EXCEPT ![p] = rest]
  <2>2. /\ DOMAIN keys = Nodes(s)
        /\ \A q \in Nodes(s) : keys[q] = {k \in DOMAIN s \ {key} : Path(k) = q}
    <3>1. DOMAIN keys = Nodes(s)
      BY <1>2
    <3>2. ASSUME NEW q \in Nodes(s)
          PROVE  keys[q] = {k \in DOMAIN s \ {key} : Path(k) = q}
      <4>1. CASE q = p
        BY <1>2, <2>1, <4>1
      <4>2. CASE q # p
        BY <1>2, <2>1, <4>2 DEF p
      <4> QED BY <4>1, <4>2
    <3> QED BY <3>1, <3>2
  <2> HIDE DEF keys
  <2>3. Prune(keys, p) = [q \in Nodes(after) |-> {k \in DOMAIN after : Path(k) = q}]
    <3>1. Prune(keys, Path(key)) =
            [q \in Nodes(Without(s, key)) |-> {k \in DOMAIN s \ {key} : Path(k) = q}]
      BY <1>6, <2>2, PruneIsExact
    <3> QED BY <1>1, <3>1 DEF p, after
  <2>4. Cardinality(DOMAIN after) = t.key_count - 1
    BY <1>1, <1>2, <1>6, MapKeys, FS_RemoveElement
  <2>5. Cardinality({Path(k) : k \in DOMAIN after}) =
          t.domain_count - (IF rest = {} THEN 1 ELSE 0)
    <3> DEFINE ds == {Path(k) : k \in DOMAIN s}
               es == {Path(k) : k \in DOMAIN after}
    <3>1. IsFiniteSet(ds) /\ Cardinality(ds) \in Nat
      BY DomainsFinite, FS_CardinalityType
    <3>2. rest = {k \in DOMAIN s \ {key} : Path(k) = Path(key)}
      BY <1>1, <1>2, <2>1, KeyPaths DEF p
    <3>3. Path(key) \in ds
      BY <1>6
    <3>4. rest = {} => es = ds \ {Path(key)}
      BY <1>1, <3>2
    <3>5. rest # {} => es = ds
      BY <1>1, <3>2
    <3> HIDE DEF ds, es, rest
    <3>6. Cardinality(ds \ {Path(key)}) = Cardinality(ds) - 1
      BY <3>1, <3>3, FS_RemoveElement
    <3>7. t.domain_count = Cardinality(ds)
      BY <1>2 DEF ds
    <3>8. CASE rest = {}
      <4>1. Cardinality(es) = Cardinality(ds) - 1
        BY <3>4, <3>6, <3>8
      <4>2. t.domain_count - (IF rest = {} THEN 1 ELSE 0) = Cardinality(ds) - 1
        BY <3>7, <3>8
      <4> QED BY <4>1, <4>2 DEF es
    <3>9. CASE rest # {}
      <4>1. Cardinality(es) = Cardinality(ds)
        BY <3>5, <3>9
      <4>2. t.domain_count - (IF rest = {} THEN 1 ELSE 0) = Cardinality(ds)
        BY <3>1, <3>7, <3>9
      <4> QED BY <4>1, <4>2 DEF es
    <3> QED BY <3>8, <3>9
  <2>6. TrieErase(t, key) =
          [keys |-> Prune(keys, p), domain_count |-> t.domain_count - (IF rest = {} THEN 1 ELSE 0),
           key_count |-> t.key_count - 1]
    BY <1>2, <1>3, <2>1 DEF keys
  <2> QED BY <1>4, <2>3, <2>4, <2>5, <2>6 DEF after, t
<1> QED BY <1>5, <1>6

-----------------------------------------------------------------------------
(* Rebuilding. *)

\* What is stored when the places in `at` of a list of cookies have been put
\* in order: the last cookie of every key.
LastAt(list, at, k) ==
  CHOOSE i \in at : list[i].key = k /\ \A j \in at : list[j].key = k => j <= i

MapOf(list, at) ==
  [k \in {list[i].key : i \in at} |-> list[LastAt(list, at, k)].flags]

\* Of several entries with one key a list stores the last.
LEMMA LastExists ==
  ASSUME NEW list \in Seq(Entry), NEW at, at \subseteq DOMAIN list,
         NEW k \in {list[i].key : i \in at}
  PROVE  /\ LastAt(list, at, k) \in at /\ list[LastAt(list, at, k)].key = k
         /\ \A j \in at : list[j].key = k => j <= LastAt(list, at, k)
<1> DEFINE those == {i \in at : list[i].key = k}
<1>1. those \subseteq 0..Len(list) /\ those # {} /\ Len(list) \in Nat
  OBVIOUS
<1>2. PICK last \in those : \A j \in those : j <= last
  <2> HIDE DEF those
  <2> QED BY <1>1, Greatest
<1>3. \E i \in at : list[i].key = k /\ \A j \in at : list[j].key = k => j <= i
  BY <1>2
<1> QED BY <1>3 DEF LastAt

\* What a list stores, up to each of its places.
LEMMA MapOfTyping ==
  ASSUME NEW list \in Seq(Entry), NEW at, at \subseteq DOMAIN list
  PROVE  MapOf(list, at) \in Map
<1> DEFINE keys == {list[i].key : i \in at}
           f == [i \in at |-> list[i].key]
<1>1. IsFiniteSet(at)
  <2>1. IsFiniteSet(1..Len(list)) /\ DOMAIN list = 1..Len(list)
    BY FS_Interval
  <2> QED BY <2>1, FS_Subset
<1>2. f \in Surjection(at, keys)
  BY DEF Surjection
<1>3. IsFiniteSet(keys)
  <2> HIDE DEF f, keys
  <2> QED BY <1>1, <1>2, FS_Surjection
<1>4. keys \subseteq CookieKey
  <2>1. \A i \in at : list[i] \in Entry
    OBVIOUS
  <2> QED BY <2>1 DEF Entry
<1>5. ASSUME NEW k \in keys PROVE list[LastAt(list, at, k)].flags \subseteq Flag
  <2>1. LastAt(list, at, k) \in at
    BY LastExists
  <2>2. list[LastAt(list, at, k)] \in Entry
    BY <2>1
  <2> QED BY <2>2 DEF Entry
<1>6. /\ DOMAIN MapOf(list, at) = keys
      /\ MapOf(list, at) = [k \in DOMAIN MapOf(list, at) |-> MapOf(list, at)[k]]
      /\ \A k \in keys : MapOf(list, at)[k] = list[LastAt(list, at, k)].flags
  BY DEF MapOf
<1> HIDE DEF keys
<1> QED BY <1>3, <1>4, <1>5, <1>6, IsMap

LEMMA MapOfNothing ==
  ASSUME NEW list
  PROVE  MapOf(list, {}) = <<>>
<1>1. DOMAIN MapOf(list, {}) = {} /\
      MapOf(list, {}) = [k \in DOMAIN MapOf(list, {}) |-> MapOf(list, {})[k]]
  BY DEF MapOf
<1> QED BY <1>1, EmptyMap

\* The last place counts last.
LEMMA MapOfGrows ==
  ASSUME NEW list \in Seq(Entry), NEW at, at \subseteq DOMAIN list,
         NEW m \in at, \A i \in at : i <= m
  PROVE  MapOf(list, at) = Put(MapOf(list, at \ {m}), list[m])
<1> DEFINE before == MapOf(list, at \ {m})
           all == MapOf(list, at)
           c == list[m]
<1>1. c \in Entry /\ at \ {m} \subseteq DOMAIN list /\ at \subseteq Nat
  OBVIOUS
<1>2. /\ DOMAIN all = {list[i].key : i \in at}
      /\ all = [k \in DOMAIN all |-> all[k]]
      /\ \A k \in DOMAIN all : all[k] = list[LastAt(list, at, k)].flags
      /\ DOMAIN before = {list[i].key : i \in at \ {m}}
      /\ \A k \in DOMAIN before : before[k] = list[LastAt(list, at \ {m}, k)].flags
  BY DEF MapOf
<1>3. /\ DOMAIN Put(before, c) = DOMAIN before \cup {c.key}
      /\ \A k \in DOMAIN Put(before, c) :
           Put(before, c)[k] = IF k = c.key THEN c.flags ELSE before[k]
      /\ Put(before, c) = [k \in DOMAIN Put(before, c) |-> Put(before, c)[k]]
  BY DEF Put, With
<1>4. DOMAIN all = DOMAIN before \cup {c.key}
  BY <1>2
<1> HIDE DEF before, all
<1>5. ASSUME NEW k \in DOMAIN all
      PROVE  all[k] = IF k = c.key THEN c.flags ELSE before[k]
  <2>1. /\ LastAt(list, at, k) \in at /\ list[LastAt(list, at, k)].key = k
        /\ \A j \in at : list[j].key = k => j <= LastAt(list, at, k)
    BY <1>2, LastExists
  <2>2. CASE k = c.key
    <3>1. LastAt(list, at, k) = m
      BY <1>1, <2>1, <2>2
    <3> QED BY <1>2, <2>2, <3>1
  <2>3. CASE k # c.key
    <3>1. k \in {list[i].key : i \in at \ {m}}
      BY <1>2, <1>4, <2>3
    <3>2. /\ LastAt(list, at \ {m}, k) \in at \ {m}
          /\ list[LastAt(list, at \ {m}, k)].key = k
          /\ \A j \in at \ {m} : list[j].key = k => j <= LastAt(list, at \ {m}, k)
      BY <1>1, <3>1, LastExists
    <3>3. LastAt(list, at, k) = LastAt(list, at \ {m}, k)
      <4> DEFINE x == LastAt(list, at, k)
                 y == LastAt(list, at \ {m}, k)
      <4>1. x \in at \ {m} /\ list[x].key = k /\ x \in Nat /\ y \in at /\ y \in Nat
        BY <1>1, <2>1, <2>3, <3>2
      <4>2. x <= y /\ y <= x
        BY <2>1, <3>2, <4>1
      <4>3. x = y
        <5> HIDE DEF x, y
        <5> QED BY <4>1, <4>2
      <4> QED BY <4>3
    <3> QED BY <1>2, <2>3, <3>1, <3>3
  <2> QED BY <2>2, <2>3
<1>6. all = Put(before, c)
  <2> HIDE DEF c
  <2> QED BY <1>2, <1>3, <1>4, <1>5
<1> QED BY <1>6 DEF all, before

\* Two functions of sets of places that start and grow alike agree on every
\* beginning of the list, or there were a shortest one where they do not.
LEMMA Agreement ==
  ASSUME NEW n \in Nat, NEW f, NEW g, f[{}] = g[{}],
         \A i \in 1..n : f[(1..i) \ {i}] = g[(1..i) \ {i}] => f[1..i] = g[1..i]
  PROVE  f[1..n] = g[1..n]
<1> DEFINE Bad == {i \in 0..n : f[1..i] # g[1..i]}
<1>1. SUFFICES ASSUME Bad # {} PROVE FALSE
  BY DEF Bad
<1>2. Bad \subseteq Nat /\ 0 \notin Bad
  <2>1. 1..0 = {}
    OBVIOUS
  <2> QED BY <2>1
<1>3. PICK i \in Bad : \A j \in Bad : i <= j
  <2> HIDE DEF Bad
  <2> QED BY <1>1, <1>2, Least
<1>4. i \in 1..n /\ i - 1 \in 0..n /\ (1..i) \ {i} = 1..(i - 1) /\ ~(i <= i - 1)
  BY <1>2
<1>5. i - 1 \notin Bad
  <2> HIDE DEF Bad
  <2> QED BY <1>3, <1>4
<1>6. f[1..i] = g[1..i]
  BY <1>4, <1>5
<1> QED BY <1>6

LEMMA FirstPlaces ==
  ASSUME NEW n \in Nat, NEW i \in 1..n
  PROVE  1..i \subseteq 1..n /\ 1..i # {} /\ Max(1..i) = i
<1>1. i \in 1..i /\ 1..i \subseteq 1..n
  OBVIOUS
<1>2. Max(1..i) \in 1..i /\ \A j \in 1..i : j <= Max(1..i)
  BY <1>1, GreatestPlace
<1>3. i <= Max(1..i) /\ Max(1..i) \in 1..i
  BY <1>1, <1>2
<1>4. Max(1..i) = i
  BY <1>3
<1> QED BY <1>1, <1>4

\* The three folds.  The recursive function each of them is defined by exists,
\* since the one on the right of the equation is such a function.
LEMMA StoredIsFolded ==
  ASSUME NEW list \in Seq(Entry)
  PROVE  FoldLeft(Put, <<>>, list) = MapOf(list, 1..Len(list))
<1> DEFINE places == DOMAIN list
           Is(g) == g = [at \in SUBSET places |->
                           IF at = {} THEN <<>>
                           ELSE Put(g[at \ {Max(at)}], list[Max(at)])]
           real == [at \in SUBSET places |-> MapOf(list, at)]
           iter == CHOOSE g : Is(g)
<1>1. places = 1..Len(list) /\ Len(list) \in Nat
  OBVIOUS
<1>2. Is(real)
  <2>1. ASSUME NEW at \in SUBSET places
        PROVE  MapOf(list, at) = IF at = {} THEN <<>>
                                 ELSE Put(real[at \ {Max(at)}], list[Max(at)])
    <3>1. CASE at = {}
      BY <3>1, MapOfNothing
    <3>2. CASE at # {}
      <4>1. Max(at) \in at /\ \A i \in at : i <= Max(at)
        BY <1>1, <3>2, GreatestPlace
      <4>2. MapOf(list, at) = Put(MapOf(list, at \ {Max(at)}), list[Max(at)])
        BY <4>1, MapOfGrows
      <4> QED BY <3>2, <4>2
    <3> QED BY <3>1, <3>2
  <2> QED BY <2>1
<1>3. FoldLeft(Put, <<>>, list) = iter[places]
  BY DEF FoldLeft, MapThenFoldSet
<1>4. Is(iter)
  BY <1>2
<1> HIDE DEF iter
<1>5. \A at \in SUBSET places :
        iter[at] = IF at = {} THEN <<>> ELSE Put(iter[at \ {Max(at)}], list[Max(at)])
  BY <1>4
<1>6. \A at \in SUBSET places :
        real[at] = IF at = {} THEN <<>> ELSE Put(real[at \ {Max(at)}], list[Max(at)])
  BY <1>2
<1> HIDE DEF real
<1>7. ASSUME NEW i \in 1..Len(list), iter[(1..i) \ {i}] = real[(1..i) \ {i}]
      PROVE  iter[1..i] = real[1..i]
  <2>1. 1..i \in SUBSET places /\ 1..i # {} /\ Max(1..i) = i
    BY <1>1, FirstPlaces
  <2> QED BY <1>5, <1>6, <1>7, <2>1
<1>8. iter[{}] = real[{}]
  BY <1>5, <1>6
<1>9. iter[1..Len(list)] = real[1..Len(list)]
  BY <1>1, <1>7, <1>8, Agreement
<1>10. real[1..Len(list)] = MapOf(list, 1..Len(list))
  BY <1>1 DEF real
<1> QED BY <1>1, <1>3, <1>9, <1>10

\* Building the index of a list is folding insert over it: there is a function that
\* the fold unfolds to, by induction over the places.
LEMMA IndexIsFolded ==
  ASSUME NEW list \in Seq(Entry)
  PROVE  FoldLeft(IndexInsert, EmptyIndex, list) = IndexOf(MapOf(list, 1..Len(list)))
<1> DEFINE places == DOMAIN list
           Is(g) == g = [at \in SUBSET places |->
                           IF at = {} THEN EmptyIndex
                           ELSE IndexInsert(g[at \ {Max(at)}], list[Max(at)])]
           real == [at \in SUBSET places |-> IndexOf(MapOf(list, at))]
           iter == CHOOSE g : Is(g)
<1>1. places = 1..Len(list) /\ Len(list) \in Nat
  OBVIOUS
<1>2. Is(real)
  <2>1. ASSUME NEW at \in SUBSET places
        PROVE  IndexOf(MapOf(list, at)) = IF at = {} THEN EmptyIndex
                                 ELSE IndexInsert(real[at \ {Max(at)}], list[Max(at)])
    <3>1. CASE at = {}
      BY <3>1, MapOfNothing, IndexOfEmpty
    <3>2. CASE at # {}
      <4>1. Max(at) \in at /\ \A i \in at : i <= Max(at)
        BY <1>1, <3>2, GreatestPlace
      <4>2. MapOf(list, at) = Put(MapOf(list, at \ {Max(at)}), list[Max(at)])
        BY <4>1, MapOfGrows
      <4>3. MapOf(list, at \ {Max(at)}) \in Map /\ list[Max(at)] \in Entry
        BY <4>1, MapOfTyping
      <4> QED BY <3>2, <4>2, <4>3, InsertKeepsIndex
    <3> QED BY <3>1, <3>2
  <2> QED BY <2>1
<1>3. FoldLeft(IndexInsert, EmptyIndex, list) = iter[places]
  BY DEF FoldLeft, MapThenFoldSet
<1>4. Is(iter)
  BY <1>2
<1> HIDE DEF iter
<1>5. \A at \in SUBSET places :
        iter[at] = IF at = {} THEN EmptyIndex ELSE IndexInsert(iter[at \ {Max(at)}], list[Max(at)])
  BY <1>4
<1>6. \A at \in SUBSET places :
        real[at] = IF at = {} THEN EmptyIndex ELSE IndexInsert(real[at \ {Max(at)}], list[Max(at)])
  BY <1>2
<1> HIDE DEF real
<1>7. ASSUME NEW i \in 1..Len(list), iter[(1..i) \ {i}] = real[(1..i) \ {i}]
      PROVE  iter[1..i] = real[1..i]
  <2>1. 1..i \in SUBSET places /\ 1..i # {} /\ Max(1..i) = i
    BY <1>1, FirstPlaces
  <2> QED BY <1>5, <1>6, <1>7, <2>1
<1>8. iter[{}] = real[{}]
  BY <1>5, <1>6
<1>9. iter[1..Len(list)] = real[1..Len(list)]
  BY <1>1, <1>7, <1>8, Agreement
<1>10. real[1..Len(list)] = IndexOf(MapOf(list, 1..Len(list)))
  BY <1>1 DEF real
<1> QED BY <1>1, <1>3, <1>9, <1>10

\* The same of the trie.
LEMMA TrieIsFolded ==
  ASSUME NEW list \in Seq(Entry)
  PROVE  FoldLeft(TrieInsert, EmptyTrie, list) = TrieOf(MapOf(list, 1..Len(list)))
<1> DEFINE places == DOMAIN list
           Is(g) == g = [at \in SUBSET places |->
                           IF at = {} THEN EmptyTrie
                           ELSE TrieInsert(g[at \ {Max(at)}], list[Max(at)])]
           real == [at \in SUBSET places |-> TrieOf(MapOf(list, at))]
           iter == CHOOSE g : Is(g)
<1>1. places = 1..Len(list) /\ Len(list) \in Nat
  OBVIOUS
<1>2. Is(real)
  <2>1. ASSUME NEW at \in SUBSET places
        PROVE  TrieOf(MapOf(list, at)) = IF at = {} THEN EmptyTrie
                                 ELSE TrieInsert(real[at \ {Max(at)}], list[Max(at)])
    <3>1. CASE at = {}
      BY <3>1, MapOfNothing, TrieOfEmpty
    <3>2. CASE at # {}
      <4>1. Max(at) \in at /\ \A i \in at : i <= Max(at)
        BY <1>1, <3>2, GreatestPlace
      <4>2. MapOf(list, at) = Put(MapOf(list, at \ {Max(at)}), list[Max(at)])
        BY <4>1, MapOfGrows
      <4>3. MapOf(list, at \ {Max(at)}) \in Map /\ list[Max(at)] \in Entry
        BY <4>1, MapOfTyping
      <4> QED BY <3>2, <4>2, <4>3, InsertKeepsTrie
    <3> QED BY <3>1, <3>2
  <2> QED BY <2>1
<1>3. FoldLeft(TrieInsert, EmptyTrie, list) = iter[places]
  BY DEF FoldLeft, MapThenFoldSet
<1>4. Is(iter)
  BY <1>2
<1> HIDE DEF iter
<1>5. \A at \in SUBSET places :
        iter[at] = IF at = {} THEN EmptyTrie ELSE TrieInsert(iter[at \ {Max(at)}], list[Max(at)])
  BY <1>4
<1>6. \A at \in SUBSET places :
        real[at] = IF at = {} THEN EmptyTrie ELSE TrieInsert(real[at \ {Max(at)}], list[Max(at)])
  BY <1>2
<1> HIDE DEF real
<1>7. ASSUME NEW i \in 1..Len(list), iter[(1..i) \ {i}] = real[(1..i) \ {i}]
      PROVE  iter[1..i] = real[1..i]
  <2>1. 1..i \in SUBSET places /\ 1..i # {} /\ Max(1..i) = i
    BY <1>1, FirstPlaces
  <2> QED BY <1>5, <1>6, <1>7, <2>1
<1>8. iter[{}] = real[{}]
  BY <1>5, <1>6
<1>9. iter[1..Len(list)] = real[1..Len(list)]
  BY <1>1, <1>7, <1>8, Agreement
<1>10. real[1..Len(list)] = TrieOf(MapOf(list, 1..Len(list)))
  BY <1>1 DEF real
<1> QED BY <1>1, <1>3, <1>9, <1>10

-----------------------------------------------------------------------------
(* Every call keeps both indexes exact. *)

\* Both indexes are exact at the start, after every operation, and so always.
LEMMA IndexInitExact == IndexInit => IndexesExact
<1> SUFFICES ASSUME IndexInit PROVE IndexesExact
  OBVIOUS
<1> QED BY EmptyMap, IndexOfEmpty, TrieOfEmpty DEF IndexInit, IndexesExact

LEMMA InsertExact ==
  ASSUME IndexesExact, NEW c \in Entry, InsertKey(c)
  PROVE  IndexesExact'
BY PutMap, InsertKeepsIndex, InsertKeepsTrie DEF IndexesExact, InsertKey

LEMMA EraseExact ==
  ASSUME IndexesExact, NEW k \in CookieKey, EraseKey(k)
  PROVE  IndexesExact'
BY WithoutMap, RemoveKeepsIndex, EraseKeepsTrie DEF IndexesExact, EraseKey

LEMMA ReplaceExact ==
  ASSUME IndexesExact, NEW k \in CookieKey, NEW c \in Entry, Replace(k, c)
  PROVE  IndexesExact'
<1>1. Without(stored, k) \in Map
  BY WithoutMap DEF IndexesExact
<1>2. /\ IndexRemove(index, k) = IndexOf(Without(stored, k))
      /\ TrieErase(trie, k) = TrieOf(Without(stored, k))
  BY RemoveKeepsIndex, EraseKeepsTrie DEF IndexesExact
<1>3. /\ Put(Without(stored, k), c) \in Map
      /\ IndexInsert(IndexRemove(index, k), c) = IndexOf(Put(Without(stored, k), c))
      /\ TrieInsert(TrieErase(trie, k), c) = TrieOf(Put(Without(stored, k), c))
  BY <1>1, <1>2, PutMap, InsertKeepsIndex, InsertKeepsTrie
<1> QED BY <1>3 DEF Replace, IndexesExact

LEMMA RebuildExact ==
  ASSUME NEW list \in List, Rebuild(list)
  PROVE  IndexesExact'
<1>1. list \in Seq(Entry) /\ 1..Len(list) \subseteq DOMAIN list
  BY IndexAssumption
<1>2. MapOf(list, 1..Len(list)) \in Map
  BY <1>1, MapOfTyping
<1>3. /\ stored' = MapOf(list, 1..Len(list))
      /\ index' = IndexOf(MapOf(list, 1..Len(list)))
      /\ trie' = TrieOf(MapOf(list, 1..Len(list)))
  BY <1>1, StoredIsFolded, IndexIsFolded, TrieIsFolded DEF Rebuild, IndexBuild, TrieRebuild
<1> QED BY <1>2, <1>3 DEF IndexesExact

LEMMA IndexStepExact == IndexesExact /\ [IndexNext]_index_vars => IndexesExact'
<1> SUFFICES ASSUME IndexesExact, [IndexNext]_index_vars PROVE IndexesExact'
  OBVIOUS
<1>1. CASE \E c \in Entry : InsertKey(c)
  BY <1>1, InsertExact
<1>2. CASE \E c \in Entry, k \in CookieKey : Replace(k, c)
  BY <1>2, ReplaceExact
<1>3. CASE \E k \in CookieKey : EraseKey(k)
  BY <1>3, EraseExact
<1>4. CASE \E list \in List : Rebuild(list)
  BY <1>4, RebuildExact
<1>5. CASE UNCHANGED index_vars
  BY <1>5 DEF index_vars, IndexesExact
<1> QED BY <1>1, <1>2, <1>3, <1>4, <1>5 DEF IndexNext

LEMMA AlwaysExact == IndexSpec => []IndexesExact
BY IndexInitExact, IndexStepExact, PTL DEF IndexSpec

-----------------------------------------------------------------------------
(* What that means. *)

\* The list of a finite set has every element of it once.
LEMMA ListedOnce ==
  ASSUME NEW S, IsFiniteSet(S)
  PROVE  /\ SetToSeq(S) \in Seq(S) /\ Len(SetToSeq(S)) = Cardinality(S) /\ Cardinality(S) \in Nat
         /\ {SetToSeq(S)[i] : i \in 1..Cardinality(S)} = S
         /\ {SetToSeq(S)[i] : i \in DOMAIN SetToSeq(S)} = S
         /\ \A i, j \in 1..Cardinality(S) : SetToSeq(S)[i] = SetToSeq(S)[j] => i = j
<1> DEFINE n == Cardinality(S)
<1>1. n \in Nat /\ ExistsBijection(1..n, S)
  BY FS_CardinalityType
<1>2. \E f \in [1..n -> S] : IsInjective(f)
  BY <1>1 DEF ExistsBijection, Bijection, Injection, IsInjective
<1>3. SetToSeq(S) \in [1..n -> S] /\ IsInjective(SetToSeq(S))
  BY <1>2 DEF SetToSeq
<1> HIDE DEF n
<1>4. SetToSeq(S) \in Injection(1..n, S)
  BY <1>3 DEF Injection, IsInjective
<1>5. SetToSeq(S) \in Surjection(1..n, S)
  <2>1. IsFiniteSet(S) /\ Cardinality(1..n) = Cardinality(S)
    BY <1>1, FS_Interval DEF n
  <2> QED BY <1>4, <2>1, FS_Injection
<1>6. SetToSeq(S) \in Seq(S) /\ Len(SetToSeq(S)) = n
  BY <1>1, <1>3
<1> QED BY <1>1, <1>3, <1>5, <1>6 DEF Surjection, IsInjective, n

\* validate() accepts an exact index.
LEMMA ExactMeansValid == IndexesExact => IndexValid
<1> SUFFICES ASSUME IndexesExact PROVE IndexValid
  OBVIOUS
<1> DEFINE keys == SetToSeq(DOMAIN stored)
           list == [i \in DOMAIN keys |-> [key |-> keys[i], flags |-> stored[keys[i]]]]
<1>1. stored \in Map /\ IsFiniteSet(DOMAIN stored) /\ DOMAIN stored \subseteq CookieKey
  BY MapKeys DEF IndexesExact
<1>2. keys \in Seq(DOMAIN stored) /\ {keys[i] : i \in DOMAIN keys} = DOMAIN stored
  BY <1>1, ListedOnce
<1> HIDE DEF keys
<1>3. list \in Seq(Entry) /\ DOMAIN list = DOMAIN keys /\ DOMAIN list = 1..Len(list)
  <2>1. Len(keys) \in Nat /\ DOMAIN keys = 1..Len(keys)
    BY <1>2
  <2>2. \A i \in DOMAIN keys : list[i] \in Entry
    BY <1>1, <1>2, MapKeys DEF Entry
  <2>3. list \in [1..Len(keys) -> Entry]
    BY <2>1, <2>2
  <2> HIDE DEF list
  <2> QED BY <2>1, <2>3
<1>4. \A i \in DOMAIN list : list[i].key = keys[i] /\ list[i].flags = stored[keys[i]]
  BY <1>3
<1> HIDE DEF list
<1>5. MapOf(list, 1..Len(list)) = stored
  <2> DEFINE s == MapOf(list, 1..Len(list))
  <2>1. {list[i].key : i \in 1..Len(list)} = DOMAIN stored
    BY <1>2, <1>3, <1>4
  <2>2. /\ DOMAIN s = DOMAIN stored
        /\ s = [k \in DOMAIN s |-> s[k]]
        /\ \A k \in DOMAIN s : s[k] = list[LastAt(list, 1..Len(list), k)].flags
    BY <2>1 DEF MapOf
  <2>3. \A k \in DOMAIN stored : LastAt(list, 1..Len(list), k) \in 1..Len(list)
                                 /\ list[LastAt(list, 1..Len(list), k)].key = k
    BY <1>3, <2>1, LastExists
  <2> HIDE DEF s
  <2>4. \A k \in DOMAIN stored : s[k] = stored[k]
    BY <1>3, <1>4, <2>2, <2>3
  <2>5. s = stored
    BY <1>1, <2>2, <2>4, MapKeys
  <2> QED BY <2>5 DEF s
<1>6. index = IndexBuild(list)
  BY <1>3, <1>5, IndexIsFolded DEF IndexBuild, IndexesExact
<1> QED BY <1>6 DEF IndexValid, keys, list

\* The Rust index is always the one built from the stored cookies.
THEOREM IndexStaysValid == IndexSpec => []IndexValid
BY AlwaysExact, ExactMeansValid, PTL

\* If both normalizations read the domains alike there are as many domains as
\* there are paths.
LEMMA AsManyDomains ==
  ASSUME NEW s \in Map, \A k \in DOMAIN s : ReadAlike(DomainOf[k])
  PROVE  Cardinality({Path(k) : k \in DOMAIN s}) = Cardinality({IndexDomain(k) : k \in DOMAIN s})
<1> DEFINE ds == {IndexDomain(k) : k \in DOMAIN s}
           ps == {Path(k) : k \in DOMAIN s}
           f == [d \in ds |-> LabelsFromEnd(d)]
<1>1. \A k \in DOMAIN s : Path(k) = LabelsFromEnd(IndexDomain(k)) /\ IndexDomain(k) \in Seq(Token)
  BY MapKeys, TextTyping DEF Path, Labels, reversed_domain_labels, ReadAlike, IndexDomain
<1>2. IsFiniteSet(ds)
  <2> DEFINE g == [k \in DOMAIN s |-> IndexDomain(k)]
  <2>1. g \in Surjection(DOMAIN s, ds)
    BY DEF Surjection
  <2> HIDE DEF g, ds
  <2> QED BY <2>1, MapKeys, FS_Surjection
<1>3. f \in Surjection(ds, ps)
  <2>1. DOMAIN f = ds /\ \A k \in DOMAIN s : IndexDomain(k) \in ds /\ f[IndexDomain(k)] = Path(k)
    BY <1>1
  <2>2. \A d \in ds : f[d] \in ps
    BY <2>1
  <2>3. \A p \in ps : \E d \in ds : f[d] = p
    BY <2>1
  <2>4. f = [d \in ds |-> f[d]]
    OBVIOUS
  <2> HIDE DEF f, ds, ps
  <2> QED BY <2>1, <2>2, <2>3, <2>4 DEF Surjection
<1>4. f \in Injection(ds, ps)
  <2>1. \A d, e \in ds : f[d] = f[e] => d = e
    BY <1>1, LabelsTell
  <2> HIDE DEF f, ds, ps
  <2> QED BY <1>3, <2>1 DEF Surjection, Injection, IsInjective
<1> HIDE DEF f, ds, ps
<1>5. Cardinality(ps) = Cardinality(ds)
  BY <1>2, <1>3, <1>4, FS_Surjection
<1> QED BY <1>5 DEF ds, ps

\* The trie has no node too many or too few, and its counters count.
THEOREM TrieStaysExact == IndexSpec => []TrieExact
<1>1. SUFFICES IndexesExact => TrieExact
  BY AlwaysExact, PTL
<1>2. SUFFICES ASSUME IndexesExact PROVE TrieExact
  OBVIOUS
<1>3. /\ DOMAIN trie.keys = {<<>>} \cup UNION {PathTo(Labels(k)) : k \in DOMAIN stored}
      /\ trie.key_count = Cardinality(DOMAIN stored)
      /\ trie.domain_count = Cardinality({Labels(k) : k \in DOMAIN stored})
      /\ DOMAIN index.domains = {IndexDomain(k) : k \in DOMAIN stored}
  BY <1>2 DEF IndexesExact, TrieOf, IndexOf, Nodes, Path
<1>4. (\A k \in DOMAIN stored : ReadAlike(DomainOf[k]))
        => Cardinality({Labels(k) : k \in DOMAIN stored})
             = Cardinality({IndexDomain(k) : k \in DOMAIN stored})
  BY <1>2, AsManyDomains DEF IndexesExact, Path
<1> QED BY <1>3, <1>4 DEF TrieExact

\* One sequence begins with another if it lies on the path to it.
LEMMA BeginningIsOnPath ==
  ASSUME NEW S, NEW p \in Seq(S), NEW q \in Seq(S)
  PROVE  q \in PathTo(p) <=> Begins(q, p)
BY PathOf DEF Begins

\* The walk through the trie comes by the paths of the parents of the host.
LEMMA WalkFindsParents ==
  ASSUME IndexesExact, NEW h \in HostName
  PROVE  /\ TrieMatching(trie, h) = {k \in DOMAIN stored : domain_matches(DomainOf[k], h)}
         /\ \A k \in DOMAIN stored :
              domain_matches(DomainOf[k], h) <=> Begins(Path(k), reversed_domain_labels(h))
<1> DEFINE way == reversed_domain_labels(h)
           reached == {r \in PathTo(way) \ {<<>>} : PathTo(r) \subseteq DOMAIN trie.keys}
<1>1. DOMAIN stored \subseteq CookieKey
  BY MapKeys DEF IndexesExact
<1>2. way \in Seq(Labelled)
  BY TextTyping, LabelsTyped DEF reversed_domain_labels, Labelled
<1>3. ASSUME NEW k \in DOMAIN stored
      PROVE  domain_matches(DomainOf[k], h) <=> Begins(Path(k), way)
  <2> DEFINE d == normalized_domain(DomainOf[k])
             t == normalized_domain(h)
  <2>1. d \in Seq(Token) /\ t \in Seq(Token)
    BY <1>1, TextTyping
  <2>2. Path(k) = LabelsFromEnd(d) /\ way = LabelsFromEnd(t)
    BY DEF Path, Labels, reversed_domain_labels
  <2>3. domain_matches(DomainOf[k], h) <=> Parent(d, t)
    BY DEF domain_matches, Parent
  <2> HIDE DEF d, t
  <2>4. Begins(LabelsFromEnd(d), LabelsFromEnd(t)) <=> Parent(d, t)
    BY <2>1, ParentBegins, BeginsParent
  <2> QED BY <2>2, <2>3, <2>4
<1>4. /\ DOMAIN trie.keys = Nodes(stored)
      /\ \A q \in Nodes(stored) : trie.keys[q] = {k \in DOMAIN stored : Path(k) = q}
  BY DEF IndexesExact, TrieOf
<1>5. \A k \in DOMAIN stored : Path(k) # <<>> /\ Path(k) \in Nodes(stored)
                               /\ PathTo(Path(k)) \subseteq Nodes(stored)
                               /\ Path(k) \in Seq(Labelled)
  BY <1>1, KeyPaths DEF Nodes
<1>6. TrieMatching(trie, h) = UNION {trie.keys[q] : q \in reached}
  BY DEF TrieMatching
<1> HIDE DEF way
<1>7. \A q \in PathTo(way) : q \in PathTo(q)
  BY <1>2, PathFacts
<1>8. \A q \in reached : trie.keys[q] = {k \in DOMAIN stored : Path(k) = q}
  BY <1>4, <1>7
<1>9. \A k \in DOMAIN stored : Path(k) \in reached <=> Path(k) \in PathTo(way)
  BY <1>4, <1>5
<1> HIDE DEF reached
<1>10. TrieMatching(trie, h) = {k \in DOMAIN stored : Path(k) \in reached}
  BY <1>6, <1>8
<1>11. \A k \in DOMAIN stored : Path(k) \in PathTo(way) <=> Begins(Path(k), way)
  BY <1>2, <1>5, BeginningIsOnPath
<1>12. TrieMatching(trie, h) = {k \in DOMAIN stored : domain_matches(DomainOf[k], h)}
  BY <1>3, <1>9, <1>10, <1>11
<1> QED BY <1>3, <1>12 DEF way

\* The maps find what the labels of the host, without the empty ones, begin with.
LEMMA LookupFinds ==
  ASSUME IndexesExact, NEW h \in HostName, ReadAlike(h)
  PROVE  \A k \in DOMAIN stored :
           ReadAlike(DomainOf[k]) =>
             (k \in IndexMatching(index, h)
                <=> Begins(Path(k), WithoutEmpty(reversed_domain_labels(h))))
<1> DEFINE labels == WithoutEmpty(reversed_domain_labels(h))
<1>1. DOMAIN stored \subseteq CookieKey
  BY MapKeys DEF IndexesExact
<1>2. labels \in Seq(Labelled)
  <2> DEFINE way == reversed_domain_labels(h)
  <2>1. way \in Seq(Labelled)
    BY TextTyping, LabelsTyped DEF reversed_domain_labels, Labelled
  <2>2. Len(way) \in Nat
    BY <2>1, LenProperties
  <2> HIDE DEF way
  <2>3. 0 \in 0..Len(way) /\ \A i \in 1..0 : way[i] # <<>>
    BY <2>2
  <2>4. WithoutEmpty(way) \in Seq(Labelled)
    BY <2>1, <2>3, FirstAreKept
  <2> QED BY <2>4 DEF way
<1>3. IndexMatching(index, h) =
        UNION {index.domains[d] :
                 d \in {e \in DOMAIN index.domains : IsPrefix(LabelsFromEnd(e), labels)}}
  BY DEF IndexMatching, reversed_domain_labels, ReadAlike
<1>4. /\ DOMAIN index.domains = {IndexDomain(k) : k \in DOMAIN stored}
      /\ \A d \in DOMAIN index.domains : index.domains[d] = {k \in DOMAIN stored : IndexDomain(k) = d}
  BY DEF IndexesExact, IndexOf
<1> HIDE DEF labels
<1>5. IndexMatching(index, h) =
        {k \in DOMAIN stored : IsPrefix(LabelsFromEnd(IndexDomain(k)), labels)}
  BY <1>3, <1>4
<1>6. ASSUME NEW k \in DOMAIN stored, ReadAlike(DomainOf[k])
      PROVE  IsPrefix(LabelsFromEnd(IndexDomain(k)), labels) <=> Begins(Path(k), labels)
  <2>1. LabelsFromEnd(IndexDomain(k)) = Path(k) /\ Path(k) \in Seq(Labelled)
    BY <1>1, <1>6, KeyPaths DEF IndexDomain, ReadAlike, Path, Labels, reversed_domain_labels
  <2> QED BY <1>2, <2>1, PrefixIsOnPath, BeginningIsOnPath
<1> QED BY <1>5, <1>6 DEF labels

\* Exact indexes answer a host alike, and with the cookies of its domains.
LEMMA ExactMeansAgreement == IndexesExact => MatchingAgrees
<1> SUFFICES ASSUME IndexesExact, NEW h \in HostName
             PROVE  LET plain == {k \in DOMAIN stored : PlainDomain(DomainOf[k])}
                        found == TrieMatching(trie, h)
                    IN /\ found = {k \in DOMAIN stored : domain_matches(DomainOf[k], h)}
                       /\ ReadAlike(h) => found \cap plain \subseteq IndexMatching(index, h)
                       /\ PlainDomain(h) => IndexMatching(index, h) \cap plain = found \cap plain
  BY DEF MatchingAgrees
<1> DEFINE way == reversed_domain_labels(h)
           plain == {k \in DOMAIN stored : PlainDomain(DomainOf[k])}
           found == TrieMatching(trie, h)
           looked == IndexMatching(index, h)
<1>1. /\ found = {k \in DOMAIN stored : domain_matches(DomainOf[k], h)}
      /\ \A k \in DOMAIN stored : domain_matches(DomainOf[k], h) <=> Begins(Path(k), way)
  BY WalkFindsParents
<1>2. \A k \in plain : /\ k \in DOMAIN stored /\ ReadAlike(DomainOf[k])
                       /\ \A i \in DOMAIN Path(k) : Path(k)[i] # <<>>
                       /\ Path(k) \in Seq(Labelled)
  BY MapKeys, KeyPaths DEF IndexesExact, PlainDomain, Path, Labels
<1>3. way \in Seq(Labelled) /\ Len(way) \in Nat
  BY TextTyping, LabelsTyped, LenProperties DEF reversed_domain_labels, Labelled
<1>4. ReadAlike(h) => \A k \in plain : k \in looked <=> Begins(Path(k), WithoutEmpty(way))
  BY <1>2, LookupFinds
<1>5. PlainDomain(h) => ReadAlike(h) /\ \A i \in DOMAIN way : way[i] # <<>>
  BY DEF PlainDomain
<1> HIDE DEF way, plain, found, looked
<1>6. ASSUME ReadAlike(h), NEW k \in plain, k \in found
      PROVE  k \in looked
  <2> DEFINE p == Path(k)
  <2>1. p \in Seq(Labelled) /\ Len(p) \in Nat /\ DOMAIN p = 1..Len(p)
    BY <1>2, LenProperties
  <2>2. Len(p) <= Len(way) /\ (\A i \in 1..Len(p) : way[i] = p[i])
    BY <1>1, <1>2, <1>6 DEF Begins
  <2>3. \A i \in 1..Len(p) : p[i] # <<>>
    BY <1>2, <2>1
  <2> HIDE DEF p
  <2>4. Len(p) \in 0..Len(way) /\ \A i \in 1..Len(p) : way[i] # <<>>
    BY <1>3, <2>1, <2>2, <2>3
  <2>5. /\ Len(p) <= Len(WithoutEmpty(way))
        /\ \A i \in 1..Len(p) : WithoutEmpty(way)[i] = way[i]
    BY <1>3, <2>4, FirstAreKept
  <2>6. Begins(p, WithoutEmpty(way))
    BY <2>2, <2>5 DEF Begins
  <2> QED BY <1>4, <1>6, <2>6 DEF p
<1>7. ASSUME PlainDomain(h)
      PROVE  WithoutEmpty(way) = way
  <2>1. Len(way) \in 0..Len(way) /\ \A i \in 1..Len(way) : way[i] # <<>>
    BY <1>3, <1>5, <1>7, LenProperties
  <2> QED BY <1>3, <2>1, FirstAreKept
<1>8. ASSUME PlainDomain(h)
      PROVE  looked \cap plain = found \cap plain
  BY <1>1, <1>2, <1>4, <1>5, <1>7, <1>8
<1> QED BY <1>1, <1>6, <1>8 DEF plain, found, looked

\* Both indexes answer alike, and with the cookies that match.
THEOREM IndexesAgree == IndexSpec => []MatchingAgrees
BY AlwaysExact, ExactMeansAgreement, PTL

-----------------------------------------------------------------------------
(***************************************************************************)
(* The binary archive: its checksum first, then its reader and its writer, *)
(* then its files.                                                         *)
(***************************************************************************)

\* HashSize is a power of two.
LEMMA HashPower ==
  \E power : /\ HashSize = power[HashBits] /\ power[0] = 1
             /\ \A n \in 0..HashBits : power[n] \in Nat \ {0}
             /\ \A n \in 1..HashBits : power[n] = 2 * power[n - 1]
<1> DEFINE Is(g, m) == g = [n \in 0..m |-> IF n = 0 THEN 1 ELSE 2 * g[n - 1]]
           Good == {m \in Nat : \E g : Is(g, m)}
<1>0. HashBits \in Nat
  BY ArchiveAssumption
<1>1. 0 \in Good
  <2>1. Is([n \in 0..0 |-> 1], 0)
    OBVIOUS
  <2> QED BY <2>1
<1>2. ASSUME NEW m \in 1..HashBits, m - 1 \in Good PROVE m \in Good
  <2>1. m \in Nat /\ m - 1 \in Nat
    BY <1>0
  <2>2. PICK g : Is(g, m - 1)
    BY <1>2
  <2>3. \A n \in 0..(m - 1) : g[n] = IF n = 0 THEN 1 ELSE 2 * g[n - 1]
    BY <2>2
  <2> DEFINE h == [n \in 0..m |-> IF n < m THEN g[n] ELSE 2 * g[n - 1]]
  <2>4. ASSUME NEW n \in 0..m PROVE h[n] = IF n = 0 THEN 1 ELSE 2 * h[n - 1]
    <3>1. CASE n < m
      BY <2>1, <2>3, <3>1
    <3>2. CASE n = m
      BY <2>1, <3>2
    <3> QED BY <2>1, <3>1, <3>2
  <2>5. Is(h, m)
    BY <2>4
  <2> QED BY <2>1, <2>5
<1>3. HashBits \in Good
  <2> HIDE DEF Good
  <2> QED BY <1>0, <1>1, <1>2, Upward
<1> DEFINE power == CHOOSE g : Is(g, HashBits)
<1>4. Is(power, HashBits)
  BY <1>3
<1>5. HashSize = power[HashBits]
  BY DEF HashSize
<1>6. \A n \in 0..HashBits : power[n] = IF n = 0 THEN 1 ELSE 2 * power[n - 1]
  BY <1>4
<1> HIDE DEF power
<1>7. power[0] = 1 /\ \A n \in 1..HashBits : power[n] = 2 * power[n - 1]
  BY <1>0, <1>6
<1> DEFINE Positive == {n \in 0..HashBits : power[n] \in Nat \ {0}}
<1>8. \A n \in 1..HashBits : n - 1 \in Positive => n \in Positive
  BY <1>0, <1>7
<1>9. 0 \in Positive
  BY <1>0, <1>7
<1>10. \A n \in 0..HashBits : n \in Positive
  <2> HIDE DEF Positive
  <2> QED BY <1>0, <1>8, <1>9, Upward
<1> QED BY <1>5, <1>7, <1>10

\* A number that an odd factor turns into a multiple of HashSize is one itself.
LEMMA OddFactor ==
  ASSUME NEW d \in Int, NEW q \in Int, Factor * d = HashSize * q
  PROVE  \E e \in Int : d = HashSize * e
<1>1. PICK power : /\ HashSize = power[HashBits] /\ power[0] = 1
                   /\ \A n \in 0..HashBits : power[n] \in Nat \ {0}
                   /\ \A n \in 1..HashBits : power[n] = 2 * power[n - 1]
  BY HashPower
<1>2. HashBits \in Nat /\ Factor \in Nat /\ Factor % 2 = 1
  BY ArchiveAssumption
<1> DEFINE Good == {n \in 0..HashBits : \A x, y \in Int :
                      Factor * x = power[n] * y => \E e \in Int : x = power[n] * e}
<1>3. 0 \in Good
  BY <1>1, <1>2
<1>4. ASSUME NEW n \in 1..HashBits, n - 1 \in Good PROVE n \in Good
  <2>1. SUFFICES ASSUME NEW x \in Int, NEW y \in Int, Factor * x = power[n] * y
                 PROVE  \E e \in Int : x = power[n] * e
    BY <1>2
  <2>2. PICK p \in Nat : p = power[n - 1] /\ power[n] = 2 * p
    BY <1>1, <1>2
  <2>3. PICK h \in Nat : Factor = 2 * h + 1
    BY <1>2
  <2>4. PICK z \in Int : z = h * x /\ 2 * z + x = Factor * x
    <3>1. (2 * h + 1) * x = 2 * (h * x) + x
      OBVIOUS
    <3> QED BY <2>3, <3>1
  <2>5. PICK w \in Int : w = p * y /\ power[n] * y = 2 * w
    <3>1. (2 * p) * y = 2 * (p * y)
      OBVIOUS
    <3> QED BY <2>2, <3>1
  <2>6. PICK c \in Int : x = 2 * c
    <3>1. x = 2 * (w - z)
      BY <2>1, <2>4, <2>5
    <3>2. w - z \in Int
      OBVIOUS
    <3> QED BY <3>1, <3>2
  <2>7. Factor * c = p * y
    <3>1. Factor * (2 * c) = 2 * (Factor * c)
      BY <1>2
    <3>2. PICK u \in Int : u = Factor * c
      BY <1>2
    <3> QED BY <2>1, <2>5, <2>6, <3>1, <3>2
  <2>8. PICK e \in Int : c = p * e
    BY <1>2, <1>4, <2>2, <2>7
  <2>9. x = (2 * p) * e
    BY <2>6, <2>8
  <2> QED BY <2>2, <2>9
<1>5. \A n \in 0..HashBits : n \in Good
  <2> HIDE DEF Good
  <2> QED BY <1>2, <1>3, <1>4, Upward
<1> QED BY <1>1, <1>2, <1>5

\* Two numbers with the same remainder differ by a multiple.
LEMMA SameRemainder ==
  ASSUME NEW size \in Nat \ {0}, NEW s \in Nat, NEW t \in Nat, s % size = t % size
  PROVE  \E q \in Int : s - t = size * q
<1>1. s \div size \in Int /\ t \div size \in Int
  OBVIOUS
<1>2. s = size * (s \div size) + (s % size) /\ t = size * (t \div size) + (t % size)
  OBVIOUS
<1>3. PICK p \in Int : p = s \div size
  BY <1>1
<1>4. PICK q \in Int : q = t \div size
  BY <1>1
<1>5. PICK r \in Int : r = s % size /\ r = t % size
  OBVIOUS
<1>6. s = size * p + r /\ t = size * q + r
  BY <1>2, <1>3, <1>4, <1>5
<1>7. size * (p - q) = size * p - size * q
  OBVIOUS
<1>8. PICK v \in Int : v = size * p
  OBVIOUS
<1>9. PICK w \in Int : w = size * q
  OBVIOUS
<1>10. s - t = size * (p - q)
  BY <1>6, <1>7, <1>8, <1>9
<1>11. p - q \in Int
  OBVIOUS
<1> QED BY <1>10, <1>11

\* To multiply bytes by it is injective.
LEMMA TimesFactor ==
  ASSUME NEW a \in Byte, NEW b \in Byte, (a * Factor) % HashSize = (b * Factor) % HashSize
  PROVE  a = b
<1>1. HashSize \in Nat \ {0}
  BY HashPower, ArchiveAssumption
<1>2. Factor \in Nat /\ a \in 0..(HashSize - 1) /\ b \in 0..(HashSize - 1)
  BY ArchiveAssumption DEF Byte
<1>3. PICK s \in Nat : s = a * Factor
  BY <1>2
<1>4. PICK t \in Nat : t = b * Factor
  BY <1>2
<1>5. PICK q \in Int : s - t = HashSize * q
  <2>1. s % HashSize = t % HashSize
    BY <1>3, <1>4
  <2> QED BY <1>1, <1>3, <1>4, <2>1, SameRemainder
<1>6. Factor * (a - b) = s - t
  BY <1>2, <1>3, <1>4
<1>9. PICK e \in Int : a - b = HashSize * e
  <2>1. a - b \in Int
    BY <1>1, <1>2
  <2> QED BY <1>5, <1>6, <2>1, OddFactor
<1>10. e = 0
  <2>1. CASE e >= 1
    <3>1. HashSize * e >= HashSize
      BY <1>1, <2>1
    <3> QED BY <1>1, <1>2, <1>9, <3>1
  <2>2. CASE e <= -1
    <3>1. HashSize * e <= -HashSize
      BY <1>1, <2>2
    <3> QED BY <1>1, <1>2, <1>9, <3>1
  <2> QED BY <2>1, <2>2
<1> QED BY <1>1, <1>2, <1>9, <1>10

\* The exclusive or, level by level.
LEMMA XorLevels ==
  \E of : /\ xor = of[HashBits]
          /\ \A n \in 0..HashBits, a \in Byte, b \in Byte :
               of[n][a][b] = IF n = 0 THEN 0
                             ELSE 2 * of[n - 1][a \div 2][b \div 2] + ((a + b) % 2)
<1> DEFINE Level(g, n) ==
             [a \in Byte |-> [b \in Byte |->
               IF n = 0 THEN 0 ELSE 2 * g[n - 1][a \div 2][b \div 2] + ((a + b) % 2)]]
           Is(g, m) == g = [n \in 0..m |-> Level(g, n)]
           Good == {m \in Nat : \E g : Is(g, m)}
<1>0. HashBits \in Nat
  BY ArchiveAssumption
<1>1. 0 \in Good
  <2> DEFINE g == [n \in 0..0 |-> [a \in Byte |-> [b \in Byte |-> 0]]]
  <2>1. \A n \in 0..0 : Level(g, n) = [a \in Byte |-> [b \in Byte |-> 0]]
    OBVIOUS
  <2>2. Is(g, 0)
    <3> HIDE DEF Level
    <3> QED BY <2>1
  <2> QED BY <2>2
<1>2. ASSUME NEW m \in 1..HashBits, m - 1 \in Good PROVE m \in Good
  <2>1. m \in Nat /\ m - 1 \in Nat
    BY <1>0
  <2>2. PICK g : Is(g, m - 1)
    BY <1>2
  <2>3. \A n \in 0..(m - 1) : g[n] = Level(g, n)
    BY <2>2
  <2> DEFINE h == [n \in 0..m |-> IF n < m THEN g[n] ELSE Level(g, n)]
  <2>4. ASSUME NEW n \in 0..m PROVE h[n] = Level(h, n)
    <3>1. CASE n < m
      <4>1. n = 0 \/ h[n - 1] = g[n - 1]
        BY <2>1, <3>1
      <4>2. Level(g, n) = Level(h, n)
        BY <4>1
      <4> HIDE DEF Level
      <4> QED BY <2>1, <2>3, <3>1, <4>2
    <3>2. CASE n = m
      <4>1. h[n - 1] = g[n - 1]
        <5> HIDE DEF Level
        <5> QED BY <2>1, <3>2
      <4>2. Level(g, n) = Level(h, n)
        BY <4>1
      <4> HIDE DEF Level
      <4> QED BY <2>1, <3>2, <4>2
    <3> HIDE DEF h, Level
    <3> QED BY <2>1, <3>1, <3>2
  <2>5. Is(h, m)
    <3> HIDE DEF Level
    <3> QED BY <2>4
  <2> QED BY <2>1, <2>5
<1>3. HashBits \in Good
  <2> HIDE DEF Good
  <2> QED BY <1>0, <1>1, <1>2, Upward
<1> DEFINE of == CHOOSE g : Is(g, HashBits)
<1>4. Is(of, HashBits)
  BY <1>3
<1>5. xor = of[HashBits]
  BY DEF xor
<1>6. \A n \in 0..HashBits : of[n] = Level(of, n)
  <2> HIDE DEF Level, of
  <2> QED BY <1>4
<1> HIDE DEF of
<1>7. \A n \in 0..HashBits, a \in Byte, b \in Byte :
        Level(of, n)[a][b] = IF n = 0 THEN 0
                             ELSE 2 * of[n - 1][a \div 2][b \div 2] + ((a + b) % 2)
  OBVIOUS
<1> HIDE DEF Level
<1> QED BY <1>5, <1>6, <1>7

\* Half a byte is a byte, and a number is its half and its last bit.
LEMMA HalfByte ==
  ASSUME NEW a \in Byte, NEW p \in Nat, a < 2 * p
  PROVE  a \in Nat /\ a \div 2 \in Byte /\ a \div 2 < p
<1>1. HashSize \in Nat
  BY HashPower, ArchiveAssumption
<1> QED BY <1>1 DEF Byte

\* Numbers with the same half and the same last bit are the same.
LEMMA SameBits ==
  ASSUME NEW x \in Nat, NEW y \in Nat, NEW a \in Nat, NEW b \in Nat,
         2 * x + (a % 2) = 2 * y + (b % 2)
  PROVE  x = y /\ a % 2 = b % 2
OBVIOUS

\* The same of two numbers to which a third one was added.
LEMMA Halves ==
  ASSUME NEW a \in Nat, NEW b \in Nat, NEW c \in Nat,
         a \div 2 = b \div 2, (a + c) % 2 = (b + c) % 2
  PROVE  a = b
OBVIOUS

\* It stays within a byte, and who knows one argument can take it out again.
LEMMA XorFacts ==
  /\ \A a, b \in Byte : xor[a][b] \in Byte
  /\ \A a, b, c \in Byte : xor[a][b] = xor[c][b] => a = c
  /\ \A a, b, c \in Byte : xor[a][b] = xor[a][c] => b = c
<1>1. PICK power : /\ HashSize = power[HashBits] /\ power[0] = 1
                   /\ \A n \in 0..HashBits : power[n] \in Nat \ {0}
                   /\ \A n \in 1..HashBits : power[n] = 2 * power[n - 1]
  BY HashPower
<1>2. PICK of : /\ xor = of[HashBits]
                /\ \A n \in 0..HashBits, a \in Byte, b \in Byte :
                     of[n][a][b] = IF n = 0 THEN 0
                                   ELSE 2 * of[n - 1][a \div 2][b \div 2] + ((a + b) % 2)
  BY XorLevels
<1>3. HashBits \in Nat
  BY ArchiveAssumption
<1> DEFINE P(n) ==
             \A a, b, c \in Byte :
               a < power[n] /\ b < power[n] /\ c < power[n] =>
                 /\ of[n][a][b] \in 0..(power[n] - 1)
                 /\ of[n][a][b] = of[n][c][b] => a = c
                 /\ of[n][a][b] = of[n][a][c] => b = c
           Good == {n \in 0..HashBits : P(n)}
<1>4. 0 \in Good
  <2>1. \A a \in Byte : a < 1 => a = 0
    BY DEF Byte
  <2> QED BY <1>1, <1>2, <1>3, <2>1
<1>5. ASSUME NEW n \in 1..HashBits, n - 1 \in Good PROVE n \in Good
  <2>1. n \in 0..HashBits /\ n - 1 \in 0..HashBits /\ n # 0 /\ P(n - 1)
    BY <1>3, <1>5
  <2>2. PICK p \in Nat : p = power[n - 1] /\ power[n] = 2 * p
    BY <1>1, <2>1
  <2>3. ASSUME NEW a \in Byte, NEW b \in Byte, a < power[n], b < power[n]
        PROVE  \E x \in 0..(p - 1) : /\ x = of[n - 1][a \div 2][b \div 2]
                                     /\ of[n][a][b] = 2 * x + ((a + b) % 2)
    <3>1. a \div 2 \in Byte /\ a \div 2 < p /\ b \div 2 \in Byte /\ b \div 2 < p
      BY <2>2, <2>3, HalfByte
    <3>2. of[n - 1][a \div 2][b \div 2] \in 0..(p - 1)
      BY <2>1, <2>2, <3>1
    <3> QED BY <1>2, <2>1, <3>2
  <2>4. /\ \A a, b, c \in Byte : a < p /\ b < p /\ c < p /\ of[n - 1][a][b] = of[n - 1][c][b]
                                 => a = c
        /\ \A a, b, c \in Byte : a < p /\ b < p /\ c < p /\ of[n - 1][a][b] = of[n - 1][a][c]
                                 => b = c
    BY <2>1, <2>2
  <2>5. ASSUME NEW a \in Byte, NEW b \in Byte, NEW c \in Byte,
               a < power[n], b < power[n], c < power[n]
        PROVE  /\ of[n][a][b] \in 0..(power[n] - 1)
               /\ of[n][a][b] = of[n][c][b] => a = c
               /\ of[n][a][b] = of[n][a][c] => b = c
    <3>0. /\ a \in Nat /\ b \in Nat /\ c \in Nat
          /\ a \div 2 \in Byte /\ a \div 2 < p /\ b \div 2 \in Byte /\ b \div 2 < p
          /\ c \div 2 \in Byte /\ c \div 2 < p
      BY <2>2, <2>5, HalfByte
    <3>1. PICK x \in 0..(p - 1) : /\ x = of[n - 1][a \div 2][b \div 2]
                                  /\ of[n][a][b] = 2 * x + ((a + b) % 2)
      BY <2>3, <2>5
    <3>2. PICK y \in 0..(p - 1) : /\ y = of[n - 1][c \div 2][b \div 2]
                                  /\ of[n][c][b] = 2 * y + ((c + b) % 2)
      BY <2>3, <2>5
    <3>3. PICK z \in 0..(p - 1) : /\ z = of[n - 1][a \div 2][c \div 2]
                                  /\ of[n][a][c] = 2 * z + ((a + c) % 2)
      BY <2>3, <2>5
    <3>4. of[n][a][b] \in 0..(power[n] - 1)
      BY <2>2, <3>0, <3>1
    <3>5. ASSUME of[n][a][b] = of[n][c][b] PROVE a = c
      <4>1. 2 * x + ((a + b) % 2) = 2 * y + ((c + b) % 2) /\ a + b \in Nat /\ c + b \in Nat
        BY <3>0, <3>1, <3>2, <3>5
      <4>2. x = y /\ (a + b) % 2 = (c + b) % 2
        BY <4>1, SameBits
      <4>3. a \div 2 = c \div 2
        BY <2>4, <3>0, <3>1, <3>2, <4>2
      <4> QED BY <3>0, <4>2, <4>3, Halves
    <3>6. ASSUME of[n][a][b] = of[n][a][c] PROVE b = c
      <4>1. 2 * x + ((a + b) % 2) = 2 * z + ((a + c) % 2) /\ a + b \in Nat /\ a + c \in Nat
        BY <3>0, <3>1, <3>3, <3>6
      <4>2. x = z /\ (b + a) % 2 = (c + a) % 2
        BY <3>0, <4>1, SameBits
      <4>3. b \div 2 = c \div 2
        BY <2>4, <3>0, <3>1, <3>3, <4>2
      <4> QED BY <3>0, <4>2, <4>3, Halves
    <3> QED BY <3>4, <3>5, <3>6
  <2> QED BY <2>1, <2>5
<1>6. HashBits \in Good
  <2>1. \A n \in 0..HashBits : n \in Good
    <3> HIDE DEF Good
    <3> QED BY <1>3, <1>4, <1>5, Upward
  <2> QED BY <1>3, <2>1
<1>7. P(HashBits)
  BY <1>6
<1>8. \A a \in Byte : a < power[HashBits]
  BY <1>1, <1>3 DEF Byte
<1> QED BY <1>1, <1>2, <1>7, <1>8 DEF Byte

\* The checksum, byte by byte.
LEMMA ChecksumSteps ==
  ASSUME NEW bytes \in Seq(Byte)
  PROVE  \E hash :
           /\ checksum64(bytes) = hash[Len(bytes)] /\ hash[0] = Seed
           /\ \A n \in 1..Len(bytes) :
                hash[n] = (xor[hash[n - 1]][bytes[n]] * Factor) % HashSize
           /\ \A n \in 0..Len(bytes) : hash[n] \in Byte
<1> DEFINE Following(g, n) == (xor[g[n - 1]][bytes[n]] * Factor) % HashSize
           Is(g, m) == g = [n \in 0..m |-> IF n = 0 THEN Seed ELSE Following(g, n)]
           Good == {m \in Nat : \E g : Is(g, m)}
<1>0. Len(bytes) \in Nat
  OBVIOUS
<1>1. 0 \in Good
  <2>1. Is([n \in 0..0 |-> Seed], 0)
    OBVIOUS
  <2> QED BY <2>1
<1>2. ASSUME NEW m \in 1..Len(bytes), m - 1 \in Good PROVE m \in Good
  <2>1. m \in Nat /\ m - 1 \in Nat
    OBVIOUS
  <2>2. PICK g : Is(g, m - 1)
    BY <1>2
  <2>3. \A n \in 0..(m - 1) : g[n] = IF n = 0 THEN Seed ELSE Following(g, n)
    BY <2>2
  <2> DEFINE h == [n \in 0..m |-> IF n < m THEN g[n] ELSE Following(g, n)]
  <2>4. ASSUME NEW n \in 0..m PROVE h[n] = IF n = 0 THEN Seed ELSE Following(h, n)
    <3>1. CASE n < m
      BY <2>1, <2>3, <3>1
    <3>2. CASE n = m
      BY <2>1, <3>2
    <3> HIDE DEF h, Following
    <3> QED BY <2>1, <3>1, <3>2
  <2>5. Is(h, m)
    BY <2>4
  <2> QED BY <2>1, <2>5
<1>3. Len(bytes) \in Good
  <2> HIDE DEF Good
  <2>1. Len(bytes) \in 0..Len(bytes)
    BY <1>0
  <2> QED BY <1>0, <1>1, <1>2, <2>1, Upward
<1> DEFINE hash == CHOOSE g : Is(g, Len(bytes))
<1>4. Is(hash, Len(bytes))
  BY <1>3
<1>5. checksum64(bytes) = hash[Len(bytes)]
  BY DEF checksum64
<1>6. \A n \in 0..Len(bytes) : hash[n] = IF n = 0 THEN Seed ELSE Following(hash, n)
  BY <1>4
<1> HIDE DEF hash
<1>7. hash[0] = Seed /\ \A n \in 1..Len(bytes) : hash[n] = Following(hash, n)
  BY <1>0, <1>6
<1> DEFINE Small == {n \in 0..Len(bytes) : hash[n] \in Byte}
<1>8. 0 \in Small
  BY <1>0, <1>7, ArchiveAssumption
<1>9. ASSUME NEW n \in 1..Len(bytes), n - 1 \in Small PROVE n \in Small
  <2>1. bytes[n] \in Byte /\ hash[n - 1] \in Byte
    BY <1>9
  <2>2. PICK x \in Nat : x = xor[hash[n - 1]][bytes[n]] * Factor
    <3>1. xor[hash[n - 1]][bytes[n]] \in Nat /\ Factor \in Nat
      BY <2>1, XorFacts, ArchiveAssumption DEF Byte
    <3>2. \A y, z \in Nat : y * z \in Nat
      OBVIOUS
    <3> QED BY <3>1, <3>2
  <2>3. HashSize \in Nat \ {0}
    BY HashPower, ArchiveAssumption
  <2>4. x % HashSize \in Byte
    BY <2>2, <2>3 DEF Byte
  <2>5. n \in 0..Len(bytes)
    OBVIOUS
  <2> QED BY <1>7, <2>2, <2>4, <2>5
<1>10. \A n \in 0..Len(bytes) : n \in Small
  <2> HIDE DEF Small
  <2> QED BY <1>0, <1>8, <1>9, Upward
<1> QED BY <1>5, <1>7, <1>10

\* It sees a changed byte, wherever that is.
LEMMA ChecksumSees ==
  ASSUME NEW bytes \in Seq(Byte), NEW other \in Seq(Byte), Len(other) = Len(bytes),
         NEW i \in 1..Len(bytes), other[i] # bytes[i],
         \A n \in 1..Len(bytes) : n # i => other[n] = bytes[n]
  PROVE  checksum64(other) # checksum64(bytes)
<1> DEFINE length == Len(bytes)
<1>0. length \in Nat
  OBVIOUS
<1>1. PICK g : /\ checksum64(bytes) = g[length] /\ g[0] = Seed
               /\ \A n \in 1..length : g[n] = (xor[g[n - 1]][bytes[n]] * Factor) % HashSize
               /\ \A n \in 0..length : g[n] \in Byte
  BY ChecksumSteps
<1>2. PICK h : /\ checksum64(other) = h[length] /\ h[0] = Seed
               /\ \A n \in 1..length : h[n] = (xor[h[n - 1]][other[n]] * Factor) % HashSize
               /\ \A n \in 0..length : h[n] \in Byte
  BY ChecksumSteps
<1> DEFINE Good == {n \in 0..length : g[n] = h[n] <=> n < i}
<1>3. 0 \in Good
  BY <1>1, <1>2
<1>4. ASSUME NEW n \in 1..length, n - 1 \in Good PROVE n \in Good
  <2>1. n \in 0..length /\ n - 1 \in 0..length /\ bytes[n] \in Byte /\ other[n] \in Byte
    OBVIOUS
  <2> HIDE DEF length
  <2>2. CASE n < i
    <3>1. bytes[n] = other[n] /\ g[n - 1] = h[n - 1]
      BY <1>4, <2>1, <2>2 DEF length
    <3> QED BY <1>1, <1>2, <2>1, <2>2, <3>1
  <2>3. CASE ~(n < i)
    <3>1. SUFFICES ASSUME g[n] = h[n] PROVE FALSE
      BY <2>1, <2>3
    <3>2. g[n - 1] \in Byte /\ h[n - 1] \in Byte
      BY <1>1, <1>2, <2>1
    <3>3. xor[g[n - 1]][bytes[n]] = xor[h[n - 1]][other[n]]
      <4>1. /\ xor[g[n - 1]][bytes[n]] \in Byte /\ xor[h[n - 1]][other[n]] \in Byte
        BY <2>1, <3>2, XorFacts
      <4> QED BY <1>1, <1>2, <3>1, <4>1, TimesFactor
    <3>4. CASE n = i
      <4>1. g[n - 1] = h[n - 1]
        BY <1>4, <2>1, <3>4
      <4> QED BY <2>1, <3>2, <3>3, <3>4, <4>1, XorFacts
    <3>5. CASE n # i
      <4>1. ~(n - 1 < i)
        BY <2>1, <2>3, <3>5
      <4>2. g[n - 1] # h[n - 1] /\ bytes[n] = other[n]
        BY <1>4, <2>1, <3>5, <4>1 DEF length
      <4> QED BY <2>1, <3>2, <3>3, <4>2, XorFacts
    <3> QED BY <3>4, <3>5
  <2> QED BY <2>2, <2>3
<1>5. \A n \in 0..length : n \in Good
  <2> HIDE DEF Good
  <2> QED BY <1>0, <1>3, <1>4, Upward
<1>6. length \in Good /\ ~(length < i)
  BY <1>0, <1>5
<1> QED BY <1>1, <1>2, <1>6

\* What FlattenSeq builds, sequence by sequence.
LEMMA Flattened ==
  ASSUME NEW seqs \in Seq(Seq(Nat))
  PROVE  \E built :
           /\ FlattenSeq(seqs) = built[Len(seqs)] /\ built[0] = <<>>
           /\ \A n \in 1..Len(seqs) : built[n] = built[n - 1] \o seqs[n]
           /\ \A n \in 0..Len(seqs) : built[n] \in Seq(Nat)
<1> DEFINE length == Len(seqs)
           Following(g, n) == IF n = 1 THEN seqs[n] ELSE g[n - 1] \o seqs[n]
           Is(g, m) == g = [n \in 1..m |-> Following(g, n)]
           Good == {m \in Nat : \E g : Is(g, m)}
<1>0. length \in Nat /\ \A n \in 1..length : seqs[n] \in Seq(Nat)
  OBVIOUS
<1>1. 0 \in Good
  <2>1. 1..0 = {}
    OBVIOUS
  <2>2. Is([n \in {} |-> 0], 0)
    BY <2>1
  <2> QED BY <2>2
<1>2. ASSUME NEW m \in 1..length, m - 1 \in Good PROVE m \in Good
  <2>1. m \in Nat /\ m - 1 \in Nat
    BY <1>0
  <2>2. PICK g : Is(g, m - 1)
    BY <1>2
  <2>3. \A n \in 1..(m - 1) : g[n] = Following(g, n)
    BY <2>2
  <2> DEFINE h == [n \in 1..m |-> IF n < m THEN g[n] ELSE Following(g, n)]
  <2>4. ASSUME NEW n \in 1..m PROVE h[n] = Following(h, n)
    <3>1. n = 1 \/ h[n - 1] = g[n - 1]
      <4> HIDE DEF Following
      <4> QED BY <2>1
    <3>2. Following(h, n) = Following(g, n)
      <4> HIDE DEF h
      <4> QED BY <3>1
    <3> HIDE DEF Following
    <3>3. CASE n < m
      BY <2>1, <2>3, <3>2, <3>3
    <3>4. CASE n = m
      BY <2>1, <3>2, <3>4
    <3> HIDE DEF h
    <3> QED BY <2>1, <3>3, <3>4
  <2>5. Is(h, m)
    <3> HIDE DEF Following
    <3> QED BY <2>4
  <2> QED BY <2>1, <2>5
<1>3. length \in Good
  <2>1. length \in 0..length
    BY <1>0
  <2> HIDE DEF Good, length
  <2> QED BY <1>0, <1>1, <1>2, <2>1, Upward
<1> DEFINE flatten == CHOOSE g : Is(g, length)
           built == [n \in 0..length |-> IF n = 0 THEN <<>> ELSE flatten[n]]
<1>4. Is(flatten, length)
  BY <1>3
<1>5. FlattenSeq(seqs) = IF length = 0 THEN seqs ELSE flatten[length]
  BY DEF FlattenSeq
<1>6. \A n \in 1..length : flatten[n] = Following(flatten, n)
  <2> HIDE DEF Following, flatten
  <2> QED BY <1>4
<1> HIDE DEF flatten
<1> DEFINE Whole == {n \in 0..length : built[n] \in Seq(Nat)
                                        /\ (n # 0 => built[n] = built[n - 1] \o seqs[n])}
<1>7. 0 \in Whole
  BY <1>0
<1>8. ASSUME NEW n \in 1..length, n - 1 \in Whole PROVE n \in Whole
  <2>1. n \in 0..length /\ n - 1 \in 0..length /\ built[n - 1] \in Seq(Nat)
    BY <1>0, <1>8
  <2>2. built[n] = flatten[n] /\ (n # 1 => built[n - 1] = flatten[n - 1]) /\ built[0] = <<>>
    BY <1>0, <2>1
  <2> HIDE DEF built
  <2>3. built[n] = built[n - 1] \o seqs[n]
    <3>1. CASE n = 1
      <4>1. seqs[n] = <<>> \o seqs[n]
        BY <1>0
      <4>2. built[n - 1] = <<>> /\ flatten[n] = seqs[n]
        BY <1>6, <2>2, <3>1
      <4> QED BY <2>2, <4>1, <4>2
    <3>2. CASE n # 1
      BY <1>6, <2>2, <3>2
    <3> QED BY <3>1, <3>2
  <2>4. built[n] \in Seq(Nat)
    BY <1>0, <2>1, <2>3
  <2> QED BY <2>1, <2>3, <2>4
<1>9. \A n \in 0..length : n \in Whole
  <2> HIDE DEF Whole, length
  <2> QED BY <1>0, <1>7, <1>8, Upward
<1>10. FlattenSeq(seqs) = built[length] /\ built[0] = <<>>
  <2>1. CASE length = 0
    <3>1. seqs = <<>>
      BY <2>1
    <3> QED BY <1>5, <2>1, <3>1
  <2>2. CASE length # 0
    BY <1>0, <1>5, <2>2
  <2> QED BY <2>1, <2>2
<1>11. (\A n \in 1..length : built[n] = built[n - 1] \o seqs[n])
         /\ (\A n \in 0..length : built[n] \in Seq(Nat))
  <2> HIDE DEF built
  <2>1. \A n \in 1..length : n \in 0..length /\ n # 0
    BY <1>0
  <2> QED BY <1>9, <2>1
<1> HIDE DEF built
<1> QED BY <1>10, <1>11

-----------------------------------------------------------------------------
(* What the reader does with what the writer wrote, and what it took. *)

\* The bytes of a file that may be longer than a byte, and the strings among them.
Bytes == Seq(Nat)
Unicode == {t \in Bytes : NotUnicode \notin ToSet(t)}

\* What is read is never taken for an error.
LEMMA ReadIsNotFailed ==
  ASSUME NEW r \in Bytes, NEW v
  PROVE  r # Refused /\ [value |-> v, rest |-> r] # Failed /\ r # None
BY ArchiveAssumption DEF Failed, Bytes

\* The sequences in front of another one and behind it.
LEMMA Joined ==
  ASSUME NEW s \in Bytes, NEW r \in Bytes
  PROVE  /\ s \o r \in Bytes /\ Len(s \o r) = Len(s) + Len(r)
         /\ SubSeq(s \o r, 1, Len(s)) = s
         /\ SubSeq(s \o r, Len(s) + 1, Len(s \o r)) = r
<1>1. /\ s \o r \in Bytes /\ Len(s \o r) = Len(s) + Len(r)
      /\ \A i \in 1..(Len(s) + Len(r)) :
           (s \o r)[i] = IF i <= Len(s) THEN s[i] ELSE r[i - Len(s)]
  BY ConcatProperties DEF Bytes
<1> DEFINE all == s \o r
           front == SubSeq(all, 1, Len(s))
           back == SubSeq(all, Len(s) + 1, Len(all))
<1>2. Len(s) \in Nat /\ Len(r) \in Nat /\ Len(all) = Len(s) + Len(r)
  BY <1>1 DEF Bytes
<1>3. \A i \in 1..Len(all) : all[i] \in Nat
  BY <1>1 DEF Bytes
<1> HIDE DEF all
<1>4. front \in Bytes /\ Len(front) = Len(s) /\ \A i \in 1..Len(s) : front[i] = all[i]
  <2>1. \A i \in 1..Len(s) : all[i] \in Nat
    BY <1>2, <1>3
  <2> QED BY <1>2, <2>1, SubSeqProperties DEF Bytes
<1>5. /\ back \in Bytes /\ Len(back) = Len(r)
      /\ \A i \in 1..Len(r) : back[i] = all[Len(s) + i]
  <2>1. \A i \in (Len(s) + 1)..Len(all) : all[i] \in Nat
    BY <1>2, <1>3
  <2>2. /\ back \in Seq(Nat)
        /\ Len(back) = IF Len(s) + 1 <= Len(all) THEN Len(all) - (Len(s) + 1) + 1 ELSE 0
        /\ \A i \in 1..(Len(all) - (Len(s) + 1) + 1) : back[i] = all[Len(s) + 1 + i - 1]
    BY <1>2, <2>1, SubSeqProperties
  <2> HIDE DEF back
  <2>3. /\ Len(all) - (Len(s) + 1) + 1 = Len(r)
        /\ (IF Len(s) + 1 <= Len(all) THEN Len(all) - (Len(s) + 1) + 1 ELSE 0) = Len(r)
    BY <1>2
  <2>4. \A i \in 1..Len(r) : Len(s) + 1 + i - 1 = Len(s) + i
    BY <1>2
  <2> QED BY <2>2, <2>3, <2>4 DEF Bytes
<1>6. front = s
  <2>1. \A i \in 1..Len(s) : all[i] = s[i]
    BY <1>1, <1>2 DEF all
  <2> HIDE DEF front
  <2> QED BY <1>4, <2>1, SeqEqual DEF Bytes
<1>7. back = r
  <2>1. \A i \in 1..Len(r) : all[Len(s) + i] = r[i]
    BY <1>1, <1>2 DEF all
  <2> HIDE DEF back
  <2> QED BY <1>5, <2>1, SeqEqual DEF Bytes
<1> QED BY <1>1, <1>6, <1>7 DEF all

\* A sequence is what comes before a place and what comes after it.
LEMMA Parted ==
  ASSUME NEW s \in Bytes, NEW n \in 0..Len(s)
  PROVE  /\ SubSeq(s, 1, n) \in Bytes /\ Len(SubSeq(s, 1, n)) = n
         /\ SubSeq(s, n + 1, Len(s)) \in Bytes
         /\ s = SubSeq(s, 1, n) \o SubSeq(s, n + 1, Len(s))
<1>1. Len(s) \in Nat /\ n \in Nat /\ n <= Len(s) /\ \A i \in 1..Len(s) : s[i] \in Nat
  BY DEF Bytes
<1>2. SubSeq(s, 1, n) \in Bytes /\ Len(SubSeq(s, 1, n)) = n
  <2>1. \A i \in 1..n : s[i] \in Nat
    BY <1>1
  <2> QED BY <1>1, <2>1, SubSeqProperties DEF Bytes
<1>3. SubSeq(s, n + 1, Len(s)) \in Bytes
  <2>1. \A i \in (n + 1)..Len(s) : s[i] \in Nat
    BY <1>1
  <2> QED BY <1>1, <2>1, SubSeqProperties DEF Bytes
<1>4. SubSeq(s, 1, n) \o SubSeq(s, n + 1, Len(s)) = SubSeq(s, 1, Len(s))
  <2>1. 1 \in 1..(Len(s) + 1) /\ n \in (1 - 1)..Len(s) /\ Len(s) \in n..Len(s)
    BY <1>1
  <2> QED BY <2>1, ConcatAdjacentSubSeq DEF Bytes
<1>5. SubSeq(s, 1, Len(s)) = s
  BY SubSeqFull DEF Bytes
<1> QED BY <1>2, <1>3, <1>4, <1>5

\* How sequences are grouped when they are joined does not matter.
LEMMA Grouped ==
  ASSUME NEW s \in Bytes, NEW t \in Bytes, NEW u \in Bytes
  PROVE  (s \o t) \o u = s \o (t \o u)
BY ConcatAssociative DEF Bytes

\* A number and what follows it.
LEMMA InFront ==
  ASSUME NEW n \in Nat, NEW r \in Bytes
  PROVE  /\ <<n>> \o r \in Bytes /\ Len(<<n>> \o r) = Len(r) + 1
         /\ <<n>> \o r # <<>> /\ (<<n>> \o r)[1] = n /\ Tail(<<n>> \o r) = r
<1>1. <<n>> \in Bytes /\ Len(<<n>>) = 1 /\ r \in Seq(Nat) /\ Len(r) \in Nat
  BY DEF Bytes
<1>2. /\ <<n>> \o r \in Bytes /\ Len(<<n>> \o r) = Len(r) + 1
      /\ \A i \in 1..(Len(r) + 1) : (<<n>> \o r)[i] = IF i <= 1 THEN n ELSE r[i - 1]
  BY <1>1, ConcatProperties DEF Bytes
<1>3. <<n>> \o r # <<>> /\ (<<n>> \o r)[1] = n
  BY <1>1, <1>2
<1>4. Tail(<<n>> \o r) = SubSeq(<<n>> \o r, 2, Len(<<n>> \o r))
  BY <1>2, <1>3, TailIsSubSeq DEF Bytes
<1>5. SubSeq(<<n>> \o r, 1 + 1, Len(<<n>> \o r)) = r
  BY <1>1, Joined
<1> QED BY <1>2, <1>3, <1>4, <1>5

\* A number that was written is read, and what follows it is left.
LEMMA NumberReads ==
  ASSUME NEW n \in Nat, NEW r \in Bytes
  PROVE  Number(<<n>> \o r) = [value |-> n, rest |-> r]
<1>1. <<n>> \o r # Refused
  BY InFront, ReadIsNotFailed
<1> QED BY <1>1, InFront DEF Number

\* What Number took is the first byte, and more bytes change nothing.
LEMMA NumberTakes ==
  ASSUME NEW s \in Bytes, Number(s) # Failed
  PROVE  \E n \in Nat, r \in Bytes : s = <<n>> \o r /\ Number(s) = [value |-> n, rest |-> r]
<1>1. s # <<>> /\ Number(s) = [value |-> s[1], rest |-> Tail(s)]
  BY DEF Number
<1>2. Len(s) \in Nat \ {0} /\ s[1] \in Nat /\ 1 \in 0..Len(s)
  BY <1>1 DEF Bytes
<1>3. SubSeq(s, 1, 1) \in Bytes /\ Len(SubSeq(s, 1, 1)) = 1 /\ SubSeq(s, 2, Len(s)) \in Bytes
        /\ s = SubSeq(s, 1, 1) \o SubSeq(s, 2, Len(s))
  <2>1. /\ SubSeq(s, 1, 1) \in Bytes /\ Len(SubSeq(s, 1, 1)) = 1
        /\ SubSeq(s, 1 + 1, Len(s)) \in Bytes
        /\ s = SubSeq(s, 1, 1) \o SubSeq(s, 1 + 1, Len(s))
    BY <1>2, Parted
  <2>2. 1 + 1 = 2
    OBVIOUS
  <2> QED BY <2>1, <2>2
<1>4. SubSeq(s, 1, 1) = <<s[1]>>
  <2>1. SubSeq(s, 1, 1)[1] = s[1]
    BY <1>2, SubSeqProperties DEF Bytes
  <2>2. <<s[1]>> \in Bytes /\ Len(<<s[1]>>) = 1 /\ <<s[1]>>[1] = s[1]
    BY <1>2 DEF Bytes
  <2>3. \A i \in 1..1 : SubSeq(s, 1, 1)[i] = <<s[1]>>[i]
    BY <2>1, <2>2
  <2> QED BY <1>3, <2>2, <2>3, SeqEqual DEF Bytes
<1>5. Tail(s) = SubSeq(s, 2, Len(s))
  BY <1>1, TailIsSubSeq DEF Bytes
<1> QED BY <1>1, <1>2, <1>3, <1>4, <1>5

\* Every operation of the reader fails where nothing is left.
LEMMA NothingFails ==
  /\ Number(Refused) = Failed /\ Number(<<>>) = Failed /\ Failed.rest = Refused
  /\ String(Refused) = Failed /\ String(<<>>) = Failed
  /\ \A allowed : allowed \subseteq Nat => Tag(Refused, allowed) = Failed
  /\ Expiration(Refused) = Failed /\ Metadata(Refused) = Failed
<1>1. Number(Refused) = Failed /\ Number(<<>>) = Failed /\ Failed.rest = Refused
      /\ Failed.value = None /\ None \notin Nat
  BY ArchiveAssumption DEF Number, Failed
<1>2. \A allowed : allowed \subseteq Nat => Tag(Refused, allowed) = Failed
  BY <1>1 DEF Tag
<1>3. Tag(Refused, {0, 1}) = Failed /\ None # 0
  BY <1>1, <1>2
<1> QED BY <1>1, <1>2, <1>3 DEF String, Expiration, Metadata

\* The bytes of a string.
LEMMA WrittenBytes ==
  ASSUME NEW t \in Bytes
  PROVE  Written(t) \in Bytes /\ Len(Written(t)) = Len(t) + 1
BY InFront DEF Written, Bytes

\* A string that was written is read back, unless it is too long.
LEMMA StringReads ==
  ASSUME NEW t \in Unicode, NEW r \in Bytes
  PROVE  String(Written(t) \o r) = IF Len(t) <= MaximumText THEN [value |-> t, rest |-> r]
                                   ELSE Failed
<1>1. t \in Bytes /\ NotUnicode \notin ToSet(t) /\ Len(t) \in Nat
  BY DEF Unicode, Bytes
<1>2. Written(t) \o r = <<Len(t)>> \o (t \o r)
  <2>1. <<Len(t)>> \in Bytes
    BY <1>1 DEF Bytes
  <2> QED BY <1>1, <2>1, Grouped DEF Written
<1>3. /\ t \o r \in Bytes /\ Len(t \o r) = Len(t) + Len(r) /\ Len(r) \in Nat
      /\ SubSeq(t \o r, 1, Len(t)) = t /\ SubSeq(t \o r, Len(t) + 1, Len(t \o r)) = r
  BY <1>1, Joined DEF Bytes
<1>4. Number(Written(t) \o r) = [value |-> Len(t), rest |-> t \o r]
  BY <1>1, <1>2, <1>3, NumberReads
<1>5. [value |-> Len(t), rest |-> t \o r] # Failed
  BY <1>3, ReadIsNotFailed
<1>6. ~(Len(t) > Len(t \o r)) /\ (Len(t) > MaximumText <=> ~(Len(t) <= MaximumText))
  BY <1>1, <1>3, ArchiveAssumption
<1> DEFINE all == Written(t) \o r
           length == Number(all)
<1>7. length.value = Len(t) /\ length.rest = t \o r /\ length # Failed
  BY <1>4, <1>5
<1>8. String(all) =
        IF \/ length = Failed \/ length.value > MaximumText
           \/ length.value > Len(length.rest)
           \/ NotUnicode \in ToSet(SubSeq(length.rest, 1, length.value))
        THEN Failed
        ELSE [value |-> SubSeq(length.rest, 1, length.value),
              rest  |-> SubSeq(length.rest, length.value + 1, Len(length.rest))]
  BY DEF String
<1> HIDE DEF length
<1> QED BY <1>1, <1>3, <1>6, <1>7, <1>8

\* What String took is a short string and as many bytes as it is written in.
LEMMA StringTakes ==
  ASSUME NEW s \in Bytes, String(s) # Failed
  PROVE  \E t \in Unicode, r \in Bytes :
           /\ s = Written(t) \o r /\ Len(t) <= MaximumText
           /\ String(s) = [value |-> t, rest |-> r]
<1> DEFINE length == Number(s)
           text == SubSeq(length.rest, 1, length.value)
           left == SubSeq(length.rest, length.value + 1, Len(length.rest))
<1>1. /\ length # Failed /\ ~(length.value > MaximumText) /\ ~(length.value > Len(length.rest))
      /\ NotUnicode \notin ToSet(text) /\ String(s) = [value |-> text, rest |-> left]
  BY DEF String
<1>2. PICK n \in Nat, u \in Bytes : s = <<n>> \o u /\ length = [value |-> n, rest |-> u]
  BY <1>1, NumberTakes
<1>3. length.value = n /\ length.rest = u
  BY <1>2
<1> HIDE DEF length
<1>4. n \in 0..Len(u) /\ Len(u) \in Nat /\ MaximumText \in Nat
  BY <1>1, <1>3, ArchiveAssumption DEF Bytes
<1>5. text \in Bytes /\ Len(text) = n /\ left \in Bytes /\ u = text \o left
  BY <1>3, <1>4, Parted
<1> HIDE DEF text, left
<1>6. text \in Unicode
  BY <1>1, <1>5 DEF Unicode
<1>7. s = Written(text) \o left
  <2>1. <<n>> \in Bytes
    BY DEF Bytes
  <2>2. <<n>> \o (text \o left) = (<<n>> \o text) \o left
    BY <1>5, <2>1, Grouped
  <2> QED BY <1>2, <1>5, <2>2 DEF Written
<1>8. Len(text) <= MaximumText
  BY <1>1, <1>3, <1>4, <1>5
<1> QED BY <1>1, <1>5, <1>6, <1>7, <1>8

\* The tags of a cookie.
LEMMA TagReads ==
  ASSUME NEW n \in Nat, NEW r \in Bytes, NEW allowed, n \in allowed
  PROVE  Tag(<<n>> \o r, allowed) = [value |-> n, rest |-> r]
BY NumberReads DEF Tag

\* What Tag took is one of the numbers that it allows.
LEMMA TagTakes ==
  ASSUME NEW s \in Bytes, NEW allowed, allowed \subseteq Nat, Tag(s, allowed) # Failed
  PROVE  \E n \in allowed, r \in Bytes :
           s = <<n>> \o r /\ Tag(s, allowed) = [value |-> n, rest |-> r]
<1>1. Number(s).value \in allowed /\ Tag(s, allowed) = Number(s)
  BY DEF Tag
<1>2. PICK n \in Nat, r \in Bytes : s = <<n>> \o r /\ Number(s) = [value |-> n, rest |-> r]
  BY <1>1, NumberTakes
<1>3. n \in allowed
  BY <1>1, <1>2
<1> QED BY <1>1, <1>2, <1>3

Dated(e) == IF e = None THEN <<0>> ELSE <<1, e>>

\* The bytes of an expiration.
LEMMA DatedBytes ==
  ASSUME NEW e \in Nat \cup {None}
  PROVE  Dated(e) \in Bytes
BY DEF Dated, Bytes

\* An expiration that was written is read back.
LEMMA ExpirationReads ==
  ASSUME NEW e \in Nat \cup {None}, NEW r \in Bytes
  PROVE  Expiration(Dated(e) \o r) = [value |-> e, rest |-> r]
<1>1. CASE e = None
  <2>1. Tag(<<0>> \o r, {0, 1}) = [value |-> 0, rest |-> r]
    BY TagReads
  <2> QED BY <1>1, <2>1 DEF Expiration, Dated
<1>2. CASE e # None
  <2>1. e \in Nat /\ <<e>> \o r \in Bytes
    BY <1>2, InFront
  <2>2. <<1, e>> \o r = <<1>> \o (<<e>> \o r)
    <3>1. <<1, e>> = <<1>> \o <<e>> /\ <<1>> \in Bytes /\ <<e>> \in Bytes
      BY <2>1 DEF Bytes
    <3> QED BY <3>1, Grouped
  <2>3. Tag(<<1>> \o (<<e>> \o r), {0, 1}) = [value |-> 1, rest |-> <<e>> \o r]
    BY <2>1, TagReads
  <2>4. Number(<<e>> \o r) = [value |-> e, rest |-> r]
    BY <2>1, NumberReads
  <2> DEFINE tag == Tag(Dated(e) \o r, {0, 1})
  <2>5. tag = [value |-> 1, rest |-> <<e>> \o r]
    BY <1>2, <2>2, <2>3 DEF Dated
  <2>6. Expiration(Dated(e) \o r) =
          IF tag.value = 0 THEN [tag EXCEPT !.value = None] ELSE Number(tag.rest)
    BY DEF Expiration
  <2>7. tag.value = 1 /\ tag.rest = <<e>> \o r
    BY <2>5
  <2> HIDE DEF tag
  <2> QED BY <2>4, <2>6, <2>7
<1> QED BY <1>1, <1>2

\* What Expiration took is as long as it is written.
LEMMA ExpirationTakes ==
  ASSUME NEW s \in Bytes, Expiration(s) # Failed
  PROVE  \E e \in Nat \cup {None}, r \in Bytes :
           s = Dated(e) \o r /\ Expiration(s) = [value |-> e, rest |-> r]
<1> DEFINE tag == Tag(s, {0, 1})
<1>1. tag # Failed
  <2>1. Number(Failed.rest) = Failed /\ Failed.value # 0
    BY NothingFails, ArchiveAssumption DEF Failed
  <2> QED BY <2>1 DEF Expiration
<1>2. PICK n \in {0, 1}, u \in Bytes : s = <<n>> \o u /\ tag = [value |-> n, rest |-> u]
  <2>1. {0, 1} \subseteq Nat
    OBVIOUS
  <2> QED BY <1>1, <2>1, TagTakes
<1>3. CASE n = 0
  <2>1. Expiration(s) = [value |-> None, rest |-> u]
    BY <1>2, <1>3 DEF Expiration
  <2> QED BY <1>2, <1>3, <2>1 DEF Dated
<1>4. CASE n = 1
  <2>1. Expiration(s) = Number(u)
    BY <1>2, <1>4 DEF Expiration
  <2>2. PICK e \in Nat, r \in Bytes : u = <<e>> \o r /\ Number(u) = [value |-> e, rest |-> r]
    BY <2>1, NumberTakes
  <2>3. e # None
    BY ArchiveAssumption
  <2>4. s = <<1, e>> \o r
    <3>1. <<1, e>> = <<1>> \o <<e>> /\ <<1>> \in Bytes /\ <<e>> \in Bytes
      BY DEF Bytes
    <3> QED BY <1>2, <1>4, <2>2, <3>1, Grouped
  <2> QED BY <2>1, <2>2, <2>3, <2>4 DEF Dated
<1> QED BY <1>2, <1>3, <1>4

\* What Entries computes, round by round.
LEMMA EntriesDefined ==
  ASSUME NEW bytes, NEW count \in Nat
  PROVE  \E read :
           /\ Entries(bytes, count) = read[count]
           /\ read[0] = [value |-> <<>>, rest |-> bytes]
           /\ \A i \in 1..count : read[i] = NextEntry(read[i - 1])
<1> DEFINE start == [value |-> <<>>, rest |-> bytes]
           Is(g, m) == g = [i \in 0..m |-> IF i = 0 THEN start ELSE NextEntry(g[i - 1])]
           Good == {m \in Nat : \E g : Is(g, m)}
<1> HIDE DEF start
<1>1. 0 \in Good
  <2>1. Is([i \in 0..0 |-> start], 0)
    OBVIOUS
  <2> QED BY <2>1
<1>2. ASSUME NEW m \in 1..count, m - 1 \in Good PROVE m \in Good
  <2>1. m \in Nat /\ m - 1 \in Nat
    OBVIOUS
  <2>2. PICK g : Is(g, m - 1)
    BY <1>2
  <2>3. \A i \in 0..(m - 1) : g[i] = IF i = 0 THEN start ELSE NextEntry(g[i - 1])
    BY <2>2
  <2> DEFINE h == [i \in 0..m |-> IF i < m THEN g[i] ELSE NextEntry(g[i - 1])]
  <2>4. ASSUME NEW i \in 0..m PROVE h[i] = IF i = 0 THEN start ELSE NextEntry(h[i - 1])
    <3>1. CASE i < m
      BY <2>1, <2>3, <3>1
    <3>2. CASE i = m
      BY <2>1, <3>2
    <3> HIDE DEF h
    <3> QED BY <2>1, <3>1, <3>2
  <2>5. Is(h, m)
    BY <2>4
  <2> QED BY <2>1, <2>5
<1>3. count \in Good
  <2> HIDE DEF Good
  <2>1. count \in 0..count
    OBVIOUS
  <2> QED BY <1>1, <1>2, <2>1, Upward
<1> DEFINE read == CHOOSE g : Is(g, count)
<1>4. Is(read, count)
  BY <1>3
<1>5. Entries(bytes, count) = read[count]
  BY DEF Entries, start
<1>6. \A i \in 0..count : read[i] = IF i = 0 THEN start ELSE NextEntry(read[i - 1])
  BY <1>4
<1> HIDE DEF read
<1> QED BY <1>5, <1>6 DEF start

\* One round more is one entry more.
LEMMA EntriesStep ==
  ASSUME NEW bytes, NEW count \in Nat
  PROVE  /\ Entries(bytes, 0) = [value |-> <<>>, rest |-> bytes]
         /\ Entries(bytes, count + 1) = NextEntry(Entries(bytes, count))
<1>1. PICK f : /\ Entries(bytes, count) = f[count]
               /\ f[0] = [value |-> <<>>, rest |-> bytes]
               /\ \A i \in 1..count : f[i] = NextEntry(f[i - 1])
  BY EntriesDefined
<1>2. PICK g : /\ Entries(bytes, count + 1) = g[count + 1]
               /\ g[0] = [value |-> <<>>, rest |-> bytes]
               /\ \A i \in 1..(count + 1) : g[i] = NextEntry(g[i - 1])
  BY EntriesDefined
<1> DEFINE Good == {i \in 0..count : f[i] = g[i]}
<1>3. 0 \in Good
  BY <1>1, <1>2
<1>4. ASSUME NEW i \in 1..count, i - 1 \in Good PROVE i \in Good
  BY <1>1, <1>2, <1>4
<1>5. \A i \in 0..count : i \in Good
  <2> HIDE DEF Good
  <2> QED BY <1>3, <1>4, Upward
<1>6. f[count] = g[count] /\ count + 1 \in 1..(count + 1) /\ count + 1 - 1 = count
  BY <1>5
<1>7. Entries(bytes, count + 1) = NextEntry(Entries(bytes, count))
  BY <1>1, <1>2, <1>6
<1>8. Entries(bytes, 0) = [value |-> <<>>, rest |-> bytes]
  <2>1. 0 \in Nat
    OBVIOUS
  <2>2. PICK h : Entries(bytes, 0) = h[0] /\ h[0] = [value |-> <<>>, rest |-> bytes]
    BY <2>1, EntriesDefined
  <2> QED BY <2>2
<1> QED BY <1>7, <1>8

\* What Cookies computes, round by round.
LEMMA CookiesDefined ==
  ASSUME NEW bytes, NEW count \in Nat
  PROVE  \E read :
           /\ Cookies(bytes, count) = read[count]
           /\ read[0] = [value |-> <<>>, rest |-> bytes]
           /\ \A i \in 1..count : read[i] = NextCookie(read[i - 1])
<1> DEFINE start == [value |-> <<>>, rest |-> bytes]
           Is(g, m) == g = [i \in 0..m |-> IF i = 0 THEN start ELSE NextCookie(g[i - 1])]
           Good == {m \in Nat : \E g : Is(g, m)}
<1> HIDE DEF start
<1>1. 0 \in Good
  <2>1. Is([i \in 0..0 |-> start], 0)
    OBVIOUS
  <2> QED BY <2>1
<1>2. ASSUME NEW m \in 1..count, m - 1 \in Good PROVE m \in Good
  <2>1. m \in Nat /\ m - 1 \in Nat
    OBVIOUS
  <2>2. PICK g : Is(g, m - 1)
    BY <1>2
  <2>3. \A i \in 0..(m - 1) : g[i] = IF i = 0 THEN start ELSE NextCookie(g[i - 1])
    BY <2>2
  <2> DEFINE h == [i \in 0..m |-> IF i < m THEN g[i] ELSE NextCookie(g[i - 1])]
  <2>4. ASSUME NEW i \in 0..m PROVE h[i] = IF i = 0 THEN start ELSE NextCookie(h[i - 1])
    <3>1. CASE i < m
      BY <2>1, <2>3, <3>1
    <3>2. CASE i = m
      BY <2>1, <3>2
    <3> HIDE DEF h
    <3> QED BY <2>1, <3>1, <3>2
  <2>5. Is(h, m)
    BY <2>4
  <2> QED BY <2>1, <2>5
<1>3. count \in Good
  <2> HIDE DEF Good
  <2>1. count \in 0..count
    OBVIOUS
  <2> QED BY <1>1, <1>2, <2>1, Upward
<1> DEFINE read == CHOOSE g : Is(g, count)
<1>4. Is(read, count)
  BY <1>3
<1>5. Cookies(bytes, count) = read[count]
  BY DEF Cookies, start
<1>6. \A i \in 0..count : read[i] = IF i = 0 THEN start ELSE NextCookie(read[i - 1])
  BY <1>4
<1> HIDE DEF read
<1> QED BY <1>5, <1>6 DEF start

\* One round more is one cookie more.
LEMMA CookiesStep ==
  ASSUME NEW bytes, NEW count \in Nat
  PROVE  /\ Cookies(bytes, 0) = [value |-> <<>>, rest |-> bytes]
         /\ Cookies(bytes, count + 1) = NextCookie(Cookies(bytes, count))
<1>1. PICK f : /\ Cookies(bytes, count) = f[count]
               /\ f[0] = [value |-> <<>>, rest |-> bytes]
               /\ \A i \in 1..count : f[i] = NextCookie(f[i - 1])
  BY CookiesDefined
<1>2. PICK g : /\ Cookies(bytes, count + 1) = g[count + 1]
               /\ g[0] = [value |-> <<>>, rest |-> bytes]
               /\ \A i \in 1..(count + 1) : g[i] = NextCookie(g[i - 1])
  BY CookiesDefined
<1> DEFINE Good == {i \in 0..count : f[i] = g[i]}
<1>3. 0 \in Good
  BY <1>1, <1>2
<1>4. ASSUME NEW i \in 1..count, i - 1 \in Good PROVE i \in Good
  BY <1>1, <1>2, <1>4
<1>5. \A i \in 0..count : i \in Good
  <2> HIDE DEF Good
  <2> QED BY <1>3, <1>4, Upward
<1>6. f[count] = g[count] /\ count + 1 \in 1..(count + 1) /\ count + 1 - 1 = count
  BY <1>5
<1>7. Cookies(bytes, count + 1) = NextCookie(Cookies(bytes, count))
  BY <1>1, <1>2, <1>6
<1>8. Cookies(bytes, 0) = [value |-> <<>>, rest |-> bytes]
  <2>1. 0 \in Nat
    OBVIOUS
  <2>2. PICK h : Cookies(bytes, 0) = h[0] /\ h[0] = [value |-> <<>>, rest |-> bytes]
    BY <2>1, CookiesDefined
  <2> QED BY <2>2
<1> QED BY <1>7, <1>8

Short(t) == Len(t) <= MaximumText

\* The metadata of a cookie that was read or written.
Metas == UNION {[K -> Unicode] : K \in {k \in SUBSET Unicode : IsFiniteSet(k)}}

Grown(m, k, t) == [x \in DOMAIN m \cup {k} |-> IF x = k THEN t ELSE m[x]]

\* One entry.
LEMMA EntryReads ==
  ASSUME NEW k \in Unicode, NEW t \in Unicode, NEW r \in Bytes, NEW m, k \notin DOMAIN m
  PROVE  NextEntry([value |-> m, rest |-> (Written(k) \o Written(t)) \o r]) =
           IF Short(k) /\ Short(t) THEN [value |-> Grown(m, k, t), rest |-> r] ELSE Failed
<1> DEFINE read == [value |-> m, rest |-> (Written(k) \o Written(t)) \o r]
           key == String(read.rest)
           text == String(key.rest)
<1>1. Written(k) \in Bytes /\ Written(t) \in Bytes /\ Written(t) \o r \in Bytes
  BY WrittenBytes, Joined DEF Unicode
<1>2. read.rest = Written(k) \o (Written(t) \o r) /\ read.value = m
  BY <1>1, Grouped
<1>3. key = IF Short(k) THEN [value |-> k, rest |-> Written(t) \o r] ELSE Failed
  BY <1>1, <1>2, StringReads DEF Short
<1>4. text = IF Short(k) /\ Short(t) THEN [value |-> t, rest |-> r] ELSE Failed
  <2>1. CASE Short(k)
    <3>1. key.rest = Written(t) \o r
      BY <1>3, <2>1
    <3> QED BY <2>1, <3>1, StringReads DEF Short
  <2>2. CASE ~Short(k)
    BY <1>3, <2>2, NothingFails
  <2> QED BY <2>1, <2>2
<1>5. NextEntry(read) =
        IF text = Failed \/ key.value \in DOMAIN read.value THEN Failed
        ELSE [value |-> [x \in DOMAIN read.value \cup {key.value} |->
                           IF x = key.value THEN text.value ELSE read.value[x]],
              rest  |-> text.rest]
  BY DEF NextEntry
<1> HIDE DEF read, key, text
<1>6. CASE Short(k) /\ Short(t)
  <2>1. text # Failed /\ text.value = t /\ text.rest = r /\ key.value = k
    BY <1>3, <1>4, <1>6, ReadIsNotFailed
  <2> QED BY <1>2, <1>5, <1>6, <2>1 DEF Grown, read
<1>7. CASE ~(Short(k) /\ Short(t))
  BY <1>4, <1>5, <1>7 DEF read
<1> QED BY <1>6, <1>7

\* What NextEntry took is an entry with a new key.
LEMMA EntryTakes ==
  ASSUME NEW s \in Bytes, NEW m, NextEntry([value |-> m, rest |-> s]) # Failed
  PROVE  \E k, t \in Unicode, r \in Bytes :
           /\ s = (Written(k) \o Written(t)) \o r /\ k \notin DOMAIN m /\ Short(k) /\ Short(t)
           /\ NextEntry([value |-> m, rest |-> s]) = [value |-> Grown(m, k, t), rest |-> r]
<1> DEFINE read == [value |-> m, rest |-> s]
           key == String(read.rest)
           text == String(key.rest)
<1>1. text # Failed /\ key.value \notin DOMAIN m /\ read.rest = s
  BY DEF NextEntry
<1>2. key # Failed
  BY <1>1, NothingFails
<1>3. PICK k \in Unicode, u \in Bytes :
        s = Written(k) \o u /\ Len(k) <= MaximumText /\ key = [value |-> k, rest |-> u]
  BY <1>1, <1>2, StringTakes
<1>4. String(u) # Failed /\ text = String(u)
  BY <1>1, <1>3
<1>5. PICK t \in Unicode, r \in Bytes :
        u = Written(t) \o r /\ Len(t) <= MaximumText /\ String(u) = [value |-> t, rest |-> r]
  BY <1>4, StringTakes
<1>6. s = (Written(k) \o Written(t)) \o r
  <2>1. Written(k) \in Bytes /\ Written(t) \in Bytes
    BY WrittenBytes DEF Unicode
  <2>2. Written(k) \o (Written(t) \o r) = (Written(k) \o Written(t)) \o r
    BY <2>1, Grouped
  <2> QED BY <1>3, <1>5, <2>2
<1>7. k \notin DOMAIN m
  BY <1>1, <1>3
<1>8. Short(k) /\ Short(t)
  BY <1>3, <1>5 DEF Short
<1> HIDE DEF read, key, text
<1>9. NextEntry([value |-> m, rest |-> s]) = [value |-> Grown(m, k, t), rest |-> r]
  <2>1. NextEntry([value |-> m, rest |-> (Written(k) \o Written(t)) \o r]) =
          IF Short(k) /\ Short(t) THEN [value |-> Grown(m, k, t), rest |-> r] ELSE Failed
    BY <1>7, EntryReads
  <2> QED BY <1>6, <1>8, <2>1
<1> QED BY <1>6, <1>7, <1>8, <1>9

\* How many bytes a map takes, counted in cells, whatever the order of its keys.
Size(m, k) == Len(k) + Len(m[k]) + 2
Cells(m) == UNION {{k} \X (1..Size(m, k)) : k \in DOMAIN m}
Area(m) == Cardinality(Cells(m))

\* The empty map.
LEMMA NoMetadata ==
  /\ <<>> \in Metas /\ DOMAIN <<>> = {} /\ Cardinality({}) = 0
  /\ IsFiniteSet(Cells(<<>>)) /\ Area(<<>>) = 0
  /\ \A m : [k \in {} |-> m[k]] = <<>>
<1>1. DOMAIN <<>> = {} /\ IsFiniteSet({}) /\ Cardinality({}) = 0
  BY FS_EmptySet
<1>2. \A m : [k \in {} |-> m[k]] = <<>>
  OBVIOUS
<1>3. <<>> \in [{} -> Unicode]
  BY <1>1, <1>2
<1>4. <<>> \in Metas
  BY <1>1, <1>3 DEF Metas
<1>5. Cells(<<>>) = {}
  BY <1>1 DEF Cells
<1> QED BY <1>1, <1>2, <1>4, <1>5 DEF Area

\* A map takes as many bytes more as its new entry.
LEMMA AreaGrows ==
  ASSUME NEW m \in Metas, NEW k \in Unicode, NEW t \in Unicode, k \notin DOMAIN m,
         IsFiniteSet(Cells(m))
  PROVE  /\ Grown(m, k, t) \in Metas /\ DOMAIN Grown(m, k, t) = DOMAIN m \cup {k}
         /\ Cardinality(DOMAIN Grown(m, k, t)) = Cardinality(DOMAIN m) + 1
         /\ IsFiniteSet(Cells(Grown(m, k, t)))
         /\ Area(Grown(m, k, t)) = Area(m) + (Len(k) + Len(t) + 2)
<1> DEFINE g == Grown(m, k, t)
           more == {k} \X (1..(Len(k) + Len(t) + 2))
<1>1. PICK K \in SUBSET Unicode : IsFiniteSet(K) /\ m \in [K -> Unicode]
  BY DEF Metas
<1>2. /\ DOMAIN m = K /\ DOMAIN g = K \cup {k} /\ g \in [K \cup {k} -> Unicode]
      /\ \A x \in K : g[x] = m[x] /\ x # k
      /\ g[k] = t
  BY <1>1 DEF Grown
<1> HIDE DEF g
<1>3. IsFiniteSet(K \cup {k}) /\ Cardinality(K \cup {k}) = Cardinality(K) + 1
  BY <1>1, <1>2, FS_AddElement
<1>4. g \in Metas
  BY <1>1, <1>2, <1>3 DEF Metas
<1>5. Cells(g) = Cells(m) \cup more
  <2>1. \A x \in K : Size(g, x) = Size(m, x)
    BY <1>2 DEF Size
  <2>2. Size(g, k) = Len(k) + Len(t) + 2
    BY <1>2 DEF Size
  <2>3. Cells(g) = UNION {{x} \X (1..Size(g, x)) : x \in K \cup {k}}
    BY <1>2 DEF Cells
  <2>4. Cells(m) = UNION {{x} \X (1..Size(m, x)) : x \in K}
    BY <1>2 DEF Cells
  <2>5. {{x} \X (1..Size(g, x)) : x \in K \cup {k}}
          = {{x} \X (1..Size(m, x)) : x \in K} \cup {more}
    BY <2>1, <2>2
  <2> QED BY <2>3, <2>4, <2>5
<1>6. Cells(m) \cap more = {}
  <2>1. ASSUME NEW c \in Cells(m), c \in more PROVE FALSE
    <3>1. PICK x \in K : c \in {x} \X (1..Size(m, x))
      BY <1>2 DEF Cells
    <3>2. c[1] = x /\ c[1] = k
      BY <2>1, <3>1
    <3> QED BY <1>2, <3>2
  <2> QED BY <2>1
<1>7. Len(k) \in Nat /\ Len(t) \in Nat
  BY DEF Unicode, Bytes
<1>8. IsFiniteSet(more) /\ Cardinality(more) = Len(k) + Len(t) + 2
  <2> DEFINE n == Len(k) + Len(t) + 2
  <2>1. n \in Nat /\ IsFiniteSet(1..n) /\ Cardinality(1..n) = n
    <3>1. n \in Nat /\ 1 \in Int /\ n \in Int /\ ~(1 > n)
      BY <1>7
    <3> HIDE DEF n
    <3> QED BY <3>1, FS_Interval
  <2>2. IsFiniteSet({k}) /\ Cardinality({k}) = 1
    BY FS_Singleton
  <2> HIDE DEF n
  <2>3. IsFiniteSet({k} \X (1..n)) /\ Cardinality({k} \X (1..n)) = 1 * n
    BY <2>1, <2>2, FS_Product
  <2> QED BY <2>1, <2>3 DEF n
<1>9. IsFiniteSet(Cells(g)) /\ Cardinality(Cells(g)) = Cardinality(Cells(m)) + Cardinality(more)
  <2> HIDE DEF more
  <2>1. /\ IsFiniteSet(Cells(m) \cup more)
        /\ Cardinality(Cells(m) \cup more)
             = Cardinality(Cells(m)) + Cardinality(more) - Cardinality(Cells(m) \cap more)
    BY <1>8, FS_Union
  <2>2. Cardinality(Cells(m) \cap more) = 0
    BY <1>6, FS_EmptySet
  <2>3. Cardinality(Cells(m)) \in Nat /\ Cardinality(more) \in Nat
    BY <1>8, FS_CardinalityType
  <2> QED BY <1>5, <2>1, <2>2, <2>3
<1> QED BY <1>2, <1>3, <1>4, <1>8, <1>9 DEF Area, g

\* The bytes of one entry.
LEMMA PairBytes ==
  ASSUME NEW k \in Bytes, NEW t \in Bytes
  PROVE  /\ Written(k) \o Written(t) \in Bytes
         /\ Len(Written(k) \o Written(t)) = Len(k) + Len(t) + 2
<1> DEFINE a == Written(k)
           b == Written(t)
<1>1. Len(k) \in Nat /\ Len(t) \in Nat
  BY DEF Bytes
<1>2. a \in Bytes /\ Len(a) = Len(k) + 1 /\ b \in Bytes /\ Len(b) = Len(t) + 1
  BY WrittenBytes
<1> HIDE DEF a, b
<1>3. a \o b \in Bytes /\ Len(a \o b) = Len(a) + Len(b)
  BY <1>2, Joined
<1>4. Len(a) + Len(b) = Len(k) + Len(t) + 2
  BY <1>1, <1>2
<1> QED BY <1>3, <1>4 DEF a, b

\* Strings within the limit in every entry.
ShortMap(m) == \A k \in DOMAIN m : Short(k) /\ Short(m[k])

\* The metadata as encode_cookie writes it.
MetaBytes(m) ==
  LET keys == SetToSeq(DOMAIN m)
  IN FlattenSeq([i \in 1..Len(keys) |-> Written(keys[i]) \o Written(m[keys[i]])])

\* The maps of metadata are finite.
LEMMA MapFacts ==
  ASSUME NEW m \in Metas
  PROVE  /\ IsFiniteSet(DOMAIN m) /\ Cardinality(DOMAIN m) \in Nat /\ DOMAIN m \subseteq Unicode
         /\ m \in [DOMAIN m -> Unicode]
<1>1. PICK K \in SUBSET Unicode : IsFiniteSet(K) /\ m \in [K -> Unicode]
  BY DEF Metas
<1> QED BY <1>1, FS_CardinalityType

\* The entries that were written are read back, in whatever order, unless one is
\* too long.
LEMMA MetaReads ==
  ASSUME NEW m \in Metas
  PROVE  /\ MetaBytes(m) \in Bytes /\ Len(MetaBytes(m)) = Area(m)
         /\ \A r \in Bytes : Entries(MetaBytes(m) \o r, Cardinality(DOMAIN m)) =
              IF ShortMap(m) THEN [value |-> m, rest |-> r] ELSE Failed
<1> DEFINE keys == SetToSeq(DOMAIN m)
           n == Cardinality(DOMAIN m)
           parts == [i \in 1..n |-> Written(keys[i]) \o Written(m[keys[i]])]
           First(i) == [k \in {keys[j] : j \in 1..i} |-> m[k]]
           Good(i) == \A j \in 1..i : Short(keys[j]) /\ Short(m[keys[j]])
<1>1. /\ n \in Nat /\ DOMAIN m \subseteq Unicode /\ m \in [DOMAIN m -> Unicode]
      /\ Len(keys) = n /\ {keys[i] : i \in 1..n} = DOMAIN m
      /\ \A i, j \in 1..n : keys[i] = keys[j] => i = j
      /\ \A i \in 1..n : keys[i] \in DOMAIN m
  <2>1. /\ IsFiniteSet(DOMAIN m) /\ n \in Nat /\ DOMAIN m \subseteq Unicode
        /\ m \in [DOMAIN m -> Unicode]
    BY MapFacts
  <2>2. /\ keys \in Seq(DOMAIN m) /\ Len(keys) = n /\ {keys[i] : i \in 1..n} = DOMAIN m
        /\ \A i, j \in 1..n : keys[i] = keys[j] => i = j
    BY <2>1, ListedOnce
  <2> HIDE DEF keys, n
  <2> QED BY <2>1, <2>2
<1> HIDE DEF keys, n
<1>2. \A i \in 1..n : keys[i] \in Unicode /\ m[keys[i]] \in Unicode
  BY <1>1
<1>3. \A i \in 1..n : /\ parts[i] \in Bytes
                      /\ parts[i] = Written(keys[i]) \o Written(m[keys[i]])
                      /\ Len(parts[i]) = Len(keys[i]) + Len(m[keys[i]]) + 2
  <2>1. ASSUME NEW i \in 1..n
        PROVE  /\ Written(keys[i]) \o Written(m[keys[i]]) \in Bytes
               /\ Len(Written(keys[i]) \o Written(m[keys[i]]))
                    = Len(keys[i]) + Len(m[keys[i]]) + 2
    <3>1. keys[i] \in Bytes /\ m[keys[i]] \in Bytes
      BY <1>2, <2>1 DEF Unicode
    <3> QED BY <3>1, PairBytes
  <2> QED BY <2>1
<1>4. parts \in Seq(Bytes) /\ Len(parts) = n
  <2>1. parts \in [1..n -> Bytes]
    BY <1>3
  <2> HIDE DEF parts
  <2> QED BY <1>1, <2>1
<1>5. MetaBytes(m) = FlattenSeq(parts)
  BY <1>1 DEF MetaBytes, keys
<1> HIDE DEF parts
<1>6. PICK built : /\ FlattenSeq(parts) = built[n] /\ built[0] = <<>>
                   /\ \A i \in 1..n : built[i] = built[i - 1] \o parts[i]
                   /\ \A i \in 0..n : built[i] \in Bytes
  BY <1>4, Flattened DEF Bytes
<1> DEFINE P(i) == /\ First(i) \in Metas /\ IsFiniteSet(Cells(First(i)))
                   /\ Len(built[i]) = Area(First(i))
                   /\ \A x \in Bytes : Entries(built[i] \o x, i) =
                        IF Good(i) THEN [value |-> First(i), rest |-> x] ELSE Failed
           Fine == {i \in 0..n : P(i)}
<1>7. 0 \in Fine
  <2>1. First(0) = <<>> /\ Good(0)
    <3>1. {keys[j] : j \in 1..0} = {}
      OBVIOUS
    <3> QED BY <3>1, NoMetadata
  <2>2. Len(built[0]) = 0 /\ \A x \in Bytes : built[0] \o x = x
    BY <1>6, ConcatEmptySeq DEF Bytes
  <2>3. \A x \in Bytes : Entries(x, 0) = [value |-> <<>>, rest |-> x]
    <3>1. 0 \in Nat
      OBVIOUS
    <3> QED BY <3>1, EntriesStep
  <2> HIDE DEF First, Good
  <2>4. 0 \in 0..n
    BY <1>1
  <2> QED BY <2>1, <2>2, <2>3, <2>4, NoMetadata
<1>8. ASSUME NEW i \in 1..n, i - 1 \in Fine PROVE i \in Fine
  <2>1. i \in 0..n /\ i - 1 \in 0..n /\ i - 1 \in Nat /\ i - 1 + 1 = i /\ P(i - 1)
    BY <1>1, <1>8
  <2> DEFINE k == keys[i]
             t == m[k]
  <2>2. k \in Unicode /\ t \in Unicode /\ k \in DOMAIN m
    BY <1>1, <1>2
  <2>3. DOMAIN First(i - 1) = {keys[j] : j \in 1..(i - 1)} /\ k \notin DOMAIN First(i - 1)
    BY <1>1
  <2>4. First(i) = Grown(First(i - 1), k, t)
    <3>1. {keys[j] : j \in 1..i} = {keys[j] : j \in 1..(i - 1)} \cup {k}
      BY <1>1
    <3> QED BY <2>3, <3>1 DEF Grown
  <2>5. Good(i) <=> Good(i - 1) /\ Short(k) /\ Short(t)
    BY <1>1
  <2> HIDE DEF First, Good
  <2>6. /\ First(i) \in Metas /\ IsFiniteSet(Cells(First(i)))
        /\ Area(First(i)) = Area(First(i - 1)) + (Len(k) + Len(t) + 2)
    <3> HIDE DEF k, t
    <3> DEFINE f == First(i - 1)
    <3>1. f \in Metas /\ IsFiniteSet(Cells(f)) /\ k \notin DOMAIN f
      BY <2>1, <2>3
    <3> HIDE DEF f
    <3>2. /\ Grown(f, k, t) \in Metas /\ IsFiniteSet(Cells(Grown(f, k, t)))
          /\ Area(Grown(f, k, t)) = Area(f) + (Len(k) + Len(t) + 2)
      BY <2>2, <3>1, AreaGrows
    <3> QED BY <2>4, <3>2 DEF f
  <2>7. /\ built[i] = built[i - 1] \o parts[i] /\ built[i - 1] \in Bytes /\ parts[i] \in Bytes
        /\ parts[i] = Written(k) \o Written(t) /\ Len(parts[i]) = Len(k) + Len(t) + 2
    BY <1>3, <1>6, <2>1
  <2>8. Len(built[i]) = Area(First(i))
    BY <2>1, <2>6, <2>7, Joined
  <2>9. ASSUME NEW x \in Bytes
        PROVE  Entries(built[i] \o x, i) =
                 IF Good(i) THEN [value |-> First(i), rest |-> x] ELSE Failed
    <3>1. built[i] \o x = built[i - 1] \o (parts[i] \o x) /\ parts[i] \o x \in Bytes
      <4> HIDE DEF k, t
      <4>1. (built[i - 1] \o parts[i]) \o x = built[i - 1] \o (parts[i] \o x)
        BY <2>7, <2>9, Grouped
      <4>2. parts[i] \o x \in Bytes
        BY <2>7, <2>9, Joined
      <4> QED BY <2>7, <4>1, <4>2
    <3>2. Entries(built[i] \o x, i) = NextEntry(Entries(built[i] \o x, i - 1))
      BY <2>1, EntriesStep
    <3>3. Entries(built[i] \o x, i - 1) =
            IF Good(i - 1) THEN [value |-> First(i - 1), rest |-> parts[i] \o x] ELSE Failed
      BY <2>1, <3>1
    <3>4. NextEntry(Failed) = Failed
      BY NothingFails DEF NextEntry
    <3>5. NextEntry([value |-> First(i - 1), rest |-> parts[i] \o x]) =
            IF Short(k) /\ Short(t) THEN [value |-> First(i), rest |-> x] ELSE Failed
      <4> HIDE DEF k, t
      <4>1. NextEntry([value |-> First(i - 1), rest |-> (Written(k) \o Written(t)) \o x]) =
              IF Short(k) /\ Short(t) THEN [value |-> Grown(First(i - 1), k, t), rest |-> x]
              ELSE Failed
        BY <2>2, <2>3, EntryReads
      <4> QED BY <2>4, <2>7, <4>1
    <3> QED BY <2>5, <3>2, <3>3, <3>4, <3>5
  <2> QED BY <2>1, <2>6, <2>8, <2>9
<1>9. n \in Fine
  <2>1. n \in 0..n
    BY <1>1
  <2> HIDE DEF Fine
  <2> QED BY <1>1, <1>7, <1>8, <2>1, Upward
<1>10. First(n) = m /\ (Good(n) <=> ShortMap(m))
  <2>1. [k \in DOMAIN m |-> m[k]] = m
    BY <1>1
  <2>2. First(n) = [k \in DOMAIN m |-> m[k]]
    BY <1>1
  <2>3. Good(n) <=> ShortMap(m)
    BY <1>1 DEF ShortMap
  <2> QED BY <2>1, <2>2, <2>3
<1>11. P(n) /\ built[n] \in Bytes
  BY <1>1, <1>6, <1>9
<1> HIDE DEF First, Good
<1> QED BY <1>5, <1>6, <1>10, <1>11 DEF n

\* So are they with their number in front of them.
LEMMA MetadataReads ==
  ASSUME NEW m \in Metas, NEW r \in Bytes
  PROVE  Metadata(<<Cardinality(DOMAIN m)>> \o (MetaBytes(m) \o r)) =
           IF Cardinality(DOMAIN m) <= MaximumEntries /\ ShortMap(m)
           THEN [value |-> m, rest |-> r] ELSE Failed
<1> DEFINE n == Cardinality(DOMAIN m)
           left == MetaBytes(m) \o r
           s == <<n>> \o left
           count == Number(s)
<1>1. n \in Nat /\ left \in Bytes /\ MaximumEntries \in Nat
  BY MapFacts, MetaReads, Joined, ArchiveAssumption
<1>2. Entries(left, n) = IF ShortMap(m) THEN [value |-> m, rest |-> r] ELSE Failed
  BY MetaReads
<1> HIDE DEF n, left
<1>3. count = [value |-> n, rest |-> left] /\ count # Failed
  BY <1>1, NumberReads, ReadIsNotFailed
<1>4. Metadata(s) = IF count = Failed \/ count.value > MaximumEntries THEN Failed
                    ELSE Entries(count.rest, count.value)
  BY DEF Metadata
<1>5. count.value = n /\ count.rest = left
  BY <1>3
<1> HIDE DEF count, s
<1>6. Metadata(s) = IF n <= MaximumEntries THEN Entries(left, n) ELSE Failed
  BY <1>1, <1>3, <1>4, <1>5
<1>7. Metadata(s) = IF n <= MaximumEntries /\ ShortMap(m)
                    THEN [value |-> m, rest |-> r] ELSE Failed
  BY <1>2, <1>6
<1> QED BY <1>7 DEF s, n, left

\* What the loop took is a map of short strings, and each of its bytes belongs
\* to it.  More bytes behind them change nothing.
LEMMA EntriesTake ==
  ASSUME NEW s \in Bytes, NEW n \in Nat, Entries(s, n) # Failed
  PROVE  \E m \in Metas, r \in Bytes :
           /\ Entries(s, n) = [value |-> m, rest |-> r]
           /\ Cardinality(DOMAIN m) = n /\ ShortMap(m)
           /\ Area(m) \in Nat /\ Len(s) = Area(m) + Len(r)
           /\ \A x \in Bytes : Entries(s \o x, n) = [value |-> m, rest |-> r \o x]
<1> DEFINE Taken(i, m, r) ==
             /\ Entries(s, i) = [value |-> m, rest |-> r]
             /\ Cardinality(DOMAIN m) = i /\ ShortMap(m) /\ IsFiniteSet(Cells(m))
             /\ Len(s) = Area(m) + Len(r)
             /\ \A x \in Bytes : Entries(s \o x, i) = [value |-> m, rest |-> r \o x]
           Fine == {i \in 0..n : Entries(s, i) # Failed => \E m \in Metas, r \in Bytes : Taken(i, m, r)}
<1>1. 0 \in Fine
  <2>1. 0 \in Nat /\ 0 \in 0..n /\ Len(s) \in Nat
    BY DEF Bytes
  <2>2. Entries(s, 0) = [value |-> <<>>, rest |-> s]
    BY <2>1, EntriesStep
  <2>3. \A x \in Bytes : Entries(s \o x, 0) = [value |-> <<>>, rest |-> s \o x]
    BY <2>1, EntriesStep
  <2>4. ShortMap(<<>>)
    BY NoMetadata DEF ShortMap
  <2>5. Taken(0, <<>>, s)
    BY <2>1, <2>2, <2>3, <2>4, NoMetadata
  <2> HIDE DEF Taken
  <2> QED BY <2>1, <2>5, NoMetadata
<1>2. ASSUME NEW i \in 1..n, i - 1 \in Fine PROVE i \in Fine
  <2>1. i \in 0..n /\ i - 1 \in Nat /\ i - 1 + 1 = i
    OBVIOUS
  <2>2. SUFFICES ASSUME Entries(s, i) # Failed
                 PROVE  \E m \in Metas, r \in Bytes : Taken(i, m, r)
    BY <2>1
  <2>3. Entries(s, i) = NextEntry(Entries(s, i - 1))
    BY <2>1, EntriesStep
  <2>4. Entries(s, i - 1) # Failed
    BY <2>2, <2>3, NothingFails DEF NextEntry
  <2>5. PICK m \in Metas, r \in Bytes : Taken(i - 1, m, r)
    <3> HIDE DEF Taken
    <3> QED BY <1>2, <2>4
  <2>6. NextEntry([value |-> m, rest |-> r]) # Failed
    BY <2>2, <2>3, <2>5
  <2>7. PICK k \in Unicode, t \in Unicode, u \in Bytes :
          /\ r = (Written(k) \o Written(t)) \o u /\ k \notin DOMAIN m /\ Short(k) /\ Short(t)
          /\ NextEntry([value |-> m, rest |-> r]) = [value |-> Grown(m, k, t), rest |-> u]
    BY <2>6, EntryTakes
  <2> DEFINE g == Grown(m, k, t)
             pair == Written(k) \o Written(t)
  <2>8. /\ g \in Metas /\ DOMAIN g = DOMAIN m \cup {k}
        /\ Cardinality(DOMAIN g) = Cardinality(DOMAIN m) + 1 /\ IsFiniteSet(Cells(g))
        /\ Area(g) = Area(m) + (Len(k) + Len(t) + 2)
    BY <2>5, <2>7, AreaGrows
  <2>9. ShortMap(g)
    BY <2>5, <2>7 DEF ShortMap, Grown
  <2>10. pair \in Bytes /\ Len(pair) = Len(k) + Len(t) + 2 /\ Len(k) \in Nat /\ Len(t) \in Nat
    <3>1. k \in Bytes /\ t \in Bytes
      BY DEF Unicode
    <3>2. Len(k) \in Nat /\ Len(t) \in Nat
      BY <3>1 DEF Bytes
    <3> QED BY <3>1, <3>2, PairBytes
  <2>11. Cardinality(DOMAIN g) = i /\ Area(m) \in Nat /\ Len(u) \in Nat
    <3>1. Cardinality(DOMAIN g) = i - 1 + 1
      BY <2>5, <2>8
    <3> QED BY <2>1, <2>5, <3>1, FS_CardinalityType DEF Area, Bytes
  <2>12. Len(s) = Area(g) + Len(u)
    <3>1. Len(r) = Len(pair) + Len(u)
      BY <2>7, <2>10, Joined
    <3>2. Len(s) = Area(m) + Len(r)
      BY <2>5
    <3> HIDE DEF g, pair
    <3> QED BY <2>8, <2>10, <2>11, <3>1, <3>2
  <2>13. ASSUME NEW x \in Bytes
         PROVE  Entries(s \o x, i) = [value |-> g, rest |-> u \o x]
    <3>1. Entries(s \o x, i - 1) = [value |-> m, rest |-> r \o x]
      BY <2>5
    <3>2. r \o x = pair \o (u \o x) /\ u \o x \in Bytes
      <4> HIDE DEF pair
      <4>1. r = pair \o u
        BY <2>7 DEF pair
      <4>2. (pair \o u) \o x = pair \o (u \o x)
        BY <2>10, Grouped
      <4> QED BY <4>1, <4>2, Joined
    <3>3. NextEntry([value |-> m, rest |-> pair \o (u \o x)]) = [value |-> g, rest |-> u \o x]
      BY <2>7, <3>2, EntryReads
    <3>4. Entries(s \o x, i) = NextEntry(Entries(s \o x, i - 1))
      BY <2>1, EntriesStep
    <3> QED BY <3>1, <3>2, <3>3, <3>4
  <2>14. Entries(s, i) = [value |-> g, rest |-> u]
    BY <2>3, <2>5, <2>7
  <2>15. Taken(i, g, u)
    <3> HIDE DEF g
    <3> QED BY <2>8, <2>9, <2>11, <2>12, <2>13, <2>14
  <2> HIDE DEF Taken, g
  <2> QED BY <2>8, <2>15
<1>3. n \in Fine
  <2>1. n \in 0..n
    OBVIOUS
  <2> HIDE DEF Fine
  <2> QED BY <1>1, <1>2, <2>1, Upward
<1>4. PICK m \in Metas, r \in Bytes : Taken(n, m, r)
  <2> HIDE DEF Taken
  <2> QED BY <1>3
<1>5. Area(m) \in Nat
  BY <1>4, FS_CardinalityType DEF Area
<1> QED BY <1>4, <1>5

\* The same of the whole metadata.
LEMMA MetadataTakes ==
  ASSUME NEW s \in Bytes, Metadata(s) # Failed
  PROVE  \E m \in Metas, r \in Bytes :
           /\ Metadata(s) = [value |-> m, rest |-> r]
           /\ Cardinality(DOMAIN m) <= MaximumEntries /\ ShortMap(m)
           /\ Area(m) \in Nat /\ Len(s) = 1 + Area(m) + Len(r)
           /\ \A x \in Bytes : Metadata(s \o x) = [value |-> m, rest |-> r \o x]
<1>1. Number(s) # Failed
  BY DEF Metadata
<1>2. PICK n \in Nat, u \in Bytes : s = <<n>> \o u /\ Number(s) = [value |-> n, rest |-> u]
  BY <1>1, NumberTakes
<1>3. \A y : y = [value |-> n, rest |-> u] => y.value = n /\ y.rest = u
  OBVIOUS
<1>4. n <= MaximumEntries /\ Metadata(s) = Entries(u, n)
  <2>1. ~(Number(s).value > MaximumEntries)
           /\ Metadata(s) = Entries(Number(s).rest, Number(s).value)
    BY DEF Metadata
  <2>2. Number(s).value = n /\ Number(s).rest = u
    BY <1>2
  <2> QED BY <2>1, <2>2, ArchiveAssumption
<1>5. PICK m \in Metas, r \in Bytes :
           /\ Entries(u, n) = [value |-> m, rest |-> r]
           /\ Cardinality(DOMAIN m) = n /\ ShortMap(m)
           /\ Area(m) \in Nat /\ Len(u) = Area(m) + Len(r)
           /\ \A x \in Bytes : Entries(u \o x, n) = [value |-> m, rest |-> r \o x]
  BY <1>4, EntriesTake
<1>6. Len(s) = 1 + Area(m) + Len(r)
  <2>1. Len(s) = Len(u) + 1 /\ Len(r) \in Nat /\ Len(u) \in Nat
    BY <1>2, InFront DEF Bytes
  <2> QED BY <1>5, <2>1
<1>7. ASSUME NEW x \in Bytes PROVE Metadata(s \o x) = [value |-> m, rest |-> r \o x]
  <2>1. s \o x = <<n>> \o (u \o x) /\ u \o x \in Bytes
    <3>1. <<n>> \in Bytes
      BY DEF Bytes
    <3>2. (<<n>> \o u) \o x = <<n>> \o (u \o x)
      BY <3>1, Grouped
    <3> QED BY <1>2, <3>2, Joined
  <2>2. Number(s \o x) = [value |-> n, rest |-> u \o x] /\ Number(s \o x) # Failed
    <3>1. Number(<<n>> \o (u \o x)) = [value |-> n, rest |-> u \o x]
      BY <2>1, NumberReads
    <3>2. [value |-> n, rest |-> u \o x] # Failed
      BY <2>1, ReadIsNotFailed
    <3> QED BY <2>1, <3>1, <3>2
  <2> DEFINE count == Number(s \o x)
  <2>3. count.value = n /\ count.rest = u \o x
    BY <2>2
  <2>4. Metadata(s \o x) = IF count = Failed \/ count.value > MaximumEntries THEN Failed
                           ELSE Entries(count.rest, count.value)
    BY DEF Metadata
  <2>5. ~(n > MaximumEntries)
    BY <1>4, ArchiveAssumption
  <2> HIDE DEF count
  <2>6. Metadata(s \o x) = Entries(u \o x, n)
    <3>1. count # Failed
      BY <2>2 DEF count
    <3> QED BY <2>3, <2>4, <2>5, <3>1
  <2> QED BY <1>5, <2>6
<1> QED BY <1>4, <1>5, <1>6, <1>7

\* The cookies that were read or written.
Plain ==
  [name : Unicode, store : Unicode \cup {None}, secure : BOOLEAN, session : BOOLEAN,
   same_site : 0..3, expiration : Nat \cup {None}, metadata : Metas]

StoreText(c) == IF c.store = None THEN <<>> ELSE c.store
FlagsOf(c) == (IF c.secure THEN 1 ELSE 0) + (IF c.session THEN 2 ELSE 0)
Encodable(c) == /\ Short(c.name) /\ Short(StoreText(c))
           /\ Cardinality(DOMAIN c.metadata) <= MaximumEntries /\ ShortMap(c.metadata)

\* Two numbers are one and then the other.
LEMMA TwoNumbers ==
  ASSUME NEW x \in Nat, NEW y \in Nat
  PROVE  <<x, y>> = <<x>> \o <<y>>
<1> DEFINE a == <<x>>
           b == <<y>>
           u == <<x, y>>
<1>1. a \in Seq(Nat) /\ Len(a) = 1 /\ a[1] = x
  OBVIOUS
<1>2. b \in Seq(Nat) /\ Len(b) = 1 /\ b[1] = y
  OBVIOUS
<1>3. u \in Seq(Nat) /\ Len(u) = 2 /\ u[1] = x /\ u[2] = y
  OBVIOUS
<1> HIDE DEF a, b, u
<1> DEFINE v == a \o b
<1>4. v \in Seq(Nat) /\ Len(v) = 2 /\ v[1] = a[1] /\ v[2] = b[1]
  <2>1. /\ v \in Seq(Nat) /\ Len(v) = Len(a) + Len(b)
        /\ \A i \in 1..(Len(a) + Len(b)) : v[i] = IF i <= Len(a) THEN a[i] ELSE b[i - Len(a)]
    BY <1>1, <1>2, ConcatProperties
  <2> HIDE DEF v
  <2> QED BY <1>1, <1>2, <2>1
<1>5. \A i \in 1..Len(u) : u[i] = v[i]
  BY <1>1, <1>2, <1>3, <1>4
<1> HIDE DEF v
<1>6. u = v
  BY <1>3, <1>4, <1>5, SeqEqual
<1> QED BY <1>6 DEF a, b, u, v

\* u is y behind x.
Joins(x, y, u) == x \in Bytes /\ y \in Bytes /\ u \in Bytes /\ u = x \o y

\* Any two sequences can be joined, and their grouping does not matter.
LEMMA Joining ==
  /\ \A x, y \in Bytes : \E u \in Bytes : Joins(x, y, u) /\ Len(u) = Len(x) + Len(y)
  /\ \A x, y, r, xy, yr, u : Joins(x, y, xy) /\ Joins(y, r, yr) /\ Joins(x, yr, u)
                               => Joins(xy, r, u)
  /\ \A x, y, r, xy, yr, u : Joins(x, y, xy) /\ Joins(y, r, yr) /\ Joins(xy, r, u)
                               => Joins(x, yr, u)
<1>1. ASSUME NEW x \in Bytes, NEW y \in Bytes
      PROVE  \E u \in Bytes : Joins(x, y, u) /\ Len(u) = Len(x) + Len(y)
  <2>1. x \o y \in Bytes /\ Len(x \o y) = Len(x) + Len(y)
    BY Joined
  <2> QED BY <2>1 DEF Joins
<1>2. ASSUME NEW x, NEW y, NEW r, NEW xy, NEW yr, NEW u,
             Joins(x, y, xy), Joins(y, r, yr)
      PROVE  Joins(x, yr, u) <=> Joins(xy, r, u)
  <2>1. (x \o y) \o r = x \o (y \o r)
    BY <1>2, Grouped DEF Joins
  <2>2. x \in Bytes /\ r \in Bytes /\ xy \in Bytes /\ yr \in Bytes /\ xy = x \o y /\ yr = y \o r
    BY <1>2 DEF Joins
  <2>3. xy \o r = x \o yr
    BY <2>1, <2>2
  <2> QED BY <2>2, <2>3 DEF Joins
<1> QED BY <1>1, <1>2

\* Any two sequences can be joined.
LEMMA JoinsSome ==
  \A x, y \in Bytes : \E u \in Bytes : Joins(x, y, u)
BY Joining

\* One field behind the other, and what follows them.
Laid(name, store, flags, site, e, left) ==
  Written(name) \o (Written(store) \o (<<flags>> \o (<<site>> \o (Dated(e) \o left))))

\* A cookie, as encode_cookie puts it together.
Piled(name, store, flags, site, e, n, meta) ==
  ((((Written(name) \o Written(store)) \o <<flags, site>>) \o Dated(e)) \o <<n>>) \o meta

\* The bytes of the fields.
LEMMA FieldBytes ==
  ASSUME NEW name \in Bytes, NEW store \in Bytes, NEW flags \in Nat, NEW site \in Nat,
         NEW e \in Nat \cup {None}
  PROVE  /\ Written(name) \in Bytes /\ Len(Written(name)) = Len(name) + 1
         /\ Written(store) \in Bytes /\ Len(Written(store)) = Len(store) + 1
         /\ <<flags>> \in Bytes /\ Len(<<flags>>) = 1
         /\ <<site>> \in Bytes /\ Len(<<site>>) = 1 /\ Dated(e) \in Bytes
<1>1. Written(name) \in Bytes /\ Len(Written(name)) = Len(name) + 1
  BY WrittenBytes
<1>2. Written(store) \in Bytes /\ Len(Written(store)) = Len(store) + 1
  BY WrittenBytes
<1>3. <<flags>> \in Bytes /\ Len(<<flags>>) = 1 /\ <<site>> \in Bytes /\ Len(<<site>>) = 1
  BY DEF Bytes
<1> QED BY <1>1, <1>2, <1>3, DatedBytes

\* How many bytes the fields take, and that what is joined to the last of them is
\* joined to all.
LEMMA LaidBytes ==
  ASSUME NEW name \in Bytes, NEW store \in Bytes, NEW flags \in Nat, NEW site \in Nat,
         NEW e \in Nat \cup {None}, NEW left \in Bytes
  PROVE  /\ Laid(name, store, flags, site, e, left) \in Bytes
         /\ Len(Laid(name, store, flags, site, e, left))
              = Len(name) + Len(store) + Len(Dated(e)) + Len(left) + 4
         /\ \A r, more : Joins(left, r, more)
              => Joins(Laid(name, store, flags, site, e, left), r,
                       Laid(name, store, flags, site, e, more))
<1> DEFINE a == Written(name)
           b == Written(store)
           f == <<flags>>
           t == <<site>>
           d == Dated(e)
           Whole(x) == a \o (b \o (f \o (t \o (d \o x))))
<1>1. /\ a \in Bytes /\ Len(a) = Len(name) + 1 /\ b \in Bytes /\ Len(b) = Len(store) + 1
      /\ f \in Bytes /\ Len(f) = 1 /\ t \in Bytes /\ Len(t) = 1 /\ d \in Bytes
  BY FieldBytes
<1>0. a \in Bytes /\ b \in Bytes /\ f \in Bytes /\ t \in Bytes /\ d \in Bytes
  BY <1>1
<1>2. \A x : Laid(name, store, flags, site, e, x) = Whole(x)
  BY DEF Laid
<1>3. Len(name) \in Nat /\ Len(store) \in Nat /\ Len(d) \in Nat /\ Len(left) \in Nat
  BY <1>1 DEF Bytes
<1> HIDE DEF a, b, f, t, d
<1>4. PICK u2 \in Bytes : Joins(d, left, u2) /\ Len(u2) = Len(d) + Len(left)
  BY <1>1, Joining
<1>5. PICK u3 \in Bytes : Joins(t, u2, u3) /\ Len(u3) = Len(t) + Len(u2)
  BY <1>1, Joining
<1>6. PICK u4 \in Bytes : Joins(f, u3, u4) /\ Len(u4) = Len(f) + Len(u3)
  BY <1>1, Joining
<1>7. PICK u5 \in Bytes : Joins(b, u4, u5) /\ Len(u5) = Len(b) + Len(u4)
  BY <1>1, Joining
<1>8. PICK u6 \in Bytes : Joins(a, u5, u6) /\ Len(u6) = Len(a) + Len(u5)
  BY <1>1, Joining
<1>9. ASSUME NEW r, NEW w1, Joins(left, r, w1) PROVE Joins(u6, r, Whole(w1))
  <2>1. w1 \in Bytes
    BY <1>9 DEF Joins
  <2>2. PICK w2 \in Bytes : Joins(d, w1, w2)
    BY <1>0, <2>1, JoinsSome
  <2>3. PICK w3 \in Bytes : Joins(t, w2, w3)
    BY <1>0, JoinsSome
  <2>4. PICK w4 \in Bytes : Joins(f, w3, w4)
    BY <1>0, JoinsSome
  <2>5. PICK w5 \in Bytes : Joins(b, w4, w5)
    BY <1>0, JoinsSome
  <2>6. PICK w6 \in Bytes : Joins(a, w5, w6)
    BY <1>0, JoinsSome
  <2>7. Joins(u2, r, w2)
    BY <1>4, <1>9, <2>2, Joining
  <2>8. Joins(u3, r, w3)
    BY <1>5, <2>3, <2>7, Joining
  <2>9. Joins(u4, r, w4)
    BY <1>6, <2>4, <2>8, Joining
  <2>10. Joins(u5, r, w5)
    BY <1>7, <2>5, <2>9, Joining
  <2>11. Joins(u6, r, w6)
    BY <1>8, <2>6, <2>10, Joining
  <2>12. w2 = d \o w1 /\ w3 = t \o w2 /\ w4 = f \o w3 /\ w5 = b \o w4 /\ w6 = a \o w5
    BY <2>2, <2>3, <2>4, <2>5, <2>6 DEF Joins
  <2>13. w6 = Whole(w1)
    BY <2>12
  <2> HIDE DEF Whole
  <2> QED BY <2>11, <2>13
<1>10. Len(u6) = Len(name) + Len(store) + Len(d) + Len(left) + 4
  BY <1>1, <1>3, <1>4, <1>5, <1>6, <1>7, <1>8
<1>11. Whole(left) = u6
  <2>1. u2 = d \o left /\ u3 = t \o u2 /\ u4 = f \o u3 /\ u5 = b \o u4 /\ u6 = a \o u5
    BY <1>4, <1>5, <1>6, <1>7, <1>8 DEF Joins
  <2> QED BY <2>1
<1> HIDE DEF Whole
<1>12. Laid(name, store, flags, site, e, left) = u6
  BY <1>2, <1>11
<1>13. \A r, more : Joins(left, r, more) => Joins(u6, r, Laid(name, store, flags, site, e, more))
  BY <1>2, <1>9
<1> QED BY <1>10, <1>12, <1>13 DEF d

\* How many bytes the fields take.
LEMMA LaidLength ==
  ASSUME NEW name \in Bytes, NEW store \in Bytes, NEW flags \in Nat, NEW site \in Nat,
         NEW e \in Nat \cup {None}, NEW left \in Bytes
  PROVE  Len(Laid(name, store, flags, site, e, left))
           = Len(name) + Len(store) + Len(Dated(e)) + Len(left) + 4
BY LaidBytes

\* The two groupings of a cookie are the same bytes.
LEMMA PiledIsLaid ==
  ASSUME NEW name \in Bytes, NEW store \in Bytes, NEW flags \in Nat, NEW site \in Nat,
         NEW e \in Nat \cup {None}, NEW n \in Nat, NEW meta \in Bytes
  PROVE  Piled(name, store, flags, site, e, n, meta)
           = Laid(name, store, flags, site, e, <<n>> \o meta)
<1> DEFINE a == Written(name)
           b == Written(store)
           f == <<flags>>
           t == <<site>>
           d == Dated(e)
           c == <<n>>
<1>1. a \in Bytes /\ b \in Bytes /\ f \in Bytes /\ t \in Bytes /\ d \in Bytes
  BY FieldBytes
<1>2. c \in Bytes
  BY DEF Bytes
<1>3. <<flags, site>> = f \o t
  BY TwoNumbers
<1> HIDE DEF a, b, f, t, d, c
<1>4. PICK u1 \in Bytes : Joins(c, meta, u1)
  BY <1>2, Joining
<1>5. PICK u2 \in Bytes : Joins(d, u1, u2)
  BY <1>1, Joining
<1>6. PICK u3 \in Bytes : Joins(t, u2, u3)
  BY <1>1, Joining
<1>7. PICK u4 \in Bytes : Joins(f, u3, u4)
  BY <1>1, Joining
<1>8. PICK u5 \in Bytes : Joins(b, u4, u5)
  BY <1>1, Joining
<1>9. PICK u6 \in Bytes : Joins(a, u5, u6)
  BY <1>1, Joining
<1>10. PICK v1 \in Bytes : Joins(a, b, v1)
  BY <1>1, Joining
<1>11. PICK ft \in Bytes : Joins(f, t, ft)
  BY <1>1, Joining
<1>12. PICK v2 \in Bytes : Joins(v1, ft, v2)
  BY Joining
<1>13. PICK v3 \in Bytes : Joins(v2, d, v3)
  BY <1>1, Joining
<1>14. PICK v4 \in Bytes : Joins(v3, c, v4)
  BY <1>2, Joining
<1>15. Joins(v1, u4, u6)
  BY <1>8, <1>9, <1>10, Joining
<1>16. Joins(ft, u2, u4)
  BY <1>6, <1>7, <1>11, Joining
<1>17. Joins(v2, u2, u6)
  BY <1>12, <1>15, <1>16, Joining
<1>18. Joins(v3, u1, u6)
  BY <1>5, <1>13, <1>17, Joining
<1>19. Joins(v4, meta, u6)
  BY <1>4, <1>14, <1>18, Joining
<1>20. ((((a \o b) \o (f \o t)) \o d) \o c) \o meta = u6
  <2>1. /\ v1 = a \o b /\ ft = f \o t /\ v2 = v1 \o ft /\ v3 = v2 \o d /\ v4 = v3 \o c
        /\ u6 = v4 \o meta
    BY <1>10, <1>11, <1>12, <1>13, <1>14, <1>19 DEF Joins
  <2> QED BY <2>1
<1>21. a \o (b \o (f \o (t \o (d \o (c \o meta))))) = u6
  <2>1. /\ u1 = c \o meta /\ u2 = d \o u1 /\ u3 = t \o u2 /\ u4 = f \o u3 /\ u5 = b \o u4
        /\ u6 = a \o u5
    BY <1>4, <1>5, <1>6, <1>7, <1>8, <1>9 DEF Joins
  <2> QED BY <2>1
<1>22. Piled(name, store, flags, site, e, n, meta) = u6
  BY <1>3, <1>20 DEF Piled, a, b, d, c
<1>23. Laid(name, store, flags, site, e, <<n>> \o meta) = u6
  BY <1>21 DEF Laid, a, b, f, t, d, c
<1> QED BY <1>22, <1>23

\* What decode_cookie makes of the fields that it read.
Made(name, store, flags, site, e, m) ==
  [name |-> name, store |-> IF store = <<>> THEN None ELSE store,
   secure |-> flags % 2 = 1, session |-> (flags \div 2) % 2 = 1,
   same_site |-> site, expiration |-> e, metadata |-> m]

\* decode_cookie, step by step.
LEMMA CookieSteps ==
  ASSUME NEW bytes, NEW name, NEW store, NEW flags, NEW site, NEW e, NEW m,
         name = String(bytes), store = String(name.rest), flags = Number(store.rest),
         site = Tag(flags.rest, 0..3), e = Expiration(site.rest), m = Metadata(e.rest)
  PROVE  decode_cookie(bytes) =
           IF m = Failed THEN Failed
           ELSE [value |-> Made(name.value, store.value, flags.value, site.value,
                                e.value, m.value),
                 rest  |-> m.rest]
BY DEF decode_cookie, Made

\* A cookie that was read is one that could have been written.
LEMMA MadePlain ==
  ASSUME NEW name \in Unicode, NEW store \in Unicode, NEW flags \in Nat, NEW site \in Nat,
         site \in 0..3, NEW e \in Nat \cup {None}, NEW m \in Metas,
         NEW c, c = Made(name, store, flags, site, e, m)
  PROVE  /\ c \in Plain /\ StoreText(c) = store /\ AsRead(c) = c
         /\ c.name = name /\ c.same_site = site /\ c.expiration = e /\ c.metadata = m
<1>1. <<>> # None
  <2>1. <<>> \in Seq(Nat)
    OBVIOUS
  <2> QED BY <2>1, ArchiveAssumption
<1>2. /\ c.name = name /\ c.same_site = site /\ c.expiration = e /\ c.metadata = m
      /\ c.store = IF store = <<>> THEN None ELSE store
  BY DEF Made
<1>3. c \in Plain
  BY DEF Made, Plain
<1>4. StoreText(c) = store
  <2>1. store # None
    BY ArchiveAssumption DEF Unicode, Bytes
  <2> QED BY <1>2, <2>1 DEF StoreText
<1>5. AsRead(c) = c
  <2>1. c.store # <<>>
    BY <1>1, <1>2
  <2>2. AsRead(c) = [c EXCEPT !.store = c.store]
    BY <2>1 DEF AsRead
  <2> QED BY <1>3, <2>2 DEF Plain
<1> QED BY <1>2, <1>3, <1>4, <1>5

\* The fields of a cookie, and how it is read.
LEMMA PlainFields ==
  ASSUME NEW c \in Plain
  PROVE  /\ c.name \in Unicode /\ c.store \in Unicode \cup {None} /\ c.secure \in BOOLEAN
         /\ c.session \in BOOLEAN /\ c.same_site \in 0..3 /\ c.expiration \in Nat \cup {None}
         /\ c.metadata \in Metas /\ StoreText(c) \in Unicode /\ FlagsOf(c) \in Nat
         /\ AsRead(c) = Made(c.name, StoreText(c), FlagsOf(c), c.same_site, c.expiration,
                             c.metadata)
<1>1. /\ c.name \in Unicode /\ c.store \in Unicode \cup {None} /\ c.secure \in BOOLEAN
      /\ c.session \in BOOLEAN /\ c.same_site \in 0..3 /\ c.expiration \in Nat \cup {None}
      /\ c.metadata \in Metas
  BY DEF Plain
<1>2. <<>> \in Unicode
  BY DEF Unicode, Bytes, ToSet
<1>3. StoreText(c) \in Unicode
  BY <1>1, <1>2 DEF StoreText
<1>4. FlagsOf(c) \in Nat
  BY DEF FlagsOf
<1>5. (FlagsOf(c) % 2 = 1) = c.secure /\ ((FlagsOf(c) \div 2) % 2 = 1) = c.session
  <2>1. CASE c.secure = TRUE /\ c.session = TRUE
    <3>1. FlagsOf(c) = 3
      BY <2>1 DEF FlagsOf
    <3>2. (3 % 2 = 1) = TRUE /\ ((3 \div 2) % 2 = 1) = TRUE
      OBVIOUS
    <3> QED BY <2>1, <3>1, <3>2, Zenon
  <2>2. CASE c.secure = TRUE /\ c.session = FALSE
    <3>1. FlagsOf(c) = 1
      BY <2>2 DEF FlagsOf
    <3>2. (1 % 2 = 1) = TRUE /\ ((1 \div 2) % 2 = 1) = FALSE
      OBVIOUS
    <3> QED BY <2>2, <3>1, <3>2, Zenon
  <2>3. CASE c.secure = FALSE /\ c.session = TRUE
    <3>1. FlagsOf(c) = 2
      BY <2>3 DEF FlagsOf
    <3>2. (2 % 2 = 1) = FALSE /\ ((2 \div 2) % 2 = 1) = TRUE
      OBVIOUS
    <3> QED BY <2>3, <3>1, <3>2, Zenon
  <2>4. CASE c.secure = FALSE /\ c.session = FALSE
    <3>1. FlagsOf(c) = 0
      BY <2>4 DEF FlagsOf
    <3>2. (0 % 2 = 1) = FALSE /\ ((0 \div 2) % 2 = 1) = FALSE
      OBVIOUS
    <3> QED BY <2>4, <3>1, <3>2, Zenon
  <2> QED BY <1>1, <2>1, <2>2, <2>3, <2>4
<1>6. (IF c.store = <<>> THEN None ELSE c.store) = IF StoreText(c) = <<>> THEN None ELSE StoreText(c)
  BY DEF StoreText
<1>7. AsRead(c) = [name |-> c.name, store |-> IF c.store = <<>> THEN None ELSE c.store,
                   secure |-> c.secure, session |-> c.session, same_site |-> c.same_site,
                   expiration |-> c.expiration, metadata |-> c.metadata]
  BY DEF AsRead, Plain
<1> QED BY <1>1, <1>3, <1>4, <1>5, <1>6, <1>7 DEF Made

\* The bytes of a cookie and their number.
LEMMA CookieLaid ==
  ASSUME NEW c \in Plain
  PROVE  /\ encode_cookie(c) = Laid(c.name, StoreText(c), FlagsOf(c), c.same_site, c.expiration,
                                    <<Cardinality(DOMAIN c.metadata)>> \o MetaBytes(c.metadata))
         /\ encode_cookie(c) \in Bytes
         /\ Len(encode_cookie(c)) = Len(c.name) + Len(StoreText(c)) + Len(Dated(c.expiration))
                                      + Area(c.metadata) + 5
<1> DEFINE keys == SetToSeq(DOMAIN c.metadata)
           n == Cardinality(DOMAIN c.metadata)
           meta == MetaBytes(c.metadata)
           store == StoreText(c)
           flags == FlagsOf(c)
<1>1. /\ c.name \in Bytes /\ store \in Bytes /\ flags \in Nat /\ c.same_site \in Nat
      /\ c.expiration \in Nat \cup {None} /\ c.metadata \in Metas
  BY PlainFields DEF Unicode
<1>2. n \in Nat /\ Len(keys) = n
  <2>1. IsFiniteSet(DOMAIN c.metadata)
    BY <1>1, MapFacts
  <2> QED BY <2>1, ListedOnce
<1>3. meta \in Bytes /\ Len(meta) = Area(c.metadata) /\ Len(meta) \in Nat
  <2>1. meta \in Bytes /\ Len(meta) = Area(c.metadata)
    BY <1>1, MetaReads
  <2> QED BY <2>1 DEF Bytes
<1>4. encode_cookie(c) = Piled(c.name, store, flags, c.same_site, c.expiration, n, meta)
  <2>1. encode_cookie(c)
          = Piled(c.name, store, flags, c.same_site, c.expiration, Len(keys), meta)
    BY DEF encode_cookie, Piled, StoreText, FlagsOf, Dated, MetaBytes
  <2> QED BY <1>2, <2>1
<1> HIDE DEF keys, n, meta, store, flags
<1>5. PICK name \in Bytes, text \in Bytes, bits \in Nat, site \in Nat, e \in Nat \cup {None},
           count \in Nat, m \in Bytes :
        /\ name = c.name /\ text = store /\ bits = flags /\ site = c.same_site
        /\ e = c.expiration /\ count = n /\ m = meta
  BY <1>1, <1>2, <1>3
<1> DEFINE left == <<count>> \o m
           laid == Laid(name, text, bits, site, e, left)
<1>6. left \in Bytes /\ Len(left) = Len(m) + 1
  BY InFront
<1>7. Piled(name, text, bits, site, e, count, m) = laid
  BY PiledIsLaid
<1>8. laid \in Bytes /\ Len(laid) = Len(name) + Len(text) + Len(Dated(e)) + Len(left) + 4
  <2> HIDE DEF left
  <2>1. PICK l \in Bytes : l = left
    BY <1>6
  <2>2. /\ Laid(name, text, bits, site, e, l) \in Bytes
        /\ Len(Laid(name, text, bits, site, e, l))
             = Len(name) + Len(text) + Len(Dated(e)) + Len(l) + 4
    BY LaidBytes
  <2> QED BY <2>1, <2>2
<1>9. /\ encode_cookie(c) = laid
      /\ laid = Laid(c.name, store, flags, c.same_site, c.expiration, <<n>> \o meta)
  BY <1>4, <1>5, <1>7
<1> HIDE DEF laid, left
<1>10. Len(laid) = Len(c.name) + Len(store) + Len(Dated(c.expiration)) + Area(c.metadata) + 5
  <2>1. Len(name) \in Nat /\ Len(text) \in Nat /\ Len(Dated(e)) \in Nat /\ Len(m) \in Nat
    BY DatedBytes DEF Bytes
  <2>2. Len(laid) = Len(name) + Len(text) + Len(Dated(e)) + Len(m) + 5
    BY <1>6, <1>8, <2>1
  <2> QED BY <1>3, <1>5, <2>2
<1> QED BY <1>8, <1>9, <1>10 DEF n, meta, store, flags

\* What decode_cookie reads of fields that lie one behind the other.
LEMMA FieldsRead ==
  ASSUME NEW name \in Unicode, NEW store \in Unicode, NEW flags \in Nat, NEW site \in Nat,
         site \in 0..3, NEW e \in Nat \cup {None}, NEW left \in Bytes
  PROVE  decode_cookie(Laid(name, store, flags, site, e, left)) =
           IF Short(name) /\ Short(store) /\ Metadata(left) # Failed
           THEN [value |-> Made(name, store, flags, site, e, Metadata(left).value),
                 rest  |-> Metadata(left).rest]
           ELSE Failed
<1>1. PICK u2 \in Bytes : u2 = Dated(e) \o left
  BY DatedBytes, Joined
<1>2. PICK u3 \in Bytes : u3 = <<site>> \o u2
  BY InFront
<1>3. PICK u4 \in Bytes : u4 = <<flags>> \o u3
  BY InFront
<1>4. PICK u5 \in Bytes : u5 = Written(store) \o u4
  BY WrittenBytes, Joined DEF Unicode
<1>5. PICK u6 \in Bytes : u6 = Written(name) \o u5
  BY WrittenBytes, Joined DEF Unicode
<1>6. Laid(name, store, flags, site, e, left) = u6
  BY <1>1, <1>2, <1>3, <1>4, <1>5 DEF Laid
<1>7. String(u6) = IF Short(name) THEN [value |-> name, rest |-> u5] ELSE Failed
  BY <1>5, StringReads DEF Short
<1>8. String(u5) = IF Short(store) THEN [value |-> store, rest |-> u4] ELSE Failed
  BY <1>4, StringReads DEF Short
<1>9. Number(u4) = [value |-> flags, rest |-> u3]
  BY <1>3, NumberReads
<1>10. Tag(u3, 0..3) = [value |-> site, rest |-> u2]
  BY <1>2, TagReads
<1>11. Expiration(u2) = [value |-> e, rest |-> left]
  BY <1>1, ExpirationReads
<1> DEFINE n1 == String(u6)
           n2 == String(n1.rest)
           n3 == Number(n2.rest)
           n4 == Tag(n3.rest, 0..3)
           n5 == Expiration(n4.rest)
           n6 == Metadata(n5.rest)
<1>12. decode_cookie(u6) =
         IF n6 = Failed THEN Failed
         ELSE [value |-> Made(n1.value, n2.value, n3.value, n4.value, n5.value, n6.value),
               rest  |-> n6.rest]
  BY CookieSteps
<1>13. CASE Short(name) /\ Short(store)
  <2>1. n1.value = name /\ n1.rest = u5
    BY <1>7, <1>13
  <2>2. n2.value = store /\ n2.rest = u4
    BY <1>8, <1>13, <2>1
  <2>3. n3.value = flags /\ n3.rest = u3
    BY <1>9, <2>2
  <2>4. n4.value = site /\ n4.rest = u2
    BY <1>10, <2>3
  <2>5. n5.value = e /\ n5.rest = left
    BY <1>11, <2>4
  <2>6. n6 = Metadata(left)
    BY <2>5
  <2> HIDE DEF n1, n2, n3, n4, n5, n6
  <2> QED BY <1>6, <1>12, <1>13, <2>1, <2>2, <2>3, <2>4, <2>5, <2>6
<1>14. CASE ~(Short(name) /\ Short(store))
  <2>1. n2 = Failed
    <3>1. CASE Short(name)
      <4>1. n1.rest = u5
        BY <1>7, <3>1
      <4> QED BY <1>8, <1>14, <3>1, <4>1
    <3>2. CASE ~Short(name)
      BY <1>7, <3>2, NothingFails
    <3> QED BY <3>1, <3>2
  <2> HIDE DEF n1, n2
  <2>2. n3 = Failed
    BY <2>1, NothingFails
  <2>3. n4 = Failed
    <3>1. 0..3 \subseteq Nat
      OBVIOUS
    <3> QED BY <2>2, <3>1, NothingFails
  <2> HIDE DEF n3, n4
  <2>4. n6 = Failed
    BY <2>3, NothingFails
  <2> HIDE DEF n5, n6
  <2> QED BY <1>6, <1>12, <1>14, <2>4
<1> QED BY <1>13, <1>14

\* A cookie that was written is read back, unless a limit is exceeded.
LEMMA CookieReads ==
  ASSUME NEW c \in Plain, NEW r \in Bytes
  PROVE  decode_cookie(encode_cookie(c) \o r) =
           IF Encodable(c) THEN [value |-> AsRead(c), rest |-> r] ELSE Failed
<1>1. PICK name \in Unicode, store \in Unicode, flags \in Nat, site \in Nat,
           e \in Nat \cup {None}, m \in Metas :
        /\ site \in 0..3 /\ name = c.name /\ store = StoreText(c) /\ flags = FlagsOf(c)
        /\ site = c.same_site /\ e = c.expiration /\ m = c.metadata
        /\ AsRead(c) = Made(name, store, flags, site, e, m)
  <2>1. c.same_site \in 0..3 /\ c.same_site \in Nat
    BY PlainFields
  <2> QED BY <2>1, PlainFields
<1>2. site \in 0..3
  BY <1>1
<1>3. PICK n \in Nat, meta \in Bytes : n = Cardinality(DOMAIN m) /\ meta = MetaBytes(m)
  BY MapFacts, MetaReads
<1>4. PICK left \in Bytes : left = <<n>> \o meta
  BY InFront
<1>5. encode_cookie(c) = Laid(name, store, flags, site, e, left)
  BY <1>1, <1>3, <1>4, CookieLaid
<1>6. PICK rest \in Bytes : Joins(left, r, rest)
  BY JoinsSome
<1>7. encode_cookie(c) \o r = Laid(name, store, flags, site, e, rest)
  <2>1. PICK a \in Bytes, b \in Bytes : a = name /\ b = store
    BY DEF Unicode
  <2>2. Joins(Laid(a, b, flags, site, e, left), r, Laid(a, b, flags, site, e, rest))
    BY <1>6, LaidBytes
  <2> QED BY <1>5, <2>1, <2>2 DEF Joins
<1>8. rest = <<n>> \o (meta \o r)
  <2>0. <<n>> \in Bytes
    BY DEF Bytes
  <2>1. PICK one \in Bytes : one = <<n>>
    BY <2>0
  <2>2. PICK mr \in Bytes : Joins(meta, r, mr)
    BY JoinsSome
  <2>3. Joins(one, meta, left)
    BY <1>4, <2>1 DEF Joins
  <2>4. Joins(one, mr, rest)
    BY <1>6, <2>2, <2>3, Joining
  <2> QED BY <2>1, <2>2, <2>4 DEF Joins
<1>9. Metadata(rest) = IF n <= MaximumEntries /\ ShortMap(m)
                            THEN [value |-> m, rest |-> r] ELSE Failed
  BY <1>3, <1>8, MetadataReads
<1>10. Encodable(c) <=> Short(name) /\ Short(store) /\ n <= MaximumEntries /\ ShortMap(m)
  BY <1>1, <1>3 DEF Encodable
<1>11. decode_cookie(Laid(name, store, flags, site, e, rest)) =
         IF Short(name) /\ Short(store) /\ Metadata(rest) # Failed
         THEN [value |-> Made(name, store, flags, site, e, Metadata(rest).value),
               rest  |-> Metadata(rest).rest]
         ELSE Failed
  BY <1>2, FieldsRead
<1>12. CASE n <= MaximumEntries /\ ShortMap(m)
  <2>1. Metadata(rest) # Failed /\ Metadata(rest).value = m /\ Metadata(rest).rest = r
    BY <1>9, <1>12, ReadIsNotFailed
  <2> QED BY <1>1, <1>7, <1>10, <1>11, <1>12, <2>1
<1>13. CASE ~(n <= MaximumEntries /\ ShortMap(m))
  <2>1. Metadata(rest) = Failed
    BY <1>9, <1>13
  <2> QED BY <1>7, <1>10, <1>11, <1>13, <2>1
<1> QED BY <1>12, <1>13

\* A cookie that was read is within the limits; its bytes are as many as
\* encode_cookie writes for it, and more bytes behind it change nothing.
LEMMA CookieTakes ==
  ASSUME NEW s \in Bytes, decode_cookie(s) # Failed
  PROVE  \E c \in Plain, r \in Bytes :
           /\ decode_cookie(s) = [value |-> c, rest |-> r]
           /\ Encodable(c) /\ AsRead(c) = c /\ Len(s) = Len(encode_cookie(c)) + Len(r)
           /\ \A x, more : Joins(s, x, more)
                => \E rx : Joins(r, x, rx) /\ decode_cookie(more) = [value |-> c, rest |-> rx]
<1> DEFINE n1 == String(s)
           n2 == String(n1.rest)
           n3 == Number(n2.rest)
           n4 == Tag(n3.rest, 0..3)
           n5 == Expiration(n4.rest)
           n6 == Metadata(n5.rest)
<1>1. n6 # Failed
  BY CookieSteps
<1>2. n1 # Failed /\ n2 # Failed /\ n3 # Failed /\ n4 # Failed /\ n5 # Failed
  <2>1. n5 # Failed
    <3> HIDE DEF n5
    <3> QED BY <1>1, NothingFails
  <2>2. n4 # Failed
    <3> HIDE DEF n4
    <3> QED BY <2>1, NothingFails
  <2>3. n3 # Failed
    <3> HIDE DEF n3
    <3>1. 0..3 \subseteq Nat
      OBVIOUS
    <3> QED BY <2>2, <3>1, NothingFails
  <2>4. n2 # Failed
    <3> HIDE DEF n2
    <3> QED BY <2>3, NothingFails
  <2>5. n1 # Failed
    <3> HIDE DEF n1
    <3> QED BY <2>4, NothingFails
  <2> QED BY <2>1, <2>2, <2>3, <2>4, <2>5
<1>3. PICK name \in Unicode, u5 \in Bytes :
        s = Written(name) \o u5 /\ Len(name) <= MaximumText /\ n1 = [value |-> name, rest |-> u5]
  BY <1>2, StringTakes
<1>4. n1.rest = u5
  BY <1>3
<1> HIDE DEF n1
<1>5. PICK store \in Unicode, u4 \in Bytes :
        /\ u5 = Written(store) \o u4 /\ Len(store) <= MaximumText
        /\ n2 = [value |-> store, rest |-> u4]
  BY <1>2, <1>4, StringTakes
<1>6. n2.rest = u4
  BY <1>5
<1> HIDE DEF n2
<1>7. PICK flags \in Nat, u3 \in Bytes :
        u4 = <<flags>> \o u3 /\ n3 = [value |-> flags, rest |-> u3]
  BY <1>2, <1>6, NumberTakes
<1>8. n3.rest = u3
  BY <1>7
<1> HIDE DEF n3
<1>9. PICK site \in Nat, u2 \in Bytes :
        site \in 0..3 /\ u3 = <<site>> \o u2 /\ n4 = [value |-> site, rest |-> u2]
  <2>1. 0..3 \subseteq Nat
    OBVIOUS
  <2>2. PICK site \in 0..3, u2 \in Bytes :
          u3 = <<site>> \o u2 /\ n4 = [value |-> site, rest |-> u2]
    BY <1>2, <1>8, <2>1, TagTakes
  <2> HIDE DEF n4
  <2>3. site \in Nat
    OBVIOUS
  <2> QED BY <2>2, <2>3
<1>10. n4.rest = u2
  BY <1>9
<1> HIDE DEF n4
<1>11. PICK e \in Nat \cup {None}, left \in Bytes :
         u2 = Dated(e) \o left /\ n5 = [value |-> e, rest |-> left]
  BY <1>2, <1>10, ExpirationTakes
<1>12. n5.rest = left
  BY <1>11
<1> HIDE DEF n5
<1>13. Metadata(left) # Failed
  BY <1>1, <1>12
<1>14. PICK m \in Metas, r \in Bytes :
           /\ Metadata(left) = [value |-> m, rest |-> r]
           /\ Cardinality(DOMAIN m) <= MaximumEntries /\ ShortMap(m)
           /\ Area(m) \in Nat /\ Len(left) = 1 + Area(m) + Len(r)
           /\ \A x \in Bytes : Metadata(left \o x) = [value |-> m, rest |-> r \o x]
  BY <1>13, MetadataTakes
<1> HIDE DEF n6
<1>15. s = Laid(name, store, flags, site, e, left)
  <2>1. /\ s = Written(name) \o u5 /\ u5 = Written(store) \o u4 /\ u4 = <<flags>> \o u3
        /\ u3 = <<site>> \o u2 /\ u2 = Dated(e) \o left
    BY <1>3, <1>5, <1>7, <1>9, <1>11
  <2> QED BY <2>1 DEF Laid
<1>16. Short(name) /\ Short(store) /\ site \in 0..3
  BY <1>3, <1>5, <1>9 DEF Short
<1> DEFINE c == Made(name, store, flags, site, e, m)
<1>17. /\ c \in Plain /\ StoreText(c) = store /\ AsRead(c) = c
       /\ c.name = name /\ c.same_site = site /\ c.expiration = e /\ c.metadata = m
  BY <1>16, MadePlain
<1> HIDE DEF c
<1>18. decode_cookie(s) = [value |-> c, rest |-> r]
  <2>1. Metadata(left).value = m /\ Metadata(left).rest = r
    BY <1>14
  <2>2. decode_cookie(Laid(name, store, flags, site, e, left)) =
          IF Short(name) /\ Short(store) /\ Metadata(left) # Failed
          THEN [value |-> Made(name, store, flags, site, e, Metadata(left).value),
                rest  |-> Metadata(left).rest]
          ELSE Failed
    BY <1>16, FieldsRead
  <2> QED BY <1>13, <1>15, <1>16, <2>1, <2>2 DEF c
<1>19. Encodable(c)
  BY <1>14, <1>16, <1>17 DEF Encodable
<1>20. Len(s) = Len(encode_cookie(c)) + Len(r)
  <2>1. PICK a \in Bytes, b \in Bytes : a = name /\ b = store
    BY DEF Unicode
  <2>2. Len(Laid(a, b, flags, site, e, left))
          = Len(a) + Len(b) + Len(Dated(e)) + Len(left) + 4
    BY LaidLength
  <2>3. Len(encode_cookie(c)) = Len(a) + Len(b) + Len(Dated(e)) + Area(m) + 5
    <3>1. Len(encode_cookie(c)) = Len(c.name) + Len(StoreText(c)) + Len(Dated(c.expiration))
                                      + Area(c.metadata) + 5
      BY <1>17, CookieLaid
    <3> QED BY <1>17, <2>1, <3>1
  <2>4. Len(a) \in Nat /\ Len(b) \in Nat /\ Len(Dated(e)) \in Nat /\ Len(r) \in Nat
          /\ Area(m) \in Nat
    <3>1. PICK d \in Bytes : d = Dated(e)
      BY DatedBytes
    <3>2. Len(a) \in Nat /\ Len(b) \in Nat /\ Len(d) \in Nat /\ Len(r) \in Nat
      BY DEF Bytes
    <3> QED BY <1>14, <3>1, <3>2
  <2>5. Len(s) = Len(a) + Len(b) + Len(Dated(e)) + (1 + Area(m) + Len(r)) + 4
    BY <1>14, <1>15, <2>1, <2>2
  <2> QED BY <2>3, <2>4, <2>5
<1>21. ASSUME NEW x, NEW more, Joins(s, x, more)
       PROVE  \E rx : Joins(r, x, rx) /\ decode_cookie(more) = [value |-> c, rest |-> rx]
  <2>1. x \in Bytes
    BY <1>21 DEF Joins
  <2>2. PICK rest \in Bytes : Joins(left, x, rest)
    BY <2>1, JoinsSome
  <2>3. PICK rx \in Bytes : Joins(r, x, rx)
    BY <2>1, JoinsSome
  <2>4. more = Laid(name, store, flags, site, e, rest)
    <3>1. PICK a \in Bytes, b \in Bytes : a = name /\ b = store
      BY DEF Unicode
    <3>2. Joins(Laid(a, b, flags, site, e, left), x, Laid(a, b, flags, site, e, rest))
      BY <2>2, LaidBytes
    <3> QED BY <1>15, <1>21, <3>1, <3>2 DEF Joins
  <2>5. Metadata(rest) = [value |-> m, rest |-> rx]
    BY <1>14, <2>1, <2>2, <2>3 DEF Joins
  <2>6. Metadata(rest) # Failed /\ Metadata(rest).value = m /\ Metadata(rest).rest = rx
    BY <2>5, ReadIsNotFailed
  <2>7. decode_cookie(Laid(name, store, flags, site, e, rest)) =
          IF Short(name) /\ Short(store) /\ Metadata(rest) # Failed
          THEN [value |-> Made(name, store, flags, site, e, Metadata(rest).value),
                rest  |-> Metadata(rest).rest]
          ELSE Failed
    BY <1>16, FieldsRead
  <2>8. decode_cookie(more) = [value |-> c, rest |-> rx]
    BY <1>16, <2>4, <2>6, <2>7 DEF c
  <2> QED BY <2>3, <2>8
<1> QED BY <1>17, <1>18, <1>19, <1>20, <1>21

-----------------------------------------------------------------------------
(* The cookies of an archive. *)

\* The payload that encode_binary writes, and its cookies as they are read.
Packed(list) == FlattenSeq([i \in 1..Len(list) |-> encode_cookie(list[i])])
ReadAll(list) == [i \in DOMAIN list |-> AsRead(list[i])]

\* The bytes of one more sequence come last.
LEMMA FlattenedAppend ==
  ASSUME NEW seqs \in Seq(Bytes), NEW t \in Bytes
  PROVE  Joins(FlattenSeq(seqs), t, FlattenSeq(Append(seqs, t)))
<1> DEFINE more == Append(seqs, t)
           n == Len(seqs)
<1>1. /\ n \in Nat /\ more \in Seq(Bytes) /\ Len(more) = n + 1 /\ more[n + 1] = t
      /\ \A i \in 1..n : more[i] = seqs[i]
  BY AppendProperties
<1>2. PICK f : /\ FlattenSeq(seqs) = f[n] /\ f[0] = <<>>
               /\ \A i \in 1..n : f[i] = f[i - 1] \o seqs[i]
               /\ \A i \in 0..n : f[i] \in Bytes
  BY Flattened DEF Bytes
<1> HIDE DEF more
<1>3. PICK g : /\ FlattenSeq(more) = g[n + 1] /\ g[0] = <<>>
               /\ \A i \in 1..(n + 1) : g[i] = g[i - 1] \o more[i]
               /\ \A i \in 0..(n + 1) : g[i] \in Bytes
  BY <1>1, Flattened DEF Bytes
<1> HIDE DEF n
<1> DEFINE Good == {i \in 0..n : f[i] = g[i]}
<1>4. 0 \in Good
  BY <1>1, <1>2, <1>3
<1>5. ASSUME NEW i \in 1..n, i - 1 \in Good PROVE i \in Good
  <2>1. i \in 0..n /\ i \in 1..(n + 1) /\ f[i - 1] = g[i - 1] /\ more[i] = seqs[i]
    BY <1>1, <1>5
  <2>2. f[i] = f[i - 1] \o seqs[i] /\ g[i] = g[i - 1] \o more[i]
    BY <1>2, <1>3, <2>1
  <2> QED BY <2>1, <2>2
<1>6. n \in Good
  <2>1. n \in 0..n
    BY <1>1
  <2> HIDE DEF Good
  <2> QED BY <1>1, <1>4, <1>5, <2>1, Upward
<1>7. n + 1 \in 1..(n + 1) /\ n + 1 - 1 = n /\ n \in 0..(n + 1) /\ n + 1 \in 0..(n + 1)
  BY <1>1
<1>8. PICK m \in 1..(n + 1) : m = n + 1 /\ m - 1 = n
  BY <1>7
<1>9. g[m] = g[n] \o t
  <2>1. g[m] = g[m - 1] \o more[m]
    BY <1>3
  <2>2. more[m] = t
    BY <1>1, <1>8
  <2> QED BY <1>8, <2>1, <2>2
<1>10. g[n] \in Bytes /\ g[m] \in Bytes /\ g[n] = f[n] /\ FlattenSeq(more) = g[m]
  <2>1. g[n] = f[n]
    BY <1>6
  <2>2. n \in 0..(n + 1) /\ m \in 0..(n + 1)
    BY <1>7, <1>8
  <2>3. FlattenSeq(more) = g[m]
    BY <1>3, <1>8
  <2> QED BY <1>3, <2>1, <2>2, <2>3
<1> QED BY <1>2, <1>9, <1>10 DEF Joins, more

\* The bytes of one more cookie come last.
LEMMA PackedBytes ==
  ASSUME NEW list \in Seq(Plain)
  PROVE  /\ Packed(list) \in Bytes
         /\ \A c \in Plain : Joins(Packed(list), encode_cookie(c), Packed(Append(list, c)))
<1> DEFINE parts == [i \in 1..Len(list) |-> encode_cookie(list[i])]
<1>1. Len(list) \in Nat /\ \A i \in 1..Len(list) : list[i] \in Plain
  OBVIOUS
<1>2. \A i \in 1..Len(list) : encode_cookie(list[i]) \in Bytes
  BY <1>1, CookieLaid
<1>3. parts \in Seq(Bytes) /\ Len(parts) = Len(list)
  <2>1. parts \in [1..Len(list) -> Bytes]
    BY <1>2
  <2> HIDE DEF parts
  <2> QED BY <1>1, <2>1
<1>4. ASSUME NEW c \in Plain
      PROVE  Joins(Packed(list), encode_cookie(c), Packed(Append(list, c)))
  <2> DEFINE more == Append(list, c)
             all == [i \in 1..Len(more) |-> encode_cookie(more[i])]
             n == Len(list)
  <2>1. /\ Len(more) = n + 1 /\ more[n + 1] = c /\ n \in Nat
        /\ \A i \in 1..n : more[i] = list[i]
    BY <1>1, <1>4, AppendProperties
  <2>2. encode_cookie(c) \in Bytes
    BY CookieLaid
  <2>3. all = Append(parts, encode_cookie(c))
    <3> DEFINE bytes == encode_cookie(c)
               ext == Append(parts, bytes)
    <3>1. /\ ext \in Seq(Bytes) /\ Len(ext) = n + 1 /\ ext[n + 1] = bytes
          /\ \A i \in 1..n : ext[i] = parts[i]
      <4> HIDE DEF parts
      <4> QED BY <1>3, <2>2, AppendProperties
    <3>2. \A i \in 1..n : parts[i] = encode_cookie(list[i])
      OBVIOUS
    <3> HIDE DEF parts, more
    <3>3. \A i \in 1..(n + 1) : ext[i] = encode_cookie(more[i])
      <4> HIDE DEF ext
      <4>1. ASSUME NEW i \in 1..(n + 1) PROVE ext[i] = encode_cookie(more[i])
        <5>1. CASE i = n + 1
          BY <2>1, <3>1, <5>1
        <5>2. CASE i # n + 1
          <6>1. i \in 1..n
            BY <2>1, <5>2
          <6> QED BY <2>1, <3>1, <3>2, <6>1
        <5> QED BY <5>1, <5>2
      <4> QED BY <4>1
    <3> HIDE DEF ext
    <3>4. ext = [i \in 1..(n + 1) |-> ext[i]]
      BY <2>1, <3>1
    <3>5. ext = [i \in 1..(n + 1) |-> encode_cookie(more[i])]
      BY <3>3, <3>4
    <3> QED BY <2>1, <3>5 DEF ext
  <2>4. FlattenSeq(all) = Packed(more)
    BY DEF Packed
  <2>5. FlattenSeq(parts) = Packed(list)
    BY DEF Packed
  <2> HIDE DEF all, parts, more
  <2>6. Joins(FlattenSeq(parts), encode_cookie(c), FlattenSeq(all))
    BY <1>3, <2>2, <2>3, FlattenedAppend
  <2> QED BY <2>4, <2>5, <2>6 DEF more
<1>5. Packed(list) \in Bytes
  <2>1. FlattenSeq(parts) = Packed(list)
    BY DEF Packed
  <2> HIDE DEF parts
  <2>2. \E b : FlattenSeq(parts) = b[Len(parts)] /\ \A i \in 0..Len(parts) : b[i] \in Bytes
    BY <1>3, Flattened DEF Bytes
  <2>3. Len(parts) \in 0..Len(parts)
    BY <1>1, <1>3
  <2> QED BY <2>1, <2>2, <2>3
<1> QED BY <1>4, <1>5

\* What was read of the first cookies is not the end of the payload.
Nonempty(read) == read.rest # <<>>

\* No cookie is read where nothing is left.
LEMMA NoCookieLeft ==
  ASSUME NEW v
  PROVE  /\ NextCookie([value |-> v, rest |-> <<>>]) = Failed /\ NextCookie(Failed) = Failed
         /\ Nonempty(Failed)
<1>1. ASSUME NEW bytes, bytes \in {<<>>, Refused} PROVE decode_cookie(bytes) = Failed
  <2> DEFINE n1 == String(bytes)
             n2 == String(n1.rest)
             n3 == Number(n2.rest)
             n4 == Tag(n3.rest, 0..3)
             n5 == Expiration(n4.rest)
             n6 == Metadata(n5.rest)
  <2>1. decode_cookie(bytes) =
          IF n6 = Failed THEN Failed
          ELSE [value |-> Made(n1.value, n2.value, n3.value, n4.value, n5.value, n6.value),
                rest  |-> n6.rest]
    BY CookieSteps
  <2>2. n1 = Failed
    BY <1>1, NothingFails
  <2> HIDE DEF n1
  <2>3. n2 = Failed
    BY <2>2, NothingFails
  <2> HIDE DEF n2
  <2>4. n3 = Failed
    BY <2>3, NothingFails
  <2> HIDE DEF n3
  <2>5. n4 = Failed
    <3>1. 0..3 \subseteq Nat
      OBVIOUS
    <3> QED BY <2>4, <3>1, NothingFails
  <2> HIDE DEF n4
  <2>6. n5 = Failed
    BY <2>5, NothingFails
  <2> HIDE DEF n5
  <2>7. n6 = Failed
    BY <2>6, NothingFails
  <2> HIDE DEF n6
  <2> QED BY <2>1, <2>7
<1>2. decode_cookie(<<>>) = Failed /\ decode_cookie(Refused) = Failed /\ Failed.rest = Refused
  BY <1>1, NothingFails
<1>3. Refused # <<>>
  <2>1. <<>> \in Seq(Nat)
    OBVIOUS
  <2> QED BY <2>1, ArchiveAssumption
<1> QED BY <1>2, <1>3 DEF NextCookie, Nonempty

\* What is read of a cookie is a cookie again, and takes some bytes.
LEMMA ReadPlain ==
  ASSUME NEW c \in Plain
  PROVE  AsRead(c) \in Plain /\ encode_cookie(c) \in Bytes /\ encode_cookie(c) # <<>>
<1>1. AsRead(c) \in Plain
  <2>1. PICK name \in Unicode, store \in Unicode, flags \in Nat, site \in Nat,
             e \in Nat \cup {None}, m \in Metas :
          site \in 0..3 /\ AsRead(c) = Made(name, store, flags, site, e, m)
    <3>1. c.same_site \in 0..3 /\ c.same_site \in Nat
      BY PlainFields
    <3> QED BY <3>1, PlainFields
  <2>2. site \in 0..3
    BY <2>1
  <2> QED BY <2>1, <2>2, MadePlain
<1>2. encode_cookie(c) \in Bytes
  BY CookieLaid
<1>3. encode_cookie(c) # <<>>
  <2>1. Len(encode_cookie(c)) = Len(c.name) + Len(StoreText(c)) + Len(Dated(c.expiration))
                                  + Area(c.metadata) + 5
    BY CookieLaid
  <2>2. PICK name \in Bytes, store \in Bytes, d \in Bytes, m \in Bytes :
          /\ name = c.name /\ store = StoreText(c) /\ d = Dated(c.expiration)
          /\ Len(m) = Area(c.metadata)
    <3>1. c.metadata \in Metas /\ c.expiration \in Nat \cup {None} /\ c.name \in Bytes
            /\ StoreText(c) \in Bytes
      BY PlainFields DEF Unicode
    <3>2. MetaBytes(c.metadata) \in Bytes /\ Len(MetaBytes(c.metadata)) = Area(c.metadata)
      BY <3>1, MetaReads
    <3>3. Dated(c.expiration) \in Bytes
      BY <3>1, DatedBytes
    <3> QED BY <3>1, <3>2, <3>3
  <2>3. Len(name) \in Nat /\ Len(store) \in Nat /\ Len(d) \in Nat /\ Len(m) \in Nat
    BY DEF Bytes
  <2>4. Len(encode_cookie(c)) = Len(name) + Len(store) + Len(d) + Len(m) + 5
    BY <2>1, <2>2
  <2>5. Len(encode_cookie(c)) # 0
    BY <2>3, <2>4
  <2> QED BY <2>5
<1> QED BY <1>1, <1>2, <1>3

\* A list that is not empty has a last cookie.
LEMMA LastOff ==
  ASSUME NEW list \in Seq(Plain), NEW n \in Nat \ {0}, Len(list) = n
  PROVE  \E front \in Seq(Plain), c \in Plain : list = Append(front, c) /\ Len(front) = n - 1
<1> DEFINE front == [i \in 1..(n - 1) |-> list[i]]
           c == list[n]
<1>1. \A i \in 1..n : list[i] \in Plain
  OBVIOUS
<1>2. n \in 1..n /\ n - 1 \in Nat
  OBVIOUS
<1>3. front \in Seq(Plain) /\ Len(front) = n - 1 /\ c \in Plain
  <2>1. front \in [1..(n - 1) -> Plain]
    BY <1>1
  <2>2. c \in Plain
    BY <1>1, <1>2
  <2> HIDE DEF front, c
  <2> QED BY <1>2, <2>1, <2>2
<1>4. \A i \in 1..(n - 1) : front[i] = list[i]
  OBVIOUS
<1>5. c = list[n]
  OBVIOUS
<1> HIDE DEF front, c
<1>6. list = Append(front, c)
  <2> DEFINE all == Append(front, c)
  <2>1. /\ all \in Seq(Plain) /\ Len(all) = n /\ all[n] = c
        /\ \A i \in 1..(n - 1) : all[i] = front[i]
    <3>1. /\ all \in Seq(Plain) /\ Len(all) = Len(front) + 1 /\ all[Len(front) + 1] = c
          /\ \A i \in 1..Len(front) : all[i] = front[i]
      BY <1>3, AppendProperties
    <3>2. Len(front) + 1 = n
      BY <1>3
    <3> HIDE DEF all
    <3> QED BY <1>3, <3>1, <3>2
  <2> HIDE DEF all
  <2>2. \A i \in 1..Len(list) : list[i] = all[i]
    <3>1. ASSUME NEW i \in 1..Len(list) PROVE list[i] = all[i]
      <4>1. CASE i = n
        BY <1>5, <2>1, <4>1
      <4>2. CASE i # n
        <5>1. i \in 1..(n - 1)
          BY <4>2
        <5> QED BY <1>4, <2>1, <5>1
      <4> QED BY <4>1, <4>2
    <3> QED BY <3>1
  <2>3. list = all
    BY <2>1, <2>2, SeqEqual
  <2> QED BY <2>3 DEF all
<1> QED BY <1>3, <1>6

\* Every cookie is within the limits.
AllFit(list) == \A i \in DOMAIN list : Encodable(list[i])

\* What is read of a list with one more cookie.
LEMMA ReadAllGrows ==
  ASSUME NEW list \in Seq(Plain), NEW c \in Plain
  PROVE  /\ ReadAll(Append(list, c)) = Append(ReadAll(list), AsRead(c))
         /\ AllFit(Append(list, c)) <=> AllFit(list) /\ Encodable(c)
         /\ ReadAll(list) \in Seq(Plain) /\ Len(ReadAll(list)) = Len(list)
<1> DEFINE more == Append(list, c)
           n == Len(list)
           all == ReadAll(list)
           ext == Append(all, AsRead(c))
<1>1. /\ n \in Nat /\ Len(more) = n + 1 /\ more[n + 1] = c /\ more \in Seq(Plain)
      /\ \A i \in 1..n : more[i] = list[i]
  BY AppendProperties
<1>2. DOMAIN list = 1..n /\ DOMAIN more = 1..(n + 1) /\ 1..(n + 1) = (1..n) \cup {n + 1}
  <2>1. DOMAIN list = 1..n
    OBVIOUS
  <2> HIDE DEF more, n
  <2> QED BY <1>1, <2>1
<1>3. \A i \in 1..n : list[i] \in Plain
  OBVIOUS
<1> HIDE DEF more
<1>4. AllFit(more) <=> AllFit(list) /\ Encodable(c)
  BY <1>1, <1>2 DEF AllFit
<1>5. all \in Seq(Plain) /\ Len(all) = n /\ \A i \in 1..n : all[i] = AsRead(list[i])
  <2>1. \A i \in 1..n : AsRead(list[i]) \in Plain
    BY <1>3, ReadPlain
  <2>2. all = [i \in 1..n |-> AsRead(list[i])]
    BY <1>2 DEF ReadAll
  <2>3. all \in [1..n -> Plain]
    BY <2>1, <2>2
  <2>4. \A i \in 1..n : all[i] = AsRead(list[i])
    BY <2>2
  <2> HIDE DEF all
  <2> QED BY <1>1, <2>3, <2>4
<1>6. AsRead(c) \in Plain
  BY ReadPlain
<1>7. /\ ext \in Seq(Plain) /\ Len(ext) = n + 1 /\ ext[n + 1] = AsRead(c)
      /\ \A i \in 1..n : ext[i] = all[i]
  <2> HIDE DEF all, n
  <2> QED BY <1>5, <1>6, AppendProperties
<1> HIDE DEF ext, all
<1>8. \A i \in 1..(n + 1) : ext[i] = AsRead(more[i])
  <2>1. ASSUME NEW i \in 1..(n + 1) PROVE ext[i] = AsRead(more[i])
    <3>1. CASE i \in 1..n
      BY <1>1, <1>5, <1>7, <3>1
    <3>2. CASE i = n + 1
      BY <1>1, <1>7, <3>2
    <3> QED BY <1>1, <3>1, <3>2
  <2> QED BY <2>1
<1>9. ext = [i \in 1..(n + 1) |-> ext[i]]
  BY <1>1, <1>7
<1>10. ReadAll(more) = [i \in 1..(n + 1) |-> AsRead(more[i])]
  BY <1>2 DEF ReadAll
<1>11. ReadAll(more) = ext
  BY <1>8, <1>9, <1>10
<1> QED BY <1>4, <1>5, <1>11 DEF more, ext, all

\* A list that was written is read back, unless a limit is exceeded; fewer
\* cookies than were written are not the whole payload.
ReadsBack(list) ==
  \A x, all : Joins(Packed(list), x, all) =>
    /\ Cookies(all, Len(list)) = IF AllFit(list) THEN [value |-> ReadAll(list), rest |-> x]
                                 ELSE Failed
    /\ \A k \in Nat : k < Len(list) => Nonempty(Cookies(all, k))

\* The empty list is read back,
LEMMA EmptyReadsBack ==
  ASSUME NEW list \in Seq(Plain), Len(list) = 0
  PROVE  ReadsBack(list) /\ Packed(list) = <<>>
<1>1. DOMAIN list = {} /\ 0 \in Nat
  OBVIOUS
<1>2. AllFit(list) /\ ReadAll(list) = <<>>
  BY <1>1 DEF AllFit, ReadAll
<1>3. Packed(list) = <<>>
  <2> DEFINE parts == [i \in 1..Len(list) |-> encode_cookie(list[i])]
  <2>1. 1..Len(list) = {}
    OBVIOUS
  <2>2. parts \in Seq(Bytes) /\ Len(parts) = 0
    <3>1. parts = <<>>
      BY <2>1
    <3> HIDE DEF parts
    <3> QED BY <3>1
  <2>3. Packed(list) = FlattenSeq(parts)
    BY DEF Packed
  <2> HIDE DEF parts
  <2>4. \E b : FlattenSeq(parts) = b[Len(parts)] /\ b[0] = <<>>
    BY <2>2, Flattened DEF Bytes
  <2> QED BY <2>2, <2>3, <2>4
<1>4. ASSUME NEW x, NEW all, Joins(Packed(list), x, all) PROVE all = x
  <2>1. x \in Bytes /\ all = <<>> \o x
    BY <1>3, <1>4 DEF Joins
  <2> QED BY <2>1, ConcatEmptySeq DEF Bytes
<1>5. \A x : Cookies(x, 0) = [value |-> <<>>, rest |-> x]
  BY <1>1, CookiesStep
<1>6. \A k \in Nat : ~(k < Len(list))
  OBVIOUS
<1> QED BY <1>2, <1>3, <1>4, <1>5, <1>6 DEF ReadsBack

\* with a list the one that has a cookie more,
LEMMA LongerReadsBack ==
  ASSUME NEW list \in Seq(Plain), NEW c \in Plain, ReadsBack(list)
  PROVE  ReadsBack(Append(list, c))
<1> DEFINE more == Append(list, c)
           n == Len(list)
           e == encode_cookie(c)
<1>1. n \in Nat /\ Len(more) = n + 1
  BY AppendProperties
<1>2. e \in Bytes /\ e # <<>> /\ Joins(Packed(list), e, Packed(more))
  <2>1. e \in Bytes /\ e # <<>>
    BY ReadPlain
  <2> QED BY <2>1, PackedBytes
<1>3. ReadAll(more) = Append(ReadAll(list), AsRead(c)) /\ (AllFit(more) <=> AllFit(list) /\ Encodable(c))
  BY ReadAllGrows
<1> HIDE DEF more, e
<1> SUFFICES ASSUME NEW x, NEW all, Joins(Packed(more), x, all)
             PROVE  /\ Cookies(all, n + 1) = IF AllFit(more)
                                             THEN [value |-> ReadAll(more), rest |-> x] ELSE Failed
                    /\ \A k \in Nat : k < n + 1 => Nonempty(Cookies(all, k))
  BY <1>1 DEF ReadsBack, more
<1>4. x \in Bytes
  BY DEF Joins
<1>5. PICK ex \in Bytes : Joins(e, x, ex) /\ Len(ex) = Len(e) + Len(x)
  BY <1>2, <1>4, Joining
<1>6. Joins(Packed(list), ex, all)
  BY <1>2, <1>5, Joining
<1>7. /\ Cookies(all, n) = IF AllFit(list) THEN [value |-> ReadAll(list), rest |-> ex] ELSE Failed
      /\ \A k \in Nat : k < n => Nonempty(Cookies(all, k))
  BY <1>6 DEF ReadsBack
<1>8. ex # <<>>
  <2>1. Len(e) \in Nat /\ Len(e) # 0 /\ Len(x) \in Nat
    BY <1>2, <1>4 DEF Bytes
  <2>2. Len(ex) # 0
    BY <1>5, <2>1
  <2> QED BY <2>2
<1>9. Nonempty(Cookies(all, n))
  <2>1. CASE AllFit(list)
    <3>1. Cookies(all, n).rest = ex
      BY <1>7, <2>1
    <3> QED BY <1>8, <3>1 DEF Nonempty
  <2>2. CASE ~AllFit(list)
    BY <1>7, <2>2, NoCookieLeft
  <2> QED BY <2>1, <2>2
<1>10. \A k \in Nat : k < n + 1 => k < n \/ k = n
  <2> HIDE DEF n
  <2> QED BY <1>1
<1>11. Cookies(all, n + 1) = NextCookie(Cookies(all, n))
  BY <1>1, CookiesStep
<1>12. decode_cookie(ex) = IF Encodable(c) THEN [value |-> AsRead(c), rest |-> x] ELSE Failed
  <2>1. decode_cookie(e \o x) = IF Encodable(c) THEN [value |-> AsRead(c), rest |-> x] ELSE Failed
    BY <1>4, CookieReads DEF e
  <2> QED BY <1>5, <2>1 DEF Joins
<1>13. NextCookie([value |-> ReadAll(list), rest |-> ex])
         = IF Encodable(c) THEN [value |-> ReadAll(more), rest |-> x] ELSE Failed
  <2> DEFINE cookie == decode_cookie(ex)
             read == [value |-> ReadAll(list), rest |-> ex]
  <2>1. NextCookie(read) = IF cookie = Failed THEN Failed
                           ELSE [value |-> Append(ReadAll(list), cookie.value),
                                 rest  |-> cookie.rest]
    BY DEF NextCookie
  <2>2. CASE Encodable(c)
    <3>1. cookie # Failed /\ cookie.value = AsRead(c) /\ cookie.rest = x
      BY <1>4, <1>12, <2>2, ReadIsNotFailed
    <3> HIDE DEF cookie, read
    <3> QED BY <1>3, <2>1, <2>2, <3>1 DEF read
  <2>3. CASE ~Encodable(c)
    BY <1>12, <2>1, <2>3
  <2> QED BY <2>2, <2>3
<1>14. Cookies(all, n + 1) = IF AllFit(more) THEN [value |-> ReadAll(more), rest |-> x] ELSE Failed
  BY <1>3, <1>7, <1>11, <1>13, NoCookieLeft
<1> QED BY <1>7, <1>9, <1>10, <1>14

\* and so every list.
LEMMA PackedReads ==
  ASSUME NEW list \in Seq(Plain)
  PROVE  ReadsBack(list)
<1> DEFINE Good == {i \in 0..Len(list) : \A l \in Seq(Plain) : Len(l) = i => ReadsBack(l)}
<1>1. Len(list) \in Nat /\ 0 \in 0..Len(list) /\ Len(list) \in 0..Len(list)
  OBVIOUS
<1>2. 0 \in Good
  BY <1>1, EmptyReadsBack
<1>3. ASSUME NEW i \in 1..Len(list), i - 1 \in Good PROVE i \in Good
  <2>1. i \in 0..Len(list) /\ i \in Nat \ {0}
    OBVIOUS
  <2>2. ASSUME NEW l \in Seq(Plain), Len(l) = i PROVE ReadsBack(l)
    <3>1. PICK front \in Seq(Plain), c \in Plain : l = Append(front, c) /\ Len(front) = i - 1
      BY <2>1, <2>2, LastOff
    <3>2. ReadsBack(front)
      BY <1>3, <3>1
    <3> QED BY <3>1, <3>2, LongerReadsBack
  <2> QED BY <2>1, <2>2
<1>4. Len(list) \in Good
  <2> HIDE DEF Good
  <2> QED BY <1>1, <1>2, <1>3, Upward
<1> QED BY <1>4

\* What was read is within the limits, and as long as encode_binary writes it.
LEMMA CookiesTake ==
  ASSUME NEW s \in Bytes, NEW n \in Nat, Cookies(s, n) # Failed
  PROVE  \E list \in Seq(Plain), r \in Bytes :
           /\ Cookies(s, n) = [value |-> list, rest |-> r]
           /\ Len(list) = n /\ AllFit(list) /\ ReadAll(list) = list
           /\ Len(s) = Len(Packed(list)) + Len(r)
           /\ \A x, more : Joins(s, x, more)
                => \E rx : Joins(r, x, rx) /\ Cookies(more, n) = [value |-> list, rest |-> rx]
<1> DEFINE Taken(i, list, r) ==
             /\ Cookies(s, i) = [value |-> list, rest |-> r]
             /\ Len(list) = i /\ AllFit(list) /\ ReadAll(list) = list
             /\ Len(s) = Len(Packed(list)) + Len(r)
             /\ \A x, more : Joins(s, x, more)
                  => \E rx : Joins(r, x, rx) /\ Cookies(more, i) = [value |-> list, rest |-> rx]
           Fine == {i \in 0..n : Cookies(s, i) # Failed
                                   => \E list \in Seq(Plain), r \in Bytes : Taken(i, list, r)}
<1>1. 0 \in Fine
  <2>1. 0 \in Nat /\ 0 \in 0..n /\ Len(s) \in Nat
    BY DEF Bytes
  <2>2. \A bytes : Cookies(bytes, 0) = [value |-> <<>>, rest |-> bytes]
    BY <2>1, CookiesStep
  <2>3. PICK none \in Seq(Plain) : none = <<>> /\ Len(none) = 0 /\ DOMAIN none = {}
    <3>1. <<>> \in Seq(Plain) /\ Len(<<>>) = 0 /\ DOMAIN <<>> = {}
      BY NoMetadata
    <3> QED BY <3>1
  <2>4. Packed(none) = <<>> /\ Len(Packed(none)) = 0
    BY <2>3, EmptyReadsBack
  <2>5. AllFit(none) /\ ReadAll(none) = none
    BY <2>3 DEF AllFit, ReadAll
  <2>6. Len(s) = Len(Packed(none)) + Len(s)
    BY <2>1, <2>4
  <2>7. Taken(0, none, s)
    BY <2>2, <2>3, <2>5, <2>6
  <2> HIDE DEF Taken
  <2> QED BY <2>1, <2>7
<1>2. ASSUME NEW i \in 1..n, i - 1 \in Fine PROVE i \in Fine
  <2>1. i \in 0..n /\ i - 1 \in Nat /\ i - 1 + 1 = i
    OBVIOUS
  <2>2. SUFFICES ASSUME Cookies(s, i) # Failed
                 PROVE  \E list \in Seq(Plain), r \in Bytes : Taken(i, list, r)
    BY <2>1
  <2>3. \A bytes : Cookies(bytes, i) = NextCookie(Cookies(bytes, i - 1))
    <3>1. \A bytes : Cookies(bytes, i - 1 + 1) = NextCookie(Cookies(bytes, i - 1))
      BY <2>1, CookiesStep
    <3> QED BY <2>1, <3>1
  <2>4. Cookies(s, i - 1) # Failed
    BY <2>2, <2>3, NoCookieLeft
  <2>5. PICK list \in Seq(Plain), r \in Bytes : Taken(i - 1, list, r)
    <3> HIDE DEF Taken
    <3> QED BY <1>2, <2>4
  <2> DEFINE read == [value |-> list, rest |-> r]
             cookie == decode_cookie(r)
  <2>6. NextCookie(read) # Failed /\ NextCookie(read) = Cookies(s, i)
    BY <2>2, <2>3, <2>5
  <2>7. \A rest : NextCookie([value |-> list, rest |-> rest]) =
                    IF decode_cookie(rest) = Failed THEN Failed
                    ELSE [value |-> Append(list, decode_cookie(rest).value),
                          rest  |-> decode_cookie(rest).rest]
    BY DEF NextCookie
  <2>8. cookie # Failed
    BY <2>6, <2>7
  <2>9. PICK c \in Plain, u \in Bytes :
           /\ cookie = [value |-> c, rest |-> u]
           /\ Encodable(c) /\ AsRead(c) = c /\ Len(r) = Len(encode_cookie(c)) + Len(u)
           /\ \A x, more : Joins(r, x, more)
                => \E rx : Joins(u, x, rx) /\ decode_cookie(more) = [value |-> c, rest |-> rx]
    BY <2>8, CookieTakes
  <2> DEFINE all == Append(list, c)
  <2>10. all \in Seq(Plain) /\ Len(all) = i
    BY <2>1, <2>5, AppendProperties
  <2>11. AllFit(all) /\ ReadAll(all) = all
    BY <2>5, <2>9, ReadAllGrows
  <2>12. Len(s) = Len(Packed(all)) + Len(u)
    <3>1. Joins(Packed(list), encode_cookie(c), Packed(all))
      BY PackedBytes
    <3>2. PICK p \in Bytes, e \in Bytes : p = Packed(list) /\ e = encode_cookie(c)
      BY <3>1 DEF Joins
    <3>3. Packed(all) = p \o e
      BY <3>1, <3>2 DEF Joins
    <3>4. Len(p \o e) = Len(p) + Len(e)
      BY Joined
    <3>5. Len(p) \in Nat /\ Len(e) \in Nat /\ Len(u) \in Nat
      BY DEF Bytes
    <3>6. Len(s) = Len(p) + Len(r) /\ Len(r) = Len(e) + Len(u)
      BY <2>5, <2>9, <3>2
    <3> QED BY <3>3, <3>4, <3>5, <3>6
  <2>13. Cookies(s, i) = [value |-> all, rest |-> u]
    <3>1. cookie.value = c /\ cookie.rest = u
      BY <2>9
    <3> HIDE DEF read
    <3> QED BY <2>6, <2>7, <2>8, <3>1 DEF read
  <2>14. ASSUME NEW x, NEW more, Joins(s, x, more)
         PROVE  \E rx : Joins(u, x, rx) /\ Cookies(more, i) = [value |-> all, rest |-> rx]
    <3>1. PICK mx : Joins(r, x, mx) /\ Cookies(more, i - 1) = [value |-> list, rest |-> mx]
      BY <2>5, <2>14
    <3>2. PICK rx : Joins(u, x, rx) /\ decode_cookie(mx) = [value |-> c, rest |-> rx]
      BY <2>9, <3>1
    <3>3. rx \in Bytes
      BY <3>2 DEF Joins
    <3>4. decode_cookie(mx) # Failed /\ decode_cookie(mx).value = c /\ decode_cookie(mx).rest = rx
      BY <3>2, <3>3, ReadIsNotFailed
    <3>5. Cookies(more, i) = [value |-> all, rest |-> rx]
      BY <2>3, <2>7, <3>1, <3>4
    <3> QED BY <3>2, <3>5
  <2> HIDE DEF all
  <2>15. Taken(i, all, u)
    BY <2>10, <2>11, <2>12, <2>13, <2>14
  <2> HIDE DEF Taken
  <2> QED BY <2>10, <2>15
<1>3. n \in Fine
  <2>1. n \in 0..n
    OBVIOUS
  <2> HIDE DEF Fine
  <2> QED BY <1>1, <1>2, <2>1, Upward
<1>4. PICK list \in Seq(Plain), r \in Bytes : Taken(n, list, r)
  <2> HIDE DEF Taken
  <2> QED BY <1>3
<1> QED BY <1>4

-----------------------------------------------------------------------------
(* Whole archives. *)

\* The payload of a file whose header says how long it is.
LEMMA PayloadIs ==
  ASSUME NEW S, NEW f \in Seq(S), NEW l \in Nat, f[5] = l, l + 6 <= Len(f)
  PROVE  /\ Payload(f) \in Seq(S) /\ Len(Payload(f)) = l
         /\ \A j \in 1..l : Payload(f)[j] = f[j + 6]
<1> DEFINE q == SubSeq(f, 7, 6 + l)
<1>1. Payload(f) = q
  BY DEF Payload, HeaderBytes
<1>2. 7 \in Int /\ 6 + l \in Int /\ \A j \in 7..(6 + l) : f[j] \in S
  OBVIOUS
<1>3. /\ q \in Seq(S) /\ Len(q) = IF 7 <= 6 + l THEN 6 + l - 7 + 1 ELSE 0
      /\ \A j \in 1..(6 + l - 7 + 1) : q[j] = f[7 + j - 1]
  BY <1>2, SubSeqProperties
<1> HIDE DEF q
<1>4. /\ (IF 7 <= 6 + l THEN 6 + l - 7 + 1 ELSE 0) = l /\ 6 + l - 7 + 1 = l
      /\ \A j \in 1..l : 7 + j - 1 = j + 6
  OBVIOUS
<1> QED BY <1>1, <1>3, <1>4

\* f is an archive of the list, and t bytes follow it.
Holds(f, list, t) ==
  /\ Len(f) = Len(Packed(list)) + 6 + t
  /\ f[1] = Magic /\ f[2] = Version /\ f[3] = 0
  /\ f[4] = Len(list) /\ f[5] = Len(Packed(list)) /\ f[6] = checksum64(Packed(list))
  /\ \A j \in 1..Len(Packed(list)) : f[j + 6] = Packed(list)[j]

\* encode_binary writes an archive.
LEMMA WrittenHolds ==
  ASSUME NEW list \in Seq(Plain)
  PROVE  /\ Holds(encode_binary(list), list, 0)
         /\ \E S : encode_binary(list) \in Seq(S) /\ Nat \subseteq S
<1> DEFINE p == Packed(list)
           x == checksum64(p)
           n == Len(list)
           S == Nat \cup {x}
           h == <<5, 1, 0, n, Len(p), x>>
           a == h \o p
<1>1. p \in Bytes /\ n \in Nat
  BY PackedBytes
<1> HIDE DEF p, n
<1>2. Len(p) \in Nat /\ p \in Seq(Nat)
  BY <1>1 DEF Bytes
<1> HIDE DEF x
<1>3. p \in Seq(S)
  <2>1. \A i \in 1..Len(p) : p[i] \in S
    BY <1>2
  <2>2. p = [i \in 1..Len(p) |-> p[i]]
    BY <1>2
  <2>3. p \in [1..Len(p) -> S]
    BY <2>1, <2>2
  <2> QED BY <1>2, <2>3
<1>4. /\ h \in Seq(S) /\ Len(h) = 6
      /\ h[1] = 5 /\ h[2] = 1 /\ h[3] = 0 /\ h[4] = n /\ h[5] = Len(p) /\ h[6] = x
  <2> DEFINE l == Len(p)
  <2>1. l \in S /\ n \in S /\ x \in S /\ 5 \in S /\ 1 \in S /\ 0 \in S
    BY <1>1, <1>2
  <2> HIDE DEF l, S
  <2>2. <<5, 1, 0, n, l, x>> \in Seq(S)
    BY <2>1
  <2>3. Len(h) = 6 /\ h[1] = 5 /\ h[2] = 1 /\ h[3] = 0 /\ h[4] = n /\ h[5] = Len(p) /\ h[6] = x
    OBVIOUS
  <2> QED BY <2>2, <2>3 DEF l
<1> HIDE DEF h
<1>5. /\ a \in Seq(S) /\ Len(a) = Len(h) + Len(p)
      /\ \A i \in 1..(Len(h) + Len(p)) : a[i] = IF i <= Len(h) THEN h[i] ELSE p[i - Len(h)]
  <2> HIDE DEF S
  <2> QED BY <1>3, <1>4, ConcatProperties
<1> HIDE DEF a, S
<1>6. Len(a) = Len(p) + 6 + 0
  BY <1>2, <1>4, <1>5
<1>7. a[1] = 5 /\ a[2] = 1 /\ a[3] = 0 /\ a[4] = n /\ a[5] = Len(p) /\ a[6] = x
  BY <1>2, <1>4, <1>5
<1>8. ASSUME NEW j \in 1..Len(p) PROVE a[j + 6] = p[j]
  <2>1. j + 6 \in 1..(Len(h) + Len(p)) /\ ~(j + 6 <= Len(h)) /\ j + 6 - Len(h) = j
    BY <1>2, <1>4
  <2>2. a[j + 6] = p[j + 6 - Len(h)]
    BY <1>5, <2>1
  <2> QED BY <2>1, <2>2
<1>9. encode_binary(list) = a
  BY DEF encode_binary, Packed, Magic, Version, a, h, x, p, n
<1>10. Holds(a, list, 0)
  BY <1>6, <1>7, <1>8 DEF Holds, Magic, Version, p, n, x
<1>11. a \in Seq(S) /\ Nat \subseteq S
  BY <1>5 DEF S
<1> QED BY <1>9, <1>10, <1>11

\* The payload of an archive, in a file with any other bytes behind it.
LEMMA HeldPayload ==
  ASSUME NEW list \in Seq(Plain), NEW t \in Nat, NEW S, Nat \subseteq S, NEW f \in Seq(S),
         Holds(f, list, t)
  PROVE  Payload(f) = Packed(list)
<1> DEFINE p == Packed(list)
<1>1. p \in Bytes
  BY PackedBytes
<1> HIDE DEF p
<1>2. /\ Len(p) \in Nat /\ f[5] = Len(p) /\ Len(f) = Len(p) + 6 + t
      /\ \A j \in 1..Len(p) : f[j + 6] = p[j]
  BY <1>1 DEF Holds, Bytes, p
<1>3. Len(p) + 6 <= Len(f)
  BY <1>2
<1>4. /\ Payload(f) \in Seq(S) /\ Len(Payload(f)) = Len(p)
      /\ \A j \in 1..Len(p) : Payload(f)[j] = f[j + 6]
  BY <1>2, <1>3, PayloadIs
<1>5. p \in Seq(S)
  <2>1. p \in Seq(Nat) /\ \A i \in 1..Len(p) : p[i] \in S
    BY <1>1 DEF Bytes
  <2>2. p = [i \in 1..Len(p) |-> p[i]]
    BY <2>1
  <2>3. p \in [1..Len(p) -> S]
    BY <2>1, <2>2
  <2> QED BY <1>2, <2>3
<1>6. Payload(f) = p
  <2> DEFINE q == Payload(f)
  <2>1. \A j \in 1..Len(q) : q[j] = p[j]
    BY <1>2, <1>4
  <2> HIDE DEF q
  <2>2. q = p
    BY <1>4, <1>5, <2>1, SeqEqual DEF q
  <2> QED BY <2>2 DEF q
<1> QED BY <1>6 DEF p

\* It is read back, or refused when a limit is exceeded.
LEMMA HeldReads ==
  ASSUME NEW list \in Seq(Plain), NEW t \in Nat, NEW f, Holds(f, list, t),
         Payload(f) = Packed(list)
  PROVE  decode_binary(f) =
           IF Len(f) <= MaximumFile /\ Len(list) <= MaximumCount /\ AllFit(list)
           THEN Report(ReadAll(list), t) ELSE Refused
<1> DEFINE p == Packed(list)
           n == Len(list)
<1>1. p \in Bytes /\ n \in Nat
  BY PackedBytes
<1>2. Cookies(p, n) = IF AllFit(list) THEN [value |-> ReadAll(list), rest |-> <<>>] ELSE Failed
  <2>1. <<>> \in Bytes
    BY DEF Bytes
  <2>2. p \o <<>> = p
    BY <1>1, ConcatEmptySeq DEF Bytes
  <2>3. Joins(p, <<>>, p)
    BY <1>1, <2>1, <2>2 DEF Joins
  <2> QED BY <2>3, PackedReads DEF ReadsBack
<1> HIDE DEF p, n
<1>3. /\ Len(p) \in Nat /\ Len(f) = Len(p) + 6 + t /\ f[4] = n /\ f[5] = Len(p)
      /\ f[1] = Magic /\ f[2] = Version /\ f[3] = 0 /\ f[6] = checksum64(p) /\ Payload(f) = p
  BY <1>1 DEF Holds, Bytes, p, n
<1>4. HeaderAccepted(f) <=> Len(f) <= MaximumFile /\ n <= MaximumCount
  <2>1. Len(f) >= 6 /\ f[5] <= Len(f) - 6
    BY <1>3
  <2> QED BY <1>3, <2>1 DEF HeaderAccepted, HeaderBytes
<1>5. Decoded(f) = Cookies(p, n)
  BY <1>3 DEF Decoded
<1>6. Len(f) - HeaderBytes - f[5] = t
  BY <1>3 DEF HeaderBytes
<1>7. CASE AllFit(list)
  <2>1. Decoded(f).rest = <<>> /\ Decoded(f).value = ReadAll(list)
    BY <1>2, <1>5, <1>7
  <2> QED BY <1>4, <1>6, <1>7, <2>1 DEF decode_binary, n
<1>8. CASE ~AllFit(list)
  <2>1. Decoded(f).rest # <<>>
    BY <1>2, <1>5, <1>8, NoCookieLeft DEF Nonempty
  <2> QED BY <1>8, <2>1 DEF decode_binary
<1> QED BY <1>7, <1>8

\* More cookies than were written are never there.
LEMMA MoreAreMissing ==
  ASSUME NEW list \in Seq(Plain), NEW k \in Nat, k # Len(list)
  PROVE  Nonempty(Cookies(Packed(list), k))
<1> DEFINE p == Packed(list)
           n == Len(list)
<1>1. p \in Bytes /\ n \in Nat
  BY PackedBytes
<1>2. /\ Cookies(p, n) = IF AllFit(list) THEN [value |-> ReadAll(list), rest |-> <<>>] ELSE Failed
      /\ \A i \in Nat : i < n => Nonempty(Cookies(p, i))
  <2>1. <<>> \in Bytes
    BY DEF Bytes
  <2>2. p \o <<>> = p
    BY <1>1, ConcatEmptySeq DEF Bytes
  <2>3. Joins(p, <<>>, p)
    BY <1>1, <2>1, <2>2 DEF Joins
  <2> QED BY <2>3, PackedReads DEF ReadsBack
<1> HIDE DEF p, n
<1>3. \A i \in Nat : Cookies(p, i + 1) = NextCookie(Cookies(p, i))
  BY CookiesStep
<1>4. Cookies(p, n + 1) = Failed
  BY <1>1, <1>2, <1>3, NoCookieLeft
<1> DEFINE Good == {i \in 0..k : Cookies(p, n + 1 + i) = Failed}
<1>5. \A i \in 0..k : i \in Good
  <2>1. 0 \in Good
    <3>1. n + 1 + 0 = n + 1 /\ 0 \in 0..k
      BY <1>1
    <3> QED BY <1>4, <3>1
  <2>2. ASSUME NEW i \in 1..k, i - 1 \in Good PROVE i \in Good
    <3>1. n + 1 + (i - 1) \in Nat /\ n + 1 + (i - 1) + 1 = n + 1 + i /\ i \in 0..k
      BY <1>1
    <3>2. Cookies(p, n + 1 + (i - 1)) = Failed
      BY <2>2
    <3>3. Cookies(p, n + 1 + (i - 1) + 1) = NextCookie(Failed)
      BY <1>3, <3>1, <3>2
    <3> QED BY <3>1, <3>3, NoCookieLeft
  <2> HIDE DEF Good
  <2> QED BY <2>1, <2>2, Upward
<1>6. CASE k < n
  BY <1>2, <1>6 DEF p
<1>7. CASE ~(k < n)
  <2>1. k - n - 1 \in 0..k /\ n + 1 + (k - n - 1) = k
    BY <1>1, <1>7 DEF n
  <2>2. Cookies(p, k) = Failed
    BY <1>5, <2>1
  <2> QED BY <2>2, NoCookieLeft DEF p
<1> QED BY <1>6, <1>7

\* Without its end a payload does not hold its cookies.
LEMMA ShorterIsMissing ==
  ASSUME NEW list \in Seq(Plain), NEW l \in Nat, l < Len(Packed(list)),
         NEW q, q = SubSeq(Packed(list), 1, l)
  PROVE  Nonempty(Cookies(q, Len(list)))
<1> DEFINE p == Packed(list)
           n == Len(list)
           x == SubSeq(p, l + 1, Len(p))
<1>1. p \in Bytes /\ n \in Nat
  BY PackedBytes
<1>2. \A r, all : Joins(p, r, all) =>
        Cookies(all, n) = IF AllFit(list) THEN [value |-> ReadAll(list), rest |-> r] ELSE Failed
  BY PackedReads DEF ReadsBack
<1> HIDE DEF p, n
<1>3. q \in Bytes /\ x \in Bytes /\ p = q \o x /\ Len(q) = l
  <2>1. Len(p) \in Nat
    BY <1>1 DEF Bytes
  <2>2. l \in 0..Len(p) /\ q = SubSeq(p, 1, l)
    BY <2>1 DEF p
  <2> QED BY <1>1, <2>2, Parted
<1> HIDE DEF x
<1>4. Joins(q, x, p)
  BY <1>1, <1>3 DEF Joins
<1>5. x # <<>>
  <2>1. SUFFICES ASSUME x = <<>> PROVE FALSE
    OBVIOUS
  <2>2. p = q
    BY <1>3, <2>1, ConcatEmptySeq DEF Bytes
  <2> QED BY <1>1, <1>3, <2>2 DEF p, Bytes
<1>6. Cookies(p, n) = IF AllFit(list) THEN [value |-> ReadAll(list), rest |-> <<>>] ELSE Failed
  <2>1. <<>> \in Bytes
    BY DEF Bytes
  <2>2. p \o <<>> = p
    BY <1>1, ConcatEmptySeq DEF Bytes
  <2>3. Joins(p, <<>>, p)
    BY <1>1, <2>1, <2>2 DEF Joins
  <2> QED BY <1>2, <2>3
<1>7. CASE Cookies(q, n) = Failed
  BY <1>7, NoCookieLeft DEF n
<1>8. CASE Cookies(q, n) # Failed
  <2>1. PICK other \in Seq(Plain), r \in Bytes :
           /\ Cookies(q, n) = [value |-> other, rest |-> r]
           /\ \A y, more : Joins(q, y, more)
                => \E ry : Joins(r, y, ry) /\ Cookies(more, n) = [value |-> other, rest |-> ry]
    BY <1>1, <1>3, <1>8, CookiesTake
  <2>2. PICK ry : Joins(r, x, ry) /\ Cookies(p, n) = [value |-> other, rest |-> ry]
    BY <1>4, <2>1
  <2>3. r # <<>>
    <3>1. SUFFICES ASSUME r = <<>> PROVE FALSE
      OBVIOUS
    <3>2. ry = x /\ ry \in Bytes
      <4>1. ry = <<>> \o x /\ ry \in Bytes
        BY <2>2, <3>1 DEF Joins
      <4> QED BY <1>3, <4>1, ConcatEmptySeq DEF Bytes
    <3>3. Cookies(p, n) # Failed /\ Cookies(p, n).rest # <<>>
      BY <1>5, <2>2, <3>2, ReadIsNotFailed
    <3> QED BY <1>6, <3>3
  <2> QED BY <2>1, <2>3 DEF Nonempty, n
<1> QED BY <1>7, <1>8

\* A sequence over a set is one over every larger set.
LEMMA SeqWidens ==
  ASSUME NEW S, NEW T, S \subseteq T, NEW s \in Seq(S)
  PROVE  s \in Seq(T)
<1>1. Len(s) \in Nat /\ DOMAIN s = 1..Len(s) /\ \A i \in 1..Len(s) : s[i] \in T
  OBVIOUS
<1>2. s = [i \in 1..Len(s) |-> s[i]]
  OBVIOUS
<1> QED BY <1>1, <1>2

\* Bytes are numbers, and so is their checksum a byte.
LEMMA ByteFacts ==
  Byte \subseteq Nat /\ HashSize \in Nat \ {0} /\ (\A bytes \in Seq(Byte) : checksum64(bytes) \in Byte)
<1>1. HashSize \in Nat \ {0} /\ HashBits \in Nat
  <2>1. HashBits \in Nat /\ HashBits \in 0..HashBits
    BY ArchiveAssumption
  <2> QED BY <2>1, HashPower
<1>2. Byte \subseteq Nat
  BY <1>1 DEF Byte
<1>3. ASSUME NEW bytes \in Seq(Byte) PROVE checksum64(bytes) \in Byte
  <2>1. PICK hash : /\ checksum64(bytes) = hash[Len(bytes)]
                    /\ \A n \in 0..Len(bytes) : hash[n] \in Byte
    BY ChecksumSteps
  <2>2. Len(bytes) \in 0..Len(bytes)
    OBVIOUS
  <2> QED BY <2>1, <2>2
<1> QED BY <1>1, <1>2, <1>3

\* What leaves something of a payload, or fails, is refused.
LEMMA RefusedWhen ==
  ASSUME NEW f, HeaderAccepted(f) => Nonempty(Decoded(f))
  PROVE  decode_binary(f) = Refused
BY DEF decode_binary, Nonempty

\* One damaged byte is always found.
LEMMA DamageRefused ==
  ASSUME NEW list \in Seq(Plain), NEW a \in Seq(Byte), a = encode_binary(list),
         NEW i \in 1..Len(a), NEW b \in Byte, b # a[i],
         NEW f, f = [a EXCEPT ![i] = b]
  PROVE  decode_binary(f) = Refused
<1> DEFINE p == Packed(list)
           n == Len(list)
<1>1. p \in Bytes /\ n \in Nat
  BY PackedBytes
<1>2. Holds(a, list, 0)
  BY WrittenHolds
<1>3. b \in Nat
  BY ByteFacts
<1> HIDE DEF p, n
<1>4. /\ Len(p) \in Nat /\ Len(a) = Len(p) + 6 /\ a[4] = n /\ a[5] = Len(p)
      /\ a[1] = Magic /\ a[2] = Version /\ a[3] = 0 /\ a[6] = checksum64(p)
      /\ \A j \in 1..Len(p) : a[j + 6] = p[j]
  <2>1. Len(p) \in Nat
    BY <1>1 DEF Bytes
  <2>2. Len(p) + 6 + 0 = Len(p) + 6
    BY <2>1
  <2> QED BY <1>2, <2>1, <2>2 DEF Holds, p, n
<1>5. /\ f \in Seq(Byte) /\ Len(f) = Len(p) + 6 /\ f[i] = b
      /\ \A j \in 1..(Len(p) + 6) : j # i => f[j] = a[j]
  <2>1. /\ f \in Seq(Byte) /\ Len(f) = Len(a)
        /\ \A j \in 1..Len(a) : f[j] = IF j = i THEN b ELSE a[j]
    BY ExceptSeq
  <2> QED BY <1>4, <2>1
<1>6. i \in 1..(Len(p) + 6)
  BY <1>4
<1>7. p \in Seq(Byte)
  <2>1. ASSUME NEW j \in 1..Len(p) PROVE p[j] \in Byte
    <3>1. j + 6 \in 1..Len(a)
      BY <1>4
    <3>2. a[j + 6] \in Byte
      BY <3>1
    <3> QED BY <1>4, <3>2
  <2>2. p = [j \in 1..Len(p) |-> p[j]]
    BY <1>1 DEF Bytes
  <2>3. p \in [1..Len(p) -> Byte]
    BY <2>1, <2>2
  <2>4. Len(p) \in Nat
    BY <1>4
  <2> QED BY <2>3, <2>4
<1>8. CASE i \in 1..3
  <2>1. f[1] # Magic \/ f[2] # Version \/ f[3] # 0
    BY <1>4, <1>5, <1>8
  <2>2. ~HeaderAccepted(f)
    BY <2>1 DEF HeaderAccepted
  <2> QED BY <2>2, RefusedWhen
<1>9. CASE i # 5
  <2> DEFINE q == Payload(f)
  <2>1. f[5] = Len(p)
    BY <1>4, <1>5, <1>9
  <2>2. /\ q \in Seq(Byte) /\ Len(q) = Len(p)
        /\ \A j \in 1..Len(p) : q[j] = f[j + 6]
    <3>1. Len(p) \in Nat /\ f \in Seq(Byte) /\ Len(p) + 6 <= Len(f)
      BY <1>4, <1>5
    <3> QED BY <2>1, <3>1, PayloadIs
  <2>3. \A j \in 1..Len(p) : j + 6 # i => q[j] = p[j]
    <3>1. ASSUME NEW j \in 1..Len(p), j + 6 # i PROVE q[j] = p[j]
      <4>1. j + 6 \in 1..(Len(p) + 6)
        BY <1>4
      <4>2. f[j + 6] = a[j + 6]
        BY <1>5, <3>1, <4>1
      <4> QED BY <1>4, <2>2, <4>2
    <3> QED BY <3>1
  <2>4. ASSUME i \in 1..6 PROVE q = p
    <3>1. \A j \in 1..Len(p) : j + 6 # i
      BY <1>4, <2>4
    <3>2. \A j \in 1..Len(q) : q[j] = p[j]
      BY <2>2, <2>3, <3>1
    <3> HIDE DEF q
    <3> QED BY <1>7, <2>2, <3>2, SeqEqual
  <2>5. CASE i = 4
    <3>1. Decoded(f) = Cookies(p, b)
      BY <1>5, <2>4, <2>5 DEF Decoded
    <3>2. b # n
      BY <1>4, <2>5
    <3>3. Nonempty(Decoded(f))
      BY <1>3, <3>1, <3>2, MoreAreMissing DEF p, n
    <3> QED BY <3>3, RefusedWhen
  <2>6. CASE i = 6
    <3>1. checksum64(Payload(f)) # f[6]
      BY <1>4, <1>5, <2>4, <2>6
    <3> QED BY <3>1, RefusedWhen DEF HeaderAccepted
  <2>7. CASE i > 6
    <3>1. PICK j \in 1..Len(p) : j + 6 = i
      <4>1. i - 6 \in 1..Len(p) /\ (i - 6) + 6 = i
        BY <1>4, <1>6, <2>7
      <4> QED BY <4>1
    <3>2. q[j] # p[j]
      <4>1. f[j + 6] = b /\ a[j + 6] # b
        BY <1>5, <3>1
      <4> QED BY <1>4, <2>2, <4>1
    <3>3. \A k \in 1..Len(p) : k # j => q[k] = p[k]
      <4>1. \A k \in 1..Len(p) : k # j => k + 6 # i
        BY <1>4, <3>1
      <4> QED BY <2>3, <4>1
    <3> HIDE DEF q
    <3>4. checksum64(q) # checksum64(p)
      BY <1>7, <2>2, <3>2, <3>3, ChecksumSees
    <3>5. f[6] = checksum64(p)
      <4>1. 6 \in 1..(Len(p) + 6) /\ 6 # i
        BY <1>4, <2>7
      <4> QED BY <1>4, <1>5, <4>1
    <3>6. checksum64(Payload(f)) # f[6]
      BY <3>4, <3>5 DEF q
    <3> QED BY <3>6, RefusedWhen DEF HeaderAccepted
  <2> QED BY <1>4, <1>6, <1>8, <1>9, <2>5, <2>6, <2>7
<1>10. CASE i = 5
  <2>1. f[5] = b /\ b # Len(p) /\ f[4] = n
    <3>1. 4 \in 1..(Len(p) + 6) /\ 4 # i
      BY <1>4, <1>10
    <3> QED BY <1>4, <1>5, <1>10, <3>1
  <2>2. CASE ~(b < Len(p))
    <3>1. ~(f[5] <= Len(f) - HeaderBytes)
      BY <1>3, <1>4, <1>5, <2>1, <2>2 DEF HeaderBytes
    <3> QED BY <3>1, RefusedWhen DEF HeaderAccepted
  <2>3. CASE b < Len(p)
    <3> DEFINE q == Payload(f)
               s == SubSeq(p, 1, b)
    <3>1. q \in Seq(Byte) /\ Len(q) = b /\ \A j \in 1..b : q[j] = f[j + 6]
      <4>1. f \in Seq(Byte) /\ b + 6 <= Len(f) /\ f[5] = b
        BY <1>3, <1>4, <1>5, <2>1, <2>3
      <4> QED BY <1>3, <4>1, PayloadIs
    <3>2. s \in Seq(Byte) /\ Len(s) = b /\ \A j \in 1..b : s[j] = p[j]
      <4>1. \A j \in 1..b : p[j] \in Byte
        BY <1>3, <1>4, <1>7, <2>3
      <4>2. /\ s \in Seq(Byte) /\ Len(s) = IF 1 <= b THEN b - 1 + 1 ELSE 0
            /\ \A j \in 1..(b - 1 + 1) : s[j] = p[1 + j - 1]
        BY <1>3, <4>1, SubSeqProperties
      <4> HIDE DEF s
      <4>3. /\ (IF 1 <= b THEN b - 1 + 1 ELSE 0) = b /\ b - 1 + 1 = b
            /\ \A j \in 1..b : 1 + j - 1 = j
        BY <1>3
      <4> QED BY <4>2, <4>3
    <3>3. \A j \in 1..b : q[j] = s[j]
      <4>1. ASSUME NEW j \in 1..b PROVE f[j + 6] = p[j]
        <5>1. j + 6 \in 1..(Len(p) + 6) /\ j + 6 # i /\ j \in 1..Len(p)
          BY <1>3, <1>4, <1>10, <2>3
        <5> QED BY <1>4, <1>5, <5>1
      <4> QED BY <3>1, <3>2, <4>1
    <3> HIDE DEF q, s
    <3>4. q = s
      BY <3>1, <3>2, <3>3, SeqEqual
    <3>5. Nonempty(Cookies(s, n))
      BY <1>3, <2>3, ShorterIsMissing DEF s, p, n
    <3>6. Decoded(f) = Cookies(s, n)
      BY <2>1, <3>4 DEF Decoded, q
    <3> QED BY <3>5, <3>6, RefusedWhen
  <2> QED BY <2>2, <2>3
<1> QED BY <1>9, <1>10

\* A missing end is always found.
LEMMA CutRefused ==
  ASSUME NEW list \in Seq(Plain), NEW a \in Seq(Byte), a = encode_binary(list),
         NEW k \in 0..(Len(a) - 1), NEW f, f = SubSeq(a, 1, k)
  PROVE  decode_binary(f) = Refused /\ f \in Seq(Byte)
<1> DEFINE p == Packed(list)
<1>1. p \in Bytes /\ Holds(a, list, 0)
  BY PackedBytes, WrittenHolds
<1> HIDE DEF p
<1>2. Len(p) \in Nat /\ Len(a) = Len(p) + 6 /\ a[5] = Len(p)
  <2>1. Len(p) \in Nat
    BY <1>1 DEF Bytes
  <2>2. Len(p) + 6 + 0 = Len(p) + 6
    BY <2>1
  <2> QED BY <1>1, <2>1, <2>2 DEF Holds, p
<1>3. k \in Nat /\ k < Len(p) + 6
  BY <1>2
<1>4. f \in Seq(Byte) /\ Len(f) = k /\ \A j \in 1..k : f[j] = a[j]
  <2>1. \A j \in 1..k : a[j] \in Byte
    BY <1>2, <1>3
  <2>2. /\ f \in Seq(Byte) /\ Len(f) = IF 1 <= k THEN k - 1 + 1 ELSE 0
        /\ \A j \in 1..(k - 1 + 1) : f[j] = a[1 + j - 1]
    BY <1>3, <2>1, SubSeqProperties
  <2>3. /\ (IF 1 <= k THEN k - 1 + 1 ELSE 0) = k /\ k - 1 + 1 = k
        /\ \A j \in 1..k : 1 + j - 1 = j
    BY <1>3
  <2> QED BY <2>2, <2>3
<1>5. ~HeaderAccepted(f)
  <2>1. CASE k < 6
    BY <1>3, <1>4, <2>1 DEF HeaderAccepted, HeaderBytes
  <2>2. CASE ~(k < 6)
    <3>1. f[5] = Len(p)
      BY <1>2, <1>3, <1>4, <2>2
    <3> QED BY <1>2, <1>3, <1>4, <3>1 DEF HeaderAccepted, HeaderBytes
  <2> QED BY <2>1, <2>2
<1> QED BY <1>4, <1>5, RefusedWhen

\* The cookies that encode_binary is given, and their limits.
LEMMA ArchivedPlain ==
  ASSUME NEW c \in Archived
  PROVE  c \in Plain /\ (CookieFits(c) <=> Encodable(c))
<1>1. Text \subseteq Unicode /\ Byte \subseteq Nat
  <2>1. Byte \subseteq Nat
    BY ByteFacts
  <2>2. ASSUME NEW t \in Text PROVE t \in Unicode
    <3>1. PICK S : /\ S = Byte \ {NotUnicode} /\ t \in Seq(S)
                   /\ S \subseteq Nat /\ NotUnicode \notin S
      <4>1. t \in Seq(Byte \ {NotUnicode})
        BY ArchiveAssumption
      <4>2. Byte \ {NotUnicode} \subseteq Nat
        BY <2>1
      <4> QED BY <4>1, <4>2
    <3>2. t \in Seq(S) /\ S \subseteq Nat /\ NotUnicode \notin S
      BY <3>1
    <3>3. DOMAIN t = 1..Len(t) /\ \A i \in 1..Len(t) : t[i] \in S
      BY <3>2
    <3>4. t \in Seq(Nat)
      BY <3>2, SeqWidens
    <3>5. NotUnicode \notin {t[i] : i \in DOMAIN t}
      BY <3>2, <3>3
    <3> QED BY <3>4, <3>5 DEF Unicode, Bytes, ToSet
  <2> QED BY <2>1, <2>2
<1>2. /\ c.name \in Unicode /\ c.store \in Unicode \cup {None}
      /\ c.expiration \in Nat \cup {None} /\ c.secure \in BOOLEAN /\ c.session \in BOOLEAN
      /\ c.same_site \in 0..3
      /\ c = [name |-> c.name, store |-> c.store, secure |-> c.secure, session |-> c.session,
              same_site |-> c.same_site, expiration |-> c.expiration, metadata |-> c.metadata]
  BY <1>1 DEF Archived
<1>3. c.metadata \in Metas
  <2>1. c.metadata \in UNION {[keys -> Text] : keys \in {k \in SUBSET Text : IsFiniteSet(k)}}
    BY DEF Archived
  <2>2. PICK K \in SUBSET Text : IsFiniteSet(K) /\ c.metadata \in [K -> Text]
    BY <2>1
  <2>3. c.metadata \in [K -> Unicode] /\ K \in SUBSET Unicode
    BY <1>1, <2>2
  <2> QED BY <2>2, <2>3 DEF Metas
<1>4. c \in Plain
  BY <1>2, <1>3 DEF Plain
<1>5. \A t \in Unicode : t # None
  BY ArchiveAssumption DEF Unicode, Bytes
<1>6. CookieFits(c) <=> Encodable(c)
  <2> DEFINE m == c.metadata
             Fine(t) == t # None => Len(t) <= MaximumText
  <2>1. \A k \in DOMAIN m : k \in Unicode /\ m[k] \in Unicode
    BY <1>3, MapFacts
  <2>2. Fine(c.name) <=> Short(c.name)
    BY <1>2, <1>5 DEF Short
  <2>3. Fine(c.store) <=> Short(StoreText(c))
    <3>1. Len(<<>>) <= MaximumText
      BY ArchiveAssumption
    <3> QED BY <1>2, <1>5, <3>1 DEF Short, StoreText
  <2>4. (\A k \in DOMAIN m : Fine(k) /\ Fine(m[k])) <=> ShortMap(m)
    BY <1>5, <2>1 DEF ShortMap, Short
  <2> HIDE DEF Fine
  <2>5. CookieFits(c) <=> /\ Cardinality(DOMAIN m) <= MaximumEntries
                          /\ \A t \in {c.name, c.store} \cup DOMAIN m \cup {m[k] : k \in DOMAIN m} :
                               Fine(t)
    BY DEF CookieFits, Fine
  <2> HIDE DEF m
  <2>6. (\A t \in {c.name, c.store} \cup DOMAIN m \cup {m[k] : k \in DOMAIN m} : Fine(t))
          <=> Fine(c.name) /\ Fine(c.store) /\ \A k \in DOMAIN m : Fine(k) /\ Fine(m[k])
    OBVIOUS
  <2> QED BY <2>2, <2>3, <2>4, <2>5, <2>6 DEF Encodable, m
<1> QED BY <1>4, <1>6

\* So is the collection, with its limits.
LEMMA KeptPlain ==
  ASSUME NEW list \in Seq(Archived)
  PROVE  /\ list \in Seq(Plain)
         /\ WithinLimits(list) <=> Len(list) <= MaximumCount /\ AllFit(list)
<1>1. Archived \subseteq Plain
  BY ArchivedPlain
<1>2. list \in Seq(Plain)
  BY <1>1
<1>3. \A i \in DOMAIN list : list[i] \in Archived
  OBVIOUS
<1>4. \A i \in DOMAIN list : CookieFits(list[i]) <=> Encodable(list[i])
  BY <1>3, ArchivedPlain
<1> QED BY <1>2, <1>4 DEF WithinLimits, AllFit

-----------------------------------------------------------------------------
(* The files. *)

\* Where the bytes of a file come from, and that its reader saw the file as it
\* is now.
FileWhole ==
  harm = "none" /\ ((file = <<>> /\ answer = None) \/ file = encode_binary(kept))
FileGrown ==
  harm = "grown" /\ encode_binary(kept) \in Seq(Byte)
    /\ \E b \in Byte : file = Append(encode_binary(kept), b)
FileHarmed ==
  /\ harm = "harmed" /\ encode_binary(kept) \in Seq(Byte)
  /\ \/ \E i \in 1..Len(encode_binary(kept)), b \in Byte :
          b # encode_binary(kept)[i] /\ file = [encode_binary(kept) EXCEPT ![i] = b]
     \/ \E k \in 0..(Len(encode_binary(kept)) - 1) : file = SubSeq(encode_binary(kept), 1, k)
FileForged ==
  harm = "forged" /\ Len(file) >= 6 /\ file[5] = Len(file) - 6

\* The inductive invariant.
FileKnown ==
  /\ kept \in Seq(Archived) /\ file \in Seq(Byte)
  /\ answer # None => answer = decode_binary(file)
  /\ FileWhole \/ FileGrown \/ FileHarmed \/ FileForged

\* It holds at first and after every step.
LEMMA FileKnownInit == ArchiveInit => FileKnown
<1> SUFFICES ASSUME ArchiveInit PROVE FileKnown
  OBVIOUS
<1>1. kept \in Seq(Archived) /\ file = <<>> /\ harm = "none" /\ answer = None
  BY DEF ArchiveInit
<1>2. <<>> \in Seq(Byte)
  OBVIOUS
<1> QED BY <1>1, <1>2 DEF FileKnown, FileWhole

LEMMA FileKnownNext == FileKnown /\ [ArchiveNext]_archive_vars => FileKnown'
<1> SUFFICES ASSUME FileKnown, [ArchiveNext]_archive_vars PROVE FileKnown'
  OBVIOUS
<1> DEFINE a == encode_binary(kept)
<1>0. /\ kept \in Seq(Archived) /\ file \in Seq(Byte)
      /\ answer # None => answer = decode_binary(file)
  BY DEF FileKnown
<1>1. kept \in Seq(Plain) /\ Holds(a, kept, 0) /\ Len(Packed(kept)) \in Nat
  <2>1. kept \in Seq(Plain)
    BY <1>0, KeptPlain
  <2> QED BY <2>1, WrittenHolds, PackedBytes DEF Bytes
<1>2. Len(a) = Len(Packed(kept)) + 6 /\ a[5] = Len(Packed(kept))
  <2>1. Len(Packed(kept)) + 6 + 0 = Len(Packed(kept)) + 6
    BY <1>1
  <2> QED BY <1>1, <2>1 DEF Holds
<1>3. Unread /\ harm = "none" => file = a
  BY DEF FileKnown, FileWhole, FileGrown, FileHarmed, FileForged, Unread
<1>4. CASE Write
  <2>1. /\ file' = a /\ a \in Seq(Byte) /\ kept' = kept /\ harm' = "none" /\ answer' = answer
        /\ file = <<>> /\ harm = "none"
    BY <1>4 DEF Write
  <2>2. answer = None
    <3>1. file = a => Len(a) = 0
      BY <2>1
    <3>2. file # a
      BY <1>1, <1>2, <3>1
    <3> QED BY <2>1, <3>2 DEF FileKnown, FileWhole, FileGrown, FileHarmed, FileForged
  <2> HIDE DEF a
  <2>3. FileWhole'
    BY <2>1 DEF FileWhole, a
  <2> QED BY <1>0, <2>1, <2>2, <2>3 DEF FileKnown
<1>5. CASE Grow
  <2>1. /\ Unread /\ harm = "none" /\ harm' = "grown" /\ kept' = kept /\ answer' = answer
        /\ \E byte \in Fault : file' = Append(file, byte)
    BY <1>5 DEF Grow
  <2>2. answer = None
    BY <2>1 DEF Unread
  <2>3. PICK byte \in Byte : file' = Append(file, byte)
    BY <2>1, ArchiveAssumption
  <2>4. file' \in Seq(Byte)
    BY <1>0, <2>3, AppendProperties
  <2>5. file = a
    BY <1>3, <2>1
  <2>6. FileGrown'
    BY <1>0, <2>1, <2>3, <2>5 DEF FileGrown
  <2> QED BY <1>0, <2>1, <2>2, <2>4, <2>6 DEF FileKnown
<1>6. CASE Damage
  <2>1. /\ Unread /\ harm = "none" /\ harm' = "harmed" /\ kept' = kept /\ answer' = answer
        /\ \/ \E i \in DOMAIN file, byte \in Byte :
                byte # file[i] /\ file' = [file EXCEPT ![i] = byte]
           \/ \E n \in 0..(Len(file) - 1) : file' = SubSeq(file, 1, n)
    BY <1>6 DEF Damage
  <2>2. answer = None
    BY <2>1 DEF Unread
  <2>3. file = a /\ DOMAIN file = 1..Len(file)
    BY <1>0, <1>3, <2>1
  <2>4. FileHarmed'
    <3>1. a \in Seq(Byte) /\ a' = a
      BY <1>0, <2>1, <2>3
    <3> QED BY <2>1, <2>3, <3>1 DEF FileHarmed
  <2>5. file' \in Seq(Byte)
    <3>1. ASSUME NEW i \in DOMAIN file, NEW byte \in Byte, file' = [file EXCEPT ![i] = byte]
          PROVE  file' \in Seq(Byte)
      <4>1. i \in 1..Len(file)
        BY <2>3
      <4> QED BY <1>0, <3>1, <4>1, ExceptSeq
    <3>2. ASSUME NEW n \in 0..(Len(file) - 1), file' = SubSeq(file, 1, n)
          PROVE  file' \in Seq(Byte)
      <4>1. a \in Seq(Byte) /\ n \in 0..(Len(a) - 1) /\ file' = SubSeq(a, 1, n)
        BY <1>0, <2>3, <3>2
      <4> QED BY <1>1, <4>1, CutRefused
    <3> QED BY <2>1, <3>1, <3>2
  <2> QED BY <1>0, <2>1, <2>2, <2>4, <2>5 DEF FileKnown
<1>7. CASE Forge
  <2>1. /\ Unread /\ harm \in {"none", "forged"} /\ harm' = "forged" /\ kept' = kept
        /\ answer' = answer
    BY <1>7 DEF Forge
  <2>2. PICK i \in 7..Len(file), byte \in Byte :
          LET other == [file EXCEPT ![i] = byte]
          IN file' = [other EXCEPT ![6] = checksum64(Payload(other))]
    <3>1. \E i \in (HeaderBytes + 1)..Len(file), byte \in Fault :
            LET other == [file EXCEPT ![i] = byte]
            IN file' = [other EXCEPT ![6] = checksum64(Payload(other))]
      BY <1>7 DEF Forge
    <3>2. HeaderBytes + 1 = 7 /\ Fault \subseteq Byte
      BY ArchiveAssumption DEF HeaderBytes
    <3> QED BY <3>1, <3>2
  <2>3. Len(file) >= 6 /\ file[5] = Len(file) - 6 /\ Len(file) \in Nat
    <3>1. CASE harm = "none"
      <4>1. file = a
        BY <1>3, <2>1, <3>1
      <4> QED BY <1>1, <1>2, <4>1
    <3>2. CASE harm = "forged"
      BY <1>0, <3>2 DEF FileKnown, FileWhole, FileGrown, FileHarmed, FileForged
    <3> QED BY <1>0, <2>1, <3>1, <3>2
  <2> DEFINE other == [file EXCEPT ![i] = byte]
             x == checksum64(Payload(other))
  <2>4. file' = [other EXCEPT ![6] = x]
    BY <2>2
  <2>5. /\ other \in Seq(Byte) /\ Len(other) = Len(file) /\ other[5] = file[5]
    <3>1. i \in 1..Len(file) /\ 5 \in 1..Len(file) /\ i # 5
      BY <2>3
    <3>2. /\ other \in Seq(Byte) /\ Len(other) = Len(file)
          /\ \A j \in 1..Len(file) : other[j] = IF j = i THEN byte ELSE file[j]
      BY <1>0, <3>1, ExceptSeq
    <3> HIDE DEF other
    <3> QED BY <3>1, <3>2
  <2> HIDE DEF other
  <2>6. x \in Byte
    <3>1. file[5] \in Nat /\ file[5] + 6 <= Len(other)
      BY <2>3, <2>5
    <3>2. Payload(other) \in Seq(Byte)
      BY <2>5, <3>1, PayloadIs
    <3> QED BY <3>2, ByteFacts
  <2> HIDE DEF x
  <2>7. file' \in Seq(Byte) /\ Len(file') = Len(file) /\ file'[5] = file[5]
    <3>1. 6 \in 1..Len(other) /\ 5 \in 1..Len(other)
      BY <2>3, <2>5
    <3>2. /\ file' \in Seq(Byte) /\ Len(file') = Len(other)
          /\ \A j \in 1..Len(other) : file'[j] = IF j = 6 THEN x ELSE other[j]
      BY <2>4, <2>5, <2>6, <3>1, ExceptSeq
    <3> QED BY <2>5, <3>1, <3>2
  <2>8. FileForged'
    BY <2>1, <2>3, <2>7 DEF FileForged
  <2>9. answer = None
    BY <2>1 DEF Unread
  <2> QED BY <1>0, <2>1, <2>7, <2>8, <2>9 DEF FileKnown
<1>8. CASE Read
  <2>1. /\ answer' = decode_binary(file) /\ kept' = kept /\ file' = file /\ harm' = harm
        /\ file # <<>> \/ harm # "none"
    BY <1>8 DEF Read
  <2>2. answer' = decode_binary(file)'
    BY <2>1
  <2>3. FileWhole' \/ FileGrown' \/ FileHarmed' \/ FileForged'
    <3>1. FileWhole => FileWhole'
      BY <2>1 DEF FileWhole
    <3>2. FileGrown => FileGrown'
      BY <2>1 DEF FileGrown
    <3>3. FileHarmed => FileHarmed'
      BY <2>1 DEF FileHarmed
    <3>4. FileForged => FileForged'
      BY <2>1 DEF FileForged
    <3> QED BY <3>1, <3>2, <3>3, <3>4 DEF FileKnown
  <2> QED BY <1>0, <2>1, <2>2, <2>3 DEF FileKnown
<1>9. CASE UNCHANGED archive_vars
  BY <1>9 DEF archive_vars, FileKnown, FileWhole, FileGrown, FileHarmed, FileForged
<1> QED BY <1>4, <1>5, <1>6, <1>7, <1>8, <1>9 DEF ArchiveNext

LEMMA FilesKnown == ArchiveSpec => []FileKnown
BY FileKnownInit, FileKnownNext, PTL DEF ArchiveSpec

\* What is read is refused or is what was written.
LEMMA ReadIsRight == FileKnown => ReadOrRefused
<1> SUFFICES ASSUME FileKnown, answer # None, harm # "forged"
             PROVE  IF harm # "harmed" /\ WithinLimits(kept) /\ Len(file) <= MaximumFile
                    THEN answer = Report([i \in DOMAIN kept |-> AsRead(kept[i])],
                                         IF harm = "grown" THEN 1 ELSE 0)
                    ELSE answer = Refused
  BY DEF ReadOrRefused
<1> DEFINE a == encode_binary(kept)
<1>1. kept \in Seq(Archived) /\ file \in Seq(Byte) /\ answer = decode_binary(file)
  BY DEF FileKnown
<1>2. /\ kept \in Seq(Plain)
      /\ WithinLimits(kept) <=> Len(kept) <= MaximumCount /\ AllFit(kept)
  BY <1>1, KeptPlain
<1>3. Holds(a, kept, 0) /\ Nat \subseteq Nat \cup Byte
  BY <1>2, WrittenHolds
<1>4. ReadAll(kept) = [i \in DOMAIN kept |-> AsRead(kept[i])]
  BY DEF ReadAll
<1>5. ASSUME NEW t \in Nat, Holds(file, kept, t)
      PROVE  answer = IF WithinLimits(kept) /\ Len(file) <= MaximumFile
                      THEN Report(ReadAll(kept), t) ELSE Refused
  <2>1. file \in Seq(Nat)
    BY <1>1, ByteFacts, SeqWidens
  <2>2. Payload(file) = Packed(kept)
    BY <1>2, <1>5, <2>1, HeldPayload
  <2> QED BY <1>1, <1>2, <1>5, <2>2, HeldReads
<1>6. CASE FileWhole
  <2>1. harm = "none" /\ file = a
    BY <1>6 DEF FileWhole
  <2>2. answer = IF WithinLimits(kept) /\ Len(file) <= MaximumFile
                 THEN Report(ReadAll(kept), 0) ELSE Refused
    BY <1>3, <1>5, <2>1
  <2> QED BY <1>4, <2>1, <2>2
<1>7. CASE FileGrown
  <2>1. PICK b \in Byte : file = Append(a, b)
    BY <1>7 DEF FileGrown
  <2>2. a \in Seq(Byte) /\ harm = "grown"
    BY <1>7 DEF FileGrown
  <2>3. Holds(file, kept, 1)
    <3> DEFINE p == Packed(kept)
    <3>1. p \in Bytes
      BY <1>2, PackedBytes
    <3> HIDE DEF p
    <3>2. Len(p) \in Nat
      BY <3>1 DEF Bytes
    <3>3. /\ Len(a) = Len(p) + 6
          /\ a[1] = Magic /\ a[2] = Version /\ a[3] = 0 /\ a[4] = Len(kept)
          /\ a[5] = Len(p) /\ a[6] = checksum64(p)
          /\ \A j \in 1..Len(p) : a[j + 6] = p[j]
      <4>1. Len(p) + 6 + 0 = Len(p) + 6
        BY <3>2
      <4> QED BY <1>3, <4>1 DEF Holds, p
    <3> HIDE DEF a
    <3>4. Len(file) = Len(a) + 1 /\ \A j \in 1..Len(a) : file[j] = a[j]
      BY <2>1, <2>2, AppendProperties
    <3>5. Len(file) = Len(p) + 6 + 1
      BY <3>2, <3>3, <3>4
    <3>6. /\ file[1] = Magic /\ file[2] = Version /\ file[3] = 0 /\ file[4] = Len(kept)
          /\ file[5] = Len(p) /\ file[6] = checksum64(p)
      BY <3>2, <3>3, <3>4
    <3>7. \A j \in 1..Len(p) : file[j + 6] = p[j]
      <4>1. \A j \in 1..Len(p) : j + 6 \in 1..Len(a)
        BY <3>2, <3>3
      <4> QED BY <3>3, <3>4, <4>1
    <3> QED BY <3>5, <3>6, <3>7 DEF Holds, p
  <2>4. answer = IF WithinLimits(kept) /\ Len(file) <= MaximumFile
                 THEN Report(ReadAll(kept), 1) ELSE Refused
    BY <1>5, <2>3
  <2> QED BY <1>4, <2>2, <2>4
<1>8. CASE FileHarmed
  <2>1. a \in Seq(Byte) /\ harm = "harmed"
    BY <1>8 DEF FileHarmed
  <2>2. ASSUME NEW i \in 1..Len(a), NEW b \in Byte, b # a[i], file = [a EXCEPT ![i] = b]
        PROVE  answer = Refused
    BY <1>1, <1>2, <2>1, <2>2, DamageRefused
  <2>3. ASSUME NEW k \in 0..(Len(a) - 1), file = SubSeq(a, 1, k) PROVE answer = Refused
    BY <1>1, <1>2, <2>1, <2>3, CutRefused
  <2>4. answer = Refused
    BY <1>8, <2>2, <2>3 DEF FileHarmed
  <2> QED BY <2>1, <2>4
<1>9. ~FileForged
  BY DEF FileForged
<1> QED BY <1>6, <1>7, <1>8, <1>9 DEF FileKnown

\* ReadOrRefused for every collection and every limit: what encode_binary
\* wrote is read back, also with bytes behind it, or refused because of a limit;
\* and no single damaged byte and no missing end stays unnoticed, because
\* xor, and a factor that is odd, tell any two bytes apart (binary.rs:47-119).
THEOREM ArchivesReadOrRefused == ArchiveSpec => []ReadOrRefused
BY FilesKnown, ReadIsRight, PTL

\* An accepted file is as long as the archive of its cookies, which is read.
LEMMA AcceptedIsAgain == FileKnown => AcceptedIsOwn
<1> SUFFICES ASSUME FileKnown, answer \notin {None, Refused}
             PROVE  LET again == encode_binary(answer.collection)
                    IN /\ Len(again) = Len(file) - answer.trailing
                       /\ decode_binary(again) = Report(answer.collection, 0)
  BY DEF AcceptedIsOwn
<1>1. file \in Seq(Byte) /\ answer = decode_binary(file) /\ file \in Seq(Nat)
  <2>1. file \in Seq(Byte) /\ answer = decode_binary(file)
    BY DEF FileKnown
  <2> QED BY <2>1, ByteFacts, SeqWidens
<1>2. /\ HeaderAccepted(file) /\ Decoded(file).rest = <<>>
      /\ answer = Report(Decoded(file).value, Len(file) - HeaderBytes - file[5])
  BY <1>1 DEF decode_binary
<1>3. /\ Len(file) <= MaximumFile /\ Len(file) >= 6 /\ file[4] <= MaximumCount
      /\ file[5] <= Len(file) - 6
  BY <1>2 DEF HeaderAccepted, HeaderBytes
<1>4. PICK l \in Nat, n \in Nat : l = file[5] /\ n = file[4]
  <2>1. 4 \in 1..Len(file) /\ 5 \in 1..Len(file)
    BY <1>1, <1>3
  <2> QED BY <1>1, <2>1
<1>5. Len(file) \in Nat /\ l + 6 <= Len(file) /\ MaximumFile \in Nat
  BY <1>1, <1>3, <1>4, ArchiveAssumption
<1> DEFINE q == Payload(file)
<1>6. q \in Bytes /\ Len(q) = l
  <2>1. file[5] = l
    BY <1>4
  <2> QED BY <1>1, <1>5, <2>1, PayloadIs DEF Bytes
<1>7. Decoded(file) = Cookies(q, n)
  BY <1>4 DEF Decoded
<1> HIDE DEF q
<1>8. Cookies(q, n) # Failed
  BY <1>2, <1>7, NoCookieLeft DEF Nonempty
<1>9. PICK list \in Seq(Plain), r \in Bytes :
           /\ Cookies(q, n) = [value |-> list, rest |-> r]
           /\ Len(list) = n /\ AllFit(list) /\ ReadAll(list) = list
           /\ Len(q) = Len(Packed(list)) + Len(r)
  BY <1>6, <1>8, CookiesTake
<1>10. r = <<>> /\ Decoded(file).value = list
  BY <1>2, <1>7, <1>9
<1>11. Packed(list) \in Bytes
  BY PackedBytes
<1>12. Len(Packed(list)) = l
  <2>1. Len(Packed(list)) \in Nat /\ Len(r) = 0
    BY <1>10, <1>11 DEF Bytes
  <2> QED BY <1>6, <1>9, <2>1
<1>13. answer.collection = list /\ answer.trailing = Len(file) - 6 - l
  <2>1. answer = Report(list, Len(file) - 6 - l)
    BY <1>2, <1>4, <1>10 DEF HeaderBytes
  <2> QED BY <2>1 DEF Report
<1> DEFINE again == encode_binary(list)
<1>14. Holds(again, list, 0)
  BY WrittenHolds
<1>15. Payload(again) = Packed(list)
  <2>1. PICK S : again \in Seq(S) /\ Nat \subseteq S
    BY WrittenHolds
  <2> QED BY <1>14, <2>1, HeldPayload
<1> HIDE DEF again
<1>16. Len(again) = l + 6
  <2>1. Len(again) = Len(Packed(list)) + 6 + 0
    BY <1>14 DEF Holds
  <2> QED BY <1>12, <2>1
<1>17. decode_binary(again) = Report(list, 0)
  <2>1. Len(again) <= MaximumFile /\ Len(list) <= MaximumCount
    <3>1. Len(again) <= MaximumFile
      BY <1>3, <1>5, <1>16
    <3>2. Len(list) <= MaximumCount
      BY <1>3, <1>4, <1>9
    <3> QED BY <3>1, <3>2
  <2>2. decode_binary(again) =
          IF Len(again) <= MaximumFile /\ Len(list) <= MaximumCount /\ AllFit(list)
          THEN Report(ReadAll(list), 0) ELSE Refused
    BY <1>14, <1>15, HeldReads
  <2> QED BY <1>9, <2>1, <2>2
<1>18. Len(again) = Len(file) - (Len(file) - 6 - l)
  BY <1>5, <1>16
<1> QED BY <1>13, <1>17, <1>18 DEF again

\* AcceptedIsOwn for every file, whoever wrote it: an accepted file has not one
\* byte more than the archive of its cookies, up to what it counts as trailing,
\* and that archive is accepted and has the same cookies (binary.rs:98-119,
\* 158-192, 305-312).
THEOREM AcceptedAreOwn == ArchiveSpec => []AcceptedIsOwn
BY FilesKnown, AcceptedIsAgain, PTL

=============================================================================
