------------------------- MODULE SessionStorageProofs -------------------------
(***************************************************************************)
(* Proofs about SessionStorage: however updates and clears overlap, no     *)
(* entry is listed twice or in the wrong area, what nobody holds never     *)
(* comes back, and only an overlap makes the lists differ from those of    *)
(* atomic updates.                                                         *)
(***************************************************************************)
EXTENDS SessionStorage, NumberFacts, SequenceTheorems

Slot == {c \in Call : call[c] # Idle}

Adding == {c \in Slot : call[c].kind = "add"}

Update == [kind : {"add", "drop"}, area : Area, id : Nat,
           pc : {"reading", "writing"}, read : Seq(Nat)]

TypeOK ==
  /\ stored \in [Area -> Seq(Nat)]
  /\ call \in [Call -> Update \cup {Idle}]
  /\ made \in Nat
  /\ open \in BOOLEAN
  /\ expected \in [Area -> [list : Seq(Nat), overtaken : BOOLEAN]]

\* The lists of an area: the stored one, and those its updates have read.
Lists(a) == {stored[a]} \cup {call[c].read : c \in {d \in Slot : call[d].area = a}}

\* An id that was given out belongs to one area, and a list names it once.
ListsSound ==
  /\ \A a \in Area : \A list \in Lists(a) :
       IsInjective(list) /\ Range(list) \subseteq 1..made
  /\ \A list \in Lists("audit"), other \in Lists("snapshots") :
       Range(list) \cap Range(other) = {}

\* The id of an entry that is to be added is its own, and in no list yet.
AddedAreNew ==
  /\ \A c \in Adding : /\ call[c].id \in 1..made
                       /\ \A a \in Area : \A list \in Lists(a) :
                            call[c].id \notin Range(list)
  /\ \A c, d \in Adding : call[c].id = call[d].id => c = d

\* Until an update is overtaken, whoever holds a list holds the stored one.
HeldIsStored ==
  \A a \in Area : ~expected[a].overtaken =>
    /\ stored[a] = expected[a].list
    /\ \A c \in Holding(a) : call[c].read = stored[a]

IInv == TypeOK /\ ListsSound /\ AddedAreNew /\ HeldIsStored

-----------------------------------------------------------------------------
(* The filter. *)

\* The recursive function that Without is defined by exists: it does on every
\* beginning of the list, or there were a shortest one without it.
LEMMA WithoutDefined ==
  ASSUME NEW list, NEW id, Len(list) \in Nat
  PROVE  \E kept :
           /\ Without(list, id) = kept[Len(list)]
           /\ \A i \in 0..Len(list) : kept[i] =
                IF i = 0 THEN <<>>
                ELSE IF list[i] = id THEN kept[i - 1] ELSE Append(kept[i - 1], list[i])
<1> DEFINE Following(g, i) == IF list[i] = id THEN g[i - 1] ELSE Append(g[i - 1], list[i])
           Is(g, n) == g = [i \in 0..n |-> IF i = 0 THEN <<>> ELSE Following(g, i)]
           Bad == {n \in Nat : ~ \E g : Is(g, n)}
<1>1. Bad = {}
  <2>1. SUFFICES ASSUME Bad # {} PROVE FALSE
    OBVIOUS
  <2>2. PICK n \in Bad : \A m \in Bad : n <= m
    <3>1. Bad \subseteq Nat
      OBVIOUS
    <3> HIDE DEF Bad
    <3> QED BY <2>1, <3>1, Least
  <2>3. n \in Nat /\ \A m \in Nat : m < n => m \notin Bad
    <3>1. n \in Nat
      OBVIOUS
    <3> HIDE DEF Bad
    <3> QED BY <2>2, <3>1
  <2>4. CASE n = 0
    <3>1. Is([i \in 0..0 |-> <<>>], 0)
      OBVIOUS
    <3> QED BY <2>4, <3>1
  <2>5. CASE n # 0
    <3>1. n - 1 \in Nat /\ n - 1 < n
      BY <2>3, <2>5
    <3>2. PICK g : Is(g, n - 1)
      BY <2>3, <3>1
    <3>3. \A i \in 0..(n - 1) : g[i] = IF i = 0 THEN <<>> ELSE Following(g, i)
      BY <3>2
    <3> DEFINE h == [i \in 0..n |-> IF i < n THEN g[i] ELSE Following(g, i)]
    <3>4. ASSUME NEW i \in 0..n
          PROVE  h[i] = IF i = 0 THEN <<>> ELSE Following(h, i)
      <4>1. CASE i < n
        BY <3>1, <3>3, <4>1
      <4>2. CASE i = n
        BY <2>5, <3>1, <4>2
      <4> QED BY <2>3, <4>1, <4>2
    <3>5. Is(h, n)
      BY <3>4
    <3> QED BY <3>5
  <2> QED BY <2>4, <2>5
<1>2. \E g : Is(g, Len(list))
  BY <1>1
<1> DEFINE kept == CHOOSE g : Is(g, Len(list))
<1>3. Is(kept, Len(list))
  BY <1>2
<1>4. Without(list, id) = kept[Len(list)]
  BY DEF Without
<1>5. \A i \in 0..Len(list) : kept[i] = IF i = 0 THEN <<>> ELSE Following(kept, i)
  BY <1>3
<1> QED BY <1>4, <1>5

\* Without drops the id and nothing else, and lists nothing twice that was
\* not: on a shortest beginning where it did, its last step would have to.
LEMMA WithoutProperties ==
  ASSUME NEW S, NEW list \in Seq(S), NEW id
  PROVE  /\ Without(list, id) \in Seq(S)
         /\ Range(Without(list, id)) = Range(list) \ {id}
         /\ IsInjective(list) => IsInjective(Without(list, id))
<1>1. Len(list) \in Nat /\ list \in [1..Len(list) -> S]
  OBVIOUS
<1>2. PICK kept :
        /\ Without(list, id) = kept[Len(list)]
        /\ \A i \in 0..Len(list) : kept[i] =
             IF i = 0 THEN <<>>
             ELSE IF list[i] = id THEN kept[i - 1] ELSE Append(kept[i - 1], list[i])
  BY <1>1, WithoutDefined
<1> DEFINE Good(n) ==
      /\ kept[n] \in Seq(S)
      /\ Range(kept[n]) = {list[i] : i \in 1..n} \ {id}
      /\ IsInjective(list) => IsInjective(kept[n])
    Bad == {n \in 0..Len(list) : ~Good(n)}
<1>3. Good(0)
  <2>1. kept[0] = <<>>
    BY <1>1, <1>2
  <2>2. <<>> \in Seq(S) /\ Range(<<>>) = {} /\ IsInjective(<<>>)
    BY DEF Range, IsInjective
  <2> QED BY <2>1, <2>2
<1>4. ASSUME NEW n \in 1..Len(list), Good(n - 1) PROVE Good(n)
  <2>1. n \in 0..Len(list) /\ n # 0 /\ n - 1 \in Nat /\ list[n] \in S
    BY <1>1
  <2>2. {list[i] : i \in 1..n} = {list[i] : i \in 1..(n - 1)} \cup {list[n]}
    BY <1>1
  <2>3. CASE list[n] = id
    <3>1. kept[n] = kept[n - 1]
      BY <1>2, <2>1, <2>3
    <3> QED BY <1>4, <2>2, <2>3, <3>1
  <2>4. CASE list[n] # id
    <3> DEFINE s == kept[n - 1]
    <3>1. kept[n] = Append(s, list[n])
      BY <1>2, <2>1, <2>4
    <3>2. s \in Seq(S) /\ Range(s) = {list[i] : i \in 1..(n - 1)} \ {id}
      BY <1>4
    <3>3. IsInjective(list) => IsInjective(s) /\ list[n] \notin Range(s)
      BY <1>1, <1>4, <3>2 DEF IsInjective
    <3> HIDE DEF s
    <3>4. /\ Append(s, list[n]) \in Seq(S) /\ Len(Append(s, list[n])) = Len(s) + 1
          /\ \A i \in 1..Len(s) : Append(s, list[n])[i] = s[i]
          /\ Append(s, list[n])[Len(s) + 1] = list[n]
          /\ DOMAIN Append(s, list[n]) = 1..(Len(s) + 1) /\ DOMAIN s = 1..Len(s)
          /\ Len(s) \in Nat
      BY <2>1, <3>2
    <3>5. Range(Append(s, list[n])) = Range(s) \cup {list[n]}
      BY <3>4 DEF Range
    <3>6. IsInjective(s) /\ list[n] \notin Range(s) => IsInjective(Append(s, list[n]))
      BY <3>4 DEF IsInjective, Range
    <3> QED BY <2>2, <2>4, <3>1, <3>2, <3>3, <3>4, <3>5, <3>6
  <2> QED BY <2>3, <2>4
<1>5. Bad = {}
  <2>1. SUFFICES ASSUME Bad # {} PROVE FALSE
    OBVIOUS
  <2>2. Bad \subseteq Nat
    OBVIOUS
  <2>3. PICK n \in Bad : \A m \in Bad : n <= m
    <3> HIDE DEF Bad
    <3> QED BY <2>1, <2>2, Least
  <2>4. n \in 1..Len(list) /\ n - 1 \in 0..Len(list) /\ n - 1 < n
    <3>1. n \in 0..Len(list) /\ n # 0
      BY <1>3
    <3> HIDE DEF Bad
    <3> QED BY <1>1, <3>1
  <2>5. n - 1 \notin Bad
    <3> HIDE DEF Bad
    <3> QED BY <2>2, <2>3, <2>4
  <2>6. Good(n - 1)
    BY <2>4, <2>5
  <2>7. Good(n)
    <3> HIDE DEF Good
    <3> QED BY <1>4, <2>4, <2>6
  <2> QED BY <2>7
<1>6. Good(Len(list))
  <2>1. Len(list) \in 0..Len(list)
    BY <1>1
  <2> HIDE DEF Good
  <2> QED BY <1>5, <2>1
<1>7. Range(list) = {list[i] : i \in 1..Len(list)}
  BY <1>1 DEF Range
<1> QED BY <1>2, <1>6, <1>7

-----------------------------------------------------------------------------
(* What an update makes of a list. *)

\* A new list names what the old one did, perhaps less, and an id that is
\* added; it names nothing twice when the id is new.
LEMMA UpdatedProperties ==
  ASSUME NEW c \in Update, NEW list \in Seq(Nat)
  PROVE  /\ Updated(c, list) \in Seq(Nat)
         /\ Range(Updated(c, list)) \subseteq
              Range(list) \cup (IF c.kind = "add" THEN {c.id} ELSE {})
         /\ IsInjective(list) /\ (c.kind = "add" => c.id \notin Range(list))
              => IsInjective(Updated(c, list))
<1>1. CASE c.kind = "add"
  <2> DEFINE longer == <<c.id>> \o list
             n == IF Len(longer) < Limit[c.area] THEN Len(longer) ELSE Limit[c.area]
  <2>1. /\ longer \in Seq(Nat) /\ Len(longer) = Len(list) + 1
        /\ longer[1] = c.id
        /\ \A i \in 2..Len(longer) : longer[i] = list[i - 1]
        /\ Len(list) \in Nat
    <3>1. c.id \in Nat /\ <<c.id>> \in Seq(Nat) /\ Len(<<c.id>>) = 1 /\ <<c.id>>[1] = c.id
      BY DEF Update
    <3>2. Len(list) \in Nat
      OBVIOUS
    <3>3. /\ longer \in Seq(Nat) /\ Len(longer) = 1 + Len(list)
          /\ \A i \in 1..(1 + Len(list)) :
               longer[i] = IF i <= 1 THEN <<c.id>>[i] ELSE list[i - 1]
      BY <3>1, ConcatProperties
    <3> QED BY <3>1, <3>2, <3>3
  <2>2. n \in Nat /\ n <= Len(longer) /\ Limit[c.area] \in Nat
    <3>1. Limit[c.area] \in Nat
      BY SessionAssumption DEF Update
    <3> HIDE DEF longer
    <3> QED BY <2>1, <3>1
  <2> DEFINE new == SubSeq(longer, 1, n)
  <2>3. Updated(c, list) = new
    BY <1>1 DEF Updated, Trim
  <2> HIDE DEF longer, n
  <2>4. new \in Seq(Nat) /\ Len(new) = n /\ \A i \in 1..n : new[i] = longer[i]
    BY <2>1, <2>2, SubSeqProperties, ElementOfSeq
  <2>5. DOMAIN new = 1..n /\ DOMAIN longer = 1..Len(longer) /\ DOMAIN list = 1..Len(list)
    BY <2>1, <2>4
  <2> HIDE DEF new
  <2>6. ASSUME NEW i \in 1..n PROVE new[i] \in Range(list) \cup {c.id}
    <3>1. CASE i = 1
      BY <2>1, <2>2, <2>4, <3>1
    <3>2. CASE i # 1
      <4>1. i \in 2..Len(longer) /\ i - 1 \in DOMAIN list
        BY <2>1, <2>2, <2>5, <3>2
      <4> QED BY <2>1, <2>4, <4>1 DEF Range
    <3> QED BY <3>1, <3>2
  <2>7. Range(new) \subseteq Range(list) \cup {c.id}
    BY <2>5, <2>6 DEF Range
  <2>8. ASSUME IsInjective(list), c.id \notin Range(list) PROVE IsInjective(new)
    <3> SUFFICES ASSUME NEW i \in 1..n, NEW j \in 1..n, i < j, new[i] = new[j]
                 PROVE  FALSE
      BY <2>2, <2>5 DEF IsInjective
    <3>1. j \in 2..Len(longer) /\ j - 1 \in DOMAIN list /\ new[j] = list[j - 1]
      BY <2>1, <2>2, <2>4, <2>5
    <3>2. CASE i = 1
      BY <2>1, <2>4, <2>8, <3>1, <3>2 DEF Range
    <3>3. CASE i # 1
      <4>1. i - 1 \in DOMAIN list /\ new[i] = list[i - 1] /\ i - 1 # j - 1
        BY <2>1, <2>2, <2>4, <2>5, <3>3
      <4> QED BY <2>8, <3>1, <4>1 DEF IsInjective
    <3> QED BY <3>2, <3>3
  <2> QED BY <1>1, <2>3, <2>4, <2>7, <2>8
<1>2. CASE c.kind # "add"
  <2>1. Updated(c, list) = Without(list, c.id)
    BY <1>2 DEF Updated
  <2> QED BY <1>2, <2>1, WithoutProperties
<1> QED BY <1>1, <1>2

-----------------------------------------------------------------------------
(* Types. *)

\* The fields of an update in flight.
LEMMA IdleIsNoUpdate == Idle \notin Update
  BY DEF Idle, Update

LEMMA SlotTyping ==
  ASSUME TypeOK, NEW c \in Call, call[c] # Idle
  PROVE  call[c] \in Update /\ call[c].area \in Area /\ call[c].read \in Seq(Nat)
  BY DEF TypeOK, Update

LEMMA StartedTyping ==
  ASSUME NEW area \in Area, NEW kind \in {"add", "drop"}, NEW id \in Nat
  PROVE  Started(area, kind, id) \in Update
  BY EmptySeq DEF Started, Update

\* What a write does to the types.
LEMMA ChangeTyping ==
  ASSUME TypeOK, NEW area \in Area, NEW list \in Seq(Nat), NEW atomic \in Seq(Nat),
         NEW others, Change(area, list, atomic, others)
  PROVE  /\ stored' \in [Area -> Seq(Nat)]
         /\ expected' \in [Area -> [list : Seq(Nat), overtaken : BOOLEAN]]
  BY DEF TypeOK, Change

\* Types hold at the start and are kept.
LEMMA InitTyping == Init => TypeOK
<1> SUFFICES ASSUME Init PROVE TypeOK
  OBVIOUS
<1>1. <<>> \in Seq(Nat)
  OBVIOUS
<1>2. AtomicSession \in [Area -> [list : Seq(Nat), overtaken : BOOLEAN]]
  BY <1>1 DEF AtomicSession
<1> QED BY <1>1, <1>2 DEF Init, TypeOK

LEMMA StepTyping == TypeOK /\ [Next]_vars => TypeOK'
<1> SUFFICES ASSUME TypeOK, [Next]_vars PROVE TypeOK'
  OBVIOUS
<1>1. ASSUME OpenPopup PROVE TypeOK'
  BY <1>1 DEF TypeOK, OpenPopup
<1>2. ASSUME ClosePopup PROVE TypeOK'
  BY <1>2 DEF TypeOK, ClosePopup
<1>3. ASSUME NEW c \in Call, NEW area \in Area, Add(c, area) PROVE TypeOK'
  <2>1. Started(area, "add", made + 1) \in Update
    BY StartedTyping DEF TypeOK
  <2> QED BY <1>3, <2>1 DEF TypeOK, Add
<1>4. ASSUME NEW c \in Call, NEW id \in Id, RemoveSnapshot(c, id) PROVE TypeOK'
  <2>1. id \in Nat /\ "snapshots" \in Area
    BY SessionAssumption DEF Id, Area
  <2>2. Started("snapshots", "drop", id) \in Update
    BY <2>1, StartedTyping
  <2> QED BY <1>4, <2>2 DEF TypeOK, RemoveSnapshot
<1>5. ASSUME NEW c \in Call, Read(c) PROVE TypeOK'
  <2>1. call[c] \in Update /\ stored[call[c].area] \in Seq(Nat)
    BY <1>5, SlotTyping DEF Read, TypeOK
  <2>2. [call[c] EXCEPT !.pc = "writing", !.read = stored[call[c].area]] \in Update
    BY <2>1 DEF Update
  <2>3. call' = [call EXCEPT ![c] =
                   [call[c] EXCEPT !.pc = "writing", !.read = stored[call[c].area]]]
    BY <1>5 DEF Read, TypeOK
  <2> QED BY <1>5, <2>2, <2>3 DEF TypeOK, Read
<1>6. ASSUME NEW c \in Call, Write(c) PROVE TypeOK'
  <2> DEFINE area == call[c].area
  <2>1. call[c] \in Update /\ area \in Area /\ call[c].read \in Seq(Nat)
    BY <1>6, SlotTyping DEF Write
  <2>2. expected[area].list \in Seq(Nat)
    BY <2>1 DEF TypeOK
  <2>3. /\ Updated(call[c], call[c].read) \in Seq(Nat)
        /\ Updated(call[c], expected[area].list) \in Seq(Nat)
    BY <2>1, <2>2, UpdatedProperties
  <2>4. Change(area, Updated(call[c], call[c].read),
               Updated(call[c], expected[area].list), Holding(area) \ {c})
    BY <1>6 DEF Write
  <2>5. /\ stored' \in [Area -> Seq(Nat)]
        /\ expected' \in [Area -> [list : Seq(Nat), overtaken : BOOLEAN]]
    <3> HIDE DEF area
    <3> QED BY <2>1, <2>3, <2>4, ChangeTyping
  <2> QED BY <1>6, <2>5 DEF TypeOK, Write
<1>7. ASSUME NEW c \in Call, Fail(c) PROVE TypeOK'
  BY <1>7 DEF TypeOK, Fail
<1>8. ASSUME NEW area \in Area, ClearArea(area) PROVE TypeOK'
  <2>1. Change(area, <<>>, <<>>, Holding(area))
    BY <1>8 DEF ClearArea
  <2>2. /\ stored' \in [Area -> Seq(Nat)]
        /\ expected' \in [Area -> [list : Seq(Nat), overtaken : BOOLEAN]]
    BY <2>1, EmptySeq, ChangeTyping
  <2> QED BY <1>8, <2>2 DEF TypeOK, ClearArea
<1>9. ASSUME ClearSession PROVE TypeOK'
  BY <1>9, EmptySeq DEF TypeOK, ClearSession
<1>10. ASSUME EndSession PROVE TypeOK'
  BY <1>10, EmptySeq DEF TypeOK, EndSession, AtomicSession
<1>11. ASSUME UNCHANGED vars PROVE TypeOK'
  BY <1>11 DEF TypeOK, vars
<1> QED
  BY <1>1, <1>2, <1>3, <1>4, <1>5, <1>6, <1>7, <1>8, <1>9, <1>10, <1>11 DEF Next

\* Every state has lists of ids, and slots that are idle or hold an update.
THEOREM TypeCorrect == Spec => []TypeOK
<1> QED BY InitTyping, StepTyping, PTL DEF Spec

-----------------------------------------------------------------------------
(* The lists and the ids. *)

\* The lists of an area: the one that is stored and the ones that were read.
LEMMA ListsMember ==
  ASSUME NEW a, NEW list
  PROVE  list \in Lists(a) <=>
           \/ list = stored[a]
           \/ \E c \in Call : call[c] # Idle /\ call[c].area = a /\ call[c].read = list
  BY DEF Lists, Slot

\* A step after which no area has a list it did not have, but for the empty
\* one, and nothing more is to be added, keeps lists and ids sound.
LEMMA FewerLists ==
  ASSUME ListsSound, AddedAreNew, made \in Nat, made' \in Nat, made <= made',
         \A a \in Area : Lists(a)' \subseteq Lists(a) \cup {<<>>},
         \A c \in Adding' : c \in Adding /\ call'[c].id = call[c].id
  PROVE  ListsSound' /\ AddedAreNew'
<1>1. IsInjective(<<>>) /\ Range(<<>>) = {}
  BY DEF IsInjective, Range
<1>2. 1..made \subseteq 1..made'
  OBVIOUS
<1>3. \A a \in Area : \A list \in Lists(a)' :
        IsInjective(list) /\ Range(list) \subseteq 1..made'
  BY <1>1, <1>2 DEF ListsSound
<1>4. \A list \in Lists("audit")', other \in Lists("snapshots")' :
        Range(list) \cap Range(other) = {}
  BY <1>1 DEF ListsSound, Area
<1>5. \A c \in Adding' : /\ call'[c].id \in 1..made'
                         /\ \A a \in Area : \A list \in Lists(a)' :
                              call'[c].id \notin Range(list)
  BY <1>1, <1>2 DEF AddedAreNew
<1>6. \A c, d \in Adding' : call'[c].id = call'[d].id => c = d
  BY DEF AddedAreNew
<1> QED BY <1>3, <1>4, <1>5, <1>6 DEF ListsSound, AddedAreNew

\* An update that is written adds a list of the ids it held and its own.
LEMMA WriteSound ==
  ASSUME TypeOK, ListsSound, AddedAreNew, NEW c \in Call, Write(c)
  PROVE  ListsSound' /\ AddedAreNew'
<1> DEFINE area == call[c].area
           old == call[c].read
           new == Updated(call[c], old)
           own == IF call[c].kind = "add" THEN {call[c].id} ELSE {}
<1>1. /\ call[c] \in Update /\ area \in Area /\ old \in Seq(Nat) /\ c \in Slot
      /\ call[c] # Idle
  BY SlotTyping DEF Write, Slot
<1>2. old \in Lists(area)
  BY <1>1, ListsMember
<1>3. /\ stored' = [stored EXCEPT ![area] = new]
      /\ call' = [call EXCEPT ![c] = Idle]
      /\ made' = made
  BY DEF Write, Change
<1>4. call[c].kind = "add" => c \in Adding
  BY <1>1 DEF Adding
<1>5. /\ own \subseteq 1..made
      /\ \A a \in Area : \A list \in Lists(a) : own \cap Range(list) = {}
      /\ \A d \in Adding : d # c => call[d].id \notin own
  BY <1>4 DEF AddedAreNew
<1>6. Range(new) \subseteq Range(old) \cup own /\ IsInjective(new)
  <2>1. IsInjective(old) /\ (call[c].kind = "add" => call[c].id \notin Range(old))
    BY <1>1, <1>2, <1>5 DEF ListsSound
  <2> QED BY <1>1, <2>1, UpdatedProperties
<1> HIDE DEF area, old, new, own
<1>7. \A a \in Area : Lists(a)' \subseteq Lists(a) \cup (IF a = area THEN {new} ELSE {})
  BY <1>1, <1>3, ListsMember DEF TypeOK, Lists, Slot
<1>8. Adding' \subseteq Adding \ {c} /\ \A d \in Adding' : call'[d] = call[d]
  BY <1>1, <1>3 DEF TypeOK, Adding, Slot
<1>9. \A a \in Area : \A list \in Lists(a)' :
        IsInjective(list) /\ Range(list) \subseteq 1..made'
  BY <1>2, <1>1, <1>3, <1>5, <1>6, <1>7 DEF ListsSound
<1>10. ASSUME NEW a \in Area, NEW b \in Area, a # b,
              NEW list \in Lists(a)', NEW other \in Lists(b)'
       PROVE  Range(list) \cap Range(other) = {}
  <2>1. \A x \in Lists(a), y \in Lists(b) : Range(x) \cap Range(y) = {}
    BY <1>10 DEF ListsSound, Area
  <2>2. CASE a = area
    <3>1. other \in Lists(b)
      BY <1>7, <1>10, <2>2
    <3>2. list \in Lists(a) \/ list = new
      BY <1>7, <2>2
    <3> QED BY <1>2, <1>5, <1>6, <2>1, <2>2, <3>1, <3>2
  <2>3. CASE a # area
    <3>1. list \in Lists(a)
      BY <1>7, <2>3
    <3>2. other \in Lists(b) \/ (b = area /\ other = new)
      BY <1>7
    <3> QED BY <1>2, <1>5, <1>6, <2>1, <3>1, <3>2
  <2> QED BY <2>2, <2>3
<1>11. ListsSound'
  <2>1. "audit" \in Area /\ "snapshots" \in Area /\ "audit" # "snapshots"
    BY DEF Area
  <2> QED BY <1>9, <1>10, <2>1 DEF ListsSound
<1>12. ASSUME NEW d \in Adding', NEW a \in Area, NEW list \in Lists(a)'
       PROVE  call'[d].id \notin Range(list)
  <2>1. d \in Adding /\ d # c /\ call'[d].id = call[d].id
    BY <1>8
  <2>2. list \in Lists(a) \/ list = new
    BY <1>7
  <2> QED BY <1>1, <1>2, <1>5, <1>6, <2>1, <2>2 DEF AddedAreNew
<1>13. AddedAreNew'
  <2>1. \A d \in Adding' : call'[d].id \in 1..made'
    BY <1>3, <1>8 DEF AddedAreNew
  <2>2. \A d, e \in Adding' : call'[d].id = call'[e].id => d = e
    BY <1>8 DEF AddedAreNew
  <2> QED BY <1>12, <2>1, <2>2 DEF AddedAreNew
<1> QED BY <1>11, <1>13

\* The invariant holds at the start and each part of it is kept.
LEMMA InitSound == Init => ListsSound /\ AddedAreNew /\ HeldIsStored
<1> SUFFICES ASSUME Init PROVE ListsSound /\ AddedAreNew /\ HeldIsStored
  OBVIOUS
<1>1. Slot = {} /\ Adding = {} /\ \A a \in Area : Holding(a) = {}
  BY DEF Init, Slot, Adding, Holding
<1>2. \A a \in Area : Lists(a) = {<<>>}
  BY <1>1 DEF Init, Lists
<1>3. IsInjective(<<>>) /\ Range(<<>>) = {}
  BY DEF IsInjective, Range
<1>4. ListsSound
  BY <1>2, <1>3 DEF ListsSound, Area
<1>5. AddedAreNew
  BY <1>1 DEF AddedAreNew
<1>6. HeldIsStored
  BY <1>1 DEF HeldIsStored, Init, AtomicSession
<1> QED BY <1>4, <1>5, <1>6

LEMMA StepSound ==
  TypeOK /\ ListsSound /\ AddedAreNew /\ [Next]_vars => ListsSound' /\ AddedAreNew'
<1> SUFFICES ASSUME TypeOK, ListsSound, AddedAreNew, [Next]_vars
             PROVE  ListsSound' /\ AddedAreNew'
  OBVIOUS
<1> DEFINE NoMore == /\ made' \in Nat /\ made <= made'
                     /\ \A a \in Area : Lists(a)' \subseteq Lists(a) \cup {<<>>}
                     /\ \A c \in Adding' : c \in Adding /\ call'[c].id = call[c].id
<1>a. ASSUME NoMore PROVE ListsSound' /\ AddedAreNew'
  <2>1. made \in Nat
    BY DEF TypeOK
  <2> QED BY <1>a, <2>1, FewerLists
<1>b. made \in Nat
  BY DEF TypeOK
<1>1. ASSUME OpenPopup PROVE NoMore
  BY <1>1, <1>b DEF OpenPopup, Lists, Slot, Adding
<1>2. ASSUME ClosePopup PROVE NoMore
  BY <1>2, <1>b DEF ClosePopup, Lists, Slot, Adding
<1>3. ASSUME NEW c \in Call, NEW area \in Area, Add(c, area)
      PROVE  ListsSound' /\ AddedAreNew'
  <2>1. /\ call' = [call EXCEPT ![c] = Started(area, "add", made + 1)]
        /\ stored' = stored /\ made' = made + 1 /\ call[c] = Idle
    BY <1>3 DEF Add
  <2>2. Started(area, "add", made + 1) \in Update /\ made' \in Nat /\ made < made'
    BY <1>b, <2>1, StartedTyping
  <2>3. \A a \in Area : Lists(a)' \subseteq Lists(a) \cup {<<>>}
    BY <2>1, ListsMember DEF TypeOK, Lists, Slot, Started
  <2>4. Adding' \subseteq Adding \cup {c} /\ c \notin Adding
    BY <2>1 DEF TypeOK, Adding, Slot
  <2>5. /\ call'[c].id = made + 1
        /\ \A d \in Adding' : d # c => d \in Adding /\ call'[d].id = call[d].id
    BY <2>1, <2>4 DEF TypeOK, Adding, Slot, Started
  <2>6. IsInjective(<<>>) /\ Range(<<>>) = {}
    BY DEF IsInjective, Range
  <2>7. \A a \in Area : \A list \in Lists(a)' :
          IsInjective(list) /\ Range(list) \subseteq 1..made
    BY <2>3, <2>6 DEF ListsSound
  <2>8. ListsSound'
    <3>1. 1..made \subseteq 1..made'
      BY <1>b, <2>2
    <3>2. \A list \in Lists("audit")', other \in Lists("snapshots")' :
            Range(list) \cap Range(other) = {}
      BY <2>3, <2>6 DEF ListsSound, Area
    <3> QED BY <2>7, <3>1, <3>2 DEF ListsSound
  <2>9. ASSUME NEW d \in Adding'
        PROVE  /\ call'[d].id \in 1..made'
               /\ \A a \in Area : \A list \in Lists(a)' : call'[d].id \notin Range(list)
    <3>1. CASE d = c
      BY <1>b, <2>1, <2>5, <2>7, <3>1
    <3>2. CASE d # c
      BY <1>b, <2>1, <2>3, <2>5, <2>6, <3>2 DEF AddedAreNew
    <3> QED BY <3>1, <3>2
  <2>10. ASSUME NEW d \in Adding', NEW e \in Adding', call'[d].id = call'[e].id
         PROVE  d = e
    <3>1. \A x \in Adding : call[x].id # made + 1
      BY <1>b DEF AddedAreNew
    <3> QED BY <2>5, <2>10, <3>1 DEF AddedAreNew
  <2> QED BY <2>8, <2>9, <2>10 DEF AddedAreNew
<1>4. ASSUME NEW c \in Call, NEW id \in Id, RemoveSnapshot(c, id) PROVE NoMore
  <2>1. /\ call' = [call EXCEPT ![c] = Started("snapshots", "drop", id)]
        /\ stored' = stored /\ made' = made /\ call[c] = Idle
    BY <1>4 DEF RemoveSnapshot
  <2>2. \A a \in Area : Lists(a)' \subseteq Lists(a) \cup {<<>>}
    BY <2>1, ListsMember DEF TypeOK, Lists, Slot, Started
  <2>3. \A d \in Adding' : d \in Adding /\ call'[d].id = call[d].id
    BY <2>1 DEF TypeOK, Adding, Slot, Started
  <2> QED BY <1>b, <2>1, <2>2, <2>3
<1>5. ASSUME NEW c \in Call, Read(c) PROVE NoMore
  <2>1. call[c] \in Update /\ call[c] # Idle
    BY <1>5, SlotTyping DEF Read
  <2>2. call' = [call EXCEPT ![c] =
                   [call[c] EXCEPT !.pc = "writing", !.read = stored[call[c].area]]]
    BY <1>5 DEF Read, TypeOK
  <2>3. /\ stored' = stored /\ made' = made
        /\ call'[c].read = stored[call[c].area]
        /\ call'[c].area = call[c].area /\ call'[c].id = call[c].id
        /\ call'[c].kind = call[c].kind
        /\ \A d \in Call : d # c => call'[d] = call[d]
    BY <1>5, <2>1, <2>2 DEF Read, TypeOK, Update
  <2>4. \A a \in Area : Lists(a)' \subseteq Lists(a) \cup {<<>>}
    BY <2>1, <2>3 DEF Lists, Slot
  <2>5. \A d \in Adding' : d \in Adding /\ call'[d].id = call[d].id
    BY <2>1, <2>3 DEF Adding, Slot
  <2> QED BY <1>b, <2>3, <2>4, <2>5
<1>6. ASSUME NEW c \in Call, Write(c) PROVE ListsSound' /\ AddedAreNew'
  BY <1>6, WriteSound
<1>7. ASSUME NEW c \in Call, Fail(c) PROVE NoMore
  BY <1>7, <1>b DEF Fail, TypeOK, Lists, Slot, Adding
<1>8. ASSUME NEW area \in Area, ClearArea(area) PROVE NoMore
  BY <1>8, <1>b DEF ClearArea, Change, TypeOK, Lists, Slot, Adding
<1>9. ASSUME ClearSession PROVE NoMore
  BY <1>9, <1>b DEF ClearSession, Lists, Slot, Adding
<1>10. ASSUME EndSession PROVE NoMore
  BY <1>10, <1>b DEF EndSession, Lists, Slot, Adding
<1>11. ASSUME UNCHANGED vars PROVE NoMore
  BY <1>11, <1>b DEF vars, Lists, Slot, Adding
<1> HIDE DEF NoMore
<1> QED
  BY <1>a, <1>1, <1>2, <1>3, <1>4, <1>5, <1>6, <1>7, <1>8, <1>9, <1>10, <1>11 DEF Next

\* In the list of its own area or in one that is held for it, an entry is
\* never doubled: two updates may write an old list, but only with ids that
\* were in it, and an id that is new is written once.
THEOREM EntriesAreDistinct == Spec => []EntriesDistinct
<1> DEFINE Sound == TypeOK /\ ListsSound /\ AddedAreNew
<1>1. Init => Sound
  BY InitTyping, InitSound
<1>2. Sound /\ [Next]_vars => Sound'
  BY StepTyping, StepSound
<1>3. Sound => EntriesDistinct
  <2> SUFFICES ASSUME Sound PROVE EntriesDistinct
    OBVIOUS
  <2>1. \A a \in Area : stored[a] \in Lists(a)
    BY DEF Lists
  <2>2. "audit" \in Area /\ "snapshots" \in Area
    BY DEF Area
  <2> QED BY <2>1, <2>2 DEF ListsSound, EntriesDistinct
<1> HIDE DEF Sound
<1> QED BY <1>1, <1>2, <1>3, PTL DEF Spec

-----------------------------------------------------------------------------
(* What an overlap is needed for. *)

\* Whoever changes a list and leaves it not overtaken was alone with it.
LEMMA ChangeHeld ==
  ASSUME TypeOK, HeldIsStored, NEW area \in Area, NEW list, NEW atomic, NEW others,
         Change(area, list, atomic, others),
         ~expected[area].overtaken => list = atomic,
         others = {} => Holding(area)' = {},
         \A a \in Area \ {area} : Holding(a)' \subseteq Holding(a),
         \A a \in Area \ {area} : \A c \in Holding(a)' : call'[c] = call[c]
  PROVE  HeldIsStored'
<1> SUFFICES ASSUME NEW a \in Area, ~expected'[a].overtaken
             PROVE  /\ stored'[a] = expected'[a].list
                    /\ \A c \in Holding(a)' : call'[c].read = stored'[a]
  BY DEF HeldIsStored
<1>1. CASE a = area
  <2>1. /\ stored'[a] = list
        /\ expected'[a] = [list |-> atomic,
                           overtaken |-> expected[a].overtaken \/ others # {}]
    BY <1>1 DEF TypeOK, Change
  <2>2. others = {} /\ ~expected[area].overtaken
    <3> DEFINE was == expected[a].overtaken \/ others # {}
    <3> HIDE DEF was
    <3>1. expected'[a].overtaken = was
      BY <2>1, SMT DEF was
    <3>2. ~was
      BY <3>1, Zenon
    <3> QED BY <1>1, <3>2, Zenon DEF was
  <2> QED BY <1>1, <2>1, <2>2
<1>2. CASE a # area
  <2>1. stored'[a] = stored[a] /\ expected'[a] = expected[a]
    BY <1>2 DEF TypeOK, Change
  <2> QED BY <1>2, <2>1 DEF HeldIsStored
<1> QED BY <1>1, <1>2

LEMMA StepHeld == TypeOK /\ HeldIsStored /\ [Next]_vars => HeldIsStored'
<1> SUFFICES ASSUME TypeOK, HeldIsStored, [Next]_vars PROVE HeldIsStored'
  OBVIOUS
<1> DEFINE NoMore == /\ UNCHANGED <<stored, expected>>
                     /\ \A a \in Area : \A c \in Holding(a)' :
                          c \in Holding(a) /\ call'[c].read = call[c].read
<1>a. ASSUME NoMore PROVE HeldIsStored'
  BY <1>a DEF HeldIsStored
<1>1. ASSUME OpenPopup PROVE NoMore
  BY <1>1 DEF OpenPopup, Holding
<1>2. ASSUME ClosePopup PROVE NoMore
  BY <1>2 DEF ClosePopup, Holding
<1>3. ASSUME NEW c \in Call, NEW area \in Area, Add(c, area) PROVE NoMore
  BY <1>3 DEF Add, TypeOK, Holding, Started
<1>4. ASSUME NEW c \in Call, NEW id \in Id, RemoveSnapshot(c, id) PROVE NoMore
  BY <1>4 DEF RemoveSnapshot, TypeOK, Holding, Started
<1>5. ASSUME NEW c \in Call, Read(c) PROVE HeldIsStored'
  <2>1. call[c] \in Update /\ call[c] # Idle
    BY <1>5, SlotTyping DEF Read
  <2>2. call' = [call EXCEPT ![c] =
                   [call[c] EXCEPT !.pc = "writing", !.read = stored[call[c].area]]]
    BY <1>5 DEF Read, TypeOK
  <2>3. /\ stored' = stored /\ expected' = expected
        /\ call'[c].read = stored[call[c].area]
        /\ call'[c].area = call[c].area
        /\ \A d \in Call : d # c => call'[d] = call[d]
    BY <1>5, <2>1, <2>2 DEF Read, TypeOK, Update
  <2>4. ASSUME NEW a \in Area, NEW d \in Holding(a)', ~expected[a].overtaken
        PROVE  call'[d].read = stored[a]
    <3>1. CASE d = c
      BY <2>3, <3>1 DEF Holding
    <3>2. CASE d # c
      <4>1. d \in Holding(a) /\ call'[d] = call[d]
        BY <2>3, <3>2 DEF Holding
      <4> QED BY <2>4, <4>1 DEF HeldIsStored
    <3> QED BY <3>1, <3>2
  <2> QED BY <2>3, <2>4 DEF HeldIsStored
<1>6. ASSUME NEW c \in Call, Write(c) PROVE HeldIsStored'
  <2>1. PICK area \in Area : area = call[c].area
    BY <1>6, SlotTyping DEF Write
  <2> DEFINE list == Updated(call[c], call[c].read)
             atomic == Updated(call[c], expected[area].list)
             others == Holding(area) \ {c}
  <2>2. c \in Holding(area)
    BY <1>6, <2>1 DEF Write, Holding
  <2>3. Change(area, list, atomic, others) /\ call' = [call EXCEPT ![c] = Idle]
    BY <1>6, <2>1 DEF Write
  <2>4. ~expected[area].overtaken => list = atomic
    BY <2>2 DEF HeldIsStored
  <2>5. \A a \in Area : /\ Holding(a)' \subseteq Holding(a) \ {c}
                        /\ \A d \in Holding(a)' : call'[d] = call[d]
    BY <2>3 DEF TypeOK, Holding
  <2>6. others = {} => Holding(area)' = {}
    BY <2>5
  <2> HIDE DEF list, atomic, others
  <2> QED BY <2>3, <2>4, <2>5, <2>6, ChangeHeld
<1>7. ASSUME NEW c \in Call, Fail(c) PROVE NoMore
  BY <1>7 DEF Fail, TypeOK, Holding
<1>8. ASSUME NEW area \in Area, ClearArea(area) PROVE HeldIsStored'
  <2>1. Change(area, <<>>, <<>>, Holding(area)) /\ call' = call
    BY <1>8 DEF ClearArea
  <2>2. \A a \in Area : /\ Holding(a)' = Holding(a)
                        /\ \A d \in Holding(a)' : call'[d] = call[d]
    BY <2>1 DEF Holding
  <2> QED BY <2>1, <2>2, ChangeHeld
<1>9. ASSUME ClearSession PROVE HeldIsStored'
  <2>1. \A a \in Area : Holding(a)' = Holding(a)
    BY <1>9 DEF ClearSession, Holding
  <2>2. \A a \in Area :
          /\ stored'[a] = <<>> /\ expected'[a].list = <<>>
          /\ expected'[a].overtaken = (expected[a].overtaken \/ Holding(a) # {})
    BY <1>9 DEF ClearSession
  <2> QED BY <2>1, <2>2 DEF HeldIsStored
<1>10. ASSUME EndSession PROVE HeldIsStored'
  <2>1. \A a \in Area : Holding(a)' = {}
    BY <1>10 DEF EndSession, Holding
  <2>2. \A a \in Area : stored'[a] = <<>> /\ expected'[a].list = <<>>
    BY <1>10 DEF EndSession, AtomicSession
  <2> QED BY <2>1, <2>2 DEF HeldIsStored
<1>11. ASSUME UNCHANGED vars PROVE NoMore
  BY <1>11 DEF vars, Holding
<1> HIDE DEF NoMore
<1> QED
  BY <1>a, <1>1, <1>2, <1>3, <1>4, <1>5, <1>6, <1>7, <1>8, <1>9, <1>10, <1>11 DEF Next

\* While no update of an area was overtaken between its halves, its list is
\* the one that atomic updates would have left.
THEOREM NoLossAlone == Spec => []LossNeedsOverlap
<1> DEFINE Held == TypeOK /\ HeldIsStored
<1>1. Init => Held
  BY InitTyping, InitSound
<1>2. Held /\ [Next]_vars => Held'
  BY StepTyping, StepHeld
<1>3. Held => LossNeedsOverlap
  BY DEF HeldIsStored, LossNeedsOverlap
<1> HIDE DEF Held
<1> QED BY <1>1, <1>2, <1>3, PTL DEF Spec

-----------------------------------------------------------------------------
(* What is forgotten. *)

\* Who remembers an entry.
LEMMA RememberedMember ==
  ASSUME NEW id
  PROVE  id \in Remembered <=>
           \/ \E a \in Area : id \in Range(stored[a])
           \/ \E c \in Call : call[c] # Idle /\ id \in Range(call[c].read)
           \/ \E c \in Call : call[c] # Idle /\ call[c].kind = "add" /\ id = call[c].id
  BY DEF Remembered

\* What nobody remembers nobody will remember.
LEMMA StepForgets ==
  ASSUME TypeOK, [Next]_vars, NEW id \in 1..made, id \notin Remembered
  PROVE  id \notin Remembered'
<1> DEFINE Unlisted == \A a \in Area : id \notin Range(stored[a])
           Unheld(c) == /\ id \notin Range(call[c].read)
                        /\ call[c].kind = "add" => id # call[c].id
           Forgotten == Unlisted /\ \A c \in Call : call[c] # Idle => Unheld(c)
<1>a. Forgotten
  BY RememberedMember
<1>b. ASSUME Forgotten' PROVE id \notin Remembered'
  BY <1>b DEF Remembered
<1>c. id \notin Range(<<>>) /\ made \in Nat /\ id # made + 1
  BY DEF Range, TypeOK
<1>1. ASSUME OpenPopup PROVE Forgotten'
  BY <1>1, <1>a DEF OpenPopup
<1>2. ASSUME ClosePopup PROVE Forgotten'
  BY <1>2, <1>a DEF ClosePopup
<1>3. ASSUME NEW c \in Call, NEW area \in Area, Add(c, area) PROVE Forgotten'
  <2>1. /\ stored' = stored
        /\ call' = [call EXCEPT ![c] = Started(area, "add", made + 1)]
    BY <1>3 DEF Add
  <2>2. \A d \in Call : call'[d] = IF d = c THEN Started(area, "add", made + 1) ELSE call[d]
    BY <2>1 DEF TypeOK
  <2> QED BY <1>a, <1>c, <2>1, <2>2 DEF Started
<1>4. ASSUME NEW c \in Call, NEW old \in Id, RemoveSnapshot(c, old) PROVE Forgotten'
  <2>1. /\ stored' = stored
        /\ call' = [call EXCEPT ![c] = Started("snapshots", "drop", old)]
    BY <1>4 DEF RemoveSnapshot
  <2>2. \A d \in Call : call'[d] = IF d = c THEN Started("snapshots", "drop", old) ELSE call[d]
    BY <2>1 DEF TypeOK
  <2> QED BY <1>a, <1>c, <2>1, <2>2 DEF Started
<1>5. ASSUME NEW c \in Call, Read(c) PROVE Forgotten'
  <2>1. call[c] \in Update /\ call[c] # Idle /\ call[c].area \in Area
    BY <1>5, SlotTyping DEF Read
  <2>2. call' = [call EXCEPT ![c] =
                   [call[c] EXCEPT !.pc = "writing", !.read = stored[call[c].area]]]
    BY <1>5 DEF Read, TypeOK
  <2>3. /\ stored' = stored
        /\ call'[c].read = stored[call[c].area]
        /\ call'[c].kind = call[c].kind /\ call'[c].id = call[c].id
        /\ \A d \in Call : d # c => call'[d] = call[d]
    BY <1>5, <2>1, <2>2 DEF Read, TypeOK, Update
  <2> QED BY <1>a, <2>1, <2>3
<1>6. ASSUME NEW c \in Call, Write(c) PROVE Forgotten'
  <2> DEFINE area == call[c].area
             new == Updated(call[c], call[c].read)
  <2>1. call[c] \in Update /\ call[c] # Idle /\ area \in Area /\ call[c].read \in Seq(Nat)
    BY <1>6, SlotTyping DEF Write
  <2>2. id \notin Range(new)
    BY <1>a, <2>1, UpdatedProperties
  <2>3. stored' = [stored EXCEPT ![area] = new] /\ call' = [call EXCEPT ![c] = Idle]
    BY <1>6 DEF Write, Change
  <2> HIDE DEF area, new
  <2>4. /\ \A a \in Area : stored'[a] = IF a = area THEN new ELSE stored[a]
        /\ \A d \in Call : call'[d] = IF d = c THEN Idle ELSE call[d]
    BY <2>1, <2>3 DEF TypeOK
  <2> QED BY <1>a, <2>2, <2>4
<1>7. ASSUME NEW c \in Call, Fail(c) PROVE Forgotten'
  <2>1. stored' = stored /\ \A d \in Call : call'[d] = IF d = c THEN Idle ELSE call[d]
    BY <1>7 DEF TypeOK, Fail
  <2> QED BY <1>a, <2>1
<1>8. ASSUME NEW area \in Area, ClearArea(area) PROVE Forgotten'
  <2>1. call' = call /\ \A a \in Area : stored'[a] = IF a = area THEN <<>> ELSE stored[a]
    BY <1>8 DEF TypeOK, ClearArea, Change
  <2> QED BY <1>a, <1>c, <2>1
<1>9. ASSUME ClearSession PROVE Forgotten'
  BY <1>9, <1>a, <1>c DEF ClearSession
<1>10. ASSUME EndSession PROVE Forgotten'
  BY <1>10, <1>c DEF EndSession
<1>11. ASSUME UNCHANGED vars PROVE Forgotten'
  BY <1>11, <1>a DEF vars
<1> HIDE DEF Forgotten
<1> QED
  BY <1>b, <1>1, <1>2, <1>3, <1>4, <1>5, <1>6, <1>7, <1>8, <1>9, <1>10, <1>11 DEF Next

\* An entry that is in no list, in no update and not about to be added stays
\* away, whatever stale updates still write.
THEOREM NothingReturns == Spec => ForgottenForGood
<1>1. TypeOK /\ [Next]_vars =>
        [\A id \in 1..made : id \notin Remembered => id \notin Remembered']_vars
  BY StepForgets
<1> QED BY <1>1, TypeCorrect, PTL DEF Spec, ForgottenForGood
=============================================================================
