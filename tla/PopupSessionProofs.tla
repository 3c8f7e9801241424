-------------------------- MODULE PopupSessionProofs --------------------------
(***************************************************************************)
(* Proofs about PopupSession: however handlers overlap, the buttons come   *)
(* back, the selection is of what is listed, and refreshes that make as    *)
(* many queries as each other end in the order they started.               *)
(***************************************************************************)
EXTENDS PopupSession, SequenceTheorems, TLAPS

Waiting == {c \in Call : call[c].at = "listing"}

\* Where a handler can be.
Place ==
  {Idle}
  \cup [at : {"listing"}, all : BOOLEAN, left : {0, 1}, found : SUBSET Cookie]
  \cup [at : {"permission"}, all : BOOLEAN]
  \cup [at : {"mutating"}]

TypeOK ==
  /\ cookies \subseteq Cookie /\ selected \subseteq Cookie
  /\ allDomains \in BOOLEAN
  /\ pattern \in Pattern
  /\ disabled \in [Button -> BOOLEAN]
  /\ before \in [Button -> {"none", "true", "false"}]
  /\ busy \in BOOLEAN
  /\ call \in [Call -> Place]
  /\ requests \in Seq(Call)
  /\ clicks \in Nat
  /\ latest \in [by : Call \cup {NoCall}, shown : BOOLEAN, uneven : BOOLEAN]

\* The buttons are remembered as disabled only while two refreshes are under
\* way: the one that ends first leaves them disabled, the other one does not.
RememberedByTwo ==
  before["refresh"] = "true" => \E c, d \in Waiting : c # d

\* Who waits has asked once, and a refresh of all domains asks only once.
RequestsExact ==
  /\ \A c \in Waiting : \E i \in 1..Len(requests) : requests[i] = c
  /\ \A i \in 1..Len(requests) : requests[i] \in Waiting
  /\ \A i, j \in 1..Len(requests) : requests[i] = requests[j] => i = j
  /\ \A c \in Waiting : call[c].all => call[c].left = 0

\* Who asked at j and has m queries left ends before who asked at i and has n:
\* it has fewer to make, or as many and the browser answers it first.
Precedes(m, j, n, i) == m < n \/ (m = n /\ j < i)

\* Of refreshes that are alike the latest ends last.
LatestIsLast ==
  Waiting # {} /\ ~latest.uneven =>
    /\ latest.by \in Waiting
    /\ \A i, j \in 1..Len(requests) :
         requests[i] = latest.by /\ j # i =>
           Precedes(call[requests[j]].left, j, call[latest.by].left, i)

IInv == /\ TypeOK /\ ButtonsComeBack /\ RememberedByTwo /\ SelectionListed
        /\ RequestsExact /\ LatestIsLast /\ LatestListShown

-----------------------------------------------------------------------------
(* Types. *)

\* Where a handler that awaits a query is.
LEMMA ListingPlace ==
  ASSUME NEW mode \in BOOLEAN, NEW left \in {0, 1}, NEW found \in SUBSET Cookie
  PROVE  Listing(mode, left, found) \in Place
  BY DEF Listing, Place

LEMMA WaitingPlace ==
  ASSUME TypeOK, NEW c \in Waiting
  PROVE  /\ c \in Call
         /\ call[c] \in [at : {"listing"}, all : BOOLEAN, left : {0, 1},
                         found : SUBSET Cookie]
  BY DEF TypeOK, Waiting, Place, Idle

\* What the two halves of refresh() and a changed selection do to the types.
LEMMA RefreshTyping ==
  ASSUME TypeOK, NEW c \in Call, NEW mode \in BOOLEAN, Refresh(c, mode)
  PROVE  /\ UNCHANGED <<cookies, selected>>
         /\ disabled' \in [Button -> BOOLEAN]
         /\ before' \in [Button -> {"none", "true", "false"}]
         /\ busy' \in BOOLEAN
         /\ call' \in [Call -> Place]
         /\ requests' \in Seq(Call)
         /\ latest' \in [by : Call \cup {NoCall}, shown : BOOLEAN, uneven : BOOLEAN]
<1>1. Listing(mode, IF mode THEN 0 ELSE 1, {}) \in Place
  BY ListingPlace
<1>2. /\ UNCHANGED <<cookies, selected>>
      /\ disabled' \in [Button -> BOOLEAN]
      /\ before' \in [Button -> {"none", "true", "false"}]
      /\ busy' \in BOOLEAN
  BY DEF Refresh, Busy, list
<1>3. call' \in [Call -> Place] /\ requests' \in Seq(Call)
  BY <1>1 DEF TypeOK, Refresh
<1>4. latest' \in [by : Call \cup {NoCall}, shown : BOOLEAN, uneven : BOOLEAN]
  <2> DEFINE uneven == /\ ~Quiet
                       /\ \/ latest.uneven
                          \/ \E d \in Call : call[d].at = "listing" /\ call[d].all # mode
  <2>1. latest' = [by |-> c, shown |-> FALSE, uneven |-> uneven]
    BY DEF Refresh
  <2>2. uneven \in BOOLEAN
    BY Zenon
  <2> HIDE DEF uneven
  <2> QED BY <2>1, <2>2
<1> QED BY <1>2, <1>3, <1>4

LEMMA EndTyping ==
  ASSUME TypeOK, NEW c \in Call, requests # <<>>, NEW shown \in SUBSET Cookie,
         NEW chosen \in SUBSET Cookie, NEW early \in BOOLEAN,
         EndRefresh(c, shown, chosen, early)
  PROVE  TypeOK'
<1>1. /\ cookies' \subseteq Cookie /\ selected' \subseteq Cookie
      /\ UNCHANGED <<allDomains, pattern, clicks>>
      /\ disabled' \in [Button -> BOOLEAN]
      /\ before' \in [Button -> {"none", "true", "false"}]
      /\ busy' \in BOOLEAN
  BY DEF EndRefresh, Free
<1>2. call' \in [Call -> Place] /\ requests' \in Seq(Call)
  BY DEF TypeOK, EndRefresh, Place
<1>3. latest' \in [by : Call \cup {NoCall}, shown : BOOLEAN, uneven : BOOLEAN]
  <2> DEFINE last == (c = latest.by)
             uneven == latest.uneven \/ early
  <2>1. latest' = [latest EXCEPT !.shown = last, !.uneven = uneven]
    BY DEF EndRefresh
  <2>2. last \in BOOLEAN /\ uneven \in BOOLEAN
    BY Zenon
  <2> HIDE DEF last, uneven
  <2> QED BY <2>1, <2>2 DEF TypeOK
<1> QED BY <1>1, <1>2, <1>3 DEF TypeOK

LEMMA ReselectTyping ==
  ASSUME TypeOK, NEW chosen \in SUBSET Cookie, Reselect(chosen)
  PROVE  selected' \subseteq Cookie /\ disabled' \in [Button -> BOOLEAN]
<1>1. (chosen = {}) \in BOOLEAN
  BY Zenon
<1> DEFINE none == chosen = {}
<1> HIDE DEF none
<1>2. disabled' = [disabled EXCEPT !["delete-selected"] = none]
  BY DEF Reselect, none
<1>3. none \in BOOLEAN
  BY <1>1 DEF none
<1> QED BY <1>2, <1>3 DEF TypeOK, Reselect

\* Who is answered is the first who waits.
LEMMA Answered ==
  ASSUME TypeOK, RequestsExact, NEW c \in Call, Answer(c)
  PROVE  /\ requests # <<>> /\ Len(requests) \in Nat \ {0} /\ requests[1] = c
         /\ c \in Waiting
         /\ call[c].found \in SUBSET Cookie
         /\ Sought(c) \subseteq Cookie
<1>1. requests # <<>> /\ Len(requests) \in Nat \ {0} /\ requests[1] = c
  BY EmptySeq DEF TypeOK, Answer
<1>2. c \in Waiting
  BY <1>1 DEF RequestsExact
<1> QED BY <1>1, <1>2, WaitingPlace, PopupAssumption DEF Sought

LEMMA NextQueryTyping ==
  ASSUME TypeOK, NEW c \in Waiting, requests # <<>>, NEW found \in SUBSET Cookie,
         NextQuery(c, found)
  PROVE  /\ TypeOK'
         /\ call[c].left = 1 /\ call'[c].left = 0 /\ call'[c].at = "listing"
         /\ call'[c].all = call[c].all
         /\ \A d \in Call : d # c => call'[d] = call[d]
<1> DEFINE place == [call[c] EXCEPT !.left = call[c].left - 1,
                                    !.found = call[c].found \cup found]
<1>1. /\ c \in Call
      /\ call[c] \in [at : {"listing"}, all : BOOLEAN, left : {0, 1},
                      found : SUBSET Cookie]
  BY WaitingPlace
<1>2. call[c].left = 1
  BY <1>1 DEF NextQuery
<1>3. /\ place \in [at : {"listing"}, all : BOOLEAN, left : {0, 1},
                    found : SUBSET Cookie]
      /\ place.left = 0 /\ place.at = "listing" /\ place.all = call[c].all
  <2> DEFINE known == call[c].found \cup found
             fewer == call[c].left - 1
  <2>1. fewer = 0 /\ known \in SUBSET Cookie
    BY <1>1, <1>2
  <2>2. place = [call[c] EXCEPT !.left = fewer, !.found = known]
    OBVIOUS
  <2> HIDE DEF place, known, fewer
  <2> QED BY <1>1, <2>1, <2>2
<1>4. call' = [call EXCEPT ![c] = place]
  BY DEF NextQuery, TypeOK
<1> HIDE DEF place
<1>5. call' \in [Call -> Place] /\ call'[c] = place
  BY <1>1, <1>3, <1>4 DEF TypeOK, Place
<1>6. requests' \in Seq(Call)
  BY <1>1 DEF NextQuery, TypeOK
<1>7. UNCHANGED <<cookies, selected, allDomains, pattern, disabled, before, busy,
                  clicks, latest>>
  BY DEF NextQuery, list, buttons
<1> QED BY <1>1, <1>2, <1>3, <1>4, <1>5, <1>6, <1>7 DEF TypeOK

\* The two ways in which a refresh ends.
LEMMA Ending ==
  ASSUME TypeOK, RequestsExact, NEW c \in Call, Answer(c)
  PROVE  \/ \E found \in SUBSET Cookie : NextQuery(c, found)
         \/ \E shown \in SUBSET Cookie, chosen \in SUBSET Cookie, early \in BOOLEAN :
              /\ EndRefresh(c, shown, chosen, early)
              /\ early = (call[c].left > 0)
              /\ shown # {} => chosen = {}
<1>1. /\ call[c].found \in SUBSET Cookie /\ Sought(c) \subseteq Cookie
      /\ call[c].left \in {0, 1}
  BY Answered, WaitingPlace
<1>2. CASE \E found \in SUBSET Sought(c) : NextQuery(c, found)
  BY <1>1, <1>2
<1>3. ASSUME NEW found \in SUBSET Sought(c), ListArrives(c, found)
      PROVE  \E shown \in SUBSET Cookie, chosen \in SUBSET Cookie, early \in BOOLEAN :
               /\ EndRefresh(c, shown, chosen, early)
               /\ early = (call[c].left > 0)
               /\ shown # {} => chosen = {}
  <2>1. /\ EndRefresh(c, call[c].found \cup found, {}, FALSE)
        /\ call[c].left = 0 /\ call[c].found \cup found \in SUBSET Cookie
    BY <1>1, <1>3 DEF ListArrives
  <2>2. FALSE = (call[c].left > 0)
    BY <2>1
  <2> QED BY <2>1, <2>2
<1>4. CASE ListFails(c)
  <2> DEFINE late == call[c].left > 0
  <2>1. EndRefresh(c, {}, selected, late)
    BY <1>4 DEF ListFails
  <2>2. late \in BOOLEAN
    OBVIOUS
  <2> HIDE DEF late
  <2>3. selected \in SUBSET Cookie
    BY DEF TypeOK
  <2>4. \E shown \in SUBSET Cookie, chosen \in SUBSET Cookie, early \in BOOLEAN :
               /\ EndRefresh(c, shown, chosen, early)
               /\ early = late
               /\ shown # {} => chosen = {}
    BY <2>1, <2>2, <2>3
  <2> QED BY <2>4 DEF late
<1> QED BY <1>2, <1>3, <1>4 DEF Answer

\* Types hold at the start and are kept.
LEMMA InitTyping == Init => TypeOK
<1> SUFFICES ASSUME Init PROVE TypeOK
  OBVIOUS
<1>1. disabled \in [Button -> BOOLEAN]
  <2>1. \A b \in Button : (b = "delete-selected") \in BOOLEAN
    BY Zenon
  <2> QED BY DEF Init, Button
<1>2. call \in [Call -> Place] /\ requests \in Seq(Call)
  BY DEF Init, Place
<1>3. /\ cookies \subseteq Cookie /\ selected \subseteq Cookie
      /\ allDomains \in BOOLEAN /\ pattern \in Pattern
      /\ before \in [Button -> {"none", "true", "false"}]
      /\ busy \in BOOLEAN /\ clicks \in Nat
  BY PopupAssumption DEF Init
<1>4. latest \in [by : Call \cup {NoCall}, shown : BOOLEAN, uneven : BOOLEAN]
  BY DEF Init
<1> QED BY <1>1, <1>2, <1>3, <1>4 DEF TypeOK

\* The handlers that start or end without a refresh.
LEMMA ElsewhereTyping ==
  ASSUME TypeOK, NEW c \in Call, NEW place \in Place,
         call' = [call EXCEPT ![c] = place]
  PROVE  call' \in [Call -> Place]
  BY DEF TypeOK

LEMMA StepTyping == TypeOK /\ RequestsExact /\ [Next]_vars => TypeOK'
<1> SUFFICES ASSUME TypeOK, RequestsExact, [Next]_vars PROVE TypeOK'
  OBVIOUS
<1>1. ASSUME NEW c \in Call, Answer(c) PROVE TypeOK'
  <2>1. requests # <<>> /\ c \in Waiting
    BY <1>1, Answered
  <2> QED BY <1>1, <2>1, Ending, NextQueryTyping, EndTyping
<1>2. ASSUME NEW c \in Call, PermissionChanged(c) PROVE TypeOK'
  <2>1. call[c].all \in BOOLEAN
    BY <1>2 DEF PermissionChanged, TypeOK, Place, Idle
  <2>2. Refresh(c, call[c].all) /\ allDomains' = call[c].all /\ UNCHANGED <<pattern, clicks>>
    BY <1>2 DEF PermissionChanged
  <2>3. PICK mode \in BOOLEAN : mode = call[c].all
    BY <2>1
  <2> QED BY <2>2, <2>3, RefreshTyping DEF TypeOK
<1>3. ASSUME NEW c \in Call, MutationDone(c) PROVE TypeOK'
  <2>1. PICK mode \in BOOLEAN : mode = allDomains
    BY DEF TypeOK
  <2>2. Refresh(c, mode) /\ UNCHANGED <<allDomains, pattern, clicks>>
    BY <1>3, <2>1 DEF MutationDone
  <2> QED BY <2>2, RefreshTyping DEF TypeOK
<1>4. ASSUME NEW c \in Call, GiveUp(c) PROVE TypeOK'
  <2>1. Idle \in Place
    BY DEF Place
  <2> QED BY <1>4, <2>1 DEF GiveUp, TypeOK, list, buttons
<1>5. ASSUME NEW c \in Call, ClickRefresh(c) PROVE TypeOK'
  <2>1. PICK mode \in BOOLEAN : mode = allDomains
    BY DEF TypeOK
  <2>2. Refresh(c, mode) /\ UNCHANGED <<allDomains, pattern>> /\ clicks' = clicks + 1
    BY <1>5, <2>1 DEF ClickRefresh, Click
  <2> QED BY <2>2, RefreshTyping DEF TypeOK
<1>6. ASSUME NEW c \in Call, ClickAllDomains(c) PROVE TypeOK'
  <2>1. (~allDomains) \in BOOLEAN
    BY Zenon
  <2>2. [at |-> "permission", all |-> ~allDomains] \in Place
    BY <2>1 DEF Place
  <2> QED BY <1>6, <2>2 DEF ClickAllDomains, Click, TypeOK, list, buttons
<1>7. ASSUME NEW c \in Call, ClickMutation(c) PROVE TypeOK'
  <2>1. [at |-> "mutating"] \in Place
    BY DEF Place
  <2> QED BY <1>7, <2>1 DEF ClickMutation, Click, TypeOK, list, buttons
<1>8. ASSUME NEW k \in Cookie, ToggleRow(k) PROVE TypeOK'
  <2> DEFINE chosen == IF k \in selected THEN selected \ {k} ELSE selected \cup {k}
  <2>1. chosen \in SUBSET Cookie
    BY DEF TypeOK
  <2>2. Reselect(chosen)
    BY <1>8 DEF ToggleRow
  <2> HIDE DEF chosen
  <2>3. selected' \subseteq Cookie /\ disabled' \in [Button -> BOOLEAN]
    BY <2>1, <2>2, ReselectTyping
  <2> QED BY <1>8, <2>3 DEF ToggleRow, TypeOK
<1>9. ASSUME ToggleSelectAll PROVE TypeOK'
  <2> DEFINE chosen == IF Filtered \subseteq selected THEN selected \ Filtered
                       ELSE selected \cup Filtered
  <2>1. chosen \in SUBSET Cookie
    BY DEF TypeOK, Filtered
  <2>2. Reselect(chosen)
    BY <1>9 DEF ToggleSelectAll
  <2> HIDE DEF chosen
  <2>3. selected' \subseteq Cookie /\ disabled' \in [Button -> BOOLEAN]
    BY <2>1, <2>2, ReselectTyping
  <2> QED BY <1>9, <2>3 DEF ToggleSelectAll, TypeOK
<1>10. ASSUME NEW p \in Pattern, Search(p) PROVE TypeOK'
  <2>1. PICK chosen \in SUBSET Cookie : chosen = selected
    BY DEF TypeOK
  <2>2. Reselect(chosen) /\ pattern' = p
    BY <1>10, <2>1 DEF Search
  <2>3. selected' \subseteq Cookie /\ disabled' \in [Button -> BOOLEAN]
    BY <2>2, ReselectTyping
  <2> QED BY <1>10, <2>2, <2>3 DEF Search, TypeOK
<1>11. ASSUME UNCHANGED vars PROVE TypeOK'
  BY <1>11 DEF vars, TypeOK
<1> QED
  BY <1>1, <1>2, <1>3, <1>4, <1>5, <1>6, <1>7, <1>8, <1>9, <1>10, <1>11
  DEF Next, Await, ClickDeleteSelected

-----------------------------------------------------------------------------
(* The halves of a refresh. *)

\* All is quiet when nobody awaits a query.
LEMMA QuietMeansNone == Quiet <=> Waiting = {}
  BY DEF Quiet, Waiting

\* The requests that are queued, place by place.
LEMMA AppendIndexed ==
  ASSUME NEW S, NEW s \in Seq(S), NEW x \in S
  PROVE  /\ Append(s, x) \in Seq(S) /\ Len(s) \in Nat
         /\ Len(Append(s, x)) = Len(s) + 1
         /\ \A i \in 1..Len(s) : Append(s, x)[i] = s[i]
         /\ Append(s, x)[Len(s) + 1] = x
  OBVIOUS

LEMMA TailIndexed ==
  ASSUME NEW S, NEW s \in Seq(S), s # <<>>
  PROVE  /\ Tail(s) \in Seq(S) /\ Len(s) \in Nat \ {0}
         /\ Len(Tail(s)) = Len(s) - 1
         /\ \A i \in 1..(Len(s) - 1) : Tail(s)[i] = s[i + 1]
  BY EmptySeq

\* A refresh that starts: it asks last, and as many queries as the others
\* unless it says that it does not.
LEMMA RefreshKeeps ==
  ASSUME IInv, NEW c \in Call, c \notin Waiting, NEW mode \in BOOLEAN, Refresh(c, mode)
  PROVE  /\ ButtonsComeBack' /\ RememberedByTwo' /\ SelectionListed'
         /\ RequestsExact' /\ LatestIsLast' /\ LatestListShown'
<1> USE DEF IInv
<1> DEFINE place == Listing(mode, IF mode THEN 0 ELSE 1, {})
           n == Len(requests)
<1>1. /\ place.at = "listing" /\ place.all = mode
      /\ place.left = IF mode THEN 0 ELSE 1
  BY DEF Listing
<1>2. call' = [call EXCEPT ![c] = place] /\ requests' = Append(requests, c)
  BY DEF Refresh
<1> HIDE DEF place
<1>3. call'[c] = place /\ \A d \in Call : d # c => call'[d] = call[d]
  BY <1>2 DEF TypeOK
<1>4. Waiting' = Waiting \cup {c}
  BY <1>1, <1>3 DEF Waiting
<1>5. /\ n \in Nat /\ Len(requests') = n + 1 /\ requests'[n + 1] = c
      /\ \A i \in 1..n : requests'[i] = requests[i]
  BY <1>2, AppendIndexed DEF TypeOK
<1> HIDE DEF n
<1>6. \A i \in 1..n : requests[i] \in Waiting /\ requests[i] # c
  BY DEF RequestsExact, n
<1>7. \A i \in 1..(n + 1) : i \in 1..n \/ i = n + 1
  BY <1>5
<1>8. RequestsExact'
  <2>1. \A d \in Waiting' : \E i \in 1..(n + 1) : requests'[i] = d
    BY <1>4, <1>5 DEF RequestsExact, n
  <2>2. \A i \in 1..(n + 1) : requests'[i] \in Waiting'
    BY <1>4, <1>5, <1>6, <1>7
  <2>3. \A i, j \in 1..(n + 1) : requests'[i] = requests'[j] => i = j
    BY <1>5, <1>6, <1>7 DEF RequestsExact, n
  <2>4. \A d \in Waiting' : call'[d].all => call'[d].left = 0
    BY <1>1, <1>3, <1>4 DEF RequestsExact, Waiting
  <2> QED BY <1>5, <2>1, <2>2, <2>3, <2>4 DEF RequestsExact
<1>9. ~Quiet'
  BY <1>1, <1>3 DEF Quiet
<1>10. RememberedByTwo'
  <2> SUFFICES ASSUME before'["refresh"] = "true"
               PROVE  \E d, e \in Waiting' : d # e
    BY DEF RememberedByTwo
  <2>1. disabled["refresh"]
    BY DEF Refresh, Busy, Button
  <2>2. Waiting # {}
    BY <2>1, QuietMeansNone DEF ButtonsComeBack
  <2> QED BY <1>4, <2>2
<1>11. SelectionListed'
  BY DEF Refresh, list, SelectionListed
<1>12. LatestIsLast'
  <2> SUFFICES ASSUME ~latest'.uneven
               PROVE  /\ latest'.by \in Waiting'
                      /\ \A i, j \in 1..(n + 1) :
                           requests'[i] = latest'.by /\ j # i =>
                             Precedes(call'[requests'[j]].left, j, call'[latest'.by].left, i)
    BY <1>5 DEF LatestIsLast
  <2>1. latest'.by = c
    BY DEF Refresh
  <2>2. ASSUME NEW d \in Waiting PROVE call[d].all = mode
    <3>1. latest'.uneven = (/\ ~Quiet
                            /\ \/ latest.uneven
                               \/ \E e \in Call : call[e].at = "listing" /\ call[e].all # mode)
      BY DEF Refresh
    <3>2. ~Quiet /\ d \in Call /\ call[d].at = "listing"
      BY QuietMeansNone DEF Waiting
    <3> QED BY <3>1, <3>2
  <2>3. ASSUME NEW i \in 1..(n + 1), NEW j \in 1..(n + 1), requests'[i] = c, j # i
        PROVE  Precedes(call'[requests'[j]].left, j, call'[c].left, i)
    <3>1. i = n + 1 /\ j \in 1..n
      BY <1>5, <1>6, <1>7, <2>3
    <3>2. requests[j] \in Waiting /\ requests'[j] = requests[j] /\ requests[j] # c
      BY <1>5, <1>6, <3>1
    <3>3. call'[requests[j]] = call[requests[j]] /\ call[requests[j]].all = mode
      BY <1>3, <2>2, <3>2 DEF Waiting
    <3>4. call[requests[j]].left \in {0, 1} /\ (mode => call[requests[j]].left = 0)
      BY <3>2, <3>3, WaitingPlace DEF RequestsExact
    <3>5. call'[c].left = IF mode THEN 0 ELSE 1
      BY <1>1, <1>3
    <3>6. j < i
      BY <1>5, <3>1
    <3> QED BY <3>2, <3>3, <3>4, <3>5, <3>6 DEF Precedes
  <2> QED BY <1>4, <2>1, <2>3
<1> QED BY <1>8, <1>9, <1>10, <1>11, <1>12 DEF ButtonsComeBack, LatestListShown

\* A refresh that goes on to its second query asks after all others, of which
\* none has as many queries left as it had.
LEMMA NextQueryKeeps ==
  ASSUME IInv, NEW c \in Call, Answer(c), NEW found \in SUBSET Cookie,
         NextQuery(c, found)
  PROVE  /\ ButtonsComeBack' /\ RememberedByTwo' /\ SelectionListed'
         /\ RequestsExact' /\ LatestIsLast' /\ LatestListShown'
<1> USE DEF IInv
<1> DEFINE n == Len(requests)
<1>1. c \in Waiting /\ requests # <<>> /\ n \in Nat \ {0} /\ requests[1] = c
  BY Answered
<1>2. /\ call[c].left = 1 /\ call'[c].left = 0 /\ call'[c].at = "listing"
      /\ call'[c].all = call[c].all
      /\ \A d \in Call : d # c => call'[d] = call[d]
  BY <1>1, NextQueryTyping
<1>3. Waiting' = Waiting
  BY <1>1, <1>2 DEF Waiting
<1>4. UNCHANGED <<cookies, selected, disabled, before, busy, latest>>
  BY DEF NextQuery, list, buttons
<1>5. /\ Len(requests') = n /\ requests'[n] = c
      /\ \A i \in 1..(n - 1) : requests'[i] = requests[i + 1]
  <2>1. requests' = Append(Tail(requests), c)
    BY DEF NextQuery
  <2> DEFINE t == Tail(requests)
  <2>2. t \in Seq(Call) /\ Len(t) = n - 1 /\ \A i \in 1..(n - 1) : t[i] = requests[i + 1]
    BY <1>1, TailIndexed DEF TypeOK
  <2> HIDE DEF t, n
  <2>3. /\ Len(Append(t, c)) = n
        /\ \A i \in 1..(n - 1) : Append(t, c)[i] = t[i]
        /\ Append(t, c)[n] = c
    BY <1>1, <2>2, AppendIndexed
  <2> QED BY <2>1, <2>2, <2>3 DEF t
<1> HIDE DEF n
<1>6. \A i \in 1..n : i = n \/ (i \in 1..(n - 1) /\ i + 1 \in 1..n /\ i + 1 # 1)
  BY <1>1
<1>7. \A i \in 1..(n - 1) : requests[i + 1] # c /\ requests[i + 1] \in Waiting
  BY <1>1, <1>6 DEF RequestsExact, n
<1>8. RequestsExact'
  <2>1. ASSUME NEW d \in Waiting' PROVE \E i \in 1..n : requests'[i] = d
    <3>1. PICK i \in 1..n : requests[i] = d
      BY <1>3 DEF RequestsExact, n
    <3>2. CASE i = 1
      BY <1>1, <1>5, <3>1, <3>2
    <3>3. CASE i # 1
      <4>1. i - 1 \in 1..(n - 1) /\ i - 1 \in 1..n /\ (i - 1) + 1 = i
        BY <1>1, <3>3
      <4>2. requests'[i - 1] = d
        BY <1>5, <3>1, <4>1
      <4> QED BY <4>1, <4>2
    <3> QED BY <3>2, <3>3
  <2>2. \A i \in 1..n : requests'[i] \in Waiting'
    BY <1>1, <1>3, <1>5, <1>6, <1>7
  <2>3. \A i, j \in 1..n : requests'[i] = requests'[j] => i = j
    <3> SUFFICES ASSUME NEW i \in 1..n, NEW j \in 1..n, requests'[i] = requests'[j]
                 PROVE  i = j
      OBVIOUS
    <3>1. CASE i = n
      BY <1>5, <1>6, <1>7, <3>1
    <3>2. CASE j = n
      BY <1>5, <1>6, <1>7, <3>2
    <3>3. CASE i # n /\ j # n
      <4>1. requests[i + 1] = requests[j + 1] /\ i + 1 \in 1..n /\ j + 1 \in 1..n
        BY <1>5, <1>6, <3>3
      <4>2. i + 1 = j + 1
        BY <4>1 DEF RequestsExact, n
      <4> QED BY <4>2
    <3> QED BY <3>1, <3>2, <3>3
  <2>4. \A d \in Waiting' : call'[d].all => call'[d].left = 0
    BY <1>2, <1>3 DEF RequestsExact, Waiting
  <2> QED BY <1>5, <2>1, <2>2, <2>3, <2>4 DEF RequestsExact
<1>9. Quiet' <=> Quiet
  <2>1. Quiet' <=> Waiting' = {}
    BY DEF Quiet, Waiting
  <2> QED BY <1>3, <2>1, QuietMeansNone
<1>10. LatestIsLast'
  <2> SUFFICES ASSUME ~latest.uneven
               PROVE  /\ latest.by \in Waiting
                      /\ \A i, j \in 1..n :
                           requests'[i] = latest.by /\ j # i =>
                             Precedes(call'[requests'[j]].left, j, call'[latest.by].left, i)
    BY <1>3, <1>4, <1>5 DEF LatestIsLast
  <2>1. /\ latest.by \in Waiting
        /\ \A i, j \in 1..n : requests[i] = latest.by /\ j # i =>
             Precedes(call[requests[j]].left, j, call[latest.by].left, i)
    BY <1>1 DEF LatestIsLast, n
  <2>2. ASSUME NEW i \in 1..n, NEW j \in 1..n, requests'[i] = latest.by, j # i
        PROVE  Precedes(call'[requests'[j]].left, j, call'[latest.by].left, i)
    <3>0. latest' = latest
      BY <1>4
    <3>1. CASE i = n
      <4>1. latest.by = c /\ j \in 1..(n - 1) /\ j + 1 \in 1..n /\ j + 1 # 1 /\ j < i
        BY <1>1, <1>5, <1>6, <2>2, <3>1
      <4>2. Precedes(call[requests[j + 1]].left, j + 1, call[c].left, 1)
        BY <1>1, <2>1, <4>1
      <4>3. call[requests[j + 1]].left = 0
        <5>1. call[requests[j + 1]].left \in {0, 1}
          BY <1>7, <4>1, WaitingPlace
        <5> QED BY <1>2, <4>1, <4>2, <5>1 DEF Precedes
      <4>4. requests'[j] = requests[j + 1] /\ call'[requests[j + 1]] = call[requests[j + 1]]
        BY <1>2, <1>5, <1>7, <4>1 DEF Waiting
      <4> QED BY <1>2, <3>0, <4>1, <4>3, <4>4 DEF Precedes
    <3>2. CASE i # n
      <4>1. /\ i \in 1..(n - 1) /\ i + 1 \in 1..n
            /\ requests[i + 1] = latest.by /\ latest.by # c
        BY <1>5, <1>6, <1>7, <2>2, <3>2
      <4>2. call'[latest.by] = call[latest.by] /\ call[latest.by].left \in {0, 1}
        BY <1>2, <2>1, <4>1, WaitingPlace DEF Waiting
      <4>3. CASE j = n
        <5>1. Precedes(call[c].left, 1, call[latest.by].left, i + 1)
          BY <1>1, <1>6, <2>1, <4>1
        <5>2. call[latest.by].left = 1
          BY <1>2, <4>2, <5>1 DEF Precedes
        <5> QED BY <1>2, <1>5, <3>0, <4>2, <4>3, <5>2 DEF Precedes
      <4>4. CASE j # n
        <5>1. j \in 1..(n - 1) /\ j + 1 \in 1..n /\ j + 1 # i + 1
          BY <1>6, <2>2, <4>4
        <5>2. Precedes(call[requests[j + 1]].left, j + 1, call[latest.by].left, i + 1)
          BY <2>1, <4>1, <5>1
        <5>3. requests'[j] = requests[j + 1] /\ call'[requests[j + 1]] = call[requests[j + 1]]
          BY <1>2, <1>5, <1>7, <5>1 DEF Waiting
        <5> QED BY <1>1, <3>0, <4>2, <5>2, <5>3 DEF Precedes
      <4> QED BY <4>3, <4>4
    <3> QED BY <3>1, <3>2
  <2> QED BY <2>1, <2>2
<1>11. ButtonsComeBack' /\ SelectionListed' /\ LatestListShown'
  BY <1>4, <1>9 DEF ButtonsComeBack, SelectionListed, LatestListShown
<1>12. RememberedByTwo'
  BY <1>3, <1>4 DEF RememberedByTwo
<1> QED BY <1>8, <1>10, <1>11, <1>12

\* A refresh that ends: buttons it leaves disabled are those of another one
\* under way, and while refreshes were alike the last to end is the latest.
LEMMA EndKeeps ==
  ASSUME IInv, NEW c \in Call, Answer(c), NEW shown \in SUBSET Cookie,
         NEW chosen \in SUBSET Cookie, NEW early \in BOOLEAN,
         EndRefresh(c, shown, chosen, early),
         early = (call[c].left > 0), shown # {} => chosen = {}
  PROVE  /\ ButtonsComeBack' /\ RememberedByTwo' /\ SelectionListed'
         /\ RequestsExact' /\ LatestIsLast' /\ LatestListShown'
<1> USE DEF IInv
<1> DEFINE n == Len(requests)
<1>1. c \in Waiting /\ requests # <<>> /\ n \in Nat \ {0} /\ requests[1] = c
  BY Answered
<1>2. call' = [call EXCEPT ![c] = Idle] /\ requests' = Tail(requests)
  BY DEF EndRefresh
<1>3. call'[c] = Idle /\ \A d \in Call : d # c => call'[d] = call[d]
  BY <1>2 DEF TypeOK
<1>4. Waiting' = Waiting \ {c}
  BY <1>3 DEF Waiting, Idle
<1>5. /\ Len(requests') = n - 1
      /\ \A i \in 1..(n - 1) : requests'[i] = requests[i + 1]
  BY <1>1, <1>2, TailIndexed DEF TypeOK
<1> HIDE DEF n
<1>6. \A i \in 1..(n - 1) : /\ i + 1 \in 1..n /\ i + 1 # 1
                            /\ requests[i + 1] # c /\ requests[i + 1] \in Waiting
  BY <1>1 DEF RequestsExact, n
<1>7. RequestsExact'
  <2>1. ASSUME NEW d \in Waiting' PROVE \E i \in 1..(n - 1) : requests'[i] = d
    <3>1. PICK i \in 1..n : requests[i] = d /\ d # c
      BY <1>4 DEF RequestsExact, n
    <3>2. i - 1 \in 1..(n - 1) /\ (i - 1) + 1 = i
      BY <1>1, <3>1
    <3>3. requests'[i - 1] = d
      BY <1>5, <3>1, <3>2
    <3> QED BY <3>2, <3>3
  <2>2. \A i \in 1..(n - 1) : requests'[i] \in Waiting'
    BY <1>4, <1>5, <1>6
  <2>3. \A i, j \in 1..(n - 1) : requests'[i] = requests'[j] => i = j
    <3> SUFFICES ASSUME NEW i \in 1..(n - 1), NEW j \in 1..(n - 1),
                        requests'[i] = requests'[j]
                 PROVE  i = j
      OBVIOUS
    <3>1. requests[i + 1] = requests[j + 1] /\ i + 1 \in 1..n /\ j + 1 \in 1..n
      BY <1>5, <1>6
    <3>2. i + 1 = j + 1
      BY <3>1 DEF RequestsExact, n
    <3> QED BY <3>2
  <2>4. \A d \in Waiting' : call'[d].all => call'[d].left = 0
    BY <1>3, <1>4 DEF RequestsExact, Waiting
  <2> QED BY <1>5, <2>1, <2>2, <2>3, <2>4 DEF RequestsExact
<1>8. Quiet' <=> Waiting' = {}
  BY DEF Quiet, Waiting
<1>9. /\ ~busy'
      /\ disabled'["refresh"] <=> before["refresh"] = "true"
      /\ disabled'["delete-selected"] <=> chosen = {}
      /\ before'["refresh"] = "none"
      /\ selected' = chosen /\ cookies' = shown
  BY DEF EndRefresh, Free, Button
<1>10. ButtonsComeBack'
  <2>1. ASSUME before["refresh"] = "true" PROVE Waiting' # {}
    BY <1>4, <2>1 DEF RememberedByTwo
  <2> QED BY <1>8, <1>9, <2>1 DEF ButtonsComeBack
<1>11. RememberedByTwo'
  BY <1>9 DEF RememberedByTwo
<1>12. SelectionListed'
  BY <1>9 DEF SelectionListed
<1>13. /\ latest'.by = latest.by
       /\ latest'.shown <=> c = latest.by
       /\ latest'.uneven <=> latest.uneven \/ early
  <2>1. latest' = [latest EXCEPT !.shown = (c = latest.by), !.uneven = latest.uneven \/ early]
    BY DEF EndRefresh
  <2>2. latest \in [by : Call \cup {NoCall}, shown : BOOLEAN, uneven : BOOLEAN]
    BY DEF TypeOK
  <2> QED BY <2>1, <2>2
<1>14. ASSUME ~latest'.uneven
       PROVE  /\ latest.by \in Waiting
              /\ \A i, j \in 1..n : requests[i] = latest.by /\ j # i =>
                   Precedes(call[requests[j]].left, j, call[latest.by].left, i)
              /\ call[c].left = 0
  <2>1. ~latest.uneven /\ ~early
    BY <1>13, <1>14
  <2>2. call[c].left \in {0, 1} /\ ~(call[c].left > 0)
    BY <1>1, <2>1, WaitingPlace
  <2> QED BY <1>1, <2>1, <2>2 DEF LatestIsLast, n
<1>15. ASSUME ~latest'.uneven, c = latest.by PROVE Waiting' = {}
  <2> SUFFICES ASSUME NEW d \in Waiting, d # c PROVE FALSE
    BY <1>4
  <2>1. PICK j \in 1..n : requests[j] = d
    BY DEF RequestsExact, n
  <2>2. j # 1 /\ 1 \in 1..n
    BY <1>1, <2>1
  <2>3. Precedes(call[d].left, j, call[c].left, 1)
    BY <1>1, <1>14, <1>15, <2>1, <2>2
  <2>4. call[d].left \in {0, 1} /\ call[c].left = 0
    BY <1>14, <1>15, WaitingPlace
  <2> QED BY <2>2, <2>3, <2>4 DEF Precedes
<1>16. LatestIsLast'
  <2> SUFFICES ASSUME Waiting' # {}, ~latest'.uneven
               PROVE  /\ latest'.by \in Waiting'
                      /\ \A i, j \in 1..(n - 1) :
                           requests'[i] = latest'.by /\ j # i =>
                             Precedes(call'[requests'[j]].left, j, call'[latest'.by].left, i)
    BY <1>5 DEF LatestIsLast
  <2>1. latest'.by \in Waiting' /\ latest.by # c
    BY <1>4, <1>13, <1>14, <1>15
  <2>2. ASSUME NEW i \in 1..(n - 1), NEW j \in 1..(n - 1),
               requests'[i] = latest'.by, j # i
        PROVE  Precedes(call'[requests'[j]].left, j, call'[latest'.by].left, i)
    <3>1. /\ requests[i + 1] = latest.by /\ i + 1 \in 1..n /\ j + 1 \in 1..n
          /\ j + 1 # i + 1
      BY <1>5, <1>6, <1>13, <2>2
    <3>2. Precedes(call[requests[j + 1]].left, j + 1, call[latest.by].left, i + 1)
      BY <1>14, <3>1
    <3>3. /\ requests'[j] = requests[j + 1]
          /\ call'[requests[j + 1]] = call[requests[j + 1]]
          /\ call'[latest.by] = call[latest.by]
      BY <1>3, <1>5, <1>6, <1>14, <2>1 DEF Waiting
    <3> QED BY <1>13, <3>2, <3>3 DEF Precedes
  <2> QED BY <2>1, <2>2
<1>17. LatestListShown'
  <2> SUFFICES ASSUME Waiting' = {}, ~latest'.uneven PROVE latest'.shown
    BY <1>8 DEF LatestListShown
  <2> QED BY <1>4, <1>13, <1>14
<1> QED BY <1>7, <1>10, <1>11, <1>12, <1>16, <1>17

\* What happens without a query being asked or answered.
LEMMA ElsewhereKeeps ==
  ASSUME IInv, Waiting' = Waiting, \A c \in Waiting : call'[c] = call[c],
         UNCHANGED <<requests, latest, before, busy, cookies>>,
         disabled'["refresh"] = disabled["refresh"],
         \/ selected' = selected /\ disabled' = disabled
         \/ disabled'["delete-selected"] <=> selected' = {},
         cookies # {} => selected' \subseteq cookies
  PROVE  /\ ButtonsComeBack' /\ RememberedByTwo' /\ SelectionListed'
         /\ RequestsExact' /\ LatestIsLast' /\ LatestListShown'
<1> USE DEF IInv
<1>1. Quiet' <=> Quiet
  <2>1. Quiet' <=> Waiting' = {}
    BY DEF Quiet, Waiting
  <2> QED BY <2>1, QuietMeansNone
<1>2. ButtonsComeBack' /\ RememberedByTwo' /\ SelectionListed' /\ LatestListShown'
  BY <1>1 DEF ButtonsComeBack, RememberedByTwo, SelectionListed, LatestListShown
<1>3. RequestsExact'
  BY DEF RequestsExact
<1>4. LatestIsLast'
  <2> SUFFICES ASSUME Waiting # {}, ~latest.uneven
               PROVE  /\ latest.by \in Waiting
                      /\ \A i, j \in 1..Len(requests) :
                           requests[i] = latest.by /\ j # i =>
                             Precedes(call'[requests[j]].left, j, call'[latest.by].left, i)
    BY DEF LatestIsLast
  <2>1. /\ latest.by \in Waiting
        /\ \A i, j \in 1..Len(requests) :
             requests[i] = latest.by /\ j # i =>
               Precedes(call[requests[j]].left, j, call[latest.by].left, i)
    BY DEF LatestIsLast
  <2>2. \A j \in 1..Len(requests) : call'[requests[j]] = call[requests[j]]
    BY DEF RequestsExact
  <2> QED BY <2>1, <2>2
<1> QED BY <1>2, <1>3, <1>4

-----------------------------------------------------------------------------
\* The invariant holds at the start, is kept by every step, and so always holds.
LEMMA InitIInv == Init => IInv
<1> SUFFICES ASSUME Init PROVE IInv
  OBVIOUS
<1>1. Waiting = {} /\ Len(requests) = 0
  BY DEF Init, Waiting, Idle
<1>2. ButtonsComeBack /\ RememberedByTwo /\ SelectionListed /\ LatestListShown
  BY DEF Init, ButtonsComeBack, RememberedByTwo, SelectionListed, LatestListShown, Button
<1>3. RequestsExact /\ LatestIsLast
  BY <1>1 DEF RequestsExact, LatestIsLast
<1> QED BY <1>2, <1>3, InitTyping DEF IInv

LEMMA StepIInv == IInv /\ [Next]_vars => IInv'
<1> SUFFICES ASSUME IInv, [Next]_vars PROVE IInv'
  OBVIOUS
<1> DEFINE Kept == /\ ButtonsComeBack' /\ RememberedByTwo' /\ SelectionListed'
                   /\ RequestsExact' /\ LatestIsLast' /\ LatestListShown'
<1>t. TypeOK /\ RequestsExact /\ SelectionListed
  BY DEF IInv
<1>w. \A c \in Call : c \in Waiting <=> call[c].at = "listing"
  BY DEF Waiting
<1>1. ASSUME NEW c \in Call, Answer(c) PROVE Kept
  BY <1>1, <1>t, Ending, NextQueryKeeps, EndKeeps
<1>2. ASSUME NEW c \in Call, PermissionChanged(c) PROVE Kept
  <2>1. c \notin Waiting /\ Refresh(c, call[c].all)
    BY <1>2, <1>w DEF PermissionChanged
  <2>2. call[c].all \in BOOLEAN
    BY <1>2, <1>t DEF PermissionChanged, TypeOK, Place, Idle
  <2>3. PICK mode \in BOOLEAN : mode = call[c].all
    BY <2>2
  <2> QED BY <2>1, <2>3, RefreshKeeps
<1>3. ASSUME NEW c \in Call, MutationDone(c) PROVE Kept
  <2>1. PICK mode \in BOOLEAN : mode = allDomains
    BY <1>t DEF TypeOK
  <2>2. c \notin Waiting /\ Refresh(c, mode)
    BY <1>3, <1>w, <2>1 DEF MutationDone
  <2> QED BY <2>2, RefreshKeeps
<1>4. ASSUME NEW c \in Call, ClickRefresh(c) PROVE Kept
  <2>1. PICK mode \in BOOLEAN : mode = allDomains
    BY <1>t DEF TypeOK
  <2>2. c \notin Waiting /\ Refresh(c, mode)
    BY <1>4, <1>w, <2>1 DEF ClickRefresh, Click
  <2> QED BY <2>2, RefreshKeeps
<1>5. ASSUME NEW c \in Call, NEW place, c \notin Waiting, place.at # "listing",
             call' = [call EXCEPT ![c] = place],
             UNCHANGED <<list, buttons, requests, latest>>
      PROVE  Kept
  <2>1. Waiting' = Waiting /\ \A d \in Waiting : call'[d] = call[d]
    BY <1>5, <1>t DEF Waiting, TypeOK
  <2>2. cookies # {} => selected' \subseteq cookies
    BY <1>5, <1>t DEF SelectionListed, list
  <2>3. UNCHANGED <<requests, latest, before, busy, cookies, selected, disabled>>
    BY <1>5 DEF list, buttons
  <2> QED BY <2>1, <2>2, <2>3, ElsewhereKeeps
<1>6. ASSUME NEW c \in Call, GiveUp(c) PROVE Kept
  <2>1. Idle.at # "listing" /\ c \notin Waiting
    BY <1>6, <1>w DEF GiveUp, Idle
  <2> QED BY <1>5, <1>6, <2>1 DEF GiveUp
<1>7. ASSUME NEW c \in Call, ClickAllDomains(c) PROVE Kept
  <2> DEFINE place == [at |-> "permission", all |-> ~allDomains]
  <2>1. place.at # "listing" /\ c \notin Waiting
    BY <1>7, <1>w DEF ClickAllDomains, Click
  <2>2. call' = [call EXCEPT ![c] = place] /\ UNCHANGED <<list, buttons, requests, latest>>
    BY <1>7 DEF ClickAllDomains
  <2> HIDE DEF place
  <2> QED BY <1>5, <2>1, <2>2
<1>8. ASSUME NEW c \in Call, ClickMutation(c) PROVE Kept
  <2> DEFINE place == [at |-> "mutating"]
  <2>1. place.at # "listing" /\ c \notin Waiting
    BY <1>8, <1>w DEF ClickMutation, Click
  <2>2. call' = [call EXCEPT ![c] = place] /\ UNCHANGED <<list, buttons, requests, latest>>
    BY <1>8 DEF ClickMutation
  <2> HIDE DEF place
  <2> QED BY <1>5, <2>1, <2>2
<1>9. ASSUME NEW chosen, Reselect(chosen), cookies # {} => chosen \subseteq cookies,
             UNCHANGED <<cookies, before, busy, call, requests, latest>>
      PROVE  Kept
  <2>1. Waiting' = Waiting /\ \A c \in Waiting : call'[c] = call[c]
    BY <1>9 DEF Waiting
  <2>2. /\ disabled'["refresh"] = disabled["refresh"] /\ selected' = chosen
        /\ disabled'["delete-selected"] <=> selected' = {}
    BY <1>9, <1>t DEF Reselect, TypeOK, Button
  <2> QED BY <1>9, <2>1, <2>2, ElsewhereKeeps
<1>10. ASSUME NEW k \in Cookie, ToggleRow(k) PROVE Kept
  <2> DEFINE chosen == IF k \in selected THEN selected \ {k} ELSE selected \cup {k}
  <2>1. cookies # {} => chosen \subseteq cookies
    BY <1>10, <1>t DEF ToggleRow, Filtered, SelectionListed
  <2>2. Reselect(chosen) /\ UNCHANGED <<cookies, before, busy, call, requests, latest>>
    BY <1>10 DEF ToggleRow
  <2> HIDE DEF chosen
  <2> QED BY <1>9, <2>1, <2>2
<1>11. ASSUME ToggleSelectAll PROVE Kept
  <2> DEFINE chosen == IF Filtered \subseteq selected THEN selected \ Filtered
                       ELSE selected \cup Filtered
  <2>1. cookies # {} => chosen \subseteq cookies
    BY <1>t DEF Filtered, SelectionListed
  <2>2. Reselect(chosen) /\ UNCHANGED <<cookies, before, busy, call, requests, latest>>
    BY <1>11 DEF ToggleSelectAll
  <2> HIDE DEF chosen
  <2> QED BY <1>9, <2>1, <2>2
<1>12. ASSUME NEW p \in Pattern, Search(p) PROVE Kept
  <2>1. cookies # {} => selected \subseteq cookies
    BY <1>t DEF SelectionListed
  <2>2. Reselect(selected) /\ UNCHANGED <<cookies, before, busy, call, requests, latest>>
    BY <1>12 DEF Search
  <2> QED BY <1>9, <2>1, <2>2
<1>13. ASSUME UNCHANGED vars PROVE Kept
  <2>1. Waiting' = Waiting /\ \A c \in Waiting : call'[c] = call[c]
    BY <1>13 DEF vars, Waiting
  <2>2. cookies # {} => selected' \subseteq cookies
    BY <1>13, <1>t DEF vars, SelectionListed
  <2>3. UNCHANGED <<requests, latest, before, busy, cookies, selected, disabled>>
    BY <1>13 DEF vars
  <2> QED BY <2>1, <2>2, <2>3, ElsewhereKeeps
<1>14. TypeOK'
  BY <1>t, StepTyping
<1>15. Kept
  <2> HIDE DEF Kept
  <2> QED
    BY <1>1, <1>2, <1>3, <1>4, <1>6, <1>7, <1>8, <1>10, <1>11, <1>12, <1>13
    DEF Next, Await, ClickDeleteSelected
<1> QED BY <1>14, <1>15 DEF IInv

LEMMA Invariance == Spec => []IInv
<1> QED BY InitIInv, StepIInv, PTL DEF Spec

\* When no refresh is under way every button is as it should be: busy is off,
\* refreshing is possible, and deleting exactly when something is selected.
THEOREM ButtonsReturn == Spec => []ButtonsComeBack
<1>1. IInv => ButtonsComeBack
  BY DEF IInv
<1> QED BY <1>1, Invariance, PTL

\* A list that is not empty contains all that is selected.
THEOREM SelectionIsListed == Spec => []SelectionListed
<1>1. IInv => SelectionListed
  BY DEF IInv
<1> QED BY <1>1, Invariance, PTL

\* When refreshes that overlapped were alike, the list that stays is the one
\* the latest of them got.
THEOREM LatestListStays == Spec => []LatestListShown
<1>1. IInv => LatestListShown
  BY DEF IInv
<1> QED BY <1>1, Invariance, PTL
=============================================================================
