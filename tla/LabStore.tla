-------------------------------- MODULE LabStore --------------------------------
(***************************************************************************)
(* The workspace of the Web Lab: CookieLabStore (web/js/store.js) and the  *)
(* operations of the page that drive it (web/js/app.js).                   *)
(*                                                                         *)
(* The list of cookies is a function from the rows it occupies to cookies: *)
(* several rows may hold the same cookie, or cookies of one key.  In which *)
(* order the rows are shown (sortCookies) is left out, nothing reads it.   *)
(* The store copies the list whenever it hands it out, records it or takes *)
(* one in, and cloneCookie normalizes the cookie again.  That is not the   *)
(* identity: one more trailing dot of the domain goes, an expiration still *)
(* beyond 10^12 is divided by 1000 once more.  So a row is shown, selected *)
(* and deleted under the key of the clone, which need not be the key of    *)
(* the cookie listed.  CloneOf is the cloning, Canonical what              *)
(* canonicalizeCookie makes of a cookie, Candidate the cookies that the    *)
(* editor may hand over.  A filter is the set of cookies it lets through.  *)
(* MaximumHistory is 50 in the page.  The rows bound the list.             *)
(***************************************************************************)
EXTENDS Naturals, SequencesExt

CONSTANTS Cookie, Key, KeyOf, CloneOf, Canonical, Candidate, Row, Filter,
          Input, File, MaximumHistory

Cookies == UNION {[rows -> Cookie] : rows \in SUBSET Row}

Capture == [cookies : Cookies, selected : SUBSET Key, filter : Filter]

\* Every part of the key is normalized by itself, so the key of a clone
\* depends on nothing but the key.
ASSUME LabAssumption ==
  /\ KeyOf \in [Cookie -> Key]
  /\ CloneOf \in [Cookie -> Cookie]
  /\ \A c, d \in Cookie : KeyOf[c] = KeyOf[d] =>
                             KeyOf[CloneOf[c]] = KeyOf[CloneOf[d]]
  /\ Canonical \in [Cookie -> Cookie]
  /\ Candidate \subseteq Cookie
  /\ Filter \subseteq SUBSET Cookie
  /\ Cookie \in Filter
  /\ Input \subseteq Cookies
  /\ File \subseteq Capture
  /\ MaximumHistory \in Nat \ {0}

VARIABLES
  lab,       \* what the store holds: the cookies, the selection and the filter
  history,   \* the captures that undo goes back to, the latest last
  future     \* the captures that redo goes forward to, the next one last

vars == <<lab, history, future>>

\* cloneCookie over a list.
Cloned(list) == [r \in DOMAIN list |-> CloneOf[list[r]]]

Keys(list) == {KeyOf[list[r]] : r \in DOMAIN list}

Without(list, keys) ==
  [r \in {row \in DOMAIN list : KeyOf[list[row]] \notin keys} |-> list[r]]

\* visibleCookies: the filter looks at the cookies listed, the keys are those
\* of their clones.
Visible ==
  Keys(Cloned([r \in {row \in DOMAIN lab.cookies : lab.cookies[row] \in lab.filter}
                 |-> lab.cookies[r]]))

NoCookies == [r \in {} |-> r]

\* #capture and #restore.
Copied(state) == [state EXCEPT !.cookies = Cloned(@)]

\* Faulty: a full history refuses the capture.
CheckpointedWhileRoom(past, state) ==
  IF Len(past) < MaximumHistory THEN Append(past, Copied(state)) ELSE past

\* #checkpoint: push, then shift down to the maximum.
Checkpointed(past, state) ==
  IF Len(past) < MaximumHistory THEN Append(past, Copied(state))
  ELSE Append(Tail(past), Copied(state))

Init == /\ lab = [cookies |-> NoCookies, selected |-> {}, filter |-> Cookie]
        /\ history = <<>>
        /\ future = <<>>

(***************************************************************************)
(* The changes that can be undone: a checkpoint, the change, and the end   *)
(* of whatever could be redone.                                            *)
(***************************************************************************)
\* Faulty: what could be redone stays.
EditKeepingFuture(new) == /\ history' = Checkpointed(history, lab)
                          /\ lab' = new
                          /\ UNCHANGED future

Edit(new) == /\ history' = Checkpointed(history, lab)
             /\ lab' = new
             /\ future' = <<>>

\* replace
Replaced(cookies) ==
  [lab EXCEPT !.cookies = Cloned(cookies), !.selected = {}]

\* Faulty: the cookie stays selected.
RemovedOnly(state, k) == [state EXCEPT !.cookies = Without(@, {k})]

Removed(state, k) == [state EXCEPT !.cookies = Without(@, {k}),
                                   !.selected = @ \ {k}]

\* add: the cookies that have the candidate's key make room for its clone.
Added(state, candidate, row) ==
  LET kept == Without(state.cookies, {KeyOf[candidate]})
  IN [state EXCEPT !.cookies =
        [r \in DOMAIN kept \cup {row} |-> IF r = row THEN CloneOf[candidate]
                                          ELSE kept[r]]]

\* parseInput, with what the parser returns.
Parse(input) == Edit(Replaced(input))

CanonicalizeAll ==
  Edit(Replaced([r \in DOMAIN lab.cookies |-> Canonical[CloneOf[lab.cookies[r]]]]))

\* The `Delete` of a row does nothing when only the clone has its key.
RemoveCookie(k) == /\ k \in Visible \cap Keys(lab.cookies)
                   /\ Edit(Removed(lab, k))

\* The selection may name keys that the filter hides, or that no cookie has.
RemoveSelected ==
  /\ lab.selected # {}
  /\ Edit([lab EXCEPT !.cookies = Without(@, lab.selected), !.selected = {}])

Clear == /\ DOMAIN lab.cookies # {}
         /\ Edit([lab EXCEPT !.cookies = NoCookies, !.selected = {}])

\* importState takes the selection of the file as it is.
ImportState(file) == Edit(Copied(file))

\* saveEditor: a cookie whose key changes is removed and added, which are two
\* checkpoints.  `old` is the key of the clone that the dialog was opened
\* with; the list may lack it, or have changed behind the dialog since.
SaveEditor(old, candidate, row) ==
  LET renamed == old # KeyOf[candidate] /\ old \in Keys(lab.cookies)
      between == IF renamed THEN Removed(lab, old) ELSE lab
      past    == IF renamed THEN Checkpointed(history, lab) ELSE history
  IN /\ row \notin DOMAIN Without(between.cookies, {KeyOf[candidate]})
     /\ history' = Checkpointed(past, between)
     /\ lab' = Added(between, candidate, row)
     /\ future' = <<>>

(***************************************************************************)
(* Undo and redo, and what leaves no checkpoint.                           *)
(***************************************************************************)
\* Faulty: what is undone cannot be redone.
UndoForgetting == /\ history # <<>>
                  /\ lab' = Copied(Last(history))
                  /\ history' = Front(history)
                  /\ UNCHANGED future

Undo == /\ history # <<>>
        /\ future' = Append(future, Copied(lab))
        /\ lab' = Copied(Last(history))
        /\ history' = Front(history)

Redo == /\ future # <<>>
        /\ history' = Append(history, Copied(lab))
        /\ lab' = Copied(Last(future))
        /\ future' = Front(future)

SetFilter(filter) == /\ lab' = [lab EXCEPT !.filter = filter]
                     /\ UNCHANGED <<history, future>>

\* The checkbox of a row, which has the key of the clone.
SetSelected(k, on) ==
  /\ k \in Visible
  /\ lab' = [lab EXCEPT !.selected = IF on THEN @ \cup {k} ELSE @ \ {k}]
  /\ UNCHANGED <<history, future>>

ToggleVisibleSelection ==
  LET all == Visible # {} /\ Visible \subseteq lab.selected
  IN /\ lab' = [lab EXCEPT !.selected = IF all THEN @ \ Visible
                                        ELSE @ \cup Visible]
     /\ UNCHANGED <<history, future>>

Next ==
  \/ \E input \in Input : Parse(input)
  \/ CanonicalizeAll
  \/ \E k \in Key : RemoveCookie(k)
  \/ RemoveSelected
  \/ Clear
  \/ \E file \in File : ImportState(file)
  \/ \E old \in Key, candidate \in Candidate, row \in Row :
       SaveEditor(old, candidate, row)
  \/ Undo
  \/ Redo
  \/ \E filter \in Filter : SetFilter(filter)
  \/ \E k \in Key, on \in BOOLEAN : SetSelected(k, on)
  \/ ToggleVisibleSelection

Spec == Init /\ [][Next]_vars

(***************************************************************************)
(* Properties.                                                             *)
(***************************************************************************)
\* redo pushes onto the history without the trimming that a checkpoint does,
\* and the future is never trimmed: nevertheless the captures of both
\* together never exceed the maximum.
TimelineBounded == Len(history) + Len(future) <= MaximumHistory

\* The states of the workspace, from the oldest that undo reaches to the
\* latest that redo reaches.
Timeline == history \o <<lab>> \o Reverse(future)

\* Undo and redo only move along the timeline: whatever mix of them, with the
\* filter and the selection as they happen to be, no state is lost, and none
\* changes but by being cloned once more.
UndoRedoKeepTimeline ==
  [][Undo \/ Redo =>
       /\ Len(Timeline') = Len(Timeline)
       /\ \A i \in 1..Len(Timeline) :
            Timeline'[i] \in {Timeline[i], Copied(Timeline[i])}]_vars

\* Whatever changes the list, the list as the page showed it, in clones, is
\* one undo or redo away; the two edits of a rename need two places in the
\* history.
NothingIsLost ==
  [][lab'.cookies # lab.cookies /\ MaximumHistory > 1 =>
       \E capture \in ToSet(history') \cup ToSet(future') :
         capture.cookies = Cloned(lab.cookies)]_vars

States == {lab} \cup ToSet(history) \cup ToSet(future)

\* Cloning leaves the keys of the listed cookies as they are.
Steady(state) == \A r \in DOMAIN state.cookies :
                   KeyOf[CloneOf[state.cookies[r]]] = KeyOf[state.cookies[r]]

\* The selection names cookies of the list.
Selects(state) == state.selected \subseteq Keys(state.cookies)

\* As long as cloning leaves the keys alone, the selection, also that of a
\* state that undo or redo brings back, names cookies of the list, whatever
\* is removed, renamed, replaced or filtered: `Delete selected` finds what it
\* says it will delete.  What a file selects is the file's.
SelectionPresent ==
  [][/\ \A state \in States : Steady(state) /\ Selects(state)
     /\ Steady(lab')
     /\ \A file \in File : Selects(Copied(file)) \/ ~ImportState(file)
     => \A state \in States' : Selects(state)]_vars

\* What the page reports: "All cookies were canonicalized and deduplicated."
CanonicalizeDeduplicates ==
  [][CanonicalizeAll =>
       \A r, s \in DOMAIN lab'.cookies :
         KeyOf[lab'.cookies[r]] = KeyOf[lab'.cookies[s]] => r = s]_vars
=============================================================================
