----------------------------- MODULE PopupSession -----------------------------
(***************************************************************************)
(* The cookie list of the popup (extension/src/popup/popup.ts): the        *)
(* handlers that refresh it, select in it and change cookies, with the     *)
(* buttons that setBusy switches off while a refresh is under way.         *)
(*                                                                         *)
(* A handler runs up to its next await; then any other handler may run.    *)
(* Row buttons, checkboxes and the editor stay enabled during a refresh,   *)
(* and a handler that ends in a refresh may end while another one runs.    *)
(* The browser's cookies change at any time, so a query finds any subset   *)
(* of the cookies it ranges over; the browser answers queries in the order *)
(* they were asked.  The popup is open on a web page: state.context is     *)
(* set, and the other case shows no cookies and asks nothing.              *)
(*                                                                         *)
(* Call is a set of slots for the handlers in flight, MaxClicks bounds the *)
(* handlers of one session, Pattern is the set of searches, as the cookies *)
(* each one matches.                                                       *)
(***************************************************************************)
EXTENDS Naturals, Sequences, FiniteSets

CONSTANTS Call, NoCall, Cookie, ByUrl, ByDomain, Pattern, MaxClicks

ASSUME PopupAssumption ==
  /\ NoCall \notin Call
  /\ ByUrl \subseteq Cookie /\ ByDomain \subseteq Cookie
  /\ Pattern \subseteq SUBSET Cookie
  /\ Cookie \in Pattern
  /\ MaxClicks \in Nat

\* "refresh" stands for the four buttons that only setBusy switches.
Button == {"refresh", "delete-selected"}

VARIABLES
  cookies, selected, allDomains,   \* state.cookies, .selected, .allDomains
  pattern,     \* the cookies that the search box matches
  disabled,    \* by button, its disabled property
  before,      \* by button, dataset.disabledBeforeBusy
  busy,        \* the data-busy attribute of the body
  call,        \* the handlers in flight
  requests,    \* the handlers that await a query, in the order they asked
  clicks,      \* how many handlers have been started
  latest       \* not in the code: the refresh that started last, whether the
               \* list is the one it got, and whether it overlapped a refresh
               \* that makes another number of queries

list == <<cookies, selected>>
buttons == <<disabled, before, busy>>
vars == <<cookies, selected, allDomains, pattern, disabled, before, busy,
          call, requests, clicks, latest>>

Idle == [at |-> "idle"]

\* A refresh that waits: the queries it still has to make after this one, and
\* what the earlier ones found.
Listing(mode, left, found) ==
  [at |-> "listing", all |-> mode, left |-> left, found |-> found]

Filtered == cookies \cap pattern

Quiet == \A c \in Call : call[c].at # "listing"

Init ==
  /\ cookies = {} /\ selected = {} /\ allDomains = FALSE
  /\ pattern = Cookie
  /\ disabled = [b \in Button |-> b = "delete-selected"]
  /\ before = [b \in Button |-> "none"]
  /\ busy = FALSE
  /\ call = [c \in Call |-> Idle]
  /\ requests = <<>>
  /\ clicks = 0
  /\ latest = [by |-> NoCall, shown |-> TRUE, uneven |-> FALSE]

(***************************************************************************)
(* setBusy and refresh.                                                    *)
(***************************************************************************)
Busy ==
  /\ busy' = TRUE
  /\ before' = [b \in Button |-> IF disabled[b] THEN "true" ELSE "false"]
  /\ disabled' = [b \in Button |-> TRUE]

\* A faulty Free, which leaves the remembered state of the buttons behind.
FreeRemembering(chosen) ==
  /\ busy' = FALSE
  /\ disabled' = [b \in Button |-> IF b = "delete-selected" THEN chosen = {}
                                   ELSE before[b] = "true"]
  /\ UNCHANGED before

\* setBusy(false): updateSelectionControls has the last word on its button.
Free(chosen) ==
  /\ busy' = FALSE
  /\ disabled' = [b \in Button |-> IF b = "delete-selected" THEN chosen = {}
                                   ELSE before[b] = "true"]
  /\ before' = [b \in Button |-> "none"]

\* The first half of refresh, up to the await of the list.
Refresh(c, mode) ==
  /\ Busy
  /\ call' = [call EXCEPT ![c] = Listing(mode, IF mode THEN 0 ELSE 1, {})]
  /\ requests' = Append(requests, c)
  /\ latest' = [by    |-> c,
                shown |-> FALSE,
                uneven |-> /\ ~Quiet
                           /\ \/ latest.uneven
                              \/ \E d \in Call : /\ call[d].at = "listing"
                                                 /\ call[d].all # mode]
  /\ UNCHANGED list

\* What the query that c awaits ranges over.
Sought(c) == IF call[c].all THEN Cookie
            ELSE IF call[c].left = 1 THEN ByUrl ELSE ByDomain

\* The refresh c ends, and the list and the selection are what it leaves.
EndRefresh(c, shown, chosen, early) ==
  /\ cookies' = shown
  /\ selected' = chosen
  /\ Free(chosen)
  /\ call' = [call EXCEPT ![c] = Idle]
  /\ requests' = Tail(requests)
  /\ latest' = [latest EXCEPT !.shown = (c = latest.by),
                              !.uneven = latest.uneven \/ early]
  /\ UNCHANGED <<allDomains, pattern, clicks>>

\* A faulty NextQuery: a page without cookies is not asked for the cookies of
\* its domain.
NextQueryUnlessEmpty(c, found) ==
  /\ call[c].left > 0
  /\ IF found = {} THEN EndRefresh(c, found, {}, FALSE)
     ELSE /\ call' = [call EXCEPT ![c].left = @ - 1, ![c].found = @ \cup found]
          /\ requests' = Append(Tail(requests), c)
          /\ UNCHANGED <<list, allDomains, pattern, buttons, clicks, latest>>

\* listForContext goes on to its second query.
NextQuery(c, found) ==
  /\ call[c].left > 0
  /\ call' = [call EXCEPT ![c].left = @ - 1, ![c].found = @ \cup found]
  /\ requests' = Append(Tail(requests), c)
  /\ UNCHANGED <<list, allDomains, pattern, buttons, clicks, latest>>

\* A faulty ListArrives, which keeps the selection.
ListArrivesSelected(c, found) ==
  /\ call[c].left = 0
  /\ EndRefresh(c, call[c].found \cup found, selected, FALSE)

ListArrives(c, found) ==
  /\ call[c].left = 0
  /\ EndRefresh(c, call[c].found \cup found, {}, FALSE)

\* A faulty ListFails, without the finally.
ListFailsBusy(c) ==
  /\ cookies' = {}
  /\ call' = [call EXCEPT ![c] = Idle]
  /\ requests' = Tail(requests)
  /\ UNCHANGED <<selected, allDomains, pattern, buttons, clicks, latest>>

\* The catch of refresh: the selection is kept.
ListFails(c) == EndRefresh(c, {}, selected, call[c].left > 0)

Answer(c) ==
  /\ requests # <<>> /\ Head(requests) = c
  /\ \/ \E found \in SUBSET Sought(c) : NextQuery(c, found) \/ ListArrives(c, found)
     \/ ListFails(c)

(***************************************************************************)
(* The buttons and the rows.                                               *)
(***************************************************************************)
Click(c) == /\ call[c].at = "idle"
            /\ clicks < MaxClicks
            /\ clicks' = clicks + 1

\* updateSelectionControls
Reselect(chosen) ==
  /\ selected' = chosen
  /\ disabled' = [disabled EXCEPT !["delete-selected"] = chosen = {}]

ClickRefresh(c) ==
  /\ Click(c)
  /\ ~disabled["refresh"]
  /\ Refresh(c, allDomains)
  /\ UNCHANGED <<allDomains, pattern>>

\* enableAllDomains, up to the await of the permission.
ClickAllDomains(c) ==
  /\ Click(c)
  /\ ~disabled["refresh"]
  /\ call' = [call EXCEPT ![c] = [at |-> "permission", all |-> ~allDomains]]
  /\ UNCHANGED <<list, allDomains, pattern, buttons, requests, latest>>

PermissionChanged(c) ==
  /\ call[c].at = "permission"
  /\ allDomains' = call[c].all
  /\ Refresh(c, call[c].all)
  /\ UNCHANGED <<pattern, clicks>>

\* deleteOne, runImport and submitEditor change cookies, then refresh.
ClickMutation(c) ==
  /\ Click(c)
  /\ call' = [call EXCEPT ![c] = [at |-> "mutating"]]
  /\ UNCHANGED <<list, allDomains, pattern, buttons, requests, latest>>

\* deleteSelected does nothing when no cookie shown is selected.
ClickDeleteSelected(c) ==
  /\ ~disabled["delete-selected"]
  /\ cookies \cap selected # {}
  /\ ClickMutation(c)

MutationDone(c) ==
  /\ call[c].at = "mutating"
  /\ Refresh(c, allDomains)
  /\ UNCHANGED <<allDomains, pattern, clicks>>

\* The permission is not granted, or the mutation throws.
GiveUp(c) ==
  /\ call[c].at \in {"permission", "mutating"}
  /\ call' = [call EXCEPT ![c] = Idle]
  /\ UNCHANGED <<list, allDomains, pattern, buttons, requests, clicks, latest>>

ToggleRow(k) ==
  /\ k \in Filtered
  /\ Reselect(IF k \in selected THEN selected \ {k} ELSE selected \cup {k})
  /\ UNCHANGED <<cookies, allDomains, pattern, before, busy, call, requests,
                 clicks, latest>>

ToggleSelectAll ==
  /\ ~disabled["refresh"]
  /\ Filtered # {}
  /\ Reselect(IF Filtered \subseteq selected THEN selected \ Filtered
              ELSE selected \cup Filtered)
  /\ UNCHANGED <<cookies, allDomains, pattern, before, busy, call, requests,
                 clicks, latest>>

Search(p) ==
  /\ pattern' = p
  /\ Reselect(selected)
  /\ UNCHANGED <<cookies, allDomains, before, busy, call, requests, clicks,
                 latest>>

Await(c) == Answer(c) \/ PermissionChanged(c) \/ MutationDone(c) \/ GiveUp(c)

Next ==
  \/ \E c \in Call : \/ Await(c)
                     \/ ClickRefresh(c) \/ ClickAllDomains(c)
                     \/ ClickMutation(c) \/ ClickDeleteSelected(c)
  \/ \E k \in Cookie : ToggleRow(k)
  \/ ToggleSelectAll
  \/ \E p \in Pattern : Search(p)

\* Whatever is awaited settles: the browser answers.
Fairness == \A c \in Call : WF_vars(Await(c))

Spec == Init /\ [][Next]_vars /\ Fairness

(***************************************************************************)
(* Properties.                                                             *)
(***************************************************************************)
\* However refreshes overlap, when none is under way every button is back:
\* the state setBusy remembered while another refresh was under way is never
\* the one that stays.
ButtonsComeBack ==
  Quiet => /\ ~busy
           /\ ~disabled["refresh"]
           /\ disabled["delete-selected"] <=> selected = {}

\* What is selected is in the list, so the number on the delete button is the
\* number of cookies that it deletes; only a list that failed to load leaves
\* a selection without cookies behind.
SelectionListed == cookies # {} => selected \subseteq cookies

\* When no refresh is under way the list is the one that the latest refresh
\* got, unless refreshes overlapped that make different numbers of queries:
\* all domains take one query, the page's host takes two, and a refresh whose
\* first query fails makes no second.
LatestListShown == Quiet /\ ~latest.uneven => latest.shown

\* Once the user stops, the popup comes to rest with its buttons enabled.
Settles == <>[](Quiet /\ ~busy /\ ~disabled["refresh"])
=============================================================================
