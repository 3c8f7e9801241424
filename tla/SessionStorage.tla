---------------------------- MODULE SessionStorage ----------------------------
(***************************************************************************)
(* The two lists the extension keeps in chrome.storage.session: the audit  *)
(* log (extension/src/core/logger.ts) and the snapshots                    *)
(* (extension/src/snapshots/repository.ts), with the pages that clear them *)
(* (popup/popup.ts, options/options.ts).                                   *)
(*                                                                         *)
(* Every update reads the list, awaits, and writes a whole new list back.  *)
(* Handlers of the popup are not awaited by one another and the options    *)
(* page is a context of its own, so anything may happen between the two    *)
(* halves of an update.  Each storage request by itself is atomic.         *)
(*                                                                         *)
(* An entry is named by its id, a counter here (stableId in the code);     *)
(* what it says does not matter.  Call is a set of slots for the updates   *)
(* in flight, Limit is 200 events and 20 snapshots, MaxIds bounds how many *)
(* entries are ever made.                                                  *)
(***************************************************************************)
EXTENDS Naturals, Sequences, Functions

CONSTANTS Call, Limit, MaxIds

Area == {"audit", "snapshots"}

ASSUME SessionAssumption ==
  /\ Limit \in [Area -> Nat \ {0}]
  /\ MaxIds \in Nat

VARIABLES
  stored,    \* chrome.storage.session, <<>> for a key that is absent
  call,      \* the updates in flight
  made,      \* how many ids have been given out
  open,      \* whether the popup is open
  expected   \* not in the code: by area, the list as it would be had every
             \* update been atomic, and whether an update was overtaken

vars == <<stored, call, made, open, expected>>

Id == 1..MaxIds

Idle == [kind |-> "idle"]

\* An update adds its id to the list or drops it.
Started(area, kind, id) ==
  [kind |-> kind, area |-> area, id |-> id, pc |-> "reading", read |-> <<>>]

Trim(s, n) == SubSeq(s, 1, IF Len(s) < n THEN Len(s) ELSE n)

\* filter: the list without an id, wherever it is.
Without(list, id) ==
  LET kept[i \in 0..Len(list)] ==
        IF i = 0 THEN <<>>
        ELSE IF list[i] = id THEN kept[i - 1] ELSE Append(kept[i - 1], list[i])
  IN kept[Len(list)]

\* The new list: [entry, ...existing].slice(0, limit), or the filtered list.
Updated(c, list) ==
  IF c.kind = "add" THEN Trim(<<c.id>> \o list, Limit[c.area])
  ELSE Without(list, c.id)

AtomicSession == [a \in Area |-> [list |-> <<>>, overtaken |-> FALSE]]

Init ==
  /\ stored = [a \in Area |-> <<>>]
  /\ call = [c \in Call |-> Idle]
  /\ made = 0
  /\ open = FALSE
  /\ expected = AtomicSession

OpenPopup == /\ ~open /\ open' = TRUE
             /\ UNCHANGED <<stored, call, made, expected>>

\* The popup closes as soon as it loses the focus, and what its handlers were
\* awaiting is never continued.
ClosePopup == /\ open /\ open' = FALSE
              /\ call' = [c \in Call |-> Idle]
              /\ UNCHANGED <<stored, made, expected>>

\* Faulty: the id of an entry is its place in the list.
AddByPlace(c, area) ==
  /\ open /\ call[c] = Idle /\ made < MaxIds
  /\ made' = made + 1
  /\ call' = [call EXCEPT ![c] = Started(area, "add", Len(stored[area]) + 1)]
  /\ UNCHANGED <<stored, open, expected>>

(***************************************************************************)
(* recordAudit and SnapshotRepository.create add a new entry.              *)
(***************************************************************************)
Add(c, area) ==
  /\ open /\ call[c] = Idle /\ made < MaxIds
  /\ made' = made + 1
  /\ call' = [call EXCEPT ![c] = Started(area, "add", made + 1)]
  /\ UNCHANGED <<stored, open, expected>>

\* SnapshotRepository.remove, from the row of a snapshot that may be gone.
RemoveSnapshot(c, id) ==
  /\ open /\ call[c] = Idle /\ id <= made
  /\ call' = [call EXCEPT ![c] = Started("snapshots", "drop", id)]
  /\ UNCHANGED <<stored, made, open, expected>>

\* Faulty: the stored list is never recognised as one.
ReadNothing(c) ==
  /\ call[c] # Idle /\ call[c].pc = "reading"
  /\ call' = [call EXCEPT ![c].pc = "writing"]
  /\ UNCHANGED <<stored, made, open, expected>>

Read(c) ==
  /\ call[c] # Idle /\ call[c].pc = "reading"
  /\ call' = [call EXCEPT ![c].pc = "writing",
                          ![c].read = stored[call[c].area]]
  /\ UNCHANGED <<stored, made, open, expected>>

\* The calls that have read a list and not yet written it.
Holding(area) ==
  {c \in Call : call[c] # Idle /\ call[c].pc = "writing" /\ call[c].area = area}

\* A change of the list of an area; `others` are the calls it overtakes.
Change(area, list, atomic, others) ==
  /\ stored' = [stored EXCEPT ![area] = list]
  /\ expected' = [expected EXCEPT
                    ![area] = [list |-> atomic,
                               overtaken |-> @.overtaken \/ others # {}]]

\* Faulty: the update is tried again although it was written.
WriteAndRetry(c) ==
  /\ call[c] # Idle /\ call[c].pc = "writing"
  /\ LET area == call[c].area
     IN Change(area, Updated(call[c], call[c].read),
               Updated(call[c], expected[area].list), Holding(area) \ {c})
  /\ call' = [call EXCEPT ![c].pc = "reading"]
  /\ UNCHANGED <<made, open>>

Write(c) ==
  /\ call[c] # Idle /\ call[c].pc = "writing"
  /\ LET area == call[c].area
     IN Change(area, Updated(call[c], call[c].read),
               Updated(call[c], expected[area].list), Holding(area) \ {c})
  /\ call' = [call EXCEPT ![c] = Idle]
  /\ UNCHANGED <<made, open>>

\* A request that the browser rejects ends the update: recordAudit swallows
\* the error, create and remove pass it on to a toast.
Fail(c) ==
  /\ call[c] # Idle
  /\ call' = [call EXCEPT ![c] = Idle]
  /\ UNCHANGED <<stored, made, open, expected>>

\* clearAudit of the options page and SnapshotRepository.clear of the popup.
ClearArea(area) ==
  /\ area = "snapshots" => open
  /\ Change(area, <<>>, <<>>, Holding(area))
  /\ UNCHANGED <<call, made, open>>

\* clearSessionData of the options page.
ClearSession ==
  /\ stored' = [a \in Area |-> <<>>]
  /\ expected' = [a \in Area |->
       [list |-> <<>>,
        overtaken |-> expected[a].overtaken \/ Holding(a) # {}]]
  /\ UNCHANGED <<call, made, open>>

\* The browser exits: the session storage is gone, and so are the pages.
EndSession ==
  /\ stored' = [a \in Area |-> <<>>]
  /\ call' = [c \in Call |-> Idle]
  /\ open' = FALSE
  /\ expected' = AtomicSession
  /\ UNCHANGED made

Next ==
  \/ OpenPopup
  \/ ClosePopup
  \/ \E c \in Call : \/ \E area \in Area : Add(c, area)
                     \/ \E id \in Id : RemoveSnapshot(c, id)
                     \/ Read(c)
                     \/ Write(c)
                     \/ Fail(c)
  \/ \E area \in Area : ClearArea(area)
  \/ ClearSession
  \/ EndSession

Spec == Init /\ [][Next]_vars

(***************************************************************************)
(* Properties.                                                             *)
(***************************************************************************)
\* However updates and clears of the two pages overlap, no entry is ever
\* listed twice, and an entry is in the list of its own area only.
EntriesDistinct ==
  /\ \A a \in Area : IsInjective(stored[a])
  /\ Range(stored["audit"]) \cap Range(stored["snapshots"]) = {}

\* The entries that are stored, held by an update in flight or about to be added.
Remembered ==
  LET Busy == {c \in Call : call[c] # Idle}
      lists == {stored[a] : a \in Area} \cup {call[c].read : c \in Busy}
      added == {call[c].id : c \in {d \in Busy : call[d].kind = "add"}}
  IN added \cup UNION {Range(list) : list \in lists}

\* An entry that is cleared, dropped, trimmed or lost, and that no update
\* which was already in flight holds, never comes back: what a stale update
\* can bring back ends with that update, with its popup and with the session.
ForgottenForGood ==
  [][\A id \in 1..made : id \notin Remembered => id \notin Remembered']_vars

\* Only an update that was overtaken between its two halves can lose, revive
\* or misplace an entry: until then the lists are what atomic updates give.
LossNeedsOverlap ==
  \A a \in Area : ~expected[a].overtaken => stored[a] = expected[a].list

\* What the options page tells the user who clears it: "Audit log cleared."
\* Once the audit log is empty, every event that is logged later is one whose
\* operation was not over when it was cleared.
ClearedStaysCleared ==
  [][stored["audit"] = <<>> =>
       Range(stored'["audit"]) \subseteq
         {call[c].id : c \in {d \in Call : call[d] # Idle}}]_vars
=============================================================================
