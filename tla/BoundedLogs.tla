------------------------------ MODULE BoundedLogs ------------------------------
(***************************************************************************)
(* The two logs of the repository that number their entries and keep the   *)
(* newest ones: AuditLog of luck-core (rust/crates/luck-core/src/audit.rs) *)
(* and SnapshotManager of the native layer (native/cpp/src/snapshot.cpp).  *)
(* An entry is its id; the newest one comes first.  MaximumId stands for   *)
(* the greatest u64.                                                       *)
(***************************************************************************)
EXTENDS Integers, SequencesExt

CONSTANTS MaximumId, MaximumEvents, MaximumSnapshots

ASSUME LogAssumption ==
  /\ {MaximumId, MaximumEvents, MaximumSnapshots} \subseteq Nat
  /\ MaximumId > 0

VARIABLES
  audit,       \* the audit log: next_id and events
  snapshots,   \* the snapshots, in the same form
  recorded,    \* not in the code: all that record returned since the log
  created      \* was cleared, and all that create ever returned

log_vars == <<audit, snapshots, recorded, created>>

Log == [next_id : 0..MaximumId, entries : Seq(0..MaximumId)]

AtLeastOne(n) == IF n = 0 THEN 1 ELSE n

\* A faulty Pushed, which trims the wrong end.
PushedOut(entries, id, maximum) ==
  LET longer == <<id>> \o entries
  IN SubSeq(longer, IF Len(longer) > maximum THEN 2 ELSE 1, Len(longer))

\* push_front and the loop that trims the other end.
Pushed(entries, id, maximum) ==
  LET longer == <<id>> \o entries
  IN SubSeq(longer, 1, IF Len(longer) < maximum THEN Len(longer) ELSE maximum)

(***************************************************************************)
(* AuditLog; saturating_add holds the last id.                             *)
(***************************************************************************)
RecordEvent ==
  /\ Len(recorded) <= MaximumId        \* the bound of the model
  /\ audit' = [next_id |-> IF audit.next_id = MaximumId THEN MaximumId
                           ELSE audit.next_id + 1,
               entries |-> Pushed(audit.entries, audit.next_id,
                                  AtLeastOne(MaximumEvents))]
  /\ recorded' = <<audit.next_id>> \o recorded
  /\ UNCHANGED <<snapshots, created>>

ClearAudit ==
  /\ audit' = [audit EXCEPT !.entries = <<>>]
  /\ recorded' = <<>>
  /\ UNCHANGED <<snapshots, created>>

(***************************************************************************)
(* SnapshotManager.  The id is spent before the fingerprint is calculated, *)
(* which may fail; the name and the number of cookies are looked at        *)
(* before.  next_id_ is a 64-bit counter that the model stops at its end.  *)
(***************************************************************************)
Create ==
  /\ snapshots.next_id < MaximumId
  /\ snapshots' = [next_id |-> snapshots.next_id + 1,
                   entries |-> Pushed(snapshots.entries, snapshots.next_id,
                                      AtLeastOne(MaximumSnapshots))]
  /\ created' = Append(created, snapshots.next_id)
  /\ UNCHANGED <<audit, recorded>>

CreateFails ==
  /\ snapshots.next_id < MaximumId
  /\ snapshots' = [snapshots EXCEPT !.next_id = @ + 1]
  /\ UNCHANGED <<audit, recorded, created>>

\* The first snapshot with the id is erased, if there is one.
Erase(id) ==
  /\ \E i \in DOMAIN snapshots.entries :
       /\ snapshots.entries[i] = id
       /\ \A j \in 1..(i - 1) : snapshots.entries[j] # id
       /\ snapshots' = [snapshots EXCEPT !.entries = RemoveAt(@, i)]
  /\ UNCHANGED <<audit, recorded, created>>

ClearSnapshots ==
  /\ snapshots' = [snapshots EXCEPT !.entries = <<>>]
  /\ UNCHANGED <<audit, recorded, created>>

LogInit ==
  /\ audit = [next_id |-> 1, entries |-> <<>>]
  /\ snapshots = [next_id |-> 1, entries |-> <<>>]
  /\ recorded = <<>> /\ created = <<>>

LogNext ==
  \/ RecordEvent \/ ClearAudit \/ Create \/ CreateFails \/ ClearSnapshots
  \/ \E id \in 1..MaximumId : Erase(id)

LogSpec == LogInit /\ [][LogNext]_log_vars

(***************************************************************************)
(* Properties.                                                             *)
(***************************************************************************)
Falling(ids, least) ==
  \A i, j \in DOMAIN ids : i < j => ids[i] > ids[j] \/ ids[i] >= least

\* No snapshot ever gets the id of another one, though ids are spent by a
\* create that fails, and erased or trimmed snapshots leave gaps: what a caller
\* holds names the same snapshot or none (snapshot.cpp:31-54).  The audit log
\* holds exactly the events recorded last, the newest one first, and their ids
\* tell them apart until the counter saturates (audit.rs:44-67).
LogsKeepNewest ==
  /\ \A i, j \in DOMAIN created : i < j => created[i] < created[j]
  /\ ToSet(snapshots.entries) \subseteq ToSet(created)
  /\ Falling(snapshots.entries, MaximumId)
  /\ LET held == Len(audit.entries)
     IN /\ audit.entries = SubSeq(recorded, 1, held)
        /\ held < Len(recorded) => held = AtLeastOne(MaximumEvents)
  /\ Falling(audit.entries, MaximumId)
=============================================================================
