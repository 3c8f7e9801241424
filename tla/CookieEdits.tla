------------------------------ MODULE CookieEdits ------------------------------
(***************************************************************************)
(* What the popup does to the browser's cookies: saving, deleting and      *)
(* importing (extension/src/cookies/service.ts over cookies/repository.ts, *)
(* started by the handlers of popup/popup.ts).                             *)
(*                                                                         *)
(* Every request to the browser is awaited; in between the page sets and   *)
(* drops cookies, other handlers run, and the popup may be closed.         *)
(*                                                                         *)
(* A key is the name, the domain and the path of a cookie.  A handler      *)
(* works on records of cookies, such as the popup listed or a file holds   *)
(* them, and a request names a cookie by a name and the URL that cookieUrl *)
(* makes from the record: its scheme is that of the record's secure flag,  *)
(* its host and path are those of the record.  Reach[r] is what the        *)
(* request made from r may meet: keys, with whether the cookie there is    *)
(* Secure.  It may be the cookies of that name on shorter paths too; and   *)
(* it need not be the cookie that r tells of, which may have become Secure *)
(* since, or have a path that is no path of a URL.  Nothing is assumed of  *)
(* Reach.  The browser may remove any cookie that is met, and any request  *)
(* may be rejected.                                                        *)
(*                                                                         *)
(* InScope are the records that validateCookie and isDomainWithinHost      *)
(* accept.  Input is the set of things that handlers are started with,     *)
(* MaxJobs and MaxChanges bound the handlers and the changes of the page.  *)
(***************************************************************************)
EXTENDS Naturals, FiniteSets, Sequences

CONSTANTS Handler, Key, Value, None, Reach, InScope, Input, MaxJobs, MaxChanges

Record == [key : Key, secure : BOOLEAN]

Cookie == [value : Value, secure : BOOLEAN]

Kind == {"save", "delete", "delete-selected", "import"}

\* The value and the previous record of a save, the value and the overwrite
\* option of an import.
Job == [kind : Kind, records : Seq(Record), value : Value,
        previous : Record \cup {None}, overwrite : BOOLEAN]

ASSUME EditAssumption ==
  /\ None \notin Record \cup Cookie \cup Handler
  /\ Reach \in [Record -> SUBSET Record]
  /\ InScope \subseteq Record
  /\ Input \subseteq Job
  /\ \A job \in Input : job.kind \in {"save", "delete"} => Len(job.records) = 1
  /\ MaxJobs \in Nat /\ MaxChanges \in Nat

VARIABLES
  jar,      \* the browser's cookies
  job,      \* by handler, what it is doing
  jobs,     \* how many handlers were started
  changes,  \* how many changes the page made
  since     \* not in the code: by handler, the cookies when it started, and
            \* the keys that others have changed after that

vars == <<jar, job, jobs, changes, since>>

Jar == [Key -> Cookie \cup {None}]

Idle == [pc |-> "idle"]

Unwatched == [cookies |-> [k \in Key |-> None], touched |-> {}]

Present == {k \in Key : jar[k] # None}

\* Whether the request that is made from the record r meets the cookie c at k.
Meets(r, k, c) == [key |-> k, secure |-> c.secure] \in Reach[r]

Met(r) == {k \in Present : Meets(r, k, jar[k])}

KeyChanged(s) == s.job.previous # None /\ s.job.previous.key # s.job.records[1].key

Init ==
  /\ jar \in Jar
  /\ job = [h \in Handler |-> Idle]
  /\ jobs = 0 /\ changes = 0
  /\ since = [h \in Handler |-> Unwatched]

\* A change of the cookies; `by` is the handler, or None for the page.
Change(new, by) ==
  LET changed == {k \in Key : new[k] # jar[k]}
  IN /\ jar' = new
     /\ since' = [h \in Handler |->
                    IF h = by \/ job[h] = Idle THEN since[h]
                    ELSE [since[h] EXCEPT !.touched = @ \cup changed]]

NoChange == UNCHANGED <<jar, since>>

Deleting(s) == s.job.kind \in {"delete", "delete-selected"}

\* A faulty Request: an import does not ask whether it may overwrite.
RequestOverwriting(s) ==
  IF s.n > Len(s.job.records) THEN "audit"
  ELSE IF Deleting(s) THEN "remove"
  ELSE IF s.job.records[s.n] \notin InScope THEN "refuse"
  ELSE "set"

\* What is done first with record n, or the audit entry after the last one.
Request(s) ==
  IF s.n > Len(s.job.records) THEN "audit"
  ELSE IF Deleting(s) THEN "remove"
  ELSE IF s.job.records[s.n] \notin InScope THEN "refuse"
  ELSE IF s.job.kind = "import" /\ ~s.job.overwrite THEN "get"
  ELSE "set"

At(s, n, failed) ==
  LET next == [s EXCEPT !.n = n, !.failed = failed]
  IN [next EXCEPT !.pc = Request(next)]

Step(h, s) == job' = [job EXCEPT ![h] = s] /\ UNCHANGED <<jobs, changes>>

\* The loops go on with the next cookie.
NextCookie(h, failures) ==
  Step(h, At(job[h], job[h].n + 1, job[h].failed + failures))

\* A save of a record that is out of scope throws at once.
Begin(h, input) ==
  LET start == [pc |-> "new", job |-> input, n |-> 1, failed |-> 0]
  IN /\ job[h] = Idle /\ jobs < MaxJobs
     /\ input.kind = "save" => input.records[1] \in InScope
     /\ job' = [job EXCEPT ![h] = At(start, 1, 0)]
     /\ since' = [since EXCEPT ![h] = [cookies |-> jar, touched |-> {}]]
     /\ jobs' = jobs + 1
     /\ UNCHANGED <<jar, changes>>

(***************************************************************************)
(* The browser's answers.                                                  *)
(***************************************************************************)
Awaits(h, request) == job[h].pc = request

Current(h) == job[h].job.records[job[h].n]

\* An import counts a record outside the host, which asks nothing of anybody.
OutOfScope(h) == Awaits(h, "refuse") /\ NextCookie(h, 1) /\ NoChange

\* import: a cookie that is found is skipped.
Found(h) == /\ Awaits(h, "get") /\ Met(Current(h)) # {}
            /\ NextCookie(h, 0) /\ NoChange

NotFound(h) == /\ Awaits(h, "get") /\ Met(Current(h)) = {}
               /\ Step(h, [job[h] EXCEPT !.pc = "set"]) /\ NoChange

AfterSet(s) == IF s.job.kind = "save" /\ KeyChanged(s)
               THEN [s EXCEPT !.pc = "remove"]
               ELSE At(s, s.n + 1, s.failed)

Accepted(h) == /\ Awaits(h, "set")
               /\ Change([jar EXCEPT ![Current(h).key] =
                             [value |-> job[h].job.value, secure |-> Current(h).secure]], h)
               /\ Step(h, AfterSet(job[h]))

\* A faulty Rejected: the previous cookie goes all the same.
RejectedRemoving(h) ==
  /\ Awaits(h, "set")
  /\ Step(h, AfterSet([job[h] EXCEPT !.failed = @ + 1])) /\ NoChange

\* set gives null: an import counts it, a save records it and throws then.
Rejected(h) == Awaits(h, "set") /\ NextCookie(h, 1) /\ NoChange

\* The removal of what a deletion names, or of the cookie a save replaces.
Target(h) == IF job[h].job.kind = "save" THEN job[h].job.previous ELSE Current(h)

Removed(h, gone) ==
  /\ Awaits(h, "remove")
  /\ gone \in (SUBSET Met(Target(h))) \ {{}}
  /\ Change([k \in Key |-> IF k \in gone THEN None ELSE jar[k]], h)
  /\ NextCookie(h, 0)

\* remove gives null; a save does not look at it.
NotRemoved(h) ==
  /\ Awaits(h, "remove")
  /\ Met(Target(h)) = {}
  /\ NextCookie(h, IF job[h].job.kind = "save" THEN 0 ELSE 1) /\ NoChange

End(h) == /\ job' = [job EXCEPT ![h] = Idle]
          /\ since' = [since EXCEPT ![h] = Unwatched]
          /\ UNCHANGED <<jar, jobs, changes>>

\* A faulty Throws: what is thrown in a loop is forgotten.
ThrowsForgotten(h) ==
  /\ job[h].pc \in {"get", "set", "remove"}
  /\ IF job[h].job.kind \in {"import", "delete-selected"}
     THEN NextCookie(h, 0) /\ NoChange ELSE End(h)

\* A request throws: the loops count it, the others end without an entry.
Throws(h) ==
  /\ job[h].pc \in {"get", "set", "remove"}
  /\ IF job[h].job.kind \in {"import", "delete-selected"}
     THEN NextCookie(h, 1) /\ NoChange ELSE End(h)

\* recordAudit comes back, whatever became of the entry.
Audited(h) == Awaits(h, "audit") /\ End(h)

ClosePopup == /\ \E h \in Handler : job[h] # Idle
              /\ job' = [h \in Handler |-> Idle]
              /\ since' = [h \in Handler |-> Unwatched]
              /\ UNCHANGED <<jar, jobs, changes>>

PageChanges(k, c) == /\ changes < MaxChanges
                     /\ jar[k] # c
                     /\ changes' = changes + 1
                     /\ Change([jar EXCEPT ![k] = c], None)
                     /\ UNCHANGED <<job, jobs>>

Next ==
  \/ \E h \in Handler :
       \/ \E input \in Input : Begin(h, input)
       \/ OutOfScope(h) \/ Found(h) \/ NotFound(h)
       \/ Accepted(h) \/ Rejected(h)
       \/ \E gone \in SUBSET Key : Removed(h, gone)
       \/ NotRemoved(h) \/ Throws(h) \/ Audited(h)
  \/ ClosePopup
  \/ \E k \in Key, c \in Cookie \cup {None} : PageChanges(k, c)

Spec == Init /\ [][Next]_vars

(***************************************************************************)
(* Properties.                                                             *)
(***************************************************************************)
Doing(h, kind) == job[h] # Idle /\ job[h].job.kind = kind

Done(h) == Awaits(h, "audit") /\ job[h].failed = 0

Touched(h) == since[h].touched

\* The request that is made from r can name nothing but the key of r.
Alone(r) == \A q \in Reach[r] : q.key = r.key

Made(h) == [value |-> job[h].job.value, secure |-> job[h].job.records[1].secure]

\* An edit that renames or moves a cookie never loses it, wherever a request
\* fails or others work on other cookies: until the new cookie is there the
\* previous one is, and an edit that is recorded as a success has left the
\* new one alone, and no previous one if its record still leads to it.  (The
\* URL of the previous cookie must not meet the new one, which the removal may
\* then take along; and a previous cookie whose URL no longer meets it, such
\* as one made Secure since it was listed, stays: service.ts:24 does not look
\* at the answer.)
EditLosesNothing ==
  \A h \in Handler : Doing(h, "save") /\ KeyChanged(job[h]) =>
    LET new == job[h].job.records[1]
        previous == job[h].job.previous
        was == since[h].cookies[previous.key]
        saved == jar[new.key] = Made(h)
    IN /\ was # None
       /\ new \notin Reach[previous]
       /\ Touched(h) \cap {new.key, previous.key} = {}
       => /\ previous.key \in Present \/ saved
          /\ Done(h) =>
               /\ saved
               /\ Alone(previous) /\ Meets(previous, previous.key, was)
                    => previous.key \notin Present

\* An import that is not to overwrite leaves every cookie as it found it when
\* it started, unless somebody else changed that cookie since, or the URL of a
\* record for it does not meet it: a record without Secure does not ask for a
\* Secure cookie, which is then left to the browser's rules (service.ts:74).
ImportKeeps ==
  \A h \in Handler : Doing(h, "import") /\ ~job[h].job.overwrite =>
    \A k \in Key \ Touched(h) :
      LET was == since[h].cookies[k]
      IN /\ was # None
         /\ \A i \in DOMAIN job[h].job.records :
              job[h].job.records[i].key = k => Meets(job[h].job.records[i], k, was)
         => jar[k] = was

\* When a bulk deletion reports no failure, the cookies it was to delete are
\* gone, whatever has become of them since they were listed, but for those
\* that others set again and those whose URL may meet another cookie, which
\* may have been removed instead.
NoFailureMeansGone ==
  \A h \in Handler : Doing(h, "delete-selected") /\ Done(h) =>
    \A i \in DOMAIN job[h].job.records :
      LET r == job[h].job.records[i]
      IN Alone(r) /\ r.key \notin Touched(h) => r.key \notin Present
=============================================================================
