---------------------------- MODULE ExtensionProofs ----------------------------
(***************************************************************************)
(* Proofs about what the extension does to the browser's cookies, to its   *)
(* settings and to its badge.                                              *)
(***************************************************************************)
EXTENDS CookieEdits, ExtensionPages, Integers, SequenceTheorems, FiniteSetTheorems, TLAPS

-----------------------------------------------------------------------------
(***************************************************************************)
(* CookieEdits.  Whatever the page and the other handlers do in between, an *)
(* edit loses nothing, an import keeps what it is not to overwrite, and a  *)
(* deletion without a failure has deleted.                                 *)
(*                                                                         *)
(* A handler relies on the cookies that nobody else has touched since it   *)
(* started.  So what it knows of them at each of its requests is sound, is *)
(* kept by its own steps, and is left alone by everybody else's.           *)
(***************************************************************************)

Requests == {"refuse", "get", "set", "remove", "audit"}

\* What a handler is while it works.
Shaped(s) ==
  /\ s = [pc |-> s.pc, job |-> s.job, n |-> s.n, failed |-> s.failed]
  /\ s.job \in Input
  /\ s.n \in Nat \ {0}
  /\ s.failed \in Nat

Started(s) ==
  /\ Shaped(s) /\ s.pc \in Requests
  /\ s.pc # "audit" => s.n \in DOMAIN s.job.records

TypeOK ==
  /\ jar \in Jar
  /\ job = [h \in Handler |-> job[h]]
  /\ \A h \in Handler : job[h] = Idle \/ Started(job[h])
  /\ since \in [Handler -> [cookies : Jar, touched : SUBSET Key]]

\* Whether every record of a handler for the key k leads to the cookie c.
AllMeet(h, k, c) ==
  \A i \in DOMAIN job[h].job.records :
    job[h].job.records[i].key = k => Meets(job[h].job.records[i], k, c)

\* What an import that is not to overwrite knows of the cookies that nobody
\* else has touched: it sets only those that were not there.
ImportSound(h) ==
  Doing(h, "import") /\ ~job[h].job.overwrite =>
    /\ job[h].pc \in {"refuse", "get", "set", "audit"}
    /\ \A k \in Key \ Touched(h) :
         since[h].cookies[k] # None /\ AllMeet(h, k, since[h].cookies[k]) =>
           /\ jar[k] = since[h].cookies[k]
           /\ job[h].pc = "set" => k # Current(h).key

\* A bulk deletion has deleted all that it has gone past.
DeletionSound(h) ==
  Doing(h, "delete-selected") =>
    /\ job[h].pc \in {"remove", "audit"}
    /\ job[h].pc = "audit" => job[h].n > Len(job[h].job.records)
    /\ job[h].failed = 0 =>
         \A i \in DOMAIN job[h].job.records :
           LET r == job[h].job.records[i]
           IN i < job[h].n /\ Alone(r) /\ r.key \notin Touched(h)
                => r.key \notin Present

\* When the cookies of a save are its own affair.
Unshared(h) ==
  /\ since[h].cookies[job[h].job.previous.key] # None
  /\ job[h].job.records[1] \notin Reach[job[h].job.previous]
  /\ Touched(h) \cap {job[h].job.records[1].key, job[h].job.previous.key} = {}

Saved(h) == jar[job[h].job.records[1].key] = Made(h)

\* Where a save that changes the key is: the previous cookie is there until
\* the new one is, and then goes.
SaveSound(h) ==
  Doing(h, "save") /\ KeyChanged(job[h]) =>
    LET previous == job[h].job.previous
        was == since[h].cookies[previous.key]
    IN /\ job[h].pc \in {"set", "remove", "audit"}
       /\ job[h].pc # "audit" => job[h].n = 1 /\ job[h].failed = 0
       /\ Unshared(h) =>
            /\ job[h].pc \in {"set", "remove"} => jar[previous.key] = was
            /\ job[h].pc = "remove" => Saved(h)
            /\ previous.key \in Present \/ Saved(h)
            /\ Done(h) =>
                 /\ Saved(h)
                 /\ Alone(previous) /\ Meets(previous, previous.key, was)
                      => previous.key \notin Present

JobSound(h) == ImportSound(h) /\ DeletionSound(h) /\ SaveSound(h)

IInv == TypeOK /\ \A h \in Handler : JobSound(h)

\* What a step of somebody else means to a handler.
Undisturbed(h) ==
  /\ job'[h] = job[h]
  /\ job[h] # Idle =>
       /\ since'[h].cookies = since[h].cookies
       /\ Touched(h) \subseteq Touched(h)'
       /\ \A k \in Key \ Touched(h)' : jar'[k] = jar[k]

-----------------------------------------------------------------------------
(* The model's operators. *)

\* Going on with record n keeps what the handler was started with, and does
\* first what its kind does, or the audit entry after the last one.
LEMMA AtProperties ==
  ASSUME NEW s, Shaped(s), NEW n \in Nat \ {0}, NEW failed \in Nat
  PROVE  LET t == At(s, n, failed)
         IN /\ Started(t)
            /\ t.job = s.job /\ t.n = n /\ t.failed = failed
            /\ t.pc = "audit" <=> n > Len(s.job.records)
            /\ n > Len(s.job.records) \/
                 /\ t.pc = "set" => t.job.kind \notin {"delete", "delete-selected"}
                 /\ t.job.kind \in {"delete", "delete-selected"} => t.pc = "remove"
                 /\ t.job.kind = "save" => t.pc \in {"refuse", "set"}
                 /\ t.job.kind = "save" /\ t.job.records[n] \in InScope => t.pc = "set"
                 /\ t.job.kind = "import" => t.pc \in {"refuse", "get", "set"}
                 /\ t.job.kind = "import" /\ ~t.job.overwrite => t.pc \in {"refuse", "get"}
<1> DEFINE next == [s EXCEPT !.n = n, !.failed = failed]
           t == At(s, n, failed)
<1>0. s \in [pc : {s.pc}, job : {s.job}, n : {s.n}, failed : {s.failed}]
  BY DEF Shaped
<1>1. /\ next = [pc |-> s.pc, job |-> s.job, n |-> n, failed |-> failed]
      /\ next.n = n /\ next.job = s.job
  <2> DEFINE moved == [s EXCEPT !.n = n]
  <2>1. moved \in [pc : {s.pc}, job : {s.job}, n : {n}, failed : {s.failed}]
    BY <1>0
  <2>2. next = [moved EXCEPT !.failed = failed]
    BY <1>0
  <2> HIDE DEF moved, next
  <2>3. next = [pc |-> s.pc, job |-> s.job, n |-> n, failed |-> failed]
    BY <2>1, <2>2
  <2> QED
    BY <2>3
<1>2. t = [pc |-> Request(next), job |-> s.job, n |-> n, failed |-> failed]
  <2>1. t = [next EXCEPT !.pc = Request(next)]
    BY DEF At
  <2> QED
    BY <1>1, <2>1
<1>3. s.job.kind \in Kind /\ s.job.records \in Seq(Record)
  BY EditAssumption DEF Shaped, Job
<1>4. CASE n > Len(s.job.records)
  <2>1. Request(next) = "audit"
    BY <1>1, <1>4 DEF Request
  <2>2. QED
    BY <1>2, <1>4, <2>1 DEF Started, Shaped, Requests
<1>5. CASE ~(n > Len(s.job.records))
  <2>1. /\ Deleting(s) => Request(next) = "remove"
        /\ s.job.kind = "save" => Request(next) \in {"refuse", "set"}
        /\ s.job.kind = "save" /\ s.job.records[n] \in InScope => Request(next) = "set"
        /\ s.job.kind = "import" => Request(next) \in {"refuse", "get", "set"}
        /\ s.job.kind = "import" /\ ~s.job.overwrite => Request(next) \in {"refuse", "get"}
    BY <1>1, <1>5 DEF Request, Deleting
  <2>2. n \in DOMAIN s.job.records
    BY <1>3, <1>5
  <2>3. QED
    BY <1>2, <1>3, <1>5, <2>1, <2>2 DEF Started, Shaped, Requests, Kind, Deleting
<1> QED
  BY <1>4, <1>5

\* A handler that has sent a request is at work.
LEMMA AtWork ==
  ASSUME TypeOK, NEW h \in Handler, job[h].pc \in Requests
  PROVE  job[h] # Idle /\ Started(job[h])
BY DEF TypeOK, Requests, Idle

\* A change is noted by every other handler that is at work.
LEMMA ChangeNoted ==
  ASSUME TypeOK, NEW new \in Jar, NEW by, Change(new, by)
  PROVE  /\ jar' = new
         /\ since' \in [Handler -> [cookies : Jar, touched : SUBSET Key]]
         /\ \A h \in Handler : h = by => since'[h] = since[h]
         /\ \A h \in Handler : h # by /\ job[h] # Idle =>
              /\ since'[h].cookies = since[h].cookies
              /\ Touched(h) \subseteq Touched(h)'
              /\ \A k \in Key \ Touched(h)' : jar'[k] = jar[k]
<1> DEFINE changed == {k \in Key : new[k] # jar[k]}
<1>1. jar' = new
  BY DEF Change
<1>2. since' = [h \in Handler |->
                  IF h = by \/ job[h] = Idle THEN since[h]
                  ELSE [since[h] EXCEPT !.touched = @ \cup changed]]
  BY DEF Change
<1>3. \A h \in Handler : since[h] \in [cookies : Jar, touched : SUBSET Key]
  BY DEF TypeOK
<1>4. ASSUME NEW h \in Handler
      PROVE  [since[h] EXCEPT !.touched = @ \cup changed]
               = [cookies |-> since[h].cookies, touched |-> since[h].touched \cup changed]
  <2> DEFINE notes == since[h]
  <2>1. notes \in [cookies : Jar, touched : SUBSET Key]
    BY <1>3
  <2> HIDE DEF notes
  <2>2. [notes EXCEPT !.touched = @ \cup changed]
          = [cookies |-> notes.cookies, touched |-> notes.touched \cup changed]
    BY <2>1
  <2> QED
    BY <2>2 DEF notes
<1>5. \A h \in Handler :
        [cookies |-> since[h].cookies, touched |-> since[h].touched \cup changed]
          \in [cookies : Jar, touched : SUBSET Key]
  BY <1>3
<1>6. since' \in [Handler -> [cookies : Jar, touched : SUBSET Key]]
  BY <1>2, <1>3, <1>4, <1>5
<1>7. ASSUME NEW h \in Handler, h # by, job[h] # Idle
      PROVE  /\ since'[h].cookies = since[h].cookies
             /\ Touched(h)' = Touched(h) \cup changed
  BY <1>2, <1>4, <1>7 DEF Touched
<1>8. \A h \in Handler : h = by => since'[h] = since[h]
  BY <1>2
<1> QED
  BY <1>1, <1>6, <1>7, <1>8

\* A step of a handler leaves its own notes and disturbs no other handler.
LEMMA StepAlone ==
  ASSUME TypeOK, NEW h \in Handler, NEW s, Started(s), Step(h, s),
         NoChange \/ \E new \in Jar : Change(new, h)
  PROVE  /\ TypeOK'
         /\ job'[h] = s /\ since'[h] = since[h]
         /\ \A g \in Handler \ {h} : Undisturbed(g)
<1>1. /\ job' = [job EXCEPT ![h] = s]
      /\ \A g \in Handler \ {h} : job'[g] = job[g]
      /\ job'[h] = s
      /\ job' = [g \in Handler |-> job'[g]]
  BY DEF TypeOK, Step
<1>2. CASE NoChange
  BY <1>1, <1>2 DEF TypeOK, NoChange, Undisturbed, Touched
<1>3. ASSUME NEW new \in Jar, Change(new, h)
      PROVE  /\ TypeOK'
             /\ since'[h] = since[h]
             /\ \A g \in Handler \ {h} : Undisturbed(g)
  BY <1>1, <1>3, ChangeNoted DEF TypeOK, Undisturbed
<1> QED
  BY <1>1, <1>2, <1>3

\* The records of a save that changes the key.
LEMMA SaveKeys ==
  ASSUME NEW s, Started(s), s.job.kind = "save", KeyChanged(s)
  PROVE  /\ Len(s.job.records) = 1 /\ DOMAIN s.job.records = {1}
         /\ s.job.records[1] \in Record /\ s.job.previous \in Record
         /\ s.job.records[1].key \in Key /\ s.job.previous.key \in Key
         /\ s.job.records[1].key # s.job.previous.key
<1>1. s.job \in Input /\ s.job \in Job
  BY EditAssumption DEF Started, Shaped
<1>2. Len(s.job.records) = 1 /\ s.job.records \in Seq(Record)
  BY <1>1, EditAssumption DEF Job
<1>3. s.job.previous \in Record
  BY <1>1 DEF Job, KeyChanged
<1>4. s.job.records[1] \in Record /\ DOMAIN s.job.records = {1}
  BY <1>2
<1> QED
  BY <1>2, <1>3, <1>4 DEF KeyChanged, Record

\* What a handler knows of the cookies stays true while others work.
LEMMA KnowledgeStays ==
  ASSUME TypeOK, NEW h \in Handler, JobSound(h), Undisturbed(h)
  PROVE  JobSound(h)'
<1>1. CASE job[h] = Idle
  BY <1>1 DEF JobSound, ImportSound, DeletionSound, SaveSound, Doing, Undisturbed
<1>2. CASE job[h] # Idle
  <2>1. /\ job'[h] = job[h] /\ since'[h].cookies = since[h].cookies
        /\ Touched(h) \subseteq Touched(h)'
        /\ \A k \in Key \ Touched(h)' : jar'[k] = jar[k]
    BY <1>2 DEF Undisturbed
  <2>2. ImportSound(h)'
    BY <2>1 DEF JobSound, ImportSound, Doing, Current, AllMeet, Meets
  <2>3. DeletionSound(h)'
    BY <2>1 DEF JobSound, DeletionSound, Doing, Present, Alone
  <2>4. SaveSound(h)'
    <3>1. SUFFICES ASSUME Doing(h, "save"), KeyChanged(job[h])
                   PROVE  SaveSound(h)'
      BY <2>1 DEF SaveSound, Doing, KeyChanged
    <3>2. /\ job[h].job.records[1].key \in Key
          /\ job[h].job.previous.key \in Key
      BY <1>2, <3>1, SaveKeys DEF TypeOK, Doing
    <3> DEFINE previous == job[h].job.previous
    <3>3. CASE ~Unshared(h)'
      BY <2>1, <3>1, <3>3 DEF JobSound, SaveSound
    <3>4. CASE Unshared(h)'
      <4>1. /\ jar'[previous.key] = jar[previous.key]
            /\ jar'[job[h].job.records[1].key] = jar[job[h].job.records[1].key]
        BY <2>1, <3>2, <3>4 DEF Unshared
      <4>2. Unshared(h)
        BY <2>1, <3>4 DEF Unshared
      <4>3. /\ previous.key \in Present' <=> previous.key \in Present
            /\ Saved(h)' <=> Saved(h)
            /\ Done(h)' <=> Done(h)
        BY <2>1, <3>2, <4>1 DEF Present, Saved, Made, Done, Awaits
      <4>4. SaveSound(h)
        BY DEF JobSound
      <4> QED
        BY <2>1, <3>1, <4>1, <4>2, <4>3, <4>4 DEF SaveSound, Meets, Alone
    <3> QED
      BY <3>3, <3>4
  <2> QED
    BY <2>2, <2>3, <2>4 DEF JobSound
<1> QED
  BY <1>1, <1>2

-----------------------------------------------------------------------------
(* The steps. *)

\* A handler that goes on, and knows what it has to, keeps the invariant.
LEMMA HandlerStep ==
  ASSUME IInv, NEW h \in Handler, NEW s, Started(s), Step(h, s),
         NoChange \/ \E new \in Jar : Change(new, h),
         JobSound(h)'
  PROVE  IInv'
BY StepAlone, KnowledgeStays DEF IInv

\* Going on with the next cookie.
LEMMA NextCookieStep ==
  ASSUME IInv, NEW h \in Handler, job[h].pc \in Requests,
         NEW more \in {0, 1}, NextCookie(h, more),
         NoChange \/ \E new \in Jar : Change(new, h)
  PROVE  LET t == job'[h]
         IN /\ Started(t)
            /\ JobSound(h)' => IInv'
            /\ since'[h] = since[h]
            /\ t.job = job[h].job
            /\ t.n = job[h].n + 1 /\ t.failed = job[h].failed + more
            /\ t.pc = "audit" <=> t.n > Len(t.job.records)
            /\ t.pc = "audit" \/
                 /\ t.job.kind \in {"delete", "delete-selected"} => t.pc = "remove"
                 /\ t.job.kind = "import" /\ ~t.job.overwrite => t.pc \in {"refuse", "get"}
<1> DEFINE s == At(job[h], job[h].n + 1, job[h].failed + more)
<1>1. job[h] # Idle /\ Started(job[h])
  BY AtWork DEF IInv
<1>2. /\ Shaped(job[h]) /\ job[h].n + 1 \in Nat \ {0}
      /\ job[h].failed + more \in Nat
  BY <1>1 DEF Started, Shaped
<1>3. /\ Started(s)
      /\ s.job = job[h].job
      /\ s.n = job[h].n + 1 /\ s.failed = job[h].failed + more
      /\ s.pc = "audit" <=> s.n > Len(s.job.records)
      /\ s.pc = "audit" \/
           /\ s.job.kind \in {"delete", "delete-selected"} => s.pc = "remove"
           /\ s.job.kind = "import" /\ ~s.job.overwrite => s.pc \in {"refuse", "get"}
  BY <1>1, <1>2, AtProperties
<1>4. Step(h, s)
  BY DEF NextCookie
<1> HIDE DEF s
<1>5. job'[h] = s /\ since'[h] = since[h]
  BY <1>3, <1>4, StepAlone DEF IInv
<1>6. JobSound(h)' => IInv'
  BY <1>3, <1>4, HandlerStep
<1> QED
  BY <1>3, <1>5, <1>6

\* A handler that ends leaves the cookies alone.
LEMMA EndStep == ASSUME IInv, NEW h \in Handler, End(h) PROVE IInv'
<1>1. /\ job' = [job EXCEPT ![h] = Idle]
      /\ since' = [since EXCEPT ![h] = Unwatched]
      /\ jar' = jar
  BY DEF End
<1>2. Unwatched \in [cookies : Jar, touched : SUBSET Key]
  BY DEF Unwatched, Jar
<1>3. TypeOK'
  BY <1>1, <1>2 DEF IInv, TypeOK
<1>4. \A g \in Handler \ {h} : Undisturbed(g)
  BY <1>1 DEF IInv, TypeOK, Undisturbed, Touched
<1>5. job'[h] = Idle
  BY <1>1 DEF IInv, TypeOK
<1>6. JobSound(h)'
  BY <1>5 DEF JobSound, ImportSound, DeletionSound, SaveSound, Doing
<1> QED
  BY <1>3, <1>4, <1>6, KnowledgeStays DEF IInv

\* So does a popup that closes, for all handlers at once.
LEMMA CloseStep == ASSUME IInv, ClosePopup PROVE IInv'
<1>1. /\ job' = [h \in Handler |-> Idle]
      /\ since' = [h \in Handler |-> Unwatched]
      /\ jar' = jar
  BY DEF ClosePopup
<1>2. Unwatched \in [cookies : Jar, touched : SUBSET Key]
  BY DEF Unwatched, Jar
<1>3. TypeOK'
  BY <1>1, <1>2 DEF IInv, TypeOK
<1>4. \A h \in Handler : JobSound(h)'
  BY <1>1 DEF JobSound, ImportSound, DeletionSound, SaveSound, Doing
<1> QED
  BY <1>3, <1>4 DEF IInv

\* A page that changes a cookie has touched it.
LEMMA PageStep ==
  ASSUME IInv, NEW k \in Key, NEW c \in Cookie \cup {None}, PageChanges(k, c)
  PROVE  IInv'
<1> DEFINE new == [jar EXCEPT ![k] = c]
<1>1. Change(new, None) /\ job' = job
  BY DEF PageChanges
<1>2. new \in Jar
  BY DEF IInv, TypeOK, Jar
<1>3. \A h \in Handler : h # None
  BY EditAssumption
<1>4. /\ jar' \in Jar
      /\ since' \in [Handler -> [cookies : Jar, touched : SUBSET Key]]
      /\ \A h \in Handler : Undisturbed(h)
  BY <1>1, <1>2, <1>3, ChangeNoted DEF IInv, Undisturbed
<1>5. TypeOK'
  BY <1>1, <1>4 DEF IInv, TypeOK
<1> QED
  BY <1>4, <1>5, KnowledgeStays DEF IInv

\* What a handler starts with: nobody has touched anything yet.
LEMMA BeginStep ==
  ASSUME IInv, NEW h \in Handler, NEW input \in Input, Begin(h, input)
  PROVE  IInv'
<1> DEFINE start == [pc |-> "new", job |-> input, n |-> 1, failed |-> 0]
           notes == [cookies |-> jar, touched |-> {}]
<1>1. /\ job' = [job EXCEPT ![h] = At(start, 1, 0)]
      /\ since' = [since EXCEPT ![h] = notes]
      /\ jar' = jar
      /\ input.kind = "save" => input.records[1] \in InScope
  BY DEF Begin
<1>2. Shaped(start)
  BY DEF Shaped
<1> DEFINE s == At(start, 1, 0)
<1>4. start.job = input
  OBVIOUS
<1> HIDE DEF start
<1>5. /\ Started(s)
      /\ s.job = input /\ s.n = 1 /\ s.failed = 0
      /\ s.pc = "audit" <=> s.n > Len(s.job.records)
      /\ s.pc = "audit" \/
           /\ s.job.kind \in {"delete", "delete-selected"} => s.pc = "remove"
           /\ s.job.kind = "save" => s.pc = "set"
           /\ s.job.kind = "import" /\ ~s.job.overwrite => s.pc \in {"refuse", "get"}
  <2>1. 1 \in Nat \ {0} /\ 0 \in Nat
    OBVIOUS
  <2>2. /\ Started(s)
        /\ s.job = input /\ s.n = 1 /\ s.failed = 0
        /\ s.pc = "audit" <=> 1 > Len(input.records)
        /\ 1 > Len(input.records) \/
             /\ s.job.kind \in {"delete", "delete-selected"} => s.pc = "remove"
             /\ s.job.kind = "save" /\ s.job.records[1] \in InScope => s.pc = "set"
             /\ s.job.kind = "import" /\ ~s.job.overwrite => s.pc \in {"refuse", "get"}
    BY <1>2, <1>4, <2>1, AtProperties
  <2> HIDE DEF s
  <2> QED
    BY <1>1, <2>2
<1> HIDE DEF s
<1>6. /\ job'[h] = s /\ since'[h] = notes
      /\ since' \in [Handler -> [cookies : Jar, touched : SUBSET Key]]
      /\ TypeOK'
  BY <1>1, <1>5 DEF IInv, TypeOK, s
<1>7. \A g \in Handler \ {h} : Undisturbed(g)
  BY <1>1 DEF IInv, TypeOK, Undisturbed, Touched
<1>8. ImportSound(h)'
  BY <1>1, <1>5, <1>6 DEF ImportSound, Doing, Touched
<1>9. DeletionSound(h)'
  BY <1>5, <1>6 DEF DeletionSound, Doing
<1>10. SaveSound(h)'
  <2>1. SUFFICES ASSUME Doing(h, "save")', KeyChanged(job[h])' PROVE SaveSound(h)'
    BY DEF SaveSound
  <2>2. s.job.kind = "save" /\ KeyChanged(s)
    BY <1>6, <2>1 DEF Doing, KeyChanged
  <2>3. Len(s.job.records) = 1 /\ s.job.previous.key \in Key
    BY <1>5, <2>2, SaveKeys
  <2>4. s.pc = "set"
    BY <1>5, <2>2, <2>3
  <2> QED
    BY <1>1, <1>5, <1>6, <2>3, <2>4 DEF SaveSound, Unshared, Present, Done, Awaits
<1> QED
  BY <1>6, <1>7, <1>8, <1>9, <1>10, KnowledgeStays DEF IInv, JobSound

-----------------------------------------------------------------------------
(* The browser's answers. *)

\* Who goes on without a change of the cookies knows what it knew, if it was
\* not in the middle of a save.
LEMMA SkipStep ==
  ASSUME IInv, NEW h \in Handler, job[h].pc \in {"refuse", "get", "set", "remove"},
         NEW more \in {0, 1}, NextCookie(h, more), NoChange,
         job[h].job.kind = "delete-selected" => more = 1,
         SaveSound(h)'
  PROVE  IInv'
<1>1. job[h] # Idle /\ Started(job[h]) /\ job[h].pc \in Requests
  BY AtWork DEF IInv, Requests
<1> DEFINE t == job'[h]
<1>2. /\ Started(t) /\ (JobSound(h)' => IInv')
      /\ since'[h] = since[h]
      /\ t.job = job[h].job
      /\ t.n = job[h].n + 1 /\ t.failed = job[h].failed + more
      /\ t.pc = "audit" <=> t.n > Len(t.job.records)
      /\ t.pc = "audit" \/
           /\ t.job.kind \in {"delete", "delete-selected"} => t.pc = "remove"
           /\ t.job.kind = "import" /\ ~t.job.overwrite => t.pc \in {"refuse", "get"}
  BY <1>1, NextCookieStep
<1>3. jar' = jar
  BY DEF NoChange
<1>4. ImportSound(h)'
  BY <1>1, <1>2, <1>3 DEF IInv, JobSound, ImportSound, Doing, Touched, AllMeet
<1>5. DeletionSound(h)'
  <2>1. SUFFICES ASSUME Doing(h, "delete-selected")' PROVE DeletionSound(h)'
    BY DEF DeletionSound
  <2>2. Doing(h, "delete-selected") /\ more = 1
    BY <1>1, <1>2, <2>1 DEF Doing
  <2>3. job[h].failed \in Nat /\ t.failed = job[h].failed + 1
    BY <1>1, <1>2, <2>2 DEF Started, Shaped
  <2> QED
    BY <1>2, <2>1, <2>3 DEF DeletionSound, Doing
<1> QED
  BY <1>2, <1>4, <1>5 DEF JobSound

\* An import that finds a cookie leaves it, and so it does with a record that
\* is out of scope.
LEMMA FoundStep ==
  ASSUME IInv, NEW h \in Handler, NEW more \in {0, 1},
         job[h].pc \in {"refuse", "get"}, NextCookie(h, more), NoChange
  PROVE  IInv'
<1>1. job[h] # Idle /\ Started(job[h]) /\ job[h].pc \in Requests
  BY AtWork DEF IInv, Requests
<1>2. job[h].job.kind # "delete-selected"
  BY <1>1 DEF IInv, JobSound, DeletionSound, Doing
<1>3. job'[h].job = job[h].job
  BY <1>1, NextCookieStep
<1>4. SaveSound(h)'
  BY <1>1, <1>3 DEF IInv, JobSound, SaveSound, Doing, KeyChanged
<1> QED
  BY <1>2, <1>4, SkipStep

\* An import sets only what was not there.
LEMMA NotFoundStep == ASSUME IInv, NEW h \in Handler, NotFound(h) PROVE IInv'
<1> DEFINE s == [job[h] EXCEPT !.pc = "set"]
<1>1. job[h].pc = "get" /\ Met(Current(h)) = {} /\ Step(h, s) /\ NoChange
  BY DEF NotFound, Awaits
<1>2. job[h] # Idle /\ Started(job[h])
  BY <1>1, AtWork DEF IInv, Requests
<1>3. s = [pc |-> "set", job |-> job[h].job, n |-> job[h].n, failed |-> job[h].failed]
  BY <1>2 DEF Started, Shaped
<1>4. /\ Started(s) /\ s.pc = "set" /\ s.job = job[h].job /\ s.n = job[h].n
  BY <1>1, <1>2, <1>3 DEF Started, Shaped, Requests
<1> HIDE DEF s
<1>5. job'[h] = s /\ since'[h] = since[h] /\ jar' = jar
  BY <1>1, <1>4, StepAlone DEF IInv, NoChange
<1>6. \A k \in Key : jar[k] # None => ~Meets(Current(h), k, jar[k])
  BY <1>1 DEF Met, Present
<1>7. ImportSound(h)'
  <2>1. SUFFICES ASSUME Doing(h, "import"), ~job[h].job.overwrite PROVE ImportSound(h)'
    BY <1>2, <1>4, <1>5 DEF ImportSound, Doing
  <2>2. /\ job[h].n \in DOMAIN job[h].job.records
        /\ \A k \in Key \ Touched(h) :
             since[h].cookies[k] # None /\ AllMeet(h, k, since[h].cookies[k]) =>
               jar[k] = since[h].cookies[k]
    BY <1>1, <1>2, <2>1 DEF IInv, JobSound, ImportSound, Started
  <2>3. \A k, c : AllMeet(h, k, c) /\ k = Current(h).key => Meets(Current(h), k, c)
    BY <2>2 DEF AllMeet, Current
  <2>4. Current(h)' = Current(h) /\ \A k, c : AllMeet(h, k, c)' <=> AllMeet(h, k, c)
    BY <1>4, <1>5 DEF Current, AllMeet
  <2> QED
    BY <1>4, <1>5, <1>6, <2>2, <2>3, <2>4 DEF ImportSound, Touched
<1>8. DeletionSound(h)' /\ SaveSound(h)'
  BY <1>1, <1>2, <1>4, <1>5
     DEF IInv, JobSound, DeletionSound, SaveSound, Doing, KeyChanged
<1> QED
  BY <1>1, <1>4, <1>7, <1>8, HandlerStep DEF JobSound

\* A set that is rejected counts as a failure and changes nothing.
LEMMA RejectedStep == ASSUME IInv, NEW h \in Handler, Rejected(h) PROVE IInv'
<1>1. job[h].pc = "set" /\ NextCookie(h, 1) /\ NoChange
  BY DEF Rejected, Awaits
<1>2. job[h] # Idle /\ Started(job[h])
  BY <1>1, AtWork DEF IInv, Requests
<1> DEFINE t == job'[h]
<1>3. /\ t.job = job[h].job
      /\ t.n = job[h].n + 1 /\ t.failed = job[h].failed + 1
      /\ t.pc = "audit" <=> t.n > Len(t.job.records)
      /\ since'[h] = since[h] /\ jar' = jar
  BY <1>1, NextCookieStep DEF Requests, NoChange
<1>4. SaveSound(h)'
  <2>1. SUFFICES ASSUME Doing(h, "save"), KeyChanged(job[h]) PROVE SaveSound(h)'
    BY <1>2, <1>3 DEF SaveSound, Doing, KeyChanged
  <2>2. Len(job[h].job.records) = 1
    BY <1>2, <2>1, SaveKeys DEF Doing
  <2>3. job[h].n = 1 /\ job[h].failed = 0
    BY <1>1, <2>1 DEF IInv, JobSound, SaveSound
  <2>4. t.pc = "audit" /\ t.failed = 1
    BY <1>3, <2>2, <2>3
  <2> QED
    BY <1>1, <1>3, <2>1, <2>4
       DEF IInv, JobSound, SaveSound, Unshared, Saved, Made, Touched, Present, Done, Awaits
<1> QED
  BY <1>1, <1>4, SkipStep

\* The cookie is there.  A save that changes the key turns to the previous one.
LEMMA AcceptedStep == ASSUME IInv, NEW h \in Handler, Accepted(h) PROVE IInv'
<1> DEFINE made == [value |-> job[h].job.value, secure |-> Current(h).secure]
           new == [jar EXCEPT ![Current(h).key] = made]
           renaming == job[h].job.kind = "save" /\ KeyChanged(job[h])
           s == AfterSet(job[h])
<1>1. job[h].pc = "set" /\ Change(new, h) /\ Step(h, s)
  BY DEF Accepted, Awaits
<1>2. job[h] # Idle /\ Started(job[h]) /\ Shaped(job[h])
  BY <1>1, AtWork DEF IInv, Requests, Started
<1>3. new \in Jar /\ jar' = new
  <2>1. job[h].job.value \in Value /\ job[h].job.records \in Seq(Record)
    BY <1>2, EditAssumption DEF Shaped, Job
  <2>2. job[h].n \in DOMAIN job[h].job.records
    BY <1>1, <1>2 DEF Started
  <2>3. made \in Cookie
    <3>1. Current(h) \in Record
      BY <2>1, <2>2 DEF Current
    <3> QED
      BY <2>1, <3>1 DEF Record, Cookie
  <2> QED
    BY <1>1, <2>3 DEF Change, IInv, TypeOK, Jar
<1>4. job[h].job.kind # "delete-selected"
  BY <1>1, <1>2 DEF IInv, JobSound, DeletionSound, Doing
<1>5. /\ Started(s)
      /\ s.job = job[h].job
      /\ renaming => s.pc = "remove" /\ s.n = job[h].n /\ s.failed = job[h].failed
      /\ s.job.kind = "import" /\ ~s.job.overwrite =>
           s.pc \in {"refuse", "get", "audit"}
  <2>1. CASE renaming
    <3> DEFINE moved == [job[h] EXCEPT !.pc = "remove"]
    <3>1. moved = [pc |-> "remove", job |-> job[h].job,
                   n |-> job[h].n, failed |-> job[h].failed]
      BY <1>2 DEF Shaped
    <3>2. s = moved
      BY <2>1 DEF AfterSet
    <3> HIDE DEF s, moved
    <3> QED
      BY <1>1, <1>2, <2>1, <3>1, <3>2 DEF Started, Shaped, Requests
  <2>2. CASE ~renaming
    <3>1. s = At(job[h], job[h].n + 1, job[h].failed)
      BY <2>2 DEF AfterSet
    <3>2. job[h].n + 1 \in Nat \ {0} /\ job[h].failed \in Nat
      BY <1>2 DEF Shaped
    <3> HIDE DEF s
    <3> QED
      BY <1>2, <2>2, <3>1, <3>2, AtProperties
  <2> QED
    BY <2>1, <2>2
<1> HIDE DEF s
<1>6. job'[h] = s /\ since'[h] = since[h]
  BY <1>1, <1>3, <1>5, StepAlone DEF IInv
<1>7. ImportSound(h)'
  <2>1. SUFFICES ASSUME Doing(h, "import"), ~job[h].job.overwrite PROVE ImportSound(h)'
    BY <1>2, <1>5, <1>6 DEF ImportSound, Doing
  <2>2. \A k \in Key : k # Current(h).key => jar'[k] = jar[k]
    BY <1>3 DEF IInv, TypeOK, Jar
  <2>3. \A k \in Key \ Touched(h) :
          since[h].cookies[k] # None /\ AllMeet(h, k, since[h].cookies[k]) =>
            jar[k] = since[h].cookies[k] /\ k # Current(h).key
    BY <1>1, <2>1 DEF IInv, JobSound, ImportSound
  <2>4. s.pc \in {"refuse", "get", "audit"}
    BY <1>5, <2>1 DEF Doing
  <2>5. \A k, c : AllMeet(h, k, c)' <=> AllMeet(h, k, c)
    BY <1>5, <1>6 DEF AllMeet
  <2> HIDE DEF new
  <2> QED
    BY <1>6, <2>2, <2>3, <2>4, <2>5 DEF ImportSound, Touched
<1>8. DeletionSound(h)'
  BY <1>4, <1>5, <1>6 DEF DeletionSound, Doing
<1>9. SaveSound(h)'
  <2>1. SUFFICES ASSUME Doing(h, "save"), KeyChanged(job[h]) PROVE SaveSound(h)'
    BY <1>2, <1>5, <1>6 DEF SaveSound, Doing, KeyChanged
  <2> DEFINE key == job[h].job.records[1].key
             previous == job[h].job.previous.key
  <2>2. key \in Key /\ previous \in Key /\ key # previous
    BY <1>2, <2>1, SaveKeys DEF Doing
  <2>3. /\ job[h].n = 1 /\ job[h].failed = 0
        /\ Current(h).key = key /\ made = Made(h)
        /\ Unshared(h) => jar[previous] = since[h].cookies[previous]
    BY <1>1, <2>1 DEF IInv, JobSound, SaveSound, Current, Made
  <2>4. s.pc = "remove" /\ s.n = 1 /\ s.failed = 0
    BY <1>5, <2>1, <2>3 DEF Doing
  <2>5. jar'[key] = Made(h) /\ jar'[previous] = jar[previous]
    BY <1>3, <2>2, <2>3 DEF IInv, TypeOK, Jar
  <2>6. Saved(h)' /\ (Unshared(h)' <=> Unshared(h))
    BY <1>5, <1>6, <2>5 DEF Saved, Made, Unshared, Touched
  <2> QED
    BY <1>5, <1>6, <2>3, <2>4, <2>5, <2>6 DEF SaveSound, Done, Awaits
<1> QED
  BY <1>1, <1>3, <1>5, <1>7, <1>8, <1>9, HandlerStep DEF JobSound

\* What a removal takes.
LEMMA RemovedStep ==
  ASSUME IInv, NEW h \in Handler, NEW gone \in SUBSET Key, Removed(h, gone)
  PROVE  IInv'
<1> DEFINE new == [k \in Key |-> IF k \in gone THEN None ELSE jar[k]]
           t == job'[h]
<1>1. /\ job[h].pc = "remove" /\ Change(new, h) /\ NextCookie(h, 0)
      /\ gone \subseteq Met(Target(h)) /\ gone # {}
  BY DEF Removed, Awaits
<1>2. job[h] # Idle /\ Started(job[h]) /\ Shaped(job[h])
  BY <1>1, AtWork DEF IInv, Requests, Started
<1>3. new \in Jar /\ jar' = new
  BY <1>1 DEF Change, IInv, TypeOK, Jar
<1>4. /\ JobSound(h)' => IInv'
      /\ since'[h] = since[h]
      /\ t.job = job[h].job
      /\ t.n = job[h].n + 1 /\ t.failed = job[h].failed
      /\ t.pc = "audit" <=> t.n > Len(t.job.records)
      /\ t.job.kind \in {"delete", "delete-selected"} => t.pc \in {"remove", "audit"}
  <2>1. \E some \in Jar : Change(some, h)
    BY <1>1, <1>3
  <2>2. 0 \in {0, 1} /\ job[h].pc \in Requests /\ NextCookie(h, 0)
    BY <1>1 DEF Requests
  <2> HIDE DEF new
  <2>3. /\ Started(t) /\ (JobSound(h)' => IInv')
        /\ since'[h] = since[h]
        /\ t.job = job[h].job
        /\ t.n = job[h].n + 1
        /\ t.failed = job[h].failed + 0
        /\ t.pc = "audit" <=> t.n > Len(t.job.records)
        /\ t.job.kind \in {"delete", "delete-selected"} => t.pc \in {"remove", "audit"}
    BY <2>1, <2>2, NextCookieStep
  <2> QED
    BY <1>2, <2>3 DEF Shaped
<1>5. ImportSound(h)'
  BY <1>1, <1>2, <1>4 DEF IInv, JobSound, ImportSound, Doing
<1>6. DeletionSound(h)'
  <2>1. SUFFICES ASSUME Doing(h, "delete-selected") PROVE DeletionSound(h)'
    BY <1>2, <1>4 DEF DeletionSound, Doing
  <2>2. job[h].failed \in Nat /\ t.failed = job[h].failed /\ job[h].n \in Nat
    BY <1>2, <1>4 DEF Shaped
  <2>3. SUFFICES ASSUME t.failed = 0, NEW i \in DOMAIN t.job.records, i < t.n,
                        Alone(t.job.records[i]), t.job.records[i].key \notin Touched(h)
                 PROVE  t.job.records[i].key \notin Present'
    BY <1>4, <2>1, <2>2 DEF DeletionSound, Doing, Touched, Alone
  <2> DEFINE r == t.job.records[i]
  <2>4. job[h].job.records \in Seq(Record) /\ i \in Nat /\ r.key \in Key
    <3>1. job[h].job.records \in Seq(Record)
      BY <1>2, EditAssumption DEF Shaped, Job
    <3>2. i \in Nat /\ r \in Record
      BY <1>4, <2>3, <3>1
    <3> HIDE DEF r
    <3> QED
      BY <3>1, <3>2 DEF Record
  <2>5. CASE i < job[h].n
    <3>1. r.key \notin Present
      <4>1. /\ r = job[h].job.records[i] /\ i \in DOMAIN job[h].job.records
            /\ job[h].failed = 0 /\ Alone(r) /\ r.key \notin Touched(h)
        BY <1>4, <2>2, <2>3
      <4>2. DeletionSound(h)
        BY DEF IInv, JobSound
      <4> HIDE DEF r
      <4> QED
        BY <2>1, <2>5, <4>1, <4>2 DEF DeletionSound
    <3> QED
      BY <1>3, <2>4, <3>1 DEF Present
  <2>6. CASE i = job[h].n
    <3>1. Target(h) = r
      BY <1>4, <2>1, <2>6 DEF Target, Current, Doing
    <3>2. \A k \in Met(r) : k = r.key
      BY <2>3 DEF Met, Meets, Alone
    <3>3. gone = {r.key}
      BY <1>1, <3>1, <3>2
    <3> QED
      BY <1>3, <2>4, <3>3 DEF Present
  <2> QED
    BY <1>4, <2>2, <2>3, <2>4, <2>5, <2>6
<1>7. SaveSound(h)'
  <2>1. SUFFICES ASSUME Doing(h, "save"), KeyChanged(job[h]) PROVE SaveSound(h)'
    BY <1>2, <1>4 DEF SaveSound, Doing, KeyChanged
  <2> DEFINE key == job[h].job.records[1].key
             previous == job[h].job.previous
             was == since[h].cookies[previous.key]
  <2>2. /\ Len(job[h].job.records) = 1 /\ key \in Key /\ previous.key \in Key
        /\ job[h].job.records[1] \in Record
    BY <1>2, <2>1, SaveKeys DEF Doing
  <2>3. /\ job[h].n = 1 /\ job[h].failed = 0
        /\ Target(h) = previous
    BY <1>1, <2>1 DEF IInv, JobSound, SaveSound, Target, Doing
  <2>4. t.pc = "audit" /\ t.failed = 0 /\ t.n = 2
    BY <1>4, <2>1, <2>2, <2>3 DEF Doing
  <2>5. SUFFICES ASSUME Unshared(h)
                 PROVE  Saved(h)' /\ (Alone(previous) => previous.key \notin Present')
    BY <1>4, <2>4 DEF SaveSound, Unshared, Touched, Done, Awaits, Alone
  <2>6. Saved(h)
    BY <1>1, <2>1, <2>5 DEF IInv, JobSound, SaveSound
  <2>7. \A k \in gone : k \in Key /\ Meets(previous, k, jar[k])
    BY <1>1, <2>3 DEF Met
  <2>8. ~Meets(previous, key, Made(h))
    <3>1. [key |-> key, secure |-> Made(h).secure] = job[h].job.records[1]
      BY <2>2 DEF Made, Record
    <3> QED
      BY <2>5, <3>1 DEF Meets, Unshared
  <2>9. jar'[key] = jar[key]
    BY <1>3, <2>2, <2>6, <2>7, <2>8 DEF Saved
  <2>10. Alone(previous) => gone = {previous.key}
    BY <1>1, <2>7 DEF Alone, Meets
  <2> QED
    BY <1>3, <1>4, <2>2, <2>6, <2>9, <2>10 DEF Present, Saved, Made
<1> QED
  BY <1>4, <1>5, <1>6, <1>7 DEF JobSound

\* A removal that meets nothing leaves everything, and its key is gone already.
LEMMA NotRemovedStep == ASSUME IInv, NEW h \in Handler, NotRemoved(h) PROVE IInv'
<1> DEFINE more == IF job[h].job.kind = "save" THEN 0 ELSE 1
           t == job'[h]
<1>1. /\ job[h].pc = "remove" /\ NextCookie(h, more) /\ NoChange
      /\ Met(Target(h)) = {}
  BY DEF NotRemoved, Awaits
<1>2. job[h] # Idle /\ Started(job[h]) /\ Shaped(job[h])
  BY <1>1, AtWork DEF IInv, Requests, Started
<1>3. /\ more \in {0, 1}
      /\ job[h].job.kind = "delete-selected" => more = 1
      /\ job[h].job.kind = "save" => more = 0
  OBVIOUS
<1> HIDE DEF more
<1>4. /\ t.job = job[h].job
      /\ t.n = job[h].n + 1 /\ t.failed = job[h].failed + more
      /\ t.pc = "audit" <=> t.n > Len(t.job.records)
      /\ since'[h] = since[h] /\ jar' = jar
  BY <1>1, <1>3, NextCookieStep DEF Requests, NoChange
<1>5. SaveSound(h)'
  <2>1. SUFFICES ASSUME Doing(h, "save"), KeyChanged(job[h]) PROVE SaveSound(h)'
    BY <1>2, <1>4 DEF SaveSound, Doing, KeyChanged
  <2> DEFINE previous == job[h].job.previous
             was == since[h].cookies[previous.key]
  <2>2. Len(job[h].job.records) = 1 /\ previous.key \in Key
    BY <1>2, <2>1, SaveKeys DEF Doing
  <2>3. /\ job[h].n = 1 /\ job[h].failed = 0
        /\ Target(h) = previous
    BY <1>1, <2>1 DEF IInv, JobSound, SaveSound, Target, Doing
  <2>4. t.pc = "audit" /\ t.failed = 0 /\ t.n = 2
    BY <1>3, <1>4, <2>1, <2>2, <2>3 DEF Doing
  <2>5. SUFFICES ASSUME Unshared(h)
                 PROVE  Saved(h)' /\ ~Meets(previous, previous.key, was)
    BY <1>4, <2>4 DEF SaveSound, Unshared, Touched, Done, Awaits, Meets
  <2>6. Saved(h) /\ jar[previous.key] = was /\ was # None
    BY <1>1, <2>1, <2>5 DEF IInv, JobSound, SaveSound, Unshared
  <2> QED
    BY <1>1, <1>4, <2>2, <2>3, <2>6 DEF Met, Present, Saved, Made
<1> QED
  BY <1>1, <1>3, <1>5, SkipStep

\* A request that throws ends an edit, and is a failure of a loop.
LEMMA ThrowsStep == ASSUME IInv, NEW h \in Handler, Throws(h) PROVE IInv'
<1>1. CASE End(h)
  BY <1>1, EndStep
<1>2. CASE /\ job[h].job.kind \in {"import", "delete-selected"}
           /\ NextCookie(h, 1) /\ NoChange
  <2>1. job[h].pc \in {"refuse", "get", "set", "remove"} /\ job[h].pc \in Requests
    BY DEF Throws, Requests
  <2>2. job'[h].job = job[h].job
    BY <1>2, <2>1, NextCookieStep
  <2>3. SaveSound(h)'
    BY <1>2, <2>2 DEF SaveSound, Doing
  <2> QED
    BY <1>2, <2>1, <2>3, SkipStep
<1> QED
  BY <1>1, <1>2 DEF Throws

\* The invariant holds at the start, is kept by every step, and so always holds.
LEMMA InitSound == Init => IInv
BY DEF Init, IInv, TypeOK, Jar, Unwatched, JobSound, ImportSound, DeletionSound,
       SaveSound, Doing

LEMMA StepSound == IInv /\ [Next]_vars => IInv'
<1> SUFFICES ASSUME IInv, [Next]_vars PROVE IInv'
  OBVIOUS
<1>1. CASE UNCHANGED vars
  <2>1. TypeOK' /\ \A h \in Handler : Undisturbed(h)
    BY <1>1 DEF vars, IInv, TypeOK, Undisturbed, Touched
  <2> QED
    BY <2>1, KnowledgeStays DEF IInv
<1>2. ASSUME NEW h \in Handler, NEW input \in Input, Begin(h, input) PROVE IInv'
  BY <1>2, BeginStep
<1>3. ASSUME NEW h \in Handler, Found(h) \/ OutOfScope(h) PROVE IInv'
  BY <1>3, FoundStep DEF Found, OutOfScope, Awaits
<1>4. ASSUME NEW h \in Handler, NotFound(h) PROVE IInv'
  BY <1>4, NotFoundStep
<1>5. ASSUME NEW h \in Handler, Accepted(h) PROVE IInv'
  BY <1>5, AcceptedStep
<1>6. ASSUME NEW h \in Handler, Rejected(h) PROVE IInv'
  BY <1>6, RejectedStep
<1>7. ASSUME NEW h \in Handler, NEW gone \in SUBSET Key, Removed(h, gone) PROVE IInv'
  BY <1>7, RemovedStep
<1>8. ASSUME NEW h \in Handler, NotRemoved(h) PROVE IInv'
  BY <1>8, NotRemovedStep
<1>9. ASSUME NEW h \in Handler, Throws(h) PROVE IInv'
  BY <1>9, ThrowsStep
<1>10. ASSUME NEW h \in Handler, Audited(h) PROVE IInv'
  BY <1>10, EndStep DEF Audited
<1>11. CASE ClosePopup
  BY <1>11, CloseStep
<1>12. ASSUME NEW k \in Key, NEW c \in Cookie \cup {None}, PageChanges(k, c)
       PROVE  IInv'
  BY <1>12, PageStep
<1> QED
  BY <1>1, <1>2, <1>3, <1>4, <1>5, <1>6, <1>7, <1>8, <1>9, <1>10, <1>11, <1>12 DEF Next

LEMMA Inductive == Spec => []IInv
BY InitSound, StepSound, PTL DEF Spec

-----------------------------------------------------------------------------
(* The properties. *)

\* An edit that renames or moves a cookie never loses it, whichever request
\* fails and whoever else works on other cookies meanwhile, and one that ends
\* without a failure has put the new cookie in the place of the previous one,
\* if the URL of the record still meets that one.  What a URL meets is left
\* open: Reach is any function.
THEOREM EditsLoseNothing == Spec => []EditLosesNothing
<1>1. IInv => EditLosesNothing
  BY DEF IInv, JobSound, SaveSound, EditLosesNothing, Unshared, Saved
<1> QED
  BY <1>1, Inductive, PTL

\* An import that is not to overwrite leaves every cookie that nobody else has
\* touched as it found it when it started, if the URLs of its records meet it.
THEOREM ImportsKeep == Spec => []ImportKeeps
<1>1. IInv => ImportKeeps
  BY DEF IInv, JobSound, ImportSound, ImportKeeps, AllMeet
<1> QED
  BY <1>1, Inductive, PTL

\* When a bulk deletion reports no failure, every cookie it was to delete is
\* gone, unless somebody else touched it or its URL meets another cookie.
THEOREM DeletedWithoutFailure == Spec => []NoFailureMeansGone
<1>1. IInv => NoFailureMeansGone
  <2>1. SUFFICES ASSUME IInv, NEW h \in Handler, Doing(h, "delete-selected"), Done(h),
                        NEW i \in DOMAIN job[h].job.records,
                        Alone(job[h].job.records[i]),
                        job[h].job.records[i].key \notin Touched(h)
                 PROVE  job[h].job.records[i].key \notin Present
    BY DEF NoFailureMeansGone
  <2>2. job[h].n > Len(job[h].job.records) /\ job[h].failed = 0
    BY <2>1 DEF IInv, JobSound, DeletionSound, Done, Awaits
  <2>3. job[h].job.records \in Seq(Record) /\ job[h].n \in Nat
    BY <2>1, EditAssumption DEF IInv, TypeOK, Started, Shaped, Job, Doing
  <2>4. i < job[h].n
    BY <2>2, <2>3
  <2> QED
    BY <2>1, <2>2, <2>4 DEF IInv, JobSound, DeletionSound
<1> QED
  BY <1>1, Inductive, PTL

-----------------------------------------------------------------------------
(***************************************************************************)
(* ExtensionPages.                                                         *)
(***************************************************************************)

-----------------------------------------------------------------------------
(* The settings. *)

Form == [boxes : [Setting -> BOOLEAN], touched : SUBSET Setting, read : Nat]

Settings == UNION {[some -> BOOLEAN] : some \in SUBSET Setting}

PendingWrite == [record : Settings, chosen : SUBSET Setting, read : Nat,
          then : {"keep", "render", "gone"}]

SettingsTyped ==
  /\ stored \in Settings
  /\ version \in Nat
  /\ form \in [Page -> Form \cup {Closed}]
  /\ writing \in [Page -> PendingWrite \cup {Nothing, Rendering}]

Writes(p) == writing[p] \notin {Nothing, Rendering}

\* A form that was filled from what is stored shows it, but for the boxes that
\* were touched.
FormShowsStored(p) ==
  form[p] # Closed =>
    /\ form[p].read <= version
    /\ form[p].read = version =>
         \A s \in Setting \ form[p].touched : form[p].boxes[s] = Meant(stored, s)

\* A write from such a form means what is stored, but for what was chosen; and
\* a form that waits for its write shows what it wrote, but for the boxes that
\* were touched since.
WriteMeansStored(p) ==
  Writes(p) =>
    /\ writing[p].read <= version
    /\ writing[p].read = version =>
         \A s \in Setting \ writing[p].chosen :
           Meant(writing[p].record, s) = Meant(stored, s)
    /\ writing[p].then = "keep" =>
         /\ form[p] \in Form
         /\ \A s \in Setting \ form[p].touched :
              form[p].boxes[s] = Meant(writing[p].record, s)

SettingsSound ==
  SettingsTyped /\ \A p \in Page : FormShowsStored(p) /\ WriteMeansStored(p)

\* sanitizeSettings completes a record and means what the record means.
LEMMA Sanitized ==
  ASSUME NEW input \in Settings
  PROVE  /\ sanitizeSettings(input) \in [Setting -> BOOLEAN]
         /\ sanitizeSettings(input) \in Settings
         /\ \A s \in Setting : sanitizeSettings(input)[s] = Meant(input, s)
         /\ \A s \in Setting : Meant(sanitizeSettings(input), s) = Meant(input, s)
<1>1. sanitizeSettings(input) \in [Setting -> BOOLEAN]
  BY PagesAssumption DEF sanitizeSettings, Settings
<1> QED
  BY <1>1 DEF sanitizeSettings, Settings, Meant

\* What a form or an empty storage area holds is a record of settings.
LEMMA BoxesAreSettings ==
  ASSUME NEW boxes \in [Setting -> BOOLEAN]
  PROVE  boxes \in Settings /\ \A s \in Setting : Meant(boxes, s) = boxes[s]
BY DEF Settings, Meant

LEMMA NothingIsSettings == <<>> \in Settings
<1>1. <<>> \in [{} -> BOOLEAN]
  OBVIOUS
<1> QED
  BY <1>1 DEF Settings

\* Filling a form.
LEMMA FilledShowsStored ==
  ASSUME SettingsTyped
  PROVE  /\ Filled \in Form /\ Filled.read = version
         /\ \A s \in Setting : Filled.boxes[s] = Meant(stored, s)
BY Sanitized DEF SettingsTyped, Filled, Form

\* Opening a page, rendering and clicking in it, and starting and ending a write.
LEMMA OpenStep ==
  ASSUME SettingsSound, NEW p \in Page, OpenPage(p) PROVE SettingsSound'
<1>1. Filled \in Form /\ Filled.read = version
      /\ \A s \in Setting : Filled.boxes[s] = Meant(stored, s)
  BY FilledShowsStored DEF SettingsSound
<1>2. /\ form' = [form EXCEPT ![p] = Filled]
      /\ stored' = stored /\ version' = version
  BY DEF OpenPage
<1>3. /\ form' \in [Page -> Form \cup {Closed}]
      /\ form'[p] = Filled /\ \A q \in Page \ {p} : form'[q] = form[q]
  BY <1>1, <1>2 DEF SettingsSound, SettingsTyped
<1>4. /\ \A q \in Page \ {p} : writing'[q] = writing[q]
      /\ ~Writes(p) => writing'[p] = Nothing
      /\ Writes(p) => writing'[p] = [writing[p] EXCEPT !.then = "gone"]
      /\ DOMAIN writing' = Page /\ writing' = [q \in Page |-> writing'[q]]
  BY DEF OpenPage, SettingsSound, SettingsTyped, Writes
<1>5. Writes(p) => writing[p] \in PendingWrite
  BY DEF SettingsSound, SettingsTyped, Writes
<1>6. Writes(p) => /\ writing'[p] \in PendingWrite
                   /\ writing'[p].record = writing[p].record
                   /\ writing'[p].chosen = writing[p].chosen
                   /\ writing'[p].read = writing[p].read
                   /\ writing'[p].then = "gone"
  <2> DEFINE w == writing[p]
  <2>1. SUFFICES ASSUME w \in PendingWrite
                 PROVE  LET v == [w EXCEPT !.then = "gone"]
                        IN /\ v \in PendingWrite
                           /\ v.record = w.record /\ v.chosen = w.chosen
                           /\ v.read = w.read /\ v.then = "gone"
    BY <1>4, <1>5
  <2> HIDE DEF w
  <2> QED
    BY <2>1 DEF PendingWrite
<1>7. writing' \in [Page -> PendingWrite \cup {Nothing, Rendering}]
  BY <1>4, <1>6 DEF SettingsSound, SettingsTyped
<1>8. FormShowsStored(p)'
  BY <1>1, <1>2, <1>3 DEF FormShowsStored, Meant, SettingsSound, SettingsTyped
<1>9. WriteMeansStored(p)'
  BY <1>2, <1>4, <1>6 DEF WriteMeansStored, Meant, Writes, SettingsSound
<1>10. \A q \in Page \ {p} : FormShowsStored(q)' /\ WriteMeansStored(q)'
  BY <1>2, <1>3, <1>4 DEF FormShowsStored, WriteMeansStored, Meant, Writes, SettingsSound
<1> QED
  BY <1>2, <1>3, <1>7, <1>8, <1>9, <1>10 DEF SettingsSound, SettingsTyped

LEMMA RenderStep ==
  ASSUME SettingsSound, NEW p \in Page, Render(p) PROVE SettingsSound'
<1>1. Filled \in Form /\ Filled.read = version
      /\ \A s \in Setting : Filled.boxes[s] = Meant(stored, s)
  BY FilledShowsStored DEF SettingsSound
<1>2. /\ form' = [form EXCEPT ![p] = Filled]
      /\ writing' = [writing EXCEPT ![p] = Nothing]
      /\ stored' = stored /\ version' = version
  BY DEF Render
<1>3. /\ SettingsTyped'
      /\ form'[p] = Filled /\ \A q \in Page \ {p} : form'[q] = form[q]
      /\ writing'[p] = Nothing /\ \A q \in Page \ {p} : writing'[q] = writing[q]
  BY <1>1, <1>2 DEF SettingsSound, SettingsTyped
<1>4. FormShowsStored(p)'
  BY <1>1, <1>2, <1>3 DEF FormShowsStored, Meant, SettingsSound, SettingsTyped
<1>5. WriteMeansStored(p)'
  BY <1>3 DEF WriteMeansStored, Writes
<1>6. \A q \in Page \ {p} : FormShowsStored(q)' /\ WriteMeansStored(q)'
  BY <1>2, <1>3 DEF FormShowsStored, WriteMeansStored, Meant, Writes, SettingsSound
<1> QED
  BY <1>3, <1>4, <1>5, <1>6 DEF SettingsSound

LEMMA ToggleStep ==
  ASSUME SettingsSound, NEW p \in Page, NEW s \in Setting, Toggle(p, s)
  PROVE  SettingsSound'
<1>1. /\ form[p] # Closed
      /\ form' = [form EXCEPT ![p].boxes[s] = ~@, ![p].touched = @ \cup {s}]
  BY DEF Toggle
<1>0. stored' = stored /\ version' = version /\ writing' = writing
  BY DEF Toggle
<1>2. form[p] \in Form
  BY <1>1 DEF SettingsSound, SettingsTyped
<1> DEFINE f == form[p]
           after == [boxes |-> [f.boxes EXCEPT ![s] = ~@],
                     touched |-> f.touched \cup {s}, read |-> f.read]
<1>3. form'[p] = after /\ \A q \in Page \ {p} : form'[q] = form[q]
  BY <1>1, <1>2 DEF Form, SettingsSound, SettingsTyped
<1>4. /\ after \in Form
      /\ after.read = f.read /\ after.touched = f.touched \cup {s}
      /\ \A other \in Setting \ {s} : after.boxes[other] = f.boxes[other]
  BY <1>2 DEF Form
<1> HIDE DEF after
<1>5. form' \in [Page -> Form \cup {Closed}]
  BY <1>1, <1>3, <1>4 DEF SettingsSound, SettingsTyped
<1>6. form[p] # Closed /\ form'[p] = after
  BY <1>1, <1>3
<1> HIDE DEF f
<1>7. FormShowsStored(p)'
  <2>1. FormShowsStored(p)
    BY DEF SettingsSound
  <2> QED
    BY <1>0, <1>4, <1>6, <2>1 DEF FormShowsStored, Meant, f
<1>8. WriteMeansStored(p)'
  <2>1. WriteMeansStored(p)
    BY DEF SettingsSound
  <2> QED
    BY <1>0, <1>4, <1>6, <2>1 DEF WriteMeansStored, Meant, Writes, f
<1>9. \A q \in Page \ {p} : FormShowsStored(q)' /\ WriteMeansStored(q)'
  <2>1. \A q \in Page \ {p} : FormShowsStored(q) /\ WriteMeansStored(q)
    BY DEF SettingsSound
  <2> QED
    BY <1>0, <1>3, <2>1 DEF FormShowsStored, WriteMeansStored, Meant, Writes
<1> QED
  BY <1>0, <1>5, <1>7, <1>8, <1>9 DEF SettingsSound, SettingsTyped


LEMMA StartStep ==
  ASSUME SettingsSound, NEW p \in Page, NEW record \in Settings,
         NEW chosen \in SUBSET Setting, NEW then \in {"keep", "render"},
         Start(p, record, chosen, then),
         form[p].read = version =>
           \A s \in Setting \ chosen : Meant(record, s) = Meant(stored, s),
         then = "keep" =>
           \A s \in Setting \ form[p].touched : form[p].boxes[s] = Meant(record, s)
  PROVE  SettingsSound'
<1> DEFINE w == [record |-> record, chosen |-> chosen, read |-> form[p].read,
                 then |-> then]
<1>1. form[p] # Closed /\ form[p] \in Form
  BY DEF Start, SettingsSound, SettingsTyped
<1>2. stored' = stored /\ version' = version /\ form' = form
  BY DEF Start
<1>3. /\ writing' = [writing EXCEPT ![p] = w]
      /\ writing'[p] = w /\ \A q \in Page \ {p} : writing'[q] = writing[q]
  BY DEF Start, SettingsSound, SettingsTyped
<1>4. w \in PendingWrite
  BY <1>1 DEF PendingWrite, Form
<1>5. writing' \in [Page -> PendingWrite \cup {Nothing, Rendering}]
  BY <1>3, <1>4 DEF SettingsSound, SettingsTyped
<1>6. w.record = record /\ w.chosen = chosen /\ w.read = form[p].read /\ w.then = then
  OBVIOUS
<1> HIDE DEF w
<1>7. form[p].read <= version
  BY <1>1 DEF SettingsSound, FormShowsStored
<1>8. WriteMeansStored(p)'
  BY <1>1, <1>2, <1>3, <1>6, <1>7 DEF WriteMeansStored, Meant, Writes
<1>9. \A q \in Page : FormShowsStored(q)'
  BY <1>2 DEF SettingsSound, FormShowsStored, Meant
<1>10. \A q \in Page \ {p} : WriteMeansStored(q)'
  BY <1>2, <1>3 DEF SettingsSound, WriteMeansStored, Meant, Writes
<1> QED
  BY <1>2, <1>5, <1>8, <1>9, <1>10 DEF SettingsSound, SettingsTyped

LEMMA SaveStep ==
  ASSUME SettingsSound, NEW p \in Page, Save(p) PROVE SettingsSound'
<1> DEFINE record == sanitizeSettings(form[p].boxes)
<1>1. form[p] # Closed /\ form[p] \in Form
  BY DEF Save, Start, SettingsSound, SettingsTyped
<1>2. form[p].boxes \in [Setting -> BOOLEAN] /\ form[p].touched \in SUBSET Setting
  BY <1>1 DEF Form
<1>3. record \in Settings
      /\ \A s \in Setting : Meant(record, s) = form[p].boxes[s]
  BY <1>2, BoxesAreSettings, Sanitized
<1>4. form[p].read = version =>
        \A s \in Setting \ form[p].touched : form[p].boxes[s] = Meant(stored, s)
  BY <1>1 DEF SettingsSound, FormShowsStored
<1>5. Start(p, record, form[p].touched, "keep")
  BY DEF Save
<1> HIDE DEF record
<1> QED
  BY <1>2, <1>3, <1>4, <1>5, StartStep

\* A reset and a clearing choose everything.
LEMMA ResetStep == ASSUME SettingsSound, Reset \/ Clear PROVE SettingsSound'
<1> DEFINE record == sanitizeSettings(DEFAULT_SETTINGS)
<1>1. DEFAULT_SETTINGS \in Settings
  BY PagesAssumption, BoxesAreSettings
<1>2. record \in Settings /\ <<>> \in Settings
  BY <1>1, Sanitized, NothingIsSettings
<1>3. "options" \in Page
  BY DEF Page
<1> HIDE DEF record
<1>4. CASE Reset
  BY <1>2, <1>3, <1>4, StartStep DEF Reset, record
<1>5. CASE Clear
  BY <1>2, <1>3, <1>5, StartStep DEF Clear
<1> QED
  BY <1>4, <1>5

\* After a write no form is up to date but the one that waited for it.
LEMMA LandStep ==
  ASSUME SettingsSound, NEW p \in Page, Land(p) PROVE SettingsSound'
<1> DEFINE w == writing[p]
<1>1. /\ Writes(p) /\ w \in PendingWrite
      /\ w.record \in Settings /\ version \in Nat
      /\ WriteMeansStored(p) /\ FormShowsStored(p)
  BY DEF Land, Writes, SettingsSound, SettingsTyped, PendingWrite
<1>2. stored' = w.record /\ version' = version + 1
  BY DEF Land
<1>3. /\ writing' = [writing EXCEPT ![p] = IF w.then = "render" THEN Rendering ELSE Nothing]
      /\ form' = IF w.then = "keep" THEN [form EXCEPT ![p].read = version + 1] ELSE form
  BY DEF Land
<1>4. /\ writing' \in [Page -> PendingWrite \cup {Nothing, Rendering}]
      /\ ~Writes(p)'
      /\ \A q \in Page \ {p} : writing'[q] = writing[q]
  BY <1>3 DEF SettingsSound, SettingsTyped, Writes
<1>5. CASE w.then = "keep"
  <2> DEFINE f == form[p]
             after == [f EXCEPT !.read = version + 1]
  <2>1. /\ f \in Form
        /\ \A s \in Setting \ f.touched : f.boxes[s] = Meant(w.record, s)
    BY <1>1, <1>5 DEF WriteMeansStored
  <2>2. form' = [form EXCEPT ![p] = after]
    BY <1>3, <1>5 DEF SettingsSound, SettingsTyped
  <2> HIDE DEF f
  <2>3. /\ after \in Form /\ after.read = version + 1
        /\ after.boxes = f.boxes /\ after.touched = f.touched
    BY <1>1, <2>1 DEF Form
  <2> HIDE DEF after
  <2>4. /\ form' \in [Page -> Form \cup {Closed}]
        /\ form'[p] = after /\ \A q \in Page \ {p} : form'[q] = form[q]
    BY <2>2, <2>3 DEF SettingsSound, SettingsTyped
  <2>5. FormShowsStored(p)'
    BY <1>2, <2>1, <2>3, <2>4 DEF FormShowsStored, Meant
  <2> QED
    BY <1>1, <1>2, <1>4, <2>4, <2>5
       DEF SettingsSound, SettingsTyped, FormShowsStored, WriteMeansStored, Writes,
           Form, PendingWrite
<1>6. CASE w.then # "keep"
  <2>1. form' = form
    BY <1>3, <1>6
  <2>2. \A q \in Page : FormShowsStored(q)'
    BY <1>1, <1>2, <2>1 DEF SettingsSound, SettingsTyped, FormShowsStored, Form
  <2>3. \A q \in Page : WriteMeansStored(q)'
    BY <1>1, <1>2, <1>4, <2>1
       DEF SettingsSound, SettingsTyped, WriteMeansStored, Writes, PendingWrite
  <2> QED
    BY <1>1, <1>2, <1>4, <2>1, <2>2, <2>3 DEF SettingsSound, SettingsTyped
<1> QED
  BY <1>5, <1>6

\* The invariant of the settings holds at the start and is kept.
LEMMA SettingsStart == SettingsInit => SettingsSound
BY DEF SettingsInit, SettingsSound, SettingsTyped, Settings, FormShowsStored,
       WriteMeansStored, Writes

LEMMA SettingsStep == SettingsSound /\ [SettingsNext]_setting_vars => SettingsSound'
<1>1. CASE UNCHANGED setting_vars
  BY <1>1 DEF setting_vars, SettingsSound, SettingsTyped, FormShowsStored,
              WriteMeansStored, Writes, Meant
<1>2. ASSUME SettingsSound, SettingsNext PROVE SettingsSound'
  <2>1. CASE Reset \/ Clear
    BY <1>2, <2>1, ResetStep
  <2>2. ASSUME NEW p \in Page, OpenPage(p) PROVE SettingsSound'
    BY <1>2, <2>2, OpenStep
  <2>3. ASSUME NEW p \in Page, Save(p) PROVE SettingsSound'
    BY <1>2, <2>3, SaveStep
  <2>4. ASSUME NEW p \in Page, Land(p) PROVE SettingsSound'
    BY <1>2, <2>4, LandStep
  <2>5. ASSUME NEW p \in Page, Render(p) PROVE SettingsSound'
    BY <1>2, <2>5, RenderStep
  <2>6. ASSUME NEW p \in Page, NEW s \in Setting, Toggle(p, s) PROVE SettingsSound'
    BY <1>2, <2>6, ToggleStep
  <2> QED
    BY <1>2, <2>1, <2>2, <2>3, <2>4, <2>5, <2>6 DEF SettingsNext
<1> QED
  BY <1>1, <1>2

\* A page changes a setting that its user did not choose there only when
\* somebody else wrote the settings after its form was filled: for all sets of
\* settings and all defaults.
THEOREM ChoicesSurviveFreshForms ==
  SettingsInit /\ [][SettingsNext]_setting_vars => LostChoiceNeedsStaleForm
<1>1. SettingsSound /\ [SettingsNext]_setting_vars =>
        [\A p \in Page, s \in Setting :
           writing[p] \notin {Nothing, Rendering} /\ Land(p)
             /\ Meant(stored', s) # Meant(stored, s)
           => s \in writing[p].chosen \/ writing[p].read # version]_setting_vars
  <2> SUFFICES ASSUME SettingsSound, NEW p \in Page, NEW s \in Setting,
                      writing[p] \notin {Nothing, Rendering}, Land(p),
                      Meant(stored', s) # Meant(stored, s)
               PROVE  s \in writing[p].chosen \/ writing[p].read # version
    OBVIOUS
  <2>1. WriteMeansStored(p) /\ Writes(p)
    BY DEF SettingsSound, Writes
  <2>2. stored' = writing[p].record
    BY DEF Land
  <2> QED
    BY <2>1, <2>2 DEF WriteMeansStored
<1> QED
  BY <1>1, SettingsStart, SettingsStep, PTL DEF LostChoiceNeedsStaleForm

-----------------------------------------------------------------------------
(* The badge. *)

Places == {"query", "get", "count", "text", "title", "catch", "done"}

Updates == [at : Places, tab : Tab, site : Site \cup {Unsupported}, count : Nat]

Title == {Unsupported, Nothing} \cup {<<count>> : count \in Nat}

\* (Nothing need be known of the windows behind.)
BadgeTyped ==
  /\ shown \in [Tab -> Site \cup {Unsupported}]
  /\ active \in Tab
  /\ loading \subseteq Tab /\ doubtful \subseteq Tab
  /\ cookies \in [Site -> Nat]
  /\ badge \in [Tab -> [text : Nat, title : Title]]
  /\ updates \in Seq(Updates)
  /\ failures \in Nat

Tells(t) == IF shown[t] = Unsupported THEN 0 ELSE cookies[shown[t]]

\* An update counts nothing before it knows its page, and counts cookies of
\* some site.  Nothing is caught before it fails.
UpdatesSound ==
  \A u \in DOMAIN updates :
    /\ updates[u].at = "get" => updates[u].count = 0
    /\ updates[u].at = "count" => updates[u].site # Unsupported /\ updates[u].count = 0
    /\ updates[u].at = "catch" => failures > 0

\* Of a tab that is not noted one update runs at most.
AloneUnlessNoted ==
  \A t \in Tab \ doubtful : \A u, w \in Running(t) : u = w

\* While nothing announces a change of the active tab, what its update knows
\* already is true, and without an update the badge is.
Announced == active \in loading \/ \E u \in DOMAIN updates : updates[u].at = "query"

KnowledgeTrue ==
  failures = 0 /\ active \notin doubtful /\ ~Announced =>
    /\ \A u \in Running(active) :
         /\ updates[u].at # "get" => updates[u].site = shown[active]
         /\ updates[u].at \in {"text", "title"} => updates[u].count = Tells(active)
         /\ updates[u].at = "title" => badge[active].text = Tells(active)
    /\ Running(active) = {} =>
         badge[active] = [text |-> Tells(active),
                          title |-> Titled(shown[active], Tells(active))]

BadgeSound == BadgeTyped /\ UpdatesSound /\ AloneUnlessNoted /\ KnowledgeTrue

\* An update that goes on.
LEMMA GoesProperties ==
  ASSUME BadgeTyped, NEW u \in DOMAIN updates, NEW next \in Updates, Goes(u, next)
  PROVE  /\ updates' \in Seq(Updates) /\ DOMAIN updates' = DOMAIN updates
         /\ updates'[u] = next
         /\ \A w \in DOMAIN updates \ {u} : updates'[w] = updates[w]
BY DEF BadgeTyped, Goes

\* An update that starts.
LEMMA LaunchProperties ==
  ASSUME BadgeTyped, NEW at \in {"query", "get"}, NEW t \in Tab, Launch(at, t)
  PROVE  /\ updates' \in Seq(Updates)
         /\ \E new \in DOMAIN updates' :
              /\ new \notin DOMAIN updates
              /\ DOMAIN updates' = DOMAIN updates \cup {new}
              /\ updates'[new] = Update(at, t)
         /\ \A w \in DOMAIN updates : updates'[w] = updates[w]
<1> DEFINE n == Len(updates)
           new == n + 1
<1>1. updates \in Seq(Updates) /\ n \in Nat /\ DOMAIN updates = 1..n
  BY DEF BadgeTyped
<1>2. Cardinality(DOMAIN updates) = n
  <2>1. Cardinality(1..n) = IF 1 > n THEN 0 ELSE n - 1 + 1
    BY <1>1, FS_Interval
  <2> QED
    BY <1>1, <2>1
<1>3. Update(at, t) \in Updates
  BY DEF Update, Updates, Places
<1>4. updates' = [u \in 1..new |-> IF u \in 1..n THEN updates[u] ELSE Update(at, t)]
  BY <1>1, <1>2 DEF Launch
<1> HIDE DEF n
<1>5. updates' \in [1..new -> Updates]
  <2>1. \A u \in 1..n : updates[u] \in Updates
    BY <1>1
  <2> QED
    BY <1>3, <1>4, <2>1
<1>6. updates' \in Seq(Updates)
  BY <1>1, <1>5
<1>7. /\ DOMAIN updates' = 1..new
      /\ 1..new = 1..n \cup {new} /\ new \notin 1..n
  BY <1>1, <1>4
<1>8. updates'[new] = Update(at, t) /\ \A w \in 1..n : updates'[w] = updates[w]
  BY <1>1, <1>4, <1>7
<1> QED
  BY <1>1, <1>6, <1>7, <1>8

\* An update that starts for a tab runs, and the other tabs' do as before.
LEMMA LaunchRuns ==
  ASSUME BadgeTyped, NEW t \in Tab, Launch("get", t)
  PROVE  \E new \in DOMAIN updates' :
           /\ updates'[new] = Update("get", t)
           /\ Running(t)' = Running(t) \cup {new}
           /\ \A other \in Tab \ {t} : Running(other)' = Running(other)
           /\ \A u \in DOMAIN updates' \ {new} :
                u \in DOMAIN updates /\ updates'[u] = updates[u]
           /\ DOMAIN updates \subseteq DOMAIN updates'
<1>1. PICK new \in DOMAIN updates' :
        /\ new \notin DOMAIN updates
        /\ DOMAIN updates' = DOMAIN updates \cup {new}
        /\ updates'[new] = Update("get", t)
  BY LaunchProperties
<1>2. \A w \in DOMAIN updates : updates'[w] = updates[w]
  BY LaunchProperties
<1>3. updates'[new].at = "get" /\ updates'[new].tab = t
  BY <1>1 DEF Update
<1>4. Running(t)' = Running(t) \cup {new}
  BY <1>1, <1>2, <1>3 DEF Running, InFlight
<1>5. \A other \in Tab \ {t} : Running(other)' = Running(other)
  BY <1>1, <1>2, <1>3 DEF Running, InFlight
<1> QED
  BY <1>1, <1>2, <1>4, <1>5

\* An update that is told to start says nothing of any page yet.
LEMMA FreshUpdate ==
  ASSUME NEW at, NEW t
  PROVE  /\ Update(at, t).at = at /\ Update(at, t).tab = t
         /\ Update(at, t).count = 0
         /\ at \in Places /\ t \in Tab => Update(at, t) \in Updates
BY DEF Update, Updates

\* Who starts an update for a tab, one that waits in the queue or a new one,
\* notes the tab unless it has no other.
LEMMA NotedStep ==
  ASSUME AloneUnlessNoted, NEW t \in Tab, NEW u,
         doubtful' = Noted(t, Running(t)),
         Running(t)' = Running(t) \cup {u},
         \A other \in Tab \ {t} : Running(other)' = Running(other)
  PROVE  /\ AloneUnlessNoted'
         /\ t \notin doubtful' => Running(t)' = {u}
         /\ \A other \in Tab \ {t} : other \in doubtful' <=> other \in doubtful
BY DEF AloneUnlessNoted, Noted

\* An update for the active tab that nobody noted is the only one of it, and
\* has nothing to know yet.
LEMMA StartKnows ==
  ASSUME NEW u, Running(active)' = {u}, updates'[u].at = "get"
  PROVE  KnowledgeTrue'
BY DEF KnowledgeTrue

\* A navigation makes a tab loading; its badge is due when it has loaded.
LEMMA NavigateStep ==
  ASSUME BadgeSound, NEW t \in Tab, NEW page \in Site \cup {Unsupported},
         Navigate(t, page)
  PROVE  BadgeSound'
<1>1. /\ shown' = [shown EXCEPT ![t] = page] /\ loading' = loading \cup {t}
      /\ active' = active /\ cookies' = cookies /\ badge' = badge
      /\ updates' = updates /\ failures' = failures /\ doubtful' = doubtful
  BY DEF Navigate
<1>2. BadgeTyped'
  BY <1>1 DEF BadgeSound, BadgeTyped
<1>3. UpdatesSound' /\ AloneUnlessNoted'
  BY <1>1 DEF BadgeSound, UpdatesSound, AloneUnlessNoted, Running, InFlight
<1>4. KnowledgeTrue'
  <2>1. CASE t = active
    BY <1>1, <2>1 DEF KnowledgeTrue, Announced
  <2>2. CASE t # active
    <3>1. shown'[active] = shown[active]
      BY <1>1, <2>2 DEF BadgeSound, BadgeTyped
    <3>2. Tells(active)' = Tells(active) /\ Running(active)' = Running(active)
      BY <1>1, <3>1 DEF Tells, Running, InFlight
    <3>3. Announced' <=> Announced
      BY <1>1, <2>2 DEF Announced
    <3> QED
      BY <1>1, <2>2, <3>1, <3>2 DEF BadgeSound, KnowledgeTrue, Announced
  <2> QED
    BY <2>1, <2>2
<1> QED
  BY <1>2, <1>3, <1>4 DEF BadgeSound

\* A tab to which something happens that no event tells is noted, and what is
\* known of the others stays.
LEMMA UntoldStep ==
  ASSUME BadgeSound, NEW t \in Tab,
         \/ Focus(t) \/ \E page \in Site \cup {Unsupported} : PermissionChanges(t, page)
  PROVE  BadgeSound'
<1>1. /\ doubtful' = doubtful \cup {t} /\ active' \in {active, t}
      /\ loading' = loading /\ cookies' = cookies /\ badge' = badge
      /\ updates' = updates /\ failures' = failures
      /\ shown' = shown \/ \E page \in Site \cup {Unsupported} :
                            shown' = [shown EXCEPT ![t] = page]
  BY DEF Focus, PermissionChanges
<1>0. /\ shown' \in [Tab -> Site \cup {Unsupported}]
      /\ \A other \in Tab \ {t} : shown'[other] = shown[other]
  BY <1>1 DEF BadgeSound, BadgeTyped
<1>2. BadgeTyped'
  BY <1>0, <1>1 DEF BadgeSound, BadgeTyped
<1>3. UpdatesSound' /\ AloneUnlessNoted'
  BY <1>1 DEF BadgeSound, UpdatesSound, AloneUnlessNoted, Running, InFlight
<1>4. KnowledgeTrue'
  <2>1. CASE active' = t
    BY <1>1, <2>1 DEF KnowledgeTrue
  <2>2. CASE active' # t
    <3>1. active' = active /\ shown'[active] = shown[active]
      BY <1>0, <1>1, <2>2 DEF BadgeSound, BadgeTyped
    <3>2. /\ Tells(active)' = Tells(active) /\ Running(active)' = Running(active)
          /\ Announced' <=> Announced
      BY <1>1, <3>1 DEF Tells, Running, InFlight, Announced
    <3> QED
      BY <1>1, <3>1, <3>2 DEF BadgeSound, KnowledgeTrue
  <2> QED
    BY <2>1, <2>2
<1> QED
  BY <1>2, <1>3, <1>4 DEF BadgeSound

\* Cookies that change unseen are those of no tab.
LEMMA UnseenStep ==
  ASSUME BadgeSound, NEW site \in Site, NEW count \in 0..MostCookies,
         Unseen(site, count)
  PROVE  BadgeSound'
<1>1. /\ cookies' = [cookies EXCEPT ![site] = count] /\ \A t \in Tab : shown[t] # site
      /\ shown' = shown /\ active' = active /\ loading' = loading
      /\ badge' = badge /\ updates' = updates /\ failures' = failures
      /\ doubtful' = doubtful
  BY DEF Unseen
<1>2. count \in Nat
  BY PagesAssumption
<1>3. BadgeTyped'
  BY <1>1, <1>2 DEF BadgeSound, BadgeTyped
<1>4. UpdatesSound' /\ AloneUnlessNoted'
  BY <1>1 DEF BadgeSound, UpdatesSound, AloneUnlessNoted, Running, InFlight
<1>5. active \in Tab /\ cookies \in [Site -> Nat]
  BY DEF BadgeSound, BadgeTyped
<1>6. /\ Tells(active)' = Tells(active) /\ Running(active)' = Running(active)
      /\ Announced' <=> Announced
  BY <1>1, <1>5 DEF Tells, Running, InFlight, Announced
<1>7. KnowledgeTrue'
  BY <1>1, <1>6 DEF BadgeSound, KnowledgeTrue
<1> QED
  BY <1>3, <1>4, <1>7 DEF BadgeSound

\* What an update that starts does to the types.
LEMMA LaunchTyping ==
  ASSUME BadgeSound, NEW at \in {"query", "get"}, NEW t \in Tab, Launch(at, t),
         failures' = failures
  PROVE  updates' \in Seq(Updates) /\ UpdatesSound'
<1>1. PICK new \in DOMAIN updates' :
        /\ DOMAIN updates' = DOMAIN updates \cup {new}
        /\ updates'[new] = Update(at, t)
  BY LaunchProperties DEF BadgeSound
<1>2. /\ updates' \in Seq(Updates)
      /\ \A w \in DOMAIN updates : updates'[w] = updates[w]
  BY LaunchProperties DEF BadgeSound
<1> QED
  BY <1>1, <1>2, FreshUpdate DEF BadgeSound, UpdatesSound

\* The event that a tab has loaded, or that it is the active one of a window
\* behind, starts an update of its badge.
LEMMA OnUpdatedStep ==
  ASSUME BadgeSound, NEW t \in Tab, onUpdated(t) \/ (onActivated(t) /\ active' = active)
  PROVE  BadgeSound'
<1>1. /\ loading' \in {loading, loading \ {t}} /\ Launch("get", t)
      /\ doubtful' = Noted(t, Running(t))
      /\ shown' = shown /\ active' = active /\ cookies' = cookies
      /\ badge' = badge /\ failures' = failures
  BY DEF onUpdated, onActivated
<1>2. updates' \in Seq(Updates) /\ UpdatesSound'
  BY <1>1, LaunchTyping
<1>3. BadgeTyped'
  BY <1>1, <1>2 DEF BadgeSound, BadgeTyped, Noted
<1>4. PICK new \in DOMAIN updates' :
        /\ updates'[new] = Update("get", t)
        /\ Running(t)' = Running(t) \cup {new}
        /\ \A other \in Tab \ {t} : Running(other)' = Running(other)
        /\ \A u \in DOMAIN updates' \ {new} :
             u \in DOMAIN updates /\ updates'[u] = updates[u]
        /\ DOMAIN updates \subseteq DOMAIN updates'
  BY <1>1, LaunchRuns DEF BadgeSound
<1>5. updates'[new].at = "get" /\ updates'[new].tab = t
  BY <1>4 DEF Update
<1>6. /\ AloneUnlessNoted'
      /\ t \notin doubtful' => Running(t)' = {new}
      /\ \A other \in Tab \ {t} : other \in doubtful' <=> other \in doubtful
  BY <1>1, <1>4, NotedStep DEF BadgeSound
<1>7. KnowledgeTrue'
  <2>1. CASE t = active
    <3>1. t \notin doubtful' => Running(active)' = {new}
      BY <1>1, <1>6, <2>1
    <3>2. CASE t \in doubtful'
      BY <1>1, <2>1, <3>2 DEF KnowledgeTrue
    <3> QED
      BY <1>5, <3>1, <3>2, StartKnows
  <2>2. CASE t # active
    <3>1. active \in Tab
      BY DEF BadgeSound, BadgeTyped
    <3>2. Running(active)' = Running(active) /\ Tells(active)' = Tells(active)
      BY <1>1, <1>4, <2>2, <3>1 DEF Tells, Running, InFlight
    <3>3. \A u \in Running(active) : u \in DOMAIN updates /\ updates'[u] = updates[u]
      BY <1>4, <1>5, <2>2, <3>1, <3>2 DEF Running, InFlight
    <3>4. Announced => Announced'
      <4>1. CASE active \in loading
        BY <1>1, <2>2, <4>1 DEF Announced
      <4>2. ASSUME NEW u \in DOMAIN updates, updates[u].at = "query"
            PROVE  Announced'
        <5>1. u \in DOMAIN updates' /\ updates'[u] = updates[u]
          BY <1>1, <1>4, LaunchProperties DEF BadgeSound
        <5> QED
          BY <4>2, <5>1 DEF Announced
      <4> QED
        BY <4>1, <4>2 DEF Announced
    <3>5. active \in doubtful' <=> active \in doubtful
      BY <1>6, <2>2, <3>1
    <3> QED
      BY <1>1, <3>2, <3>3, <3>4, <3>5 DEF BadgeSound, KnowledgeTrue
  <2> QED
    BY <2>1, <2>2
<1> QED
  BY <1>2, <1>3, <1>6, <1>7 DEF BadgeSound

\* The tab that becomes active has an update of its own.
LEMMA OnActivatedStep ==
  ASSUME BadgeSound, NEW t \in Tab, onActivated(t), active' = t
  PROVE  BadgeSound'
<1>1. /\ active' = t /\ Launch("get", t)
      /\ doubtful' = Noted(t, Running(t))
      /\ shown' = shown /\ loading' = loading /\ cookies' = cookies
      /\ badge' = badge /\ failures' = failures
  BY DEF onActivated
<1>2. updates' \in Seq(Updates) /\ UpdatesSound'
  BY <1>1, LaunchTyping
<1>3. BadgeTyped'
  BY <1>1, <1>2 DEF BadgeSound, BadgeTyped, Noted
<1>4. PICK new \in DOMAIN updates' :
        /\ updates'[new] = Update("get", t)
        /\ Running(t)' = Running(t) \cup {new}
        /\ \A other \in Tab \ {t} : Running(other)' = Running(other)
  BY <1>1, LaunchRuns DEF BadgeSound
<1>5. updates'[new].at = "get"
  BY <1>4 DEF Update
<1>6. /\ AloneUnlessNoted'
      /\ t \notin doubtful' => Running(t)' = {new}
  BY <1>1, <1>4, NotedStep DEF BadgeSound
<1>7. KnowledgeTrue'
  <2>1. CASE t \in doubtful'
    BY <1>1, <2>1 DEF KnowledgeTrue
  <2>2. CASE t \notin doubtful'
    <3>1. Running(active)' = {new}
      BY <1>1, <1>6, <2>2 DEF Running, InFlight
    <3> QED
      BY <1>5, <3>1, StartKnows
  <2> QED
    BY <2>1, <2>2
<1> QED
  BY <1>2, <1>3, <1>6, <1>7 DEF BadgeSound

\* A change of the cookies is announced by the update that it starts.
LEMMA OnChangedStep ==
  ASSUME BadgeSound, NEW site \in Site, NEW count \in 0..MostCookies,
         onChanged(site, count)
  PROVE  BadgeSound'
<1>1. /\ cookies' = [cookies EXCEPT ![site] = count] /\ Launch("query", active)
      /\ shown' = shown /\ active' = active /\ loading' = loading
      /\ badge' = badge /\ failures' = failures /\ doubtful' = doubtful
  BY DEF onChanged
<1>2. active \in Tab /\ count \in Nat
  BY PagesAssumption DEF BadgeSound, BadgeTyped
<1>3. updates' \in Seq(Updates) /\ UpdatesSound'
  BY <1>1, <1>2, LaunchTyping
<1>4. BadgeTyped'
  BY <1>1, <1>2, <1>3 DEF BadgeSound, BadgeTyped
<1>5. PICK new \in DOMAIN updates' :
        /\ new \notin DOMAIN updates
        /\ DOMAIN updates' = DOMAIN updates \cup {new}
        /\ updates'[new] = Update("query", active)
  BY <1>1, <1>2, LaunchProperties DEF BadgeSound
<1>6. updates'[new].at = "query" /\ \A w \in DOMAIN updates : updates'[w] = updates[w]
  BY <1>1, <1>2, <1>5, LaunchProperties DEF BadgeSound, Update
<1>7. \A t \in Tab : Running(t)' = Running(t)
  BY <1>5, <1>6 DEF Running, InFlight
<1>8. AloneUnlessNoted'
  BY <1>1, <1>7 DEF BadgeSound, AloneUnlessNoted
<1>9. KnowledgeTrue'
  BY <1>5, <1>6 DEF KnowledgeTrue, Announced
<1> QED
  BY <1>3, <1>4, <1>8, <1>9 DEF BadgeSound

\* The queued update turns to whichever tab is active by now.
LEMMA QueryStep ==
  ASSUME BadgeSound, NEW u, Query(u) PROVE BadgeSound'
<1>1. /\ u \in DOMAIN updates /\ updates[u].at = "query"
      /\ Goes(u, Update("get", active))
      /\ doubtful' = Noted(active, Running(active))
      /\ shown' = shown /\ active' = active /\ loading' = loading
      /\ cookies' = cookies /\ badge' = badge /\ failures' = failures
  BY DEF Query, Resume
<1>2. active \in Tab /\ Update("get", active) \in Updates
  BY FreshUpdate DEF BadgeSound, BadgeTyped, Places
<1>3. /\ updates' \in Seq(Updates) /\ DOMAIN updates' = DOMAIN updates
      /\ updates'[u] = Update("get", active)
      /\ \A w \in DOMAIN updates \ {u} : updates'[w] = updates[w]
  BY <1>1, <1>2, GoesProperties DEF BadgeSound
<1>4. updates'[u].at = "get" /\ updates'[u].tab = active /\ updates'[u].count = 0
  BY <1>3 DEF Update
<1>5. BadgeTyped'
  BY <1>1, <1>2, <1>3 DEF BadgeSound, BadgeTyped, Noted
<1>6. UpdatesSound'
  BY <1>1, <1>3, <1>4 DEF BadgeSound, UpdatesSound
<1>7. /\ Running(active)' = Running(active) \cup {u}
      /\ \A other \in Tab \ {active} : Running(other)' = Running(other)
  BY <1>1, <1>3, <1>4 DEF Running, InFlight
<1>8. /\ AloneUnlessNoted'
      /\ active \notin doubtful' => Running(active)' = {u}
  BY <1>1, <1>2, <1>7, NotedStep DEF BadgeSound
<1>9. KnowledgeTrue'
  <2>1. CASE active \in doubtful'
    BY <1>1, <2>1 DEF KnowledgeTrue
  <2>2. CASE active \notin doubtful'
    BY <1>4, <1>8, <2>2, StartKnows
  <2> QED
    BY <2>1, <2>2
<1> QED
  BY <1>5, <1>6, <1>8, <1>9 DEF BadgeSound

\* Who runs for its tab goes on, and may end.
LEMMA RunsOn ==
  ASSUME BadgeSound, NEW u \in DOMAIN updates, NEW next \in Updates, Goes(u, next),
         updates[u].at \notin {"query", "done"},
         next.at # "query", next.tab = updates[u].tab,
         doubtful' = doubtful
  PROVE  /\ updates' \in Seq(Updates) /\ DOMAIN updates' = DOMAIN updates
         /\ updates'[u] = next
         /\ \A w \in DOMAIN updates \ {u} : updates'[w] = updates[w]
         /\ AloneUnlessNoted'
         /\ \A t \in Tab : t # updates[u].tab => Running(t)' = Running(t)
         /\ updates[u].tab \in Tab /\ u \in Running(updates[u].tab)
         /\ \A t \in Tab \ doubtful : t = updates[u].tab =>
              Running(t) = {u} /\ Running(t)' = IF next.at = "done" THEN {} ELSE {u}
<1>1. /\ updates' \in Seq(Updates) /\ DOMAIN updates' = DOMAIN updates
      /\ updates'[u] = next
      /\ \A w \in DOMAIN updates \ {u} : updates'[w] = updates[w]
  BY GoesProperties DEF BadgeSound
<1>2. updates[u].tab \in Tab /\ u \in Running(updates[u].tab)
  BY DEF BadgeSound, BadgeTyped, Updates, Running, InFlight
<1>3. \A t \in Tab : t # updates[u].tab => Running(t)' = Running(t)
  BY <1>1 DEF Running, InFlight
<1>4. \A t \in Tab : t = updates[u].tab =>
        Running(t)' = IF next.at = "done" THEN Running(t) \ {u} ELSE Running(t)
  BY <1>1 DEF Running, InFlight
<1>5. AloneUnlessNoted'
  BY <1>3, <1>4 DEF BadgeSound, AloneUnlessNoted
<1>6. \A t \in Tab \ doubtful : t = updates[u].tab => Running(t) = {u}
  BY <1>2 DEF BadgeSound, AloneUnlessNoted
<1> QED
  BY <1>1, <1>2, <1>3, <1>4, <1>5, <1>6

\* When an update of another tab goes on, what is known of the active one and
\* its badge stays as true as it was.
LEMMA KnowledgeStaysTrue ==
  ASSUME KnowledgeTrue, BadgeTyped, NEW u \in DOMAIN updates,
         DOMAIN updates' = DOMAIN updates,
         \A w \in DOMAIN updates \ {u} : updates'[w] = updates[w],
         updates[u].at # "query", updates'[u].at # "query",
         updates[u].tab # active,
         Running(active)' = Running(active), badge'[active] = badge[active],
         shown' = shown, active' = active, loading' = loading, cookies' = cookies,
         doubtful' = doubtful, failures' = 0 => failures = 0
  PROVE  KnowledgeTrue'
<1>1. Tells(active)' = Tells(active) /\ shown'[active'] = shown[active]
  BY DEF Tells
<1>2. \A w \in Running(active) : updates'[w] = updates[w]
  BY DEF Running, InFlight
<1>3. Announced => Announced'
  BY DEF Announced
<1>4. SUFFICES ASSUME failures' = 0, active' \notin doubtful', ~Announced'
               PROVE  /\ \A w \in Running(active) :
                           /\ updates'[w].at # "get" => updates'[w].site = shown[active]
                           /\ updates'[w].at \in {"text", "title"} =>
                                updates'[w].count = Tells(active)
                           /\ updates'[w].at = "title" =>
                                badge'[active].text = Tells(active)
                      /\ Running(active) = {} =>
                           badge'[active] = [text |-> Tells(active),
                                             title |-> Titled(shown[active], Tells(active))]
  BY <1>1 DEF KnowledgeTrue, Titled
<1> QED
  BY <1>2, <1>3, <1>4 DEF KnowledgeTrue

\* The announcements of the active tab come from elsewhere.
LEMMA AnnouncedStays ==
  ASSUME NEW u \in DOMAIN updates, DOMAIN updates' = DOMAIN updates,
         \A w \in DOMAIN updates \ {u} : updates'[w] = updates[w],
         updates[u].at # "query", active' = active, loading' = loading
  PROVE  Announced => Announced'
BY DEF Announced

\* The fields of an update in flight.
LEMMA UpdateTyping ==
  ASSUME BadgeTyped, NEW u \in DOMAIN updates
  PROVE  /\ updates[u] \in Updates
         /\ updates[u].tab \in Tab /\ updates[u].count \in Nat
         /\ updates[u].site \in Site \cup {Unsupported}
<1>1. updates[u] \in Updates
  BY DEF BadgeTyped
<1> QED
  BY <1>1 DEF Updates

\* The steps of an update: the tab, the count, the text, or its failure.
LEMMA GetStep == ASSUME BadgeSound, NEW u, Get(u) PROVE BadgeSound'
<1> DEFINE w == updates[u]
           page == shown[w.tab]
           next == [w EXCEPT !.site = page,
                             !.at = IF page = Unsupported THEN "text" ELSE "count"]
<1>1. /\ u \in DOMAIN updates /\ w.at = "get" /\ Goes(u, next)
      /\ shown' = shown /\ active' = active /\ loading' = loading
      /\ cookies' = cookies /\ badge' = badge /\ failures' = failures
      /\ doubtful' = doubtful
  BY DEF Get, Resume
<1>2. w \in Updates /\ w.count = 0 /\ page \in Site \cup {Unsupported}
  BY <1>1, UpdateTyping DEF BadgeSound, BadgeTyped, UpdatesSound
<1> HIDE DEF w
<1>3. /\ next \in Updates /\ next.tab = w.tab /\ next.site = page /\ next.count = 0
      /\ next.at \in {"text", "count"} /\ (next.at = "text" <=> page = Unsupported)
  BY <1>2 DEF Updates, Places
<1> HIDE DEF next
<1>4. /\ updates' \in Seq(Updates) /\ DOMAIN updates' = DOMAIN updates
      /\ updates'[u] = next
      /\ \A v \in DOMAIN updates \ {u} : updates'[v] = updates[v]
      /\ AloneUnlessNoted'
      /\ \A t \in Tab : t # w.tab => Running(t)' = Running(t)
      /\ w.tab \in Tab
      /\ \A t \in Tab \ doubtful : t = w.tab => Running(t)' = {u}
  BY <1>1, <1>3, RunsOn DEF w
<1>5. BadgeTyped'
  BY <1>1, <1>4 DEF BadgeSound, BadgeTyped
<1>6. UpdatesSound'
  BY <1>1, <1>3, <1>4 DEF BadgeSound, UpdatesSound
<1>7. KnowledgeTrue'
  <2>1. CASE w.tab = active
    <3>1. active \notin doubtful => Running(active)' = {u}
      BY <1>1, <1>4, <2>1 DEF Running, InFlight
    <3>2. Tells(active)' = Tells(active) /\ page = shown[active]
      BY <1>1, <2>1 DEF Tells
    <3>3. next.at = "text" => next.count = Tells(active)
      BY <1>3, <3>2 DEF Tells
    <3> QED
      BY <1>1, <1>3, <1>4, <3>1, <3>2, <3>3 DEF KnowledgeTrue
  <2>2. CASE w.tab # active
    <3>1. active \in Tab
      BY DEF BadgeSound, BadgeTyped
    <3>2. Running(active)' = Running(active)
      BY <1>1, <1>4, <2>2, <3>1 DEF Running, InFlight
    <3> QED
      BY <1>1, <1>3, <1>4, <2>2, <3>2, KnowledgeStaysTrue DEF BadgeSound, w
  <2> QED
    BY <2>1, <2>2
<1> QED
  BY <1>4, <1>5, <1>6, <1>7 DEF BadgeSound

LEMMA CountStep == ASSUME BadgeSound, NEW u, Count(u) PROVE BadgeSound'
<1> DEFINE w == updates[u]
           next == [w EXCEPT !.at = "text", !.count = cookies[w.site]]
<1>1. /\ u \in DOMAIN updates /\ w.at = "count" /\ Goes(u, next)
      /\ shown' = shown /\ active' = active /\ loading' = loading
      /\ cookies' = cookies /\ badge' = badge /\ failures' = failures
      /\ doubtful' = doubtful
  BY DEF Count, Resume
<1>2. w \in Updates /\ w.site \in Site /\ cookies[w.site] \in Nat
  BY <1>1, UpdateTyping DEF BadgeSound, BadgeTyped, UpdatesSound
<1> HIDE DEF w
<1>3. /\ next \in Updates /\ next.tab = w.tab /\ next.site = w.site
      /\ next.count = cookies[w.site] /\ next.at = "text"
  BY <1>2 DEF Updates, Places
<1> HIDE DEF next
<1>4. /\ updates' \in Seq(Updates) /\ DOMAIN updates' = DOMAIN updates
      /\ updates'[u] = next
      /\ \A v \in DOMAIN updates \ {u} : updates'[v] = updates[v]
      /\ AloneUnlessNoted'
      /\ \A t \in Tab : t # w.tab => Running(t)' = Running(t)
      /\ w.tab \in Tab /\ u \in Running(w.tab)
      /\ \A t \in Tab \ doubtful : t = w.tab => Running(t)' = {u}
  BY <1>1, <1>3, RunsOn DEF w
<1>5. BadgeTyped'
  BY <1>1, <1>4 DEF BadgeSound, BadgeTyped
<1>6. UpdatesSound'
  BY <1>1, <1>3, <1>4 DEF BadgeSound, UpdatesSound
<1>7. KnowledgeTrue'
  <2>1. CASE w.tab = active
    <3>1. SUFFICES ASSUME failures' = 0, active' \notin doubtful', ~Announced'
                   PROVE  KnowledgeTrue'
      BY DEF KnowledgeTrue
    <3>2. Running(active)' = {u}
      BY <1>1, <1>4, <2>1, <3>1 DEF Running, InFlight
    <3>3. ~Announced
      BY <1>1, <1>4, <3>1, AnnouncedStays DEF w
    <3>4. w.site = shown[active]
      BY <1>1, <1>4, <2>1, <3>1, <3>3 DEF BadgeSound, KnowledgeTrue, w
    <3>5. Tells(active)' = cookies[w.site]
      BY <1>1, <1>2, <3>4, PagesAssumption DEF Tells
    <3> QED
      BY <1>1, <1>3, <1>4, <3>2, <3>4, <3>5 DEF KnowledgeTrue
  <2>2. CASE w.tab # active
    <3>1. active \in Tab
      BY DEF BadgeSound, BadgeTyped
    <3>2. Running(active)' = Running(active)
      BY <1>1, <1>4, <2>2, <3>1 DEF Running, InFlight
    <3> QED
      BY <1>1, <1>3, <1>4, <2>2, <3>2, KnowledgeStaysTrue DEF BadgeSound, w
  <2> QED
    BY <2>1, <2>2
<1> QED
  BY <1>4, <1>5, <1>6, <1>7 DEF BadgeSound

LEMMA SetTextStep == ASSUME BadgeSound, NEW u, SetText(u) PROVE BadgeSound'
<1> DEFINE w == updates[u]
           next == [w EXCEPT !.at = "title"]
<1>1. /\ u \in DOMAIN updates /\ w.at = "text" /\ Goes(u, next)
      /\ badge' = [badge EXCEPT ![w.tab].text = w.count]
      /\ shown' = shown /\ active' = active /\ loading' = loading
      /\ cookies' = cookies /\ failures' = failures
      /\ doubtful' = doubtful
  BY DEF SetText, Resume
<1>2. w \in Updates /\ w.tab \in Tab /\ w.count \in Nat
  BY <1>1, UpdateTyping DEF BadgeSound
<1> HIDE DEF w
<1>3. /\ next \in Updates /\ next.tab = w.tab /\ next.site = w.site
      /\ next.count = w.count /\ next.at = "title"
  BY <1>2 DEF Updates, Places
<1> HIDE DEF next
<1>4. /\ updates' \in Seq(Updates) /\ DOMAIN updates' = DOMAIN updates
      /\ updates'[u] = next
      /\ \A v \in DOMAIN updates \ {u} : updates'[v] = updates[v]
      /\ AloneUnlessNoted'
      /\ \A t \in Tab : t # w.tab => Running(t)' = Running(t)
      /\ u \in Running(w.tab)
      /\ \A t \in Tab \ doubtful : t = w.tab => Running(t)' = {u}
  BY <1>1, <1>3, RunsOn DEF w
<1>5. /\ badge' \in [Tab -> [text : Nat, title : Title]]
      /\ badge'[w.tab].text = w.count
      /\ \A t \in Tab \ {w.tab} : badge'[t] = badge[t]
  BY <1>1, <1>2 DEF BadgeSound, BadgeTyped
<1>6. BadgeTyped'
  BY <1>1, <1>4, <1>5 DEF BadgeSound, BadgeTyped
<1>7. UpdatesSound'
  BY <1>1, <1>3, <1>4 DEF BadgeSound, UpdatesSound
<1>8. KnowledgeTrue'
  <2>1. CASE w.tab = active
    <3>1. SUFFICES ASSUME failures' = 0, active' \notin doubtful', ~Announced'
                   PROVE  KnowledgeTrue'
      BY DEF KnowledgeTrue
    <3>2. Running(active)' = {u}
      BY <1>1, <1>2, <1>4, <2>1, <3>1 DEF Running, InFlight
    <3>3. ~Announced
      BY <1>1, <1>4, <3>1, AnnouncedStays DEF w
    <3>4. w.site = shown[active] /\ w.count = Tells(active)
      BY <1>1, <1>4, <2>1, <3>1, <3>3 DEF BadgeSound, KnowledgeTrue, w
    <3>5. Tells(active)' = Tells(active)
      BY <1>1 DEF Tells
    <3> QED
      BY <1>1, <1>3, <1>4, <1>5, <2>1, <3>2, <3>4, <3>5 DEF KnowledgeTrue
  <2>2. CASE w.tab # active
    <3>1. active \in Tab
      BY DEF BadgeSound, BadgeTyped
    <3>2. Running(active)' = Running(active) /\ badge'[active] = badge[active]
      BY <1>1, <1>4, <1>5, <2>2, <3>1 DEF Running, InFlight
    <3> QED
      BY <1>1, <1>3, <1>4, <2>2, <3>2, KnowledgeStaysTrue DEF BadgeSound, w
  <2> QED
    BY <2>1, <2>2
<1> QED
  BY <1>4, <1>6, <1>7, <1>8 DEF BadgeSound

\* The update ends, and the badge tells what it knew.
LEMMA SetTitleStep == ASSUME BadgeSound, NEW u, SetTitle(u) PROVE BadgeSound'
<1> DEFINE w == updates[u]
           next == [w EXCEPT !.at = "done"]
<1>1. /\ u \in DOMAIN updates /\ w.at = "title" /\ Goes(u, next)
      /\ badge' = [badge EXCEPT ![w.tab].title = Titled(w.site, w.count)]
      /\ shown' = shown /\ active' = active /\ loading' = loading
      /\ cookies' = cookies /\ failures' = failures
      /\ doubtful' = doubtful
  BY DEF SetTitle, Resume
<1>2. w \in Updates /\ w.tab \in Tab /\ Titled(w.site, w.count) \in Title
  BY <1>1, UpdateTyping DEF BadgeSound, Titled, Title
<1> HIDE DEF w
<1>3. /\ next \in Updates /\ next.tab = w.tab /\ next.at = "done"
  BY <1>2 DEF Updates, Places
<1> HIDE DEF next
<1>4. /\ updates' \in Seq(Updates) /\ DOMAIN updates' = DOMAIN updates
      /\ updates'[u] = next
      /\ \A v \in DOMAIN updates \ {u} : updates'[v] = updates[v]
      /\ AloneUnlessNoted'
      /\ \A t \in Tab : t # w.tab => Running(t)' = Running(t)
      /\ u \in Running(w.tab)
      /\ \A t \in Tab \ doubtful : t = w.tab => Running(t)' = {}
  BY <1>1, <1>3, RunsOn DEF w
<1>5. /\ badge' \in [Tab -> [text : Nat, title : Title]]
      /\ badge'[w.tab] = [text |-> badge[w.tab].text, title |-> Titled(w.site, w.count)]
      /\ \A t \in Tab \ {w.tab} : badge'[t] = badge[t]
  BY <1>1, <1>2 DEF BadgeSound, BadgeTyped
<1>6. BadgeTyped'
  BY <1>1, <1>4, <1>5 DEF BadgeSound, BadgeTyped
<1>7. UpdatesSound'
  BY <1>1, <1>3, <1>4 DEF BadgeSound, UpdatesSound
<1>8. KnowledgeTrue'
  <2>1. CASE w.tab = active
    <3>1. SUFFICES ASSUME failures' = 0, active' \notin doubtful', ~Announced'
                   PROVE  KnowledgeTrue'
      BY DEF KnowledgeTrue
    <3>2. Running(active)' = {}
      BY <1>1, <1>2, <1>4, <2>1, <3>1 DEF Running, InFlight
    <3>3. ~Announced
      BY <1>1, <1>4, <3>1, AnnouncedStays DEF w
    <3>4. /\ w.site = shown[active] /\ w.count = Tells(active)
          /\ badge[active].text = Tells(active)
      BY <1>1, <1>4, <2>1, <3>1, <3>3 DEF BadgeSound, KnowledgeTrue, w
    <3>5. Tells(active)' = Tells(active)
      BY <1>1 DEF Tells
    <3> QED
      BY <1>1, <1>5, <2>1, <3>2, <3>4, <3>5 DEF KnowledgeTrue
  <2>2. CASE w.tab # active
    <3>1. active \in Tab
      BY DEF BadgeSound, BadgeTyped
    <3>2. Running(active)' = Running(active) /\ badge'[active] = badge[active]
      BY <1>1, <1>4, <1>5, <2>2, <3>1 DEF Running, InFlight
    <3> QED
      BY <1>1, <1>3, <1>4, <2>2, <3>2, KnowledgeStaysTrue DEF BadgeSound, w
  <2> QED
    BY <2>1, <2>2
<1> QED
  BY <1>4, <1>6, <1>7, <1>8 DEF BadgeSound

\* Nothing is promised after a failure.
LEMMA FailStep == ASSUME BadgeSound, NEW u, Fail(u) PROVE BadgeSound'
<1> DEFINE w == updates[u]
           next == [w EXCEPT !.at = "catch"]
<1>1. /\ u \in DOMAIN updates /\ w.at \in {"get", "count", "text", "title"}
      /\ Goes(u, next) /\ failures' = failures + 1
      /\ shown' = shown /\ active' = active /\ loading' = loading
      /\ cookies' = cookies /\ badge' = badge
      /\ doubtful' = doubtful
  BY DEF Fail
<1>2. w \in Updates /\ failures \in Nat
  BY <1>1 DEF BadgeSound, BadgeTyped
<1> HIDE DEF w
<1>3. next \in Updates /\ next.tab = w.tab /\ next.at = "catch"
  BY <1>2 DEF Updates, Places
<1> HIDE DEF next
<1>4. /\ updates' \in Seq(Updates) /\ DOMAIN updates' = DOMAIN updates
      /\ updates'[u] = next
      /\ \A v \in DOMAIN updates \ {u} : updates'[v] = updates[v]
      /\ AloneUnlessNoted'
  BY <1>1, <1>3, RunsOn DEF w
<1>5. BadgeTyped'
  BY <1>1, <1>2, <1>4 DEF BadgeSound, BadgeTyped
<1>6. UpdatesSound'
  BY <1>1, <1>2, <1>3, <1>4 DEF BadgeSound, UpdatesSound
<1>7. KnowledgeTrue'
  BY <1>1, <1>2 DEF KnowledgeTrue
<1> QED
  BY <1>4, <1>5, <1>6, <1>7 DEF BadgeSound

LEMMA CatchStep == ASSUME BadgeSound, NEW u, Catch(u) PROVE BadgeSound'
<1> DEFINE w == updates[u]
           next == [w EXCEPT !.at = "done"]
<1>1. /\ u \in DOMAIN updates /\ w.at = "catch" /\ Goes(u, next)
      /\ badge' = [badge EXCEPT ![w.tab].text = 0]
      /\ shown' = shown /\ active' = active /\ loading' = loading
      /\ cookies' = cookies /\ failures' = failures
      /\ doubtful' = doubtful
  BY DEF Catch, Resume
<1>2. w \in Updates /\ failures > 0
  BY <1>1, UpdateTyping DEF BadgeSound, UpdatesSound
<1> HIDE DEF w
<1>3. next \in Updates /\ next.tab = w.tab /\ next.at = "done"
  BY <1>2 DEF Updates, Places
<1> HIDE DEF next
<1>4. /\ updates' \in Seq(Updates) /\ DOMAIN updates' = DOMAIN updates
      /\ updates'[u] = next
      /\ \A v \in DOMAIN updates \ {u} : updates'[v] = updates[v]
      /\ AloneUnlessNoted'
  BY <1>1, <1>3, RunsOn DEF w
<1>5. BadgeTyped'
  BY <1>1, <1>4 DEF BadgeSound, BadgeTyped
<1>6. UpdatesSound'
  BY <1>1, <1>3, <1>4 DEF BadgeSound, UpdatesSound
<1>7. KnowledgeTrue'
  BY <1>1, <1>2 DEF KnowledgeTrue
<1> QED
  BY <1>4, <1>5, <1>6, <1>7 DEF BadgeSound

\* The invariant of the badge holds at the start and is kept.
LEMMA BadgeStart == BadgeInit => BadgeSound
<1> SUFFICES ASSUME BadgeInit PROVE BadgeSound
  OBVIOUS
<1>1. updates \in Seq(Updates) /\ DOMAIN updates = {} /\ failures = 0
  BY DEF BadgeInit
<1>2. BadgeTyped
  <2>1. badge \in [Tab -> [text : Nat, title : Title]]
    BY DEF BadgeInit, Blank, Title
  <2>2. cookies \in [Site -> Nat]
    BY PagesAssumption DEF BadgeInit
  <2> QED
    BY <1>1, <2>1, <2>2 DEF BadgeInit, BadgeTyped
<1>3. \A t \in Tab : Running(t) = {}
  BY <1>1 DEF Running, InFlight
<1>4. UpdatesSound /\ AloneUnlessNoted
  BY <1>1, <1>3 DEF UpdatesSound, AloneUnlessNoted
<1>5. KnowledgeTrue
  BY <1>3 DEF BadgeInit, KnowledgeTrue, Blank, Tells, Titled
<1> QED
  BY <1>2, <1>4, <1>5 DEF BadgeSound

LEMMA BadgeStep == BadgeSound /\ [BadgeNext]_badge_vars => BadgeSound'
<1>1. CASE UNCHANGED badge_vars
  BY <1>1 DEF badge_vars, BadgeSound, BadgeTyped, UpdatesSound, AloneUnlessNoted,
              KnowledgeTrue, Announced, Running, InFlight, Tells
<1>2. ASSUME BadgeSound, BadgeNext PROVE BadgeSound'
  <2>1. ASSUME NEW t \in Tab, onUpdated(t) PROVE BadgeSound'
    BY <1>2, <2>1, OnUpdatedStep
  <2>2. ASSUME NEW t \in Tab, onActivated(t) PROVE BadgeSound'
    BY <1>2, <2>2, OnActivatedStep, OnUpdatedStep DEF onActivated, Activated
  <2>3. ASSUME NEW t \in Tab, NEW page \in Site \cup {Unsupported}, Navigate(t, page)
        PROVE  BadgeSound'
    BY <1>2, <2>3, NavigateStep
  <2>4. ASSUME NEW site \in Site, NEW count \in 0..MostCookies, onChanged(site, count)
        PROVE  BadgeSound'
    BY <1>2, <2>4, OnChangedStep
  <2>5. ASSUME NEW u, Query(u) \/ Get(u) \/ Count(u) \/ SetText(u) PROVE BadgeSound'
    BY <1>2, <2>5, QueryStep, GetStep, CountStep, SetTextStep
  <2>6. ASSUME NEW u, SetTitle(u) \/ Fail(u) \/ Catch(u) PROVE BadgeSound'
    BY <1>2, <2>6, SetTitleStep, FailStep, CatchStep
  <2>7. ASSUME NEW t \in Tab,
               \/ Focus(t) \/ \E page \in Site \cup {Unsupported} : PermissionChanges(t, page)
        PROVE  BadgeSound'
    BY <1>2, <2>7, UntoldStep
  <2>8. ASSUME NEW site \in Site, NEW count \in 0..MostCookies, Unseen(site, count)
        PROVE  BadgeSound'
    BY <1>2, <2>8, UnseenStep
  <2> QED
    BY <1>2, <2>1, <2>2, <2>3, <2>4, <2>5, <2>6, <2>7, <2>8 DEF BadgeNext
<1> QED
  BY <1>1, <1>2

\* When nothing is under way, the badge of the active tab tells the cookies of
\* its page, unless two updates of the tab ran at once, a call failed, or since
\* its last update began its permission changed or its window got the focus:
\* for all numbers of tabs, windows, sites, events and updates.
THEOREM BadgeIsRight ==
  BadgeInit /\ [][BadgeNext]_badge_vars => []WrongBadgeExplained
<1>1. BadgeSound => WrongBadgeExplained
  <2>1. SUFFICES ASSUME BadgeSound, Quiet, failures = 0, active \notin doubtful
                 PROVE  badge[active] = [text |-> Tells(active),
                                         title |-> Titled(shown[active], Tells(active))]
    BY DEF WrongBadgeExplained, Tells
  <2>2. ~Announced /\ Running(active) = {}
    BY <2>1 DEF Quiet, Announced, Running, InFlight
  <2> QED
    BY <2>1, <2>2 DEF BadgeSound, KnowledgeTrue
<1> QED
  BY <1>1, BadgeStart, BadgeStep, PTL
=============================================================================
