-------------------------------- MODULE Engine --------------------------------
(***************************************************************************)
(* The stages of luck-core put together: LuckEngine::inspect and           *)
(* run_pipeline (rust/crates/luck-core/src/engine.rs) after parse_cookies  *)
(* (parse/mod.rs), and the commands of luck-cli that use the same stages   *)
(* (rust/crates/luck-cli/src/main.rs).                                     *)
(*                                                                         *)
(* A job is what one call is given: the command, the records that the      *)
(* parser of a format returned, and the options.  Every stage is a step.   *)
(* Wherever the code asks for the time, the answer is any moment of Clock: *)
(* the stages ask one after the other, once for every cookie, and the      *)
(* system's clock may be set back in between.                              *)
(***************************************************************************)
EXTENDS Canonical, Policies, Statistics, Queries

CONSTANT MaximumCookies

ASSUME EngineAssumption == MaximumCookies \in Nat

Command == {"pipeline", "convert", "validate", "query", "audit"}

Options == [command : Command, raw : Seq(Cookie), fallback : Seq(Character),
            keep_invalid : BOOLEAN, deny_warnings : BOOLEAN, policy : Policy,
            remove_expired : BOOLEAN, deny_policy_violations : BOOLEAN,
            query : Seq(STRING), redact_values : BOOLEAN, include_http_only : BOOLEAN]

VARIABLES
  job,        \* never changes
  stage,      \* the last stage that ended; "done", or "failed" with an error
  cookies,    \* the collection: a sequence after the parser, then a set
  rejected,   \* how many cookies parse_cookies refused
  warned,     \* whether its report has warnings
  issues,     \* by cookie, what the validation of inspect found
  verdicts,   \* by cookie, the decision of the policy
  counts,     \* the statistics, and when they were taken
  removed     \* how many cookies run_pipeline took out, and at what time

vars == <<job, stage, cookies, rejected, warned, issues, verdicts, counts, removed>>

Nothing == [expired |-> 0, by_policy |-> 0, at |-> 0]

\* Where a job starts.
Given ==
  /\ stage = "given"
  /\ cookies = <<>>
  /\ rejected = 0 /\ warned = FALSE
  /\ issues = <<>> /\ verdicts = <<>>
  /\ counts = [at |-> 0, stats |-> compute({}, 0)]
  /\ removed = Nothing

Init == job \in Options /\ Given

(***************************************************************************)
(* parse_cookies.                                                          *)
(***************************************************************************)
with_defaults(c, fallback) ==
  [c EXCEPT !.domain = IF @ = <<>> THEN fallback ELSE @,
            !.path = IF @ = <<Empty>> THEN Root ELSE @]

\* The validation of the records: those kept, in their order, and whether one
\* of these has a warning.  A cookie that is kept though it is invalid adds
\* its warnings only.
Accepted(raw, keep_invalid, now) ==
  Retained(raw, {i \in DOMAIN raw :
                   keep_invalid \/ is_valid(validate_cookie(raw[i], now))})

AnyWarning(list, now) ==
  \E i \in DOMAIN list : validate_cookie(list[i], now) \cap Warnings # {}

Raw == [i \in DOMAIN job.raw |-> with_defaults(job.raw[i], job.fallback)]

Parse ==
  /\ stage = "given"
  /\ \E now \in Clock :
       LET kept == Accepted(Raw, job.keep_invalid, now)
       IN IF Len(Raw) > MaximumCookies
          THEN /\ stage' = "failed"
               /\ UNCHANGED <<cookies, rejected, warned>>
          ELSE /\ stage' = "parsed"
               /\ cookies' = deduplicate_last_wins(kept)
               /\ rejected' = Len(Raw) - Len(kept)
               /\ warned' = (rejected' > 0 \/ AnyWarning(kept, now))
  /\ UNCHANGED <<job, issues, verdicts, counts, removed>>

(***************************************************************************)
(* inspect.                                                                *)
(***************************************************************************)
Inspecting(from, to) == job.command = "pipeline" /\ stage = from /\ stage' = to

Canonicalize ==
  /\ Inspecting("parsed", "canonical")
  /\ cookies' = canonicalize_collection(cookies)
  /\ UNCHANGED <<job, rejected, warned, issues, verdicts, counts, removed>>

Validate ==
  /\ Inspecting("canonical", "validated")
  /\ \E at \in [cookies -> Clock] :
       issues' = [c \in cookies |-> validate_cookie(c, at[c])]
  /\ UNCHANGED <<job, cookies, rejected, warned, verdicts, counts, removed>>

Judge ==
  /\ Inspecting("validated", "judged")
  /\ \E at \in [cookies -> Clock] :
       verdicts' = [c \in cookies |-> evaluate(job.policy, c, at[c])]
  /\ UNCHANGED <<job, cookies, rejected, warned, issues, counts, removed>>

TakeStatistics ==
  /\ Inspecting("judged", "inspected")
  /\ \E now \in Clock : counts' = [at |-> now, stats |-> compute(cookies, now)]
  /\ UNCHANGED <<job, cookies, rejected, warned, issues, verdicts, removed>>

(***************************************************************************)
(* The rest of run_pipeline.                                               *)
(***************************************************************************)
RemoveExpired ==
  /\ Inspecting("inspected", "fresh")
  /\ \E now \in Clock :
       LET left == IF job.remove_expired THEN remove_expired_at(cookies, now)
                   ELSE cookies
       IN /\ cookies' = left
          /\ removed' = [removed EXCEPT
                           !.expired = Cardinality(cookies) - Cardinality(left),
                           !.at = now]
  /\ UNCHANGED <<job, rejected, warned, issues, verdicts, counts>>

\* The policy is evaluated again, later than for the report.
FilterByPolicy ==
  /\ Inspecting("fresh", "permitted")
  /\ \E at \in [cookies -> Clock] :
       LET left == {c \in cookies : \/ ~job.deny_policy_violations
                                    \/ is_allowed(evaluate(job.policy, c, at[c]))}
       IN /\ cookies' = left
          /\ removed' = [removed EXCEPT
                           !.by_policy = Cardinality(cookies) - Cardinality(left)]
  /\ UNCHANGED <<job, rejected, warned, issues, verdicts, counts>>

\* CookieQuery::execute without paging; the order of what it selects is left
\* out.  A query that cannot be parsed fails here, after all other stages.
Select(list) ==
  IF parse(job.query) = Error
  THEN stage' = "failed" /\ UNCHANGED cookies
  ELSE \E at \in [list -> Clock] :
         /\ stage' = "selected"
         /\ cookies' = {c \in list : matches(job.query, c, at[c])}

SelectFromPipeline ==
  /\ stage = "permitted"
  /\ Select(cookies)
  /\ UNCHANGED <<job, rejected, warned, issues, verdicts, counts, removed>>

\* Redactor::redact_value in the mode KeepEdges: the length of what is left of
\* a value, three characters at either end and at most 64 dots.
redact_value(length) ==
  CASE length = 0     -> 7
    [] length \in 1..6 -> IF length < 4 THEN 4 ELSE length
    [] OTHER          -> 6 + IF length - 6 < 64 THEN length - 6 ELSE 64

\* redact_collection and serialize_cookies, of which the output is what is
\* not left out.
Serialize ==
  /\ stage = "selected"
  /\ stage' = "done"
  /\ cookies' =
       {IF job.redact_values THEN [c EXCEPT !.value = redact_value(@)] ELSE c :
          c \in {d \in cookies : job.include_http_only \/ ~d.http_only}}
  /\ UNCHANGED <<job, rejected, warned, issues, verdicts, counts, removed>>

(***************************************************************************)
(* luck-cli: what follows load.  A command that ends in an error exits     *)
(* with status 1.                                                          *)
(***************************************************************************)
CommandConvert ==
  /\ job.command = "convert" /\ stage = "parsed"
  /\ stage' = "selected"
  /\ cookies' = ToSet(cookies)
  /\ UNCHANGED <<job, rejected, warned, issues, verdicts, counts, removed>>

CommandValidate ==
  /\ job.command = "validate" /\ stage = "parsed"
  /\ stage' = IF rejected > 0 \/ (job.deny_warnings /\ warned) THEN "failed"
              ELSE "done"
  /\ UNCHANGED <<job, cookies, rejected, warned, issues, verdicts, counts, removed>>

CommandQuery ==
  /\ job.command = "query" /\ stage = "parsed"
  /\ Select(ToSet(cookies))
  /\ UNCHANGED <<job, rejected, warned, issues, verdicts, counts, removed>>

CommandAudit ==
  /\ job.command = "audit" /\ stage = "parsed"
  /\ \E at \in [ToSet(cookies) -> Clock] :
       verdicts' = [c \in ToSet(cookies) |-> evaluate(job.policy, c, at[c])]
  /\ stage' = IF \A c \in ToSet(cookies) : is_allowed(verdicts'[c]) THEN "done"
              ELSE "failed"
  /\ UNCHANGED <<job, cookies, rejected, warned, issues, counts, removed>>

Next ==
  \/ Parse \/ Canonicalize \/ Validate \/ Judge \/ TakeStatistics
  \/ RemoveExpired \/ FilterByPolicy \/ SelectFromPipeline \/ Serialize
  \/ CommandConvert \/ CommandValidate \/ CommandQuery \/ CommandAudit

Spec == Init /\ [][Next]_vars

(***************************************************************************)
(* Properties.                                                             *)
(***************************************************************************)
Inspected == job.command = "pipeline" /\ stage \notin {"given", "parsed", "failed"}

AtBothEnds(s, dropped) == TrimEnd(TrimStart(s, dropped), dropped)

\* What the cookie prefixes ask for holds of every cookie that was
\* canonicalized, whatever the flags, dots and blanks it came with: the steps
\* of canonicalize depend on what the earlier ones made of the cookie
\* (canonical.rs:89-97, 172-209 against validation.rs:253-268).
PrefixRulesHold ==
  Inspected => \A c \in cookies : /\ validate_prefixes(c) = {}
                                  /\ c.same_site = "none" => c.secure

\* The names in a path, without dot segments, and those of them that no later
\* ".." takes back.
NamesIn(path, i, j) == {h \in i..j : path[h] \notin {Empty, ".", ".."}}

Stays(path, i) ==
  \A j \in i..Len(path) :
    Cardinality({h \in (i + 1)..j : path[h] = ".."})
      <= Cardinality(NamesIn(path, i + 1, j))

Resolved(path) ==
  LET kept == {i \in NamesIn(path, 1, Len(path)) : Stays(path, i)}
  IN [k \in 1..Cardinality(kept) |->
        path[CHOOSE i \in kept : Cardinality({h \in kept : h <= i}) = k]]

\* normalize_path keeps a name exactly when ".." segments do not take it back,
\* and never keeps more than the limit (canonical.rs:234-266).
PathsResolved ==
  stage = "parsed" =>
    \A c \in ToSet(cookies) :
      LET walk == Walk(c.path)
      IN /\ Len(walk.kept) <= MaximumSegments
         /\ ~walk.cut => walk.kept = Resolved(c.path)

\* Canonicalizing a canonical collection changes nothing, unless taking off
\* the dots at the end of a domain laid a blank bare (canonical.rs:104-122).
Idempotent ==
  Inspected /\ stage # "done" /\ (\A c \in cookies : c.domain = Trim(c.domain))
    => canonicalize_collection(SetToSeq(cookies)) = cookies

\* What the parser accepted is still valid when inspect validates it: the
\* cookies are checked before they are canonicalized, at another time
\* (parse/mod.rs:100-117, engine.rs:93-105).
AcceptedStaysValid ==
  ~job.keep_invalid => \A c \in DOMAIN issues : is_valid(issues[c])

\* The report explains what is gone: each cookie that run_pipeline took out is
\* expired, or the report says that the policy denies it, and no other one is
\* missing, although the policy is asked twice, at different times.  Unless
\* the clock was set back, all cookies that were counted as expired go
\* (engine.rs:107-134).
RemovalsExplained ==
  stage = "permitted" =>
    /\ cookies = {c \in DOMAIN verdicts :
                    /\ job.deny_policy_violations => is_allowed(verdicts[c])
                    /\ job.remove_expired => ~is_expired_at(c, removed.at)}
    /\ removed.expired + removed.by_policy
         = Cardinality(DOMAIN verdicts) - Cardinality(cookies)
    /\ job.remove_expired /\ counts.at <= removed.at =>
         removed.expired >= counts.stats.expired

\* A denied domain does not get past the pipeline, however the cookie spells
\* it: in capitals, below a subdomain, with dots or blanks around it.  What the
\* policy does not recognize, the validation must have denied.  A policy that
\* has a dot at the end of a suffix denies nothing by it (policy.rs:117-122,
\* canonical.rs:134-159).
DeniedDomainsStayOut ==
  /\ Inspected /\ stage \in {"permitted", "selected", "done"}
  /\ job.deny_policy_violations
  => \A c \in cookies, s \in job.policy.deny_domain_suffixes :
       LET bare == Retained(c.domain, {i \in DOMAIN c.domain : c.domain[i] # Space})
       IN s # <<>> /\ Last(s) # "."
            => ~WithinDomain(Lowered(AtBothEnds(bare, ".")), Lowered(AtBothEnds(s, ".")))

\* What the audit command allows, which judges the cookies as they were
\* parsed, the policy also allows when the pipeline has canonicalized it; but
\* for the dots at the end of a domain, which hide it from the audit
\* (main.rs:180-211 against engine.rs:93-105).
AuditForetells ==
  job.command = "audit" =>
    \A c \in DOMAIN verdicts :
      is_allowed(verdicts[c]) /\ (c.domain # <<>> => Last(c.domain) # ".")
        => \A now \in Clock :
             is_allowed(evaluate(job.policy, canonicalize(c), now))

\* The cookies that a command gets to see.
Loaded(now) == ToSet(deduplicate_last_wins(Accepted(Raw, job.keep_invalid, now)))

\* A query is read as its grammar groups it, `not` before `and` before `or`,
\* and every other text is refused (query.rs:96-107, 173-254).
ParsedAsGrouped ==
  /\ job.command = "query" /\ stage \in {"selected", "failed"}
  /\ Len(job.raw) <= MaximumCookies
  => \A then \in Clock : \A c \in Loaded(then) :
       LET said == {IF job.query = <<>> THEN "yes"
                    ELSE IF Unterminated \in ToSet(job.query) THEN "nothing"
                    ELSE Says(job.query, c, now) : now \in Clock}
       IN IF stage = "failed" THEN said = {"nothing"}
          ELSE IF c \in cookies THEN "yes" \in said ELSE "no" \in said
=============================================================================
