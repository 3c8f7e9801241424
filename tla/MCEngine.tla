------------------------------- MODULE MCEngine -------------------------------
(* Instances of Engine for TLC: one union of small families of jobs, each of *)
(* them about a part of the input that the other ones hold still.            *)
EXTENDS Engine

UpTo(S, n) == UNION {[1..m -> S] : m \in 0..n}

A == <<"a">>

Plainest ==
  [padded |-> FALSE, prefix |-> "plain", id |-> 1, domain |-> A, path |-> Root,
   value |-> 1, control |-> FALSE, expiration |-> NoDate, same_site |-> "lax",
   secure |-> FALSE, http_only |-> FALSE, session |-> TRUE, host_only |-> TRUE,
   partitioned |-> FALSE]

Some ==
  [command |-> "pipeline", raw |-> <<>>, fallback |-> <<>>, keep_invalid |-> FALSE,
   deny_warnings |-> FALSE, policy |-> DefaultPolicy, remove_expired |-> FALSE,
   deny_policy_violations |-> TRUE, query |-> <<>>, redact_values |-> FALSE,
   include_http_only |-> TRUE]

DenyA == [DefaultPolicy EXCEPT !.deny_domain_suffixes = {<<".", "A">>}]
OnlyA == [DefaultPolicy EXCEPT !.allow_domains = {A}]

\* Any domain of up to four characters, and names with and without a prefix.
OfDomain ==
  {[Some EXCEPT !.command = k, !.keep_invalid = keep, !.policy = p,
      !.raw = <<[Plainest EXCEPT !.domain = d, !.prefix = x, !.padded = b,
                                 !.secure = x # "plain" /\ ~b]>>] :
     k \in {"pipeline", "audit"}, keep \in BOOLEAN, p \in {DenyA, OnlyA},
     d \in UpTo(Character, 4), x \in {"plain", "__Host-"}, b \in BOOLEAN}

\* Any path of up to three segments, or four below a root.
Paths ==
  (UpTo(Segment, 3) \ {<<>>}) \cup {<<"">> \o p : p \in [1..4 -> Segment \ {";"}]}

OfPath ==
  {[Some EXCEPT !.keep_invalid = keep,
      !.raw = <<[Plainest EXCEPT !.path = p, !.prefix = x, !.secure = s]>>] :
     keep \in BOOLEAN, p \in Paths, x \in {"plain", "__Host-"}, s \in BOOLEAN}

\* Two cookies that differ only before they are canonicalized.
OfAlike ==
  LET Alike == {[Plainest EXCEPT !.padded = b, !.prefix = x, !.domain = d,
                                 !.path = p, !.host_only = h, !.same_site = t] :
                  b \in BOOLEAN, x \in {"plain", "__Host-", "__Secure-"},
                  d \in {A, <<"A", ".">>, <<".", "a">>},
                  p \in {Root, <<"", "a", "..">>}, h \in BOOLEAN, t \in {"none", "lax"}}
  IN {[Some EXCEPT !.keep_invalid = TRUE, !.deny_policy_violations = FALSE,
         !.raw = <<c, d>>] :
        c \in {e \in Alike : e.path = Root}, d \in {e \in Alike : e.host_only}}

\* Two cookies around the expiration dates, and three, which are too many.
Dated ==
  {[Plainest EXCEPT !.id = i, !.expiration = e, !.session = s, !.secure = TRUE] :
     i \in Id \ Nameless, e \in {NoDate, NaN, 0, 1, 2, 4, 5, LastDate + 1}, s \in BOOLEAN}

Deny == {DefaultPolicy,
         [DefaultPolicy EXCEPT !.deny_session_cookies = TRUE, !.require_secure = TRUE]}

OfDate ==
  {[Some EXCEPT !.keep_invalid = keep, !.remove_expired = r,
      !.deny_policy_violations = deny, !.policy = p, !.raw = <<c, d>>] :
     keep \in BOOLEAN, r \in BOOLEAN, deny \in BOOLEAN, p \in Deny,
     c \in {x \in Dated : x.id = 1}, d \in {x \in Dated : x.id = 2 /\ x.session}}
  \cup {[Some EXCEPT !.raw = <<c, c, c>>] : c \in Dated}

\* The flags, the lengths and the commands.
Flagged ==
  {[Plainest EXCEPT !.id = i, !.value = v, !.control = t, !.same_site = m,
                    !.secure = s, !.http_only = h, !.partitioned = p] :
     i \in Id, v \in {0, 1, 9}, t \in BOOLEAN, m \in SameSite,
     s \in BOOLEAN, h \in BOOLEAN, p \in BOOLEAN}

Strict == [DefaultPolicy EXCEPT !.require_secure = TRUE, !.deny_same_site_none = TRUE,
                                !.deny_empty_values = TRUE,
                                !.deny_name_prefixes = {"__Secure-"}]

OfFlags ==
  {[Some EXCEPT !.command = k, !.policy = p, !.keep_invalid = keep, !.raw = <<c>>,
                !.deny_warnings = keep, !.redact_values = keep,
                !.include_http_only = ~keep] :
     k \in Command \ {"query"}, p \in {DefaultPolicy, Strict}, keep \in BOOLEAN,
     c \in Flagged}

\* Any text of up to five lexemes, and of six or seven of fewer kinds.
Lexemes == {"and", "or", "not", ":", "(", ")", "u", "secure", "true"}

Texts ==
  UpTo(Lexemes, 4) \cup [1..5 -> Lexemes \ {":", "true"}]
    \cup {<<f, ":", v>> \o t : f \in Field, v \in Bool \cup SameSite \cup Word,
                               t \in UpTo({"and", "u", Unterminated}, 2)}
    \cup {<<"u", o>> \o t : o \in {"and", "or"},
            t \in [1..5 -> {"and", "or", "not", "(", ")", "v"}]}

OfQuery ==
  {[Some EXCEPT !.command = "query", !.query = q, !.keep_invalid = TRUE,
      !.raw = <<[Plainest EXCEPT !.expiration = 2], 
                [Plainest EXCEPT !.id = 2, !.domain = <<>>, !.secure = TRUE]>>,
      !.fallback = <<"a", ".", "A">>] : q \in Texts}
  \cup {[Some EXCEPT !.query = q, !.raw = <<Plainest>>] : q \in {<<"u">>, <<"not">>}}

\* TLC cannot enumerate Options, of which these are subsets.
MCInit ==
  /\ \/ job \in OfDomain \/ job \in OfPath \/ job \in OfAlike
     \/ job \in OfDate   \/ job \in OfFlags \/ job \in OfQuery
  /\ Given

MCSpec == MCInit /\ [][Next]_vars

TheHosts == [w \in Word |-> IF w = "u" THEN A ELSE <<" ", "A", ".", "a", ".">>]
TheNames == [w \in Word |-> IF w = "u" THEN {} ELSE {2}]
=============================================================================
