------------------------------- MODULE Policies -------------------------------
(***************************************************************************)
(* CookiePolicy::evaluate (rust/crates/luck-core/src/policy.rs).  A        *)
(* decision is the set of the rules that are violated; whether the cookie  *)
(* is denied follows from their risks.                                     *)
(***************************************************************************)
EXTENDS Validation

CONSTANTS
  Sensitive,      \* the names that contain session, auth or token
  MaximumBytes    \* of a whole cookie

ASSUME PolicyAssumption == Sensitive \subseteq Id /\ MaximumBytes \in Nat

Policy == [require_secure : BOOLEAN, deny_same_site_none : BOOLEAN,
           deny_session_cookies : BOOLEAN, deny_empty_values : BOOLEAN,
           deny_name_prefixes : SUBSET {"__Secure-", "__Host-"},
           deny_domain_suffixes : SUBSET Seq(Character),
           allow_domains : SUBSET Seq(Character)]

DefaultPolicy ==
  [require_secure |-> FALSE, deny_same_site_none |-> FALSE,
   deny_session_cookies |-> FALSE, deny_empty_values |-> FALSE,
   deny_name_prefixes |-> {}, deny_domain_suffixes |-> {}, allow_domains |-> {}]

\* A faulty Tolerable: a long lifetime is a High risk.
TolerableForAWhile == Warnings \cup {"policy.session", "policy.empty"}

\* The rules of Low and Medium risk: warnings of the validation are Low, its
\* errors are High.
Tolerable ==
  Warnings \cup {"policy.session", "policy.empty", "policy.lifetime"}

\* PolicyDecision::is_allowed.
is_allowed(rules) == rules \subseteq Tolerable

\* A suffix as the policy reads it: without the dots before it.
Plain(suffix) == Lowered(TrimStart(suffix, "."))

\* A faulty Named, which forgets to lower the domain.
NamedAsSpelled(c, suffixes) ==
  \E s \in suffixes : WithinDomain(normalized_domain(c), Plain(s))

\* The domain is one of those, or lies below one.
Named(c, suffixes) ==
  \E s \in suffixes : WithinDomain(Lowered(normalized_domain(c)), Plain(s))

DomainRules(policy, c) ==
  Issue("policy.domain_suffix", Named(c, policy.deny_domain_suffixes))
    \cup Issue("policy.domain_allowlist",
               /\ policy.allow_domains # {}
               /\ ~Named(c, policy.allow_domains))

evaluate(policy, c, now) ==
  validate_cookie(c, now)
    \cup Issue("policy.require_secure", policy.require_secure /\ ~c.secure)
    \cup Issue("policy.same_site_none",
               policy.deny_same_site_none /\ c.same_site = "none")
    \cup Issue("policy.session", policy.deny_session_cookies /\ effective_session(c))
    \cup Issue("policy.empty", policy.deny_empty_values /\ c.value = 0)
    \cup Issue("policy.sensitive_http_only", c.id \in Sensitive /\ ~c.http_only)
    \cup Issue("policy.name_prefix",
               ~c.padded /\ c.prefix \in policy.deny_name_prefixes)
    \cup DomainRules(policy, c)
    \cup Issue("policy.size", estimated_bytes(c) > MaximumBytes)
    \cup Issue("policy.lifetime", c.expiration > now + LongLifetime)
=============================================================================
