------------------------------ MODULE Validation ------------------------------
(***************************************************************************)
(* The rules of luck-core for one cookie                                   *)
(* (rust/crates/luck-core/src/validation.rs), in the default               *)
(* configuration.  An issue is its code; the clock is read by the last     *)
(* rule only.  IP addresses, localhost and the length of names and labels  *)
(* are left out.                                                           *)
(***************************************************************************)
EXTENDS CookieModel

CONSTANTS
  MaximumValue, MaximumDomain, MaximumPath,   \* the lengths allowed
  LongLifetime                                \* 400 days

ASSUME ValidationAssumption ==
  /\ {MaximumValue, MaximumDomain, MaximumPath} \subseteq Nat \ {0}
  /\ LongLifetime \in Nat

Warnings == {"domain.single_label", "http_only.empty",
             "expiration.session_conflict", "expiration.long_lifetime"}

Issue(code, found) == IF found THEN {code} ELSE {}

validate_name(c) ==
  LET empty == c.id \in Nameless /\ c.prefix = "plain" /\ ~c.padded
  IN Issue("name.empty", empty) \cup Issue("name.invalid_character", c.padded)

validate_value(c) ==
  Issue("value.too_long", c.value > MaximumValue)
    \cup Issue("value.control_character", c.control)

validate_domain(c) ==
  LET d == TrimEnd(TrimStart(c.domain, "."), ".")
      empty_label == \E i \in 1..(Len(d) - 1) : d[i] = "." /\ d[i + 1] = "."
  IN IF c.domain = <<>> THEN {"domain.empty"}
     ELSE Issue("domain.too_long", Len(c.domain) > MaximumDomain)
          \cup IF d = <<>> THEN {"domain.invalid"}
               ELSE Issue("domain.empty_label", empty_label)
                    \cup Issue("domain.label_length", empty_label)
                    \cup Issue("domain.label_character", Contains(d, Space))
                    \cup Issue("domain.single_label", ~Contains(d, "."))

validate_path(c) ==
  Issue("path.slash", ~StartsWithSlash(c.path))
    \cup Issue("path.too_long", Len(c.path) > MaximumPath)
    \cup Issue("path.semicolon", Contains(c.path, Semicolon))

validate_security_flags(c) ==
  Issue("same_site.none_without_secure", c.same_site = "none" /\ ~c.secure)
    \cup Issue("http_only.empty", c.http_only /\ c.value = 0)
    \cup Issue("partitioned.not_secure", c.partitioned /\ ~c.secure)

validate_expiration(c, now) ==
  CASE c.expiration = NoDate   -> {}
    [] c.expiration \in {NaN, 0} -> {"expiration.invalid"}
    [] OTHER ->
         Issue("expiration.range", c.expiration > LastDate)
           \cup Issue("expiration.session_conflict", c.session)
           \cup Issue("expiration.long_lifetime", c.expiration > now + LongLifetime)

validate_prefixes(c) ==
  Issue("prefix.host.secure", is_host_prefix(c) /\ ~c.secure)
    \cup Issue("prefix.host.path", is_host_prefix(c) /\ c.path # Root)
    \cup Issue("prefix.host.domain",
               is_host_prefix(c) /\ (StartsWithDot(c.domain) \/ ~c.host_only))
    \cup Issue("prefix.secure", is_secure_prefix(c) /\ ~c.secure)

validate_cookie(c, now) ==
  validate_name(c) \cup validate_value(c) \cup validate_domain(c)
    \cup validate_path(c) \cup validate_security_flags(c)
    \cup validate_expiration(c, now) \cup validate_prefixes(c)

\* ValidationReport::is_valid: an issue that is no warning is an error.
is_valid(issues) == issues \subseteq Warnings
=============================================================================
