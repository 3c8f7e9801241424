------------------------------- MODULE Canonical -------------------------------
(***************************************************************************)
(* Canonicalization of a collection of cookies                             *)
(* (rust/crates/luck-core/src/canonical.rs) in its default configuration,  *)
(* with MaximumSegments for the 256 segments of a path.  The report of the *)
(* changes is left out.                                                    *)
(***************************************************************************)
EXTENDS CookieModel

CONSTANT MaximumSegments

ASSUME CanonicalAssumption == MaximumSegments \in Nat \ {0}

\* A faulty Step, which looks at the limit after the push.
StepPastLimit(walk, segment) ==
  IF walk.cut \/ segment \in {Empty, "."} THEN walk
  ELSE IF segment = ".." THEN [walk EXCEPT !.kept = IF @ = <<>> THEN @ ELSE Front(@)]
  ELSE IF Len(walk.kept) > MaximumSegments THEN [walk EXCEPT !.cut = TRUE]
  ELSE [walk EXCEPT !.kept = Append(@, segment)]

\* One turn of the loop of normalize_path; `cut` is its break.
Step(walk, segment) ==
  IF walk.cut \/ segment \in {Empty, "."} THEN walk
  ELSE IF segment = ".." THEN [walk EXCEPT !.kept = IF @ = <<>> THEN @ ELSE Front(@)]
  ELSE IF Len(walk.kept) >= MaximumSegments THEN [walk EXCEPT !.cut = TRUE]
  ELSE [walk EXCEPT !.kept = Append(@, segment)]

Walk(path) ==
  LET walk[i \in 0..Len(path)] ==
        IF i = 0 THEN [kept |-> <<>>, cut |-> FALSE] ELSE Step(walk[i - 1], path[i])
  IN walk[Len(path)]

\* A faulty normalize_path: what comes out empty stays empty.
NormalizedToNothing(path) ==
  LET kept == Walk(path).kept
  IN <<Empty>> \o kept \o (IF kept # <<>> /\ EndsWithSlash(path) THEN <<Empty>> ELSE <<>>)

\* normalize_path.  The slash that is put before a relative path adds an
\* empty segment, which the walk skips.
normalize_path(path) ==
  LET kept == Walk(path).kept
  IN IF kept = <<>> THEN Root
     ELSE <<Empty>> \o kept \o (IF EndsWithSlash(path) THEN <<Empty>> ELSE <<>>)

(***************************************************************************)
(* canonicalize.                                                           *)
(***************************************************************************)
\* A faulty CanonicalDomain, which keeps the dots.
CanonicalDomainDotted(domain) == Lowered(Trim(domain))

CanonicalDomain(domain) == TrimEnd(Lowered(Trim(domain)), ".")

\* A faulty Security, which goes by the host_only flag the cookie came with.
SecurityEarly(c, domain) ==
  LET host == c.prefix = "__Host-"
      reset == host /\ ~c.host_only
  IN [c EXCEPT !.secure = @ \/ c.same_site = "none" \/ c.prefix # "plain",
               !.path = IF host THEN Root ELSE @,
               !.domain = IF reset THEN TrimStart(domain, ".") ELSE domain,
               !.host_only = reset \/ ~StartsWithDot(domain)]

\* canonicalize_security of a cookie with a trimmed name, given the normalized
\* domain, which decides about host_only.
Security(c, domain) ==
  LET host == is_host_prefix(c)
  IN [c EXCEPT !.secure = @ \/ c.same_site = "none" \/ c.prefix # "plain",
               !.path = IF host THEN Root ELSE @,
               !.domain = IF host THEN TrimStart(domain, ".") ELSE domain,
               !.host_only = host \/ ~StartsWithDot(domain)]

canonicalize(c) ==
  Security([c EXCEPT !.padded = FALSE,
                     !.path = normalize_path(c.path),
                     !.session = c.expiration = NoDate],
           CanonicalDomain(c.domain))

\* Faulty: duplicates are looked for before the cookies are canonicalized.
CollectionKeptApart(list) ==
  {canonicalize(c) : c \in ToSet(deduplicate_last_wins(list))}

\* canonicalize_collection.  sort_stable puts the cookies that are left in an
\* order that only depends on which they are, so they are a set.
canonicalize_collection(list) ==
  ToSet(deduplicate_last_wins([i \in DOMAIN list |-> canonicalize(list[i])]))
=============================================================================
