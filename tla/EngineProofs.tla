------------------------------ MODULE EngineProofs -----------------------------
(***************************************************************************)
(* Proofs about what luck-core makes of cookies: that the rules for a      *)
(* cookie give the same verdict at any time, what canonicalize does to     *)
(* names, domains and paths, what the commands of luck-cli promise about   *)
(* the cookies they put out, and that the parser of queries reads them as  *)
(* their grammar groups them, for all cookies, lists, policies, texts,     *)
(* limits and clocks.                                                      *)
(***************************************************************************)
EXTENDS Engine, NumberFacts, SequenceTheorems

-----------------------------------------------------------------------------
(***************************************************************************)
(* Policies. The clock moves between the questions that the engine asks    *)
(* about one cookie. What the rules say of it may change with the time,    *)
(* but never whether the cookie is valid, nor whether the policy allows    *)
(* it: for all cookies, policies and limits.                               *)
(***************************************************************************)

\* All rules but the one that reads the clock.
Timeless(c) ==
  validate_name(c) \cup validate_value(c) \cup validate_domain(c)
    \cup validate_path(c) \cup validate_security_flags(c) \cup validate_prefixes(c)

\* What the time decides is a warning.
LEMMA ExpirationErrors ==
  ASSUME NEW c, NEW t1, NEW t2
  PROVE  validate_expiration(c, t1) \subseteq validate_expiration(c, t2) \cup Warnings
<1> DEFINE timed(now) == Issue("expiration.long_lifetime",
                               c.expiration > now + LongLifetime)
           fixed == Issue("expiration.range", c.expiration > LastDate)
                      \cup Issue("expiration.session_conflict", c.session)
<1>1. timed(t1) \subseteq Warnings
  BY DEF Issue, Warnings
<1>2. CASE c.expiration = NoDate
  BY <1>2 DEF validate_expiration
<1>3. CASE c.expiration # NoDate /\ c.expiration \in {NaN, 0}
  BY <1>3 DEF validate_expiration
<1>4. CASE c.expiration # NoDate /\ c.expiration \notin {NaN, 0}
  <2>1. /\ validate_expiration(c, t1) = fixed \cup timed(t1)
        /\ validate_expiration(c, t2) = fixed \cup timed(t2)
    BY <1>4 DEF validate_expiration
  <2> HIDE DEF fixed, timed
  <2> QED BY <1>1, <2>1
<1> QED BY <1>2, <1>3, <1>4

\* What validate_cookie says at two times differs in warnings only.
LEMMA ValidationErrors ==
  ASSUME NEW c, NEW t1, NEW t2
  PROVE  validate_cookie(c, t1) \subseteq validate_cookie(c, t2) \cup Warnings
<1>1. \A now : validate_cookie(c, now) = Timeless(c) \cup validate_expiration(c, now)
  BY DEF validate_cookie, Timeless
<1> QED BY <1>1, ExpirationErrors

\* A cookie that parse_cookies accepts is valid whenever it is validated again,
\* if nothing else changed it (parse/mod.rs:100-117, engine.rs:96-100).
THEOREM ValidityIgnoresClock ==
  \A c, t1, t2 : is_valid(validate_cookie(c, t1)) => is_valid(validate_cookie(c, t2))
BY ValidationErrors DEF is_valid

\* What the policy denies for the report it denies for the filter, which asks
\* later (engine.rs:101, 124-134).
THEOREM VerdictIgnoresClock ==
  \A policy, c, t1, t2 :
    is_allowed(evaluate(policy, c, t1)) => is_allowed(evaluate(policy, c, t2))
<1> SUFFICES ASSUME NEW policy, NEW c, NEW t1, NEW t2
             PROVE  evaluate(policy, c, t2) \subseteq evaluate(policy, c, t1) \cup Tolerable
  BY DEF is_allowed
<1> DEFINE timed(now) == Issue("policy.lifetime", c.expiration > now + LongLifetime)
           fixed ==
             Issue("policy.require_secure", policy.require_secure /\ ~c.secure)
               \cup Issue("policy.same_site_none",
                          policy.deny_same_site_none /\ c.same_site = "none")
               \cup Issue("policy.session",
                          policy.deny_session_cookies /\ effective_session(c))
               \cup Issue("policy.empty", policy.deny_empty_values /\ c.value = 0)
               \cup Issue("policy.sensitive_http_only",
                          c.id \in Sensitive /\ ~c.http_only)
               \cup Issue("policy.name_prefix",
                          ~c.padded /\ c.prefix \in policy.deny_name_prefixes)
               \cup DomainRules(policy, c)
               \cup Issue("policy.size", estimated_bytes(c) > MaximumBytes)
<1>1. /\ evaluate(policy, c, t1) = validate_cookie(c, t1) \cup fixed \cup timed(t1)
      /\ evaluate(policy, c, t2) = validate_cookie(c, t2) \cup fixed \cup timed(t2)
  BY DEF evaluate
<1>2. timed(t2) \subseteq Tolerable /\ Warnings \subseteq Tolerable
  BY DEF Issue, Tolerable
<1> HIDE DEF fixed, timed
<1> QED BY <1>1, <1>2, ValidationErrors

-----------------------------------------------------------------------------
(***************************************************************************)
(* Lists: Retained, which models the loops that keep some of a list.       *)
(***************************************************************************)

\* The recursive function of Retained exists.
LEMMA RetainedDefined ==
  ASSUME NEW list, NEW places, Len(list) \in Nat
  PROVE  \E kept :
           /\ Retained(list, places) = kept[Len(list)]
           /\ kept[0] = <<>>
           /\ \A i \in 1..Len(list) : kept[i] =
                IF i \in places THEN Append(kept[i - 1], list[i]) ELSE kept[i - 1]
<1> DEFINE Following(g, i) == IF i \in places THEN Append(g[i - 1], list[i]) ELSE g[i - 1]
           Is(g, n) == g = [i \in 0..n |-> IF i = 0 THEN <<>> ELSE Following(g, i)]
           Good == {n \in Nat : \E g : Is(g, n)}
<1>1. 0 \in Good
  <2>1. Is([i \in 0..0 |-> <<>>], 0)
    OBVIOUS
  <2> QED BY <2>1
<1>2. ASSUME NEW n \in 1..Len(list), n - 1 \in Good PROVE n \in Good
  <2>1. n \in Nat /\ n - 1 \in Nat
    OBVIOUS
  <2>2. PICK g : Is(g, n - 1)
    BY <1>2
  <2>3. \A i \in 0..(n - 1) : g[i] = IF i = 0 THEN <<>> ELSE Following(g, i)
    BY <2>2
  <2> DEFINE h == [i \in 0..n |-> IF i < n THEN g[i] ELSE Following(g, i)]
  <2>4. ASSUME NEW i \in 0..n
        PROVE  h[i] = IF i = 0 THEN <<>> ELSE Following(h, i)
    <3>1. CASE i < n
      BY <2>1, <2>3, <3>1
    <3>2. CASE i = n
      BY <2>1, <3>2
    <3> QED BY <2>1, <3>1, <3>2
  <2>5. Is(h, n)
    BY <2>4
  <2> QED BY <2>1, <2>5
<1>3. Len(list) \in Good
  <2>1. Len(list) \in 0..Len(list)
    OBVIOUS
  <2> HIDE DEF Good
  <2> QED BY <1>1, <1>2, <2>1, Upward
<1> DEFINE kept == CHOOSE g : Is(g, Len(list))
<1>4. Is(kept, Len(list))
  BY <1>3
<1>5. Retained(list, places) = kept[Len(list)]
  BY DEF Retained
<1>6. \A i \in 0..Len(list) : kept[i] = IF i = 0 THEN <<>> ELSE Following(kept, i)
  BY <1>4
<1> HIDE DEF kept
<1> QED BY <1>5, <1>6

\* A sequence keeps the elements at the places that are retained.
LEMMA RetainedProperties ==
  ASSUME NEW S, NEW list \in Seq(S), NEW places
  PROVE  /\ Retained(list, places) \in Seq(S)
         /\ ToSet(Retained(list, places)) = {list[i] : i \in places \cap DOMAIN list}
         /\ DOMAIN list \subseteq places => Retained(list, places) = list
<1>1. Len(list) \in Nat /\ list \in [1..Len(list) -> S] /\ DOMAIN list = 1..Len(list)
  OBVIOUS
<1>2. PICK kept : /\ Retained(list, places) = kept[Len(list)]
                  /\ kept[0] = <<>>
                  /\ \A i \in 1..Len(list) : kept[i] =
                       IF i \in places THEN Append(kept[i - 1], list[i]) ELSE kept[i - 1]
  BY <1>1, RetainedDefined
<1> DEFINE P(n) == /\ kept[n] \in Seq(S)
                   /\ ToSet(kept[n]) = {list[i] : i \in places \cap (1..n)}
                   /\ DOMAIN list \subseteq places =>
                        Len(kept[n]) = n /\ \A i \in 1..n : kept[n][i] = list[i]
           Good == {n \in 0..Len(list) : P(n)}
<1>3. 0 \in Good
  <2>1. <<>> \in Seq(S) /\ ToSet(<<>>) = {} /\ Len(<<>>) = 0 /\ 1..0 = {}
    BY DEF ToSet
  <2>2. P(0)
    BY <1>2, <2>1
  <2> QED BY <1>1, <2>2
<1>4. ASSUME NEW n \in 1..Len(list), n - 1 \in Good PROVE n \in Good
  <2>1. n \in 0..Len(list) /\ n - 1 \in 0..Len(list) /\ list[n] \in S /\ P(n - 1)
    BY <1>1, <1>4
  <2>2. CASE n \in places
    <3> DEFINE s == kept[n - 1]
    <3>1. kept[n] = Append(s, list[n]) /\ s \in Seq(S)
      BY <1>2, <2>1, <2>2
    <3>2. /\ Append(s, list[n]) \in Seq(S) /\ Len(Append(s, list[n])) = Len(s) + 1
          /\ \A i \in 1..Len(s) : Append(s, list[n])[i] = s[i]
          /\ Append(s, list[n])[Len(s) + 1] = list[n]
          /\ DOMAIN Append(s, list[n]) = 1..(Len(s) + 1) /\ DOMAIN s = 1..Len(s)
          /\ Len(s) \in Nat
      BY <2>1, <3>1
    <3>3. ToSet(Append(s, list[n])) = ToSet(s) \cup {list[n]}
      <4> HIDE DEF s
      <4> QED BY <3>2 DEF ToSet
    <3>4. {list[i] : i \in places \cap (1..n)}
            = {list[i] : i \in places \cap (1..(n - 1))} \cup {list[n]}
      BY <2>1, <2>2
    <3>5. ASSUME DOMAIN list \subseteq places
          PROVE  Len(kept[n]) = n /\ \A i \in 1..n : kept[n][i] = list[i]
      BY <2>1, <3>1, <3>2, <3>5
    <3> QED BY <2>1, <3>1, <3>2, <3>3, <3>4, <3>5
  <2>3. CASE n \notin places
    <3>1. kept[n] = kept[n - 1] /\ n \in DOMAIN list
      BY <1>1, <1>2, <2>1, <2>3
    <3>2. {list[i] : i \in places \cap (1..n)} = {list[i] : i \in places \cap (1..(n - 1))}
      BY <2>1, <2>3
    <3> QED BY <2>1, <2>3, <3>1, <3>2
  <2> QED BY <2>2, <2>3
<1>5. P(Len(list))
  <2>1. Len(list) \in Good
    <3>1. Len(list) \in 0..Len(list)
      BY <1>1
    <3> HIDE DEF Good
    <3> QED BY <1>1, <1>3, <1>4, <3>1, Upward
  <2> QED BY <2>1
<1>6. ASSUME DOMAIN list \subseteq places PROVE Retained(list, places) = list
  BY <1>1, <1>2, <1>5, <1>6, SeqEqual
<1> QED BY <1>1, <1>2, <1>5, <1>6

-----------------------------------------------------------------------------
(***************************************************************************)
(* Strings: what trimming and lowering do to a sequence of characters.     *)
(***************************************************************************)

\* The least element of a set of natural numbers, as Min gives it.
LEMMA MinIs ==
  ASSUME NEW S, S \subseteq Nat, NEW x \in S, \A y \in S : x <= y
  PROVE  Min(S) = x
<1>1. Min(S) \in S /\ \A y \in S : Min(S) <= y
  BY DEF Min
<1>2. x \in Nat /\ Min(S) \in Nat /\ x <= Min(S) /\ Min(S) <= x
  BY <1>1
<1> QED BY <1>2

\* The greatest one, as Max gives it.
LEMMA MaxIs ==
  ASSUME NEW S, S \subseteq Nat, NEW x \in S, \A y \in S : y <= x
  PROVE  Max(S) = x
<1>1. Max(S) \in S /\ \A y \in S : y <= Max(S)
  BY DEF Max
<1>2. x \in Nat /\ Max(S) \in Nat /\ Max(S) <= x /\ x <= Max(S)
  BY <1>1
<1> QED BY <1>2

\* The part of a sequence between two places.
LEMMA PartOf ==
  ASSUME NEW S, NEW s \in Seq(S), NEW a \in 1..(Len(s) + 1), NEW b \in 0..Len(s), a <= b + 1
  PROVE  /\ SubSeq(s, a, b) \in Seq(S)
         /\ Len(SubSeq(s, a, b)) = b - a + 1
         /\ \A i \in 1..(b - a + 1) : SubSeq(s, a, b)[i] = s[a + i - 1]
OBVIOUS

\* Two sequences of the same length with the same elements are equal.
LEMMA SameSeq ==
  ASSUME NEW S, NEW s \in Seq(S), NEW T, NEW t \in Seq(T), Len(s) = Len(t),
         \A i \in 1..Len(s) : s[i] = t[i]
  PROVE  s = t
OBVIOUS

\* What a sequence starts with is dropped up to a place.
LEMMA TrimStartIs ==
  ASSUME NEW S, NEW s \in Seq(S), NEW dropped, NEW n \in 0..Len(s),
         \A i \in 1..n : s[i] = dropped, n < Len(s) => s[n + 1] # dropped
  PROVE  TrimStart(s, dropped) = SubSeq(s, n + 1, Len(s))
<1> DEFINE kept == {i \in 1..Len(s) : s[i] # dropped}
<1>1. Len(s) \in Nat
  OBVIOUS
<1>2. CASE n = Len(s)
  <2>1. kept = {}
    BY <1>2
  <2>2. SubSeq(s, n + 1, Len(s)) = <<>>
    BY <1>1, <1>2
  <2> QED BY <2>1, <2>2 DEF TrimStart
<1>3. CASE n < Len(s)
  <2>1. n + 1 \in kept /\ kept \subseteq Nat /\ \A i \in kept : n + 1 <= i
    BY <1>1, <1>3
  <2>2. Min(kept) = n + 1
    <3> HIDE DEF kept
    <3> QED BY <2>1, MinIs
  <2> QED BY <2>1, <2>2 DEF TrimStart
<1> QED BY <1>1, <1>2, <1>3

\* There always is such a place.
LEMMA TrimStartAt ==
  ASSUME NEW S, NEW s \in Seq(S), NEW dropped
  PROVE  \E n \in 0..Len(s) :
           /\ \A i \in 1..n : s[i] = dropped
           /\ n < Len(s) => s[n + 1] # dropped
           /\ TrimStart(s, dropped) = SubSeq(s, n + 1, Len(s))
<1> DEFINE kept == {i \in 1..Len(s) : s[i] # dropped}
<1>1. Len(s) \in Nat
  OBVIOUS
<1>2. CASE kept = {}
  <2>1. \A i \in 1..Len(s) : s[i] = dropped
    BY <1>2
  <2>2. TrimStart(s, dropped) = SubSeq(s, Len(s) + 1, Len(s))
    BY <1>1, <2>1, TrimStartIs
  <2> QED BY <1>1, <2>1, <2>2
<1>3. CASE kept # {}
  <2>1. PICK x \in kept : \A y \in kept : x <= y
    <3>1. kept \subseteq Nat
      OBVIOUS
    <3> HIDE DEF kept
    <3> QED BY <1>3, <3>1, Least
  <2>2. x \in 1..Len(s) /\ s[x] # dropped
    OBVIOUS
  <2>3. \A i \in 1..(x - 1) : s[i] = dropped
    <3>1. \A i \in 1..(x - 1) : i \in 1..Len(s) /\ ~(x <= i)
      BY <1>1, <2>2
    <3>2. \A i \in 1..(x - 1) : i \notin kept
      <4> HIDE DEF kept
      <4> QED BY <2>1, <3>1
    <3> QED BY <3>1, <3>2
  <2> DEFINE n == x - 1
  <2>4. n \in 0..Len(s) /\ n + 1 = x
    BY <1>1, <2>2
  <2>5. TrimStart(s, dropped) = SubSeq(s, n + 1, Len(s))
    <3> HIDE DEF kept
    <3>1. (\A i \in 1..n : s[i] = dropped) /\ (n < Len(s) => s[n + 1] # dropped)
      BY <2>2, <2>3, <2>4
    <3> HIDE DEF n
    <3> QED BY <2>4, <3>1, TrimStartIs
  <2>6. n < Len(s) => s[n + 1] # dropped
    BY <2>2, <2>4
  <2> HIDE DEF n
  <2> QED BY <2>3, <2>4, <2>5, <2>6
<1> QED BY <1>2, <1>3

\* What a sequence ends with is dropped down to a place.
LEMMA TrimEndIs ==
  ASSUME NEW S, NEW s \in Seq(S), NEW dropped, NEW n \in 0..Len(s),
         \A i \in (n + 1)..Len(s) : s[i] = dropped, n > 0 => s[n] # dropped
  PROVE  TrimEnd(s, dropped) = SubSeq(s, 1, n)
<1> DEFINE kept == {i \in 1..Len(s) : s[i] # dropped}
<1>1. Len(s) \in Nat
  OBVIOUS
<1>2. CASE n = 0
  <2>1. kept = {}
    BY <1>1, <1>2
  <2>2. SubSeq(s, 1, n) = <<>>
    BY <1>1, <1>2
  <2> QED BY <2>1, <2>2 DEF TrimEnd
<1>3. CASE n > 0
  <2>1. n \in kept /\ kept \subseteq Nat /\ \A i \in kept : i <= n
    BY <1>1, <1>3
  <2>2. Max(kept) = n
    <3> HIDE DEF kept
    <3> QED BY <2>1, MaxIs
  <2> QED BY <2>1, <2>2 DEF TrimEnd
<1> QED BY <1>1, <1>2, <1>3

\* There always is such a place.
LEMMA TrimEndAt ==
  ASSUME NEW S, NEW s \in Seq(S), NEW dropped
  PROVE  \E n \in 0..Len(s) :
           /\ \A i \in (n + 1)..Len(s) : s[i] = dropped
           /\ n > 0 => s[n] # dropped
           /\ TrimEnd(s, dropped) = SubSeq(s, 1, n)
<1> DEFINE kept == {i \in 1..Len(s) : s[i] # dropped}
<1>1. Len(s) \in Nat
  OBVIOUS
<1>2. CASE kept = {}
  <2>1. \A i \in 1..Len(s) : s[i] = dropped
    BY <1>2
  <2>2. TrimEnd(s, dropped) = SubSeq(s, 1, 0)
    BY <1>1, <2>1, TrimEndIs
  <2> QED BY <1>1, <2>1, <2>2
<1>3. CASE kept # {}
  <2>1. PICK x \in kept : \A y \in kept : y <= x
    <3>1. kept \subseteq 0..Len(s)
      OBVIOUS
    <3> HIDE DEF kept
    <3> QED BY <1>1, <1>3, <3>1, Greatest
  <2>2. x \in 1..Len(s) /\ s[x] # dropped
    OBVIOUS
  <2>3. \A i \in (x + 1)..Len(s) : s[i] = dropped
    <3>1. \A i \in (x + 1)..Len(s) : i \in 1..Len(s) /\ ~(i <= x)
      BY <1>1, <2>2
    <3>2. \A i \in (x + 1)..Len(s) : i \notin kept
      <4> HIDE DEF kept
      <4> QED BY <2>1, <3>1
    <3> QED BY <3>1, <3>2
  <2>4. TrimEnd(s, dropped) = SubSeq(s, 1, x)
    <3>1. x \in 0..Len(s) /\ (x > 0 => s[x] # dropped)
      BY <1>1, <2>2
    <3> HIDE DEF kept
    <3> QED BY <2>3, <3>1, TrimEndIs
  <2> QED BY <2>2, <2>3, <2>4
<1> QED BY <1>2, <1>3

\* What to_ascii_lowercase does at each place, and that it settles.
LEMMA LoweredProperties ==
  ASSUME NEW s \in Seq(Character)
  PROVE  /\ Lowered(s) \in Seq(Character) /\ Len(Lowered(s)) = Len(s)
         /\ \A i \in 1..Len(s) : Lowered(s)[i] = IF s[i] = "A" THEN "a" ELSE s[i]
         /\ Lowered(Lowered(s)) = Lowered(s)
<1>1. Len(s) \in Nat /\ DOMAIN s = 1..Len(s) /\ \A i \in 1..Len(s) : s[i] \in Character
  OBVIOUS
<1>2. Lowered(s) = [i \in 1..Len(s) |-> IF s[i] = "A" THEN "a" ELSE s[i]]
  BY <1>1 DEF Lowered
<1>3. \A i \in 1..Len(s) : Lowered(s)[i] = (IF s[i] = "A" THEN "a" ELSE s[i])
                           /\ Lowered(s)[i] \in Character /\ Lowered(s)[i] # "A"
  BY <1>1, <1>2 DEF Character
<1>4. Lowered(s) \in Seq(Character) /\ Len(Lowered(s)) = Len(s) /\ DOMAIN Lowered(s) = 1..Len(s)
  BY <1>1, <1>2, <1>3
<1>5. Lowered(Lowered(s)) = [i \in 1..Len(s) |-> IF Lowered(s)[i] = "A" THEN "a" ELSE Lowered(s)[i]]
  BY <1>4 DEF Lowered
<1>6. Lowered(Lowered(s)) = Lowered(s)
  BY <1>2, <1>3, <1>5
<1> QED BY <1>3, <1>4, <1>6

\* A string without its dots at either end.
Bare(s, a, b) ==
  /\ a \in 1..Len(s) /\ b \in a..Len(s)
  /\ s[a] # "." /\ s[b] # "."
  /\ \A i \in 1..Len(s) : i < a \/ i > b => s[i] = "."

\* What trimming the dots makes of such a string.
LEMMA BareIs ==
  ASSUME NEW S, NEW s \in Seq(S), NEW a, NEW b, Bare(s, a, b)
  PROVE  /\ TrimEnd(TrimStart(s, "."), ".") = SubSeq(s, a, b)
         /\ TrimStart(s, ".") = SubSeq(s, a, Len(s))
         /\ TrimEnd(s, ".") = SubSeq(s, 1, b)
<1>1. /\ Len(s) \in Nat /\ a \in 1..Len(s) /\ b \in a..Len(s)
      /\ s[a] # "." /\ s[b] # "."
      /\ \A i \in 1..Len(s) : i < a \/ i > b => s[i] = "."
  BY DEF Bare
<1> DEFINE t == SubSeq(s, a, Len(s))
           m == a - 1
<1>2. TrimStart(s, ".") = t
  <2>1. m \in 0..Len(s) /\ m + 1 = a /\ \A i \in 1..m : s[i] = "."
    BY <1>1
  <2> HIDE DEF m
  <2> QED BY <1>1, <2>1, TrimStartIs
<1>3. /\ t \in Seq(S) /\ Len(t) = Len(s) - a + 1
      /\ \A i \in 1..(Len(s) - a + 1) : t[i] = s[a + i - 1]
  BY <1>1, PartOf
<1> HIDE DEF t
<1> DEFINE n == b - a + 1
<1>4. TrimEnd(t, ".") = SubSeq(t, 1, n)
  <2>1. n \in 0..Len(t) /\ n > 0 /\ t[n] # "."
    <3>1. n \in 1..(Len(s) - a + 1) /\ a + n - 1 = b
      BY <1>1
    <3> HIDE DEF n
    <3>2. t[n] = s[a + n - 1]
      BY <1>3, <3>1
    <3> QED BY <1>1, <1>3, <3>1, <3>2
  <2>2. \A i \in (n + 1)..Len(t) : t[i] = "."
    <3>1. \A i \in (n + 1)..Len(t) : i \in 1..(Len(s) - a + 1) /\ a + i - 1 \in 1..Len(s) /\ a + i - 1 > b
      BY <1>1, <1>3
    <3> QED BY <1>1, <1>3, <3>1
  <2> HIDE DEF n
  <2> QED BY <1>3, <2>1, <2>2, TrimEndIs
<1>5. SubSeq(t, 1, n) = SubSeq(s, a, b)
  <2>1. /\ SubSeq(s, a, b) \in Seq(S) /\ Len(SubSeq(s, a, b)) = n
        /\ \A i \in 1..n : SubSeq(s, a, b)[i] = s[a + i - 1]
    BY <1>1, PartOf
  <2>2. /\ SubSeq(t, 1, n) \in Seq(S) /\ Len(SubSeq(t, 1, n)) = n
        /\ \A i \in 1..n : SubSeq(t, 1, n)[i] = t[i]
    BY <1>1, <1>3
  <2>3. \A i \in 1..n : i \in 1..(Len(s) - a + 1)
    BY <1>1
  <2>4. \A i \in 1..n : SubSeq(t, 1, n)[i] = SubSeq(s, a, b)[i]
    <3> HIDE DEF n
    <3> QED BY <1>3, <2>1, <2>2, <2>3
  <2> DEFINE x == SubSeq(t, 1, n)
             y == SubSeq(s, a, b)
  <2> HIDE DEF n, x, y
  <2>5. x = y
    <3>1. x \in Seq(S) /\ y \in Seq(S) /\ Len(x) = Len(y) /\ \A i \in 1..Len(x) : x[i] = y[i]
      BY <2>1, <2>2, <2>4 DEF x, y
    <3> QED BY <3>1, SameSeq
  <2> QED BY <2>5 DEF x, y
<1>6. TrimEnd(s, ".") = SubSeq(s, 1, b)
  <2>1. b \in 0..Len(s) /\ \A i \in (b + 1)..Len(s) : i \in 1..Len(s) /\ i > b
    BY <1>1
  <2> QED BY <1>1, <2>1, TrimEndIs
<1> QED BY <1>2, <1>4, <1>5, <1>6 DEF t

\* A string that is not all dots is of this form.
LEMMA HasBare ==
  ASSUME NEW S, NEW s \in Seq(S), TrimEnd(TrimStart(s, "."), ".") # <<>>
  PROVE  \E a, b : Bare(s, a, b)
<1>1. PICK m \in 0..Len(s) : /\ \A i \in 1..m : s[i] = "."
                             /\ m < Len(s) => s[m + 1] # "."
                             /\ TrimStart(s, ".") = SubSeq(s, m + 1, Len(s))
  BY TrimStartAt
<1> DEFINE t == SubSeq(s, m + 1, Len(s))
<1>2. /\ t \in Seq(S) /\ Len(t) = Len(s) - m /\ Len(s) \in Nat
      /\ \A i \in 1..(Len(s) - m) : t[i] = s[m + i]
  OBVIOUS
<1> HIDE DEF t
<1>3. PICK n \in 0..Len(t) : /\ \A i \in (n + 1)..Len(t) : t[i] = "."
                             /\ n > 0 => t[n] # "."
                             /\ TrimEnd(t, ".") = SubSeq(t, 1, n)
  BY <1>2, TrimEndAt
<1>4. n > 0
  <2>1. SubSeq(t, 1, 0) = <<>>
    BY <1>2
  <2>2. TrimEnd(TrimStart(s, "."), ".") = SubSeq(t, 1, n)
    BY <1>1, <1>3 DEF t
  <2> QED BY <1>2, <1>3, <2>1, <2>2
<1>5. m + 1 \in 1..Len(s) /\ m + n \in (m + 1)..Len(s) /\ s[m + 1] # "." /\ s[m + n] # "."
  BY <1>1, <1>2, <1>3, <1>4
<1>6. ASSUME NEW i \in 1..Len(s), i < m + 1 \/ i > m + n PROVE s[i] = "."
  <2>1. CASE i < m + 1
    BY <1>1, <2>1
  <2>2. CASE i > m + n
    <3>1. i - m \in (n + 1)..Len(t) /\ i - m \in 1..(Len(s) - m) /\ m + (i - m) = i
      BY <1>2, <1>3, <2>2
    <3> QED BY <1>2, <1>3, <3>1
  <2> QED BY <1>6, <2>1, <2>2
<1>7. Bare(s, m + 1, m + n)
  BY <1>5, <1>6 DEF Bare
<1> QED BY <1>7

-----------------------------------------------------------------------------
(***************************************************************************)
(* What a domain lies in.                                                  *)
(***************************************************************************)

\* Equal to a domain, or ending in a dot and that domain: domain_matches and
\* its like, place by place.
LEMMA WithinIs ==
  ASSUME NEW u \in Seq(Character), NEW p \in Seq(Character)
  PROVE  WithinDomain(u, p) <=>
           \/ u = p
           \/ /\ Len(p) < Len(u)
              /\ u[Len(u) - Len(p)] = "."
              /\ \A i \in 1..Len(p) : u[Len(u) - Len(p) + i] = p[i]
<1> DEFINE q == <<".">> \o p
           m == Len(q)
           n == Len(u)
           x == Reverse(q)
           y == Reverse(u)
<1>1. /\ Len(p) \in Nat /\ n \in Nat /\ m = Len(p) + 1 /\ m \in Nat
      /\ q[1] = "." /\ \A i \in 1..Len(p) : q[i + 1] = p[i]
      /\ q \in Seq(Character)
  BY DEF Character
<1> HIDE DEF q
<1>2. /\ x = [i \in 1..m |-> q[m - i + 1]] /\ y = [i \in 1..n |-> u[n - i + 1]]
  BY DEF Reverse
<1>3. x \in Seq(Character) /\ y \in Seq(Character) /\ Len(x) = m /\ Len(y) = n
  <2>1. \A i \in 1..m : m - i + 1 \in 1..m /\ q[m - i + 1] \in Character
    BY <1>1
  <2>2. \A i \in 1..n : n - i + 1 \in 1..n /\ u[n - i + 1] \in Character
    BY <1>1
  <2> HIDE DEF m, n
  <2> QED BY <1>1, <1>2, <2>1, <2>2
<1>4. IsSuffix(q, u) <=> m <= n /\ \A i \in 1..m : q[m - i + 1] = u[n - i + 1]
  <2>1. IsSuffix(q, u) <=> Len(x) <= Len(y) /\ SubSeq(x, 1, Len(x)) = SubSeq(y, 1, Len(x))
    BY DEF IsSuffix, IsPrefix
  <2> HIDE DEF m, n, x, y
  <2>2. ASSUME m <= n
        PROVE  SubSeq(x, 1, m) = SubSeq(y, 1, m) <=> \A i \in 1..m : x[i] = y[i]
    <3>1. /\ SubSeq(x, 1, m) = [i \in 1..m |-> x[i]]
          /\ SubSeq(y, 1, m) = [i \in 1..m |-> y[i]]
      BY <1>1, <1>3, <2>2
    <3> QED BY <3>1
  <2>3. m <= n => \A i \in 1..m : i \in 1..n
    BY <1>1
  <2> QED BY <1>2, <1>3, <2>1, <2>2, <2>3
<1>5. (m <= n /\ \A i \in 1..m : q[m - i + 1] = u[n - i + 1]) <=>
        /\ Len(p) < n
        /\ u[n - Len(p)] = "."
        /\ \A i \in 1..Len(p) : u[n - Len(p) + i] = p[i]
  <2> HIDE DEF m, n
  <2>1. ASSUME m <= n, \A i \in 1..m : q[m - i + 1] = u[n - i + 1]
        PROVE  /\ Len(p) < n
               /\ u[n - Len(p)] = "."
               /\ \A i \in 1..Len(p) : u[n - Len(p) + i] = p[i]
    <3>1. q[m - m + 1] = u[n - m + 1] /\ m - m + 1 = 1 /\ n - m + 1 = n - Len(p)
      BY <1>1, <2>1
    <3>2. ASSUME NEW i \in 1..Len(p) PROVE u[n - Len(p) + i] = p[i]
      <4>1. /\ m - i \in 1..m /\ m - (m - i) + 1 = i + 1
            /\ n - (m - i) + 1 = n - Len(p) + i
        BY <1>1, <2>1
      <4>2. q[m - (m - i) + 1] = u[n - (m - i) + 1]
        BY <2>1, <4>1
      <4> QED BY <1>1, <4>1, <4>2
    <3> QED BY <1>1, <2>1, <3>1, <3>2
  <2>2. ASSUME Len(p) < n, u[n - Len(p)] = ".",
               \A i \in 1..Len(p) : u[n - Len(p) + i] = p[i]
        PROVE  m <= n /\ \A i \in 1..m : q[m - i + 1] = u[n - i + 1]
    <3>1. ASSUME NEW i \in 1..m PROVE q[m - i + 1] = u[n - i + 1]
      <4>1. CASE i = m
        <5>1. m - i + 1 = 1 /\ n - i + 1 = n - Len(p)
          BY <1>1, <4>1, <2>2
        <5> QED BY <1>1, <2>2, <5>1
      <4>2. CASE i # m
        <5>1. m - i \in 1..Len(p) /\ n - Len(p) + (m - i) = n - i + 1
          BY <1>1, <4>2
        <5>2. u[n - Len(p) + (m - i)] = p[m - i] /\ q[m - i + 1] = p[m - i]
          BY <1>1, <2>2, <5>1
        <5> QED BY <5>1, <5>2
      <4> QED BY <4>1, <4>2
    <3> QED BY <1>1, <2>2, <3>1
  <2> QED BY <2>1, <2>2
<1> QED BY <1>4, <1>5 DEF WithinDomain, q

\* More dots before a domain do not take it out of another one.
LEMMA DotsBefore ==
  ASSUME NEW u \in Seq(Character), NEW v \in Seq(Character), NEW p \in Seq(Character),
         NEW n \in Nat, Len(v) = n + Len(u),
         \A i \in 1..Len(u) : v[n + i] = u[i], \A i \in 1..n : v[i] = ".",
         WithinDomain(u, p)
  PROVE  WithinDomain(v, p)
<1>1. Len(u) \in Nat /\ Len(v) \in Nat /\ Len(p) \in Nat
  OBVIOUS
<1>2. CASE u = p /\ n = 0
  <2>1. \A i \in 1..Len(u) : v[i] = u[i]
    BY <1>1, <1>2
  <2>2. v = u
    BY <1>1, <1>2, <2>1, SameSeq
  <2> QED BY <1>2, <2>2, WithinIs
<1>3. CASE u = p /\ n # 0
  <2>1. /\ Len(p) < Len(v) /\ Len(v) - Len(p) = n /\ v[n] = "."
    BY <1>1, <1>3
  <2>2. \A i \in 1..Len(p) : v[Len(v) - Len(p) + i] = p[i]
    BY <1>1, <1>3, <2>1
  <2> QED BY <2>1, <2>2, WithinIs
<1>4. CASE u # p
  <2>1. /\ Len(p) < Len(u)
        /\ u[Len(u) - Len(p)] = "."
        /\ \A i \in 1..Len(p) : u[Len(u) - Len(p) + i] = p[i]
    BY <1>4, WithinIs
  <2> DEFINE k == Len(u) - Len(p)
  <2>2. k \in 1..Len(u) /\ Len(v) - Len(p) = n + k /\ k + Len(p) = Len(u)
    BY <1>1, <2>1
  <2> HIDE DEF k
  <2>3. v[n + k] = "."
    BY <2>1, <2>2 DEF k
  <2>4. ASSUME NEW i \in 1..Len(p) PROVE v[(n + k) + i] = p[i]
    <3>1. k + i \in 1..Len(u) /\ n + (k + i) = (n + k) + i
      BY <1>1, <2>2
    <3>2. v[n + (k + i)] = u[k + i] /\ u[k + i] = p[i]
      BY <2>1, <3>1 DEF k
    <3> QED BY <3>1, <3>2
  <2> DEFINE m == Len(v) - Len(p)
  <2>5. m = n + k /\ Len(p) < Len(v)
    BY <1>1, <2>1, <2>2
  <2> HIDE DEF m
  <2>6. v[m] = "." /\ \A i \in 1..Len(p) : v[m + i] = p[i]
    BY <2>3, <2>4, <2>5
  <2> QED BY <2>5, <2>6, WithinIs DEF m
<1> QED BY <1>2, <1>3, <1>4

-----------------------------------------------------------------------------
(***************************************************************************)
(* Paths: the loop of normalize_path.                                      *)
(***************************************************************************)

\* The segments that are names.
Ordinary == Segment \ {Empty, ".", ".."}

\* The spellings that CanonicalAssumption keeps apart.
LEMMA Spelled ==
  /\ Empty \notin {".", "..", "a", "b", Semicolon}
  /\ Semicolon \notin {Empty, ".", "..", "a", "b"}
  /\ Space \notin {".", "A", "a"}
BY Zenon DEF Empty, Semicolon, Space

\* What the loop of normalize_path holds, and the same while it goes on.
Walked == [kept : Seq(Ordinary), cut : BOOLEAN]

Going(kept) == [kept |-> kept, cut |-> FALSE]

\* The recursive function of Walk exists.
LEMMA WalkDefined ==
  ASSUME NEW path, Len(path) \in Nat
  PROVE  \E walk :
           /\ Walk(path) = walk[Len(path)]
           /\ walk[0] = Going(<<>>)
           /\ \A i \in 1..Len(path) : walk[i] = Step(walk[i - 1], path[i])
<1> DEFINE begin == Going(<<>>)
           Is(g, n) == g = [i \in 0..n |-> IF i = 0 THEN begin ELSE Step(g[i - 1], path[i])]
           Good == {n \in Nat : \E g : Is(g, n)}
<1>1. 0 \in Good
  <2>1. Is([i \in 0..0 |-> begin], 0)
    OBVIOUS
  <2> QED BY <2>1
<1>2. ASSUME NEW n \in 1..Len(path), n - 1 \in Good PROVE n \in Good
  <2>1. n \in Nat /\ n - 1 \in Nat
    OBVIOUS
  <2>2. PICK g : Is(g, n - 1)
    BY <1>2
  <2>3. \A i \in 0..(n - 1) : g[i] = IF i = 0 THEN begin ELSE Step(g[i - 1], path[i])
    BY <2>2
  <2> DEFINE h == [i \in 0..n |-> IF i < n THEN g[i] ELSE Step(g[i - 1], path[i])]
  <2>4. ASSUME NEW i \in 0..n
        PROVE  h[i] = IF i = 0 THEN begin ELSE Step(h[i - 1], path[i])
    <3>1. CASE i = 0
      BY <2>1, <2>3, <3>1
    <3>2. CASE i # 0
      <4>1. i - 1 \in 0..n /\ i - 1 < n /\ h[i - 1] = g[i - 1]
        BY <2>1, <3>2
      <4>2. h[i] = Step(g[i - 1], path[i])
        <5>1. CASE i < n
          <6>1. h[i] = g[i] /\ i \in 0..(n - 1)
            BY <2>1, <5>1
          <6> QED BY <2>3, <3>2, <6>1
        <5>2. CASE i = n
          BY <2>1, <5>2
        <5> QED BY <2>1, <5>1, <5>2
      <4> QED BY <3>2, <4>1, <4>2
    <3> QED BY <3>1, <3>2
  <2>5. Is(h, n)
    <3> HIDE DEF begin
    <3> QED BY <2>4
  <2> QED BY <2>1, <2>5
<1>3. Len(path) \in Good
  <2>1. Len(path) \in 0..Len(path)
    OBVIOUS
  <2> HIDE DEF Good
  <2> QED BY <1>1, <1>2, <2>1, Upward
<1> DEFINE walk == CHOOSE g : Is(g, Len(path))
<1>4. Is(walk, Len(path))
  BY <1>3
<1>5. Walk(path) = walk[Len(path)]
  BY DEF Walk, Going
<1>6. \A i \in 0..Len(path) : walk[i] = IF i = 0 THEN begin ELSE Step(walk[i - 1], path[i])
  <2> HIDE DEF begin
  <2> QED BY <1>4
<1> HIDE DEF walk
<1> QED BY <1>5, <1>6

\* One segment adds at most itself, and nothing beyond the limit.
LEMMA StepTyped ==
  ASSUME NEW w \in Walked, NEW s \in Segment, Len(w.kept) <= MaximumSegments
  PROVE  /\ Step(w, s) \in Walked
         /\ Len(Step(w, s).kept) <= MaximumSegments
         /\ Len(Step(w, s).kept) <= IF s = Empty THEN Len(w.kept) ELSE Len(w.kept) + 1
         /\ ToSet(Step(w, s).kept) \subseteq ToSet(w.kept) \cup {s}
<1>1. w.kept \in Seq(Ordinary) /\ w.cut \in BOOLEAN /\ w = [kept |-> w.kept, cut |-> w.cut]
  BY DEF Walked
<1> DEFINE k == w.kept
           n == Len(k)
<1>2. n \in Nat /\ MaximumSegments \in Nat
  BY <1>1, CanonicalAssumption
<1>3. CASE w.cut \/ s \in {Empty, "."}
  BY <1>1, <1>2, <1>3 DEF Step, ToSet
<1>4. CASE ~w.cut /\ s = ".."
  <2>1. CASE k = <<>>
    <3>1. Step(w, s) = w
      BY <1>1, <1>4, <2>1 DEF Step
    <3> QED BY <1>2, <1>4, <3>1
  <2>2. CASE k # <<>>
    <3> DEFINE f == SubSeq(k, 1, n - 1)
    <3>1. Step(w, s) = [kept |-> f, cut |-> w.cut]
      BY <1>1, <1>4, <2>2, Spelled DEF Step, Front
    <3>2. n > 0
      BY <1>1, <2>2
    <3>3. f \in Seq(Ordinary) /\ Len(f) = n - 1 /\ \A i \in 1..(n - 1) : f[i] = k[i]
      <4>1. k \in Seq(Ordinary) /\ 1 \in 1..(Len(k) + 1) /\ n - 1 \in 0..Len(k) /\ 1 <= (n - 1) + 1
        BY <1>1, <1>2, <3>2
      <4>2. (n - 1) - 1 + 1 = n - 1 /\ \A i \in 1..(n - 1) : 1 + i - 1 = i
        BY <1>2, <3>2
      <4> HIDE DEF k, n
      <4>3. f \in Seq(Ordinary) /\ Len(f) = (n - 1) - 1 + 1
            /\ \A i \in 1..((n - 1) - 1 + 1) : f[i] = k[1 + i - 1]
        BY <4>1, PartOf
      <4> QED BY <4>2, <4>3
    <3>4. ToSet(f) \subseteq ToSet(k)
      <4>1. DOMAIN f = 1..(n - 1) /\ DOMAIN k = 1..n
        BY <1>1, <3>3
      <4> HIDE DEF f
      <4> QED BY <1>2, <3>3, <4>1 DEF ToSet
    <3> HIDE DEF f
    <3> QED BY <1>1, <1>2, <1>4, <3>1, <3>2, <3>3, <3>4 DEF Walked
  <2> QED BY <2>1, <2>2
<1>5. CASE ~w.cut /\ s \in Ordinary /\ n >= MaximumSegments
  <2>1. Step(w, s) = [kept |-> k, cut |-> TRUE]
    BY <1>1, <1>5 DEF Step, Ordinary
  <2> QED BY <1>1, <1>2, <1>5, <2>1 DEF Walked
<1>6. CASE ~w.cut /\ s \in Ordinary /\ ~(n >= MaximumSegments)
  <2> DEFINE a == Append(k, s)
  <2>1. Step(w, s) = [kept |-> a, cut |-> w.cut]
    BY <1>1, <1>6 DEF Step, Ordinary
  <2>2. /\ a \in Seq(Ordinary) /\ Len(a) = n + 1 /\ DOMAIN a = 1..(n + 1) /\ DOMAIN k = 1..n
        /\ \A i \in 1..n : a[i] = k[i] /\ a[n + 1] = s
    BY <1>1, <1>6
  <2>3. a[n + 1] = s
    BY <1>1, <1>6
  <2>4. ToSet(a) \subseteq ToSet(k) \cup {s}
    <3> HIDE DEF a
    <3> QED BY <1>2, <2>2, <2>3 DEF ToSet
  <2> HIDE DEF a
  <2>5. s # Empty
    BY <1>6 DEF Ordinary
  <2> QED BY <1>1, <1>2, <1>6, <2>1, <2>2, <2>4, <2>5 DEF Walked
<1> QED BY <1>3, <1>4, <1>5, <1>6 DEF Ordinary

\* A walk keeps names of the path, no more than the limit, and no more than
\* there are segments beside the empty ones at either end.
LEMMA WalkTyped ==
  ASSUME NEW path \in Seq(Segment)
  PROVE  /\ Walk(path) \in Walked
         /\ Len(Walk(path).kept) <= MaximumSegments
         /\ Len(Walk(path).kept) <= Len(path)
         /\ ToSet(Walk(path).kept) \subseteq ToSet(path)
         /\ StartsWithSlash(path) =>
              Len(Walk(path).kept) <= Len(path) - (IF Last(path) = Empty THEN 2 ELSE 1)
<1>1. Len(path) \in Nat /\ DOMAIN path = 1..Len(path) /\ \A i \in 1..Len(path) : path[i] \in Segment
  OBVIOUS
<1>2. PICK walk : /\ Walk(path) = walk[Len(path)]
                  /\ walk[0] = Going(<<>>)
                  /\ \A i \in 1..Len(path) : walk[i] = Step(walk[i - 1], path[i])
  BY <1>1, WalkDefined
<1> DEFINE P(n) ==
      /\ walk[n] \in Walked
      /\ Len(walk[n].kept) <= MaximumSegments
      /\ Len(walk[n].kept) <= n
      /\ ToSet(walk[n].kept) \subseteq ToSet(path)
      /\ n > 0 /\ path[1] = Empty => Len(walk[n].kept) <= n - 1
    Good == {n \in 0..Len(path) : P(n)}
<1>3. 0 \in Good
  <2>1. <<>> \in Seq(Ordinary) /\ Len(<<>>) = 0 /\ ToSet(<<>>) = {}
    BY DEF ToSet
  <2>2. walk[0].kept = <<>> /\ walk[0] \in Walked
    BY <1>2, <2>1 DEF Walked, Going
  <2> QED BY <1>1, <2>1, <2>2, CanonicalAssumption
<1>4. ASSUME NEW n \in 1..Len(path), n - 1 \in Good PROVE n \in Good
  <2>1. n \in 0..Len(path) /\ n - 1 \in Nat /\ P(n - 1)
    BY <1>4
  <2> DEFINE w == walk[n - 1]
  <2>2. /\ walk[n] = Step(w, path[n]) /\ path[n] \in ToSet(path) /\ path[n] \in Segment
    BY <1>1, <1>2 DEF ToSet
  <2>3. /\ w \in Walked /\ Len(w.kept) <= MaximumSegments /\ Len(w.kept) <= n - 1
        /\ ToSet(w.kept) \subseteq ToSet(path)
        /\ n - 1 > 0 /\ path[1] = Empty => Len(w.kept) <= n - 2
    BY <2>1
  <2>4. Len(w.kept) \in Nat
    BY <2>3 DEF Walked
  <2> HIDE DEF w
  <2>5. /\ walk[n] \in Walked
        /\ Len(walk[n].kept) <= MaximumSegments
        /\ Len(walk[n].kept) <= IF path[n] = Empty THEN Len(w.kept) ELSE Len(w.kept) + 1
        /\ ToSet(walk[n].kept) \subseteq ToSet(w.kept) \cup {path[n]}
    <3> DEFINE g == path[n]
    <3>1. walk[n] = Step(w, g) /\ g \in Segment
      BY <2>2
    <3> HIDE DEF g
    <3>2. /\ Step(w, g) \in Walked
          /\ Len(Step(w, g).kept) <= MaximumSegments
          /\ Len(Step(w, g).kept) <= IF g = Empty THEN Len(w.kept) ELSE Len(w.kept) + 1
          /\ ToSet(Step(w, g).kept) \subseteq ToSet(w.kept) \cup {g}
      BY <2>3, <3>1, StepTyped
    <3> QED BY <3>1, <3>2 DEF g
  <2>6. Len(walk[n].kept) \in Nat
    BY <2>5 DEF Walked
  <2>7. Len(walk[n].kept) <= n
    BY <2>1, <2>3, <2>4, <2>5, <2>6
  <2>8. ASSUME path[1] = Empty PROVE Len(walk[n].kept) <= n - 1
    <3>1. CASE n = 1
      BY <2>3, <2>4, <2>5, <2>6, <2>8, <3>1
    <3>2. CASE n # 1
      BY <2>1, <2>3, <2>4, <2>5, <2>6, <2>8, <3>2
    <3> QED BY <3>1, <3>2
  <2> QED BY <2>1, <2>2, <2>3, <2>5, <2>7, <2>8
<1>5. ASSUME NEW n \in 0..Len(path) PROVE P(n)
  <2>1. n \in Good
    <3> HIDE DEF Good
    <3> QED BY <1>1, <1>3, <1>4, Upward
  <2> QED BY <2>1
<1> HIDE DEF P
<1>6. P(Len(path))
  BY <1>1, <1>5
<1>7. ASSUME StartsWithSlash(path)
      PROVE  Len(Walk(path).kept) <= Len(path) - (IF Last(path) = Empty THEN 2 ELSE 1)
  <2>1. Len(path) > 1 /\ path[1] = Empty /\ Last(path) = path[Len(path)]
    BY <1>7 DEF StartsWithSlash, Last
  <2>2. CASE Last(path) # Empty
    BY <1>1, <1>2, <1>6, <2>1, <2>2 DEF P
  <2>3. CASE Last(path) = Empty
    <3> DEFINE n == Len(path)
               w == walk[n - 1]
    <3>1. n - 1 \in 0..n /\ n \in 1..n /\ n - 1 > 0
      BY <1>1, <2>1
    <3>2. P(n - 1)
      BY <1>5, <3>1
    <3>3. w \in Walked /\ Len(w.kept) <= MaximumSegments /\ Len(w.kept) <= n - 2
      BY <1>1, <2>1, <3>1, <3>2 DEF P
    <3>4. walk[n] = Step(w, Empty)
      BY <1>2, <2>1, <2>3, <3>1
    <3>5. Empty \in Segment
      BY DEF Segment
    <3> HIDE DEF w
    <3>6. Len(walk[n].kept) <= Len(w.kept) /\ walk[n] \in Walked
      BY <3>3, <3>4, <3>5, StepTyped
    <3>7. Len(w.kept) \in Nat /\ Len(walk[n].kept) \in Nat
      BY <3>3, <3>6 DEF Walked
    <3>8. Walk(path) = walk[n]
      BY <1>2
    <3> HIDE DEF n
    <3>9. Len(walk[n].kept) <= n - 2 /\ n = Len(path)
      BY <1>1, <3>3, <3>6, <3>7 DEF n
    <3> QED BY <2>3, <3>8, <3>9
  <2> QED BY <2>2, <2>3
<1> QED BY <1>2, <1>6, <1>7 DEF P

\* An element put before a sequence, and behind one.
LEMMA Before ==
  ASSUME NEW S, NEW x \in S, NEW s \in Seq(S)
  PROVE  /\ <<x>> \o s \in Seq(S) /\ Len(<<x>> \o s) = Len(s) + 1
         /\ (<<x>> \o s)[1] = x /\ \A i \in 1..Len(s) : (<<x>> \o s)[i + 1] = s[i]
OBVIOUS

\* One more element at the end of a sequence.
LEMMA After ==
  ASSUME NEW S, NEW x \in S, NEW s \in Seq(S)
  PROVE  /\ s \o <<x>> \in Seq(S) /\ Len(s \o <<x>>) = Len(s) + 1
         /\ (s \o <<x>>)[Len(s) + 1] = x /\ \A i \in 1..Len(s) : (s \o <<x>>)[i] = s[i]
         /\ s \o <<>> = s
OBVIOUS

\* A path that is nothing but names stays what it is.
LEMMA WalkOrdinary ==
  ASSUME NEW k \in Seq(Ordinary), Len(k) <= MaximumSegments,
         NEW q, Len(q) \in {Len(k) + 1, Len(k) + 2},
         q[1] = Empty, \A i \in 1..Len(k) : q[i + 1] = k[i],
         Len(q) = Len(k) + 2 => q[Len(q)] = Empty
  PROVE  Walk(q).kept = k
<1> DEFINE n == Len(k)
<1>1. n \in Nat /\ Len(q) \in Nat /\ MaximumSegments \in Nat
  BY CanonicalAssumption
<1>2. PICK walk : /\ Walk(q) = walk[Len(q)]
                  /\ walk[0] = Going(<<>>)
                  /\ \A i \in 1..Len(q) : walk[i] = Step(walk[i - 1], q[i])
  BY <1>1, WalkDefined
<1> DEFINE At_(i) == Going(SubSeq(k, 1, i))
           Good == {i \in 0..n : walk[i + 1] = At_(i)}
<1>3. 0 \in Good
  <2>1. walk[1] = Step(walk[0], q[1])
    BY <1>1, <1>2
  <2>2. walk[1] = walk[0]
    BY <1>2, <2>1 DEF Step, Going
  <2> DEFINE z == SubSeq(k, 1, 0)
  <2>3. z = <<>>
    BY <1>1
  <2> HIDE DEF z
  <2>4. walk[0 + 1] = Going(z)
    BY <1>2, <2>2, <2>3
  <2>5. At_(0) = Going(z)
    BY DEF z
  <2> HIDE DEF At_
  <2> QED BY <1>1, <2>4, <2>5
<1>4. ASSUME NEW i \in 1..n, i - 1 \in Good PROVE i \in Good
  <2>1. walk[i] = At_(i - 1) /\ i \in 0..n /\ i + 1 \in 1..Len(q) /\ (i + 1) - 1 = i
    BY <1>1, <1>4
  <2>2. walk[i + 1] = Step(At_(i - 1), k[i]) /\ k[i] \in Ordinary
    BY <1>1, <1>2, <2>1
  <2> DEFINE f == SubSeq(k, 1, i - 1)
  <2>3. Len(f) = i - 1 /\ Append(f, k[i]) = SubSeq(k, 1, i)
    BY <1>1
  <2> HIDE DEF f
  <2>4. ~(Len(f) >= MaximumSegments)
    BY <1>1, <2>3
  <2>5. k[i] \notin {Empty, ".", ".."}
    BY <2>2 DEF Ordinary
  <2>6. Step(Going(f), k[i]) = Going(Append(f, k[i]))
    BY <2>4, <2>5 DEF Step, Going
  <2> QED BY <2>1, <2>2, <2>3, <2>6 DEF f
<1>5. walk[n + 1] = At_(n)
  <2>1. n \in Good
    <3>1. n \in 0..n
      BY <1>1
    <3> HIDE DEF Good
    <3> QED BY <1>1, <1>3, <1>4, <3>1, Upward
  <2> QED BY <2>1
<1>6. SubSeq(k, 1, n) = k
  OBVIOUS
<1>7. CASE Len(q) = n + 1
  BY <1>2, <1>5, <1>6, <1>7 DEF Going
<1>8. CASE Len(q) = n + 2
  <2>1. Len(q) \in 1..Len(q) /\ Len(q) - 1 = n + 1
    BY <1>1, <1>8
  <2>2. walk[Len(q)] = Step(walk[n + 1], Empty)
    BY <1>2, <1>8, <2>1
  <2>3. walk[Len(q)] = walk[n + 1]
    BY <1>5, <2>2 DEF Step, Going
  <2> QED BY <1>2, <1>5, <1>6, <2>3 DEF Going
<1> QED BY <1>7, <1>8

\* The path "/" is canonical.
LEMMA RootProperties ==
  /\ Root \in Seq(Segment) /\ Len(Root) = 2 /\ StartsWithSlash(Root)
  /\ ~Contains(Root, Semicolon)
  /\ normalize_path(Root) = Root
<1>1. Len(Root) = 2 /\ Root[1] = Empty /\ Root[2] = Empty /\ Root \in Seq(Segment)
  BY DEF Root, Segment
<1>2. PICK walk : /\ Walk(Root) = walk[Len(Root)]
                  /\ walk[0] = Going(<<>>)
                  /\ \A i \in 1..Len(Root) : walk[i] = Step(walk[i - 1], Root[i])
  BY <1>1, WalkDefined
<1>3. Walk(Root).kept = <<>>
  <2>1. Step(Going(<<>>), Empty) = Going(<<>>)
    BY DEF Step
  <2>2. walk[1] = Step(walk[0], Empty) /\ walk[2] = Step(walk[1], Empty)
    BY <1>1, <1>2
  <2>3. Walk(Root) = Going(<<>>)
    BY <1>1, <1>2, <2>1, <2>2
  <2> QED BY <2>3 DEF Going
<1> QED BY <1>1, <1>3, Spelled DEF StartsWithSlash, Contains, normalize_path

\* A normalized path begins with a slash, is not longer than it was if that
\* did, and has nothing new in it; to normalize it again changes nothing.
LEMMA NormalizedPath ==
  ASSUME NEW path \in Seq(Segment)
  PROVE  /\ normalize_path(path) \in Seq(Segment)
         /\ StartsWithSlash(normalize_path(path))
         /\ StartsWithSlash(path) => Len(normalize_path(path)) <= Len(path)
         /\ Contains(normalize_path(path), Semicolon) => Contains(path, Semicolon)
         /\ normalize_path(normalize_path(path)) = normalize_path(path)
<1> DEFINE k == Walk(path).kept
           n == Len(k)
           e == IF EndsWithSlash(path) THEN <<Empty>> ELSE <<>>
           q == <<Empty>> \o k \o e
<1>1. /\ k \in Seq(Ordinary) /\ n <= MaximumSegments /\ ToSet(k) \subseteq ToSet(path)
      /\ StartsWithSlash(path) => n <= Len(path) - (IF Last(path) = Empty THEN 2 ELSE 1)
  BY WalkTyped DEF Walked
<1>2. Len(path) \in Nat /\ n \in Nat
  BY <1>1
<1>3. CASE k = <<>>
  <2>1. normalize_path(path) = Root
    BY <1>3 DEF normalize_path
  <2>2. StartsWithSlash(path) => Len(path) > 1
    BY DEF StartsWithSlash
  <2> QED BY <1>2, <2>1, <2>2, RootProperties
<1>4. CASE k # <<>>
  <2>1. normalize_path(path) = q
    BY <1>4 DEF normalize_path
  <2> HIDE DEF k
  <2>2. n > 0 /\ k \in Seq(Segment) /\ \A i \in 1..n : k[i] \in Ordinary
    BY <1>1, <1>2, <1>4 DEF Ordinary
  <2> DEFINE m == IF EndsWithSlash(path) THEN 1 ELSE 0
             f == <<Empty>> \o k
  <2>3. m \in {0, 1} /\ (m = 1 <=> EndsWithSlash(path))
    OBVIOUS
  <2>4. Empty \in Segment
    BY DEF Segment
  <2>5. /\ q \in Seq(Segment)
        /\ Len(q) = n + 1 + m
        /\ q[1] = Empty
        /\ \A i \in 1..n : q[i + 1] = k[i]
        /\ m = 1 => q[n + 2] = Empty
    <3>1. f \in Seq(Segment) /\ Len(f) = n + 1 /\ f[1] = Empty /\ \A i \in 1..n : f[i + 1] = k[i]
      BY <2>2, <2>4, Before
    <3> HIDE DEF f
    <3>2. CASE EndsWithSlash(path)
      <4> DEFINE g == f \o <<Empty>>
      <4>1. /\ g \in Seq(Segment) /\ Len(g) = Len(f) + 1 /\ g[Len(f) + 1] = Empty
            /\ \A i \in 1..Len(f) : g[i] = f[i]
        BY <2>4, <3>1, After
      <4>2. q = g /\ m = 1
        BY <3>2 DEF f
      <4> HIDE DEF g, q, n, m
      <4>3. 1 \in 1..Len(f) /\ \A i \in 1..n : i + 1 \in 1..Len(f)
        BY <1>2, <3>1
      <4> QED BY <1>2, <3>1, <4>1, <4>2, <4>3
    <3>3. CASE ~EndsWithSlash(path)
      <4>1. f \o <<>> = f
        BY <2>4, <3>1, After
      <4>2. q = f /\ m = 0
        BY <3>3, <4>1 DEF f
      <4> HIDE DEF q, n, m
      <4> QED BY <1>2, <3>1, <4>2
    <3> QED BY <3>2, <3>3
  <2> HIDE DEF f, m, e
  <2> HIDE DEF q, n
  <2>6. StartsWithSlash(q)
    BY <1>2, <2>2, <2>3, <2>5 DEF StartsWithSlash
  <2>7. StartsWithSlash(path) => Len(q) <= Len(path)
    BY <1>1, <1>2, <2>3, <2>5 DEF EndsWithSlash
  <2>8. ASSUME Contains(q, Semicolon) PROVE Contains(path, Semicolon)
    <3>1. PICK i \in 1..Len(q) : q[i] = Semicolon
      BY <2>8 DEF Contains
    <3>2. CASE i = 1
      BY <2>5, <3>1, <3>2, Spelled
    <3>3. CASE i \in 2..(n + 1)
      <4>1. i - 1 \in 1..n /\ (i - 1) + 1 = i
        BY <1>2, <3>3
      <4>2. k[i - 1] = Semicolon
        BY <2>5, <3>1, <4>1
      <4>3. DOMAIN k = 1..n /\ DOMAIN path = 1..Len(path)
        BY <1>1 DEF n
      <4>4. Semicolon \in ToSet(path)
        BY <1>1, <4>1, <4>2, <4>3 DEF ToSet
      <4> QED BY <4>3, <4>4 DEF ToSet, Contains
    <3>4. CASE i = n + 2
      BY <1>2, <2>3, <2>5, <3>1, <3>4, Spelled
    <3>5. i = 1 \/ i \in 2..(n + 1) \/ i = n + 2
      BY <1>2, <2>3, <2>5
    <3> QED BY <3>2, <3>3, <3>4, <3>5
  <2>9. normalize_path(q) = q
    <3>1. Len(q) \in {n + 1, n + 2} /\ (Len(q) = n + 2 => q[Len(q)] = Empty)
      BY <1>2, <2>3, <2>5
    <3>2. Walk(q).kept = k
      BY <1>1, <2>5, <3>1, WalkOrdinary DEF n
    <3>3. EndsWithSlash(q) <=> EndsWithSlash(path)
      <4>1. Len(q) > 1 /\ Last(q) = q[Len(q)]
        BY <1>2, <2>2, <2>3, <2>5 DEF Last
      <4>2. CASE EndsWithSlash(path)
        BY <1>2, <2>3, <2>5, <4>1, <4>2 DEF EndsWithSlash
      <4>3. CASE ~EndsWithSlash(path)
        <5>1. Len(q) = n + 1 /\ q[n + 1] = k[n] /\ k[n] # Empty
          BY <1>2, <2>2, <2>3, <2>5, <4>3 DEF Ordinary
        <5> QED BY <4>1, <4>3, <5>1 DEF EndsWithSlash
      <4> QED BY <4>2, <4>3
    <3>4. normalize_path(q) = <<Empty>> \o k \o (IF EndsWithSlash(q) THEN <<Empty>> ELSE <<>>)
      BY <1>4, <3>2 DEF normalize_path
    <3>5. (IF EndsWithSlash(q) THEN <<Empty>> ELSE <<>>) = e
      BY <3>3 DEF e
    <3>6. q = <<Empty>> \o k \o e
      BY DEF q
    <3> QED BY <3>4, <3>5, <3>6
  <2> QED BY <2>1, <2>5, <2>6, <2>7, <2>8, <2>9
<1> QED BY <1>3, <1>4

-----------------------------------------------------------------------------
(***************************************************************************)
(* Canonical domains.                                                      *)
(***************************************************************************)

\* In lower case, without a dot at the end.
Settled(x) ==
  x \in Seq(Character) /\ Lowered(x) = x /\ (x # <<>> => x[Len(x)] # ".")

\* A part of what is in lower case is in lower case.
LEMMA LoweredPart ==
  ASSUME NEW x \in Seq(Character), Lowered(x) = x,
         NEW a \in 1..(Len(x) + 1), NEW b \in 0..Len(x), a <= b + 1
  PROVE  Lowered(SubSeq(x, a, b)) = SubSeq(x, a, b)
<1> DEFINE y == SubSeq(x, a, b)
           n == b - a + 1
<1>1. y \in Seq(Character) /\ Len(y) = n /\ \A i \in 1..n : y[i] = x[a + i - 1]
  BY PartOf
<1>2. Len(x) \in Nat /\ n \in Nat /\ \A i \in 1..n : a + i - 1 \in 1..Len(x)
  OBVIOUS
<1>3. \A i \in 1..Len(x) : x[i] = IF x[i] = "A" THEN "a" ELSE x[i]
  BY LoweredProperties
<1> HIDE DEF y, n
<1>4. /\ Lowered(y) \in Seq(Character) /\ Len(Lowered(y)) = n
      /\ \A i \in 1..n : Lowered(y)[i] = IF y[i] = "A" THEN "a" ELSE y[i]
  BY <1>1, LoweredProperties
<1>5. \A i \in 1..n : Lowered(y)[i] = y[i]
  BY <1>1, <1>2, <1>3, <1>4
<1>6. Lowered(y) = y
  BY <1>1, <1>4, <1>5, SameSeq
<1> QED BY <1>6 DEF y

\* What is trimmed is a string, and no longer than before.
LEMMA TrimTyped ==
  ASSUME NEW S, NEW s \in Seq(S), NEW dropped
  PROVE  /\ TrimStart(s, dropped) \in Seq(S) /\ Len(TrimStart(s, dropped)) <= Len(s)
         /\ TrimEnd(s, dropped) \in Seq(S) /\ Len(TrimEnd(s, dropped)) <= Len(s)
<1>1. PICK m \in 0..Len(s) : TrimStart(s, dropped) = SubSeq(s, m + 1, Len(s))
  BY TrimStartAt
<1>2. PICK n \in 0..Len(s) : TrimEnd(s, dropped) = SubSeq(s, 1, n)
  BY TrimEndAt
<1>3. Len(s) \in Nat
  OBVIOUS
<1>4. SubSeq(s, m + 1, Len(s)) \in Seq(S) /\ Len(SubSeq(s, m + 1, Len(s))) = Len(s) - m
  BY <1>3
<1>5. SubSeq(s, 1, n) \in Seq(S) /\ Len(SubSeq(s, 1, n)) = n
  BY <1>3
<1> QED BY <1>1, <1>2, <1>3, <1>4, <1>5

\* canonicalize_domain settles a domain and does not lengthen it.
LEMMA CanonicalDomainSettled ==
  ASSUME NEW d \in Seq(Character)
  PROVE  Settled(CanonicalDomain(d)) /\ Len(CanonicalDomain(d)) <= Len(d)
<1> DEFINE t == Trim(d)
           l == Lowered(t)
<1>1. t \in Seq(Character) /\ Len(t) <= Len(d) /\ Len(d) \in Nat /\ Len(t) \in Nat
  <2>1. TrimStart(d, Space) \in Seq(Character) /\ Len(TrimStart(d, Space)) <= Len(d)
    BY TrimTyped
  <2> DEFINE u == TrimStart(d, Space)
  <2> HIDE DEF u
  <2>2. TrimEnd(u, Space) \in Seq(Character) /\ Len(TrimEnd(u, Space)) <= Len(u)
    BY <2>1, TrimTyped DEF u
  <2>3. Len(u) \in Nat /\ Len(TrimEnd(u, Space)) \in Nat /\ Len(d) \in Nat
    BY <2>1, <2>2 DEF u
  <2> QED BY <2>1, <2>2, <2>3 DEF Trim, u
<1> HIDE DEF t
<1>2. l \in Seq(Character) /\ Len(l) = Len(t) /\ Lowered(l) = l
  BY <1>1, LoweredProperties
<1> HIDE DEF l
<1>3. CanonicalDomain(d) = TrimEnd(l, ".")
  BY DEF CanonicalDomain, l, t
<1>4. PICK n \in 0..Len(l) : (n > 0 => l[n] # ".") /\ TrimEnd(l, ".") = SubSeq(l, 1, n)
  BY <1>2, TrimEndAt
<1> DEFINE x == SubSeq(l, 1, n)
<1>5. x \in Seq(Character) /\ Len(x) = n /\ n \in Nat /\ n <= Len(d) /\ (n > 0 => x[n] = l[n])
  BY <1>1, <1>2
<1>6. Lowered(x) = x
  <2>1. 1 \in 1..(Len(l) + 1) /\ 1 <= n + 1
    BY <1>1, <1>2
  <2> QED BY <1>2, <2>1, LoweredPart
<1>7. x # <<>> => n > 0
  BY <1>5
<1>8. CanonicalDomain(d) = x
  BY <1>3, <1>4
<1> HIDE DEF x
<1> QED BY <1>4, <1>5, <1>6, <1>7, <1>8 DEF Settled

\* What trimming and canonicalize_domain leave of a settled domain.
LEMMA SettledStays ==
  ASSUME NEW x, Settled(x)
  PROVE  /\ TrimEnd(x, ".") = x
         /\ Settled(TrimStart(x, "."))
         /\ ~StartsWithDot(TrimStart(x, "."))
         /\ Len(TrimStart(x, ".")) <= Len(x)
         /\ ~StartsWithDot(x) => TrimStart(x, ".") = x
         /\ Trim(x) = x => CanonicalDomain(x) = x
<1>1. /\ x \in Seq(Character) /\ Lowered(x) = x /\ (x # <<>> => x[Len(x)] # ".")
      /\ Len(x) \in Nat
  BY DEF Settled
<1>2. TrimEnd(x, ".") = x
  <2>1. Len(x) > 0 => x[Len(x)] # "."
    BY <1>1
  <2>2. TrimEnd(x, ".") = SubSeq(x, 1, Len(x))
    BY <1>1, <2>1, TrimEndIs
  <2> QED BY <1>1, <2>2
<1>3. PICK m \in 0..Len(x) : /\ \A i \in 1..m : x[i] = "."
                             /\ m < Len(x) => x[m + 1] # "."
                             /\ TrimStart(x, ".") = SubSeq(x, m + 1, Len(x))
  BY <1>1, TrimStartAt
<1> DEFINE y == SubSeq(x, m + 1, Len(x))
<1>4. /\ y \in Seq(Character) /\ Len(y) = Len(x) - m
      /\ \A i \in 1..(Len(x) - m) : y[i] = x[m + i]
  BY <1>1
<1>5. Lowered(y) = y
  <2>1. m + 1 \in 1..(Len(x) + 1) /\ m + 1 <= Len(x) + 1 /\ Len(x) \in 0..Len(x)
    BY <1>1
  <2> QED BY <1>1, <2>1, LoweredPart
<1> HIDE DEF y
<1>6. y # <<>> => /\ m < Len(x) /\ y[1] = x[m + 1] /\ x # <<>>
                  /\ y[Len(y)] = x[Len(x)]
  <2>1. y # <<>> => Len(y) > 0
    BY <1>4
  <2>2. Len(y) > 0 => /\ 1 \in 1..(Len(x) - m) /\ Len(y) \in 1..(Len(x) - m)
                      /\ m + Len(y) = Len(x) /\ Len(x) > 0 /\ m < Len(x)
    BY <1>1, <1>4
  <2> QED BY <1>4, <2>1, <2>2
<1>7. Settled(y) /\ ~StartsWithDot(y) /\ Len(y) <= Len(x)
  BY <1>1, <1>3, <1>4, <1>5, <1>6 DEF Settled, StartsWithDot
<1>8. ASSUME ~StartsWithDot(x) PROVE TrimStart(x, ".") = x
  <2>1. 0 < Len(x) => x[0 + 1] # "."
    BY <1>1, <1>8 DEF StartsWithDot
  <2>2. TrimStart(x, ".") = SubSeq(x, 0 + 1, Len(x))
    BY <1>1, <2>1, TrimStartIs
  <2> QED BY <1>1, <2>2
<1>9. Trim(x) = x => CanonicalDomain(x) = x
  BY <1>1, <1>2 DEF CanonicalDomain
<1> QED BY <1>2, <1>3, <1>7, <1>8, <1>9 DEF y

-----------------------------------------------------------------------------
(***************************************************************************)
(* What canonicalize makes of a cookie.                                    *)
(***************************************************************************)

\* The fields that canonicalize sets.
FinalDomain(c) ==
  IF c.prefix = "__Host-" THEN TrimStart(CanonicalDomain(c.domain), ".")
  ELSE CanonicalDomain(c.domain)

\* A cookie is its fields.
LEMMA SameCookie ==
  ASSUME NEW c \in Cookie, NEW d \in Cookie,
         c.padded = d.padded, c.prefix = d.prefix, c.id = d.id,
         c.domain = d.domain, c.path = d.path, c.value = d.value,
         c.control = d.control, c.expiration = d.expiration,
         c.same_site = d.same_site, c.secure = d.secure,
         c.http_only = d.http_only, c.session = d.session,
         c.host_only = d.host_only, c.partitioned = d.partitioned
  PROVE  c = d
BY DEF Cookie

CanonicalPath(c) == IF c.prefix = "__Host-" THEN Root ELSE normalize_path(c.path)

MadeSecure(c) == c.secure \/ c.same_site = "none" \/ c.prefix # "plain"

\* Every field of what canonicalize returns.
LEMMA CanonicalFields ==
  ASSUME NEW c \in Cookie
  PROVE  LET k == canonicalize(c)
         IN /\ k \in Cookie
            /\ k.padded = FALSE /\ k.prefix = c.prefix /\ k.id = c.id
            /\ k.domain = FinalDomain(c) /\ k.path = CanonicalPath(c)
            /\ k.value = c.value /\ k.control = c.control
            /\ k.expiration = c.expiration /\ k.same_site = c.same_site
            /\ k.secure = MadeSecure(c) /\ k.http_only = c.http_only
            /\ k.session = (c.expiration = NoDate)
            /\ k.host_only = (c.prefix = "__Host-" \/ ~StartsWithDot(CanonicalDomain(c.domain)))
            /\ k.partitioned = c.partitioned
<1> DEFINE d == CanonicalDomain(c.domain)
           p == normalize_path(c.path)
           s == c.expiration = NoDate
           x == [c EXCEPT !.padded = FALSE, !.path = p, !.session = s]
<1>1. c.domain \in Seq(Character) /\ c.path \in Seq(Segment)
  BY DEF Cookie
<1>2. d \in Seq(Character) /\ TrimStart(d, ".") \in Seq(Character)
  BY <1>1, CanonicalDomainSettled, SettledStays DEF Settled
<1>3. p \in Seq(Segment) /\ s \in BOOLEAN /\ Root \in Seq(Segment)
  BY <1>1, NormalizedPath, RootProperties
<1>4. canonicalize(c) = Security(x, d)
  BY DEF canonicalize
<1>5. CanonicalPath(c) = IF c.prefix = "__Host-" THEN Root ELSE p
  BY DEF CanonicalPath
<1>6. FinalDomain(c) = IF c.prefix = "__Host-" THEN TrimStart(d, ".") ELSE d
  BY DEF FinalDomain
<1> HIDE DEF d, p, s
<1>7. /\ x \in Cookie /\ x.padded = FALSE /\ x.path = p /\ x.session = s
      /\ x.prefix = c.prefix /\ x.id = c.id /\ x.domain = c.domain
      /\ x.value = c.value /\ x.control = c.control /\ x.expiration = c.expiration
      /\ x.same_site = c.same_site /\ x.secure = c.secure
      /\ x.http_only = c.http_only /\ x.host_only = c.host_only
      /\ x.partitioned = c.partitioned
  BY <1>3 DEF Cookie
<1> HIDE DEF x
<1> DEFINE e == c.secure \/ c.same_site = "none" \/ c.prefix # "plain"
           q == IF c.prefix = "__Host-" THEN Root ELSE p
           f == IF c.prefix = "__Host-" THEN TrimStart(d, ".") ELSE d
           h == c.prefix = "__Host-" \/ ~StartsWithDot(d)
           k == [x EXCEPT !.secure = e, !.path = q, !.domain = f, !.host_only = h]
<1>8. e \in BOOLEAN /\ q \in Seq(Segment) /\ f \in Seq(Character) /\ h \in BOOLEAN
  BY <1>2, <1>3
<1>9. Security(x, d) = k
  BY <1>7 DEF Security, is_host_prefix
<1>10. e = MadeSecure(c)
  BY DEF MadeSecure
<1> HIDE DEF e, q, f, h
<1>11. /\ k \in Cookie /\ k.padded = FALSE /\ k.path = q /\ k.session = s
       /\ k.prefix = c.prefix /\ k.id = c.id /\ k.domain = f
       /\ k.value = c.value /\ k.control = c.control /\ k.expiration = c.expiration
       /\ k.same_site = c.same_site /\ k.secure = e
       /\ k.http_only = c.http_only /\ k.host_only = h
       /\ k.partitioned = c.partitioned
  BY <1>7, <1>8 DEF Cookie
<1> HIDE DEF k
<1>12. q = CanonicalPath(c) /\ f = FinalDomain(c)
  BY <1>5, <1>6 DEF q, f
<1> QED BY <1>4, <1>9, <1>10, <1>11, <1>12 DEF s, h, d

\* What the prefixes ask for holds of a canonical cookie.
PrefixesFine(c) == validate_prefixes(c) = {} /\ (c.same_site = "none" => c.secure)

\* The domain of a canonical cookie is settled.
LEMMA FinalDomainSettled ==
  ASSUME NEW c \in Cookie
  PROVE  /\ Settled(CanonicalDomain(c.domain)) /\ Settled(FinalDomain(c))
         /\ Len(FinalDomain(c)) <= Len(c.domain)
         /\ c.prefix = "__Host-" => ~StartsWithDot(FinalDomain(c))
<1> DEFINE d == CanonicalDomain(c.domain)
<1>1. c.domain \in Seq(Character)
  BY DEF Cookie
<1>2. Settled(d) /\ Len(d) <= Len(c.domain)
  BY <1>1, CanonicalDomainSettled
<1> HIDE DEF d
<1>3. /\ Settled(TrimStart(d, ".")) /\ ~StartsWithDot(TrimStart(d, "."))
      /\ Len(TrimStart(d, ".")) <= Len(d)
  BY <1>2, SettledStays
<1>4. Len(d) \in Nat /\ Len(c.domain) \in Nat /\ Len(TrimStart(d, ".")) \in Nat
  BY <1>1, <1>2, <1>3 DEF Settled
<1> QED BY <1>2, <1>3, <1>4 DEF FinalDomain, d

\* canonicalize makes every cookie obey its prefix and same_site.
LEMMA CanonicalPrefixes ==
  ASSUME NEW c \in Cookie
  PROVE  PrefixesFine(canonicalize(c))
<1> DEFINE k == canonicalize(c)
<1>1. /\ k.prefix = c.prefix /\ k.domain = FinalDomain(c) /\ k.path = CanonicalPath(c)
      /\ k.same_site = c.same_site /\ k.secure = MadeSecure(c)
      /\ k.host_only = (c.prefix = "__Host-" \/ ~StartsWithDot(CanonicalDomain(c.domain)))
  BY CanonicalFields
<1>2. c.prefix = "__Host-" => ~StartsWithDot(FinalDomain(c))
  BY FinalDomainSettled
<1> HIDE DEF k
<1>3. k.same_site = "none" => k.secure
  BY <1>1 DEF MadeSecure
<1>4. k.prefix = "__Secure-" => k.secure
  BY <1>1 DEF MadeSecure
<1>5. k.prefix = "__Host-" =>
        k.secure /\ k.path = Root /\ ~StartsWithDot(k.domain) /\ k.host_only
  BY <1>1, <1>2 DEF MadeSecure, CanonicalPath
<1>6. validate_prefixes(k) = {}
  BY <1>4, <1>5 DEF validate_prefixes, Issue, is_host_prefix, is_secure_prefix
<1> QED BY <1>3, <1>6 DEF PrefixesFine, k

\* Canonicalizing a canonical cookie changes nothing, unless blanks are bare.
LEMMA CanonicalTwice ==
  ASSUME NEW c \in Cookie, Trim(canonicalize(c).domain) = canonicalize(c).domain
  PROVE  canonicalize(canonicalize(c)) = canonicalize(c)
<1> DEFINE k == canonicalize(c)
           l == canonicalize(k)
<1>1. /\ k \in Cookie
      /\ k.padded = FALSE /\ k.prefix = c.prefix /\ k.id = c.id
      /\ k.domain = FinalDomain(c) /\ k.path = CanonicalPath(c)
      /\ k.value = c.value /\ k.control = c.control
      /\ k.expiration = c.expiration /\ k.same_site = c.same_site
      /\ k.secure = MadeSecure(c) /\ k.http_only = c.http_only
      /\ k.session = (c.expiration = NoDate)
      /\ k.host_only = (c.prefix = "__Host-" \/ ~StartsWithDot(CanonicalDomain(c.domain)))
      /\ k.partitioned = c.partitioned
  BY CanonicalFields
<1>2. Settled(k.domain) /\ (c.prefix = "__Host-" => ~StartsWithDot(k.domain))
  BY <1>1, FinalDomainSettled
<1>3. Trim(k.domain) = k.domain
  OBVIOUS
<1> HIDE DEF k
<1>4. /\ l \in Cookie
      /\ l.padded = FALSE /\ l.prefix = k.prefix /\ l.id = k.id
      /\ l.domain = FinalDomain(k) /\ l.path = CanonicalPath(k)
      /\ l.value = k.value /\ l.control = k.control
      /\ l.expiration = k.expiration /\ l.same_site = k.same_site
      /\ l.secure = MadeSecure(k) /\ l.http_only = k.http_only
      /\ l.session = (k.expiration = NoDate)
      /\ l.host_only = (k.prefix = "__Host-" \/ ~StartsWithDot(CanonicalDomain(k.domain)))
      /\ l.partitioned = k.partitioned
  BY <1>1, CanonicalFields
<1> HIDE DEF l
<1>5. CanonicalDomain(k.domain) = k.domain /\ (~StartsWithDot(k.domain) => TrimStart(k.domain, ".") = k.domain)
  BY <1>2, <1>3, SettledStays
<1>6. l.domain = k.domain
  BY <1>1, <1>2, <1>4, <1>5 DEF FinalDomain
<1>7. l.path = k.path
  <2>1. c.path \in Seq(Segment)
    BY DEF Cookie
  <2>2. normalize_path(normalize_path(c.path)) = normalize_path(c.path)
    BY <2>1, NormalizedPath
  <2> QED BY <1>1, <1>4, <2>2 DEF CanonicalPath
<1>8. k.secure \in BOOLEAN /\ l.secure \in BOOLEAN /\ k.host_only \in BOOLEAN /\ l.host_only \in BOOLEAN
      /\ k.session \in BOOLEAN /\ l.session \in BOOLEAN /\ c.secure \in BOOLEAN
      /\ k.padded \in BOOLEAN /\ l.padded \in BOOLEAN
  BY <1>1, <1>4 DEF Cookie
<1>9. l.secure = k.secure
  BY <1>1, <1>4, <1>8 DEF MadeSecure
<1>10. l.host_only = k.host_only
  <2>1. CASE c.prefix = "__Host-"
    BY <1>1, <1>4, <2>1
  <2>2. CASE c.prefix # "__Host-"
    <3>1. k.domain = CanonicalDomain(c.domain)
      BY <1>1, <2>2 DEF FinalDomain
    <3> QED BY <1>1, <1>4, <1>5, <2>2, <3>1
  <2> QED BY <2>1, <2>2
<1>11. l.session = k.session /\ l.padded = k.padded
  BY <1>1, <1>4
<1>12. l = k
  BY <1>1, <1>4, <1>6, <1>7, <1>9, <1>10, <1>11, SameCookie
<1> QED BY <1>12 DEF l, k

-----------------------------------------------------------------------------
(***************************************************************************)
(* What validity and permission mean, whatever the time: Validation and    *)
(* Policies without the clock.                                             *)
(***************************************************************************)

\* What the rules that are errors ask of a domain, and of a cookie.
DomainFine(domain) ==
  LET d == TrimEnd(TrimStart(domain, "."), ".")
  IN /\ domain # <<>> /\ ~(Len(domain) > MaximumDomain) /\ d # <<>>
     /\ ~ \E i \in 1..(Len(d) - 1) : d[i] = "." /\ d[i + 1] = "."
     /\ ~Contains(d, Space)

Sound(c) ==
  /\ ~(c.id \in Nameless /\ c.prefix = "plain") /\ ~c.padded
  /\ ~(c.value > MaximumValue) /\ ~c.control
  /\ DomainFine(c.domain)
  /\ StartsWithSlash(c.path) /\ ~(Len(c.path) > MaximumPath) /\ ~Contains(c.path, Semicolon)
  /\ c.same_site = "none" => c.secure
  /\ c.partitioned => c.secure
  /\ c.expiration = NoDate \/ (c.expiration \notin {NaN, 0} /\ ~(c.expiration > LastDate))
  /\ validate_prefixes(c) = {}

\* validate_domain finds an error exactly where a domain is not fine.
LEMMA DomainMeans ==
  ASSUME NEW c
  PROVE  is_valid(validate_domain(c)) <=> DomainFine(c.domain)
<1> DEFINE d == TrimEnd(TrimStart(c.domain, "."), ".")
           empty_label == \E i \in 1..(Len(d) - 1) : d[i] = "." /\ d[i + 1] = "."
           long == Len(c.domain) > MaximumDomain
           rest == Issue("domain.empty_label", empty_label)
                    \cup Issue("domain.label_length", empty_label)
                    \cup Issue("domain.label_character", Contains(d, Space))
                    \cup Issue("domain.single_label", ~Contains(d, "."))
<1>1. validate_domain(c) =
        IF c.domain = <<>> THEN {"domain.empty"}
        ELSE Issue("domain.too_long", long)
             \cup IF d = <<>> THEN {"domain.invalid"} ELSE rest
  BY DEF validate_domain
<1>2. DomainFine(c.domain) <=>
        c.domain # <<>> /\ ~long /\ d # <<>> /\ ~empty_label /\ ~Contains(d, Space)
  BY DEF DomainFine
<1> HIDE DEF d, empty_label, long
<1> DEFINE blank == Contains(d, Space)
           single == ~Contains(d, ".")
<1>3. rest \subseteq Warnings <=> ~empty_label /\ ~blank
  <2>1. rest = Issue("domain.empty_label", empty_label)
                 \cup Issue("domain.label_length", empty_label)
                 \cup Issue("domain.label_character", blank)
                 \cup Issue("domain.single_label", single)
    OBVIOUS
  <2> HIDE DEF rest, blank, single
  <2> QED BY <2>1 DEF Issue, Warnings
<1>4. Issue("domain.too_long", long) \subseteq Warnings <=> ~long
  BY DEF Issue, Warnings
<1>5. "domain.empty" \notin Warnings /\ "domain.invalid" \notin Warnings
  BY DEF Warnings
<1> HIDE DEF rest
<1> QED BY <1>1, <1>2, <1>3, <1>4, <1>5 DEF is_valid

\* validate_cookie finds an error exactly in a cookie that is not sound,
\* whatever the time.
LEMMA ValidMeans ==
  ASSUME NEW c, NEW now
  PROVE  is_valid(validate_cookie(c, now)) <=> Sound(c)
<1>1. is_valid(validate_cookie(c, now)) <=>
        /\ is_valid(validate_name(c)) /\ is_valid(validate_value(c))
        /\ is_valid(validate_domain(c)) /\ is_valid(validate_path(c))
        /\ is_valid(validate_security_flags(c)) /\ is_valid(validate_expiration(c, now))
        /\ is_valid(validate_prefixes(c))
  BY DEF is_valid, validate_cookie
<1>2. is_valid(validate_name(c)) <=>
        ~(c.id \in Nameless /\ c.prefix = "plain") /\ ~c.padded
  <2> DEFINE empty == c.id \in Nameless /\ c.prefix = "plain" /\ ~c.padded
             padded == c.padded
  <2>1. validate_name(c) = Issue("name.empty", empty) \cup Issue("name.invalid_character", padded)
    BY DEF validate_name
  <2>2. (~empty /\ ~padded) <=> ~(c.id \in Nameless /\ c.prefix = "plain") /\ ~c.padded
    OBVIOUS
  <2> HIDE DEF empty, padded
  <2>3. is_valid(validate_name(c)) <=> ~empty /\ ~padded
    BY <2>1 DEF Issue, Warnings, is_valid
  <2> QED BY <2>2, <2>3
<1>3. is_valid(validate_value(c)) <=> ~(c.value > MaximumValue) /\ ~c.control
  <2> DEFINE long == c.value > MaximumValue
             control == c.control
  <2>1. validate_value(c) = Issue("value.too_long", long) \cup Issue("value.control_character", control)
    BY DEF validate_value
  <2> HIDE DEF long, control
  <2>2. is_valid(validate_value(c)) <=> ~long /\ ~control
    BY <2>1 DEF Issue, Warnings, is_valid
  <2> QED BY <2>2 DEF long, control
<1>4. is_valid(validate_path(c)) <=>
        StartsWithSlash(c.path) /\ ~(Len(c.path) > MaximumPath) /\ ~Contains(c.path, Semicolon)
  <2> DEFINE relative == ~StartsWithSlash(c.path)
             long == Len(c.path) > MaximumPath
             semicolon == Contains(c.path, Semicolon)
  <2>1. validate_path(c) = Issue("path.slash", relative) \cup Issue("path.too_long", long)
                             \cup Issue("path.semicolon", semicolon)
    BY DEF validate_path
  <2> HIDE DEF relative, long, semicolon
  <2>2. is_valid(validate_path(c)) <=> ~relative /\ ~long /\ ~semicolon
    BY <2>1 DEF Issue, Warnings, is_valid
  <2> QED BY <2>2 DEF relative, long, semicolon
<1>5. is_valid(validate_security_flags(c)) <=>
        (c.same_site = "none" => c.secure) /\ (c.partitioned => c.secure)
  <2> DEFINE open == c.same_site = "none" /\ ~c.secure
             empty == c.http_only /\ c.value = 0
             parted == c.partitioned /\ ~c.secure
  <2>1. validate_security_flags(c) = Issue("same_site.none_without_secure", open)
                                       \cup Issue("http_only.empty", empty)
                                       \cup Issue("partitioned.not_secure", parted)
    BY DEF validate_security_flags
  <2>2. (~open /\ ~parted) <=>
          (c.same_site = "none" => c.secure) /\ (c.partitioned => c.secure)
    OBVIOUS
  <2> HIDE DEF open, empty, parted
  <2>3. is_valid(validate_security_flags(c)) <=> ~open /\ ~parted
    BY <2>1 DEF Issue, Warnings, is_valid
  <2> QED BY <2>2, <2>3
<1>6. is_valid(validate_expiration(c, now)) <=>
        c.expiration = NoDate \/ (c.expiration \notin {NaN, 0} /\ ~(c.expiration > LastDate))
  <2>1. CASE c.expiration = NoDate
    <3>1. NoDate \notin {NaN, 0}
      BY DEF NoDate, NaN
    <3>2. validate_expiration(c, now) = {}
      BY <2>1, <3>1 DEF validate_expiration
    <3> QED BY <2>1, <3>2 DEF is_valid
  <2>2. CASE c.expiration # NoDate /\ c.expiration \in {NaN, 0}
    <3>1. validate_expiration(c, now) = {"expiration.invalid"}
      BY <2>2 DEF validate_expiration
    <3> QED BY <2>2, <3>1 DEF is_valid, Warnings
  <2>3. CASE c.expiration # NoDate /\ c.expiration \notin {NaN, 0}
    <3> DEFINE late == c.expiration > LastDate
               conflict == c.session
               lasting == c.expiration > now + LongLifetime
    <3>1. validate_expiration(c, now) =
            Issue("expiration.range", late) \cup Issue("expiration.session_conflict", conflict)
              \cup Issue("expiration.long_lifetime", lasting)
      BY <2>3 DEF validate_expiration
    <3> HIDE DEF late, conflict, lasting
    <3>2. is_valid(validate_expiration(c, now)) <=> ~late
      BY <3>1 DEF Issue, Warnings, is_valid
    <3> QED BY <2>3, <3>2 DEF late
  <2> QED BY <2>1, <2>2, <2>3
<1>7. is_valid(validate_prefixes(c)) <=> validate_prefixes(c) = {}
  <2> DEFINE p == is_host_prefix(c) /\ ~c.secure
             q == is_host_prefix(c) /\ c.path # Root
             r == is_host_prefix(c) /\ (StartsWithDot(c.domain) \/ ~c.host_only)
             s == is_secure_prefix(c) /\ ~c.secure
  <2>1. validate_prefixes(c) = Issue("prefix.host.secure", p) \cup Issue("prefix.host.path", q)
                                 \cup Issue("prefix.host.domain", r) \cup Issue("prefix.secure", s)
    BY DEF validate_prefixes
  <2> HIDE DEF p, q, r, s
  <2>2. is_valid(validate_prefixes(c)) <=> ~p /\ ~q /\ ~r /\ ~s
    BY <2>1 DEF Issue, is_valid, Warnings
  <2>3. validate_prefixes(c) = {} <=> ~p /\ ~q /\ ~r /\ ~s
    BY <2>1 DEF Issue
  <2> QED BY <2>2, <2>3
<1>8. is_valid(validate_domain(c)) <=> DomainFine(c.domain)
  BY DomainMeans
<1> QED BY <1>1, <1>2, <1>3, <1>4, <1>5, <1>6, <1>7, <1>8 DEF Sound

\* What a policy asks of a cookie.
Permitted(policy, c) ==
  /\ Sound(c)
  /\ policy.require_secure => c.secure
  /\ ~(policy.deny_same_site_none /\ c.same_site = "none")
  /\ c.id \in Sensitive => c.http_only
  /\ ~(~c.padded /\ c.prefix \in policy.deny_name_prefixes)
  /\ ~Named(c, policy.deny_domain_suffixes)
  /\ ~(policy.allow_domains # {} /\ ~Named(c, policy.allow_domains))
  /\ ~(estimated_bytes(c) > MaximumBytes)

\* evaluate allows exactly the cookies that a policy permits, whatever the
\* time.
LEMMA AllowedMeans ==
  ASSUME NEW policy, NEW c, NEW now
  PROVE  is_allowed(evaluate(policy, c, now)) <=> Permitted(policy, c)
<1> DEFINE valid == validate_cookie(c, now)
           secure == policy.require_secure /\ ~c.secure
           none == policy.deny_same_site_none /\ c.same_site = "none"
           session == policy.deny_session_cookies /\ effective_session(c)
           empty == policy.deny_empty_values /\ c.value = 0
           sensitive == c.id \in Sensitive /\ ~c.http_only
           prefix == ~c.padded /\ c.prefix \in policy.deny_name_prefixes
           denied == Named(c, policy.deny_domain_suffixes)
           foreign == policy.allow_domains # {} /\ ~Named(c, policy.allow_domains)
           large == estimated_bytes(c) > MaximumBytes
           lasting == c.expiration > now + LongLifetime
<1>1. evaluate(policy, c, now) =
        valid \cup Issue("policy.require_secure", secure)
              \cup Issue("policy.same_site_none", none)
              \cup Issue("policy.session", session)
              \cup Issue("policy.empty", empty)
              \cup Issue("policy.sensitive_http_only", sensitive)
              \cup Issue("policy.name_prefix", prefix)
              \cup (Issue("policy.domain_suffix", denied)
                      \cup Issue("policy.domain_allowlist", foreign))
              \cup Issue("policy.size", large)
              \cup Issue("policy.lifetime", lasting)
  BY DEF evaluate, DomainRules
<1>2. Permitted(policy, c) <=>
        Sound(c) /\ ~secure /\ ~none /\ ~sensitive /\ ~prefix /\ ~denied /\ ~foreign /\ ~large
  BY DEF Permitted
<1>3. is_valid(valid) <=> Sound(c)
  BY ValidMeans
<1>4. valid \subseteq Tolerable <=> is_valid(valid)
  <2>1. \A x \in {"policy.session", "policy.empty", "policy.lifetime"} : x \notin valid
    BY DEF validate_cookie, validate_name, validate_value, validate_domain, validate_path,
           validate_security_flags, validate_expiration, validate_prefixes, Issue
  <2> QED BY <2>1 DEF Tolerable, is_valid
<1> HIDE DEF valid, secure, none, session, empty, sensitive, prefix, denied, foreign, large, lasting
<1>5. is_allowed(evaluate(policy, c, now)) <=>
        valid \subseteq Tolerable /\ ~secure /\ ~none /\ ~sensitive /\ ~prefix /\ ~denied
          /\ ~foreign /\ ~large
  <2> DEFINE rules == Issue("policy.require_secure", secure)
              \cup Issue("policy.same_site_none", none)
              \cup Issue("policy.session", session)
              \cup Issue("policy.empty", empty)
              \cup Issue("policy.sensitive_http_only", sensitive)
              \cup Issue("policy.name_prefix", prefix)
              \cup (Issue("policy.domain_suffix", denied)
                      \cup Issue("policy.domain_allowlist", foreign))
              \cup Issue("policy.size", large)
              \cup Issue("policy.lifetime", lasting)
  <2>1. rules \subseteq Tolerable <=>
          ~secure /\ ~none /\ ~sensitive /\ ~prefix /\ ~denied /\ ~foreign /\ ~large
    BY DEF Issue, Tolerable, Warnings
  <2>2. evaluate(policy, c, now) = valid \cup rules
    BY <1>1
  <2> HIDE DEF rules
  <2>3. valid \cup rules \subseteq Tolerable <=> valid \subseteq Tolerable /\ rules \subseteq Tolerable
    OBVIOUS
  <2> QED BY <2>1, <2>2, <2>3 DEF is_allowed
<1> QED BY <1>2, <1>3, <1>4, <1>5

-----------------------------------------------------------------------------
(***************************************************************************)
(* Canonicalizing a domain without blanks.                                 *)
(***************************************************************************)

\* A domain without the dots around it.
Ends(s) == TrimEnd(TrimStart(s, "."), ".")

\* A domain whose labels have no blanks has none at its ends either.
LEMMA NoBlanks ==
  ASSUME NEW s \in Seq(Character), Ends(s) # <<>>, ~Contains(Ends(s), Space)
  PROVE  /\ \A i \in 1..Len(s) : s[i] # Space
         /\ Trim(s) = s
<1>1. PICK a, b : Bare(s, a, b)
  BY HasBare DEF Ends
<1>2. /\ a \in 1..Len(s) /\ b \in a..Len(s) /\ Len(s) \in Nat
      /\ \A i \in 1..Len(s) : i < a \/ i > b => s[i] = "."
  BY <1>1 DEF Bare
<1> DEFINE d == SubSeq(s, a, b)
<1>3. Ends(s) = d
  BY <1>1, BareIs DEF Ends
<1>4. Len(d) = b - a + 1 /\ \A i \in 1..(b - a + 1) : d[i] = s[a + i - 1]
  BY <1>2, PartOf
<1> HIDE DEF d
<1>5. \A i \in 1..(b - a + 1) : d[i] # Space
  BY <1>3, <1>4 DEF Contains
<1>6. ASSUME NEW i \in 1..Len(s) PROVE s[i] # Space
  <2>1. CASE i < a \/ i > b
    BY <1>2, <2>1, Spelled
  <2>2. CASE ~(i < a \/ i > b)
    <3>1. i - a + 1 \in 1..(b - a + 1) /\ a + (i - a + 1) - 1 = i
      BY <1>2, <2>2
    <3> QED BY <1>4, <1>5, <3>1
  <2> QED BY <2>1, <2>2
<1>7. TrimStart(s, Space) = s
  <2>1. 0 \in 0..Len(s) /\ (0 < Len(s) => s[0 + 1] # Space) /\ \A i \in 1..0 : s[i] = Space
    BY <1>2, <1>6
  <2>2. TrimStart(s, Space) = SubSeq(s, 0 + 1, Len(s))
    BY <2>1, TrimStartIs
  <2> QED BY <1>2, <2>2
<1>8. TrimEnd(s, Space) = s
  <2>1. Len(s) \in 0..Len(s) /\ (Len(s) > 0 => s[Len(s)] # Space)
        /\ \A i \in (Len(s) + 1)..Len(s) : s[i] = Space
    BY <1>2, <1>6
  <2>2. TrimEnd(s, Space) = SubSeq(s, 1, Len(s))
    BY <2>1, TrimEndIs
  <2> QED BY <1>2, <2>2
<1> QED BY <1>6, <1>7, <1>8 DEF Trim

\* Its final form has the same labels, in lower case.
LEMMA FinalLabels ==
  ASSUME NEW c \in Cookie, Ends(c.domain) # <<>>, ~Contains(Ends(c.domain), Space)
  PROVE  /\ FinalDomain(c) # <<>>
         /\ Ends(FinalDomain(c)) # <<>>
         /\ Len(Ends(FinalDomain(c))) = Len(Ends(c.domain))
         /\ \A i \in 1..Len(Ends(c.domain)) :
              Ends(FinalDomain(c))[i] =
                IF Ends(c.domain)[i] = "A" THEN "a" ELSE Ends(c.domain)[i]
<1> DEFINE s == c.domain
           l == Lowered(s)
<1>1. s \in Seq(Character)
  BY DEF Cookie
<1>2. Trim(s) = s
  BY <1>1, NoBlanks
<1>3. PICK a, b : Bare(s, a, b)
  BY <1>1, HasBare DEF Ends
<1>4. /\ a \in 1..Len(s) /\ b \in a..Len(s) /\ Len(s) \in Nat
      /\ s[a] # "." /\ s[b] # "."
      /\ \A i \in 1..Len(s) : i < a \/ i > b => s[i] = "."
  BY <1>1, <1>3 DEF Bare
<1>5. /\ l \in Seq(Character) /\ Len(l) = Len(s)
      /\ \A i \in 1..Len(s) : l[i] = IF s[i] = "A" THEN "a" ELSE s[i]
  BY <1>1, LoweredProperties
<1> DEFINE n == b - a + 1
           d == Ends(s)
<1>6. Len(d) = n /\ n \in Nat /\ n > 0 /\ \A i \in 1..n : d[i] = s[a + i - 1]
  <2>1. d = SubSeq(s, a, b)
    BY <1>1, <1>3, BareIs DEF Ends
  <2>2. Len(SubSeq(s, a, b)) = n /\ \A i \in 1..n : SubSeq(s, a, b)[i] = s[a + i - 1]
    BY <1>1, <1>4, PartOf
  <2> QED BY <1>4, <2>1, <2>2
<1>7. CanonicalDomain(s) = TrimEnd(l, ".")
  BY <1>2 DEF CanonicalDomain
<1> HIDE DEF l, s, d
<1>8. Bare(l, a, b)
  <2>1. l[a] # "." /\ l[b] # "."
    BY <1>4, <1>5
  <2>2. \A i \in 1..Len(l) : i < a \/ i > b => l[i] = "."
    BY <1>4, <1>5
  <2> QED BY <1>4, <1>5, <2>1, <2>2 DEF Bare
<1> DEFINE y == SubSeq(l, 1, b)
<1>9. CanonicalDomain(s) = y
  BY <1>5, <1>7, <1>8, BareIs
<1>10. y \in Seq(Character) /\ Len(y) = b /\ \A i \in 1..b : y[i] = l[i]
  <2>1. 1 \in 1..(Len(l) + 1) /\ b \in 0..Len(l) /\ 1 <= b + 1 /\ b - 1 + 1 = b
        /\ \A i \in 1..b : 1 + i - 1 = i
    BY <1>4, <1>5
  <2>2. y \in Seq(Character) /\ Len(y) = b - 1 + 1 /\ \A i \in 1..(b - 1 + 1) : y[i] = l[1 + i - 1]
    BY <1>5, <2>1, PartOf
  <2> QED BY <2>1, <2>2
<1> HIDE DEF y
<1>11. Bare(y, a, b)
  <2>1. a \in 1..b /\ b \in a..b /\ y[a] # "." /\ y[b] # "."
    BY <1>4, <1>5, <1>8, <1>10 DEF Bare
  <2>2. \A i \in 1..b : i < a \/ i > b => y[i] = "."
    BY <1>4, <1>5, <1>8, <1>10 DEF Bare
  <2> QED BY <1>10, <2>1, <2>2 DEF Bare
<1> DEFINE e == SubSeq(y, a, b)
<1>12. Ends(y) = e /\ TrimStart(y, ".") = e
  <2>1. Ends(y) = SubSeq(y, a, b) /\ TrimStart(y, ".") = SubSeq(y, a, Len(y))
    BY <1>10, <1>11, BareIs DEF Ends
  <2> QED BY <1>10, <2>1
<1>13. e \in Seq(Character) /\ Len(e) = n /\ \A i \in 1..n : e[i] = y[a + i - 1]
  <2>1. a \in 1..(Len(y) + 1) /\ b \in 0..Len(y) /\ a <= b + 1
    BY <1>4, <1>10
  <2> QED BY <1>10, <2>1, PartOf
<1> HIDE DEF e, n
<1>14. ASSUME NEW i \in 1..n PROVE e[i] = IF d[i] = "A" THEN "a" ELSE d[i]
  <2>1. a + i - 1 \in 1..b /\ a + i - 1 \in 1..Len(s)
    BY <1>4, <1>6 DEF n
  <2>2. e[i] = y[a + i - 1] /\ y[a + i - 1] = l[a + i - 1] /\ d[i] = s[a + i - 1]
    BY <1>6, <1>10, <1>13, <2>1
  <2>3. l[a + i - 1] = IF s[a + i - 1] = "A" THEN "a" ELSE s[a + i - 1]
    BY <1>5, <2>1
  <2> QED BY <2>2, <2>3
<1>15. Ends(e) = e
  <2>1. Bare(e, 1, n)
    <3>1. e[1] # "." /\ e[n] # "."
      <4>1. 1 \in 1..n /\ n \in 1..n /\ a + 1 - 1 = a /\ a + n - 1 = b
        BY <1>4, <1>6 DEF n
      <4>2. e[1] = y[a + 1 - 1] /\ e[n] = y[a + n - 1]
        BY <1>13, <4>1
      <4> QED BY <1>11, <4>1, <4>2 DEF Bare
    <3>2. 1 \in 1..Len(e) /\ n \in 1..Len(e) /\ \A i \in 1..Len(e) : ~(i < 1 \/ i > n)
      BY <1>6, <1>13
    <3> QED BY <3>1, <3>2 DEF Bare
  <2>2. Ends(e) = SubSeq(e, 1, n)
    BY <1>13, <2>1, BareIs DEF Ends
  <2>3. SubSeq(e, 1, Len(e)) = e
    BY <1>13
  <2> QED BY <1>13, <2>2, <2>3
<1>16. e # <<>> /\ y # <<>>
  BY <1>4, <1>6, <1>10, <1>13
<1>17. FinalDomain(c) = y \/ FinalDomain(c) = e
  BY <1>9, <1>12 DEF FinalDomain, s
<1>18. FinalDomain(c) # <<>> /\ Ends(FinalDomain(c)) = e
  BY <1>12, <1>15, <1>16, <1>17
<1> QED BY <1>6, <1>13, <1>14, <1>16, <1>18 DEF d, s

\* A fine domain stays fine.
LEMMA FineStays ==
  ASSUME NEW c \in Cookie, DomainFine(c.domain)
  PROVE  DomainFine(FinalDomain(c))
<1> DEFINE d == Ends(c.domain)
           e == Ends(FinalDomain(c))
<1>1. /\ ~(Len(c.domain) > MaximumDomain) /\ d # <<>>
      /\ ~ \E i \in 1..(Len(d) - 1) : d[i] = "." /\ d[i + 1] = "."
      /\ ~Contains(d, Space)
  BY DEF DomainFine, Ends
<1>2. /\ FinalDomain(c) # <<>> /\ e # <<>> /\ Len(e) = Len(d)
      /\ \A i \in 1..Len(d) : e[i] = IF d[i] = "A" THEN "a" ELSE d[i]
  BY <1>1, FinalLabels
<1>3. ~(Len(FinalDomain(c)) > MaximumDomain)
  <2>1. Len(FinalDomain(c)) <= Len(c.domain) /\ FinalDomain(c) \in Seq(Character)
        /\ c.domain \in Seq(Character)
    BY FinalDomainSettled DEF Settled, Cookie
  <2>2. Len(FinalDomain(c)) \in Nat /\ Len(c.domain) \in Nat /\ MaximumDomain \in Nat
    BY <2>1, ValidationAssumption
  <2> QED BY <1>1, <2>1, <2>2
<1>4. d \in Seq(Character)
  <2>1. c.domain \in Seq(Character)
    BY DEF Cookie
  <2>2. TrimStart(c.domain, ".") \in Seq(Character)
    BY <2>1, TrimTyped
  <2> QED BY <2>2, TrimTyped DEF Ends
<1>5. Len(d) \in Nat
  BY <1>4
<1> HIDE DEF d, e
<1>6. \A i \in 1..Len(d) : (e[i] = "." => d[i] = ".") /\ (e[i] = Space => d[i] = Space)
  <2>1. "a" # "." /\ "a" # Space
    BY Spelled
  <2> QED BY <1>2, <2>1
<1>7. ~ \E i \in 1..(Len(e) - 1) : e[i] = "." /\ e[i + 1] = "."
  <2>1. SUFFICES ASSUME NEW i \in 1..(Len(e) - 1), e[i] = ".", e[i + 1] = "." PROVE FALSE
    OBVIOUS
  <2>2. i \in 1..(Len(d) - 1) /\ i \in 1..Len(d) /\ i + 1 \in 1..Len(d)
    BY <1>2, <1>5
  <2>3. d[i] = "." /\ d[i + 1] = "."
    BY <1>6, <2>1, <2>2
  <2> QED BY <1>1, <2>2, <2>3
<1>8. ~Contains(e, Space)
  BY <1>1, <1>2, <1>6 DEF Contains
<1> QED BY <1>2, <1>3, <1>7, <1>8 DEF DomainFine, e, Ends

\* A canonical cookie is as sound as it was.
LEMMA SoundStays ==
  ASSUME NEW c \in Cookie, Sound(c)
  PROVE  Sound(canonicalize(c))
<1> DEFINE k == canonicalize(c)
<1>1. /\ ~(c.id \in Nameless /\ c.prefix = "plain")
      /\ ~(c.value > MaximumValue) /\ ~c.control
      /\ DomainFine(c.domain)
      /\ StartsWithSlash(c.path) /\ ~(Len(c.path) > MaximumPath) /\ ~Contains(c.path, Semicolon)
      /\ c.partitioned => c.secure
      /\ c.expiration = NoDate \/ (c.expiration \notin {NaN, 0} /\ ~(c.expiration > LastDate))
  BY DEF Sound
<1>2. /\ k.padded = FALSE /\ k.prefix = c.prefix /\ k.id = c.id
      /\ k.domain = FinalDomain(c) /\ k.path = CanonicalPath(c)
      /\ k.value = c.value /\ k.control = c.control
      /\ k.expiration = c.expiration
      /\ k.secure = MadeSecure(c) /\ k.partitioned = c.partitioned
  BY CanonicalFields
<1>3. DomainFine(k.domain)
  BY <1>1, <1>2, FineStays
<1>4. validate_prefixes(k) = {} /\ (k.same_site = "none" => k.secure)
  BY CanonicalPrefixes DEF PrefixesFine
<1> HIDE DEF k
<1>5. StartsWithSlash(k.path) /\ ~(Len(k.path) > MaximumPath) /\ ~Contains(k.path, Semicolon)
  <2>1. c.path \in Seq(Segment)
    BY DEF Cookie
  <2>2. /\ normalize_path(c.path) \in Seq(Segment)
        /\ StartsWithSlash(normalize_path(c.path))
        /\ Len(normalize_path(c.path)) <= Len(c.path)
        /\ ~Contains(normalize_path(c.path), Semicolon)
    BY <1>1, <2>1, NormalizedPath
  <2>3. Len(c.path) \in Nat /\ Len(normalize_path(c.path)) \in Nat /\ Len(c.path) > 1
        /\ MaximumPath \in Nat
    BY <1>1, <2>1, <2>2, ValidationAssumption DEF StartsWithSlash
  <2>4. CASE c.prefix = "__Host-"
    <3>1. k.path = Root
      BY <1>2, <2>4 DEF CanonicalPath
    <3> QED BY <1>1, <2>3, <3>1, RootProperties
  <2>5. CASE c.prefix # "__Host-"
    <3>1. k.path = normalize_path(c.path)
      BY <1>2, <2>5 DEF CanonicalPath
    <3> QED BY <1>1, <2>2, <2>3, <3>1
  <2> QED BY <2>4, <2>5
<1>6. k.partitioned => k.secure
  BY <1>1, <1>2 DEF MadeSecure
<1>7. Sound(k)
  BY <1>1, <1>2, <1>3, <1>4, <1>5, <1>6 DEF Sound
<1> QED BY <1>7 DEF k

-----------------------------------------------------------------------------
(***************************************************************************)
(* What the policy says before and after a cookie is made canonical.       *)
(***************************************************************************)

\* Lowering goes past the dot that is stripped.
LEMMA StrippedLowered ==
  ASSUME NEW c \in Cookie, NEW k, k.domain = Lowered(c.domain)
  PROVE  Lowered(normalized_domain(k)) = Lowered(normalized_domain(c))
<1> DEFINE s == c.domain
           l == Lowered(s)
<1>1. s \in Seq(Character) /\ Len(s) \in Nat
  BY DEF Cookie
<1>2. /\ l \in Seq(Character) /\ Len(l) = Len(s) /\ Lowered(l) = l
      /\ \A i \in 1..Len(s) : l[i] = IF s[i] = "A" THEN "a" ELSE s[i]
  BY <1>1, LoweredProperties
<1>3. k.domain = l
  OBVIOUS
<1> HIDE DEF s, l
<1>4. CASE s = <<>>
  <2>1. l = <<>>
    BY <1>1, <1>2, <1>4
  <2> QED BY <1>2, <1>3, <1>4, <2>1 DEF normalized_domain, StartsWithDot, s
<1>5. CASE s # <<>>
  <2>1. 1 \in 1..Len(s) /\ l # <<>> /\ Len(s) > 0
    BY <1>1, <1>2, <1>5
  <2>2. l[1] = "." <=> s[1] = "."
    BY <1>2, <2>1
  <2>3. CASE s[1] # "."
    BY <1>2, <1>3, <2>1, <2>2, <2>3 DEF normalized_domain, StartsWithDot, s, l
  <2>4. CASE s[1] = "."
    <3>1. normalized_domain(k) = Tail(l) /\ normalized_domain(c) = Tail(s)
      BY <1>3, <1>5, <2>1, <2>2, <2>4 DEF normalized_domain, StartsWithDot, s
    <3> DEFINE x == Tail(l)
               y == Tail(s)
               n == Len(s) - 1
    <3>2. /\ x \in Seq(Character) /\ Len(x) = n /\ \A i \in 1..n : x[i] = l[i + 1]
          /\ y \in Seq(Character) /\ Len(y) = n /\ \A i \in 1..n : y[i] = s[i + 1]
          /\ n \in Nat
      BY <1>1, <1>2, <1>5, <2>1
    <3>3. \A i \in 1..n : i + 1 \in 1..Len(s)
      BY <1>1
    <3> HIDE DEF x, y, n
    <3>4. /\ Lowered(x) \in Seq(Character) /\ Len(Lowered(x)) = n
          /\ \A i \in 1..n : Lowered(x)[i] = IF x[i] = "A" THEN "a" ELSE x[i]
      BY <3>2, LoweredProperties
    <3>5. /\ Lowered(y) \in Seq(Character) /\ Len(Lowered(y)) = n
          /\ \A i \in 1..n : Lowered(y)[i] = IF y[i] = "A" THEN "a" ELSE y[i]
      BY <3>2, LoweredProperties
    <3>6. \A i \in 1..n : Lowered(x)[i] = Lowered(y)[i]
      BY <1>2, <3>2, <3>3, <3>4, <3>5
    <3>7. Lowered(x) = Lowered(y)
      BY <3>4, <3>5, <3>6, SameSeq
    <3> QED BY <3>1, <3>7 DEF x, y
  <2> QED BY <2>3, <2>4
<1> QED BY <1>4, <1>5

\* The domain of a sound cookie that has no dot at its end only gets lowered.
LEMMA OnlyLowered ==
  ASSUME NEW c \in Cookie, Sound(c), Last(c.domain) # "."
  PROVE  FinalDomain(c) = Lowered(c.domain)
<1> DEFINE s == c.domain
           l == Lowered(s)
<1>1. s \in Seq(Character) /\ s # <<>> /\ Ends(s) # <<>> /\ ~Contains(Ends(s), Space)
  BY DEF Cookie, Sound, DomainFine, Ends
<1>2. Trim(s) = s
  BY <1>1, NoBlanks
<1>3. /\ l \in Seq(Character) /\ Len(l) = Len(s) /\ Lowered(l) = l /\ Len(s) \in Nat
      /\ \A i \in 1..Len(s) : l[i] = IF s[i] = "A" THEN "a" ELSE s[i]
  BY <1>1, LoweredProperties
<1>4. Len(s) > 0 /\ s[Len(s)] # "." /\ Len(s) \in 1..Len(s)
  BY <1>1, <1>3 DEF Last
<1>5. l[Len(l)] # "." /\ (l[1] = "." <=> s[1] = ".") /\ l # <<>>
  <2>1. 1 \in 1..Len(s)
    BY <1>3, <1>4
  <2> HIDE DEF l, s
  <2> QED BY <1>3, <1>4, <2>1
<1>6. CanonicalDomain(s) = TrimEnd(l, ".")
  BY <1>2 DEF CanonicalDomain
<1> HIDE DEF l
<1>7. Settled(l)
  BY <1>3, <1>5 DEF Settled
<1>8. CanonicalDomain(s) = l
  BY <1>6, <1>7, SettledStays
<1>9. CASE c.prefix = "__Host-"
  <2>1. ~StartsWithDot(s)
    <3>1. validate_prefixes(c) = {} /\ ~c.padded
      BY DEF Sound
    <3>2. is_host_prefix(c)
      BY <1>9, <3>1 DEF is_host_prefix
    <3>3. "prefix.host.domain" \notin validate_prefixes(c)
      BY <3>1
    <3> QED BY <3>2, <3>3 DEF validate_prefixes, Issue
  <2>2. ~StartsWithDot(l)
    BY <1>1, <1>5, <2>1 DEF StartsWithDot
  <2>3. TrimStart(l, ".") = l
    BY <1>7, <2>2, SettledStays
  <2> QED BY <1>8, <1>9, <2>3 DEF FinalDomain, l
<1>10. CASE c.prefix # "__Host-"
  BY <1>8, <1>10 DEF FinalDomain, l
<1> QED BY <1>9, <1>10

\* What is permitted before it is canonical is permitted afterwards.
LEMMA PermittedStays ==
  ASSUME NEW policy, NEW c \in Cookie, Permitted(policy, c), Last(c.domain) # "."
  PROVE  Permitted(policy, canonicalize(c))
<1> DEFINE k == canonicalize(c)
<1>1. Sound(c) /\ ~c.padded
  BY DEF Permitted, Sound
<1>2. Sound(k)
  BY <1>1, SoundStays
<1>3. /\ k \in Cookie /\ k.padded = FALSE /\ k.prefix = c.prefix /\ k.id = c.id
      /\ k.domain = FinalDomain(c) /\ k.path = CanonicalPath(c)
      /\ k.value = c.value /\ k.same_site = c.same_site
      /\ k.secure = MadeSecure(c) /\ k.http_only = c.http_only
  BY CanonicalFields
<1> HIDE DEF k
<1>4. k.domain = Lowered(c.domain)
  BY <1>1, <1>3, OnlyLowered
<1>5. Lowered(normalized_domain(k)) = Lowered(normalized_domain(c))
  BY <1>4, StrippedLowered
<1>6. \A suffixes : Named(k, suffixes) <=> Named(c, suffixes)
  BY <1>5 DEF Named
<1>7. ~(estimated_bytes(k) > MaximumBytes)
  <2>1. c.domain \in Seq(Character) /\ c.path \in Seq(Segment) /\ c.value \in Nat
        /\ k.path \in Seq(Segment) /\ k.domain \in Seq(Character)
    BY <1>3 DEF Cookie
  <2>2. Len(k.domain) = Len(c.domain) /\ Len(c.domain) \in Nat
    BY <1>4, <2>1, LoweredProperties
  <2>3. Len(k.path) <= Len(c.path)
    <3>1. StartsWithSlash(c.path)
      BY <1>1 DEF Sound
    <3>2. Len(normalize_path(c.path)) <= Len(c.path)
      BY <2>1, <3>1, NormalizedPath
    <3>3. Len(Root) <= Len(c.path)
      BY <2>1, <3>1, RootProperties DEF StartsWithSlash
    <3> QED BY <1>3, <3>2, <3>3 DEF CanonicalPath
  <2> DEFINE dc == Len(c.domain)
             dk == Len(k.domain)
             pc == Len(c.path)
             pk == Len(k.path)
             vc == c.value
             vk == k.value
  <2>4. /\ dc \in Nat /\ dk \in Nat /\ pc \in Nat /\ pk \in Nat /\ vc \in Nat /\ vk = vc
        /\ dk = dc /\ pk <= pc
    BY <1>3, <2>1, <2>2, <2>3
  <2>5. estimated_bytes(k) = dk + pk + vk /\ estimated_bytes(c) = dc + pc + vc
    BY DEF estimated_bytes
  <2> HIDE DEF dc, dk, pc, pk, vc, vk
  <2>6. MaximumBytes \in Nat /\ ~(dc + pc + vc > MaximumBytes)
    BY <2>5, PolicyAssumption DEF Permitted
  <2>7. ~(dk + pk + vk > MaximumBytes)
    BY <2>4, <2>6
  <2> QED BY <2>5, <2>7
<1>8. /\ policy.require_secure => c.secure
      /\ ~(policy.deny_same_site_none /\ c.same_site = "none")
      /\ c.id \in Sensitive => c.http_only
      /\ ~(c.prefix \in policy.deny_name_prefixes)
      /\ ~Named(c, policy.deny_domain_suffixes)
      /\ ~(policy.allow_domains # {} /\ ~Named(c, policy.allow_domains))
  BY <1>1 DEF Permitted
<1>9. policy.require_secure => k.secure
  BY <1>3, <1>8 DEF MadeSecure
<1>10. Permitted(policy, k)
  BY <1>2, <1>3, <1>6, <1>7, <1>8, <1>9 DEF Permitted
<1> QED BY <1>10 DEF k

\* A canonical cookie below a denied domain is not permitted.
Below(domain, suffix) ==
  LET bare == Retained(domain, {i \in DOMAIN domain : domain[i] # Space})
  IN WithinDomain(Lowered(AtBothEnds(bare, ".")), Lowered(AtBothEnds(suffix, ".")))

\* A sound canonical cookie that no denied suffix names is below none.
LEMMA DeniedBelow ==
  ASSUME NEW c \in Cookie, Sound(c), Settled(c.domain),
         NEW suffixes \in SUBSET Seq(Character), ~Named(c, suffixes),
         NEW s \in suffixes, s # <<>>, Last(s) # "."
  PROVE  ~Below(c.domain, s)
<1> DEFINE d == c.domain
           e == Ends(d)
<1>1. d \in Seq(Character) /\ d # <<>> /\ e # <<>> /\ ~Contains(e, Space) /\ Len(d) \in Nat
  BY DEF Cookie, Sound, DomainFine, Ends
<1>2. \A i \in 1..Len(d) : d[i] # Space
  BY <1>1, NoBlanks
<1>3. Retained(d, {i \in DOMAIN d : d[i] # Space}) = d
  <2> DEFINE places == {i \in DOMAIN d : d[i] # Space}
  <2>1. DOMAIN d \subseteq places
    BY <1>1, <1>2
  <2> HIDE DEF places, d
  <2> QED BY <1>1, <2>1, RetainedProperties DEF places
<1>4. Lowered(d) = d /\ d[Len(d)] # "."
  BY <1>1 DEF Settled
<1>5. Lowered(AtBothEnds(s, ".")) = Plain(s) /\ Plain(s) \in Seq(Character)
  <2>1. s \in Seq(Character) /\ Len(s) \in Nat /\ Len(s) > 0 /\ s[Len(s)] # "."
    BY DEF Last
  <2>2. PICK m \in 0..Len(s) : /\ \A i \in 1..m : s[i] = "."
                               /\ TrimStart(s, ".") = SubSeq(s, m + 1, Len(s))
    BY <2>1, TrimStartAt
  <2> DEFINE t == SubSeq(s, m + 1, Len(s))
  <2>3. m < Len(s)
    BY <2>1, <2>2
  <2>4. t \in Seq(Character) /\ Len(t) = Len(s) - m /\ t[Len(s) - m] = s[Len(s)] /\ Len(s) - m > 0
    <3>1. Len(s) - m \in 1..(Len(s) - (m + 1) + 1) /\ (m + 1) + (Len(s) - m) - 1 = Len(s)
          /\ Len(s) - (m + 1) + 1 = Len(s) - m
          /\ m + 1 \in 1..(Len(s) + 1) /\ Len(s) \in 0..Len(s) /\ m + 1 <= Len(s) + 1
      BY <2>1, <2>3
    <3>2. /\ t \in Seq(Character) /\ Len(t) = Len(s) - (m + 1) + 1
          /\ \A i \in 1..(Len(s) - (m + 1) + 1) : t[i] = s[(m + 1) + i - 1]
      BY <2>1, <3>1, PartOf
    <3> HIDE DEF t
    <3> QED BY <2>1, <2>3, <3>1, <3>2
  <2> HIDE DEF t
  <2>5. TrimEnd(t, ".") = SubSeq(t, 1, Len(t))
    <3>1. Len(t) \in 0..Len(t) /\ (Len(t) > 0 => t[Len(t)] # ".")
          /\ \A i \in (Len(t) + 1)..Len(t) : t[i] = "."
      BY <2>1, <2>4
    <3> QED BY <2>4, <3>1, TrimEndIs
  <2>6. TrimEnd(t, ".") = t
    BY <2>4, <2>5
  <2>7. AtBothEnds(s, ".") = t /\ Plain(s) = Lowered(t)
    BY <2>2, <2>6 DEF AtBothEnds, Plain, t
  <2> QED BY <2>4, <2>7, LoweredProperties
<1> HIDE DEF d
<1>6. PICK m \in 0..Len(d) : /\ \A i \in 1..m : d[i] = "."
                             /\ m < Len(d) => d[m + 1] # "."
                             /\ TrimStart(d, ".") = SubSeq(d, m + 1, Len(d))
  BY <1>1, TrimStartAt
<1> DEFINE u == SubSeq(d, m + 1, Len(d))
<1>7. /\ u \in Seq(Character) /\ Len(u) = Len(d) - m
      /\ \A i \in 1..(Len(d) - m) : u[i] = d[m + i]
  BY <1>1
<1>8. m < Len(d)
  <2>1. Len(d) > 0
    BY <1>1
  <2> QED BY <1>1, <1>4, <1>6, <2>1
<1>9. AtBothEnds(d, ".") = u /\ Lowered(u) = u
  <2>1. Settled(TrimStart(d, "."))
    BY SettledStays DEF d
  <2>2. TrimStart(d, ".") = u
    BY <1>6
  <2>3. TrimEnd(u, ".") = u /\ Lowered(u) = u
    BY <2>1, <2>2, SettledStays DEF Settled
  <2> QED BY <2>2, <2>3 DEF AtBothEnds
<1> HIDE DEF u
<1> DEFINE v == normalized_domain(c)
           n == IF m = 0 THEN 0 ELSE m - 1
<1>10. /\ v \in Seq(Character) /\ Lowered(v) = v /\ Len(v) = n + Len(u) /\ n \in Nat
       /\ \A i \in 1..Len(u) : v[n + i] = u[i]
       /\ \A i \in 1..n : v[i] = "."
  <2>1. CASE m = 0
    <3>1. ~StartsWithDot(d)
      BY <1>6, <1>8, <2>1 DEF StartsWithDot
    <3>2. v = d
      BY <3>1 DEF normalized_domain, d
    <3> HIDE DEF v
    <3> QED BY <1>1, <1>4, <1>7, <2>1, <3>2
  <2>2. CASE m # 0
    <3>1. StartsWithDot(d)
      BY <1>1, <1>6, <2>2 DEF StartsWithDot
    <3>2. v = Tail(d)
      BY <3>1 DEF normalized_domain, d
    <3>3. /\ Tail(d) = SubSeq(d, 2, Len(d))
          /\ Tail(d) \in Seq(Character) /\ Len(Tail(d)) = Len(d) - 1
          /\ \A i \in 1..(Len(d) - 1) : Tail(d)[i] = d[i + 1]
      BY <1>1
    <3>4. Lowered(Tail(d)) = Tail(d)
      <4>1. 2 \in 1..(Len(d) + 1) /\ Len(d) \in 0..Len(d) /\ 2 <= Len(d) + 1
        BY <1>1, <1>6, <1>8, <2>2
      <4> QED BY <1>1, <1>4, <3>3, <4>1, LoweredPart
    <3> HIDE DEF v
    <3>5. \A i \in 1..Len(u) : v[n + i] = u[i]
      <4>1. \A i \in 1..Len(u) : n + i \in 1..(Len(d) - 1) /\ (n + i) + 1 = m + i
        BY <1>1, <1>7, <1>8, <2>2
      <4> QED BY <1>7, <3>2, <3>3, <4>1
    <3>6. \A i \in 1..n : v[i] = "."
      <4>1. \A i \in 1..n : i \in 1..(Len(d) - 1) /\ i + 1 \in 1..m
        BY <1>1, <1>8, <2>2
      <4> QED BY <1>6, <3>2, <3>3, <4>1
    <3>7. Len(v) = n + Len(u) /\ n \in Nat
      BY <1>1, <1>7, <1>8, <2>2, <3>2, <3>3
    <3> QED BY <3>2, <3>3, <3>4, <3>5, <3>6, <3>7
  <2> QED BY <2>1, <2>2
<1>11. ~WithinDomain(v, Plain(s))
  BY <1>10 DEF Named
<1> HIDE DEF v, n
<1>12. ~WithinDomain(u, Plain(s))
  BY <1>5, <1>7, <1>10, <1>11, DotsBefore
<1>13. Below(d, s) <=> WithinDomain(u, Plain(s))
  BY <1>3, <1>5, <1>9 DEF Below
<1> QED BY <1>12, <1>13 DEF d

-----------------------------------------------------------------------------
(***************************************************************************)
(* Collections.                                                            *)
(***************************************************************************)

\* deduplicate_last_wins keeps the last cookie of every key.
LEMMA Deduplicated ==
  ASSUME NEW list \in Seq(Cookie)
  PROVE  /\ deduplicate_last_wins(list) \in Seq(Cookie)
         /\ ToSet(deduplicate_last_wins(list)) = {list[i] : i \in LastOfKey(list)}
         /\ LastOfKey(list) \subseteq 1..Len(list)
<1>1. LastOfKey(list) \subseteq DOMAIN list /\ DOMAIN list = 1..Len(list)
  BY DEF LastOfKey
<1>2. LastOfKey(list) \cap DOMAIN list = LastOfKey(list)
  BY <1>1
<1> QED BY <1>1, <1>2, RetainedProperties DEF deduplicate_last_wins

\* A cookie that canonicalize returned, whatever has become of its value.
CanonicalForm(c) == c \in Cookie /\ PrefixesFine(c) /\ Settled(c.domain)

\* A collection as canonicalize_collection leaves it.
Collection(C, keep) ==
  /\ IsFiniteSet(C)
  /\ \A c \in C : /\ CanonicalForm(c)
                  /\ keep \/ Sound(c)
                  /\ c.domain = Trim(c.domain) => canonicalize(c) = c
  /\ \A c, d \in C : CookieKey(c) = CookieKey(d) => c = d

\* The places of a list are finitely many, and so are its elements.
LEMMA ElementsFinite ==
  ASSUME NEW n \in Nat, NEW list, NEW places \in SUBSET (1..n)
  PROVE  IsFiniteSet({list[i] : i \in places})
<1> DEFINE T == {list[i] : i \in places}
           f == [i \in places |-> list[i]]
<1>1. IsFiniteSet(places)
  <2>1. IsFiniteSet(1..n)
    BY FS_Interval
  <2> QED BY <2>1, FS_Subset
<1>2. f \in Surjection(places, T)
  BY DEF Surjection
<1> QED BY <1>1, <1>2, FS_Surjection

\* What canonicalize_collection returns is such a collection.
LEMMA CollectionMade ==
  ASSUME NEW keep \in BOOLEAN, NEW list \in Seq(Cookie),
         \A c \in ToSet(list) : keep \/ Sound(c)
  PROVE  Collection(canonicalize_collection(list), keep)
<1> DEFINE made == [i \in DOMAIN list |-> canonicalize(list[i])]
           places == LastOfKey(made)
           C == canonicalize_collection(list)
<1>1. /\ Len(list) \in Nat /\ DOMAIN list = 1..Len(list)
      /\ \A i \in 1..Len(list) : list[i] \in Cookie /\ (keep \/ Sound(list[i]))
  BY DEF ToSet
<1>2. ASSUME NEW r \in Cookie, keep \/ Sound(r)
      PROVE  LET c == canonicalize(r)
             IN /\ CanonicalForm(c) /\ c \in Cookie
                /\ keep \/ Sound(c)
                /\ c.domain = Trim(c.domain) => canonicalize(c) = c
  BY <1>2, CanonicalFields, CanonicalPrefixes, FinalDomainSettled, SoundStays, CanonicalTwice
     DEF CanonicalForm
<1>3. made \in Seq(Cookie) /\ Len(made) = Len(list)
      /\ \A i \in 1..Len(list) : made[i] = canonicalize(list[i])
  BY <1>1, <1>2
<1>4. C = {made[i] : i \in places} /\ places \in SUBSET (1..Len(list))
  BY <1>3, Deduplicated DEF canonicalize_collection
<1>5. IsFiniteSet(C)
  BY <1>1, <1>4, ElementsFinite
<1>6. \A c \in C : /\ CanonicalForm(c)
                   /\ keep \/ Sound(c)
                   /\ c.domain = Trim(c.domain) => canonicalize(c) = c
  <2> HIDE DEF made, places, C
  <2> QED BY <1>1, <1>2, <1>3, <1>4
<1>7. ASSUME NEW c \in C, NEW d \in C, CookieKey(c) = CookieKey(d) PROVE c = d
  <2>1. PICK i \in places, j \in places : c = made[i] /\ d = made[j]
    BY <1>4, <1>7
  <2>2. i \in 1..Len(list) /\ j \in 1..Len(list) /\ ~(i < j) /\ ~(j < i)
    BY <1>1, <1>4, <1>7, <2>1 DEF LastOfKey
  <2> QED BY <2>1, <2>2
<1> QED BY <1>5, <1>6, <1>7 DEF Collection

\* A collection in any order, canonicalized again.
LEMMA CollectionListed ==
  ASSUME NEW S, IsFiniteSet(S)
  PROVE  /\ SetToSeq(S) \in Seq(S)
         /\ {SetToSeq(S)[i] : i \in DOMAIN SetToSeq(S)} = S
         /\ \A i, j \in DOMAIN SetToSeq(S) : SetToSeq(S)[i] = SetToSeq(S)[j] => i = j
<1> DEFINE n == Cardinality(S)
<1>1. n \in Nat /\ ExistsBijection(1..n, S)
  BY FS_CardinalityType
<1>2. \E f \in [1..n -> S] : IsInjective(f)
  BY <1>1 DEF ExistsBijection, Bijection, Injection, IsInjective
<1>3. SetToSeq(S) \in [1..n -> S] /\ IsInjective(SetToSeq(S))
  BY <1>2 DEF SetToSeq
<1> HIDE DEF n
<1>4. SetToSeq(S) \in Injection(1..n, S)
  BY <1>3 DEF Injection, IsInjective
<1>5. SetToSeq(S) \in Surjection(1..n, S)
  <2>1. IsFiniteSet(S) /\ Cardinality(1..n) = Cardinality(S)
    BY <1>1, FS_Interval DEF n
  <2> QED BY <1>4, <2>1, FS_Injection
<1> QED BY <1>1, <1>3, <1>5 DEF Surjection, IsInjective

\* Canonicalizing it again, in any order, changes nothing.
LEMMA CanonicalAgain ==
  ASSUME NEW keep \in BOOLEAN, NEW C, Collection(C, keep),
         \A c \in C : c.domain = Trim(c.domain)
  PROVE  canonicalize_collection(SetToSeq(C)) = C
<1> DEFINE list == SetToSeq(C)
           made == [i \in DOMAIN list |-> canonicalize(list[i])]
<1>1. \A c \in C : c \in Cookie /\ canonicalize(c) = c
  BY DEF Collection, CanonicalForm
<1>2. /\ list \in Seq(C) /\ {list[i] : i \in DOMAIN list} = C
      /\ \A i, j \in DOMAIN list : list[i] = list[j] => i = j
  BY CollectionListed DEF Collection
<1> HIDE DEF list
<1>3. Len(list) \in Nat /\ DOMAIN list = 1..Len(list) /\ \A i \in 1..Len(list) : list[i] \in C
  BY <1>2
<1>4. made = list
  <2>1. \A i \in DOMAIN list : canonicalize(list[i]) = list[i]
    BY <1>1, <1>3
  <2>2. made = [i \in DOMAIN list |-> list[i]]
    BY <2>1
  <2>3. list = [i \in DOMAIN list |-> list[i]]
    BY <1>2
  <2> QED BY <2>2, <2>3
<1>5. list \in Seq(Cookie)
  BY <1>1, <1>2, <1>3
<1>6. LastOfKey(list) = DOMAIN list
  BY <1>2, <1>3 DEF LastOfKey, Collection
<1>7. ToSet(deduplicate_last_wins(list)) = {list[i] : i \in LastOfKey(list)}
  BY <1>5, Deduplicated
<1>8. canonicalize_collection(list) = ToSet(deduplicate_last_wins(made))
  BY DEF canonicalize_collection
<1> HIDE DEF made
<1> QED BY <1>2, <1>4, <1>6, <1>7, <1>8 DEF list

\* What parse_cookies keeps.
LEMMA RawTyped == job \in Options => Raw \in Seq(Cookie)
<1>1. SUFFICES ASSUME job \in Options PROVE Raw \in Seq(Cookie)
  OBVIOUS
<1>2. job.raw \in Seq(Cookie) /\ job.fallback \in Seq(Character)
  BY <1>1 DEF Options
<1>3. Root \in Seq(Segment)
  BY RootProperties
<1> DEFINE d(c) == IF c.domain = <<>> THEN job.fallback ELSE c.domain
           p(c) == IF c.path = <<Empty>> THEN Root ELSE c.path
<1>4. ASSUME NEW c \in Cookie PROVE with_defaults(c, job.fallback) \in Cookie
  <2>1. d(c) \in Seq(Character) /\ p(c) \in Seq(Segment)
    BY <1>2, <1>3 DEF Cookie
  <2>2. with_defaults(c, job.fallback) = [[c EXCEPT !.domain = d(c)] EXCEPT !.path = p(c)]
    BY DEF with_defaults, Cookie
  <2> HIDE DEF d, p
  <2> QED BY <2>1, <2>2 DEF Cookie
<1> QED BY <1>2, <1>4 DEF Raw

\* The cookies that parse_cookies accepts are sound, unless it keeps all.
LEMMA AcceptedProperties ==
  ASSUME NEW raw \in Seq(Cookie), NEW keep \in BOOLEAN, NEW now
  PROVE  LET list == deduplicate_last_wins(Accepted(raw, keep, now))
         IN list \in Seq(Cookie) /\ \A c \in ToSet(list) : keep \/ Sound(c)
<1> DEFINE places == {i \in DOMAIN raw : keep \/ is_valid(validate_cookie(raw[i], now))}
           kept == Accepted(raw, keep, now)
<1>1. kept \in Seq(Cookie) /\ ToSet(kept) = {raw[i] : i \in places \cap DOMAIN raw}
  BY RetainedProperties DEF Accepted
<1>2. \A c \in ToSet(kept) : keep \/ Sound(c)
  BY <1>1, ValidMeans
<1> HIDE DEF kept
<1>3. /\ deduplicate_last_wins(kept) \in Seq(Cookie)
      /\ ToSet(deduplicate_last_wins(kept)) \subseteq ToSet(kept)
  <2>1. /\ deduplicate_last_wins(kept) \in Seq(Cookie)
        /\ ToSet(deduplicate_last_wins(kept)) = {kept[i] : i \in LastOfKey(kept)}
        /\ LastOfKey(kept) \subseteq DOMAIN kept
    BY <1>1, Deduplicated DEF LastOfKey
  <2> QED BY <2>1 DEF ToSet
<1> QED BY <1>2, <1>3 DEF kept

-----------------------------------------------------------------------------
(***************************************************************************)
(* The inductive invariant: what a command holds at every stage, and what  *)
(* its report says of that.                                                *)
(***************************************************************************)

\* Where a command can be.
Stage == {"given", "parsed", "canonical", "validated", "judged", "inspected",
          "fresh", "permitted", "selected", "done", "failed"}

\* Before anything is reported.
NothingYet ==
  stage \in {"given", "parsed"} => issues = <<>> /\ verdicts = <<>> /\ removed = Nothing

\* What has been parsed is a list of accepted cookies.
ListAccepted ==
  stage = "parsed" =>
    cookies \in Seq(Cookie) /\ \A c \in ToSet(cookies) : job.keep_invalid \/ Sound(c)

\* Redaction changes values, so that what is written out is a collection but
\* for these.
CookiesCanonical ==
  /\ Inspected /\ stage # "done" => Collection(cookies, job.keep_invalid)
  /\ Inspected => \A c \in cookies : CanonicalForm(c)

\* Cookies that are accepted only for their validity have no errors.
IssuesMild == ~job.keep_invalid => \A c \in DOMAIN issues : is_valid(issues[c])

\* What an audit says of the cookies as they were read.
AuditSays ==
  job.command = "audit" =>
    \A c \in DOMAIN verdicts : c \in Cookie /\ (is_allowed(verdicts[c]) <=> Permitted(job.policy, c))

\* What the report was made of, from the policy's decisions on.
Reported ==
  /\ IsFiniteSet(DOMAIN verdicts) /\ DOMAIN verdicts \subseteq Cookie
  /\ \A c \in DOMAIN verdicts : is_allowed(verdicts[c]) <=> Permitted(job.policy, c)

\* What the statistics counted, at the time they looked at the clock.
Counted ==
  /\ counts.at \in Nat
  /\ counts.stats.expired = Cardinality({c \in DOMAIN verdicts : is_expired_at(c, counts.at)})

\* What the removal of expired cookies left.
Removed ==
  /\ removed \in [expired : Int, by_policy : Int, at : Nat]
  /\ removed.expired = Cardinality(DOMAIN verdicts) - Cardinality(cookies)
  /\ cookies = {c \in DOMAIN verdicts :
                  job.remove_expired => ~is_expired_at(c, removed.at)}

\* Which of these hold, and since when.
Accounts ==
  /\ stage \in {"canonical", "validated", "judged", "inspected"} => removed = Nothing
  /\ stage \in {"judged", "inspected"} => Reported /\ cookies = DOMAIN verdicts
  /\ stage = "inspected" => Counted
  /\ stage = "fresh" => Reported /\ Counted /\ Removed

\* DeniedDomainsStayOut.
DeniedAreGone ==
  /\ Inspected /\ stage \in {"permitted", "selected", "done"}
  /\ job.deny_policy_violations
  => \A c \in cookies, s \in job.policy.deny_domain_suffixes :
       s # <<>> /\ Last(s) # "." => ~Below(c.domain, s)

\* The inductive invariant.
EngineSound ==
  /\ job \in Options /\ stage \in Stage
  /\ NothingYet /\ ListAccepted /\ CookiesCanonical /\ IssuesMild /\ AuditSays
  /\ Accounts /\ RemovalsExplained /\ DeniedAreGone

\* A step that leaves the job and the report alone keeps what they say.
LEMMA ReportKept ==
  ASSUME job' = job, issues' = issues, verdicts' = verdicts, IssuesMild, AuditSays
  PROVE  IssuesMild' /\ AuditSays'
BY DEF IssuesMild, AuditSays

\* A job as it is given.
LEMMA InitEngine == Init => EngineSound
<1>1. SUFFICES ASSUME Init PROVE EngineSound
  OBVIOUS
<1>2. /\ job \in Options /\ stage = "given" /\ issues = <<>> /\ verdicts = <<>>
      /\ removed = Nothing
  BY <1>1 DEF Init, Given
<1>3. DOMAIN issues = {} /\ DOMAIN verdicts = {}
  BY <1>2
<1>4. ~Inspected
  BY <1>2 DEF Inspected
<1> QED BY <1>2, <1>3, <1>4 DEF EngineSound, Stage, NothingYet, ListAccepted, CookiesCanonical,
          IssuesMild, AuditSays, Accounts, RemovalsExplained, DeniedAreGone

\* One lemma for every step of the pipeline.
LEMMA ParseStep == EngineSound /\ Parse => EngineSound'
<1>1. SUFFICES ASSUME EngineSound, Parse PROVE EngineSound'
  OBVIOUS
<1>2. /\ job \in Options /\ stage = "given" /\ job' = job
      /\ issues' = issues /\ verdicts' = verdicts /\ counts' = counts /\ removed' = removed
  BY <1>1 DEF EngineSound, Parse
<1>3. \/ stage' = "failed"
      \/ /\ stage' = "parsed"
         /\ cookies' \in Seq(Cookie) /\ \A c \in ToSet(cookies') : job.keep_invalid \/ Sound(c)
  <2>1. Raw \in Seq(Cookie) /\ job.keep_invalid \in BOOLEAN
    BY <1>2, RawTyped DEF Options
  <2>2. PICK now \in Clock :
          \/ stage' = "failed"
          \/ /\ stage' = "parsed"
             /\ cookies' = deduplicate_last_wins(Accepted(Raw, job.keep_invalid, now))
    BY <1>1 DEF Parse
  <2> QED BY <2>1, <2>2, AcceptedProperties
<1>4. IssuesMild' /\ AuditSays'
  BY <1>1, <1>2, ReportKept DEF EngineSound
<1>5. NothingYet'
  BY <1>1, <1>2 DEF EngineSound, NothingYet, Nothing
<1>6. ListAccepted' /\ ~Inspected' /\ stage' \in {"parsed", "failed"}
  BY <1>2, <1>3 DEF ListAccepted, Inspected
<1> QED BY <1>2, <1>4, <1>5, <1>6 DEF EngineSound, Stage, CookiesCanonical, Accounts,
          RemovalsExplained, DeniedAreGone

\* Canonicalization, when no report has been made yet.
LEMMA CanonicalizeStep == EngineSound /\ Canonicalize => EngineSound'
<1>1. SUFFICES ASSUME EngineSound, Canonicalize PROVE EngineSound'
  OBVIOUS
<1>2. /\ job \in Options /\ stage = "parsed" /\ stage' = "canonical" /\ job' = job
      /\ issues' = issues /\ verdicts' = verdicts /\ counts' = counts /\ removed' = removed
      /\ cookies' = canonicalize_collection(cookies)
  BY <1>1 DEF EngineSound, Canonicalize, Inspecting
<1>3. Collection(cookies', job.keep_invalid)
  <2>1. job.keep_invalid \in BOOLEAN
    BY <1>2 DEF Options
  <2>2. cookies \in Seq(Cookie) /\ \A c \in ToSet(cookies) : job.keep_invalid \/ Sound(c)
    BY <1>1, <1>2 DEF EngineSound, ListAccepted
  <2> QED BY <1>2, <2>1, <2>2, CollectionMade
<1>4. IssuesMild' /\ AuditSays'
  BY <1>1, <1>2, ReportKept DEF EngineSound
<1>5. CookiesCanonical'
  BY <1>2, <1>3 DEF CookiesCanonical, Collection
<1>6. removed' = Nothing
  BY <1>1, <1>2 DEF EngineSound, NothingYet
<1> QED BY <1>2, <1>4, <1>5, <1>6 DEF EngineSound, Stage, NothingYet, ListAccepted, Accounts,
          RemovalsExplained, DeniedAreGone, Nothing

\* Validation fills in the issues.
LEMMA ValidateStep == EngineSound /\ Validate => EngineSound'
<1>1. SUFFICES ASSUME EngineSound, Validate PROVE EngineSound'
  OBVIOUS
<1>2. PICK at \in [cookies -> Clock] : issues' = [c \in cookies |-> validate_cookie(c, at[c])]
  BY <1>1 DEF Validate
<1>3. /\ job \in Options /\ stage = "canonical" /\ stage' = "validated" /\ job' = job
      /\ cookies' = cookies /\ verdicts' = verdicts /\ counts' = counts /\ removed' = removed
      /\ job.command = "pipeline"
  BY <1>1 DEF EngineSound, Validate, Inspecting
<1>4. Collection(cookies, job.keep_invalid)
  BY <1>1, <1>3 DEF EngineSound, CookiesCanonical, Inspected
<1>5. IssuesMild'
  <2>1. ASSUME ~job.keep_invalid, NEW c \in cookies PROVE is_valid(issues'[c])
    <3>1. Sound(c) /\ issues'[c] = validate_cookie(c, at[c])
      BY <1>2, <1>4, <2>1 DEF Collection
    <3> QED BY <3>1, ValidMeans
  <2> QED BY <1>2, <1>3, <2>1 DEF IssuesMild
<1>6. AuditSays' /\ CookiesCanonical'
  BY <1>3, <1>4 DEF AuditSays, CookiesCanonical, Inspected, Collection
<1>7. removed' = Nothing
  BY <1>1, <1>3 DEF EngineSound, Accounts
<1> QED BY <1>3, <1>5, <1>6, <1>7 DEF EngineSound, Stage, NothingYet, ListAccepted, Accounts,
          RemovalsExplained, DeniedAreGone, Nothing

\* The evaluation of the policy fills in the verdicts.
LEMMA JudgeStep == EngineSound /\ Judge => EngineSound'
<1>1. SUFFICES ASSUME EngineSound, Judge PROVE EngineSound'
  OBVIOUS
<1>2. PICK at \in [cookies -> Clock] :
        verdicts' = [c \in cookies |-> evaluate(job.policy, c, at[c])]
  BY <1>1 DEF Judge
<1>3. /\ job \in Options /\ stage = "validated" /\ stage' = "judged" /\ job' = job
      /\ cookies' = cookies /\ issues' = issues /\ counts' = counts /\ removed' = removed
      /\ job.command = "pipeline"
  BY <1>1 DEF EngineSound, Judge, Inspecting
<1>4. Collection(cookies, job.keep_invalid)
  BY <1>1, <1>3 DEF EngineSound, CookiesCanonical, Inspected
<1>5. Reported' /\ cookies' = DOMAIN verdicts'
  <2>1. DOMAIN verdicts' = cookies /\ IsFiniteSet(cookies) /\ cookies \subseteq Cookie
    BY <1>2, <1>4 DEF Collection, CanonicalForm
  <2>2. ASSUME NEW c \in cookies
        PROVE  is_allowed(verdicts'[c]) <=> Permitted(job.policy, c)
    BY <1>2, <2>2, AllowedMeans
  <2> QED BY <1>3, <2>1, <2>2 DEF Reported
<1>6. IssuesMild' /\ AuditSays' /\ CookiesCanonical'
  BY <1>1, <1>3, <1>4 DEF EngineSound, IssuesMild, AuditSays, CookiesCanonical, Inspected, Collection
<1>7. removed' = Nothing
  BY <1>1, <1>3 DEF EngineSound, Accounts
<1> QED BY <1>3, <1>5, <1>6, <1>7 DEF EngineSound, Stage, NothingYet, ListAccepted, Accounts,
          RemovalsExplained, DeniedAreGone, Nothing

\* The statistics count what the verdicts are about.
LEMMA TakeStatisticsStep == EngineSound /\ TakeStatistics => EngineSound'
<1>1. SUFFICES ASSUME EngineSound, TakeStatistics PROVE EngineSound'
  OBVIOUS
<1>2. PICK now \in Clock : counts' = [at |-> now, stats |-> compute(cookies, now)]
  BY <1>1 DEF TakeStatistics
<1>3. /\ job \in Options /\ stage = "judged" /\ stage' = "inspected" /\ job' = job
      /\ cookies' = cookies /\ issues' = issues /\ verdicts' = verdicts /\ removed' = removed
      /\ job.command = "pipeline"
  BY <1>1 DEF EngineSound, TakeStatistics, Inspecting
<1>4. Reported /\ cookies = DOMAIN verdicts /\ removed = Nothing
  BY <1>1, <1>3 DEF EngineSound, Accounts
<1>5. Counted'
  <2>1. now \in Nat
    BY ModelAssumption
  <2>2. compute(cookies, now).expired = Cardinality({c \in cookies : is_expired_at(c, now)})
    BY DEF compute, Count
  <2>3. counts'.at = now /\ counts'.stats = compute(cookies, now)
    BY <1>2
  <2> QED BY <1>3, <1>4, <2>1, <2>2, <2>3 DEF Counted
<1>6. Collection(cookies, job.keep_invalid)
  BY <1>1, <1>3 DEF EngineSound, CookiesCanonical, Inspected
<1>7. IssuesMild' /\ AuditSays' /\ CookiesCanonical' /\ Reported'
  BY <1>1, <1>3, <1>4, <1>6
     DEF EngineSound, IssuesMild, AuditSays, CookiesCanonical, Inspected, Collection, Reported
<1> QED BY <1>3, <1>4, <1>5, <1>7 DEF EngineSound, Stage, NothingYet, ListAccepted, Accounts,
          RemovalsExplained, DeniedAreGone, Nothing

\* Some of a collection.
LEMMA CollectionPart ==
  ASSUME NEW keep, NEW C, Collection(C, keep), NEW D \in SUBSET C
  PROVE  /\ Collection(D, keep) /\ IsFiniteSet(D) /\ IsFiniteSet(C)
         /\ Cardinality(D) \in Nat /\ Cardinality(C) \in Nat /\ Cardinality(D) <= Cardinality(C)
<1>1. IsFiniteSet(C)
  BY DEF Collection
<1>2. IsFiniteSet(D) /\ Cardinality(D) <= Cardinality(C)
  BY <1>1, FS_Subset
<1> QED BY <1>1, <1>2, FS_CardinalityType DEF Collection

\* What is removed as expired is counted as removed.
LEMMA RemoveExpiredStep == EngineSound /\ RemoveExpired => EngineSound'
<1>1. SUFFICES ASSUME EngineSound, RemoveExpired PROVE EngineSound'
  OBVIOUS
<1>2. PICK now \in Clock :
        /\ cookies' = IF job.remove_expired THEN remove_expired_at(cookies, now) ELSE cookies
        /\ removed' = [removed EXCEPT
                         !.expired = Cardinality(cookies) - Cardinality(cookies'),
                         !.at = now]
  BY <1>1 DEF RemoveExpired
<1>3. /\ job \in Options /\ stage = "inspected" /\ stage' = "fresh" /\ job' = job
      /\ issues' = issues /\ verdicts' = verdicts /\ counts' = counts
      /\ job.command = "pipeline"
  BY <1>1 DEF EngineSound, RemoveExpired, Inspecting
<1>4. Reported /\ Counted /\ cookies = DOMAIN verdicts /\ removed = Nothing
  BY <1>1, <1>3 DEF EngineSound, Accounts
<1>5. Collection(cookies, job.keep_invalid)
  BY <1>1, <1>3 DEF EngineSound, CookiesCanonical, Inspected
<1>6. cookies' = {c \in cookies : job.remove_expired => ~is_expired_at(c, now)}
  BY <1>2 DEF remove_expired_at
<1>7. /\ Collection(cookies', job.keep_invalid)
      /\ Cardinality(cookies') \in Nat /\ Cardinality(cookies) \in Nat
  BY <1>5, <1>6, CollectionPart
<1>8. Removed'
  <2>1. now \in Nat
    BY ModelAssumption
  <2> DEFINE n == Cardinality(cookies) - Cardinality(cookies')
  <2>2. n \in Int
    BY <1>7
  <2>3. removed' = [removed EXCEPT !.expired = n, !.at = now]
    BY <1>2
  <2> HIDE DEF n
  <2>4. removed' = [expired |-> n, by_policy |-> 0, at |-> now]
    BY <1>4, <2>3 DEF Nothing
  <2> QED BY <1>3, <1>4, <1>6, <2>1, <2>2, <2>4 DEF Removed, n
<1>9. IssuesMild' /\ AuditSays' /\ Reported' /\ Counted'
  BY <1>1, <1>3, <1>4 DEF EngineSound, IssuesMild, AuditSays, Reported, Counted
<1>10. CookiesCanonical'
  BY <1>3, <1>7 DEF CookiesCanonical, Collection
<1> QED BY <1>3, <1>8, <1>9, <1>10 DEF EngineSound, Stage, NothingYet, ListAccepted, Accounts,
          RemovalsExplained, DeniedAreGone

\* The filter leaves out what its own evaluation denies.
LEMMA FilterStep == EngineSound /\ FilterByPolicy => EngineSound'
<1>1. SUFFICES ASSUME EngineSound, FilterByPolicy PROVE EngineSound'
  OBVIOUS
<1>2. PICK at \in [cookies -> Clock] :
        /\ cookies' = {c \in cookies : \/ ~job.deny_policy_violations
                                       \/ is_allowed(evaluate(job.policy, c, at[c]))}
        /\ removed' = [removed EXCEPT
                         !.by_policy = Cardinality(cookies) - Cardinality(cookies')]
  BY <1>1 DEF FilterByPolicy
<1>3. /\ job \in Options /\ stage = "fresh" /\ stage' = "permitted" /\ job' = job
      /\ issues' = issues /\ verdicts' = verdicts /\ counts' = counts
      /\ job.command = "pipeline"
  BY <1>1 DEF EngineSound, FilterByPolicy, Inspecting
<1>4. Reported /\ Counted /\ Removed
  BY <1>1, <1>3 DEF EngineSound, Accounts
<1>5. Collection(cookies, job.keep_invalid)
  BY <1>1, <1>3 DEF EngineSound, CookiesCanonical, Inspected
<1>6. cookies' = {c \in cookies : job.deny_policy_violations => Permitted(job.policy, c)}
  BY <1>2, AllowedMeans
<1>7. /\ Collection(cookies', job.keep_invalid)
      /\ Cardinality(cookies') \in Nat /\ Cardinality(cookies) \in Nat
  BY <1>5, <1>6, CollectionPart
<1>8. RemovalsExplained'
  <2> DEFINE D == DOMAIN verdicts
             n == Cardinality(cookies) - Cardinality(cookies')
  <2>1. /\ IsFiniteSet(D) /\ D \subseteq Cookie /\ Cardinality(D) \in Nat
        /\ \A c \in D : is_allowed(verdicts[c]) <=> Permitted(job.policy, c)
    BY <1>4, FS_CardinalityType DEF Reported
  <2>2. /\ removed \in [expired : Int, by_policy : Int, at : Nat]
        /\ removed.expired = Cardinality(D) - Cardinality(cookies)
        /\ cookies = {c \in D : job.remove_expired => ~is_expired_at(c, removed.at)}
    BY <1>4 DEF Removed
  <2>3. /\ removed'.expired = removed.expired /\ removed'.by_policy = n /\ removed'.at = removed.at
    BY <1>2, <2>2
  <2>4. cookies' = {c \in DOMAIN verdicts' :
                      /\ job'.deny_policy_violations => is_allowed(verdicts'[c])
                      /\ job'.remove_expired => ~is_expired_at(c, removed'.at)}
    BY <1>3, <1>6, <2>1, <2>2, <2>3
  <2>5. removed'.expired + removed'.by_policy
          = Cardinality(DOMAIN verdicts') - Cardinality(cookies')
    <3> DEFINE d == Cardinality(D)
               before == Cardinality(cookies)
               after == Cardinality(cookies')
    <3>1. /\ d \in Nat /\ before \in Nat /\ after \in Nat
          /\ removed'.expired = d - before /\ removed'.by_policy = before - after
      BY <1>7, <2>1, <2>2, <2>3
    <3>2. DOMAIN verdicts' = D
      BY <1>3
    <3> HIDE DEF d, before, after, D
    <3>3. removed'.expired + removed'.by_policy = d - after
      BY <3>1
    <3> QED BY <3>2, <3>3 DEF d, after
  <2>6. ASSUME job.remove_expired, counts.at <= removed.at
        PROVE  removed.expired >= counts.stats.expired
    <3> DEFINE E == {c \in D : is_expired_at(c, counts.at)}
               gone == D \ cookies
    <3>1. counts.at \in Nat /\ counts.stats.expired = Cardinality(E)
      BY <1>4 DEF Counted
    <3>2. E \subseteq gone
      <4>1. ASSUME NEW c \in D, is_expired_at(c, counts.at) PROVE is_expired_at(c, removed.at)
        <5>1. c.expiration \in Int
          BY <2>1, <4>1 DEF Cookie
        <5> QED BY <2>2, <2>6, <3>1, <4>1, <5>1 DEF is_expired_at
      <4> QED BY <2>2, <2>6, <4>1
    <3>3. IsFiniteSet(gone) /\ Cardinality(gone) = Cardinality(D) - Cardinality(cookies)
      <4>1. D \cap cookies = cookies
        BY <2>2
      <4> QED BY <2>1, <4>1, FS_Difference
    <3>4. Cardinality(E) <= Cardinality(gone) /\ Cardinality(E) \in Nat
      <4>1. IsFiniteSet(E)
        BY <3>2, <3>3, FS_Subset
      <4> QED BY <3>2, <3>3, <4>1, FS_Subset, FS_CardinalityType
    <3> QED BY <1>7, <2>1, <2>2, <3>1, <3>3, <3>4
  <2> QED BY <1>3, <2>3, <2>4, <2>5, <2>6 DEF RemovalsExplained
<1>9. DeniedAreGone'
  <2>1. SUFFICES ASSUME job.deny_policy_violations,
                        NEW c \in cookies', NEW s \in job.policy.deny_domain_suffixes,
                        s # <<>>, Last(s) # "."
                 PROVE  ~Below(c.domain, s)
    BY <1>3 DEF DeniedAreGone
  <2>2. c \in Cookie /\ Settled(c.domain)
    BY <1>7 DEF Collection, CanonicalForm
  <2>3. Sound(c) /\ ~Named(c, job.policy.deny_domain_suffixes)
    BY <1>6, <2>1 DEF Permitted
  <2>4. job.policy.deny_domain_suffixes \in SUBSET Seq(Character)
    BY <1>3 DEF Options, Policy
  <2> QED BY <2>1, <2>2, <2>3, <2>4, DeniedBelow
<1>10. IssuesMild' /\ AuditSays'
  BY <1>1, <1>3, ReportKept DEF EngineSound
<1>11. CookiesCanonical'
  BY <1>3, <1>7 DEF CookiesCanonical, Collection
<1> QED BY <1>3, <1>8, <1>9, <1>10, <1>11 DEF EngineSound, Stage, NothingYet, ListAccepted, Accounts

\* What a query selects is part of what it is asked about.
LEMMA SelectPart ==
  ASSUME NEW list, Select(list)
  PROVE  \/ stage' = "failed"
         \/ stage' = "selected" /\ cookies' \subseteq list
BY DEF Select

\* What is selected is no more than what was permitted.
LEMMA SelectStep == EngineSound /\ SelectFromPipeline => EngineSound'
<1>1. SUFFICES ASSUME EngineSound, SelectFromPipeline PROVE EngineSound'
  OBVIOUS
<1>2. /\ job \in Options /\ stage = "permitted" /\ job' = job
      /\ issues' = issues /\ verdicts' = verdicts /\ counts' = counts /\ removed' = removed
  BY <1>1 DEF EngineSound, SelectFromPipeline
<1>3. \/ stage' = "failed"
      \/ stage' = "selected" /\ cookies' \subseteq cookies
  BY <1>1, SelectPart DEF SelectFromPipeline
<1>4. IssuesMild' /\ AuditSays'
  BY <1>1, <1>2, ReportKept DEF EngineSound
<1>5. CookiesCanonical'
  <2>1. SUFFICES ASSUME Inspected' PROVE Collection(cookies', job.keep_invalid)
    BY <1>2 DEF CookiesCanonical, Collection
  <2>2. cookies' \subseteq cookies /\ Inspected
    BY <1>2, <1>3, <2>1 DEF Inspected
  <2>3. Collection(cookies, job.keep_invalid)
    BY <1>1, <1>2, <2>2 DEF EngineSound, CookiesCanonical
  <2> QED BY <2>2, <2>3, CollectionPart
<1>6. DeniedAreGone'
  <2>1. DeniedAreGone
    BY <1>1 DEF EngineSound
  <2> QED BY <1>2, <1>3, <2>1 DEF DeniedAreGone, Inspected
<1> QED BY <1>2, <1>3, <1>4, <1>5, <1>6 DEF EngineSound, Stage, NothingYet, ListAccepted,
          Accounts, RemovalsExplained

\* redact_value changes a value, which no rule for canonical cookies reads.
LEMMA Redacted ==
  ASSUME NEW c, CanonicalForm(c), NEW d, d = [c EXCEPT !.value = redact_value(@)]
  PROVE  CanonicalForm(d) /\ d.domain = c.domain
<1> DEFINE v == redact_value(c.value)
<1>1. c \in Cookie /\ c.value \in Nat
  BY DEF CanonicalForm, Cookie
<1>2. v \in Nat
  <2> DEFINE l == c.value
  <2>1. l \in Nat
    BY <1>1
  <2> HIDE DEF l
  <2>2. redact_value(l) \in Nat
    <3>1. CASE l = 0
      BY <3>1 DEF redact_value
    <3>2. CASE l \in 1..6
      BY <3>2 DEF redact_value
    <3>3. CASE l \notin {0} \cup 1..6
      <4>1. l - 6 \in Nat
        BY <2>1, <3>3
      <4> QED BY <3>3, <4>1 DEF redact_value
    <3> QED BY <3>1, <3>2, <3>3
  <2> QED BY <2>2 DEF l
<1>3. d = [c EXCEPT !.value = v]
  OBVIOUS
<1> HIDE DEF v
<1>4. /\ d \in Cookie /\ d.domain = c.domain /\ d.prefix = c.prefix /\ d.padded = c.padded
      /\ d.secure = c.secure /\ d.path = c.path /\ d.host_only = c.host_only
      /\ d.same_site = c.same_site
  BY <1>1, <1>2, <1>3 DEF Cookie
<1>5. validate_prefixes(d) = validate_prefixes(c)
  BY <1>4 DEF validate_prefixes, is_host_prefix, is_secure_prefix
<1> QED BY <1>4, <1>5 DEF CanonicalForm, PrefixesFine

\* Writing out changes no cookie but by redaction.
LEMMA SerializeStep == EngineSound /\ Serialize => EngineSound'
<1>1. SUFFICES ASSUME EngineSound, Serialize PROVE EngineSound'
  OBVIOUS
<1>2. /\ job \in Options /\ stage = "selected" /\ stage' = "done" /\ job' = job
      /\ issues' = issues /\ verdicts' = verdicts /\ counts' = counts /\ removed' = removed
  BY <1>1 DEF EngineSound, Serialize
<1>3. \A d \in cookies' : \E c \in cookies : d = c \/ d = [c EXCEPT !.value = redact_value(@)]
  BY <1>1 DEF Serialize
<1>4. IssuesMild' /\ AuditSays'
  BY <1>1, <1>2, ReportKept DEF EngineSound
<1>5. CookiesCanonical'
  <2>1. SUFFICES ASSUME Inspected', NEW d \in cookies' PROVE CanonicalForm(d)
    BY <1>2 DEF CookiesCanonical
  <2>2. \A c \in cookies : CanonicalForm(c)
    BY <1>1, <1>2, <2>1 DEF EngineSound, CookiesCanonical, Inspected
  <2> QED BY <1>3, <2>2, Redacted
<1>6. DeniedAreGone'
  <2>1. SUFFICES ASSUME Inspected', job.deny_policy_violations,
                        NEW d \in cookies', NEW s \in job.policy.deny_domain_suffixes,
                        s # <<>>, Last(s) # "."
                 PROVE  ~Below(d.domain, s)
    BY <1>2 DEF DeniedAreGone
  <2>2. PICK c \in cookies : d = c \/ d = [c EXCEPT !.value = redact_value(@)]
    BY <1>3
  <2>3. CanonicalForm(c)
    BY <1>1, <1>2, <2>1 DEF EngineSound, CookiesCanonical, Inspected
  <2>4. d.domain = c.domain
    BY <2>2, <2>3, Redacted
  <2>5. ~Below(c.domain, s)
    BY <1>1, <1>2, <2>1 DEF EngineSound, DeniedAreGone, Inspected
  <2> QED BY <2>4, <2>5
<1> QED BY <1>2, <1>4, <1>5, <1>6 DEF EngineSound, Stage, NothingYet, ListAccepted,
          Accounts, RemovalsExplained

\* The other commands.
LEMMA CommandStep ==
  ASSUME EngineSound, job.command # "pipeline", stage = "parsed", job' = job,
         stage' \in {"selected", "done", "failed"}, issues' = issues, AuditSays'
  PROVE  EngineSound'
<1>1. job \in Options /\ IssuesMild'
  BY DEF EngineSound, IssuesMild
<1>2. ~Inspected'
  BY DEF Inspected
<1> QED BY <1>1, <1>2 DEF EngineSound, Stage, NothingYet, ListAccepted, CookiesCanonical,
          Accounts, RemovalsExplained, DeniedAreGone

\* audit reports what the policy says of the cookies as they were read.
LEMMA AuditStep == EngineSound /\ CommandAudit => EngineSound'
<1>1. SUFFICES ASSUME EngineSound, CommandAudit PROVE EngineSound'
  OBVIOUS
<1>2. PICK at \in [ToSet(cookies) -> Clock] :
        verdicts' = [c \in ToSet(cookies) |-> evaluate(job.policy, c, at[c])]
  BY <1>1 DEF CommandAudit
<1>3. /\ job.command = "audit" /\ stage = "parsed" /\ job' = job /\ issues' = issues
      /\ stage' \in {"done", "failed"}
  BY <1>1 DEF CommandAudit
<1>4. ToSet(cookies) \subseteq Cookie
  BY <1>1, <1>3 DEF EngineSound, ListAccepted, ToSet
<1>5. AuditSays'
  <2>1. DOMAIN verdicts' = ToSet(cookies)
    BY <1>2
  <2>2. ASSUME NEW c \in ToSet(cookies)
        PROVE  is_allowed(verdicts'[c]) <=> Permitted(job.policy, c)
    BY <1>2, <2>2, AllowedMeans
  <2> QED BY <1>3, <1>4, <2>1, <2>2 DEF AuditSays
<1> QED BY <1>1, <1>3, <1>5, CommandStep

LEMMA OtherCommandsStep ==
  EngineSound /\ (CommandConvert \/ CommandValidate \/ CommandQuery) => EngineSound'
<1>1. SUFFICES ASSUME EngineSound, CommandConvert \/ CommandValidate \/ CommandQuery
               PROVE  EngineSound'
  OBVIOUS
<1>2. /\ job.command # "pipeline" /\ stage = "parsed" /\ job' = job /\ issues' = issues
      /\ verdicts' = verdicts
  BY <1>1 DEF CommandConvert, CommandValidate, CommandQuery
<1>3. stage' \in {"selected", "done", "failed"}
  BY <1>1, SelectPart DEF CommandConvert, CommandValidate, CommandQuery
<1>4. AuditSays'
  BY <1>1, <1>2, ReportKept DEF EngineSound
<1> QED BY <1>1, <1>2, <1>3, <1>4, CommandStep

\* Every step keeps the invariant.
LEMMA StepSound == EngineSound /\ [Next]_vars => EngineSound'
<1>1. EngineSound /\ Next => EngineSound'
  BY ParseStep, CanonicalizeStep, ValidateStep, JudgeStep, TakeStatisticsStep,
     RemoveExpiredStep, FilterStep, SelectStep, SerializeStep, AuditStep, OtherCommandsStep
     DEF Next
<1>2. EngineSound /\ UNCHANGED vars => EngineSound'
  <2>1. SUFFICES ASSUME EngineSound, UNCHANGED vars PROVE EngineSound'
    OBVIOUS
  <2>2. /\ job' = job /\ stage' = stage /\ cookies' = cookies /\ issues' = issues
        /\ verdicts' = verdicts /\ counts' = counts /\ removed' = removed
    BY <2>1 DEF vars
  <2>3. Inspected' = Inspected
    BY <2>2 DEF Inspected
  <2> QED BY <2>1, <2>2, <2>3 DEF EngineSound, NothingYet, ListAccepted, CookiesCanonical,
            IssuesMild, AuditSays, Accounts, Reported, Counted, Removed, RemovalsExplained,
            DeniedAreGone
<1> QED BY <1>1, <1>2

\* The invariant holds of every behaviour.
LEMMA AlwaysSound == Spec => []EngineSound
BY InitEngine, StepSound, PTL DEF Spec

-----------------------------------------------------------------------------
\* No canonical cookie that a command works on breaks the rules of its name
\* prefix, or has same_site "none" without being secure, although canonicalize
\* decides on the domain, the path and the flags in that order.
THEOREM PrefixesAreKept == Spec => []PrefixRulesHold
<1>1. EngineSound => PrefixRulesHold
  BY DEF EngineSound, CookiesCanonical, CanonicalForm, PrefixesFine, PrefixRulesHold
<1> QED BY <1>1, AlwaysSound, PTL

\* Canonicalizing what a command works on once more changes no cookie and
\* loses none, as long as domains have no blanks around them.
THEOREM CanonicalizingSettles == Spec => []Idempotent
<1>1. EngineSound => Idempotent
  <2>1. SUFFICES ASSUME EngineSound, Inspected, stage # "done",
                        \A c \in cookies : c.domain = Trim(c.domain)
                 PROVE  canonicalize_collection(SetToSeq(cookies)) = cookies
    BY DEF Idempotent
  <2>2. Collection(cookies, job.keep_invalid) /\ job.keep_invalid \in BOOLEAN
    BY <2>1 DEF EngineSound, CookiesCanonical, Options
  <2> QED BY <2>1, <2>2, CanonicalAgain
<1> QED BY <1>1, AlwaysSound, PTL

\* A cookie that parse_cookies accepted as valid is valid in every later stage,
\* although canonicalize rewrites its domain and its path and the clock goes on.
THEOREM ValidityLasts == Spec => []AcceptedStaysValid
<1>1. EngineSound => AcceptedStaysValid
  BY DEF EngineSound, IssuesMild, AcceptedStaysValid
<1> QED BY <1>1, AlwaysSound, PTL

\* The report accounts for every cookie that a pipeline removes: as many as the
\* statistics counted as expired, unless the clock passed a date in between, and
\* as many as the policy denied.
THEOREM RemovalsAreExplained == Spec => []RemovalsExplained
<1>1. EngineSound => RemovalsExplained
  BY DEF EngineSound
<1> QED BY <1>1, AlwaysSound, PTL

\* A pipeline that denies the domains below a suffix puts out no cookie of one,
\* however the domain was written in its input.
THEOREM DeniedDomainsAreOut == Spec => []DeniedDomainsStayOut
<1>1. EngineSound => DeniedDomainsStayOut
  BY DEF EngineSound, DeniedAreGone, DeniedDomainsStayOut, Below
<1> QED BY <1>1, AlwaysSound, PTL

\* What an audit says of a cookie is what a pipeline under the same policy does
\* with it, although the one looks before the cookie is canonical.
THEOREM AuditsForetell == Spec => []AuditForetells
<1>1. EngineSound => AuditForetells
  <2>1. SUFFICES ASSUME EngineSound, job.command = "audit", NEW c \in DOMAIN verdicts,
                        is_allowed(verdicts[c]), c.domain # <<>> => Last(c.domain) # ".",
                        NEW now \in Clock
                 PROVE  is_allowed(evaluate(job.policy, canonicalize(c), now))
    BY DEF AuditForetells
  <2>2. c \in Cookie /\ Permitted(job.policy, c)
    BY <2>1 DEF EngineSound, AuditSays
  <2>3. Last(c.domain) # "."
    BY <2>1, <2>2 DEF Permitted, Sound, DomainFine
  <2>4. Permitted(job.policy, canonicalize(c))
    BY <2>2, <2>3, PermittedStays
  <2> QED BY <2>4, AllowedMeans
<1> QED BY <1>1, AlwaysSound, PTL

-----------------------------------------------------------------------------
(***************************************************************************)
(* Which names of a path are left: normalize_path keeps a stack, Resolved  *)
(* looks at the whole path at once.                                        *)
(***************************************************************************)

\* One more number in an interval.
LEMMA OneMore ==
  ASSUME NEW T, NEW a \in Int, NEW n \in Int, a <= n
  PROVE  /\ Cardinality(T \cap (a..(n - 1))) \in Nat
         /\ Cardinality(T \cap (a..n))
              = Cardinality(T \cap (a..(n - 1))) + IF n \in T THEN 1 ELSE 0
<1> DEFINE S == T \cap (a..(n - 1))
<1>1. IsFiniteSet(S)
  <2>1. IsFiniteSet(a..(n - 1)) /\ S \in SUBSET (a..(n - 1))
    BY FS_Interval
  <2> QED BY <2>1, FS_Subset
<1>2. T \cap (a..n) = IF n \in T THEN S \cup {n} ELSE S
  OBVIOUS
<1>3. n \notin S
  OBVIOUS
<1> HIDE DEF S
<1>4. Cardinality(S \cup {n}) = Cardinality(S) + 1 /\ Cardinality(S) \in Nat
  BY <1>1, <1>3, FS_AddElement, FS_CardinalityType
<1>5. Cardinality(T \cap (a..n)) = Cardinality(S) + IF n \in T THEN 1 ELSE 0
  <2>1. CASE n \in T
    BY <1>2, <1>4, <2>1
  <2>2. CASE n \notin T
    BY <1>2, <1>4, <2>2
  <2> QED BY <2>1, <2>2
<1> QED BY <1>4, <1>5 DEF S

\* Whether the segment at a place is a name.
NameAt(path, h) == path[h] \notin {Empty, ".", ".."}

\* How many more names than ".." segments there are between two places.
Balance(path, i, j) ==
  Cardinality(NamesIn(path, i + 1, j)) - Cardinality({h \in (i + 1)..j : path[h] = ".."})

\* No ".." takes away what stood at i.
Staying(path, i, n) == \A j \in i..n : 0 <= Balance(path, i, j)

\* One more segment, from where the balance is counted, from nothing, and for
\* what stays.
LEMMA BalanceGrows ==
  ASSUME NEW path, NEW i \in Nat, NEW n \in Nat, i < n
  PROVE  /\ Balance(path, i, n - 1) \in Int
         /\ Balance(path, i, n) = Balance(path, i, n - 1)
              + (IF NameAt(path, n) THEN 1 ELSE IF path[n] = ".." THEN -1 ELSE 0)
<1> DEFINE N == {h \in Nat : NameAt(path, h)}
           D == {h \in Nat : path[h] = ".."}
<1>1. \A m \in Nat : /\ NamesIn(path, i + 1, m) = N \cap ((i + 1)..m)
                     /\ {h \in (i + 1)..m : path[h] = ".."} = D \cap ((i + 1)..m)
  BY DEF NamesIn, NameAt
<1>2. i + 1 \in Int /\ n \in Int /\ i + 1 <= n /\ n - 1 \in Nat
  OBVIOUS
<1>3. NameAt(path, n) => path[n] # ".."
  BY DEF NameAt
<1>4. (n \in N <=> NameAt(path, n)) /\ (n \in D <=> path[n] = "..")
  OBVIOUS
<1> DEFINE a == Cardinality(N \cap ((i + 1)..(n - 1)))
           b == Cardinality(D \cap ((i + 1)..(n - 1)))
<1> HIDE DEF N, D
<1>5. /\ a \in Nat /\ b \in Nat
      /\ Cardinality(N \cap ((i + 1)..n)) = a + (IF n \in N THEN 1 ELSE 0)
      /\ Cardinality(D \cap ((i + 1)..n)) = b + (IF n \in D THEN 1 ELSE 0)
  <2> DEFINE e == i + 1
  <2>1. e \in Int /\ n \in Int /\ e <= n
    OBVIOUS
  <2> HIDE DEF e
  <2>4. \A T : /\ Cardinality(T \cap (e..(n - 1))) \in Nat
               /\ Cardinality(T \cap (e..n))
                    = Cardinality(T \cap (e..(n - 1))) + IF n \in T THEN 1 ELSE 0
    BY <2>1, OneMore
  <2>2. /\ Cardinality(N \cap (e..(n - 1))) \in Nat
        /\ Cardinality(N \cap (e..n))
             = Cardinality(N \cap (e..(n - 1))) + IF n \in N THEN 1 ELSE 0
    BY <2>4
  <2>3. /\ Cardinality(D \cap (e..(n - 1))) \in Nat
        /\ Cardinality(D \cap (e..n))
             = Cardinality(D \cap (e..(n - 1))) + IF n \in D THEN 1 ELSE 0
    BY <2>4
  <2> QED BY <2>2, <2>3 DEF e
<1>6. Balance(path, i, n - 1) = a - b
  BY <1>1, <1>2 DEF Balance
<1>7. Balance(path, i, n) = (a + (IF n \in N THEN 1 ELSE 0)) - (b + (IF n \in D THEN 1 ELSE 0))
  BY <1>1, <1>5 DEF Balance
<1> HIDE DEF a, b
<1> QED BY <1>3, <1>4, <1>5, <1>6, <1>7

\* Between a place and itself the balance is even.
LEMMA BalanceStarts ==
  ASSUME NEW path, NEW i \in Nat
  PROVE  Balance(path, i, i) = 0
<1>1. NamesIn(path, i + 1, i) = {} /\ {h \in (i + 1)..i : path[h] = ".."} = {}
  BY DEF NamesIn
<1> QED BY <1>1, FS_EmptySet DEF Balance

\* Whether a name stays is decided one segment at a time.
LEMMA StayingGrows ==
  ASSUME NEW path, NEW i \in Nat, NEW n \in Nat, i < n
  PROVE  Staying(path, i, n) <=> Staying(path, i, n - 1) /\ 0 <= Balance(path, i, n)
<1>1. i..n = (i..(n - 1)) \cup {n}
  OBVIOUS
<1> QED BY <1>1 DEF Staying

\* The names that the walk holds after n segments stand at the places p.
Placed(path, kept, n, m, p) ==
  /\ m \in Nat /\ Len(kept) = m
  /\ \A k \in 1..m : /\ p[k] \in 1..n /\ NameAt(path, p[k])
                     /\ kept[k] = path[p[k]]
                     /\ Staying(path, p[k], n) /\ Balance(path, p[k], n) = m - k
  /\ \A j, k \in 1..m : j < k => p[j] < p[k]
  /\ \A i \in 1..n : NameAt(path, i) /\ (\A k \in 1..m : p[k] # i) => ~Staying(path, i, n)

\* One more segment of the path: a name is added, or the last one taken away.
LEMMA PlacedStep ==
  ASSUME NEW path, NEW n \in Nat \ {0}, path[n] \in Segment,
         NEW w \in Walked, ~w.cut, NEW m, NEW p, Placed(path, w.kept, n - 1, m, p),
         ~Step(w, path[n]).cut
  PROVE  \E l, q : Placed(path, Step(w, path[n]).kept, n, l, q)
<1> DEFINE kept == w.kept
           s == path[n]
           next == Step(w, s).kept
<1>1. kept \in Seq(Ordinary) /\ n - 1 \in Nat
  BY DEF Walked
<1>2. /\ m \in Nat /\ Len(kept) = m
      /\ \A k \in 1..m : /\ p[k] \in 1..(n - 1) /\ NameAt(path, p[k])
                         /\ kept[k] = path[p[k]]
                         /\ Staying(path, p[k], n - 1) /\ Balance(path, p[k], n - 1) = m - k
      /\ \A j, k \in 1..m : j < k => p[j] < p[k]
      /\ \A i \in 1..(n - 1) : NameAt(path, i) /\ (\A k \in 1..m : p[k] # i)
                                 => ~Staying(path, i, n - 1)
  BY DEF Placed
<1>3. \A i \in 1..(n - 1) : ~Staying(path, i, n - 1) => ~Staying(path, i, n)
  BY StayingGrows
<1>4. \A i \in 1..(n - 1) :
        Balance(path, i, n) = Balance(path, i, n - 1)
              + (IF NameAt(path, n) THEN 1 ELSE IF path[n] = ".." THEN -1 ELSE 0)
  BY BalanceGrows
<1>5. \A i \in 1..(n - 1) : Staying(path, i, n) <=> Staying(path, i, n - 1) /\ 0 <= Balance(path, i, n)
  BY StayingGrows
<1>6. CASE s \in {Empty, "."}
  <2>1. next = kept
    BY <1>6 DEF Step
  <2>2. ~NameAt(path, n) /\ path[n] # ".."
    BY <1>6, Spelled DEF NameAt
  <2>3. \A k \in 1..m : /\ Balance(path, p[k], n) = m - k /\ p[k] \in 1..n
                        /\ Staying(path, p[k], n)
    BY <1>2, <1>4, <1>5, <2>2
  <2>4. \A i \in 1..n : NameAt(path, i) => i \in 1..(n - 1)
    BY <2>2
  <2>5. Placed(path, next, n, m, p)
    <3> HIDE DEF next, kept
    <3> QED BY <1>2, <1>3, <2>1, <2>3, <2>4 DEF Placed
  <2> QED BY <2>5
<1>7. CASE s = ".."
  <2>1. s \notin {Empty, "."} /\ ~NameAt(path, n)
    BY <1>7, Spelled DEF NameAt
  <2>2. next = IF kept = <<>> THEN kept ELSE Front(kept)
    BY <1>7, <2>1 DEF Step, Walked
  <2>3. \A i \in 1..n : NameAt(path, i) => i \in 1..(n - 1)
    BY <2>1
  <2>4. CASE m = 0
    <3>1. next = kept
      BY <1>1, <1>2, <2>2, <2>4
    <3>2. Placed(path, next, n, m, p)
      <4> HIDE DEF next, kept
      <4> QED BY <1>2, <1>3, <2>3, <2>4, <3>1 DEF Placed
    <3> QED BY <3>2
  <2>5. CASE m # 0
    <3> DEFINE l == m - 1
    <3>1. l \in Nat /\ next = SubSeq(kept, 1, l)
      BY <1>1, <1>2, <2>2, <2>5 DEF Front
    <3>2. Len(next) = l /\ \A k \in 1..l : next[k] = kept[k]
      BY <1>1, <1>2, <3>1
    <3>3. \A k \in 1..m : Balance(path, p[k], n) = m - k - 1 /\ p[k] \in 1..n
      BY <1>2, <1>4, <1>7, <2>1
    <3>4. ASSUME NEW k \in 1..l PROVE Staying(path, p[k], n) /\ k \in 1..m
      <4>1. k \in 1..m /\ 0 <= m - k - 1
        BY <1>2, <2>5
      <4>2. /\ p[k] \in 1..(n - 1) /\ Balance(path, p[k], n) = m - k - 1
            /\ Staying(path, p[k], n - 1)
        BY <1>2, <3>3, <4>1
      <4> QED BY <1>5, <4>1, <4>2
    <3>5. ~Staying(path, p[m], n) /\ m \in 1..m
      <4>1. m \in 1..m /\ m - m - 1 = -1
        BY <1>2, <2>5
      <4>2. p[m] \in 1..(n - 1) /\ Balance(path, p[m], n) = -1
        BY <1>2, <3>3, <4>1
      <4>3. ~(0 <= -1)
        OBVIOUS
      <4>4. Staying(path, p[m], n) => 0 <= Balance(path, p[m], n)
        BY <1>5, <4>2
      <4> QED BY <4>1, <4>2, <4>3, <4>4
    <3>6. \A k \in 1..m : k \in 1..l \/ k = m
      BY <1>2
    <3>7. \A k \in 1..l : Balance(path, p[k], n) = l - k
      BY <1>2, <3>3, <3>4
    <3> HIDE DEF next, kept, l
    <3>8. \A i \in 1..n : NameAt(path, i) /\ (\A k \in 1..l : p[k] # i) => ~Staying(path, i, n)
      BY <1>2, <1>3, <2>3, <3>5, <3>6
    <3>9. Placed(path, next, n, l, p)
      BY <1>2, <3>1, <3>2, <3>3, <3>4, <3>7, <3>8 DEF Placed
    <3> QED BY <3>9 DEF next
  <2> QED BY <2>4, <2>5
<1>8. CASE s \in Ordinary
  <2>1. NameAt(path, n) /\ s \notin {Empty, ".", ".."}
    BY <1>8 DEF NameAt, Ordinary
  <2>2. Len(kept) < MaximumSegments /\ next = Append(kept, s)
    <3>1. Len(kept) \in Nat /\ MaximumSegments \in Nat
      BY <1>1, CanonicalAssumption
    <3>2. CASE Len(kept) >= MaximumSegments
      <4>1. Step(w, s) = [w EXCEPT !.cut = TRUE]
        BY <2>1, <3>2 DEF Step
      <4>2. Step(w, s).cut
        BY <4>1 DEF Walked
      <4> QED BY <4>2
    <3>3. CASE Len(kept) < MaximumSegments
      BY <2>1, <3>1, <3>3 DEF Step, Walked
    <3> QED BY <3>1, <3>2, <3>3
  <2> DEFINE l == m + 1
             q == [k \in 1..l |-> IF k = l THEN n ELSE p[k]]
  <2>3. l \in Nat /\ l \in 1..l /\ q[l] = n /\ \A k \in 1..m : k \in 1..l /\ k < l /\ q[k] = p[k]
    BY <1>2
  <2>4. \A k \in 1..l : k \in 1..m \/ k = l
    BY <1>2
  <2>5. Len(next) = l /\ next[l] = s /\ \A k \in 1..m : next[k] = kept[k]
    <3> HIDE DEF s
    <3> QED BY <1>1, <1>2, <1>8, <2>2
  <2>6. Balance(path, n, n) = 0 /\ Staying(path, n, n)
    <3>1. Balance(path, n, n) = 0
      BY BalanceStarts
    <3>2. n..n = {n}
      OBVIOUS
    <3> QED BY <3>1, <3>2 DEF Staying
  <2>7. \A k \in 1..m : Balance(path, p[k], n) = l - k /\ p[k] \in 1..n /\ p[k] < n
    BY <1>2, <1>4, <2>1
  <2>8. \A k \in 1..m : Staying(path, p[k], n)
    BY <1>2, <1>5, <2>7
  <2>9. l - l = 0 /\ n \in 1..n
    BY <2>3
  <2>10. \A i \in 1..n : i \in 1..(n - 1) \/ i = n
    OBVIOUS
  <2>11. \A j, k \in 1..l : j < k => j \in 1..m
    BY <1>2
  <2> HIDE DEF l, q, next, kept
  <2>12. \A k \in 1..l : /\ q[k] \in 1..n /\ NameAt(path, q[k])
                         /\ next[k] = path[q[k]]
                         /\ Staying(path, q[k], n) /\ Balance(path, q[k], n) = l - k
    BY <1>2, <2>1, <2>3, <2>4, <2>5, <2>6, <2>7, <2>8, <2>9
  <2>13. \A j, k \in 1..l : j < k => q[j] < q[k]
    BY <1>2, <2>3, <2>4, <2>7, <2>11
  <2>14. \A i \in 1..n : NameAt(path, i) /\ (\A k \in 1..l : q[k] # i) => ~Staying(path, i, n)
    <3>1. SUFFICES ASSUME NEW i \in 1..n, NameAt(path, i), \A k \in 1..l : q[k] # i
                   PROVE  ~Staying(path, i, n)
      OBVIOUS
    <3>2. i \in 1..(n - 1)
      BY <2>3, <2>10, <3>1
    <3>3. \A k \in 1..m : p[k] # i
      BY <2>3, <3>1
    <3> QED BY <1>2, <1>3, <3>1, <3>2, <3>3
  <2>15. Placed(path, next, n, l, q)
    BY <2>3, <2>5, <2>12, <2>13, <2>14 DEF Placed
  <2> QED BY <2>15 DEF next
<1> QED BY <1>6, <1>7, <1>8 DEF Ordinary

\* The walk over a whole path that is not cut off.
LEMMA WalkPlaced ==
  ASSUME NEW path \in Seq(Segment), ~Walk(path).cut
  PROVE  \E m, p : Placed(path, Walk(path).kept, Len(path), m, p)
<1>1. Len(path) \in Nat /\ \A i \in 1..Len(path) : path[i] \in Segment
  OBVIOUS
<1>2. PICK walk : /\ Walk(path) = walk[Len(path)]
                  /\ walk[0] = Going(<<>>)
                  /\ \A i \in 1..Len(path) : walk[i] = Step(walk[i - 1], path[i])
  BY <1>1, WalkDefined
<1> DEFINE P(n) == /\ walk[n] \in Walked /\ Len(walk[n].kept) <= MaximumSegments
                   /\ walk[n].cut \/ \E m, p : Placed(path, walk[n].kept, n, m, p)
           Good == {n \in 0..Len(path) : P(n)}
<1>3. 0 \in Good
  <2>1. <<>> \in Seq(Ordinary) /\ Len(<<>>) = 0 /\ 0 <= MaximumSegments
    BY CanonicalAssumption
  <2>2. walk[0].kept = <<>> /\ walk[0] \in Walked
    BY <1>2, <2>1 DEF Walked, Going
  <2>3. Placed(path, <<>>, 0, 0, <<>>)
    BY <2>1 DEF Placed
  <2> QED BY <1>1, <2>1, <2>2, <2>3
<1>4. ASSUME NEW n \in 1..Len(path), n - 1 \in Good PROVE n \in Good
  <2> DEFINE w == walk[n - 1]
  <2>1. /\ n \in Nat \ {0} /\ path[n] \in Segment /\ n \in 0..Len(path)
        /\ w \in Walked /\ Len(w.kept) <= MaximumSegments
        /\ w.cut \/ \E m, p : Placed(path, w.kept, n - 1, m, p)
    BY <1>1, <1>4
  <2>2. walk[n] = Step(w, path[n])
    BY <1>2
  <2> HIDE DEF w
  <2>3. walk[n] \in Walked /\ Len(walk[n].kept) <= MaximumSegments
    BY <2>1, <2>2, StepTyped
  <2>4. CASE w.cut
    <3>1. walk[n] = w
      BY <2>2, <2>4 DEF Step
    <3> QED BY <2>1, <2>3, <2>4, <3>1
  <2>5. CASE ~w.cut /\ ~walk[n].cut
    <3>1. PICK m, p : Placed(path, w.kept, n - 1, m, p)
      BY <2>1, <2>5
    <3>2. \E l, q : Placed(path, Step(w, path[n]).kept, n, l, q)
      BY <2>1, <2>2, <2>5, <3>1, PlacedStep
    <3> QED BY <2>1, <2>2, <2>3, <3>2
  <2> QED BY <2>1, <2>3, <2>4, <2>5
<1>5. P(Len(path))
  <2>1. Len(path) \in Good
    <3>1. Len(path) \in 0..Len(path)
      BY <1>1
    <3> HIDE DEF Good
    <3> QED BY <1>1, <1>3, <1>4, <3>1, Upward
  <2> QED BY <2>1
<1> QED BY <1>2, <1>5

\* How many of a set of places are not above a place.
Rank(places, i) == Cardinality({h \in places : h <= i})

\* The places of the names that stay are the ones that the walk holds, in order.
Ranked(kept, m, p) ==
  /\ m \in Nat /\ (\A k \in 1..m : p[k] \in Nat)
  /\ \A j, k \in 1..m : j < k => p[j] < p[k]
  /\ \A k \in 1..m : p[k] \in kept
  /\ \A i \in kept : \E k \in 1..m : i = p[k]

\* The rank of a place is its number.
LEMMA PlacesCounted ==
  ASSUME NEW kept, NEW m, NEW p, Ranked(kept, m, p)
  PROVE  /\ Cardinality(kept) = m
         /\ \A k \in 1..m : \A i \in kept : Rank(kept, i) = k <=> i = p[k]
<1> USE DEF Ranked
<1>1. \A j, k \in 1..m : p[j] <= p[k] <=> j <= k
  BY SMT
<1>2. ASSUME NEW k \in 0..m
      PROVE  Cardinality({p[j] : j \in 1..k}) = k
  <2> DEFINE f == [j \in 1..k |-> p[j]]
             S == {p[j] : j \in 1..k}
  <2>1. \A i, j \in 1..k : p[i] = p[j] => i = j
    <3>1. \A i \in 1..k : i \in 1..m
      OBVIOUS
    <3> QED BY <1>1, <3>1
  <2>2. f \in Bijection(1..k, S)
    BY <2>1 DEF Bijection, Injection, Surjection, IsInjective
  <2>3. IsFiniteSet(1..k) /\ Cardinality(1..k) = k
    BY FS_Interval
  <2> HIDE DEF f, S
  <2>4. Cardinality(S) = k
    BY <2>2, <2>3, FS_Bijection DEF ExistsBijection
  <2> QED BY <2>4 DEF S
<1>3. Cardinality(kept) = m
  <2>1. kept = {p[j] : j \in 1..m}
    OBVIOUS
  <2> QED BY <1>2, <2>1
<1>4. ASSUME NEW k \in 1..m
      PROVE  Rank(kept, p[k]) = k
  <2>1. {h \in kept : h <= p[k]} = {p[j] : j \in 1..k}
    BY <1>1
  <2> QED BY <1>2, <2>1 DEF Rank
<1>5. ASSUME NEW k \in 1..m
      PROVE  \A i \in kept : Rank(kept, i) = k <=> i = p[k]
  <2>1. p[k] \in kept /\ Rank(kept, p[k]) = k
    BY <1>4
  <2>2. ASSUME NEW i \in kept, Rank(kept, i) = k PROVE i = p[k]
    <3>1. PICK j \in 1..m : i = p[j]
      OBVIOUS
    <3>2. j = k
      BY <1>4, <2>2, <3>1
    <3> QED BY <3>1, <3>2
  <2> QED BY <2>1, <2>2
<1> QED BY <1>3, <1>5

\* The walk leaves the names that no ".." takes away, in their order.
LEMMA WalkResolves ==
  ASSUME NEW path \in Seq(Segment), ~Walk(path).cut
  PROVE  Walk(path).kept = Resolved(path)
<1> DEFINE n == Len(path)
           walked == Walk(path).kept
           kept == {i \in NamesIn(path, 1, n) : Stays(path, i)}
<1>1. PICK m, p : Placed(path, walked, n, m, p)
  BY WalkPlaced
<1>2. n \in Nat /\ walked \in Seq(Ordinary)
  <2>1. Walk(path) \in Walked
    BY WalkTyped
  <2> QED BY <2>1 DEF Walked
<1>3. \A i \in 1..n : Stays(path, i) <=> Staying(path, i, n)
  <2>1. SUFFICES ASSUME NEW i \in 1..n, NEW j \in i..n
                 PROVE  Cardinality({h \in (i + 1)..j : path[h] = ".."})
                          <= Cardinality(NamesIn(path, i + 1, j)) <=> 0 <= Balance(path, i, j)
    BY DEF Stays, Staying
  <2> DEFINE N == NamesIn(path, i + 1, j)
             D == {h \in (i + 1)..j : path[h] = ".."}
  <2>2. Cardinality(N) \in Nat /\ Cardinality(D) \in Nat
    <3> DEFINE e == i + 1
    <3>1. e \in Int /\ j \in Int
      BY <1>2
    <3>2. N \subseteq e..j /\ D \subseteq e..j
      BY DEF NamesIn
    <3> HIDE DEF N, D, e
    <3>3. IsFiniteSet(e..j)
      BY <3>1, FS_Interval
    <3>4. IsFiniteSet(N) /\ IsFiniteSet(D)
      BY <3>2, <3>3, FS_Subset
    <3> QED BY <3>4, FS_CardinalityType
  <2> QED BY <2>2 DEF Balance
<1> HIDE DEF n, walked
<1>4. /\ m \in Nat /\ Len(walked) = m
      /\ \A k \in 1..m : /\ p[k] \in 1..n /\ NameAt(path, p[k])
                         /\ walked[k] = path[p[k]] /\ Staying(path, p[k], n)
      /\ \A j, k \in 1..m : j < k => p[j] < p[k]
      /\ \A i \in 1..n : NameAt(path, i) /\ (\A k \in 1..m : p[k] # i) => ~Staying(path, i, n)
  BY <1>1 DEF Placed
<1>5. kept = {p[k] : k \in 1..m}
  <2>1. NamesIn(path, 1, n) = {i \in 1..n : NameAt(path, i)}
    BY DEF NamesIn, NameAt
  <2>2. \A i \in kept : i \in 1..n /\ NameAt(path, i) /\ Staying(path, i, n)
    BY <1>3, <2>1
  <2>3. ASSUME NEW i \in kept PROVE \E k \in 1..m : p[k] = i
    <3>1. i \in 1..n /\ NameAt(path, i) /\ Staying(path, i, n)
      BY <2>2
    <3> HIDE DEF kept
    <3> QED BY <1>4, <3>1
  <2>4. \A k \in 1..m : p[k] \in kept
    BY <1>3, <1>4, <2>1
  <2> HIDE DEF kept
  <2> QED BY <2>3, <2>4
<1>6. /\ Cardinality(kept) = m
      /\ \A k \in 1..m : \A i \in kept : Rank(kept, i) = k <=> i = p[k]
  <2> HIDE DEF kept
  <2>1. Ranked(kept, m, p)
    BY <1>2, <1>4, <1>5 DEF Ranked
  <2> QED BY <2>1, PlacesCounted
<1> DEFINE at(k) == CHOOSE i \in kept : Rank(kept, i) = k
<1>7. Resolved(path) = [k \in 1..Cardinality(kept) |-> path[at(k)]]
  BY DEF Resolved, Rank, n
<1> HIDE DEF kept
<1>8. \A k \in 1..m : at(k) = p[k]
  <2>1. \A k \in 1..m : p[k] \in kept
    BY <1>5
  <2> QED BY <1>6, <2>1
<1> HIDE DEF at
<1>9. Resolved(path) = [k \in 1..m |-> walked[k]]
  <2>1. \A k \in 1..m : path[at(k)] = walked[k]
    BY <1>4, <1>8
  <2> QED BY <1>6, <1>7, <2>1
<1>10. walked = [k \in 1..m |-> walked[k]]
  BY <1>2, <1>4
<1> QED BY <1>9, <1>10 DEF walked

\* The loop of normalize_path keeps exactly the segments that no later ".."
\* takes away.
THEOREM PathsAreResolved == Spec => []PathsResolved
<1>1. EngineSound => PathsResolved
  <2>1. SUFFICES ASSUME EngineSound, stage = "parsed", NEW c \in ToSet(cookies)
                 PROVE  /\ Len(Walk(c.path).kept) <= MaximumSegments
                        /\ ~Walk(c.path).cut => Walk(c.path).kept = Resolved(c.path)
    BY DEF PathsResolved
  <2>2. c \in Cookie
    BY <2>1 DEF EngineSound, ListAccepted, ToSet
  <2>3. c.path \in Seq(Segment)
    BY <2>2 DEF Cookie
  <2> QED BY <2>3, WalkTyped, WalkResolves
<1> QED BY <1>1, AlwaysSound, PTL

-----------------------------------------------------------------------------
(***************************************************************************)
(* The query language: the functions of the parser call each other on what *)
(* is left of the text, so that each call has a smaller height than its    *)
(* caller.                                                                 *)
(***************************************************************************)

\* No word is a token, nor the end of the text.
LEMMA Keywords ==
  /\ \A x : IsWord(x) => x \notin Token /\ x # End
  /\ End \notin Token
<1>1. End \notin Token
  BY Zenon DEF End, Token
<1>2. \A x \in Field \cup Bool \cup SameSite : x \notin Token /\ x # End
  BY Zenon DEF Field, Flags, Bool, SameSite, End, Token
<1> QED BY <1>1, <1>2, QueryAssumption DEF IsWord

\* What stands at a place of a text.
LEMMA AtProperties ==
  ASSUME NEW tokens, Len(tokens) \in Nat, NEW i \in Nat \ {0}
  PROVE  /\ At(tokens, i) \in Token => i <= Len(tokens)
         /\ IsWord(At(tokens, i)) => i <= Len(tokens)
         /\ i <= Len(tokens) => At(tokens, i) = tokens[i]
BY Keywords DEF At

\* A call refers to calls of a smaller height.
Height(tokens, o) ==
  3 * (Len(tokens) + 1 - o[2]) + (CASE o[1] = "or" -> 2 [] o[1] = "and" -> 1 [] OTHER -> 0)

\* The calls of a smaller height.
Lower(tokens, o) == {q \in Operand(tokens) : Height(tokens, q) < Height(tokens, o)}

\* The calls that the functions of the parser make are among these.
LEMMA Lowers ==
  ASSUME NEW tokens, Len(tokens) \in Nat, NEW i \in 1..(Len(tokens) + 1)
  PROVE  /\ <<"and", i>> \in Lower(tokens, <<"or", i>>)
         /\ <<"unary", i>> \in Lower(tokens, <<"or", i>>)
         /\ <<"unary", i>> \in Lower(tokens, <<"and", i>>)
         /\ \A rule, above \in {"or", "and", "unary"}, j \in 1..(Len(tokens) + 1) :
              i < j => <<rule, j>> \in Lower(tokens, <<above, i>>)
<1>1. Len(tokens) + 1 - i \in Nat
  OBVIOUS
<1>2. \A rule \in {"or", "and", "unary"}, j \in 1..(Len(tokens) + 1) : <<rule, j>> \in Operand(tokens)
  BY DEF Operand
<1>3. \A rule, j : Height(tokens, <<rule, j>>) =
        3 * (Len(tokens) + 1 - j) + (CASE rule = "or" -> 2 [] rule = "and" -> 1 [] OTHER -> 0)
  BY DEF Height
<1>4. ASSUME NEW rule \in {"or", "and", "unary"}, NEW above \in {"or", "and", "unary"},
             NEW j \in 1..(Len(tokens) + 1), i < j
      PROVE  Height(tokens, <<rule, j>>) < Height(tokens, <<above, i>>)
  <2> DEFINE a == CASE rule = "or" -> 2 [] rule = "and" -> 1 [] OTHER -> 0
             b == CASE above = "or" -> 2 [] above = "and" -> 1 [] OTHER -> 0
  <2>1. a \in 0..2 /\ b \in 0..2
    OBVIOUS
  <2>2. /\ Height(tokens, <<rule, j>>) = 3 * (Len(tokens) + 1 - j) + a
        /\ Height(tokens, <<above, i>>) = 3 * (Len(tokens) + 1 - i) + b
    BY <1>3
  <2> HIDE DEF a, b
  <2> QED BY <1>4, <2>1, <2>2
<1>5. /\ Height(tokens, <<"or", i>>) = 3 * (Len(tokens) + 1 - i) + 2
      /\ Height(tokens, <<"and", i>>) = 3 * (Len(tokens) + 1 - i) + 1
      /\ Height(tokens, <<"unary", i>>) = 3 * (Len(tokens) + 1 - i)
  BY <1>1, <1>3
<1>6. /\ <<"and", i>> \in Lower(tokens, <<"or", i>>)
      /\ <<"unary", i>> \in Lower(tokens, <<"or", i>>)
      /\ <<"unary", i>> \in Lower(tokens, <<"and", i>>)
  <2> DEFINE m == 3 * (Len(tokens) + 1 - i)
  <2>1. m \in Int
    OBVIOUS
  <2> HIDE DEF m
  <2>2. m < m + 1 /\ m < m + 2 /\ m + 1 < m + 2
    BY <2>1
  <2> QED BY <1>2, <1>5, <2>2 DEF Lower, m
<1>7. \A rule, above \in {"or", "and", "unary"}, j \in 1..(Len(tokens) + 1) :
        i < j => <<rule, j>> \in Lower(tokens, <<above, i>>)
  BY <1>2, <1>4 DEF Lower
<1> QED BY <1>6, <1>7

\* What a call returns, if it is no error, ends behind where it began.
Sane(tokens, i, v) == v = Error \/ v.at \in (i + 1)..(Len(tokens) + 1)

\* parse_term moves on, and not past the end.
LEMMA TermSane ==
  ASSUME NEW tokens, Len(tokens) \in Nat, NEW i \in 1..(Len(tokens) + 1)
  PROVE  Sane(tokens, i, Term(tokens, i))
<1>1. CASE Term(tokens, i) = Error
  BY <1>1 DEF Sane
<1>2. CASE Term(tokens, i) # Error
  <2>1. IsWord(At(tokens, i))
    BY <1>2 DEF Term
  <2>2. i <= Len(tokens)
    BY <2>1, AtProperties
  <2>3. \/ Term(tokens, i).at = i + 1
        \/ Term(tokens, i).at = i + 3 /\ IsWord(At(tokens, i + 2))
    BY <1>2 DEF Term, Parsed
  <2>4. IsWord(At(tokens, i + 2)) => i + 2 <= Len(tokens)
    BY AtProperties
  <2> QED BY <2>2, <2>3, <2>4 DEF Sane
<1> QED BY <1>1, <1>2

\* A call only depends on calls of a smaller height, and moves on as they do.
LEMMA CallLocal ==
  ASSUME NEW tokens, Len(tokens) \in Nat,
         NEW rule \in {"or", "and", "unary"}, NEW i \in 1..(Len(tokens) + 1), NEW g, NEW h,
         \A q \in Lower(tokens, <<rule, i>>) : g[q] = h[q] /\ Sane(tokens, q[2], g[q])
  PROVE  /\ Call(g, tokens, <<rule, i>>) = Call(h, tokens, <<rule, i>>)
         /\ Sane(tokens, i, Call(g, tokens, <<rule, i>>))
<1> DEFINE n == Len(tokens)
<1>1. ASSUME NEW r \in {"or", "and", "unary"}, NEW j \in 1..(n + 1), i < j
      PROVE  g[<<r, j>>] = h[<<r, j>>] /\ Sane(tokens, j, g[<<r, j>>])
  BY <1>1, Lowers
<1>2. CASE rule = "or"
  <2> DEFINE first == g[<<"and", i>>]
             right == <<"or", first.at + 1>>
  <2>1. first = h[<<"and", i>>] /\ Sane(tokens, i, first)
    BY <1>2, Lowers
  <2>2. /\ Call(g, tokens, <<rule, i>>) = ParseOr(g, tokens, i)
        /\ Call(h, tokens, <<rule, i>>) = ParseOr(h, tokens, i)
    BY <1>2 DEF Call
  <2>3. CASE first = Error \/ At(tokens, first.at) # "or"
    BY <2>1, <2>2, <2>3 DEF ParseOr
  <2>4. CASE first # Error /\ At(tokens, first.at) = "or"
    <3>1. first.at \in (i + 1)..(n + 1) /\ "or" \in Token
      BY <2>1, <2>4 DEF Sane, Token
    <3>2. first.at + 1 \in 1..(n + 1) /\ i < first.at + 1
      BY <2>4, <3>1, AtProperties
    <3>3. g[right] = h[right] /\ Sane(tokens, first.at + 1, g[right])
      BY <1>1, <3>2
    <3>4. /\ ParseOr(g, tokens, i) = Joined(g, <<"and", i>>, "or", right)
          /\ ParseOr(h, tokens, i) = Joined(h, <<"and", i>>, "or", right)
      BY <2>1, <2>4 DEF ParseOr
    <3> HIDE DEF right, first
    <3>5. Sane(tokens, i, Joined(g, <<"and", i>>, "or", right))
      BY <3>1, <3>3 DEF Joined, Sane, Parsed
    <3> QED BY <2>2, <3>3, <3>4, <3>5 DEF Joined
  <2> QED BY <2>3, <2>4
<1>3. CASE rule = "and"
  <2> DEFINE first == g[<<"unary", i>>]
             right == <<"and", first.at + 1>>
  <2>1. first = h[<<"unary", i>>] /\ Sane(tokens, i, first)
    BY <1>3, Lowers
  <2>2. /\ Call(g, tokens, <<rule, i>>) = ParseAnd(g, tokens, i)
        /\ Call(h, tokens, <<rule, i>>) = ParseAnd(h, tokens, i)
    BY <1>3 DEF Call
  <2>3. CASE first = Error \/ At(tokens, first.at) # "and"
    BY <2>1, <2>2, <2>3 DEF ParseAnd
  <2>4. CASE first # Error /\ At(tokens, first.at) = "and"
    <3>1. first.at \in (i + 1)..(n + 1) /\ "and" \in Token
      BY <2>1, <2>4 DEF Sane, Token
    <3>2. first.at + 1 \in 1..(n + 1) /\ i < first.at + 1
      BY <2>4, <3>1, AtProperties
    <3>3. g[right] = h[right] /\ Sane(tokens, first.at + 1, g[right])
      BY <1>1, <3>2
    <3>4. /\ ParseAnd(g, tokens, i) = Joined(g, <<"unary", i>>, "and", right)
          /\ ParseAnd(h, tokens, i) = Joined(h, <<"unary", i>>, "and", right)
      BY <2>1, <2>4 DEF ParseAnd
    <3> HIDE DEF right, first
    <3>5. Sane(tokens, i, Joined(g, <<"unary", i>>, "and", right))
      BY <3>1, <3>3 DEF Joined, Sane, Parsed
    <3> QED BY <2>2, <3>3, <3>4, <3>5 DEF Joined
  <2> QED BY <2>3, <2>4
<1>4. CASE rule = "unary"
  <2>1. /\ Call(g, tokens, <<rule, i>>) = ParseUnary(g, tokens, i)
        /\ Call(h, tokens, <<rule, i>>) = ParseUnary(h, tokens, i)
    BY <1>4 DEF Call
  <2>2. CASE At(tokens, i) \in {"not", "("}
    <3>1. i + 1 \in 1..(n + 1) /\ "not" \in Token /\ "(" \in Token /\ ")" \in Token
      BY <2>2, AtProperties DEF Token
    <3> DEFINE operand == g[<<"unary", i + 1>>]
               inner == g[<<"or", i + 1>>]
    <3>2. /\ operand = h[<<"unary", i + 1>>] /\ inner = h[<<"or", i + 1>>]
          /\ Sane(tokens, i + 1, operand) /\ Sane(tokens, i + 1, inner)
      BY <1>1, <3>1
    <3>3. ParseUnary(g, tokens, i) = ParseUnary(h, tokens, i)
      BY <3>2 DEF ParseUnary
    <3>4. CASE At(tokens, i) = "not"
      <4>1. ParseUnary(g, tokens, i) =
              IF operand = Error THEN Error
              ELSE Parsed(operand.at, [op |-> "not", left |-> <<"unary", i + 1>>])
        BY <3>4 DEF ParseUnary
      <4> HIDE DEF operand
      <4> QED BY <2>1, <3>2, <3>3, <4>1 DEF Sane, Parsed
    <3>5. CASE At(tokens, i) = "("
      <4>1. ParseUnary(g, tokens, i) =
              IF inner = Error \/ At(tokens, inner.at) # ")" THEN Error
              ELSE Parsed(inner.at + 1, inner.expr)
        BY <3>5 DEF ParseUnary
      <4> HIDE DEF inner
      <4>2. CASE inner = Error \/ At(tokens, inner.at) # ")"
        BY <2>1, <3>3, <4>1, <4>2 DEF Sane
      <4>3. CASE inner # Error /\ At(tokens, inner.at) = ")"
        <5>1. inner.at \in (i + 2)..(n + 1)
          BY <3>2, <4>3 DEF Sane
        <5>2. inner.at <= n
          BY <3>1, <4>3, <5>1, AtProperties
        <5> QED BY <2>1, <3>3, <4>1, <4>3, <5>1, <5>2 DEF Sane, Parsed
      <4> QED BY <4>2, <4>3
    <3> QED BY <2>2, <3>4, <3>5
  <2>3. CASE At(tokens, i) \notin {"not", "("}
    <3>1. ParseUnary(g, tokens, i) = Term(tokens, i) /\ ParseUnary(h, tokens, i) = Term(tokens, i)
      BY <2>3 DEF ParseUnary
    <3> QED BY <2>1, <3>1, TermSane
  <2> QED BY <2>2, <2>3
<1> QED BY <1>2, <1>3, <1>4

\* An operand is a rule and a place, of a bounded height.
LEMMA Operands ==
  ASSUME NEW tokens, Len(tokens) \in Nat, NEW o \in Operand(tokens)
  PROVE  /\ o = <<o[1], o[2]>> /\ o[1] \in {"or", "and", "unary"} /\ o[2] \in 1..(Len(tokens) + 1)
         /\ Height(tokens, o) \in 0..(3 * Len(tokens) + 2)
         /\ \A q \in Lower(tokens, o) :
              q \in Operand(tokens) /\ Height(tokens, q) < Height(tokens, o)
<1>1. o = <<o[1], o[2]>> /\ o[1] \in {"or", "and", "unary"} /\ o[2] \in 1..(Len(tokens) + 1)
  BY DEF Operand
<1>2. Height(tokens, o) \in 0..(3 * Len(tokens) + 2)
  <2> DEFINE a == CASE o[1] = "or" -> 2 [] o[1] = "and" -> 1 [] OTHER -> 0
  <2>1. a \in 0..2
    OBVIOUS
  <2> HIDE DEF a
  <2>2. 3 * (Len(tokens) + 1 - o[2]) + a \in 0..(3 * Len(tokens) + 2)
    BY <1>1, <2>1
  <2> QED BY <2>2 DEF Height, a
<1> QED BY <1>1, <1>2 DEF Lower

\* The functions of the parser return what they are defined to.
LEMMA ReadExists ==
  ASSUME NEW tokens, Len(tokens) \in Nat
  PROVE  \E f : f = [o \in Operand(tokens) |-> Call(f, tokens, o)]
<1> DEFINE top == 3 * Len(tokens) + 3
           Below1(r) == {o \in Operand(tokens) : Height(tokens, o) < r}
           Right(g, o) == g[o] = Call(g, tokens, o) /\ Sane(tokens, o[2], g[o])
           Good == {r \in Nat : \E g : \A o \in Below1(r) : Right(g, o)}
<1>1. 0 \in Good
  <2>1. Below1(0) = {}
    BY Operands
  <2> QED BY <2>1
<1>2. ASSUME NEW r \in 1..top, r - 1 \in Good PROVE r \in Good
  <2>1. r \in Nat /\ r - 1 \in Nat
    OBVIOUS
  <2>2. PICK g : \A o \in Below1(r - 1) : Right(g, o)
    BY <1>2
  <2> DEFINE h == [o \in Operand(tokens) |->
                     IF o \in Below1(r - 1) THEN g[o] ELSE Call(g, tokens, o)]
  <2>3. ASSUME NEW o \in Below1(r) PROVE Right(h, o)
    <3>1. /\ o \in Operand(tokens) /\ Height(tokens, o) < r /\ Height(tokens, o) \in Nat
          /\ o = <<o[1], o[2]>> /\ o[1] \in {"or", "and", "unary"} /\ o[2] \in 1..(Len(tokens) + 1)
          /\ \A q \in Lower(tokens, o) :
               q \in Operand(tokens) /\ Height(tokens, q) < Height(tokens, o)
      BY <2>3, Operands
    <3>2. ASSUME NEW q \in Lower(tokens, o) PROVE g[q] = h[q] /\ Sane(tokens, q[2], g[q])
      <4>1. q \in Operand(tokens) /\ Height(tokens, q) \in Nat /\ Height(tokens, q) < Height(tokens, o)
        BY <3>1, Operands
      <4>2. q \in Below1(r - 1)
        BY <2>1, <3>1, <4>1
      <4> HIDE DEF Below1
      <4>3. h[q] = g[q]
        BY <4>1, <4>2
      <4> QED BY <2>2, <4>2, <4>3
    <3> HIDE DEF h
    <3>3. /\ Call(g, tokens, o) = Call(h, tokens, o)
          /\ Sane(tokens, o[2], Call(g, tokens, o))
      BY <3>1, <3>2, CallLocal
    <3>4. h[o] = Call(g, tokens, o)
      BY <2>2, <3>1 DEF h
    <3> QED BY <3>3, <3>4
  <2> HIDE DEF h, Below1, Right
  <2> QED BY <2>1, <2>3
<1>3. top \in Good
  <2>1. top \in Nat /\ top \in 0..top
    OBVIOUS
  <2> HIDE DEF Good, top
  <2> QED BY <1>1, <1>2, <2>1, Upward
<1>4. PICK g : \A o \in Below1(top) : Right(g, o)
  BY <1>3
<1>5. \A o \in Operand(tokens) : o \in Below1(top)
  BY Operands
<1> HIDE DEF Below1
<1> DEFINE f == [o \in Operand(tokens) |-> g[o]]
<1>6. ASSUME NEW o \in Operand(tokens) PROVE f[o] = Call(f, tokens, o)
  <2>1. /\ o = <<o[1], o[2]>> /\ o[1] \in {"or", "and", "unary"} /\ o[2] \in 1..(Len(tokens) + 1)
        /\ \A q \in Lower(tokens, o) : q \in Operand(tokens)
    BY Operands
  <2>2. \A q \in Lower(tokens, o) : g[q] = f[q] /\ Sane(tokens, q[2], g[q])
    BY <1>4, <1>5, <2>1
  <2>3. f[o] = g[o] /\ g[o] = Call(g, tokens, o)
    BY <1>4, <1>5
  <2> HIDE DEF f
  <2>4. Call(g, tokens, o) = Call(f, tokens, o)
    BY <2>1, <2>2, CallLocal
  <2> QED BY <2>3, <2>4
<1>7. f = [o \in Operand(tokens) |-> Call(f, tokens, o)]
  BY <1>6
<1> QED BY <1>7

\* So Read is what its calls return.
LEMMA ReadDefined ==
  ASSUME NEW tokens, Len(tokens) \in Nat
  PROVE  \A rule \in {"or", "and", "unary"}, i \in 1..(Len(tokens) + 1) :
           /\ Read(tokens)[<<rule, i>>] = Call(Read(tokens), tokens, <<rule, i>>)
           /\ Sane(tokens, i, Read(tokens)[<<rule, i>>])
<1> DEFINE f == Read(tokens)
<1>1. f = [o \in Operand(tokens) |-> Call(f, tokens, o)]
  <2> DEFINE Is(g) == g = [o \in Operand(tokens) |-> Call(g, tokens, o)]
  <2>1. \E g : Is(g)
    BY ReadExists
  <2>2. f = CHOOSE g : Is(g)
    BY DEF Read
  <2>3. Is(CHOOSE g : Is(g))
    <3> HIDE DEF Is
    <3> QED BY <2>1
  <2> QED BY <2>2, <2>3
<1> HIDE DEF f
<1>2. \A o \in Operand(tokens) : f[o] = Call(f, tokens, o)
  BY <1>1
<1> DEFINE top == 3 * Len(tokens) + 2
           Good == {r \in 0..top : \A o \in Operand(tokens) :
                      Height(tokens, o) = r => Sane(tokens, o[2], f[o])}
<1>3. ASSUME NEW r \in 0..top, \A s \in 0..top : s < r => s \in Good PROVE r \in Good
  <2>1. SUFFICES ASSUME NEW o \in Operand(tokens), Height(tokens, o) = r
                 PROVE  Sane(tokens, o[2], f[o])
    OBVIOUS
  <2>2. /\ o = <<o[1], o[2]>> /\ o[1] \in {"or", "and", "unary"} /\ o[2] \in 1..(Len(tokens) + 1)
        /\ \A q \in Lower(tokens, o) :
             q \in Operand(tokens) /\ Height(tokens, q) < Height(tokens, o)
    BY Operands
  <2>3. \A q \in Lower(tokens, o) : Sane(tokens, q[2], f[q])
    BY <1>3, <2>1, <2>2, Operands
  <2>4. Sane(tokens, o[2], Call(f, tokens, o))
    BY <2>2, <2>3, CallLocal
  <2> QED BY <1>2, <2>4
<1>4. \A r \in 0..top : r \in Good
  <2>1. top \in Nat
    OBVIOUS
  <2> HIDE DEF Good, top
  <2> QED BY <1>3, <2>1, Strong
<1>5. ASSUME NEW rule \in {"or", "and", "unary"}, NEW i \in 1..(Len(tokens) + 1)
      PROVE  f[<<rule, i>>] = Call(f, tokens, <<rule, i>>) /\ Sane(tokens, i, f[<<rule, i>>])
  <2>1. <<rule, i>> \in Operand(tokens)
    BY DEF Operand
  <2>2. Height(tokens, <<rule, i>>) \in 0..top
    BY <2>1, Operands
  <2> QED BY <1>2, <1>4, <2>1, <2>2
<1> QED BY <1>5 DEF f

\* The operands that were parsed.
Legible(tokens) == {o \in Operand(tokens) : Read(tokens)[o] # Error}

\* What an expression refers to was parsed by a call of a smaller height.
Refers(tokens, o, e) ==
  \/ /\ e.op \in {"and", "or"}
     /\ {e.left, e.right} \subseteq Lower(tokens, o) \cap Legible(tokens)
  \/ e.op = "not" /\ e.left \in Lower(tokens, o) \cap Legible(tokens)
  \/ e.op \notin {"and", "or", "not"}

\* Smaller than smaller is smaller.
LEMMA LowerStill ==
  ASSUME NEW tokens, Len(tokens) \in Nat, NEW o \in Operand(tokens), NEW q \in Lower(tokens, o)
  PROVE  Lower(tokens, q) \subseteq Lower(tokens, o)
<1>1. q \in Operand(tokens) /\ Height(tokens, q) < Height(tokens, o)
  BY DEF Lower
<1>2. Height(tokens, q) \in Nat /\ Height(tokens, o) \in Nat
  BY <1>1, Operands
<1>3. \A x \in Lower(tokens, q) : /\ x \in Operand(tokens) /\ Height(tokens, x) \in Nat
                                  /\ Height(tokens, x) < Height(tokens, q)
  BY Operands DEF Lower
<1> QED BY <1>1, <1>2, <1>3 DEF Lower

\* A term refers to no operand.
LEMMA TermRefers ==
  ASSUME NEW tokens, NEW o, NEW i, Term(tokens, i) # Error
  PROVE  /\ Term(tokens, i).expr.op \in Field \cup {"word"}
         /\ Refers(tokens, o, Term(tokens, i).expr)
<1>1. Term(tokens, i).expr.op \in Field \cup {"word"}
  BY DEF Term, Parsed
<1>2. \A x \in Field \cup {"word"} : x \notin {"and", "or", "not"}
  BY Zenon DEF Field, Flags
<1> QED BY <1>1, <1>2 DEF Refers

\* Every expression refers to operands that were read, of smaller heights.
LEMMA AlwaysRefers ==
  ASSUME NEW tokens, Len(tokens) \in Nat, NEW o \in Legible(tokens)
  PROVE  Refers(tokens, o, Read(tokens)[o].expr)
<1> DEFINE read == Read(tokens)
           n == Len(tokens)
           top == 3 * n + 2
           Fine(o2) == o2 \in Legible(tokens) => Refers(tokens, o2, read[o2].expr)
           All == {r \in 0..top : \A p \in Operand(tokens) : Height(tokens, p) = r => Fine(p)}
<1>1. ASSUME NEW r \in 0..top, \A s \in 0..top : s < r => s \in All PROVE r \in All
  <2>1. SUFFICES ASSUME NEW p \in Operand(tokens), Height(tokens, p) = r, p \in Legible(tokens)
                 PROVE  Refers(tokens, p, read[p].expr)
    OBVIOUS
  <2> DEFINE rule == p[1]
             i == p[2]
  <2>2. p = <<rule, i>> /\ rule \in {"or", "and", "unary"} /\ i \in 1..(n + 1)
    BY Operands
  <2>3. /\ read[p] = Call(read, tokens, p) /\ read[p] # Error
    BY <2>1, <2>2, ReadDefined DEF Legible
  <2>4. ASSUME NEW q \in Lower(tokens, p), read[q] # Error
        PROVE  q \in Legible(tokens) /\ Refers(tokens, p, read[q].expr)
    <3>1. q \in Operand(tokens) /\ Height(tokens, q) \in 0..top /\ Height(tokens, q) < r
      BY <2>1, Operands DEF Lower
    <3>2. q \in Legible(tokens)
      BY <2>4, <3>1 DEF Legible
    <3>3. Fine(q)
      BY <1>1, <3>1
    <3>4. Lower(tokens, q) \subseteq Lower(tokens, p)
      BY LowerStill
    <3> HIDE DEF read
    <3>5. Refers(tokens, q, read[q].expr)
      BY <3>2, <3>3
    <3> QED BY <3>2, <3>4, <3>5 DEF Refers
  <2>5. ASSUME NEW op \in {"and", "or"}, NEW left \in Lower(tokens, p), read[left] # Error,
               NEW right \in Lower(tokens, p), read[p] = Joined(read, left, op, right)
        PROVE  Refers(tokens, p, read[p].expr)
    <3>1. read[right] # Error /\ read[p].expr = [op |-> op, left |-> left, right |-> right]
      BY <2>3, <2>5 DEF Joined, Parsed
    <3>2. left \in Legible(tokens) /\ right \in Legible(tokens)
      BY <2>4, <2>5, <3>1
    <3> HIDE DEF read
    <3> QED BY <2>5, <3>1, <3>2 DEF Refers
  <2>6. \A ruler \in {"or", "and", "unary"}, j \in 1..(n + 1) : Sane(tokens, j, read[<<ruler, j>>])
    BY ReadDefined
  <2>7. CASE rule = "or"
    <3> DEFINE first == read[<<"and", i>>]
    <3>1. read[p] = ParseOr(read, tokens, i)
      BY <2>2, <2>3, <2>7 DEF Call
    <3>2. <<"and", i>> \in Lower(tokens, p) /\ Sane(tokens, i, first)
      BY <2>2, <2>6, <2>7, Lowers
    <3>3. CASE first = Error \/ At(tokens, first.at) # "or"
      <4>1. read[p] = first
        BY <3>1, <3>3 DEF ParseOr
      <4> QED BY <2>3, <2>4, <3>2, <4>1
    <3>4. CASE first # Error /\ At(tokens, first.at) = "or"
      <4>1. first.at \in (i + 1)..(n + 1) /\ "or" \in Token
        BY <3>2, <3>4 DEF Sane, Token
      <4>2. first.at + 1 \in 1..(n + 1) /\ i < first.at + 1
        BY <2>2, <3>4, <4>1, AtProperties
      <4>3. <<"or", first.at + 1>> \in Lower(tokens, p)
        BY <2>2, <4>2, Lowers
      <4>4. read[p] = Joined(read, <<"and", i>>, "or", <<"or", first.at + 1>>)
        BY <3>1, <3>4 DEF ParseOr
      <4> QED BY <2>5, <3>2, <3>4, <4>3, <4>4
    <3> QED BY <3>3, <3>4
  <2>8. CASE rule = "and"
    <3> DEFINE first == read[<<"unary", i>>]
    <3>1. read[p] = ParseAnd(read, tokens, i)
      BY <2>2, <2>3, <2>8 DEF Call
    <3>2. <<"unary", i>> \in Lower(tokens, p) /\ Sane(tokens, i, first)
      BY <2>2, <2>6, <2>8, Lowers
    <3>3. CASE first = Error \/ At(tokens, first.at) # "and"
      <4>1. read[p] = first
        BY <3>1, <3>3 DEF ParseAnd
      <4> QED BY <2>3, <2>4, <3>2, <4>1
    <3>4. CASE first # Error /\ At(tokens, first.at) = "and"
      <4>1. first.at \in (i + 1)..(n + 1) /\ "and" \in Token
        BY <3>2, <3>4 DEF Sane, Token
      <4>2. first.at + 1 \in 1..(n + 1) /\ i < first.at + 1
        BY <2>2, <3>4, <4>1, AtProperties
      <4>3. <<"and", first.at + 1>> \in Lower(tokens, p)
        BY <2>2, <4>2, Lowers
      <4>4. read[p] = Joined(read, <<"unary", i>>, "and", <<"and", first.at + 1>>)
        BY <3>1, <3>4 DEF ParseAnd
      <4> QED BY <2>5, <3>2, <3>4, <4>3, <4>4
    <3> QED BY <3>3, <3>4
  <2>9. CASE rule = "unary"
    <3>1. read[p] = ParseUnary(read, tokens, i)
      BY <2>2, <2>3, <2>9 DEF Call
    <3>2. At(tokens, i) \in {"not", "("} => i + 1 \in 1..(n + 1)
      <4>1. {"not", "("} \subseteq Token
        BY DEF Token
      <4> QED BY <2>2, <4>1, AtProperties
    <3>3. At(tokens, i) \in {"not", "("} =>
            <<"unary", i + 1>> \in Lower(tokens, p) /\ <<"or", i + 1>> \in Lower(tokens, p)
      <4>1. p = <<"unary", i>> /\ i < i + 1
        BY <2>2, <2>9
      <4>2. ASSUME At(tokens, i) \in {"not", "("}, NEW q \in {"unary", "or"}
            PROVE  <<q, i + 1>> \in Lower(tokens, <<"unary", i>>)
        <5> DEFINE e == i + 1
        <5>1. e \in 1..(n + 1) /\ i < e
          BY <3>2, <4>1, <4>2
        <5> HIDE DEF e
        <5>2. <<q, e>> \in Lower(tokens, <<"unary", i>>)
          BY <2>2, <4>2, <5>1, Lowers
        <5> QED BY <5>2 DEF e
      <4> HIDE DEF i
      <4> QED BY <4>1, <4>2
    <3>4. CASE At(tokens, i) = "not"
      <4> DEFINE operand == read[<<"unary", i + 1>>]
      <4>1. read[p] = IF operand = Error THEN Error
              ELSE Parsed(operand.at, [op |-> "not", left |-> <<"unary", i + 1>>])
        BY <3>1, <3>4 DEF ParseUnary
      <4>2. operand # Error /\ read[p].expr = [op |-> "not", left |-> <<"unary", i + 1>>]
        BY <2>3, <4>1 DEF Parsed
      <4>3. <<"unary", i + 1>> \in Lower(tokens, p) \cap Legible(tokens)
        BY <2>4, <3>3, <3>4, <4>2
      <4> HIDE DEF read
      <4> QED BY <4>2, <4>3 DEF Refers
    <3>5. CASE At(tokens, i) = "("
      <4> DEFINE inner == read[<<"or", i + 1>>]
      <4>1. read[p] = IF inner = Error \/ At(tokens, inner.at) # ")" THEN Error
                      ELSE Parsed(inner.at + 1, inner.expr)
        BY <3>1, <3>5 DEF ParseUnary
      <4>2. inner # Error /\ read[p].expr = inner.expr
        BY <2>3, <4>1 DEF Parsed
      <4> QED BY <2>4, <3>3, <3>5, <4>2
    <3>6. CASE At(tokens, i) \notin {"not", "("}
      <4>1. read[p] = Term(tokens, i)
        BY <3>1, <3>6 DEF ParseUnary
      <4> QED BY <2>3, <4>1, TermRefers
    <3> QED BY <3>4, <3>5, <3>6
  <2> QED BY <2>2, <2>7, <2>8, <2>9
<1>2. \A r \in 0..top : r \in All
  <2>1. top \in Nat
    OBVIOUS
  <2> HIDE DEF All, top
  <2> QED BY <1>1, <2>1, Strong
<1>3. o \in Operand(tokens) /\ Height(tokens, o) \in 0..top
  BY Operands DEF Legible
<1> QED BY <1>2, <1>3

\* An expression only depends on the operands it refers to.
LEMMA NodeLocal ==
  ASSUME NEW tokens, NEW o, NEW e, Refers(tokens, o, e), NEW g, NEW h, NEW c, NEW now,
         \A q \in Lower(tokens, o) \cap Legible(tokens) : g[q] = h[q]
  PROVE  Node(g, e, c, now) = Node(h, e, c, now)
<1> DEFINE And(x, y) == x /\ y
           Or(x, y) == x \/ y
           Not(x) == ~x
<1>1. CASE e.op \in {"and", "or"}
  <2>1. g[e.left] = h[e.left] /\ g[e.right] = h[e.right]
    BY <1>1 DEF Refers
  <2>2. CASE e.op = "and"
    <3>1. /\ Node(g, e, c, now) = And(g[e.left], g[e.right])
          /\ Node(h, e, c, now) = And(h[e.left], h[e.right])
      BY <2>2, Zenon DEF Node
    <3> HIDE DEF And
    <3> QED BY <2>1, <3>1
  <2>3. CASE e.op = "or"
    <3>1. /\ Node(g, e, c, now) = Or(g[e.left], g[e.right])
          /\ Node(h, e, c, now) = Or(h[e.left], h[e.right])
      BY <2>3, Zenon DEF Node
    <3> HIDE DEF Or
    <3> QED BY <2>1, <3>1
  <2> QED BY <1>1, <2>2, <2>3
<1>2. CASE e.op = "not"
  <2>1. g[e.left] = h[e.left]
    BY <1>2 DEF Refers
  <2>2. /\ Node(g, e, c, now) = Not(g[e.left])
        /\ Node(h, e, c, now) = Not(h[e.left])
    BY <1>2, Zenon DEF Node
  <2> HIDE DEF Not
  <2> QED BY <2>1, <2>2
<1>3. CASE e.op \notin {"and", "or", "not"}
  <2> DEFINE Alone(x) == Leaf(c, x, now)
  <2>1. Node(g, e, c, now) = Alone(e) /\ Node(h, e, c, now) = Alone(e)
    BY <1>3, Zenon DEF Node
  <2> HIDE DEF Alone
  <2> QED BY <2>1
<1> QED BY <1>1, <1>2, <1>3

\* What holds of the operands of a text.
Holding(f, tokens, c, now) ==
  f = [o \in Legible(tokens) |-> Node(f, Read(tokens)[o].expr, c, now)]

\* Such a function exists, since expressions refer to smaller heights.
LEMMA HoldsExists ==
  ASSUME NEW tokens, Len(tokens) \in Nat, NEW c, NEW now
  PROVE  \E f : Holding(f, tokens, c, now)
<1> DEFINE expr(o) == Read(tokens)[o].expr
           top == 3 * Len(tokens) + 3
           Under(r) == {o \in Legible(tokens) : Height(tokens, o) < r}
           Right(g, o) == g[o] = Node(g, expr(o), c, now)
           Done == {r \in Nat : \E g : \A o \in Under(r) : Right(g, o)}
<1>0. \A o \in Legible(tokens) : /\ o \in Operand(tokens)
                              /\ Height(tokens, o) \in 0..(3 * Len(tokens) + 2)
                              /\ Refers(tokens, o, expr(o))
  BY Operands, AlwaysRefers DEF Legible
<1>1. 0 \in Done
  <2>1. Under(0) = {}
    BY <1>0
  <2> QED BY <2>1
<1>2. ASSUME NEW r \in 1..top, r - 1 \in Done PROVE r \in Done
  <2>1. r \in Nat /\ r - 1 \in Nat
    OBVIOUS
  <2>2. PICK g : \A o \in Under(r - 1) : Right(g, o)
    BY <1>2
  <2> DEFINE h == [o \in Legible(tokens) |->
                     IF o \in Under(r - 1) THEN g[o] ELSE Node(g, expr(o), c, now)]
  <2>3. ASSUME NEW o \in Under(r) PROVE Right(h, o)
    <3>1. o \in Legible(tokens) /\ Height(tokens, o) < r /\ Height(tokens, o) \in Nat
      BY <1>0, <2>3
    <3>2. ASSUME NEW q \in Lower(tokens, o) \cap Legible(tokens) PROVE g[q] = h[q]
      <4>1. Height(tokens, q) \in Nat /\ Height(tokens, q) < Height(tokens, o)
        BY <1>0, <3>2 DEF Lower
      <4>2. q \in Under(r - 1)
        BY <2>1, <3>1, <3>2, <4>1
      <4> HIDE DEF Under
      <4> QED BY <3>2, <4>2
    <3> HIDE DEF h
    <3>3. Node(g, expr(o), c, now) = Node(h, expr(o), c, now)
      <4>1. Refers(tokens, o, expr(o))
        BY <1>0, <3>1
      <4> HIDE DEF expr
      <4> QED BY <3>2, <4>1, NodeLocal
    <3>4. h[o] = Node(g, expr(o), c, now)
      <4> HIDE DEF expr
      <4> QED BY <2>2, <3>1 DEF h
    <3> QED BY <3>3, <3>4
  <2> HIDE DEF h, Under, Right
  <2> QED BY <2>1, <2>3
<1>3. top \in Done
  <2>1. top \in Nat /\ top \in 0..top
    OBVIOUS
  <2> HIDE DEF Done, top
  <2> QED BY <1>1, <1>2, <2>1, Upward
<1>4. PICK g : \A o \in Under(top) : Right(g, o)
  BY <1>3
<1>5. \A o \in Legible(tokens) : o \in Under(top)
  BY <1>0
<1> HIDE DEF Under
<1> DEFINE f == [o \in Legible(tokens) |-> g[o]]
<1>6. ASSUME NEW o \in Legible(tokens) PROVE f[o] = Node(f, expr(o), c, now)
  <2>1. Refers(tokens, o, expr(o))
    BY <1>0
  <2> HIDE DEF expr
  <2>2. \A q \in Lower(tokens, o) \cap Legible(tokens) : g[q] = f[q]
    OBVIOUS
  <2>3. f[o] = g[o] /\ g[o] = Node(g, expr(o), c, now)
    BY <1>4, <1>5
  <2> HIDE DEF f
  <2>4. Node(g, expr(o), c, now) = Node(f, expr(o), c, now)
    BY <2>1, <2>2, NodeLocal
  <2> QED BY <2>3, <2>4
<1>7. f = [o \in Legible(tokens) |-> Node(f, expr(o), c, now)]
  BY <1>6
<1> HIDE DEF f
<1>8. Holding(f, tokens, c, now)
  BY <1>7 DEF Holding
<1> QED BY <1>8

\* So matches is the value of the expression, given its operands.
LEMMA MatchesDefined ==
  ASSUME NEW tokens, Len(tokens) \in Nat, NEW c, NEW now
  PROVE  \E f :
           /\ matches(tokens, c, now) = Node(f, parse(tokens).expr, c, now)
           /\ \A o \in Legible(tokens) : f[o] = Node(f, Read(tokens)[o].expr, c, now)
<1> DEFINE f == CHOOSE g : Holding(g, tokens, c, now)
<1>2. Holding(f, tokens, c, now)
  BY HoldsExists
<1>3. matches(tokens, c, now) = Node(f, parse(tokens).expr, c, now)
  BY DEF matches, Legible, Holding
<1> HIDE DEF f
<1>4. \A o \in Legible(tokens) : f[o] = Node(f, Read(tokens)[o].expr, c, now)
  BY <1>2 DEF Holding
<1> QED BY <1>3, <1>4

-----------------------------------------------------------------------------
(***************************************************************************)
(* The language, span by span: shorter spans decide what longer ones say.  *)
(***************************************************************************)

\* The first split of a span that has one.
LEMMA FirstSplit ==
  ASSUME NEW text, NEW i \in Nat, NEW k \in Nat, NEW op, Splits(text, i, k, op) # {}
  PROVE  /\ Min(Splits(text, i, k, op)) \in Splits(text, i, k, op)
         /\ Min(Splits(text, i, k, op)) \in i..k
         /\ \A j \in Splits(text, i, k, op) : Min(Splits(text, i, k, op)) <= j
<1> DEFINE S == Splits(text, i, k, op)
<1>1. S \subseteq i..k /\ S \subseteq Nat
  BY DEF Splits
<1> HIDE DEF S
<1>2. PICK x \in S : \A y \in S : x <= y
  BY <1>1, Least DEF S
<1>3. Min(S) = x
  BY <1>1, <1>2, MinIs
<1> QED BY <1>1, <1>2, <1>3 DEF S

\* What is said of a span depends on shorter spans.
Width(s) == IF s[1] <= s[2] THEN s[2] - s[1] + 1 ELSE 0

\* What a span says only depends on shorter spans.
LEMMA SayingLocal ==
  ASSUME NEW text, Len(text) \in Nat, NEW i \in 1..(Len(text) + 1), NEW k \in 0..Len(text),
         NEW g, NEW h, NEW c, NEW now,
         \A s \in Span(text) : Width(s) < Width(<<i, k>>) => g[s] = h[s]
  PROVE  Saying(g, text, i, k, c, now) = Saying(h, text, i, k, c, now)
<1> DEFINE n == Len(text)
           ors == Splits(text, i, k, "or")
           ands == Splits(text, i, k, "and")
<1>1. CASE i > k
  BY <1>1 DEF Saying
<1>2. CASE i <= k
  <2>1. ASSUME NEW a \in 1..(n + 1), NEW b \in 0..n, b - a < k - i
        PROVE  g[<<a, b>>] = h[<<a, b>>]
    <3>1. <<a, b>> \in Span(text)
      BY DEF Span
    <3>2. Width(<<a, b>>) < Width(<<i, k>>)
      BY <1>2, <2>1 DEF Width
    <3> QED BY <3>1, <3>2
  <2>2. ASSUME NEW j \in i..k
        PROVE  g[<<i, j - 1>>] = h[<<i, j - 1>>] /\ g[<<j + 1, k>>] = h[<<j + 1, k>>]
    <3> DEFINE a == j - 1
               b == j + 1
    <3>1. a \in 0..n /\ b \in 1..(n + 1) /\ a - i < k - i /\ k - b < k - i
      BY <1>2
    <3> HIDE DEF a, b
    <3>2. g[<<i, a>>] = h[<<i, a>>] /\ g[<<b, k>>] = h[<<b, k>>]
      BY <2>1, <3>1
    <3> QED BY <3>2 DEF a, b
  <2>3. g[<<i + 1, k>>] = h[<<i + 1, k>>]
    <3>1. i \in i..k
      BY <1>2
    <3> QED BY <2>2, <3>1
  <2>4. g[<<i + 1, k - 1>>] = h[<<i + 1, k - 1>>]
    <3> DEFINE a == i + 1
               b == k - 1
    <3>1. a \in 1..(n + 1) /\ b \in 0..n /\ b - a < k - i
      BY <1>2
    <3> HIDE DEF a, b
    <3>2. g[<<a, b>>] = h[<<a, b>>]
      BY <2>1, <3>1
    <3> QED BY <3>2 DEF a, b
  <2>5. CASE ors # {}
    <3> DEFINE j == Min(ors)
    <3>1. j \in i..k
      BY <2>5, FirstSplit
    <3>2. \A f : Saying(f, text, i, k, c, now) = Both("or", f[<<i, j - 1>>], f[<<j + 1, k>>])
      BY <1>2, <2>5 DEF Saying
    <3> HIDE DEF j, ors
    <3> QED BY <2>2, <3>1, <3>2
  <2>6. CASE ors = {} /\ ands # {}
    <3> DEFINE j == Min(ands)
    <3>1. j \in i..k
      BY <2>6, FirstSplit
    <3>2. \A f : Saying(f, text, i, k, c, now) = Both("and", f[<<i, j - 1>>], f[<<j + 1, k>>])
      BY <1>2, <2>6 DEF Saying
    <3> HIDE DEF j, ands, ors
    <3> QED BY <2>2, <3>1, <3>2
  <2>7. CASE ors = {} /\ ands = {}
    BY <1>2, <2>3, <2>4, <2>7 DEF Saying
  <2> QED BY <2>5, <2>6, <2>7
<1> QED BY <1>1, <1>2

\* What is said of every span of a text.
Spoken(f, text, c, now) ==
  f = [s \in Span(text) |-> Saying(f, text, s[1], s[2], c, now)]

\* Such a function exists, since shorter spans are shorter.
LEMMA SaysExists ==
  ASSUME NEW text, Len(text) \in Nat, NEW c, NEW now
  PROVE  \E f : Spoken(f, text, c, now)
<1> DEFINE n == Len(text)
           top == n + 2
           Under(r) == {s \in Span(text) : Width(s) < r}
           Right(g, s) == g[s] = Saying(g, text, s[1], s[2], c, now)
           Done == {r \in Nat : \E g : \A s \in Under(r) : Right(g, s)}
<1>0. \A s \in Span(text) : /\ s = <<s[1], s[2]>> /\ s[1] \in 1..(n + 1) /\ s[2] \in 0..n
                            /\ Width(s) \in 0..(n + 1)
  BY DEF Span, Width
<1>1. 0 \in Done
  <2>1. Under(0) = {}
    BY <1>0
  <2> QED BY <2>1
<1>2. ASSUME NEW r \in 1..top, r - 1 \in Done PROVE r \in Done
  <2>1. r \in Nat /\ r - 1 \in Nat
    OBVIOUS
  <2>2. PICK g : \A s \in Under(r - 1) : Right(g, s)
    BY <1>2
  <2> DEFINE h == [s \in Span(text) |->
                     IF s \in Under(r - 1) THEN g[s] ELSE Saying(g, text, s[1], s[2], c, now)]
  <2>3. ASSUME NEW s \in Under(r) PROVE Right(h, s)
    <3>1. /\ s \in Span(text) /\ Width(s) < r /\ Width(s) \in Nat
          /\ s = <<s[1], s[2]>> /\ s[1] \in 1..(n + 1) /\ s[2] \in 0..n
      BY <1>0, <2>3
    <3>2. ASSUME NEW q \in Span(text), Width(q) < Width(<<s[1], s[2]>>) PROVE g[q] = h[q]
      <4>1. Width(q) \in Nat /\ Width(q) < Width(s)
        BY <1>0, <3>1, <3>2
      <4>2. q \in Under(r - 1)
        BY <2>1, <3>1, <3>2, <4>1
      <4> HIDE DEF Under
      <4> QED BY <3>2, <4>2
    <3> HIDE DEF h
    <3>3. Saying(g, text, s[1], s[2], c, now) = Saying(h, text, s[1], s[2], c, now)
      BY <3>1, <3>2, SayingLocal
    <3>4. h[s] = Saying(g, text, s[1], s[2], c, now)
      BY <2>2, <3>1 DEF h
    <3> QED BY <3>3, <3>4
  <2> HIDE DEF h, Under, Right
  <2> QED BY <2>1, <2>3
<1>3. top \in Done
  <2>1. top \in Nat /\ top \in 0..top
    OBVIOUS
  <2> HIDE DEF Done, top
  <2> QED BY <1>1, <1>2, <2>1, Upward
<1>4. PICK g : \A s \in Under(top) : Right(g, s)
  BY <1>3
<1>5. \A s \in Span(text) : s \in Under(top)
  BY <1>0
<1> HIDE DEF Under
<1> DEFINE f == [s \in Span(text) |-> g[s]]
<1>6. ASSUME NEW s \in Span(text) PROVE f[s] = Saying(f, text, s[1], s[2], c, now)
  <2>1. s[1] \in 1..(n + 1) /\ s[2] \in 0..n
    BY <1>0
  <2>2. ASSUME NEW q \in Span(text), Width(q) < Width(<<s[1], s[2]>>) PROVE g[q] = f[q]
    BY <2>2
  <2>3. f[s] = g[s] /\ g[s] = Saying(g, text, s[1], s[2], c, now)
    BY <1>4, <1>5
  <2> HIDE DEF f
  <2>4. Saying(g, text, s[1], s[2], c, now) = Saying(f, text, s[1], s[2], c, now)
    BY <2>1, <2>2, SayingLocal
  <2> QED BY <2>3, <2>4
<1>7. f = [s \in Span(text) |-> Saying(f, text, s[1], s[2], c, now)]
  BY <1>6
<1> HIDE DEF f
<1>8. Spoken(f, text, c, now)
  BY <1>7 DEF Spoken
<1> QED BY <1>8

\* So Says is what the whole span says.
LEMMA SaysDefined ==
  ASSUME NEW text, Len(text) \in Nat, NEW c, NEW now
  PROVE  \E says :
           /\ Says(text, c, now) = says[<<1, Len(text)>>]
           /\ \A i \in 1..(Len(text) + 1), k \in 0..Len(text) :
                says[<<i, k>>] = Saying(says, text, i, k, c, now)
<1> DEFINE f == CHOOSE g : Spoken(g, text, c, now)
<1>2. Spoken(f, text, c, now)
  BY SaysExists
<1>3. Says(text, c, now) = f[<<1, Len(text)>>]
  BY DEF Says, Spoken
<1> HIDE DEF f
<1>4. ASSUME NEW i \in 1..(Len(text) + 1), NEW k \in 0..Len(text)
      PROVE  f[<<i, k>>] = Saying(f, text, i, k, c, now)
  <2>1. <<i, k>> \in Span(text)
    BY DEF Span
  <2> QED BY <1>2, <2>1 DEF Spoken
<1> QED BY <1>3, <1>4

-----------------------------------------------------------------------------
(***************************************************************************)
(* Parentheses, and what splits a span.                                    *)
(***************************************************************************)

\* The depth is counted over adjoining spans.
LEMMA DepthAdds ==
  ASSUME NEW text, NEW i \in Nat, NEW j \in Nat, NEW k \in Nat, i <= j, j <= k
  PROVE  /\ Depth(text, i, j) \in Int /\ Depth(text, j, k) \in Int /\ Depth(text, i, k) \in Int
         /\ Depth(text, i, k) = Depth(text, i, j) + Depth(text, j, k)
<1> DEFINE Of(sign, a, b) == {h \in a..(b - 1) : text[h] = sign}
<1>1. ASSUME NEW sign, NEW a \in Nat, NEW b \in Nat
      PROVE  IsFiniteSet(Of(sign, a, b)) /\ Cardinality(Of(sign, a, b)) \in Nat
  <2>1. IsFiniteSet(a..(b - 1)) /\ Of(sign, a, b) \subseteq a..(b - 1)
    BY FS_Interval
  <2>2. IsFiniteSet(Of(sign, a, b))
    BY <2>1, FS_Subset
  <2> QED BY <2>2, FS_CardinalityType
<1>2. ASSUME NEW sign
      PROVE  Cardinality(Of(sign, i, k)) = Cardinality(Of(sign, i, j)) + Cardinality(Of(sign, j, k))
  <2>1. Of(sign, i, k) = Of(sign, i, j) \cup Of(sign, j, k)
    OBVIOUS
  <2>2. Of(sign, i, j) \cap Of(sign, j, k) = {}
    OBVIOUS
  <2>3. /\ IsFiniteSet(Of(sign, i, j)) /\ IsFiniteSet(Of(sign, j, k))
        /\ Cardinality(Of(sign, i, j)) \in Nat /\ Cardinality(Of(sign, j, k)) \in Nat
    BY <1>1
  <2> HIDE DEF Of
  <2>4. Cardinality(Of(sign, i, j) \cup Of(sign, j, k)) =
          Cardinality(Of(sign, i, j)) + Cardinality(Of(sign, j, k))
            - Cardinality(Of(sign, i, j) \cap Of(sign, j, k))
    BY <2>3, FS_Union
  <2>5. Cardinality(Of(sign, i, j) \cap Of(sign, j, k)) = 0
    BY <2>2, FS_EmptySet
  <2> QED BY <2>1, <2>3, <2>4, <2>5
<1>3. \A a, b \in Nat : Depth(text, a, b) = Cardinality(Of("(", a, b)) - Cardinality(Of(")", a, b))
  BY DEF Depth
<1> HIDE DEF Of
<1>4. \A a, b \in Nat : Cardinality(Of("(", a, b)) \in Nat /\ Cardinality(Of(")", a, b)) \in Nat
  BY <1>1
<1>5. /\ Cardinality(Of("(", i, k)) = Cardinality(Of("(", i, j)) + Cardinality(Of("(", j, k))
      /\ Cardinality(Of(")", i, k)) = Cardinality(Of(")", i, j)) + Cardinality(Of(")", j, k))
  BY <1>2
<1>6. /\ Cardinality(Of("(", i, j)) \in Nat /\ Cardinality(Of(")", i, j)) \in Nat
      /\ Cardinality(Of("(", j, k)) \in Nat /\ Cardinality(Of(")", j, k)) \in Nat
  BY <1>4
<1>7. /\ Depth(text, i, j) = Cardinality(Of("(", i, j)) - Cardinality(Of(")", i, j))
      /\ Depth(text, j, k) = Cardinality(Of("(", j, k)) - Cardinality(Of(")", j, k))
      /\ Depth(text, i, k) = Cardinality(Of("(", i, k)) - Cardinality(Of(")", i, k))
  BY <1>3
<1> QED BY <1>5, <1>6, <1>7

\* The depth behind nothing, and behind one token.
LEMMA DepthOfOne ==
  ASSUME NEW text, NEW i \in Nat
  PROVE  /\ Depth(text, i, i) = 0
         /\ Depth(text, i, i + 1) =
              IF text[i] = "(" THEN 1 ELSE IF text[i] = ")" THEN -1 ELSE 0
<1>1. \A sign : {h \in i..(i - 1) : text[h] = sign} = {}
  OBVIOUS
<1>2. Depth(text, i, i) = 0
  BY <1>1, FS_EmptySet DEF Depth
<1>3. ASSUME NEW sign
      PROVE  Cardinality({h \in i..(i + 1 - 1) : text[h] = sign}) = IF text[i] = sign THEN 1 ELSE 0
  <2>1. {h \in i..(i + 1 - 1) : text[h] = sign} = IF text[i] = sign THEN {i} ELSE {}
    OBVIOUS
  <2>2. CASE text[i] = sign
    BY <2>1, <2>2, FS_Singleton
  <2>3. CASE text[i] # sign
    BY <2>1, <2>3, FS_EmptySet
  <2> QED BY <2>2, <2>3
<1>4. /\ Cardinality({h \in i..(i + 1 - 1) : text[h] = "("}) = IF text[i] = "(" THEN 1 ELSE 0
      /\ Cardinality({h \in i..(i + 1 - 1) : text[h] = ")"}) = IF text[i] = ")" THEN 1 ELSE 0
  BY <1>3
<1>5. Depth(text, i, i + 1) =
        (IF text[i] = "(" THEN 1 ELSE 0) - (IF text[i] = ")" THEN 1 ELSE 0)
  BY <1>4 DEF Depth
<1>6. Depth(text, i, i + 1) = IF text[i] = "(" THEN 1 ELSE IF text[i] = ")" THEN -1 ELSE 0
  <2>1. CASE text[i] = "("
    BY <1>5, <2>1
  <2>2. CASE text[i] = ")"
    BY <1>5, <2>2
  <2>3. CASE text[i] \notin {"(", ")"}
    BY <1>5, <2>3
  <2> QED BY <2>1, <2>2, <2>3
<1> QED BY <1>2, <1>6

Sign == {"(", ")"}

\* Where the depth is 0 and no parenthesis stands, it is counted from there on.
LEMMA DepthBehind ==
  ASSUME NEW text, NEW i \in Nat, NEW m \in Nat, i <= m, Depth(text, i, m) = 0,
         text[m] \notin Sign
  PROVE  \A j \in Nat : m < j => Depth(text, i, j) = Depth(text, m + 1, j)
<1> TAKE j \in Nat
<1>1. HAVE m < j
<1> DEFINE e == m + 1
<1>2. e \in Nat /\ i <= e /\ e <= j /\ m <= e
  BY <1>1
<1>3. Depth(text, m, e) = 0
  BY DepthOfOne DEF Sign
<1> HIDE DEF e
<1>4. Depth(text, i, e) = 0
  BY <1>2, <1>3, DepthAdds
<1>5. Depth(text, i, j) = Depth(text, i, e) + Depth(text, e, j) /\ Depth(text, e, j) \in Int
  BY <1>2, DepthAdds
<1> QED BY <1>4, <1>5 DEF e

\* The places where a span is split, before and behind such a place.
LEMMA SplitsBehind ==
  ASSUME NEW text, NEW i \in Nat, NEW m \in Nat, NEW k \in Nat, i <= m, m <= k,
         Depth(text, i, m) = 0, text[m] \notin Sign, NEW op
  PROVE  /\ Splits(text, i, m - 1, op) = {j \in Splits(text, i, k, op) : j < m}
         /\ m \in Splits(text, i, k, op) <=> text[m] = op
         /\ Splits(text, m + 1, k, op) = {j \in Splits(text, i, k, op) : j > m}
<1>1. \A j \in Nat : m < j => Depth(text, i, j) = Depth(text, m + 1, j)
  BY DepthBehind
<1>2. m \in Splits(text, i, k, op) <=> text[m] = op
  BY DEF Splits
<1>3. Splits(text, i, m - 1, op) = {j \in Splits(text, i, k, op) : j < m}
  BY DEF Splits
<1>4. Splits(text, m + 1, k, op) = {j \in Splits(text, i, k, op) : j > m}
  BY <1>1 DEF Splits
<1> QED BY <1>2, <1>3, <1>4

\* What is said from i to k is decided at place q.
LEMMA SaidEither ==
  ASSUME NEW says, NEW text, NEW i \in Nat, NEW k \in Nat, i <= k, NEW c, NEW now, NEW q \in Nat,
         Splits(text, i, k, "or") # {}, Min(Splits(text, i, k, "or")) = q
  PROVE  Saying(says, text, i, k, c, now) = Both("or", says[<<i, q - 1>>], says[<<q + 1, k>>])
BY DEF Saying

\* The same where only "and" splits.
LEMMA SaidBoth ==
  ASSUME NEW says, NEW text, NEW i \in Nat, NEW k \in Nat, i <= k, NEW c, NEW now, NEW q \in Nat,
         Splits(text, i, k, "or") = {},
         Splits(text, i, k, "and") # {}, Min(Splits(text, i, k, "and")) = q
  PROVE  Saying(says, text, i, k, c, now) = Both("and", says[<<i, q - 1>>], says[<<q + 1, k>>])
BY DEF Saying

\* What is said without a split.
LEMMA SaidNot ==
  ASSUME NEW says, NEW text, NEW i \in Nat, NEW k \in Nat, i <= k, NEW c, NEW now,
         Splits(text, i, k, "or") = {}, Splits(text, i, k, "and") = {},
         NEW said, said = Saying(says, text, i, k, c, now),
         text[i] = "not"
  PROVE  /\ says[<<i + 1, k>>] = "yes" => said = "no"
         /\ says[<<i + 1, k>>] = "no" => said = "yes"
         /\ said # "nothing" => says[<<i + 1, k>>] \in {"yes", "no"}
<1>1. said = CASE says[<<i + 1, k>>] = "yes" -> "no"
               [] says[<<i + 1, k>>] = "no" -> "yes"
               [] OTHER -> "nothing"
  BY DEF Saying
<1> QED BY <1>1

\* The same of a span that begins with a parenthesis.
LEMMA SaidInside ==
  ASSUME NEW says, NEW text, NEW i \in Nat, NEW k \in Nat, i <= k, NEW c, NEW now,
         Splits(text, i, k, "or") = {}, Splits(text, i, k, "and") = {},
         NEW said, said = Saying(says, text, i, k, c, now),
         text[i] = "("
  PROVE  said = IF text[k] = ")" THEN says[<<i + 1, k - 1>>] ELSE "nothing"
BY DEF Saying

\* The same of a span that can only be a term.
LEMMA SaidTerm ==
  ASSUME NEW says, NEW text, NEW i \in Nat, NEW k \in Nat, i <= k, NEW c, NEW now,
         Splits(text, i, k, "or") = {}, Splits(text, i, k, "and") = {},
         NEW said, said = Saying(says, text, i, k, c, now),
         text[i] \notin {"not", "("}
  PROVE  said = IF Term(SubSeq(text, i, k), 1).at # k - i + 2 THEN "nothing"
                ELSE IF Leaf(c, Term(SubSeq(text, i, k), 1).expr, now) THEN "yes" ELSE "no"
BY DEF Saying

\* A term is read in the same way at the beginning of a span of its own.
LEMMA TermShift ==
  ASSUME NEW text \in Seq(STRING), NEW i \in 1..Len(text), NEW k \in i..Len(text)
  PROVE  /\ Term(text, i).at = k + 1 =>
              /\ Term(SubSeq(text, i, k), 1).at = k - i + 2
              /\ Term(SubSeq(text, i, k), 1).expr = Term(text, i).expr
         /\ Term(SubSeq(text, i, k), 1).at = k - i + 2 /\ At(text, k + 1) # ":" =>
              Term(text, i).at = k + 1
<1> DEFINE span == SubSeq(text, i, k)
<1>1. Len(span) = k - i + 1 /\ Len(text) \in Nat
  OBVIOUS
<1>2. \A j \in 1..(k - i + 1) : At(span, j) = At(text, i + j - 1)
  BY DEF At
<1>3. \A j \in Nat \ {0} : j > k - i + 1 => At(span, j) = End
  BY <1>1 DEF At
<1>4. /\ At(span, 1) = At(text, i)
      /\ At(span, 2) = IF i < k THEN At(text, i + 1) ELSE End
      /\ At(span, 3) = IF i + 1 < k THEN At(text, i + 2) ELSE End
  <2>1. At(span, 1) = At(text, i)
    BY <1>2
  <2>2. At(span, 2) = IF i < k THEN At(text, i + 1) ELSE End
    BY <1>2, <1>3
  <2>3. At(span, 3) = IF i + 1 < k THEN At(text, i + 2) ELSE End
    BY <1>2, <1>3
  <2> QED BY <2>1, <2>2, <2>3
<1> HIDE DEF span
<1>5. End # ":" /\ ~IsWord(End)
  BY Keywords DEF Token
<1> DEFINE field == At(text, i)
           sign == At(text, i + 1)
           value == At(text, i + 2)
           Bad(v) == \/ ~IsWord(v) \/ field \notin Field
                     \/ field \in Flags /\ v \notin Bool
           Pair(v) == [op |-> field, value |-> v]
           alone == [op |-> "word", value |-> field]
<1>6. /\ ~IsWord(field) => Term(text, i) = Error /\ Term(span, 1) = Error
      /\ IsWord(field) /\ sign # ":" => Term(text, i) = Parsed(i + 1, alone)
      /\ IsWord(field) /\ sign = ":" /\ Bad(value) => Term(text, i) = Error
      /\ IsWord(field) /\ sign = ":" /\ ~Bad(value) => Term(text, i) = Parsed(i + 3, Pair(value))
      /\ IsWord(field) /\ At(span, 2) # ":" => Term(span, 1) = Parsed(2, alone)
      /\ IsWord(field) /\ At(span, 2) = ":" /\ Bad(At(span, 3)) => Term(span, 1) = Error
      /\ IsWord(field) /\ At(span, 2) = ":" /\ ~Bad(At(span, 3)) =>
            Term(span, 1) = Parsed(4, Pair(At(span, 3)))
  BY <1>4 DEF Term
<1>7. Bad(End)
  BY <1>5
<1>8. \A at, expr : Parsed(at, expr).at = at /\ Parsed(at, expr).expr = expr
  BY DEF Parsed
<1>9. Error.at = 0
  BY DEF Error
<1> HIDE DEF field, sign, value, Bad, Pair, alone
<1>10. ASSUME Term(text, i).at = k + 1
       PROVE  /\ Term(span, 1).at = k - i + 2
              /\ Term(span, 1).expr = Term(text, i).expr
  <2>1. IsWord(field)
    BY <1>6, <1>9, <1>10
  <2>2. CASE sign # ":"
    <3>1. k = i /\ Term(text, i).expr = alone
      BY <1>6, <1>8, <1>10, <2>1, <2>2
    <3>2. Term(span, 1) = Parsed(2, alone)
      BY <1>4, <1>5, <1>6, <2>1, <3>1
    <3> QED BY <1>8, <3>1, <3>2
  <2>3. CASE sign = ":"
    <3>1. ~Bad(value)
      BY <1>6, <1>9, <1>10, <2>1, <2>3
    <3>2. k = i + 2 /\ Term(text, i).expr = Pair(value)
      BY <1>6, <1>8, <1>10, <2>1, <2>3, <3>1
    <3>3. At(span, 2) = ":" /\ At(span, 3) = value
      BY <1>4, <2>3, <3>2 DEF sign, value
    <3>4. Term(span, 1) = Parsed(4, Pair(value))
      BY <1>6, <2>1, <3>1, <3>3
    <3> QED BY <1>8, <3>2, <3>4
  <2> QED BY <2>2, <2>3
<1>11. ASSUME Term(span, 1).at = k - i + 2, At(text, k + 1) # ":"
       PROVE  Term(text, i).at = k + 1
  <2>1. IsWord(field)
    BY <1>6, <1>9, <1>11
  <2>2. CASE At(span, 2) # ":"
    <3>1. k = i
      BY <1>6, <1>8, <1>11, <2>1, <2>2
    <3>2. sign # ":"
      BY <1>11, <3>1 DEF sign
    <3>3. Term(text, i) = Parsed(i + 1, alone)
      BY <1>6, <2>1, <3>2
    <3> QED BY <1>8, <3>1, <3>3
  <2>3. CASE At(span, 2) = ":"
    <3>1. ~Bad(At(span, 3))
      BY <1>6, <1>9, <1>11, <2>1, <2>3
    <3>2. k = i + 2
      BY <1>6, <1>8, <1>11, <2>1, <2>3, <3>1
    <3>3. sign = ":" /\ At(span, 3) = value
      BY <1>4, <2>3, <3>2 DEF sign, value
    <3>4. Term(text, i) = Parsed(i + 3, Pair(value))
      BY <1>6, <2>1, <3>1, <3>3
    <3> QED BY <1>8, <3>2, <3>4
  <2> QED BY <2>2, <2>3
<1> QED BY <1>10, <1>11 DEF span

\* The first split of a span.
LEMMA FirstHalves ==
  ASSUME NEW text, NEW i \in Nat, NEW k \in Nat, NEW op \in {"and", "or"},
         Splits(text, i, k, op) # {}, NEW q, q = Min(Splits(text, i, k, op))
  PROVE  /\ q \in i..k /\ text[q] = op
         /\ Splits(text, i, q - 1, op) = {}
         /\ Splits(text, i, k, "or") = {} =>
              Splits(text, i, q - 1, "or") = {} /\ Splits(text, q + 1, k, "or") = {}
<1>1. q \in Splits(text, i, k, op) /\ q \in i..k /\ \A j \in Splits(text, i, k, op) : q <= j
  BY FirstSplit
<1>2. text[q] = op /\ Depth(text, i, q) = 0
  BY <1>1 DEF Splits
<1>3. ASSUME NEW other
      PROVE  /\ Splits(text, i, q - 1, other) = {j \in Splits(text, i, k, other) : j < q}
             /\ Splits(text, q + 1, k, other) = {j \in Splits(text, i, k, other) : j > q}
  <2>1. q \in Nat /\ i <= q /\ q <= k /\ text[q] \notin Sign
    BY <1>1, <1>2 DEF Sign
  <2> QED BY <1>2, <2>1, SplitsBehind
<1>4. Splits(text, i, k, op) \subseteq Int
  BY DEF Splits
<1>5. Splits(text, i, q - 1, op) = {}
  BY <1>1, <1>3, <1>4
<1>6. Splits(text, i, k, "or") = {} =>
        Splits(text, i, q - 1, "or") = {} /\ Splits(text, q + 1, k, "or") = {}
  BY <1>3
<1>7. q \in i..k /\ text[q] = op
  BY <1>1, <1>2
<1> QED BY <1>5, <1>6, <1>7

\* A span that says something was read.
Wide(text, k, op) == At(text, k + 1) \notin op

Understood(text, says, i, k) ==
  says[<<i, k>>] # "nothing" /\ Wide(text, k, {":"}) =>
    LET ors == Splits(text, i, k, "or")
        ands == Splits(text, i, k, "and")
        Stops(rule) == Read(text)[<<rule, i>>].at = k + 1
    IN /\ ors = {} /\ ands = {} => Stops("unary")
       /\ ors = {} /\ Wide(text, k, {"and"}) => Stops("and")
       /\ Wide(text, k, {"and", "or"}) => Stops("or")

\* What each of the three functions returns.
LEMMA ReadSteps ==
  ASSUME NEW text, Len(text) \in Nat, NEW i \in 1..(Len(text) + 1)
  PROVE  /\ Read(text)[<<"unary", i>>] = ParseUnary(Read(text), text, i)
         /\ Read(text)[<<"and", i>>] = ParseAnd(Read(text), text, i)
         /\ Read(text)[<<"or", i>>] = ParseOr(Read(text), text, i)
<1>1. \A rule \in {"or", "and", "unary"} : Read(text)[<<rule, i>>] = Call(Read(text), text, <<rule, i>>)
  BY ReadDefined
<1>2. /\ Call(Read(text), text, <<"unary", i>>) = ParseUnary(Read(text), text, i)
      /\ Call(Read(text), text, <<"and", i>>) = ParseAnd(Read(text), text, i)
      /\ Call(Read(text), text, <<"or", i>>) = ParseOr(Read(text), text, i)
  BY DEF Call
<1> QED BY <1>1, <1>2

\* A span without a split that says something was read by parse_unary.
LEMMA UnderstoodAlone ==
  ASSUME NEW text \in Seq(STRING), NEW i \in 1..(Len(text) + 1), NEW k \in 0..Len(text), i <= k,
         NEW says, NEW c, NEW now, says[<<i, k>>] = Saying(says, text, i, k, c, now),
         says[<<i, k>>] # "nothing", Wide(text, k, {":"}),
         Splits(text, i, k, "or") = {}, Splits(text, i, k, "and") = {},
         \A a \in 1..(Len(text) + 1), b \in 0..Len(text) :
           i < a /\ b <= k => Understood(text, says, a, b)
  PROVE  Read(text)[<<"unary", i>>].at = k + 1
<1> DEFINE n == Len(text)
<1>1. n \in Nat /\ At(text, i) = text[i] /\ i \in 1..n /\ k \in i..n
  BY DEF At
<1>2. Read(text)[<<"unary", i>>] = ParseUnary(Read(text), text, i)
  BY <1>1, ReadSteps
<1>3. Error.at = 0 /\ \A at, expr : Parsed(at, expr).at = at
  BY DEF Error, Parsed
<1>7. /\ text[i] = "not" => says[<<i + 1, k>>] # "nothing"
      /\ text[i] = "(" => text[k] = ")" /\ says[<<i + 1, k - 1>>] # "nothing"
      /\ text[i] \notin {"not", "("} => Term(SubSeq(text, i, k), 1).at = k - i + 2
  <2> DEFINE said == says[<<i, k>>]
  <2>1. i \in Nat /\ k \in Nat /\ i <= k /\ said = Saying(says, text, i, k, c, now) /\ said # "nothing"
    OBVIOUS
  <2> HIDE DEF said
  <2>2. ASSUME text[i] = "not" PROVE says[<<i + 1, k>>] # "nothing"
    <3>1. says[<<i + 1, k>>] \in {"yes", "no"}
      BY <2>1, <2>2, SaidNot
    <3> QED BY <3>1
  <2>3. ASSUME text[i] = "(" PROVE text[k] = ")" /\ says[<<i + 1, k - 1>>] # "nothing"
    <3>1. said = IF text[k] = ")" THEN says[<<i + 1, k - 1>>] ELSE "nothing"
      BY <2>1, <2>3, SaidInside
    <3> QED BY <2>1, <3>1
  <2>4. ASSUME text[i] \notin {"not", "("} PROVE Term(SubSeq(text, i, k), 1).at = k - i + 2
    BY <2>1, <2>4, SaidTerm
  <2> QED BY <2>2, <2>3, <2>4
<1>4. CASE text[i] = "not"
  <2>1. says[<<i + 1, k>>] # "nothing"
    BY <1>4, <1>7
  <2>2. Splits(text, i + 1, k, "or") = {} /\ Splits(text, i + 1, k, "and") = {}
    <3>1. Depth(text, i, i) = 0 /\ text[i] \notin Sign
      BY <1>4, DepthOfOne DEF Sign
    <3>2. \A op : Splits(text, i + 1, k, op) = {j \in Splits(text, i, k, op) : j > i}
      BY <1>1, <3>1, SplitsBehind
    <3> QED BY <3>2
  <2>3. Understood(text, says, i + 1, k)
    BY <1>1
  <2>4. Read(text)[<<"unary", i + 1>>].at = k + 1
    BY <2>1, <2>2, <2>3 DEF Understood
  <2>5. Read(text)[<<"unary", i + 1>>] # Error
    BY <1>1, <1>3, <2>4
  <2>6. Read(text)[<<"unary", i>>] = Parsed(Read(text)[<<"unary", i + 1>>].at, [op |-> "not", left |-> <<"unary", i + 1>>])
    <3> QED BY <1>1, <1>2, <1>4, <2>5 DEF ParseUnary
  <2> QED BY <1>3, <2>4, <2>6
<1>5. CASE text[i] = "("
  <2>1. text[k] = ")" /\ says[<<i + 1, k - 1>>] # "nothing"
    BY <1>5, <1>7
  <2>2. k - 1 \in 0..n /\ i + 1 \in 1..(n + 1) /\ i < i + 1 /\ k - 1 <= k /\ k - 1 + 1 = k
    BY <1>1
  <2>3. Understood(text, says, i + 1, k - 1)
    BY <2>2
  <2>4. At(text, k) = ")"
    BY <1>1, <2>1 DEF At
  <2>5. Wide(text, k - 1, {":"}) /\ Wide(text, k - 1, {"and", "or"})
    BY <2>2, <2>4 DEF Wide
  <2>6. Read(text)[<<"or", i + 1>>].at = k
    BY <2>1, <2>2, <2>3, <2>5 DEF Understood
  <2>7. Read(text)[<<"or", i + 1>>] # Error
    BY <1>1, <1>3, <2>6
  <2>8. Read(text)[<<"unary", i>>] = Parsed(k + 1, Read(text)[<<"or", i + 1>>].expr)
    BY <1>1, <1>2, <1>5, <2>4, <2>6, <2>7 DEF ParseUnary
  <2> QED BY <1>3, <2>8
<1>6. CASE text[i] \notin {"not", "("}
  <2>1. Term(SubSeq(text, i, k), 1).at = k - i + 2
    BY <1>6, <1>7
  <2>2. At(text, k + 1) # ":"
    BY DEF Wide
  <2>3. Term(text, i).at = k + 1
    BY <1>1, <2>1, <2>2, TermShift
  <2> QED BY <1>1, <1>2, <1>6, <2>3 DEF ParseUnary
<1> QED BY <1>4, <1>5, <1>6

\* Two parts of which a whole says something say something.
LEMMA BothSaid ==
  ASSUME NEW op, NEW left, NEW right, Both(op, left, right) # "nothing"
  PROVE  left # "nothing" /\ right # "nothing"
BY DEF Both

\* The same of the spans within a span.
InnerUnderstood(text, says, i, k) ==
  \A a \in 1..(Len(text) + 1), b \in 0..Len(text) :
    i <= a /\ b <= k /\ (i < a \/ b < k) => Understood(text, says, a, b)

\* The first of the splits of a span, and that both halves of it are read.
LEMMA HalvesUnderstood ==
  ASSUME NEW text \in Seq(STRING), NEW i \in 1..(Len(text) + 1), NEW k \in 0..Len(text), i <= k,
         NEW says, NEW c, NEW now, says[<<i, k>>] = Saying(says, text, i, k, c, now),
         says[<<i, k>>] # "nothing", NEW op \in {"and", "or"},
         Splits(text, i, k, op) # {}, op = "and" => Splits(text, i, k, "or") = {},
         InnerUnderstood(text, says, i, k)
  PROVE  \E q \in i..k :
           /\ At(text, q) = op
           /\ Splits(text, i, q - 1, op) = {}
           /\ op = "and" => Splits(text, i, q - 1, "or") = {} /\ Splits(text, q + 1, k, "or") = {}
           /\ says[<<i, q - 1>>] # "nothing" /\ says[<<q + 1, k>>] # "nothing"
           /\ Understood(text, says, i, q - 1) /\ Understood(text, says, q + 1, k)
           /\ Sane(text, q + 1, Read(text)[<<op, q + 1>>])
<1> DEFINE q == Min(Splits(text, i, k, op))
<1>1. i \in Nat /\ k \in Nat /\ Len(text) \in Nat /\ q = Min(Splits(text, i, k, op))
  OBVIOUS
<1> HIDE DEF q
<1>2. q \in i..k /\ text[q] = op /\ Splits(text, i, q - 1, op) = {}
  BY <1>1, FirstHalves
<1>10. Splits(text, i, k, "or") = {} =>
         Splits(text, i, q - 1, "or") = {} /\ Splits(text, q + 1, k, "or") = {}
  BY <1>1, FirstHalves, Zenon
<1>3. Saying(says, text, i, k, c, now) = Both(op, says[<<i, q - 1>>], says[<<q + 1, k>>])
  <2>1. q \in Nat /\ Min(Splits(text, i, k, op)) = q /\ Splits(text, i, k, op) # {}
    BY <1>1, <1>2
  <2>2. CASE op = "or"
    BY <1>1, <2>1, <2>2, SaidEither
  <2>3. CASE op = "and"
    BY <1>1, <2>1, <2>3, SaidBoth
  <2> QED BY <2>2, <2>3
<1>4. says[<<i, q - 1>>] # "nothing" /\ says[<<q + 1, k>>] # "nothing"
  BY <1>3, BothSaid
<1>5. /\ q - 1 \in 0..Len(text) /\ q - 1 < k /\ q + 1 \in 1..(Len(text) + 1) /\ i < q + 1
  BY <1>1, <1>2
<1>6. Understood(text, says, i, q - 1) /\ Understood(text, says, q + 1, k)
  BY <1>1, <1>5 DEF InnerUnderstood
<1>7. At(text, q) = op
  BY <1>2 DEF At
<1>8. op = "and" => Splits(text, i, q - 1, "or") = {} /\ Splits(text, q + 1, k, "or") = {}
  BY <1>10
<1>9. Sane(text, q + 1, Read(text)[<<op, q + 1>>])
  BY <1>1, <1>5, ReadDefined
<1> QED BY <1>2, <1>4, <1>6, <1>7, <1>8, <1>9

\* If the spans within it were read, so was the span.
LEMMA UnderstoodSpan ==
  ASSUME NEW text \in Seq(STRING), NEW i \in 1..(Len(text) + 1), NEW k \in 0..Len(text),
         NEW says, NEW c, NEW now, says[<<i, k>>] = Saying(says, text, i, k, c, now),
         InnerUnderstood(text, says, i, k)
  PROVE  Understood(text, says, i, k)
<1> DEFINE Stops(rule) == Read(text)[<<rule, i>>].at = k + 1
           ors == Splits(text, i, k, "or")
           ands == Splits(text, i, k, "and")
<1>1. i \in Nat /\ k \in Nat /\ Len(text) \in Nat
  OBVIOUS
<1>2. SUFFICES ASSUME says[<<i, k>>] # "nothing", Wide(text, k, {":"})
               PROVE  /\ ors = {} /\ ands = {} => Stops("unary")
                      /\ ors = {} /\ Wide(text, k, {"and"}) => Stops("and")
                      /\ Wide(text, k, {"and", "or"}) => Stops("or")
  BY DEF Understood
<1>3. i <= k
  <2>1. i > k => says[<<i, k>>] = "nothing"
    BY DEF Saying
  <2> QED BY <1>1, <1>2, <2>1
<1>4. /\ Read(text)[<<"and", i>>] = ParseAnd(Read(text), text, i)
      /\ Read(text)[<<"or", i>>] = ParseOr(Read(text), text, i)
  BY <1>1, ReadSteps
<1>5. Error.at = 0 /\ \A at, expr : Parsed(at, expr).at = at
  BY DEF Error, Parsed
<1>6. k + 1 # 0
  BY <1>1
<1>7. ASSUME ors = {}, ands = {} PROVE Stops("unary")
  <2>1. \A a \in 1..(Len(text) + 1), b \in 0..Len(text) :
          i < a /\ b <= k => Understood(text, says, a, b)
    BY <1>1 DEF InnerUnderstood
  <2> QED BY <1>2, <1>3, <1>7, <2>1, UnderstoodAlone
<1>8. ASSUME ors = {}, Wide(text, k, {"and"}) PROVE Stops("and")
  <2>1. CASE ands = {}
    <3>1. Read(text)[<<"unary", i>>].at = k + 1 /\ At(text, k + 1) # "and"
      BY <1>7, <1>8, <2>1 DEF Wide
    <3> QED BY <1>4, <3>1 DEF ParseAnd
  <2>2. CASE ands # {}
    <3>1. PICK q \in i..k :
           /\ At(text, q) = "and"
           /\ Splits(text, i, q - 1, "and") = {}
           /\ Splits(text, i, q - 1, "or") = {} /\ Splits(text, q + 1, k, "or") = {}
           /\ says[<<i, q - 1>>] # "nothing" /\ says[<<q + 1, k>>] # "nothing"
           /\ Understood(text, says, i, q - 1) /\ Understood(text, says, q + 1, k)
           /\ Sane(text, q + 1, Read(text)[<<"and", q + 1>>])
      BY <1>2, <1>3, <1>8, <2>2, HalvesUnderstood
    <3>2. Wide(text, q - 1, {":"})
      BY <1>1, <3>1 DEF Wide
    <3>3. Read(text)[<<"unary", i>>].at = q
      BY <1>1, <3>1, <3>2 DEF Understood
    <3>4. Read(text)[<<"and", q + 1>>].at = k + 1
      BY <1>2, <1>8, <3>1 DEF Understood
    <3>5. /\ Read(text)[<<"unary", i>>] # Error
          /\ Read(text)[<<"and", q + 1>>] # Error
      BY <1>1, <1>5, <3>3, <3>4
    <3>6. Read(text)[<<"and", i>>] = Joined(Read(text), <<"unary", i>>, "and", <<"and", q + 1>>)
      BY <1>4, <3>1, <3>3, <3>5 DEF ParseAnd
    <3> QED BY <1>5, <3>4, <3>5, <3>6 DEF Joined
  <2> QED BY <2>1, <2>2
<1>9. ASSUME Wide(text, k, {"and", "or"}) PROVE Stops("or")
  <2>1. CASE ors = {}
    <3>1. Read(text)[<<"and", i>>].at = k + 1 /\ At(text, k + 1) # "or"
      BY <1>8, <1>9, <2>1 DEF Wide
    <3> QED BY <1>4, <3>1 DEF ParseOr
  <2>2. CASE ors # {}
    <3>1. PICK q \in i..k :
           /\ At(text, q) = "or"
           /\ Splits(text, i, q - 1, "or") = {}
           /\ says[<<i, q - 1>>] # "nothing" /\ says[<<q + 1, k>>] # "nothing"
           /\ Understood(text, says, i, q - 1) /\ Understood(text, says, q + 1, k)
           /\ Sane(text, q + 1, Read(text)[<<"or", q + 1>>])
      BY <1>2, <1>3, <2>2, HalvesUnderstood
    <3>2. Wide(text, q - 1, {":"}) /\ Wide(text, q - 1, {"and"})
      BY <1>1, <3>1 DEF Wide
    <3>3. Read(text)[<<"and", i>>].at = q
      BY <1>1, <3>1, <3>2 DEF Understood
    <3>4. Read(text)[<<"or", q + 1>>].at = k + 1
      BY <1>2, <1>9, <3>1 DEF Understood
    <3>5. /\ Read(text)[<<"and", i>>] # Error
          /\ Read(text)[<<"or", q + 1>>] # Error
      BY <1>1, <1>5, <3>3, <3>4
    <3>6. Read(text)[<<"or", i>>] = Joined(Read(text), <<"and", i>>, "or", <<"or", q + 1>>)
      BY <1>4, <3>1, <3>3, <3>5 DEF ParseOr
    <3> QED BY <1>5, <3>4, <3>5, <3>6 DEF Joined
  <2> QED BY <2>1, <2>2
<1> QED BY <1>7, <1>8, <1>9

\* Every span that says something was read.
LEMMA AllUnderstood ==
  ASSUME NEW text \in Seq(STRING), NEW says, NEW c, NEW now,
         \A i \in 1..(Len(text) + 1), k \in 0..Len(text) :
           says[<<i, k>>] = Saying(says, text, i, k, c, now)
  PROVE  \A i \in 1..(Len(text) + 1), k \in 0..Len(text) : Understood(text, says, i, k)
<1> DEFINE n == Len(text)
           Far(r) == \A i \in 1..(n + 1), k \in 0..n : k - i + n + 1 = r => Understood(text, says, i, k)
           All == {r \in 0..(2 * n) : Far(r)}
<1>1. n \in Nat
  OBVIOUS
<1>2. ASSUME NEW r \in 0..(2 * n), \A s \in 0..(2 * n) : s < r => s \in All PROVE r \in All
  <2>1. SUFFICES ASSUME NEW i \in 1..(n + 1), NEW k \in 0..n, k - i + n + 1 = r
                 PROVE  Understood(text, says, i, k)
    OBVIOUS
  <2>2. InnerUnderstood(text, says, i, k)
    <3>1. SUFFICES ASSUME NEW a \in 1..(n + 1), NEW b \in 0..n, i <= a, b <= k, i < a \/ b < k
                   PROVE  Understood(text, says, a, b)
      BY DEF InnerUnderstood
    <3>2. b - a + n + 1 \in 0..(2 * n) /\ b - a + n + 1 < r
      BY <1>1, <2>1, <3>1
    <3> QED BY <1>2, <3>2
  <2>3. says[<<i, k>>] = Saying(says, text, i, k, c, now)
    OBVIOUS
  <2> QED BY <2>2, <2>3, UnderstoodSpan
<1>3. ASSUME NEW i \in 1..(n + 1), NEW k \in 0..n PROVE Understood(text, says, i, k)
  <2>1. k - i + n + 1 \in 0..(2 * n)
    BY <1>1
  <2>2. 2 * n \in Nat
    BY <1>1
  <2>3. \A r \in 0..(2 * n) : r \in All
    <3> DEFINE top == 2 * n
    <3> HIDE DEF All, top
    <3>1. top \in Nat
      BY <2>2 DEF top
    <3>2. ASSUME NEW r \in 0..top, \A s \in 0..top : s < r => s \in All PROVE r \in All
      BY <1>2, <3>2 DEF top
    <3>3. \A r \in 0..top : r \in All
      BY <3>1, <3>2, Strong
    <3> QED BY <3>3 DEF top
  <2> QED BY <2>1, <2>3
<1> QED BY <1>3

-----------------------------------------------------------------------------
(***************************************************************************)
(* What was read says what its span says: soundness of the parser, by the  *)
(* height of a call.                                                       *)
(***************************************************************************)

\* Which operands hold.
HoldsOf(text, f, c, now) == \A o \in Legible(text) : f[o] = Node(f, Read(text)[o].expr, c, now)

\* An operand holds as its expression says.
LEMMA HoldsBy ==
  ASSUME NEW text, NEW f, NEW c, NEW now, HoldsOf(text, f, c, now), NEW o \in Legible(text),
         NEW e, e = Read(text)[o].expr
  PROVE  /\ e.op = "and" => (f[o] <=> f[e.left] /\ f[e.right])
         /\ e.op = "or" => (f[o] <=> f[e.left] \/ f[e.right])
         /\ e.op = "not" => (f[o] <=> ~f[e.left])
         /\ e.op \notin {"and", "or", "not"} => (f[o] <=> Leaf(c, e, now))
<1>1. f[o] = Node(f, e, c, now)
  BY DEF HoldsOf
<1>2. ASSUME e.op = "and" PROVE f[o] <=> f[e.left] /\ f[e.right]
  BY <1>1, <1>2 DEF Node
<1>3. ASSUME e.op = "or" PROVE f[o] <=> f[e.left] \/ f[e.right]
  BY <1>1, <1>3 DEF Node
<1>4. ASSUME e.op = "not" PROVE f[o] <=> ~f[e.left]
  BY <1>1, <1>4 DEF Node
<1>5. ASSUME e.op \notin {"and", "or", "not"} PROVE f[o] <=> Leaf(c, e, now)
  BY <1>1, <1>5 DEF Node
<1> QED BY <1>2, <1>3, <1>4, <1>5

\* What is said as a truth value is.
Tells(said, truth) == (truth => said = "yes") /\ (~truth => said = "no")

\* Parts that tell truth values tell what is made of both.
LEMMA TellsBoth ==
  ASSUME NEW left, NEW right, NEW a, NEW b, Tells(left, a), Tells(right, b)
  PROVE  /\ Tells(Both("and", left, right), a /\ b)
         /\ Tells(Both("or", left, right), a \/ b)
<1>1. CASE a /\ b
  BY <1>1 DEF Tells, Both
<1>2. CASE a /\ ~b
  BY <1>2 DEF Tells, Both
<1>3. CASE ~a /\ b
  BY <1>3 DEF Tells, Both
<1>4. CASE ~a /\ ~b
  BY <1>4 DEF Tells, Both
<1> QED BY <1>1, <1>2, <1>3, <1>4

\* Where parentheses are balanced.
Balanced(text, i, m) == Depth(text, i, m) = 0 /\ \A j \in i..m : Depth(text, i, j) >= 0

\* Two balanced spans around an operator are balanced.
LEMMA JoinedBalanced ==
  ASSUME NEW text, NEW i \in Nat, NEW k \in Nat, NEW q \in i..k, NEW op \in {"and", "or"},
         text[q] = op, Balanced(text, i, q), Balanced(text, q + 1, k + 1)
  PROVE  Balanced(text, i, k + 1)
<1>1. q \in Nat /\ i <= q /\ Depth(text, i, q) = 0 /\ text[q] \notin Sign
  BY DEF Balanced, Sign
<1>2. \A j \in Nat : q < j => Depth(text, i, j) = Depth(text, q + 1, j)
  BY <1>1, DepthBehind
<1>3. Depth(text, i, k + 1) = 0
  <2>1. k + 1 \in Nat /\ q < k + 1
    BY <1>1
  <2> QED BY <1>2, <2>1 DEF Balanced
<1>4. ASSUME NEW j \in i..(k + 1) PROVE Depth(text, i, j) >= 0
  <2>1. CASE j <= q
    <3>1. j \in i..q
      BY <1>4, <2>1, <1>1
    <3> QED BY <3>1 DEF Balanced
  <2>2. CASE q < j
    <3>1. j \in Nat /\ j \in (q + 1)..(k + 1)
      BY <1>4, <2>2, <1>1
    <3>2. Depth(text, i, j) = Depth(text, q + 1, j)
      BY <1>2, <2>2, <3>1
    <3> QED BY <3>1, <3>2 DEF Balanced
  <2> QED BY <1>1, <1>4, <2>1, <2>2
<1> QED BY <1>3, <1>4 DEF Balanced

\* The operator between two spans is the first split of both.
LEMMA JoinedSplits ==
  ASSUME NEW text, NEW i \in Nat, NEW k \in Nat, NEW q \in i..k, NEW op \in {"and", "or"},
         text[q] = op, Depth(text, i, q) = 0, Splits(text, i, q - 1, op) = {}
  PROVE  Splits(text, i, k, op) # {} /\ Min(Splits(text, i, k, op)) = q
<1>1. q \in Nat /\ i <= q /\ q <= k /\ text[q] \notin Sign
  BY DEF Sign
<1>2. /\ Splits(text, i, q - 1, op) = {j \in Splits(text, i, k, op) : j < q}
      /\ q \in Splits(text, i, k, op)
  BY <1>1, SplitsBehind
<1>3. Splits(text, i, k, op) # {}
  BY <1>2
<1>4. /\ Min(Splits(text, i, k, op)) \in Splits(text, i, k, op)
      /\ Min(Splits(text, i, k, op)) \in i..k
      /\ Min(Splits(text, i, k, op)) <= q
  BY <1>2, <1>3, FirstSplit
<1>5. ~(Min(Splits(text, i, k, op)) < q)
  BY <1>2, <1>4
<1> QED BY <1>1, <1>3, <1>4, <1>5

\* Conjuncts have no "or" outside of parentheses.
LEMMA NoOrJoined ==
  ASSUME NEW text, NEW i \in Nat, NEW k \in Nat, NEW q \in i..k,
         text[q] = "and", Depth(text, i, q) = 0,
         Splits(text, i, q - 1, "or") = {}, Splits(text, q + 1, k, "or") = {}
  PROVE  Splits(text, i, k, "or") = {}
<1>1. q \in Nat /\ i <= q /\ q <= k /\ text[q] \notin Sign
  BY DEF Sign
<1>2. /\ Splits(text, i, q - 1, "or") = {j \in Splits(text, i, k, "or") : j < q}
      /\ q \notin Splits(text, i, k, "or")
      /\ Splits(text, q + 1, k, "or") = {j \in Splits(text, i, k, "or") : j > q}
  BY <1>1, SplitsBehind
<1>3. Splits(text, i, k, "or") \subseteq Int
  BY DEF Splits
<1> QED BY <1>1, <1>2, <1>3

\* What every span of a text says.
Speaks(says, text, c, now) ==
  \A i \in 1..(Len(text) + 1), k \in 0..Len(text) :
    says[<<i, k>>] = Saying(says, text, i, k, c, now)

\* A span without a split.
Whole(text, i, k, op) == Splits(text, i, k, op) = {}

\* What a function of the parser read from i on, up to m.
Fits(text, says, f, rule, i, m) ==
  /\ Balanced(text, i, m)
  /\ Tells(says[<<i, m - 1>>], f[<<rule, i>>])
  /\ rule # "or" => Whole(text, i, m - 1, "or")
  /\ rule = "unary" => Whole(text, i, m - 1, "and")

\* What a call holds by, when it joined two.
BothHold(f, i, q) == f[<<"and", i>>] <=> f[<<"unary", i>>] /\ f[<<"and", q + 1>>]

EitherHolds(f, i, q) == f[<<"or", i>>] <=> f[<<"and", i>>] \/ f[<<"or", q + 1>>]

\* What is said of two conjuncts.
LEMMA JoinedSays ==
  ASSUME NEW says, NEW text, NEW i \in Nat, NEW k \in Nat, i <= k, NEW q \in i..k, NEW c, NEW now,
         text[q] = "and", Depth(text, i, q) = 0, Whole(text, i, q - 1, "and"),
         Whole(text, i, q - 1, "or"), Whole(text, q + 1, k, "or")
  PROVE  /\ Whole(text, i, k, "or")
         /\ Saying(says, text, i, k, c, now) = Both("and", says[<<i, q - 1>>], says[<<q + 1, k>>])
<1>1. Splits(text, i, k, "or") = {}
  BY NoOrJoined DEF Whole
<1>2. Splits(text, i, k, "and") # {} /\ Min(Splits(text, i, k, "and")) = q
  BY JoinedSplits DEF Whole
<1>3. q \in Nat
  OBVIOUS
<1>4. Saying(says, text, i, k, c, now) = Both("and", says[<<i, q - 1>>], says[<<q + 1, k>>])
  BY <1>1, <1>2, <1>3, SaidBoth
<1> QED BY <1>1, <1>4 DEF Whole

\* A conjunction fits, if its parts do.
LEMMA FitsBoth ==
  ASSUME NEW text, Len(text) \in Nat, NEW says, NEW c, NEW now, Speaks(says, text, c, now), NEW f,
         NEW i \in 1..(Len(text) + 1), NEW q \in i..Len(text), NEW k \in q..Len(text),
         text[q] = "and",
         Fits(text, says, f, "unary", i, q), Fits(text, says, f, "and", q + 1, k + 1),
         BothHold(f, i, q)
  PROVE  Fits(text, says, f, "and", i, k + 1)
<1> DEFINE left == says[<<i, q - 1>>]
           right == says[<<q + 1, k>>]
           a == f[<<"unary", i>>]
           b == f[<<"and", q + 1>>]
           both == f[<<"and", i>>]
<1>1. i \in Nat /\ q \in Nat /\ k \in Nat /\ k \in 0..Len(text) /\ i <= k /\ q \in i..k
      /\ k + 1 - 1 = k
  OBVIOUS
<1>2. /\ Balanced(text, i, q) /\ Balanced(text, q + 1, k + 1)
      /\ Tells(left, a) /\ Tells(right, b)
  <2>1. Balanced(text, i, q) /\ Balanced(text, q + 1, k + 1)
    BY DEF Fits
  <2>2. Tells(left, a)
    BY DEF Fits
  <2>3. Tells(right, b)
    BY <1>1 DEF Fits
  <2> QED BY <2>1, <2>2, <2>3
<1>3. says[<<i, k>>] = Saying(says, text, i, k, c, now)
  BY <1>1 DEF Speaks
<1>4. Balanced(text, i, k + 1)
  BY <1>1, <1>2, JoinedBalanced
<1>5. Depth(text, i, q) = 0
  BY <1>2 DEF Balanced
<1>6. /\ Whole(text, i, q - 1, "and") /\ Whole(text, i, q - 1, "or")
      /\ Whole(text, q + 1, k, "or")
  BY <1>1 DEF Fits
<1>7. /\ Whole(text, i, k, "or")
      /\ Saying(says, text, i, k, c, now) = Both("and", says[<<i, q - 1>>], says[<<q + 1, k>>])
  <2>1. i \in Nat /\ k \in Nat /\ i <= k /\ q \in i..k
    BY <1>1
  <2> QED BY <2>1, <1>5, <1>6, JoinedSays
<1>8. both <=> a /\ b
  BY DEF BothHold
<1> HIDE DEF left, right, a, b, both
<1>9. Tells(Both("and", left, right), a /\ b)
  BY <1>2, TellsBoth
<1>10. says[<<i, k>>] = Both("and", left, right)
  BY <1>3, <1>7 DEF left, right
<1>11. Tells(says[<<i, k>>], both)
  BY <1>8, <1>9, <1>10 DEF Tells
<1>12. Tells(says[<<i, k + 1 - 1>>], f[<<"and", i>>])
  BY <1>1, <1>11 DEF both
<1>13. Whole(text, i, k + 1 - 1, "or")
  BY <1>1, <1>7
<1> QED BY <1>4, <1>12, <1>13 DEF Fits

\* An alternative fits, if its parts do.
LEMMA FitsEither ==
  ASSUME NEW text, Len(text) \in Nat, NEW says, NEW c, NEW now, Speaks(says, text, c, now), NEW f,
         NEW i \in 1..(Len(text) + 1), NEW q \in i..Len(text), NEW k \in q..Len(text),
         text[q] = "or",
         Fits(text, says, f, "and", i, q), Fits(text, says, f, "or", q + 1, k + 1),
         EitherHolds(f, i, q)
  PROVE  Fits(text, says, f, "or", i, k + 1)
<1> DEFINE left == says[<<i, q - 1>>]
           right == says[<<q + 1, k>>]
           a == f[<<"and", i>>]
           b == f[<<"or", q + 1>>]
           both == f[<<"or", i>>]
<1>1. i \in Nat /\ q \in Nat /\ k \in Nat /\ k \in 0..Len(text) /\ i <= k /\ q \in i..k
      /\ k + 1 - 1 = k
  OBVIOUS
<1>2. /\ Balanced(text, i, q) /\ Balanced(text, q + 1, k + 1)
      /\ Tells(left, a) /\ Tells(right, b)
  <2>1. Balanced(text, i, q) /\ Balanced(text, q + 1, k + 1)
    BY DEF Fits
  <2>2. Tells(left, a)
    BY DEF Fits
  <2>3. Tells(right, b)
    BY <1>1 DEF Fits
  <2> QED BY <2>1, <2>2, <2>3
<1>3. says[<<i, k>>] = Saying(says, text, i, k, c, now)
  BY <1>1 DEF Speaks
<1>4. Balanced(text, i, k + 1)
  BY <1>1, <1>2, JoinedBalanced
<1>5. Depth(text, i, q) = 0
  BY <1>2 DEF Balanced
<1>6. Whole(text, i, q - 1, "or")
  BY <1>1 DEF Fits
<1>7. Saying(says, text, i, k, c, now) = Both("or", says[<<i, q - 1>>], says[<<q + 1, k>>])
  <2>1. Splits(text, i, k, "or") # {} /\ Min(Splits(text, i, k, "or")) = q
    BY <1>1, <1>5, <1>6, JoinedSplits DEF Whole
  <2> QED BY <1>1, <2>1, SaidEither
<1>8. both <=> a \/ b
  BY DEF EitherHolds
<1> HIDE DEF left, right, a, b, both
<1>9. Tells(Both("or", left, right), a \/ b)
  BY <1>2, TellsBoth
<1>10. says[<<i, k>>] = Both("or", left, right)
  BY <1>3, <1>7 DEF left, right
<1>11. Tells(says[<<i, k>>], both)
  BY <1>8, <1>9, <1>10 DEF Tells
<1>12. Tells(says[<<i, k + 1 - 1>>], f[<<"or", i>>])
  BY <1>1, <1>11 DEF both
<1> QED BY <1>4, <1>12 DEF Fits

\* An operand that denies the next one.
Negates(f, i) == f[<<"unary", i>>] <=> ~f[<<"unary", i + 1>>]

\* A denial fits, if what it denies does.
LEMMA FitsNot ==
  ASSUME NEW text, Len(text) \in Nat, NEW says, NEW c, NEW now, Speaks(says, text, c, now), NEW f,
         NEW i \in 1..Len(text), NEW k \in (i + 1)..Len(text),
         text[i] = "not", Fits(text, says, f, "unary", i + 1, k + 1), Negates(f, i)
  PROVE  Fits(text, says, f, "unary", i, k + 1)
<1>1. i \in Nat /\ k \in Nat /\ i <= k /\ k \in 0..Len(text) /\ k + 1 - 1 = k
  OBVIOUS
<1>2. Depth(text, i, i) = 0 /\ text[i] \notin Sign
  BY <1>1, DepthOfOne DEF Sign
<1>3. \A j \in Nat : i < j => Depth(text, i, j) = Depth(text, i + 1, j)
  BY <1>1, <1>2, DepthBehind
<1>4. Balanced(text, i + 1, k + 1)
  BY DEF Fits
<1>5. Balanced(text, i, k + 1)
  <2>1. Depth(text, i, k + 1) = 0
    BY <1>1, <1>3, <1>4 DEF Balanced
  <2>2. ASSUME NEW j \in i..(k + 1) PROVE Depth(text, i, j) >= 0
    <3>1. CASE j = i
      BY <1>2, <3>1
    <3>2. CASE j # i
      <4>1. j \in Nat /\ i < j /\ j \in (i + 1)..(k + 1)
        BY <1>1, <3>2
      <4> QED BY <1>3, <1>4, <4>1 DEF Balanced
    <3> QED BY <3>1, <3>2
  <2> QED BY <2>1, <2>2 DEF Balanced
<1>6. /\ Whole(text, i + 1, k, "or") /\ Whole(text, i + 1, k, "and")
      /\ Tells(says[<<i + 1, k>>], f[<<"unary", i + 1>>])
  BY <1>1 DEF Fits
<1>7. ASSUME NEW op \in {"or", "and"}, Whole(text, i + 1, k, op) PROVE Splits(text, i, k, op) = {}
  <2>1. /\ Splits(text, i, i - 1, op) = {j \in Splits(text, i, k, op) : j < i}
        /\ i \in Splits(text, i, k, op) <=> text[i] = op
        /\ Splits(text, i + 1, k, op) = {j \in Splits(text, i, k, op) : j > i}
    BY <1>1, <1>2, SplitsBehind
  <2>2. Splits(text, i, k, op) \subseteq i..k
    BY DEF Splits
  <2>3. i \notin Splits(text, i, k, op)
    BY <2>1
  <2>4. {j \in Splits(text, i, k, op) : j > i} = {}
    BY <1>7, <2>1 DEF Whole
  <2> QED BY <1>1, <2>2, <2>3, <2>4
<1>8. Splits(text, i, k, "or") = {} /\ Splits(text, i, k, "and") = {}
  BY <1>6, <1>7
<1> DEFINE said == says[<<i, k>>]
           rest == says[<<i + 1, k>>]
           a == f[<<"unary", i>>]
           b == f[<<"unary", i + 1>>]
<1>9. said = Saying(says, text, i, k, c, now)
  BY <1>1 DEF Speaks
<1>10. (rest = "yes" => said = "no") /\ (rest = "no" => said = "yes")
  <2> HIDE DEF said
  <2> QED BY <1>1, <1>8, <1>9, SaidNot
<1>11. a <=> ~b
  BY DEF Negates
<1>12. Tells(rest, b)
  BY <1>6
<1> HIDE DEF said, rest, a, b
<1>13. Tells(said, a)
  BY <1>10, <1>11, <1>12 DEF Tells
<1>14. Tells(says[<<i, k + 1 - 1>>], f[<<"unary", i>>])
  BY <1>1, <1>13 DEF said, a
<1>15. Whole(text, i, k + 1 - 1, "or") /\ Whole(text, i, k + 1 - 1, "and")
  BY <1>1, <1>8 DEF Whole
<1> QED BY <1>5, <1>14, <1>15 DEF Fits

\* What is in parentheses fits, if what is between them does.
LEMMA FitsInside ==
  ASSUME NEW text, Len(text) \in Nat, NEW says, NEW c, NEW now, Speaks(says, text, c, now), NEW f,
         NEW i \in 1..Len(text), NEW k \in (i + 2)..Len(text),
         text[i] = "(", text[k] = ")", Fits(text, says, f, "or", i + 1, k),
         f[<<"unary", i>>] <=> f[<<"or", i + 1>>]
  PROVE  Fits(text, says, f, "unary", i, k + 1)
<1>1. /\ i \in Nat /\ k \in Nat /\ i + 1 \in Nat /\ i + 1 <= k /\ i <= k /\ k \in 0..Len(text)
      /\ k + 1 - 1 = k
  OBVIOUS
<1>2. Balanced(text, i + 1, k) /\ Tells(says[<<i + 1, k - 1>>], f[<<"or", i + 1>>])
  BY DEF Fits
<1>3. Depth(text, i, i) = 0 /\ Depth(text, i, i + 1) = 1 /\ Depth(text, k, k + 1) = -1
  <2>1. /\ Depth(text, i, i) = 0
        /\ Depth(text, i, i + 1) = IF text[i] = "(" THEN 1 ELSE IF text[i] = ")" THEN -1 ELSE 0
    BY <1>1, DepthOfOne
  <2>2. Depth(text, k, k + 1) = IF text[k] = "(" THEN 1 ELSE IF text[k] = ")" THEN -1 ELSE 0
    BY <1>1, DepthOfOne
  <2> QED BY <2>1, <2>2
<1>4. ASSUME NEW j \in (i + 1)..k
      PROVE  Depth(text, i, j) = 1 + Depth(text, i + 1, j) /\ Depth(text, i + 1, j) \in Int
                /\ Depth(text, i + 1, j) >= 0
  <2> DEFINE e == i + 1
  <2>1. e \in Nat /\ j \in Nat /\ i <= e /\ e <= j /\ j \in e..k
    BY <1>1
  <2>2. Depth(text, i, e) = 1 /\ Balanced(text, e, k)
    BY <1>2, <1>3
  <2> HIDE DEF e
  <2>3. Depth(text, i, j) = Depth(text, i, e) + Depth(text, e, j) /\ Depth(text, e, j) \in Int
    BY <1>1, <2>1, DepthAdds
  <2>4. Depth(text, e, j) >= 0
    BY <2>1, <2>2 DEF Balanced
  <2> QED BY <2>2, <2>3, <2>4 DEF e
<1>5. Depth(text, i, k + 1) = 0
  <2>1. Depth(text, i, k) = 1
    <3>1. Depth(text, i, k) = 1 + Depth(text, i + 1, k)
      BY <1>1, <1>4
    <3>2. Depth(text, i + 1, k) = 0
      BY <1>2 DEF Balanced
    <3> QED BY <3>1, <3>2
  <2> DEFINE e == k + 1
  <2>2. e \in Nat /\ k <= e /\ Depth(text, k, e) = -1
    BY <1>1, <1>3
  <2> HIDE DEF e
  <2>3. Depth(text, i, e) = Depth(text, i, k) + Depth(text, k, e)
    BY <1>1, <2>2, DepthAdds
  <2>4. Depth(text, i, e) = 0
    BY <2>1, <2>2, <2>3
  <2> QED BY <2>4 DEF e
<1>6. Balanced(text, i, k + 1)
  <2>1. ASSUME NEW j \in i..(k + 1) PROVE Depth(text, i, j) >= 0
    <3>1. CASE j = i
      BY <1>3, <3>1
    <3>2. CASE j = k + 1
      BY <1>5, <3>2
    <3>3. CASE j \in (i + 1)..k
      <4>1. /\ Depth(text, i, j) = 1 + Depth(text, i + 1, j) /\ Depth(text, i + 1, j) \in Int
            /\ Depth(text, i + 1, j) >= 0
        BY <1>4, <3>3
      <4> QED BY <4>1
    <3> QED BY <1>1, <3>1, <3>2, <3>3
  <2> QED BY <1>5, <2>1 DEF Balanced
<1>7. ASSUME NEW op \in {"or", "and"} PROVE Splits(text, i, k, op) = {}
  <2>1. ASSUME NEW j \in i..k, text[j] = op, Depth(text, i, j) = 0 PROVE FALSE
    <3>1. j # i
      BY <1>7, <2>1
    <3>2. j \in (i + 1)..k
      BY <1>1, <2>1, <3>1
    <3>3. /\ Depth(text, i, j) = 1 + Depth(text, i + 1, j) /\ Depth(text, i + 1, j) \in Int
          /\ Depth(text, i + 1, j) >= 0
      BY <1>4, <3>2
    <3> QED BY <2>1, <3>3
  <2> QED BY <2>1 DEF Splits
<1>8. Splits(text, i, k, "or") = {} /\ Splits(text, i, k, "and") = {}
  BY <1>7
<1>9. says[<<i, k>>] = says[<<i + 1, k - 1>>]
  <2> DEFINE said == says[<<i, k>>]
  <2>1. said = Saying(says, text, i, k, c, now)
    BY <1>1 DEF Speaks
  <2> HIDE DEF said
  <2>2. said = says[<<i + 1, k - 1>>]
    BY <1>1, <1>8, <2>1, SaidInside
  <2> QED BY <2>2 DEF said
<1>10. Tells(says[<<i, k>>], f[<<"unary", i>>])
  BY <1>2, <1>9 DEF Tells
<1>11. Tells(says[<<i, k + 1 - 1>>], f[<<"unary", i>>])
  BY <1>1, <1>10
<1>12. Whole(text, i, k + 1 - 1, "or") /\ Whole(text, i, k + 1 - 1, "and")
  BY <1>1, <1>8 DEF Whole
<1> QED BY <1>6, <1>11, <1>12 DEF Fits

\* What a term consists of.
LEMMA TermTokens ==
  ASSUME NEW text, Len(text) \in Nat, NEW i \in 1..(Len(text) + 1), NEW k \in Nat,
         Term(text, i).at = k + 1
  PROVE  /\ i <= k /\ k <= Len(text) /\ text[i] \notin {"not", "("}
         /\ \A j \in i..k : text[j] \notin Sign \cup {"and", "or"}
<1>1. Error.at = 0 /\ \A at, expr : Parsed(at, expr).at = at
  BY DEF Error, Parsed
<1>2. Term(text, i) # Error
  BY <1>1
<1>3. IsWord(At(text, i))
  BY <1>2 DEF Term
<1>4. \/ k = i
      \/ k = i + 2 /\ At(text, i + 1) = ":" /\ IsWord(At(text, i + 2))
  <2>1. \/ Term(text, i).at = i + 1
        \/ /\ Term(text, i).at = i + 3
           /\ At(text, i + 1) = ":" /\ IsWord(At(text, i + 2))
    BY <1>1, <1>2, <1>3 DEF Term
  <2> QED BY <2>1
<1>5. \A x : IsWord(x) => x \notin Sign \cup {"and", "or", "not"}
  <2>1. Sign \cup {"and", "or", "not"} \subseteq Token
    BY DEF Sign, Token
  <2> QED BY <2>1, Keywords
<1>6. ":" \in Token /\ ":" \notin Sign \cup {"and", "or"}
  BY DEF Sign, Token
<1>7. i <= Len(text) /\ text[i] = At(text, i)
  BY <1>3, AtProperties
<1>8. text[i] \notin {"not", "("}
  BY <1>3, <1>5, <1>7 DEF Sign
<1>9. CASE k = i
  BY <1>3, <1>5, <1>7, <1>8, <1>9
<1>10. CASE k = i + 2 /\ At(text, i + 1) = ":" /\ IsWord(At(text, i + 2))
  <2>1. i + 2 <= Len(text) /\ text[i + 2] = At(text, i + 2)
    BY <1>10, AtProperties
  <2>2. text[i + 1] = At(text, i + 1)
    BY <2>1 DEF At
  <2>3. \A j \in i..k : j = i \/ j = i + 1 \/ j = i + 2
    BY <1>10
  <2>4. \A j \in i..k : text[j] \notin Sign \cup {"and", "or"}
    BY <1>3, <1>5, <1>6, <1>7, <1>10, <2>1, <2>2, <2>3
  <2> QED BY <1>8, <1>10, <2>1, <2>4
<1> QED BY <1>4, <1>9, <1>10

\* Without parentheses the depth is 0.
LEMMA NoSigns ==
  ASSUME NEW text, NEW i \in Nat, NEW k \in Nat, \A j \in i..k : text[j] \notin Sign
  PROVE  \A j \in i..(k + 1) : Depth(text, i, j) = 0
<1> TAKE j \in i..(k + 1)
<1>1. {h \in i..(j - 1) : text[h] = "("} = {}
  BY DEF Sign
<1>2. {h \in i..(j - 1) : text[h] = ")"} = {}
  BY DEF Sign
<1>3. Cardinality({h \in i..(j - 1) : text[h] = "("}) = 0
  BY <1>1, FS_EmptySet
<1>4. Cardinality({h \in i..(j - 1) : text[h] = ")"}) = 0
  BY <1>2, FS_EmptySet
<1> QED BY <1>3, <1>4 DEF Depth

\* An operand that is a term.
IsLeaf(f, i, text, c, now) == f[<<"unary", i>>] <=> Leaf(c, Term(text, i).expr, now)

\* A term fits.
LEMMA FitsTerm ==
  ASSUME NEW text \in Seq(STRING), NEW says, NEW c, NEW now, Speaks(says, text, c, now), NEW f,
         NEW i \in 1..Len(text), NEW k \in i..Len(text),
         Term(text, i).at = k + 1, IsLeaf(f, i, text, c, now)
  PROVE  Fits(text, says, f, "unary", i, k + 1)
<1>1. /\ i \in Nat /\ k \in Nat /\ i <= k /\ k \in 0..Len(text) /\ k + 1 - 1 = k
      /\ Len(text) \in Nat /\ i \in 1..(Len(text) + 1)
  OBVIOUS
<1>2. /\ text[i] \notin {"not", "("}
      /\ \A j \in i..k : text[j] \notin Sign \cup {"and", "or"}
  BY <1>1, TermTokens
<1>3. \A j \in i..(k + 1) : Depth(text, i, j) = 0
  <2>1. \A j \in i..k : text[j] \notin Sign
    BY <1>2
  <2> QED BY <1>1, <2>1, NoSigns
<1>4. Balanced(text, i, k + 1)
  <2>1. k + 1 \in i..(k + 1)
    BY <1>1
  <2> QED BY <1>3, <2>1 DEF Balanced
<1>5. Splits(text, i, k, "or") = {} /\ Splits(text, i, k, "and") = {}
  BY <1>2 DEF Splits
<1>6. /\ Term(SubSeq(text, i, k), 1).at = k - i + 2
      /\ Term(SubSeq(text, i, k), 1).expr = Term(text, i).expr
  BY TermShift
<1> DEFINE said == says[<<i, k>>]
           leaf == Leaf(c, Term(text, i).expr, now)
           a == f[<<"unary", i>>]
<1>7. said = Saying(says, text, i, k, c, now)
  BY <1>1 DEF Speaks
<1>8. said = IF leaf THEN "yes" ELSE "no"
  <2>1. Saying(says, text, i, k, c, now) =
          IF Term(SubSeq(text, i, k), 1).at # k - i + 2 THEN "nothing"
          ELSE IF Leaf(c, Term(SubSeq(text, i, k), 1).expr, now) THEN "yes" ELSE "no"
    BY <1>1, <1>2, <1>5, SaidTerm
  <2> HIDE DEF said
  <2> QED BY <1>6, <1>7, <2>1
<1>9. a <=> leaf
  BY DEF IsLeaf
<1> HIDE DEF said, leaf, a
<1>10. Tells(said, a)
  BY <1>8, <1>9 DEF Tells
<1>11. Tells(says[<<i, k + 1 - 1>>], f[<<"unary", i>>])
  BY <1>1, <1>10 DEF said, a
<1>12. Whole(text, i, k + 1 - 1, "or") /\ Whole(text, i, k + 1 - 1, "and")
  BY <1>1, <1>5 DEF Whole
<1> QED BY <1>4, <1>11, <1>12 DEF Fits

\* That what a call returned fits, and that all lower calls fit.
FitsRead(text, says, f, rule, i) == Fits(text, says, f, rule, i, Read(text)[<<rule, i>>].at)

LowerFit(text, says, f, o) ==
  \A rule \in {"or", "and", "unary"}, i \in 1..(Len(text) + 1) :
    <<rule, i>> \in Lower(text, o) \cap Legible(text) => FitsRead(text, says, f, rule, i)

\* Calls that returned the same expression hold alike.
LEMMA SameHolds ==
  ASSUME NEW text, NEW f, NEW c, NEW now, HoldsOf(text, f, c, now),
         NEW o \in Legible(text), NEW q \in Legible(text), Read(text)[o].expr = Read(text)[q].expr
  PROVE  f[o] = f[q]
BY DEF HoldsOf

\* What a call returns as another one returned it.
LEMMA FitsSame ==
  ASSUME NEW text, NEW says, NEW f, NEW c, NEW now, HoldsOf(text, f, c, now),
         NEW i \in 1..(Len(text) + 1), NEW rule, NEW lower,
         <<rule, i>> \in Legible(text), <<lower, i>> \in Legible(text),
         Read(text)[<<rule, i>>] = Read(text)[<<lower, i>>],
         FitsRead(text, says, f, lower, i),
         \/ rule = "and" /\ lower = "unary"
         \/ rule = "or" /\ lower = "and"
  PROVE  FitsRead(text, says, f, rule, i)
<1>1. f[<<rule, i>>] = f[<<lower, i>>]
  BY SameHolds
<1> QED BY <1>1 DEF FitsRead, Fits

\* That a call was read is that it returned no error.
LEMMA LegibleIs ==
  ASSUME NEW text, Len(text) \in Nat, NEW rule \in {"or", "and", "unary"}, NEW i \in 1..(Len(text) + 1)
  PROVE  <<rule, i>> \in Legible(text) <=> Read(text)[<<rule, i>>] # Error
BY DEF Legible, Operand

\* A joined pair of calls.
JoinedAt(text, op, lower, i, q) ==
  /\ q \in i..Len(text) /\ text[q] = op
  /\ <<lower, i>> \in Legible(text)
  /\ <<op, q + 1>> \in Lower(text, <<op, i>>) \cap Legible(text)
  /\ q + 1 \in 1..(Len(text) + 1)
  /\ Read(text)[<<op, i>>].at = Read(text)[<<op, q + 1>>].at
  /\ Read(text)[<<op, i>>].at \in (q + 2)..(Len(text) + 1)
  /\ Read(text)[<<op, i>>].expr = [op |-> op, left |-> <<lower, i>>, right |-> <<op, q + 1>>]

\* An operand whose operator follows is joined with what is read behind that.
LEMMA JoinedRead ==
  ASSUME NEW text, Len(text) \in Nat, NEW i \in 1..(Len(text) + 1),
         NEW op \in {"and", "or"}, NEW lower \in {"unary", "and"},
         <<lower, i>> \in Lower(text, <<op, i>>),
         <<op, i>> \in Legible(text), NEW q, q = Read(text)[<<lower, i>>].at,
         Read(text)[<<lower, i>>] # Error, At(text, q) = op,
         Read(text)[<<op, i>>] = Joined(Read(text), <<lower, i>>, op, <<op, q + 1>>)
  PROVE  JoinedAt(text, op, lower, i, q)
<1>1. op \in Token /\ op \in {"or", "and", "unary"} /\ lower \in {"or", "and", "unary"}
  BY DEF Token
<1>2. Sane(text, i, Read(text)[<<lower, i>>])
  BY <1>1, ReadDefined
<1>3. q \in (i + 1)..(Len(text) + 1)
  BY <1>2 DEF Sane
<1>4. q <= Len(text) /\ text[q] = op
  BY <1>1, <1>3, AtProperties
<1>5. q + 1 \in 1..(Len(text) + 1) /\ i < q + 1
  BY <1>3, <1>4
<1>6. <<op, q + 1>> \in Lower(text, <<op, i>>)
  <2> DEFINE j == q + 1
  <2>1. j \in 1..(Len(text) + 1) /\ i < j
    BY <1>5
  <2> HIDE DEF j
  <2>2. <<op, j>> \in Lower(text, <<op, i>>)
    BY <1>1, <2>1, Lowers
  <2> QED BY <2>2 DEF j
<1>7. Read(text)[<<op, i>>] # Error
  BY <1>1, LegibleIs
<1>8. /\ Read(text)[<<op, q + 1>>] # Error
      /\ Read(text)[<<op, i>>] =
           Parsed(Read(text)[<<op, q + 1>>].at,
                  [op |-> op, left |-> <<lower, i>>, right |-> <<op, q + 1>>])
  BY <1>7 DEF Joined
<1>9. <<op, q + 1>> \in Legible(text) /\ <<lower, i>> \in Legible(text)
  BY <1>1, <1>5, <1>8, LegibleIs
<1>10. Sane(text, q + 1, Read(text)[<<op, q + 1>>])
  BY <1>1, <1>5, ReadDefined
<1>11. Read(text)[<<op, q + 1>>].at \in (q + 2)..(Len(text) + 1)
  BY <1>3, <1>8, <1>10 DEF Sane
<1>12. /\ Read(text)[<<op, i>>].at = Read(text)[<<op, q + 1>>].at
       /\ Read(text)[<<op, i>>].expr = [op |-> op, left |-> <<lower, i>>, right |-> <<op, q + 1>>]
  BY <1>8 DEF Parsed
<1>13. q \in i..Len(text)
  BY <1>3, <1>4
<1> QED BY <1>4, <1>5, <1>6, <1>9, <1>11, <1>12, <1>13 DEF JoinedAt

\* What parse_and reads fits.
LEMMA FitAnd ==
  ASSUME NEW text, Len(text) \in Nat, NEW says, NEW c, NEW now, Speaks(says, text, c, now),
         NEW f, HoldsOf(text, f, c, now), NEW i \in 1..(Len(text) + 1),
         <<"and", i>> \in Legible(text), LowerFit(text, says, f, <<"and", i>>)
  PROVE  FitsRead(text, says, f, "and", i)
<1> DEFINE first == Read(text)[<<"unary", i>>]
           whole == Read(text)[<<"and", i>>]
           q == first.at
<1>1. whole = ParseAnd(Read(text), text, i) /\ whole # Error
  BY ReadSteps, LegibleIs
<1>2. <<"unary", i>> \in Lower(text, <<"and", i>>)
  BY Lowers
<1>3. first # Error
  BY <1>1 DEF ParseAnd
<1>4. <<"unary", i>> \in Legible(text)
  BY <1>3, LegibleIs
<1>5. FitsRead(text, says, f, "unary", i)
  BY <1>2, <1>4 DEF LowerFit
<1>6. CASE At(text, q) # "and"
  <2>1. whole = first
    BY <1>1, <1>6 DEF ParseAnd
  <2> QED BY <1>4, <1>5, <2>1, FitsSame
<1>7. CASE At(text, q) = "and"
  <2>1. whole = Joined(Read(text), <<"unary", i>>, "and", <<"and", q + 1>>)
    BY <1>1, <1>3, <1>7 DEF ParseAnd
  <2> HIDE DEF q
  <2>2. q = first.at
    BY DEF q
  <2>3. /\ q \in i..Len(text) /\ text[q] = "and"
        /\ <<"and", q + 1>> \in Lower(text, <<"and", i>>) \cap Legible(text)
        /\ q + 1 \in 1..(Len(text) + 1)
        /\ whole.at = Read(text)[<<"and", q + 1>>].at
        /\ whole.at \in (q + 2)..(Len(text) + 1)
        /\ whole.expr = [op |-> "and", left |-> <<"unary", i>>, right |-> <<"and", q + 1>>]
    <3>1. JoinedAt(text, "and", "unary", i, q)
      BY <1>2, <1>3, <1>7, <2>1, <2>2, JoinedRead
    <3> QED BY <3>1 DEF JoinedAt
  <2>4. FitsRead(text, says, f, "and", q + 1)
    BY <2>3 DEF LowerFit
  <2> DEFINE k == whole.at - 1
  <2>5. k \in q..Len(text) /\ whole.at = k + 1
    BY <2>3
  <2>6. Fits(text, says, f, "unary", i, q)
    BY <1>5, <2>2 DEF FitsRead
  <2>7. Fits(text, says, f, "and", q + 1, k + 1)
    BY <2>3, <2>4, <2>5 DEF FitsRead
  <2>8. BothHold(f, i, q)
    <3> DEFINE e == whole.expr
    <3>1. e.op = "and" /\ e.left = <<"unary", i>> /\ e.right = <<"and", q + 1>>
      BY <2>3
    <3>2. f[<<"and", i>>] <=> f[e.left] /\ f[e.right]
      <4>1. e = Read(text)[<<"and", i>>].expr
        OBVIOUS
      <4> HIDE DEF e
      <4> QED BY <3>1, <4>1, HoldsBy
    <3> HIDE DEF e
    <3> QED BY <3>1, <3>2 DEF BothHold
  <2> HIDE DEF k
  <2>9. Fits(text, says, f, "and", i, k + 1)
    BY <2>3, <2>5, <2>6, <2>7, <2>8, FitsBoth
  <2> QED BY <2>5, <2>9 DEF FitsRead
<1> QED BY <1>6, <1>7

\* What parse_or reads fits.
LEMMA FitOr ==
  ASSUME NEW text, Len(text) \in Nat, NEW says, NEW c, NEW now, Speaks(says, text, c, now),
         NEW f, HoldsOf(text, f, c, now), NEW i \in 1..(Len(text) + 1),
         <<"or", i>> \in Legible(text), LowerFit(text, says, f, <<"or", i>>)
  PROVE  FitsRead(text, says, f, "or", i)
<1> DEFINE first == Read(text)[<<"and", i>>]
           whole == Read(text)[<<"or", i>>]
           q == first.at
<1>1. whole = ParseOr(Read(text), text, i) /\ whole # Error
  BY ReadSteps, LegibleIs
<1>2. <<"and", i>> \in Lower(text, <<"or", i>>)
  BY Lowers
<1>3. first # Error
  BY <1>1 DEF ParseOr
<1>4. <<"and", i>> \in Legible(text)
  BY <1>3, LegibleIs
<1>5. FitsRead(text, says, f, "and", i)
  BY <1>2, <1>4 DEF LowerFit
<1>6. CASE At(text, q) # "or"
  <2>1. whole = first
    BY <1>1, <1>6 DEF ParseOr
  <2> QED BY <1>4, <1>5, <2>1, FitsSame
<1>7. CASE At(text, q) = "or"
  <2>1. whole = Joined(Read(text), <<"and", i>>, "or", <<"or", q + 1>>)
    BY <1>1, <1>3, <1>7 DEF ParseOr
  <2> HIDE DEF q
  <2>2. q = first.at
    BY DEF q
  <2>3. /\ q \in i..Len(text) /\ text[q] = "or"
        /\ <<"or", q + 1>> \in Lower(text, <<"or", i>>) \cap Legible(text)
        /\ q + 1 \in 1..(Len(text) + 1)
        /\ whole.at = Read(text)[<<"or", q + 1>>].at
        /\ whole.at \in (q + 2)..(Len(text) + 1)
        /\ whole.expr = [op |-> "or", left |-> <<"and", i>>, right |-> <<"or", q + 1>>]
    <3>1. JoinedAt(text, "or", "and", i, q)
      BY <1>2, <1>3, <1>7, <2>1, <2>2, JoinedRead
    <3> QED BY <3>1 DEF JoinedAt
  <2>4. FitsRead(text, says, f, "or", q + 1)
    BY <2>3 DEF LowerFit
  <2> DEFINE k == whole.at - 1
  <2>5. k \in q..Len(text) /\ whole.at = k + 1
    BY <2>3
  <2>6. Fits(text, says, f, "and", i, q)
    BY <1>5, <2>2 DEF FitsRead
  <2>7. Fits(text, says, f, "or", q + 1, k + 1)
    BY <2>3, <2>4, <2>5 DEF FitsRead
  <2>8. EitherHolds(f, i, q)
    <3> DEFINE e == whole.expr
    <3>1. e.op = "or" /\ e.left = <<"and", i>> /\ e.right = <<"or", q + 1>>
      BY <2>3
    <3>2. f[<<"or", i>>] <=> f[e.left] \/ f[e.right]
      <4>1. e = Read(text)[<<"or", i>>].expr
        OBVIOUS
      <4> HIDE DEF e
      <4> QED BY <3>1, <4>1, HoldsBy
    <3> HIDE DEF e
    <3> QED BY <3>1, <3>2 DEF EitherHolds
  <2> HIDE DEF k
  <2>9. Fits(text, says, f, "or", i, k + 1)
    BY <2>3, <2>5, <2>6, <2>7, <2>8, FitsEither
  <2> QED BY <2>5, <2>9 DEF FitsRead
<1> QED BY <1>6, <1>7

\* What parse_unary reads fits.
LEMMA FitUnary ==
  ASSUME NEW text \in Seq(STRING), NEW says, NEW c, NEW now, Speaks(says, text, c, now),
         NEW f, HoldsOf(text, f, c, now), NEW i \in 1..(Len(text) + 1),
         <<"unary", i>> \in Legible(text), LowerFit(text, says, f, <<"unary", i>>)
  PROVE  FitsRead(text, says, f, "unary", i)
<1> DEFINE n == Len(text)
           e == i + 1
           o == <<"unary", i>>
           whole == Read(text)[o]
           k == whole.at - 1
<1>1. n \in Nat
  OBVIOUS
<1>2. whole = ParseUnary(Read(text), text, i) /\ whole # Error
  BY <1>1, ReadSteps, LegibleIs
<1>3. whole.at \in (i + 1)..(n + 1)
  <2>1. Sane(text, i, whole)
    BY <1>1, ReadDefined
  <2> QED BY <1>2, <2>1 DEF Sane
<1>4. k \in i..n /\ whole.at = k + 1
  BY <1>1, <1>3
<1>5. i \in 1..n /\ At(text, i) = text[i] /\ e \in 1..(n + 1) /\ i < e
  BY <1>1, <1>3 DEF At
<1>6. \A rule \in {"or", "and", "unary"} : Read(text)[<<rule, e>>] # Error =>
        FitsRead(text, says, f, rule, e) /\ Read(text)[<<rule, e>>].at \in (e + 1)..(n + 1)
          /\ <<rule, e>> \in Legible(text)
  <2> TAKE rule \in {"or", "and", "unary"}
  <2> HAVE Read(text)[<<rule, e>>] # Error
  <2> HIDE DEF e
  <2>1. <<rule, e>> \in Lower(text, <<"unary", i>>)
    BY <1>1, <1>5, Lowers
  <2>2. <<rule, e>> \in Legible(text)
    BY <1>1, <1>5, LegibleIs
  <2>3. Sane(text, e, Read(text)[<<rule, e>>])
    BY <1>1, <1>5, ReadDefined
  <2> QED BY <1>5, <2>1, <2>2, <2>3 DEF LowerFit, Sane
<1>7. CASE At(text, i) = "not"
  <2> DEFINE operand == Read(text)[<<"unary", e>>]
  <2>1. operand # Error /\ whole = Parsed(operand.at, [op |-> "not", left |-> <<"unary", e>>])
    BY <1>2, <1>7 DEF ParseUnary
  <2>2. FitsRead(text, says, f, "unary", e) /\ operand.at \in (e + 1)..(n + 1)
    BY <1>6, <2>1
  <2>3. whole.at = operand.at /\ whole.expr = [op |-> "not", left |-> <<"unary", e>>]
    BY <2>1 DEF Parsed
  <2>4. Negates(f, i)
    <3> DEFINE x == whole.expr
    <3>1. x = Read(text)[o].expr /\ x.op = "not" /\ x.left = <<"unary", e>>
      BY <2>3
    <3> HIDE DEF x, e
    <3>2. f[o] <=> ~f[x.left]
      BY <3>1, HoldsBy
    <3> QED BY <3>1, <3>2 DEF Negates, e
  <2>5. k \in e..n
    BY <1>1, <1>4, <2>2, <2>3
  <2>6. Fits(text, says, f, "unary", e, k + 1)
    BY <1>4, <2>2, <2>3 DEF FitsRead
  <2> HIDE DEF k
  <2>7. Fits(text, says, f, "unary", i, k + 1)
    BY <1>1, <1>5, <1>7, <2>4, <2>5, <2>6, FitsNot
  <2> QED BY <1>4, <2>7 DEF FitsRead
<1>8. CASE At(text, i) = "("
  <2> DEFINE inner == Read(text)[<<"or", e>>]
  <2>1. inner # Error /\ At(text, inner.at) = ")" /\ whole = Parsed(inner.at + 1, inner.expr)
    <3>1. whole = IF inner = Error \/ At(text, inner.at) # ")" THEN Error
                  ELSE Parsed(inner.at + 1, inner.expr)
      BY <1>2, <1>8 DEF ParseUnary
    <3> HIDE DEF inner, whole
    <3> QED BY <1>2, <3>1
  <2>2. /\ FitsRead(text, says, f, "or", e) /\ inner.at \in (e + 1)..(n + 1)
        /\ <<"or", e>> \in Legible(text)
    BY <1>6, <2>1
  <2>3. whole.at = inner.at + 1 /\ whole.expr = inner.expr
    BY <2>1 DEF Parsed
  <2>4. f[o] = f[<<"or", e>>]
    BY <2>2, <2>3, SameHolds
  <2>5. k = inner.at /\ k \in (i + 2)..n
    BY <1>1, <1>4, <2>2, <2>3
  <2>6. text[k] = ")"
    BY <2>1, <2>5 DEF At
  <2>7. Fits(text, says, f, "or", e, k)
    BY <2>2, <2>5 DEF FitsRead
  <2> HIDE DEF k
  <2>8. Fits(text, says, f, "unary", i, k + 1)
    <3>1. f[<<"unary", i>>] <=> f[<<"or", i + 1>>]
      BY <2>4
    <3> QED BY <1>1, <1>5, <1>8, <2>5, <2>6, <2>7, <3>1, FitsInside
  <2> QED BY <1>4, <2>8 DEF FitsRead
<1>9. CASE At(text, i) \notin {"not", "("}
  <2>1. whole = Term(text, i)
    BY <1>2, <1>9 DEF ParseUnary
  <2>2. IsLeaf(f, i, text, c, now)
    <3> DEFINE x == whole.expr
    <3>1. x = Read(text)[o].expr /\ x = Term(text, i).expr
      BY <2>1
    <3>2. x.op \in Field \cup {"word"}
      BY <1>2, <2>1, TermRefers
    <3>3. x.op \notin {"and", "or", "not"}
      BY <3>2 DEF Field, Flags
    <3> HIDE DEF x
    <3>4. f[o] <=> Leaf(c, x, now)
      BY <3>1, <3>3, HoldsBy
    <3> QED BY <3>1, <3>4 DEF IsLeaf
  <2>3. Term(text, i).at = k + 1
    BY <1>4, <2>1
  <2> HIDE DEF k
  <2>4. Fits(text, says, f, "unary", i, k + 1)
    BY <1>4, <1>5, <2>2, <2>3, FitsTerm
  <2> QED BY <1>4, <2>4 DEF FitsRead
<1> QED BY <1>7, <1>8, <1>9

\* Everything that was read fits its span.
LEMMA AllFit ==
  ASSUME NEW text \in Seq(STRING), NEW says, NEW c, NEW now, Speaks(says, text, c, now),
         NEW f, HoldsOf(text, f, c, now),
         NEW rule \in {"or", "and", "unary"}, NEW i \in 1..(Len(text) + 1), <<rule, i>> \in Legible(text)
  PROVE  FitsRead(text, says, f, rule, i)
<1> DEFINE n == Len(text)
           top == 3 * n + 2
           High(r) == \A x \in {"or", "and", "unary"}, j \in 1..(n + 1) :
                        <<x, j>> \in Legible(text) /\ Height(text, <<x, j>>) = r => FitsRead(text, says, f, x, j)
           All == {r \in 0..top : High(r)}
<1>1. n \in Nat /\ top \in Nat
  OBVIOUS
<1>2. \A x \in {"or", "and", "unary"}, j \in 1..(n + 1) :
        <<x, j>> \in Operand(text) /\ Height(text, <<x, j>>) \in 0..top
  <2> TAKE x \in {"or", "and", "unary"}, j \in 1..(n + 1)
  <2>1. <<x, j>> \in Operand(text)
    BY DEF Operand
  <2> QED BY <1>1, <2>1, Operands
<1>3. ASSUME NEW r \in 0..top, \A s \in 0..top : s < r => s \in All PROVE r \in All
  <2>1. SUFFICES ASSUME NEW x \in {"or", "and", "unary"}, NEW j \in 1..(n + 1),
                        <<x, j>> \in Legible(text), Height(text, <<x, j>>) = r
                 PROVE  FitsRead(text, says, f, x, j)
    OBVIOUS
  <2>2. LowerFit(text, says, f, <<x, j>>)
    <3>1. SUFFICES ASSUME NEW y \in {"or", "and", "unary"}, NEW h \in 1..(n + 1),
                          <<y, h>> \in Lower(text, <<x, j>>), <<y, h>> \in Legible(text)
                   PROVE  FitsRead(text, says, f, y, h)
      BY DEF LowerFit
    <3>2. Height(text, <<y, h>>) \in 0..top
      BY <1>2
    <3>3. Height(text, <<y, h>>) < r
      BY <2>1, <3>1 DEF Lower
    <3>4. Height(text, <<y, h>>) \in All
      BY <1>3, <3>2, <3>3
    <3> QED BY <3>1, <3>4
  <2>3. CASE x = "unary"
    BY <2>1, <2>2, <2>3, FitUnary
  <2>4. CASE x = "and"
    BY <1>1, <2>1, <2>2, <2>4, FitAnd
  <2>5. CASE x = "or"
    BY <1>1, <2>1, <2>2, <2>5, FitOr
  <2> QED BY <2>3, <2>4, <2>5
<1>4. \A r \in 0..top : r \in All
  <2> HIDE DEF All, top
  <2> QED BY <1>1, <1>3, Strong
<1>5. Height(text, <<rule, i>>) \in All
  BY <1>2, <1>4
<1> QED BY <1>5

-----------------------------------------------------------------------------
(***************************************************************************)
(* A query and what it says.                                               *)
(***************************************************************************)

\* A text that is parsed matches as it says, and one that is not says nothing.
LEMMA SaidAsMatched ==
  ASSUME NEW text \in Seq(STRING), text # <<>>, Unterminated \notin ToSet(text), NEW c, NEW now
  PROVE  /\ parse(text) # Error => Tells(Says(text, c, now), matches(text, c, now))
         /\ parse(text) = Error => Says(text, c, now) = "nothing"
<1> DEFINE n == Len(text)
           whole == Read(text)[<<"or", 1>>]
<1>1. n \in Nat /\ n >= 1 /\ 1 \in 1..(n + 1) /\ n \in 0..n
  OBVIOUS
<1>2. PICK says : Says(text, c, now) = says[<<1, n>>] /\ Speaks(says, text, c, now)
  <2>1. \E says : /\ Says(text, c, now) = says[<<1, n>>]
                  /\ \A i \in 1..(n + 1), k \in 0..n : says[<<i, k>>] = Saying(says, text, i, k, c, now)
    BY <1>1, SaysDefined
  <2> QED BY <2>1 DEF Speaks
<1>3. parse(text) = IF whole.at = n + 1 THEN whole ELSE Error
  BY DEF parse
<1>4. Error.at = 0
  BY DEF Error
<1>5. ASSUME parse(text) # Error PROVE Tells(Says(text, c, now), matches(text, c, now))
  <2>1. whole.at = n + 1 /\ whole # Error /\ parse(text) = whole
    BY <1>1, <1>3, <1>4, <1>5
  <2>2. <<"or", 1>> \in Legible(text)
    BY <1>1, <2>1, LegibleIs
  <2>3. PICK f : matches(text, c, now) = Node(f, parse(text).expr, c, now) /\ HoldsOf(text, f, c, now)
    <3>1. \E f : /\ matches(text, c, now) = Node(f, parse(text).expr, c, now)
                 /\ \A o \in Legible(text) : f[o] = Node(f, Read(text)[o].expr, c, now)
      BY <1>1, MatchesDefined
    <3> QED BY <3>1 DEF HoldsOf
  <2>4. matches(text, c, now) = f[<<"or", 1>>]
    BY <2>1, <2>2, <2>3 DEF HoldsOf
  <2>5. FitsRead(text, says, f, "or", 1)
    BY <1>1, <1>2, <2>2, <2>3, AllFit
  <2>6. Tells(says[<<1, n + 1 - 1>>], f[<<"or", 1>>])
    BY <2>1, <2>5 DEF FitsRead, Fits
  <2>7. n + 1 - 1 = n
    BY <1>1
  <2> HIDE DEF n
  <2> QED BY <1>2, <2>4, <2>6, <2>7
<1>6. ASSUME parse(text) = Error PROVE Says(text, c, now) = "nothing"
  <2>1. SUFFICES ASSUME says[<<1, n>>] # "nothing" PROVE whole.at = n + 1
    BY <1>1, <1>2, <1>3, <1>4, <1>6
  <2>2. At(text, n + 1) = End
    BY <1>1 DEF At
  <2>3. End \notin Token /\ {"and", "or", ":"} \subseteq Token
    BY Keywords DEF Token
  <2>4. Wide(text, n, {":"}) /\ Wide(text, n, {"and", "or"})
    BY <2>2, <2>3 DEF Wide
  <2>5. Understood(text, says, 1, n)
    <3>1. \A i \in 1..(n + 1), k \in 0..n : says[<<i, k>>] = Saying(says, text, i, k, c, now)
      BY <1>2 DEF Speaks
    <3>2. \A i \in 1..(n + 1), k \in 0..n : Understood(text, says, i, k)
      BY <3>1, AllUnderstood
    <3> QED BY <1>1, <3>2
  <2> QED BY <2>1, <2>4, <2>5 DEF Understood
<1> QED BY <1>5, <1>6

\* What ParsedAsGrouped says of a text.
SaidOf(text, c, now) ==
  IF text = <<>> THEN "yes"
  ELSE IF Unterminated \in ToSet(text) THEN "nothing"
  ELSE Says(text, c, now)

\* The same with the texts that parse treats first.
LEMMA QuerySays ==
  ASSUME NEW text \in Seq(STRING), NEW c, NEW now
  PROVE  /\ parse(text) # Error => Tells(SaidOf(text, c, now), matches(text, c, now))
         /\ parse(text) = Error => SaidOf(text, c, now) = "nothing"
<1> DEFINE said == SaidOf(text, c, now)
<1>1. CASE text = <<>>
  <2>1. Unterminated \notin ToSet(text)
    BY <1>1 DEF ToSet
  <2>2. parse(text) = Parsed(1, [op |-> "true"])
    BY <1>1, <2>1 DEF parse
  <2>3. parse(text) # Error /\ parse(text).expr = [op |-> "true"]
    <3>1. parse(text).at = 1 /\ Error.at = 0 /\ parse(text).expr = [op |-> "true"]
      BY <2>2 DEF Parsed, Error
    <3> QED BY <3>1
  <2>4. PICK f : matches(text, c, now) = Node(f, parse(text).expr, c, now)
    BY MatchesDefined
  <2>5. Node(f, [op |-> "true"], c, now) = Leaf(c, [op |-> "true"], now)
    BY DEF Node
  <2>6. Leaf(c, [op |-> "true"], now) = TRUE
    BY DEF Leaf
  <2>7. matches(text, c, now) = TRUE
    BY <2>3, <2>4, <2>5, <2>6
  <2>8. said = "yes"
    BY <1>1 DEF SaidOf
  <2> HIDE DEF said
  <2> QED BY <2>3, <2>7, <2>8 DEF Tells, said
<1>2. CASE text # <<>> /\ Unterminated \in ToSet(text)
  <2>1. parse(text) = Error
    BY <1>2 DEF parse
  <2> QED BY <1>2, <2>1 DEF SaidOf
<1>3. CASE text # <<>> /\ Unterminated \notin ToSet(text)
  <2>1. said = Says(text, c, now)
    BY <1>3 DEF SaidOf
  <2> QED BY <1>3, <2>1, SaidAsMatched
<1> QED BY <1>1, <1>2, <1>3

\* What a command gets to see does not depend on the time.
LEMMA LoadedAlike ==
  ASSUME NEW a, NEW b
  PROVE  /\ Accepted(Raw, job.keep_invalid, a) = Accepted(Raw, job.keep_invalid, b)
         /\ Loaded(a) = Loaded(b)
<1> DEFINE Kept(now) == {i \in DOMAIN Raw : job.keep_invalid \/ is_valid(validate_cookie(Raw[i], now))}
<1>1. \A now : Kept(now) = {i \in DOMAIN Raw : job.keep_invalid \/ Sound(Raw[i])}
  <2> TAKE now
  <2>1. \A c : is_valid(validate_cookie(c, now)) <=> Sound(c)
    BY ValidMeans
  <2> QED BY <2>1
<1>2. Kept(a) = Kept(b)
  <2> HIDE DEF Kept
  <2> QED BY <1>1
<1>3. \A now : Accepted(Raw, job.keep_invalid, now) = Retained(Raw, Kept(now))
  BY DEF Accepted
<1> HIDE DEF Kept
<1>4. Accepted(Raw, job.keep_invalid, a) = Accepted(Raw, job.keep_invalid, b)
  BY <1>2, <1>3
<1> QED BY <1>4 DEF Loaded

\* The cookies are those of a list that match, each asked at some time.
Answered(list) ==
  \E at \in [list -> Clock] : cookies = {c \in list : matches(job.query, c, at[c])}

\* The invariant of a query.
QueryAnswered ==
  /\ stage \in {"canonical", "validated", "judged", "inspected", "fresh", "permitted"} =>
       job.command = "pipeline"
  /\ job.command = "query" /\ stage = "parsed" => \A then \in Clock : ToSet(cookies) = Loaded(then)
  /\ job.command = "query" /\ stage = "selected" =>
       parse(job.query) # Error /\ \A then \in Clock : Answered(Loaded(then))
  /\ job.command = "query" /\ stage = "failed" /\ Len(job.raw) <= MaximumCookies =>
       parse(job.query) = Error

\* It says that the query was read as its grammar groups it.
LEMMA AnsweredAsGrouped == EngineSound /\ QueryAnswered => ParsedAsGrouped
<1>1. SUFFICES ASSUME EngineSound, QueryAnswered, job.command = "query",
                      stage \in {"selected", "failed"}, Len(job.raw) <= MaximumCookies,
                      NEW then \in Clock, NEW c \in Loaded(then)
               PROVE  LET said == {SaidOf(job.query, c, now) : now \in Clock}
                      IN IF stage = "failed" THEN said = {"nothing"}
                         ELSE IF c \in cookies THEN "yes" \in said ELSE "no" \in said
  BY DEF ParsedAsGrouped, SaidOf
<1> DEFINE Say(now) == SaidOf(job.query, c, now)
           said == {Say(now) : now \in Clock}
<1>2. job.query \in Seq(STRING)
  BY <1>1 DEF EngineSound, Options
<1>3. \A now : /\ parse(job.query) # Error => Tells(Say(now), matches(job.query, c, now))
               /\ parse(job.query) = Error => Say(now) = "nothing"
  BY <1>2, QuerySays
<1> HIDE DEF Say
<1>4. CASE stage = "failed"
  <2>1. parse(job.query) = Error
    BY <1>1, <1>4 DEF QueryAnswered
  <2>2. \A now \in Clock : Say(now) = "nothing"
    BY <1>3, <2>1
  <2>3. said = {"nothing"}
    BY <1>1, <2>2
  <2> QED BY <1>4, <2>3 DEF Say
<1>5. CASE stage = "selected"
  <2>1. parse(job.query) # Error /\ Answered(Loaded(then))
    BY <1>1, <1>5 DEF QueryAnswered
  <2>2. PICK at \in [Loaded(then) -> Clock] :
          cookies = {d \in Loaded(then) : matches(job.query, d, at[d])}
    BY <2>1 DEF Answered
  <2> DEFINE now == at[c]
  <2>3. now \in Clock /\ Tells(Say(now), matches(job.query, c, now))
    BY <1>1, <1>3, <2>1, <2>2
  <2>4. c \in cookies <=> matches(job.query, c, now)
    BY <1>1, <2>2
  <2> HIDE DEF now
  <2>5. Say(now) \in said
    BY <2>3
  <2>6. IF c \in cookies THEN Say(now) = "yes" ELSE Say(now) = "no"
    BY <2>3, <2>4 DEF Tells
  <2>7. IF c \in cookies THEN "yes" \in said ELSE "no" \in said
    BY <2>5, <2>6
  <2>8. stage # "failed"
    BY <1>5
  <2> QED BY <2>7, <2>8 DEF Say
<1> QED BY <1>1, <1>4, <1>5

\* No query has been answered.
LEMMA InitAnswered == Init => QueryAnswered
BY DEF Init, Given, QueryAnswered

\* What a query gets to see are the cookies that were accepted, at any time.
LEMMA ParseAnswered == EngineSound /\ Parse => QueryAnswered'
<1>1. SUFFICES ASSUME EngineSound, Parse PROVE QueryAnswered'
  OBVIOUS
<1>2. job' = job /\ job.raw \in Seq(Cookie)
  BY <1>1 DEF Parse, EngineSound, Options
<1>3. PICK now \in Clock :
        \/ stage' = "failed" /\ Len(Raw) > MaximumCookies
        \/ /\ stage' = "parsed"
           /\ cookies' = deduplicate_last_wins(Accepted(Raw, job.keep_invalid, now))
  BY <1>1 DEF Parse
<1>4. Len(Raw) = Len(job.raw)
  BY <1>2 DEF Raw
<1>5. Len(job.raw) <= MaximumCookies => ~(Len(Raw) > MaximumCookies)
  BY <1>2, <1>4, EngineAssumption
<1>6. \A then : Loaded(then)' = Loaded(then)
  BY <1>2 DEF Loaded, Raw
<1>7. ASSUME stage' = "parsed", NEW then \in Clock PROVE ToSet(cookies)' = Loaded(then)'
  <2>1. ToSet(cookies') = Loaded(now)
    BY <1>3, <1>7 DEF Loaded
  <2>2. Loaded(now) = Loaded(then)
    BY LoadedAlike
  <2> QED BY <1>6, <2>1, <2>2
<1> QED BY <1>2, <1>3, <1>5, <1>7 DEF QueryAnswered

\* The other steps do not answer queries.
LEMMA PipelineAnswered ==
  ASSUME QueryAnswered,
         \/ Canonicalize \/ Validate \/ Judge \/ TakeStatistics \/ RemoveExpired \/ FilterByPolicy
         \/ SelectFromPipeline
  PROVE  QueryAnswered'
<1>1. job.command = "pipeline" /\ job' = job
  BY DEF Canonicalize, Validate, Judge, TakeStatistics, RemoveExpired, FilterByPolicy,
         SelectFromPipeline, Inspecting, QueryAnswered
<1> QED BY <1>1 DEF QueryAnswered

\* The stages that do not select keep what was answered.
LEMMA OtherAnswered ==
  ASSUME Serialize \/ CommandConvert \/ CommandValidate \/ CommandAudit
  PROVE  QueryAnswered'
<1>1. job' = job /\ stage' \in {"selected", "done", "failed"}
  BY DEF Serialize, CommandConvert, CommandValidate, CommandAudit
<1>2. stage' = "done" \/ job.command # "query"
  BY DEF Serialize, CommandConvert, CommandValidate, CommandAudit
<1> QED BY <1>1, <1>2 DEF QueryAnswered

\* A query is answered, or refused.
LEMMA QueryStepAnswered ==
  ASSUME QueryAnswered, CommandQuery
  PROVE  QueryAnswered'
<1>1. /\ job.command = "query" /\ stage = "parsed" /\ job' = job /\ Select(ToSet(cookies))
  BY DEF CommandQuery
<1>2. \A then \in Clock : ToSet(cookies) = Loaded(then)
  BY <1>1 DEF QueryAnswered
<1>3. \A then : Loaded(then)' = Loaded(then)
  BY <1>1 DEF Loaded, Raw
<1>4. CASE parse(job.query) = Error
  <2>1. stage' = "failed"
    BY <1>1, <1>4 DEF Select
  <2> QED BY <1>1, <1>4, <2>1 DEF QueryAnswered
<1>5. CASE parse(job.query) # Error
  <2>1. PICK at \in [ToSet(cookies) -> Clock] :
          stage' = "selected" /\ cookies' = {c \in ToSet(cookies) : matches(job.query, c, at[c])}
    BY <1>1, <1>5 DEF Select
  <2>2. ASSUME NEW then \in Clock PROVE Answered(Loaded(then))'
    <3>1. ToSet(cookies) = Loaded(then)'
      BY <1>2, <1>3
    <3> QED BY <1>1, <2>1, <3>1 DEF Answered
  <2> QED BY <1>1, <1>5, <2>1, <2>2 DEF QueryAnswered
<1> QED BY <1>4, <1>5

\* Every step keeps the invariant of a query.
LEMMA StepAnswered == EngineSound /\ QueryAnswered /\ [Next]_vars => QueryAnswered'
<1>1. EngineSound /\ QueryAnswered /\ Next => QueryAnswered'
  BY ParseAnswered, PipelineAnswered, OtherAnswered, QueryStepAnswered DEF Next
<1>2. QueryAnswered /\ UNCHANGED vars => QueryAnswered'
  BY DEF QueryAnswered, Answered, Loaded, Raw, vars
<1> QED BY <1>1, <1>2

\* Every query is read as its grammar groups it, however long and nested it is:
\* `not` before `and` before `or`, and what the grammar does not have is refused.
THEOREM QueriesAreGrouped == Spec => []ParsedAsGrouped
<1>1. Spec => []QueryAnswered
  <2>1. EngineSound /\ QueryAnswered /\ [Next]_vars => QueryAnswered'
    BY StepAnswered
  <2> QED BY InitAnswered, <2>1, AlwaysSound, PTL DEF Spec
<1>2. EngineSound /\ QueryAnswered => ParsedAsGrouped
  BY AnsweredAsGrouped
<1> QED BY <1>1, <1>2, AlwaysSound, PTL
=============================================================================
