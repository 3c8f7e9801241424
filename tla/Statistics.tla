------------------------------ MODULE Statistics ------------------------------
(***************************************************************************)
(* CookieStatistics::compute (rust/crates/luck-core/src/statistics.rs):    *)
(* the counters of a collection, and how its lengths are distributed.      *)
(* Means and medians are left out, and so are the counters by path, store  *)
(* and SameSite, which are kept like those by domain.                      *)
(***************************************************************************)
EXTENDS CookieModel, TLC

Count(cookies, Test(_)) == Cardinality({c \in cookies : Test(c)})

\* The place of the p-th percentile among n sorted values, from 0.
PercentileRank(n, p) == ((n - 1) * p + 99) \div 100

percentile(sorted, p) ==
  LET rank == PercentileRank(Len(sorted), p)
  IN IF sorted = <<>> THEN 0
     ELSE sorted[1 + IF rank < Len(sorted) - 1 THEN rank ELSE Len(sorted) - 1]

from_values(values) ==
  LET sorted == SortSeq(values, <)
  IN IF values = <<>>
     THEN [minimum |-> 0, maximum |-> 0, p90 |-> 0, p99 |-> 0]
     ELSE [minimum |-> sorted[1], maximum |-> Last(sorted),
           p90 |-> percentile(sorted, 90), p99 |-> percentile(sorted, 99)]

\* The domain that compute counts a cookie under.
CountedUnder(c) == Lowered(normalized_domain(c))

\* LifetimeStatistics counts the cookies that have an expiration date, and
\* nobody's lifetime is negative (f64::max makes NaN zero, too).
Lifetimes(cookies, now) ==
  [c \in {d \in cookies : d.expiration # NoDate} |->
     IF c.expiration > now THEN c.expiration - now ELSE 0]

compute(cookies, now) ==
  [total            |-> Cardinality(cookies),
   domains          |-> Cardinality({CountedUnder(c) : c \in cookies}),
   by_domain        |-> [d \in {CountedUnder(c) : c \in cookies} |->
                           Count(cookies, LAMBDA c : CountedUnder(c) = d)],
   secure           |-> Count(cookies, LAMBDA c : c.secure),
   insecure         |-> Count(cookies, LAMBDA c : ~c.secure),
   http_only        |-> Count(cookies, LAMBDA c : c.http_only),
   session          |-> Count(cookies, effective_session),
   persistent       |-> Count(cookies, LAMBDA c : ~effective_session(c)),
   expired          |-> Count(cookies, LAMBDA c : is_expired_at(c, now)),
   host_only        |-> Count(cookies, LAMBDA c : c.host_only),
   prefixed_host    |-> Count(cookies, is_host_prefix),
   prefixed_secure  |-> Count(cookies, is_secure_prefix),
   empty_values     |-> Count(cookies, LAMBDA c : c.value = 0),
   value_length     |-> LET order == SetToSeq(cookies)
                        IN from_values([i \in DOMAIN order |-> order[i].value]),
   persistent_count |-> Cardinality(DOMAIN Lifetimes(cookies, now)),
   shortest         |-> LET spans == Lifetimes(cookies, now)
                        IN IF spans = <<>> THEN 0
                           ELSE Min({spans[c] : c \in DOMAIN spans})]
=============================================================================
