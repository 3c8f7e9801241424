------------------------------ MODULE CookieModel ------------------------------
(***************************************************************************)
(* The cookie of luck-core (rust/crates/luck-core/src/model.rs) as the     *)
(* stages of the engine see it.  A cookie keeps                            *)
(*   padded, prefix, id   whether a blank comes before the name, the       *)
(*                        prefix of the name, and the rest of it;          *)
(*   domain               its characters, as far as they matter: "." and   *)
(*                        " " and one letter in either case;               *)
(*   path                 its segments, as split('/') gives them;          *)
(*   value, control       its length, and whether it has a control byte;   *)
(*   expiration           NoDate, NaN for what is not finite, or a time,   *)
(*                        where 0 stands for all that are not positive;    *)
(*   same_site and the flags; partitioned for a partition_site.            *)
(* The store id and the metadata are left out.                             *)
(***************************************************************************)
EXTENDS Integers, FiniteSets, SequencesExt

CONSTANTS
  Id,         \* the names, without blanks and prefix
  Nameless,   \* those of them that are empty
  LastDate,   \* the end of the year 9999
  Clock       \* what SystemTime::now may answer

Space == " "

Character == {".", Space, "A", "a"}

\* Segments of a path; one with a semicolon in it stands for them all.
Empty     == ""
Semicolon == ";"

Segment == {Empty, ".", "..", "a", "b", Semicolon}

NoDate == -2
NaN    == -1

SameSite == {"none", "lax", "strict", "unspecified"}

Cookie ==
  [padded : BOOLEAN, prefix : {"plain", "__Secure-", "__Host-"}, id : Id,
   domain : Seq(Character), path : Seq(Segment),
   value : Nat, control : BOOLEAN, expiration : Int, same_site : SameSite,
   secure : BOOLEAN, http_only : BOOLEAN, session : BOOLEAN,
   host_only : BOOLEAN, partitioned : BOOLEAN]

ASSUME ModelAssumption ==
  /\ Nameless \subseteq Id
  /\ LastDate \in Nat \ {0}
  /\ Clock \subseteq Nat \ {0}

(***************************************************************************)
(* Strings.                                                                *)
(***************************************************************************)
TrimStart(s, dropped) ==
  LET kept == {i \in 1..Len(s) : s[i] # dropped}
  IN IF kept = {} THEN <<>> ELSE SubSeq(s, Min(kept), Len(s))

TrimEnd(s, dropped) ==
  LET kept == {i \in 1..Len(s) : s[i] # dropped}
  IN IF kept = {} THEN <<>> ELSE SubSeq(s, 1, Max(kept))

Trim(s) == TrimEnd(TrimStart(s, Space), Space)

Lowered(s) == [i \in DOMAIN s |-> IF s[i] = "A" THEN "a" ELSE s[i]]

StartsWithDot(s) == s # <<>> /\ s[1] = "."

\* domain == suffix || domain.ends_with(".suffix")
WithinDomain(domain, suffix) ==
  domain = suffix \/ IsSuffix(<<".">> \o suffix, domain)

(***************************************************************************)
(* Paths.  A path with one segment has no slash in it.                     *)
(***************************************************************************)
Root == <<Empty, Empty>>

StartsWithSlash(path) == Len(path) > 1 /\ path[1] = Empty
EndsWithSlash(path)   == Len(path) > 1 /\ Last(path) = Empty

(***************************************************************************)
(* model.rs.                                                               *)
(***************************************************************************)
\* CookieKey; blanks before the name are part of the name.
CookieKey(c) ==
  <<c.partitioned, c.domain, c.path, c.padded, c.prefix, c.id>>

is_expired_at(c, now) == c.expiration >= 0 /\ c.expiration <= now

is_host_prefix(c)   == c.prefix = "__Host-" /\ ~c.padded
is_secure_prefix(c) == c.prefix = "__Secure-" /\ ~c.padded

\* strip_prefix: one dot only.
normalized_domain(c) ==
  IF StartsWithDot(c.domain) THEN Tail(c.domain) ELSE c.domain

domain_matches(c, hostname) ==
  WithinDomain(Lowered(TrimEnd(Trim(hostname), ".")),
               Lowered(TrimEnd(normalized_domain(c), ".")))

effective_session(c) == c.session \/ c.expiration = NoDate

\* Lengths are counted in characters of the domain and the value, and in
\* segments of the path; all names are equally long.
estimated_bytes(c) == Len(c.domain) + Len(c.path) + c.value

\* Vec::retain: what is at some places of a list, in its order.
Retained(list, places) ==
  LET kept[i \in 0..Len(list)] ==
        IF i = 0 THEN <<>>
        ELSE IF i \in places THEN Append(kept[i - 1], list[i]) ELSE kept[i - 1]
  IN kept[Len(list)]

\* The last cookie of a key stays, where it is.
LastOfKey(list) ==
  {i \in DOMAIN list :
     \A j \in DOMAIN list : j > i => CookieKey(list[j]) # CookieKey(list[i])}

deduplicate_last_wins(list) == Retained(list, LastOfKey(list))

remove_expired_at(cookies, now) == {c \in cookies : ~is_expired_at(c, now)}
=============================================================================
