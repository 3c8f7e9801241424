----------------------------- MODULE DomainIndexes -----------------------------
(***************************************************************************)
(* The two domain indexes of the repository side by side: the maps of      *)
(* luck-core (rust/crates/luck-core/src/domain_index.rs) and the trie of   *)
(* the native layer (native/cpp/src/domain_index.cpp).  Both are given the *)
(* same calls, so that what they answer can be compared with each other    *)
(* and with what has been stored.                                          *)
(*                                                                         *)
(* Domains and hosts are texts, of which the two normalizations tell apart *)
(* the dots, the blanks that both trim (Blank), the blanks that only       *)
(* luck-core trims (WideBlank, outside ASCII), and everything else         *)
(* (Letter, in lower case).  Nothing checks a text before it gets here:    *)
(* luck-core indexes cookies as they were parsed, and a host is whatever   *)
(* the caller asks for.                                                    *)
(*                                                                         *)
(* A key holds the domain as the cookie spells it (CookieKey.domain), so   *)
(* DomainOf says how the key is spelled; several spellings may name one    *)
(* domain.  Flag stands for the four memberships that the Rust index       *)
(* keeps.  List is the set of collections an index is built from.          *)
(***************************************************************************)
EXTENDS Naturals, FiniteSets, SequencesExt

CONSTANTS CookieKey, Letter, Dot, Blank, WideBlank, DomainOf, Flag, List, HostName

DomainText == Seq(Letter \cup {Dot} \cup Blank \cup WideBlank)

Entry == [key : CookieKey, flags : SUBSET Flag]

ASSUME IndexAssumption ==
  /\ DomainOf \in [CookieKey -> DomainText]
  /\ HostName \subseteq DomainText
  /\ List \subseteq Seq(Entry)

VARIABLES
  stored,   \* not in the code: by key, the flags of the cookie last inserted
  index,    \* the Rust index
  trie      \* the C++ index

index_vars == <<stored, index, trie>>

\* The text without what it begins and ends with of a set.
Trimmed(text, S) ==
  LET kept == {i \in DOMAIN text : text[i] \notin S}
  IN IF kept = {} THEN <<>> ELSE SubSeq(text, Min(kept), Max(kept))

\* store.cpp trims dots and blanks as they come.
normalized_domain(text) == Trimmed(text, Blank \cup {Dot})

\* domain_index.rs trims blanks, and then dots.
normalize_domain(text) == Trimmed(Trimmed(text, Blank \cup WideBlank), {Dot})

\* The labels of a text from its end, each spelled backwards.  There is always
\* one, which may be empty, and so may be those between two dots.
ReadNext(labels, next) ==
  IF next = Dot THEN Append(labels, <<>>)
  ELSE [labels EXCEPT ![Len(labels)] = Append(@, next)]

LabelsRead(text) ==
  LET labels[n \in 0..Len(text)] ==
        IF n = 0 THEN << <<>> >> ELSE ReadNext(labels[n - 1], text[Len(text) + 1 - n])
  IN labels

LabelsFromEnd(text) == LabelsRead(text)[Len(text)]

reversed_domain_labels(text) == LabelsFromEnd(normalized_domain(text))

\* A list of labels without the empty ones.
Kept(labels) ==
  LET kept[n \in 0..Len(labels)] ==
        IF n = 0 THEN <<>>
        ELSE IF labels[n] = <<>> THEN kept[n - 1]
             ELSE Append(kept[n - 1], labels[n])
  IN kept

WithoutEmpty(labels) == Kept(labels)[Len(labels)]

\* The prefixes of a path, the root <<>> included.
PathTo(p) == {SubSeq(p, 1, n) : n \in 0..Len(p)}

With(f, x, v) == [y \in DOMAIN f \cup {x} |-> IF y = x THEN v ELSE f[y]]

Without(f, x) == [y \in DOMAIN f \ {x} |-> f[y]]

(***************************************************************************)
(* domain_index.rs: a map from the domain to its keys, with no empty       *)
(* entry, and a set of keys for every flag.                                *)
(***************************************************************************)
IndexDomain(k) == normalize_domain(DomainOf[k])

EmptyIndex == [domains |-> <<>>, member |-> [f \in Flag |-> {}]]

Bucket(ix, d) == IF d \in DOMAIN ix.domains THEN ix.domains[d] ELSE {}

\* A faulty insert, which only ever adds memberships.
IndexInsertOnly(ix, c) ==
  LET d == IndexDomain(c.key)
  IN [domains |-> With(ix.domains, d, Bucket(ix, d) \cup {c.key}),
      member  |-> [f \in Flag |-> IF f \in c.flags
                                  THEN ix.member[f] \cup {c.key}
                                  ELSE ix.member[f]]]

IndexInsert(ix, c) ==
  LET d == IndexDomain(c.key)
  IN [domains |-> With(ix.domains, d, Bucket(ix, d) \cup {c.key}),
      member  |-> [f \in Flag |-> IF f \in c.flags
                                  THEN ix.member[f] \cup {c.key}
                                  ELSE ix.member[f] \ {c.key}]]

IndexRemove(ix, k) ==
  LET d    == IndexDomain(k)
      rest == Bucket(ix, d) \ {k}
  IN [domains |-> IF rest = {} THEN Without(ix.domains, d)
                  ELSE With(ix.domains, d, rest),
      member  |-> [f \in Flag |-> ix.member[f] \ {k}]]

IndexBuild(list) == FoldLeft(IndexInsert, EmptyIndex, list)

\* matching_host drops the empty labels of the host and looks up what is left,
\* joined again, from each label on.
IndexMatching(ix, host) ==
  LET labels == WithoutEmpty(LabelsFromEnd(normalize_domain(host)))
  IN UNION {ix.domains[d] :
              d \in {e \in DOMAIN ix.domains : IsPrefix(LabelsFromEnd(e), labels)}}

(***************************************************************************)
(* domain_index.cpp: the nodes by their path, with the keys of each, and   *)
(* the two counters.                                                       *)
(***************************************************************************)
EmptyTrie == [keys |-> With(<<>>, <<>>, {}), domain_count |-> 0, key_count |-> 0]

Labels(k) == reversed_domain_labels(DomainOf[k])

\* walk_or_create, then the insertion into exact_keys.
TrieInsert(t, c) ==
  LET p     == Labels(c.key)
      nodes == [q \in DOMAIN t.keys \cup PathTo(p) |->
                  IF q \in DOMAIN t.keys THEN t.keys[q] ELSE {}]
  IN IF c.key \in nodes[p] THEN [t EXCEPT !.keys = nodes]
     ELSE [keys         |-> [nodes EXCEPT ![p] = @ \cup {c.key}],
           domain_count |-> t.domain_count + (IF nodes[p] = {} THEN 1 ELSE 0),
           key_count    |-> t.key_count + 1]

\* Faulty forms of prune: it stops after the leaf, and it goes on through
\* nodes that have keys.
PruneLeaf(keys, p) ==
  LET leaf == {q \in {p} \ {<<>>} :
                 /\ keys[q] = {}
                 /\ \A r \in DOMAIN keys : IsPrefix(q, r) => r = q}
  IN [q \in DOMAIN keys \ leaf |-> keys[q]]

PruneThrough(keys, p) ==
  LET dead == {q \in PathTo(p) \ {<<>>} :
                 \A r \in DOMAIN keys : IsPrefix(q, r) => r \in PathTo(p)}
  IN [q \in DOMAIN keys \ dead |-> keys[q]]

\* prune goes down the path and erases on the way up every child that has no
\* keys and no children left: a node whose subtree is part of the path and
\* has no keys.
Prune(keys, p) ==
  LET dead == {q \in PathTo(p) \ {<<>>} :
                 \A r \in DOMAIN keys :
                   IsPrefix(q, r) => r \in PathTo(p) /\ keys[r] = {}}
  IN [q \in DOMAIN keys \ dead |-> keys[q]]

\* A faulty erase, which counts every erased key as the last of its domain.
TrieEraseCounting(t, k) ==
  LET p == Labels(k)
  IN IF p \notin DOMAIN t.keys \/ k \notin t.keys[p] THEN t
     ELSE [keys         |-> Prune([t.keys EXCEPT ![p] = @ \ {k}], p),
           domain_count |-> t.domain_count - 1,
           key_count    |-> t.key_count - 1]

TrieErase(t, k) ==
  LET p    == Labels(k)
      rest == t.keys[p] \ {k}
  IN IF p \notin DOMAIN t.keys \/ k \notin t.keys[p] THEN t
     ELSE [keys         |-> Prune([t.keys EXCEPT ![p] = rest], p),
           domain_count |-> t.domain_count - (IF rest = {} THEN 1 ELSE 0),
           key_count    |-> t.key_count - 1]

TrieRebuild(list) == FoldLeft(TrieInsert, EmptyTrie, list)

\* matching walks down from the root while there is a child.
TrieMatching(t, host) ==
  UNION {t.keys[q] : q \in {r \in PathTo(reversed_domain_labels(host)) \ {<<>>} :
                              PathTo(r) \subseteq DOMAIN t.keys}}

\* A faulty domain_matches, which takes any suffix for a parent domain.
domain_matches_suffix(domain, hostname) ==
  LET cookie_domain == normalized_domain(domain)
      host          == normalized_domain(hostname)
      from          == Len(host) - Len(cookie_domain)
  IN from >= 0 /\ \A i \in 1..Len(cookie_domain) : host[from + i] = cookie_domain[i]

\* Cookie::domain_matches, by which the native store scans for a host.
domain_matches(domain, hostname) ==
  LET cookie_domain == normalized_domain(domain)
      host          == normalized_domain(hostname)
      from          == Len(host) - Len(cookie_domain)
  IN \/ cookie_domain = host
     \/ /\ from > 0
        /\ \A i \in 1..Len(cookie_domain) : host[from + i] = cookie_domain[i]
        /\ host[from] = Dot

(***************************************************************************)
(* The calls.                                                              *)
(***************************************************************************)
IndexInit == stored = <<>> /\ index = EmptyIndex /\ trie = EmptyTrie

Put(s, c) == With(s, c.key, c.flags)

InsertKey(c) ==
  /\ stored' = Put(stored, c)
  /\ index' = IndexInsert(index, c)
  /\ trie' = TrieInsert(trie, c)

\* The cookie need not be in the index.
EraseKey(k) ==
  /\ stored' = Without(stored, k)
  /\ index' = IndexRemove(index, k)
  /\ trie' = TrieErase(trie, k)

\* replace(before, after); the trie is told in two calls.
Replace(k, c) ==
  /\ stored' = Put(Without(stored, k), c)
  /\ index' = IndexInsert(IndexRemove(index, k), c)
  /\ trie' = TrieInsert(TrieErase(trie, k), c)

\* build and rebuild: the last of several cookies with one key counts.
Rebuild(list) ==
  /\ stored' = FoldLeft(Put, <<>>, list)
  /\ index' = IndexBuild(list)
  /\ trie' = TrieRebuild(list)

IndexNext ==
  \/ \E c \in Entry : InsertKey(c) \/ \E k \in CookieKey : Replace(k, c)
  \/ \E k \in CookieKey : EraseKey(k)
  \/ \E list \in List : Rebuild(list)

IndexSpec == IndexInit /\ [][IndexNext]_index_vars

(***************************************************************************)
(* Properties.                                                             *)
(***************************************************************************)
\* However it was reached, the Rust index is the one that would be built from
\* the cookies now stored: validate_against finds no issue.
IndexValid ==
  LET Stored(k) == [key |-> k, flags |-> stored[k]]
      keys      == SetToSeq(DOMAIN stored)
  IN index = IndexBuild([i \in DOMAIN keys |-> Stored(keys[i])])

\* Both normalizations read a text alike, ...
ReadAlike(text) == normalize_domain(text) = normalized_domain(text)

\* ... and it has no empty label.
PlainDomain(text) ==
  /\ ReadAlike(text)
  /\ LET labels == reversed_domain_labels(text)
     IN \A i \in DOMAIN labels : labels[i] # <<>>

\* Pruning leaves no dead branch in the trie and cuts no living one off: its
\* nodes are the root and the ways to the domains that have cookies.  Its
\* counters, which are never recounted, agree with that and, unless a domain is
\* read in two ways, with what the Rust index counts when it is asked.
TrieExact ==
  /\ DOMAIN trie.keys = {<<>>} \cup UNION {PathTo(Labels(k)) : k \in DOMAIN stored}
  /\ trie.key_count = Cardinality(DOMAIN stored)
  /\ trie.domain_count = Cardinality({Labels(k) : k \in DOMAIN stored})
  /\ (\A k \in DOMAIN stored : ReadAlike(DomainOf[k]))
       => trie.domain_count = Cardinality(DOMAIN index.domains)

\* For every host the walk through the trie finds exactly the cookies that a
\* scan with domain_matches finds, however host and domains are spelled.  Of
\* the cookies with plain domains the Rust index finds those too when the host
\* is read alike, and no others when it is plain as well.  (It also finds them
\* for a host with two dots in a row, which the native layer does not.)
MatchingAgrees ==
  \A h \in HostName :
    LET plain == {k \in DOMAIN stored : PlainDomain(DomainOf[k])}
        found == TrieMatching(trie, h)
    IN /\ found = {k \in DOMAIN stored : domain_matches(DomainOf[k], h)}
       /\ ReadAlike(h) => found \cap plain \subseteq IndexMatching(index, h)
       /\ PlainDomain(h) => IndexMatching(index, h) \cap plain = found \cap plain
=============================================================================
