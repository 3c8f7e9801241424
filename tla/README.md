# Luck Editor in TLA+

Luck is an editor for browser cookies made of four programs that share one
idea of what a cookie is: a Rust core (`rust/crates/luck-core`) with a command
line, an FFI and a WebAssembly front; a C and C++ layer (`native/`); a browser
extension (`extension/`); and a page that works without a server, the Web Lab
(`web/`). This directory models the parts of them that keep state or decide
what a cookie becomes, checks the models with TLC and proves with TLAPS, for every
value of the constants, nearly every safety property that TLC checks on small
instances. Paths below are relative to the repository.

## 1. The system

### 1.1 Parts, state, operations

| Part | State | Operations | What makes it correct |
|---|---|---|---|
| **luck-core store** `store.rs` | revision (u64, saturating), cookies by key, bounded history of diffs; transactions are values of their own (base revision, base map, working vector) | begin, clone, insert, remove, retain, clear, replace_collection, abort, commit; apply_external_diff, restore, rollback_last | no commit over contents it has not seen; the history is an unbroken chain; the last commit can be undone exactly |
| **luck-core diffs** `diff.rs` | none | diff_collections, invert, apply_diff with three strategies | applying a difference gives the other side; inverting undoes; what `Reject` lets through can be undone if the diff is regular |
| **native store** `store.cpp` | cookies with the version that stored each, version counter, a shared mutex; transactions queue operations | upsert, erase, erase_if, clear, get, construct, queue, commit, rollback, destructor | the same optimistic promise between threads, also when a call throws; a version never names two cookies |
| **domain indexes** `domain_index.rs`, `domain_index.cpp` | maps and membership sets; a trie with counters | insert, remove, replace, build, matching | always what a rebuild would give; both answer alike where they read a domain alike |
| **canonicalization** `canonical.rs` | none | canonicalize, canonicalize_collection | its results satisfy the validator, have unique keys and are fixed points |
| **popup** `popup.ts` | list, selection, search, scope, busy flag and remembered button states | refresh, change of scope, add, edit, delete, import, select, search | the buttons come back; the selection is of what is listed; the latest list is shown |
| **session storage** `logger.ts`, `snapshots/repository.ts` | two bounded lists in `chrome.storage.session` | record, create, remove, clear | nothing twice, nothing revived, nothing lost |
| **settings, service worker** `settings.ts`, `service-worker.ts` | a record in `chrome.storage.local`, the badges | load, save, badge refresh on three kinds of event | the badge tells of the page it is shown for; settings do not undo one another |
| **cookie service and repository** `cookies/` | the browser's cookies (external) | list, save, remove, removeMany, import | a partial failure is reported and leaves no surprise |
| **Web Lab workspace** `web/js/store.js`, `app.js` | cookies, selection, filter; undo and redo lists | parse, canonicalize, edit, remove, clear, import, undo, redo, select, filter | undo and redo lose nothing; the history is bounded; selections name what exists as long as clones keep their keys |
| **queries, policy, statistics, validation** | none | evaluation of filters, rules and issues over a collection | agreement between the Rust and the C++ implementation |
| **archives** `binary.rs`, `archive.cpp` | none | encode, decode with limits | decode inverts encode; a limit or a damaged byte is an error |
| **audit log** `audit.rs`, **native snapshots** `snapshot.cpp` | bounded lists with counters | record, query, create, find, compare | ids are never reused, bounds hold |
| **C buffers and collections** `native/c` | grown arrays, counters in `size_t` | reserve, append, push, find | no wrap at the limit, nothing lost when an allocation fails |
| **parsers, serializers, redaction** | none | one per format | a parsed collection is within the limits |

### 1.2 How the parts meet

* The command line, the FFI and the WebAssembly front call `luck-core` in one
  thread. A `CookieTransaction` holds no reference to its store, so any number
  of them, clones included, live beside the store and are committed in any
  order.
* The native store is the one shared object with a lock. A `Transaction` takes
  it only when it is constructed (through `version()`) and when it commits.
* The popup, the options page and the service worker are three contexts that
  share nothing but `chrome.storage` and the browser's cookies. Inside one
  context every handler runs undisturbed up to its next `await`; handlers are
  started by events and not awaited by one another.
* The popup is destroyed when it loses the focus, together with what its
  handlers were awaiting. The session storage outlives it; it ends with the
  browser.
* The Web Lab runs synchronously; its store calls subscribers after every
  change. File reading is its one asynchronous step.

### 1.3 What is hard to test here

The list with lines is in `PROJECT.json` under `hazards`. The main kinds:
read-await-write updates of a shared list; overlapping refreshes of the popup;
optimistic commits in any order, at the saturation of the revision, with
trimmed history and with `NaN` among the data; exceptions in the middle of a
native commit; pruning and counters of a trie; undo and redo with rename, filter and
selection; the order of the stages of the engine, each of which asks for the time
by itself; lengths that wrap or overlap in files and arrays; forms and badges
that are written from what was true earlier.

## 2. The modules

| Module | Models | Composed of |
|---|---|---|
| `OptimisticStore` | abstract: what both stores promise, without revision numbers | |
| `CookieDiff` | `diff.rs`: diffs, inversion, application; equality and key of `model.rs` | |
| `CookieStore` | `store.rs`: store and transactions | extends `CookieDiff`; implements `OptimisticStore` |
| `NativeStore` | `store.cpp` | implements `OptimisticStore` |
| `DomainIndexes` | both domain indexes, driven by the same calls | |
| `CookieModel` | `model.rs` as the engine's stages see a cookie | |
| `Canonical` | `canonical.rs` | extends `CookieModel` |
| `Validation`, `Policies` | `validation.rs`, `policy.rs` | extend `CookieModel` |
| `Statistics`, `Queries` | `statistics.rs`, `query.rs` | extend `CookieModel` |
| `Engine` | `engine.rs`, `parse/mod.rs`, the commands of `main.rs` | extends the four above |
| `Archives` | `binary.rs`, and a file that is damaged or forged | |
| `BoundedLogs` | `audit.rs` and `snapshot.cpp` | |
| `NativeArrays` | `buffer.c`, `cookie.c`: the two growing arrays | |
| `SessionStorage` | `logger.ts`, `snapshots/repository.ts` and the pages that call them | |
| `PopupSession` | `popup.ts` with the queries of `cookies/repository.ts` | |
| `CookieEdits` | `cookies/service.ts` and `cookies/repository.ts` over the browser's cookies | |
| `ExtensionPages` | `settings.ts` with its two forms, `service-worker.ts` | |
| `LabStore` | `store.js` and the operations of `app.js` on it | |
| `CoreProofs` | theorems about `CookieDiff`, `CookieStore`, `BoundedLogs`, `DomainIndexes`, `Archives` | extends them |
| `EngineProofs` | theorems about `Engine` and what it is made of: `Canonical`, `Validation`, `Policies`, `Queries` | extends `Engine` |
| `NativeProofs` | theorems about `NativeStore`, `NativeArrays` | extends them |
| `SessionStorageProofs`, `PopupSessionProofs`, `LabStoreProofs` | theorems about one module each | extend it |
| `ExtensionProofs` | theorems about `CookieEdits`, `ExtensionPages` | extends them |
| `NumberFacts` | lemmas about natural numbers, words and least counterexamples | |
| `MC...` | the constants of the runs; `MCEngine` and `MCParts` also say which inputs a run starts from | |

A definition whose comment calls it *faulty* is no part of a model: it is the
form the definition after it would have with a plausible mistake, and the list
`mutants` in `PROJECT.json` says which property rejects it.

### 2.1 From the code to the models

**CookieDiff.** A cookie is a value of the fields a diff compares together with
the spelling of its store id, because `changed_fields` ignores the store id
while equality does not (`diff.rs:234`), and keys take a missing and a blank store id for
one. `NaN` is the set of field values that differ from themselves. A diff is what
its public vectors may hold (`diff.rs:19-32`): several entries of one key, and
modifications whose two cookies have other keys than the one they name. The
vectors are grouped by key; as every entry looks at one slot of the map and changes
no other, `apply_diff` comes down to the sequence of `Changes` of each slot. A slot may then
hold a cookie of another key, and the store, which collects the report by the cookies' own
keys, keeps one of each (`Collected`).

**CookieStore.** One action per method of the store and of a transaction.
`begin` and the clone of a transaction copy; `commit` consumes the transaction
whether refused or not, hence `Commit` and `RefuseCommit` both close it. The
working vector may name a key several times (`replace_collection` does not
look); `insert` and `remove` then touch the first cookie while collecting into
a map keeps the last, and the model keeps both. `apply_external_diff`,
`restore` and `rollback_last` commit a transaction that no one else sees, so
they are one action. The variable `replaced` is not in the code: it remembers
what each recorded commit replaced, so that properties can speak of it.

**NativeStore.** One action per call that holds the lock. A commit
applies its queue with one version for every operation that changes something.
`UpsertThrows`, `EraseIfThrows` and `CommitThrows` are the same calls ended by
an exception: a version may be spent for nothing, a prefix of the queue may
stay applied. The variable `torn` is not in the code: it says whether a caller's
predicate has thrown after some cookies were erased. `seen` is one cookie that a `get`
returned, with its version and key, which someone remembers until the end.

**CookieModel, Canonical, Validation, Policies, Statistics, Queries.** A cookie
is kept as far as these modules look at it: a domain is a sequence of dots,
blanks and letters of either case, a path the segments `split('/')` yields, a
name its prefix and an identity, a value its length, a date a small number or
`NaN`. The result of a validation is the set of its issues, of a policy the set
of the violated rules, so that two results can be compared. A query is a
sequence of lexemes; `ParseOr`, `ParseAnd` and `ParseUnary` are the three functions
of the code that call each other, and `Read` is the function of a call (which of
them, from which place) that they make up. An expression names its operands by
the calls that returned them, where the code holds boxes; `matches` evaluates it over
those. `Says` is not in the code: the grammar, by which `ParsedAsGrouped` judges.

**Engine.** One action per stage, in the order of `inspect` and `run_pipeline`;
a job is one call with its records and options. Wherever the code reads the
clock the stage takes any moment of `Clock`, separately for each reading. The
commands `convert`, `validate`, `query` and `audit` use the same stages in
their own order, and `status` is their exit status.

**Archives.** A file is a sequence of bytes and every integer takes one of them,
so `Write` fails where a count or a length has no room in its bytes. The checksum
keeps its form (xor, then times an odd factor) over `HashBits` bits; `xor` is a
recursive function over the bits, so that it can be reasoned about. Every
operation of `Reader` is a function from what is left of the payload to a value
and the rest (`Number`, `String`, `Tag`), an error is `Failed`, which every later
operation hands on, and the two loops (`Entries`, `Cookies`) are functions from
the number of the round. Metadata is written in one order for each set of keys,
which is all that matters about a `BTreeMap`. After `Write` the file is read as it is,
grown, cut, hit by a single damaged byte, or forged: a few of its bytes
changed and the checksum made right again, which is what another program may
have written.

**BoundedLogs.** A log is its counter and its ids, newest first. `CreateFails`
spends an id for nothing, as a fingerprint that throws does. `recorded` and
`created` are not in the code: they remember all that was ever returned.

**NativeArrays.** Sizes are words of `Width` bits and every sum and product is
wrapped to them before it is used; the loop that doubles a capacity is the least
power that is enough. `realloc` may fail at any time.

**SessionStorage.** Every update is `Add` or `RemoveSnapshot`, then `Read`, then `Write`, with
anything in between; `Fail` is a rejected request. `ClosePopup` and
`EndSession` end what is in flight. `Without` is the filter that removes a snapshot,
element by element. The variable `expected` is not in the code: the lists
as atomic updates would have left them, and whether any update was overtaken.

**PopupSession.** A handler's state is where it awaits. `Refresh` and
`EndRefresh` are the two halves of `refresh()` with `setBusy` in them;
`NextQuery` is the second of the two queries `listForContext` makes for a page.
Permissions and mutations are what precedes a refresh: how the browser's cookies change
does not matter here, since a query may find any subset of what it ranges over.

**CookieEdits.** A handler's state is the request it awaits and how far its loop
has come; one action per answer of the browser, and one for the record of an import that
is outside the host. Cookies are keyed by name, domain and path. A handler works
on records of them, as the popup listed them some time ago or a file has them, and
`get` and `remove` name a URL and a name made from the record
(`repository.ts:31-38`); the URL has the scheme of the record's secure flag and the
record's path (`url.ts:18-24`). `Reach[r]` are the cookies, Secure or not, that the
request made from `r` may meet. It may meet several, and which of them goes is left
open; it may miss the cookie the record tells of, such as one that a page has made Secure since.
Nothing is assumed of `Reach`. `Job` holds the arguments a handler is started
with; `InScope` stands for `requireValidCookie` and `isDomainWithinHost`. The variable
`since` is not in the code: the cookies when the handler started and what
others changed after that.

**ExtensionPages.** A page's form is the record it read and what its user
toggled; saving writes the whole form. `version`, part of the state for the
property only, counts the writes. The service worker runs one update per event,
each asking for the tab, then for its cookies, then setting text and title one
after the other. `shown` is what `tabs.get` tells of a tab: its site, or
`Unsupported` for other pages and where the URL is withheld because the extension has no
permission (`!tab.url`, `service-worker.ts:44`); `PermissionChanges` gives and takes
it without an event. `active` is the active tab of the window that has the focus,
`behind` those of the other windows; `Focus` changes the current window, again without an
event, and `Activated` is a tab that becomes the active one of its window in front or
behind. The variable `doubtful` is not in the code: the tabs of which two updates ran at
once, or that changed in one of these silent ways since their last update began.

**LabStore.** The list is a function from rows to cookies. Every copy is a clone
(`store.js:17,41,46,56,148,163,170`), and a clone is normalized again
(`createCookie`, `model.js:3-43`), which is not the identity: a domain loses one
trailing dot each time, an expiration still beyond 10^12 is divided once more. `CloneOf` is
an arbitrary function in that role; the module only assumes that the key of a clone
depends on nothing but the key. `Visible` holds the keys of the clones that
are shown, `Removed` and `Without` compare the keys of what is listed. `Edit` is
`#checkpoint`, which records a clone of the list, followed by the change; `Undo` and
`Redo` clone what they record and what they restore. Saving the editor under another
key is a removal and an addition, two checkpoints, in one action because nothing
runs between them.

**DomainIndexes.** The Rust index is a map from domains to sets of keys and a
set of keys for every flag; the trie is the set of its nodes by path. `Prune`
states which nodes the recursion erases: those whose whole subtree lies on the path
and has no keys. Domains and hosts are texts of dots, blanks and letters, any of
them: `LuckEngine` indexes cookies it has not validated (`engine.rs:103`), and
a host is whatever the caller asks for. Both normalizations are kept apart:
`normalize_domain` trims blanks and then dots, `normalized_domain` of the native
layer trims both as they come; and so are the two ways to look a host up:
`matching_host` drops the empty labels, the walk through the trie stops at them.
`domain_matches` is the native scan that the trie is to agree with.

## 3. The runs

| Run | Question | Bounds | Distinct states |
|---|---|---|---|
| `store_txns` | do interleaved transactions, external diffs, restores and rollbacks keep the chain and the optimistic promise? | 2 transactions, 2 keys with 1 value each, a diff that moves a cookie to another key, revisions up to 3, history of 2 | @store_txns |
| `store_data` | is a rollback exact and accepted, has a diff that `Reject` lets through an inverse, with repeated keys, `NaN`, spellings of the store id and a saturated revision? | 1 transaction, 1 key, diffs with up to two entries of a kind, revisions up to 2, history of 1 | @store_data |
| `native_store` | are versions never reused, whatever throws, and does the store keep the optimistic promise? | 2 threads, 2 keys, 2 cookies, one cookie remembered, queue of 2, 3 versions | @native_store |
| `storage_races` | what can overlapping updates and clears do at worst? | 2 updates in flight, lists of 2, 4 ids | 506 k |
| `storage_cleared` | does a cleared log stay cleared? (it does not) | the same, 3 ids | |
| `lab_history` | do undo, redo, rename, filter, selection and cloning fit together? | 2 rows, 5 cookies with a key each, of which three lose a dot with a clone, 2 filters, history of 2 | @lab_history |
| `lab_canonical` | does canonicalizing deduplicate? (it does not) | 2 rows, 2 cookies that cloning leaves alone | |
| `popup_refresh` | do overlapping handlers leave the popup usable and right? | 3 handlers in flight, 4 started, 2 cookies, 2 searches | 269 k |
| `cookie_edits` | what do partial failures, pages and a closing popup leave of an edit, an import, a deletion? | 2 handlers, 3 keys (two share a name on nested paths, one is out of scope), 2 values, Secure or not, 1 change by a page | @cookie_edits |
| `indexes_agree` | do the indexes stay exact and agree? | 7 keys: a domain spelled twice, one below it, one beside, the empty one, one read in two ways, one with an empty label; 14 hosts; 1 flag | @indexes_agree |
| `engine` | do the stages of the pipeline and the commands keep what the earlier ones promised? | every domain of up to 4 characters, every path of up to 3 segments and 4 below a root, pairs of cookies that become alike, dates around the clock, all flags, query texts of up to 7 lexemes; a clock of 2 moments | 704 k |
| `parts` | are files read or refused, do logs keep the newest, do arrays stay in memory, do pages keep choices, is the badge right? | files of up to 29 bytes in the space of 32; ids up to 6; words of 6 bits; 2 pages with 2 writes; 2 tabs in 1 or 2 windows, 1 site with up to 1 cookie, 3 updates and 1 failure | @parts |

Why the bounds are enough. Staleness needs a transaction and one other
writer; two transactions and the store's own operations give two. A history of
2 with revisions up to 3 trims, and lets a rollback follow a rollback. In
`store_data` the counter saturates at the second commit and the history holds
one record, so trimming happens at every commit. Two operations in a queue are
the least that has a prefix; three versions fit an upsert that is seen, an
erase and another upsert of the same key, and two cookies are the least that let the
second upsert store another one, which is the ABA case. Nothing reads what a
finished transaction holds, so it is not part of the view of `native_store`. The diffs
of `store_data` remove, modify and add one key in every combination, and modify it
twice; those of `store_txns` change a cookie's key. Two updates of one list overlap in every way that two
halves can; lists of 2 reach their limit with 4 ids. A popup needs a refresh of
either kind and a third handler that ends in one. An edit makes two
requests and an import two for each cookie; a second handler and one change by a page come
between them in every order. The cookies become Secure or cease to be, and the records
ask for either, so that requests over `http:` miss. The trie has a domain below
another, one two labels down beside it, one shared by two keys and the empty one:
each branch of `prune`; the hosts have dots and blanks at either end, two dots in a row,
a blank that only one of the layers trims, and a label that ends in the domain without
lying below it. In `lab_history` a domain starts with three dots too many, the least that
leave one after a parse and a checkpoint; two rows hold a duplicate; and a history of 2
overflows and holds both checkpoints of a rename. In the page it is 50.

The inputs of `engine` are families, each of which varies one part of a job and
holds the others still, since the stages look at the parts one by one: what they
share is the cookie, and the pairs of `OfAlike` and `OfDate` carry that. Paths
pass the limit of 2 segments and go on with `..`; three cookies pass the limit
of 2. Two moments are the least that a clock can move between. Seven lexemes hold
two operators of either kind and a pair of parentheses.

In `parts` an archive of two cookies has every kind of byte twice, and any byte
of it may be damaged to any other one of 32 or, twice, be forged. Words of 6 bits hold 21
items of 3 bytes, so the doubling of the capacity meets the end of the word
after five pushes that grow. Six ids overflow lists of 1 and 2 several times and
saturate. Three updates of two tabs hold any overlap of two and one that runs
alone, and between them permissions, windows and cookies change. Of an update that
ended nothing is read, nor by which number an update goes, so the view leaves both out. The
five machines share no state; `part` picks one for the whole
behaviour, so that together they cost one run.

Transactions, threads, handlers and updates in flight are only told apart by their name,
so they (and the keys and cookies of the native store, the rows of the lab and the tabs)
are symmetric sets.

Deadlock is checked except in four runs: `native_store`, where a behaviour may
end at the bound of the version; `cookie_edits`, where handlers and changes of
pages are bounded; `engine`, where a job ends; and `parts`, where ids, writes
and updates are bounded.

### 3.1 Properties

*Stores.* `HistoryChain`: the kept records form an unbroken chain ending at
the store's revision. `RevisionNamesContents`: until the counter saturates,
equal revisions mean equal contents, in the store, in open transactions and in the
history; so nothing is overwritten unseen. `RollbackNeverRefused`,
`RollbackRestores`: the last commit, of whatever kind, can be undone and the undo is exact in
the fields a diff compares. `RejectIsReversible`: a regular diff (no
key modified twice, no cookie modified into one of another key) that `Reject` lets
through has an exact inverse; others may have none. `VersionsDistinct`, `VersionIdentifiesCookie`:
in the native store a version names one cookie for as long as anyone remembers it. `ImplementsOptimisticStore`:
both stores refine `OptimisticStore`.

*Engine.* `PrefixRulesHold` and `PathsResolved` say what canonicalization
achieves, against the rules of the validator and a reading of dot segments that
does not walk the path; `Idempotent` that a second one finds nothing to do.
`AcceptedStaysValid`: what passed the validation before canonicalization passes
the one after it, at another time. `RemovalsExplained`: what the pipeline takes
out is expired or denied in its own report, and nothing else is missing.
`DeniedDomainsStayOut`: no spelling of a denied domain gets through; suffixes that end
in a dot are left out, since `policy.rs` denies nothing by them.
`AuditForetells`: what the audit command allows, the pipeline allows.
`ParsedAsGrouped`: a query means what its grammar says, read top down from the
whole text, and every other text is refused (of inputs that are within the
maximum and so reach the query).

*Parts.* `ReadOrRefused`, `AcceptedIsOwn`: an archive is read back as it was or
refused, and only what `encode_binary` could have written is accepted.
`LogsKeepNewest`: ids are not reused, and the newest entries are the ones kept.
`GrowthNeverWraps`: an array never uses what it did not ask for.
`LostChoiceNeedsStaleForm`: a page changes a setting that nobody chose only from
a form that was overtaken. `WrongBadgeExplained`: when all is quiet, a
wrong badge of the active tab had two updates at once, a failure, or a silent change
of a permission or of the window since its last update.

*Session storage.* `EntriesDistinct`, `ForgottenForGood` and
`LossNeedsOverlap` bound the damage of the races: an entry is never doubled,
one that nobody holds never returns, and without an overlap the lists are those
of atomic updates. With one an event may get lost; no property says otherwise.

*Popup.* `ButtonsComeBack`, `SelectionListed`, `LatestListShown`, and the
liveness property `Settles`.

*Edits.* `EditLosesNothing`: a renamed or moved cookie is there, old or new,
at every moment, unless the old one's URL meets the new one; and after a recorded
success the old one is gone, if its URL still meets it. `ImportKeeps`: an import that is not
to overwrite changes no cookie that its requests can meet. `NoFailureMeansGone`: a bulk
deletion without failures has deleted, even what its URLs miss, since a miss
counts as a failure. Each leaves out the keys that somebody else
changed in the meantime, the import's race with a page included.

*Lab.* `TimelineBounded`; `UndoRedoKeepTimeline` and `NothingIsLost`, up to the clones
that the code makes; `SelectionPresent`, as long as cloning keeps the keys of the lists.

*Indexes.* `IndexValid`, `TrieExact` (keys, pruning and both counters are what a
rebuild would give) and `MatchingAgrees`: for any host and any domains the trie finds what a
scan with `domain_matches` finds; of domains that are plain (read alike by both
layers, without an empty label) the Rust index finds all those for a host that is read
alike, and no others if the host is plain too.

Types are not checked by the runs: where a proof needs them they are a conjunct
of its invariant.

### 3.2 Fairness

Only `PopupSession` states fairness: `WF_vars(Await(c))` for every handler in
flight. An awaited promise of the browser settles, by a result or a rejection,
and the event loop then runs the continuation. `chrome.permissions.request` settles only
when the user has answered its dialog (or closed the popup and with it the
handler); `Settles` assumes nothing about what the answer is, only that there is one. Nothing
makes the user click, and `MaxClicks` says that at some
point no more handlers are started. The browser answers queries in the order they were asked: the
requests of one page go through one queue of the extension API. `LatestListShown` depends on it,
the other properties of the popup do not mention the order.

### 3.3 Where code and words part

* `storage_cleared`: `recordAudit` writes back events that were cleared
  between its read and its write, after "Audit log cleared."
  (`extension/src/options/options.ts:194`) was shown.
* `lab_canonical`: `canonicalizeAll` hands duplicates to a store that keeps
  them, and reports "All cookies were canonicalized and deduplicated."
  (`web/js/app.js:192`).

Smaller observations that the modules state in their properties or constants:

* Once a predicate has thrown in `erase_if`, the native store does not keep the
  optimistic promise: cookies are gone without a new version, and a transaction
  from before can still commit. The refinement calls the store exhausted from
  then on (`torn`).
* A rollback of the Rust store is exact in the compared fields only; a change
  of the spelling of a store id is no modification to a diff.
* A domain like `". a"` needs two passes to become canonical, and a path
  longer than the limit is cut before a `..` that follows (`Idempotent`,
  `walk.cut`). `canonicalize` sets `host_only` without reporting a change.
* `parse_cookies` validates before it canonicalizes. The parsers of `Set-Cookie`
  lines, headers, plain lines and JSON maps never set `host_only`, so `__Host-`
  cookies from them are always rejected.
* `luck validate --keep-invalid` succeeds on cookies that are invalid: their
  errors are not among the warnings it prints. `luck audit` judges cookies as
  they were parsed, so a dot at the end of a domain hides it from rules that the
  pipeline enforces. A query that cannot be parsed fails the pipeline only after all
  other stages have run.
* Comparing by expiration in a sorted query is not a total order when a date is
  `NaN`. The C++ query parser (not modelled) takes quoted keywords for keywords,
  has no `expired` field, throws on blank text and does not sort or page. The
  C++ archive shares the magic number of the Rust one but has no metadata
  section and another layout of the flags.
* Moving a cookie from `/sub` to `/` sets the new one and then removes the
  previous one by URL and name, which the new one answers to as well; the
  removal may take it (`new \notin Reach[previous]` in `EditLosesNothing`).
* A request follows the scheme of the record's secure flag (`url.ts:21`). An edit
  whose previous cookie has become Secure misses it over `http:`; the answer is ignored
  (`service.ts:24`) and the edit is recorded as a success with both cookies there. An
  import without `Force Secure` does not find a Secure cookie it is not to overwrite
  (`service.ts:74`) and sends `set`; only the browser's own rule against it is left.
* A diff from outside that modifies a key twice, or a cookie into one of another key, passes
  `Reject` without a conflict, and its inverse meets conflicts: `invert` keeps the
  order of the modifications and their keys (`diff.rs:43-58`).
* For the host `a..b` luck-core finds a cookie of `a.b`, the native layer none; a
  domain stored with an empty label is found by no host in luck-core. The two layers trim
  dots and blanks in another order, and `Cookie::domain_matches` of luck-core
  (`model.rs:149-153`) in a third.
* In the Web Lab a pasted record with the domain `x....` is listed as `x.` and shown,
  selected and keyed as `x`: its own `Delete` and `Delete selected` delete nothing, after
  a confirmation that announces a number (`app.js:201`), and an undo leaves the record with
  one dot less.
* The badge says `unsupported page` for a web page whose URL is withheld
  (`service-worker.ts:44`), and stays as it is when a permission comes or goes, or when
  another window gets the focus: no listener hears of either.
* An edit whose removal throws leaves both cookies and no audit entry
  (`Throws`: only the loops count).
* `LatestListShown` needs the exception it states: a refresh with one query can
  overtake one with two, and the older list stays.

## 4. The proofs

What follows holds for every value of the constants that satisfies the
assumptions named at the end, not only for the bounds of the runs. Each theorem
that states a property of a run carries its name in `PROJECT.json`.

### 4.1 luck-core: stores, logs, indexes, archives (`CoreProofs`)

*Differences.* The operators of `diff.rs` stay in their types (`DiffTyping`,
`InvertTyping`, `ApplyTyping`), a difference applied to its own base gives the
other side and its inverse the base, without a conflict (`DiffInverts`), a `NaN`
always conflicts (`NaNConflicts`), and a regular diff that `Reject` lets through can be
undone (`RejectInverts`, by the slots: without a conflict the changes of a slot chain up, and
the inverse goes back along them).

*Store.* All safety properties of `store_txns` and `store_data`. The inductive
invariant `IInv` adds two conjuncts to `TypeOK` and `RevisionNamesContents`:

* `SeenReached`: nothing has been seen of a revision the store has not
  reached. Without it a commit, which makes a new revision, could meet an old
  observation under that number.
* `LastRecordDescribes`: the newest record is the difference between what its
  commit replaced and what the store holds. A commit computes its diff from the
  transaction's base, which `RevisionNamesContents` says is the store's
  contents exactly when the commit is accepted.

`HistoryChain` is inductive with `TypeOK` alone. Rollback and reversibility
then follow from `DiffInverts` and `RejectInverts`. `StoreIsOptimistic` is the
refinement: every step is a step of `OptimisticStore` or a stutter, and only
transactions opened on the present contents may end in a change of them. At
`u64::MAX` the revision stands still and a stale transaction is accepted; the
abstract store is `exhausted` there and promises nothing, and the other theorems
exclude the same case by `LastCommitCounted` and `p[1] < MaxRevision`.

*Logs.* `LogsKeepNewest`, for any limits: both counters are ahead of every id in
use, and the audit log is a beginning of all that was recorded that only lacks
something when it is full.

*Indexes.* The invariant is `IndexesExact`: each index is *equal* to one defined
from the stored cookies alone (`IndexOf`, `TrieOf`). One lemma per operation and
index (`InsertKeepsIndex`, `RemoveKeepsIndex`, `InsertKeepsTrie`,
`EraseKeepsTrie`) says that the index of the map that is left is what the
operation makes; for `erase` this is where pruning has to take away neither too
much nor too little. Both ways of building from a list are folds, and are shown
to give the same (`IndexIsFolded`, `TrieIsFolded`). `IndexValid` and `TrieExact` are
consequences. `MatchingAgrees` is about texts as well: that a text ends in a dot and
another text exactly when the labels of that text, read from the end, are a beginning
of its own, and that dropping empty labels is the identity where there are none.

*Archives.* Both properties, for collections of any size, texts of any length,
any limits and a checksum of any width with any odd factor. The invariant
`FileKnown` says where the bytes of a file come from (`FileWhole`, `FileGrown`,
`FileHarmed`, `FileForged`) and that what was read is `decode_binary` of the file
as it is. The rest is about the operators:

* What was written is read back. For every operation of the reader a lemma
  (`NumberReads`, `StringReads`, ..., `CookieReads`, `PackedReads`) says what it
  makes of what the writer wrote with anything behind it: the value and exactly
  what is behind it, or `Failed` if a limit is exceeded.
* What is read could have been written. The lemmas that mirror them (`NumberTakes`,
  ..., `CookieTakes`, `CookiesTake`) say that what an operation took is within the
  limits and takes as many bytes as it is written in. For metadata, whose order
  in a forged file may be any, the bytes are counted as a set of cells, so that
  the order does not matter (`Area`), and this is where a key that occurs twice has to
  be refused. Equal lengths, and a payload of which nothing is left, give
  `AcceptedIsOwn`.
* Damage is noticed. `ChecksumSees`: a payload in which one byte differs has
  another checksum, since xor with a byte can be taken back (`XorFacts`) and
  so can the multiplication by an odd factor, modulo a power of two
  (`OddFactor`, `TimesFactor`). The checksum does not cover the header. There
  a length that is too large, like a missing end of the file, is more than the
  file holds; one that is too small leaves the last cookies without their end
  (`ShorterIsMissing`); and a wrong count leaves bytes over or finds none
  (`MoreAreMissing`, `ReadsBack`): a longer payload reads as the shorter
  one does up to where that ends.

### 4.2 luck-core: from a record to an answer (`EngineProofs`)

*The clock.* Neither a validation nor a policy changes its mind with the time
(`ValidityIgnoresClock`, `VerdictIgnoresClock`): what is left without the clock
is `Sound` and `Permitted`.

*Canonicalization.* Every field of a result of `canonicalize` is known
(`CanonicalForm`, `Settled`), for strings and paths of any length. From it: the
result obeys the rules of its prefix, is as sound as what went in, is permitted
if that was, and is a fixed point. The last needs blanks excluded, as the property
does. `PathsAreResolved` compares the stack of `normalize_path` with the balance
of names and `..` (`Placed`: the walk's stack holds, in order, the names that
stay).

*Stages.* `EngineSound` says what a command holds at every stage and what its
report says of that: what was parsed is a list of accepted cookies, what is
canonical is a collection with unique keys and fixed points (`Collection`), the
report was made of a collection that the present one is part of (`Reported`,
`Counted`, `Removed`), and nothing denied is left after the filter
(`DeniedAreGone`). One lemma per action keeps it.

*Queries.* `QueriesAreGrouped` proves `ParsedAsGrouped` for texts of any length
and nesting: the recursive descent of `query.rs` and the grammar, which looks for
the operator that splits a span, say the same of every cookie. Parsing is a
function on calls (`Read`) whose values refer to each other; it is well-defined
because each call has a smaller `Height` than its caller (`Lower`), and so are
the meaning of what was parsed and of the spans of a text (`Width`). *Complete*:
a span that says something was read, to its end, by the function of its level
(`Understood`, by width). *Sound*: what was read is balanced, and has the meaning
of its span (`Fits`, by height); what `parse_and` read has no split at an `or`, what
`parse_unary` read none at all, which is why the first `or`, then the first `and`,
that splits a span is the operator that the parser stopped at. `QueryAnswered` carries this through the
stages of the command.

### 4.3 The native layer (`NativeProofs`)

The three properties of `native_store`, for any number of threads, keys and
cookies, any queue and any bound of the version. Every
call only ever *advances* the store: a key loses its cookie, keeps it, or gets one
with a version of its own beyond the old ones (`Advances`), and whatever advances
keeps the invariant (`AdvancesKeeps`). The work is in `CommitAdvances`: the version of
the last operation on a key counts the operations up to it that changed something,
and that count is strictly larger at a later such operation (`CountsGrow`). For the
refinement, `NativeStoreIsOptimistic`, a commit that counts no operation is shown
to change nothing (`UncountedChangesNothing`), and a stale transaction stays
stale because no transaction is ahead of the store (`BaseReached`).

`GrowthNeverWraps` holds for words of any width, any size of an item and any
smallest capacities, from the property itself and the types: a length that is a word,
below a capacity that is one, cannot be the last word.

### 4.4 The extension

`SessionStorageProofs`: however many updates and clears overlap. `IInv` is
`TypeOK`, `ListsSound` (every list that is stored or was read names an id once, an
id that was given out, in its area), `AddedAreNew` (an id being added is in
none of them) and `HeldIsStored` (until one is overtaken, whoever holds a list
holds the stored one). `ForgottenForGood` is an action property: what nobody remembers
stays so in every step.

`PopupSessionProofs`: however many handlers overlap. `ButtonsComeBack` is not inductive
alone: a refresh that starts while another runs remembers the buttons as
disabled, and `RememberedByTwo` says that then two are still under way.
`LatestListShown` needs `RequestsExact` (who waits has asked exactly once) and
`LatestIsLast`: of refreshes with as many queries the latest is answered last, since
the browser answers in order.

`ExtensionProofs`: for `CookieEdits` the invariant says of each kind of handler
what it has already reached, given what nobody else has touched since it started
(`ImportSound`, `DeletionSound`, `SaveSound`: the previous cookie is there until
the new one is), and that steps of others leave it so (`Undisturbed`). `Reach` is any
function from records to sets of records there, so the theorems hold whatever a URL
meets or misses. For
`ExtensionPages`, `SettingsSound` says that a form that was filled from the present
version shows it, but for what its user touched, and a write from it means it, but
for what was chosen; `BadgeSound` that what the one update of a tab knows is true
while the tab is not doubtful and no event announces a change.

### 4.5 The Web Lab (`LabStoreProofs`)

All four properties, for any keys, filters, inputs, rows and maximum, and any cloning
that takes equal keys to equal keys. `redo` pushes without trimming, so neither list is
bounded by itself through a step: the invariant bounds them together.
`NothingIsLost` rests on `CheckpointHolds`: even with the maximum reached, the
capture pushed last is kept, and with two places so is the one before it. For
`SelectionPresent` every operation is shown to select only what it lists, given that the
clones before and after it have the keys of what they are made from; both conditions are
the property's own.

### 4.6 Assumptions, and what is not proved

The proofs assume the named assumptions of the modules, which TLC evaluates in
the runs, and nothing else: `StoreAssumption`, `CookieAssumption`,
`LabAssumption`, `NativeAssumption`, `SlotAssumption`, `LogAssumption`,
`ArrayAssumption`, `SessionAssumption`, `PopupAssumption`, `PagesAssumption`,
`EditAssumption`, `IndexAssumption`, `ModelAssumption`, `CanonicalAssumption`,
`ValidationAssumption`, `PolicyAssumption`, `QueryAssumption`,
`EngineAssumption` and `ArchiveAssumption`. They give the types of the constants and keep apart what the
code keeps apart: the value of an
empty slot is no cookie, no transaction, no handler and no key; a save and a single deletion have
one record; the key of a clone depends on the key alone; the words of a query are no
operators; the factor of the checksum is odd, as
`0x100000001b3` is, and a byte that no UTF-8 text has is in no text.

No proof rests on induction stated for an operator, which the provers cannot
instantiate. Recursive functions and folds are unfolded by exhibiting the function
their definition chooses (`RetainedDefined`, `WithoutDefined`, `ReadExists` and
their like: it exists on every beginning, or there were a shortest one without it), and induction is an argument
from a least counterexample over a set of numbers (`Least`, `Upward`, `Strong` of
`NumberFacts`).

Only model-checked:

* `Settles` of `PopupSession`, which is liveness under fairness.
* The two properties that section 3.3 finds violated.

## 5. What is not modelled, and why

* The grammars of the five formats, serializers and text helpers of every
  layer, and `luck-core`'s sorting and paging of query results:
  functions from text to text or from a list to a list, without state.
  What the rest of the system relies on (records in, duplicates possible, limits
  are errors) is an input condition of the models.
* `luck-ffi`, `luck-wasm`, build scripts: argument and memory passing around
  operations of the core.
* The C++ diffs, queries, policy, statistics and archive: stateless counterparts
  of the Rust modules that are modelled; section 3.3 names the differences met.
* The C text processing, and the strings inside a C cookie.
* The user interface helpers (`dom.ts`, `toast.ts`, highlighting): layout.
* `chrome.*`, the DOM and the C++ runtime are external; they are modelled as
  the code uses them: storage requests are atomic one by one, promises settle.
* Metadata of a commit, timestamps, audit texts: they describe and decide nothing.

## 6. What could follow

1. `Import`: detection, deduplication and limits of `import/index.ts`, whose
   results are the inputs of `CookieEdits`.
2. The native query evaluator beside `Queries`, with one filter semantics that both
   implement where they agree.
3. An abstract list for the session storage (the variable `expected` is its
   beginning).

## 7. Running

    tlc -workers 2 -config MCCookieStore_txns.cfg MCCookieStore.tla
    tlapm CoreProofs.tla
