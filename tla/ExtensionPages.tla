----------------------------- MODULE ExtensionPages -----------------------------
(***************************************************************************)
(* Two things that the pages of the extension share without asking each    *)
(* other: the settings, which the popup and the options page read into a   *)
(* form and write back as one record (extension/src/core/settings.ts,      *)
(* popup/popup.ts, options/options.ts), and the badge of a tab, which the  *)
(* service worker sets after every event                                   *)
(* (extension/src/background/service-worker.ts).                           *)
(*                                                                         *)
(* A page may be opened again at any time; a page writes one record at a   *)
(* time, and a user toggles a box of a form once.  The model stops after   *)
(* MaximumWrites writes and MaximumUpdates updates of a badge, of which    *)
(* MaximumFailures fail.                                                   *)
(***************************************************************************)
EXTENDS Integers, FiniteSets

CONSTANTS Setting, DEFAULT_SETTINGS, Tab, Site, MostCookies,
          MaximumWrites, MaximumUpdates, MaximumFailures,
          Closed, Nothing, Rendering, Unsupported

ASSUME PagesAssumption ==
  /\ DEFAULT_SETTINGS \in [Setting -> BOOLEAN]
  /\ {MostCookies, MaximumWrites, MaximumUpdates, MaximumFailures} \subseteq Nat
  /\ Nothing # Rendering /\ Unsupported \notin Site

Page == {"popup", "options"}

VARIABLES
  stored,     \* the record in chrome.storage.local; <<>> when there is none
  version,    \* not in the code: how often it was written
  form,       \* by page: its checkboxes, those the user touched, and the
              \* version it was filled from; Closed when it is not open
  writing,    \* by page: the write that has not been answered, Rendering when
              \* the form is to be filled after it, or Nothing
  shown,      \* by tab: the site that tabs.get tells of, or Unsupported when the
              \* page is none of the web's or its URL is withheld
  active,     \* the active tab of the window that has the focus
  behind,     \* the active tabs of the other windows
  loading,    \* the tabs that will report status "complete"
  cookies,    \* by site: how many cookies it has
  badge,      \* by tab: the text, and the title
  updates,    \* the updates of badges that have not ended, by their number
  failures,   \* how many of them failed
  doubtful    \* not in the code: the tabs of which two updates ran at once, or
              \* to which something happened that no event tells

setting_vars == <<stored, version, form, writing>>
badge_vars ==
  <<shown, active, behind, loading, cookies, badge, updates, failures, doubtful>>

(***************************************************************************)
(* Settings.                                                               *)
(***************************************************************************)
\* A faulty sanitizeSettings, with || in the place of ??.
SanitizeFalsy(input) ==
  [s \in Setting |-> IF s \in DOMAIN input /\ input[s] THEN TRUE
                     ELSE DEFAULT_SETTINGS[s]]

sanitizeSettings(input) ==
  [s \in Setting |-> IF s \in DOMAIN input THEN input[s] ELSE DEFAULT_SETTINGS[s]]

Filled == [boxes |-> sanitizeSettings(stored), touched |-> {}, read |-> version]

\* loadSettings when the page opens.  A write that its predecessor sent is not
\* called back, and nobody waits for it.
OpenPage(p) ==
  /\ form' = [form EXCEPT ![p] = Filled]
  /\ writing' = [writing EXCEPT ![p] = IF @ \in {Nothing, Rendering} THEN Nothing
                                       ELSE [@ EXCEPT !.then = "gone"]]
  /\ UNCHANGED <<stored, version>>

Toggle(p, s) ==
  /\ form[p] # Closed /\ s \notin form[p].touched
  /\ form' = [form EXCEPT ![p].boxes[s] = ~@, ![p].touched = @ \cup {s}]
  /\ UNCHANGED <<stored, version, writing>>

Start(p, record, chosen, then) ==
  /\ form[p] # Closed /\ writing[p] = Nothing /\ version < MaximumWrites
  /\ writing' = [writing EXCEPT ![p] = [record |-> record, chosen |-> chosen,
                                        read |-> form[p].read, then |-> then]]
  /\ UNCHANGED <<stored, version, form>>

\* persistSettings: the form is read at once.
Save(p) == Start(p, sanitizeSettings(form[p].boxes), form[p].touched, "keep")

\* resetSettings and clearLocalSettings; both show what is stored afterwards.
Reset == Start("options", sanitizeSettings(DEFAULT_SETTINGS), Setting, "render")
Clear == Start("options", <<>>, Setting, "render")

\* The record is written.  A form that was saved shows what is stored, apart
\* from what was touched; after the other two it is filled again.
Land(p) ==
  /\ writing[p] \notin {Nothing, Rendering}
  /\ stored' = writing[p].record
  /\ version' = version + 1
  /\ writing' = [writing EXCEPT ![p] = IF @.then = "render" THEN Rendering ELSE Nothing]
  /\ form' = IF writing[p].then = "keep" THEN [form EXCEPT ![p].read = version + 1]
             ELSE form

Render(p) ==
  /\ writing[p] = Rendering
  /\ form' = [form EXCEPT ![p] = Filled]
  /\ writing' = [writing EXCEPT ![p] = Nothing]
  /\ UNCHANGED <<stored, version>>

SettingsInit ==
  /\ stored \in UNION {[some -> BOOLEAN] : some \in SUBSET Setting}
  /\ version = 0
  /\ form = [p \in Page |-> Closed] /\ writing = [p \in Page |-> Nothing]

SettingsNext ==
  \/ Reset \/ Clear
  \/ \E p \in Page : \/ OpenPage(p) \/ Save(p) \/ Land(p) \/ Render(p)
                     \/ \E s \in Setting : Toggle(p, s)

(***************************************************************************)
(* The badge.  An update is where it is, its tab, the site it read and the *)
(* number of cookies it was told; it resumes at any time.                  *)
(***************************************************************************)
Update(at, tab) == [at |-> at, tab |-> tab, site |-> Unsupported, count |-> 0]

Blank == [text |-> 0, title |-> Nothing]

InFlight(t) == {u \in DOMAIN updates : updates[u].at # "query" /\ updates[u].tab = t}

Launch(at, tab) ==
  /\ Cardinality(DOMAIN updates) < MaximumUpdates
  /\ updates' = [u \in 1..(Cardinality(DOMAIN updates) + 1) |->
                   IF u \in DOMAIN updates THEN updates[u] ELSE Update(at, tab)]

\* What the browser and the user do.  tabs.onUpdated reports only that a page
\* has been loaded; cookies.onChanged does not name a tab.
Navigate(t, page) ==
  /\ shown' = [shown EXCEPT ![t] = page]
  /\ loading' = loading \cup {t}
  /\ UNCHANGED <<active, behind, cookies, badge, updates, failures, doubtful>>

\* Permission to see the page of a tab is given or taken away; no event says so
\* (manifest.json:8-16: hosts are optional, and activeTab ends by itself).
PermissionChanges(t, page) ==
  /\ page # shown[t] /\ Unsupported \in {page, shown[t]}
  /\ shown' = [shown EXCEPT ![t] = page]
  /\ doubtful' = doubtful \cup {t}
  /\ UNCHANGED <<active, behind, loading, cookies, badge, updates, failures>>

\* Another window gets the focus; its active tab was not activated by that.
Focus(t) ==
  /\ t \in behind
  /\ active' = t /\ behind' = (behind \ {t}) \cup {active}
  /\ doubtful' = doubtful \cup {t}
  /\ UNCHANGED <<shown, loading, cookies, badge, updates, failures>>

\* Every update that starts, alone or not, is noted down.
Noted(t, running) == IF running = {} THEN doubtful \ {t} ELSE doubtful \cup {t}

Running(t) == {u \in InFlight(t) : updates[u].at # "done"}

onUpdated(t) ==
  /\ t \in loading
  /\ loading' = loading \ {t}
  /\ Launch("get", t)
  /\ doubtful' = Noted(t, Running(t))
  /\ UNCHANGED <<shown, active, behind, cookies, badge, failures>>

\* A tab becomes the active one of its window, in front or behind, where the
\* window may be a new one.
Activated(t) ==
  /\ t \notin behind \cup {active}
  /\ \/ active' = t /\ behind' \in {behind, behind \cup {active}}
     \/ /\ active' = active
        /\ \E gone \in {{}} \cup {{b} : b \in behind} : behind' = (behind \ gone) \cup {t}

\* A faulty onActivated: the badge of a tab is left as it was.
ActivatedSilently(t) ==
  /\ Activated(t)
  /\ UNCHANGED <<shown, loading, cookies, badge, updates, failures, doubtful>>

onActivated(t) ==
  /\ Activated(t)
  /\ Launch("get", t)
  /\ doubtful' = Noted(t, Running(t))
  /\ UNCHANGED <<shown, loading, cookies, badge, failures>>

\* The cookies of a site without permission change unseen.
Unseen(site, count) ==
  /\ \A t \in Tab : shown[t] # site
  /\ cookies' = [cookies EXCEPT ![site] = count]
  /\ UNCHANGED <<shown, active, behind, loading, badge, updates, failures, doubtful>>

onChanged(site, count) ==
  /\ count # cookies[site]
  /\ cookies' = [cookies EXCEPT ![site] = count]
  /\ Launch("query", active)
  /\ UNCHANGED <<shown, active, behind, loading, badge, failures, doubtful>>

\* An update goes on.
Resume(u, step) == u \in DOMAIN updates /\ updates[u].at = step

Goes(u, next) == updates' = [updates EXCEPT ![u] = next]

\* updateActiveBadge: whichever tab is active by now in the current window.
Query(u) ==
  /\ Resume(u, "query")
  /\ Goes(u, Update("get", active))
  /\ doubtful' = Noted(active, Running(active))
  /\ UNCHANGED <<shown, active, behind, loading, cookies, badge, failures>>

Get(u) ==
  /\ Resume(u, "get")
  /\ LET page == shown[updates[u].tab]
     IN Goes(u, [updates[u] EXCEPT !.site = page,
                   !.at = IF page = Unsupported THEN "text" ELSE "count"])
  /\ UNCHANGED <<shown, active, behind, loading, cookies, badge, failures, doubtful>>

Count(u) ==
  /\ Resume(u, "count")
  /\ Goes(u, [updates[u] EXCEPT !.at = "text", !.count = cookies[updates[u].site]])
  /\ UNCHANGED <<shown, active, behind, loading, cookies, badge, failures, doubtful>>

SetText(u) ==
  /\ Resume(u, "text")
  /\ badge' = [badge EXCEPT ![updates[u].tab].text = updates[u].count]
  /\ Goes(u, [updates[u] EXCEPT !.at = "title"])
  /\ UNCHANGED <<shown, active, behind, loading, cookies, failures, doubtful>>

Titled(page, count) == IF page = Unsupported THEN Unsupported ELSE <<count>>

SetTitle(u) ==
  /\ Resume(u, "title")
  /\ badge' = [badge EXCEPT ![updates[u].tab].title =
                 Titled(updates[u].site, updates[u].count)]
  /\ Goes(u, [updates[u] EXCEPT !.at = "done"])
  /\ UNCHANGED <<shown, active, behind, loading, cookies, failures, doubtful>>

\* Any of the calls is refused; the catch blanks the text, later.
Fail(u) ==
  /\ u \in DOMAIN updates /\ updates[u].at \in {"get", "count", "text", "title"}
  /\ failures < MaximumFailures
  /\ failures' = failures + 1
  /\ Goes(u, [updates[u] EXCEPT !.at = "catch"])
  /\ UNCHANGED <<shown, active, behind, loading, cookies, badge, doubtful>>

Catch(u) ==
  /\ Resume(u, "catch")
  /\ badge' = [badge EXCEPT ![updates[u].tab].text = 0]
  /\ Goes(u, [updates[u] EXCEPT !.at = "done"])
  /\ UNCHANGED <<shown, active, behind, loading, cookies, failures, doubtful>>

BadgeInit ==
  /\ shown \in [Tab -> Site \cup {Unsupported}] /\ loading = {}
  /\ active \in Tab /\ behind \in SUBSET (Tab \ {active})
  /\ cookies \in [Site -> 0..MostCookies]
  /\ badge = [t \in Tab |-> Blank] /\ updates = <<>>
  /\ failures = 0 /\ doubtful = Tab

BadgeNext ==
  \/ \E t \in Tab : \/ onUpdated(t) \/ onActivated(t) \/ Focus(t)
                    \/ \E page \in Site \cup {Unsupported} :
                         Navigate(t, page) \/ PermissionChanges(t, page)
  \/ \E site \in Site, count \in 0..MostCookies :
       onChanged(site, count) \/ Unseen(site, count)
  \/ \E u \in 1..MaximumUpdates : \/ Query(u) \/ Get(u) \/ Count(u) \/ SetText(u)
                                  \/ SetTitle(u) \/ Fail(u) \/ Catch(u)

(***************************************************************************)
(* Properties.                                                             *)
(***************************************************************************)
Meant(record, s) == IF s \in DOMAIN record THEN record[s] ELSE DEFAULT_SETTINGS[s]

\* A page changes a setting that its user did not choose there only when its
\* form was stale: when somebody else wrote the settings after the form was
\* filled.  A form that shows what is stored never loses a choice, and neither
\* do settings that an older version stored in part (settings.ts:15-24,
\* popup.ts:379-390, options.ts:57-78).
LostChoiceNeedsStaleForm ==
  [][\A p \in Page, s \in Setting :
       writing[p] \notin {Nothing, Rendering} /\ Land(p)
         /\ Meant(stored', s) # Meant(stored, s)
       => s \in writing[p].chosen \/ writing[p].read # version]_setting_vars

Quiet == loading = {} /\ \A u \in DOMAIN updates : updates[u].at = "done"

\* When nothing is under way, the badge of the active tab tells the cookies of
\* the page it shows, unless a call failed, two updates of the tab ran at once,
\* of which the older one may end last, or since its last update began the
\* permission for its page changed or its window got the focus, which no event
\* tells the service worker (service-worker.ts:10-14, 35-55).
WrongBadgeExplained ==
  Quiet /\ failures = 0 /\ active \notin doubtful =>
    LET page == shown[active]
        count == IF page = Unsupported THEN 0 ELSE cookies[page]
    IN badge[active] = [text |-> count, title |-> Titled(page, count)]
=============================================================================
