-------------------------------- MODULE MCParts --------------------------------
(* Instances of the small machines for TLC.  They share nothing: `part` says  *)
(* which of them runs, and the other ones stay where they start.              *)
EXTENDS Archives, BoundedLogs, NativeArrays, ExtensionPages

VARIABLE part

\* One cookie of any kind, and two that differ in all they have.
Full ==
  [name |-> <<1, 2>>, store |-> <<1>>, secure |-> TRUE, session |-> FALSE,
   same_site |-> 2, expiration |-> 1, metadata |-> (<<1>> :> <<2>>) @@ (<<>> :> <<1>>)]

Bare ==
  [name |-> <<>>, store |-> None, secure |-> FALSE, session |-> TRUE,
   same_site |-> 0, expiration |-> None, metadata |-> <<>>]

Kinds ==
  {[Bare EXCEPT !.name = n, !.store = s] : n \in Text, s \in Text \cup {None}}
    \cup {[Bare EXCEPT !.secure = b, !.session = c, !.same_site = k] :
            b \in BOOLEAN, c \in BOOLEAN, k \in 0..3}
    \cup {[Bare EXCEPT !.expiration = e] : e \in {0, 3}}
    \cup {[Bare EXCEPT !.metadata = m] :
            m \in UNION {[keys -> {<<>>, <<1, 2>>}] : keys \in SUBSET Text}}

Lists == {<<>>, <<Bare, Bare>>, <<Full, Bare>>, <<Bare, Bare, Bare>>}
           \cup {<<c>> : c \in Kinds}

Texts == {<<>>, <<1>>, <<1, 2>>, <<2, 1, 1>>}

Defaults == [s \in Setting |-> s = "confirm"]

\* Settings that an older version stored, perhaps not all of them.
Older == {<<>>, "mask" :> TRUE, [s \in Setting |-> FALSE]}

MCInit ==
  /\ part \in {"archive", "logs", "arrays", "settings", "badge"}
  /\ kept \in (IF part = "archive" THEN Lists ELSE {<<>>}) /\ ArchiveInit
  /\ LogInit /\ ArrayInit
  /\ SettingsInit /\ stored \in (IF part = "settings" THEN Older ELSE {<<>>})
  /\ BadgeInit /\ (part # "badge" => /\ behind = {}
                                    /\ cookies = [s \in Site |-> 0]
                                    /\ shown = [t \in Tab |-> Unsupported])

MCNext ==
  /\ UNCHANGED part
  /\ \/ part = "archive" /\ ArchiveNext
     \/ part = "logs" /\ LogNext
     \/ part = "arrays" /\ ArrayNext
     \/ part = "settings" /\ SettingsNext
     \/ part = "badge" /\ BadgeNext
  /\ part # "archive" => UNCHANGED archive_vars
  /\ part # "logs" => UNCHANGED log_vars
  /\ part # "arrays" => UNCHANGED array_vars
  /\ part # "settings" => UNCHANGED setting_vars
  /\ part # "badge" => UNCHANGED badge_vars

\* No action reads what an update knew that has ended, nor which one is which.
Seen ==
  LET known(u) == IF updates[u].at = "done" THEN Blank ELSE updates[u]
      running == [k \in {known(u) : u \in DOMAIN updates} |->
                    Cardinality({u \in DOMAIN updates : known(u) = k})]
  IN <<part, archive_vars, log_vars, array_vars, setting_vars, running,
       shown, active, behind, loading, cookies, badge, failures, doubtful>>

Symmetry == Permutations(Tab)

MCSpec ==
  MCInit /\ [][MCNext]_<<part, archive_vars, log_vars, array_vars, setting_vars, badge_vars>>
=============================================================================
