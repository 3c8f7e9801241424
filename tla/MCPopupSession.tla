---------------------------- MODULE MCPopupSession ----------------------------
(* Instances of PopupSession for TLC. *)
EXTENDS PopupSession

CONSTANTS here, both

Searches == {Cookie, {both}}
=============================================================================
