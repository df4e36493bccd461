----------------------------- MODULE MCCustody -----------------------------
(* A small collection for the custody model: a machine's hive with its      *)
(* transaction log beside it, an event log, and a shortcut, which a run     *)
(* passes over without a word where it cannot hash it.                      *)
EXTENDS Custody

CONSTANTS h1, g1, e1, k1

OneHive == <<h1>>
OneEvent == <<e1>>
OneLink == <<k1>>
LogBeside == [h \in HiveFiles |-> <<g1>>]
FirstHive == {h1}
NoLink == {}
=============================================================================
