----------------------------- MODULE MCListScreen -----------------------------
(* A small instance of ListScreen for TLC. *)
EXTENDS ListScreen

\* With one row to a page, two groups make two pages.
TwoGroups == 1 .. 2
=============================================================================
