---------------------------- MODULE MCIncomingMail ----------------------------
(* Small instances of IncomingMail for TLC. *)
EXTENDS IncomingMail, TLC

\* Messages are alike, and so are the threads.
Symmetry == Permutations(Messages) \union Permutations(Workers)
=============================================================================
