---------------------------- MODULE MCChatService ----------------------------
(* A small instance of ChatService for TLC. *)
EXTENDS ChatService

CONSTANTS s1, s2, s3

\* Two of the sessions are users, one of whom talks; one session only listens.
Users == {s1, s2}
OneTalker == {s1}
OneLeaves == {s1}

\* The close of the one who leaves may be reported while it is handled; that of
\* the other user, whose connection only an exception ends, is not.
Unserialised == {s1}
=============================================================================
