---------------------------- MODULE MCChatServer ----------------------------
(***************************************************************************)
(* ChatServer for TLC: two clients on two I/O loops.                       *)
(***************************************************************************)
EXTENDS ChatServer

ServerPayload == Texts \cup {"kickuser", "code0", "code1", "code2"}

\* Data (or end of file), a hang-up, and an error with data still to read.
SomeMasks == {{"XPOLLIN"}, {"XPOLLHUP"}, {"XPOLLERR", "XPOLLIN"}}

\* Connections are interchangeable, and so are I/O loops.
Symmetric == Permutations(Conns) \cup Permutations(IoLoops)
=============================================================================
