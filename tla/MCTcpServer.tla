----------------------------- MODULE MCTcpServer -----------------------------
(***************************************************************************)
(* TcpServer for TLC: two I/O loops and two connections, which getNextLoop *)
(* may place on the same loop or on different ones.                        *)
(***************************************************************************)
EXTENDS TcpServer, TLC

\* Data (or end of file), room to write, a hang-up, an error with data left, and
\* everything at once.
SomeMasks == {{"XPOLLIN"}, {"XPOLLOUT"}, {"XPOLLHUP"}, {"XPOLLERR", "XPOLLIN"},
              {"XPOLLHUP", "XPOLLERR", "XPOLLRDHUP", "XPOLLOUT"}}

\* The same without the last.
FewMasks == {{"XPOLLIN"}, {"XPOLLOUT"}, {"XPOLLHUP"}, {"XPOLLERR", "XPOLLIN"}}

\* Connections are interchangeable, and so are I/O loops.
Symmetric == Permutations(Conns) \cup Permutations(IoLoops)
=============================================================================
