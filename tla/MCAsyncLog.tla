----------------------------- MODULE MCAsyncLog -----------------------------
(***************************************************************************)
(* AsyncLog for TLC: one thread logs lines twice as long as the others'.   *)
(***************************************************************************)
EXTENDS AsyncLog

CONSTANT Wordy   \* the thread with the long lines

MCLength == [line \in DiskLine |-> IF line.from = Wordy THEN 2 ELSE 1]
=============================================================================
