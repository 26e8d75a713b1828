------------------------------ MODULE MCDaemon ------------------------------
(***************************************************************************)
(* Instances of Daemon for TLC.  Three calendar days of four ticks with    *)
(* the fire time at tick 1; windows of two ticks paced by one, so a window *)
(* can expire, be retried in, and still be open when its day ends; and a   *)
(* staleness limit of one day, so a de-risk happens on the second day.     *)
(***************************************************************************)
EXTENDS Daemon

\* One value of a switch, or both.
On == {TRUE}
Any == BOOLEAN
=============================================================================
