--------------------------- MODULE MCTimerThread ---------------------------
(***************************************************************************)
(* The timer thread on a small instance.  A time-out of -1 stands for the  *)
(* negative ones that TimeOut - AUTO_RENEW_TIME produces.                  *)
(***************************************************************************)
EXTENDS TimerThread

MCTimeOuts == {-1, 1}
=============================================================================
