------------------------------- MODULE PassClock -------------------------------
(***************************************************************************)
(* What main() relies on from the timer, its interrupt handler and         *)
(* loop_done: a clock that is armed once per pass of the measurement loop, *)
(* elapses at most once per arming, and says so in loop_done until main()  *)
(* clears it.  LoopTimer implements it; CommandLink uses it.               *)
(***************************************************************************)
EXTENDS Naturals

VARIABLES
    armed,       \* the period runs, or its end is on its way to loop_done
    loop_done    \* main.c:49

clock_vars == <<armed, loop_done>>

ClockInit == armed = FALSE /\ loop_done = 0

(* main() starts the timer for the pass. *)
Arm == /\ ~armed
       /\ loop_done = 0
       /\ armed' = TRUE
       /\ UNCHANGED loop_done

(* The period ends and the handler reports it. *)
Elapse == /\ armed
          /\ armed' = FALSE
          /\ loop_done' = 1

(* main() acknowledges the end of the pass. *)
Clear == /\ ~armed
         /\ loop_done = 1
         /\ loop_done' = 0
         /\ UNCHANGED armed

ClockNext == Arm \/ Elapse \/ Clear

ClockSpec == ClockInit /\ [][ClockNext]_clock_vars
================================================================================
