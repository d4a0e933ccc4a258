------------------------------- MODULE LoopTimer -------------------------------
(***************************************************************************)
(* The control loop of the firmware against its timer: main() arms the     *)
(* one-shot timer, measures, drains the command FIFO and then waits for    *)
(* loop_done, which only the interrupt handler sets.  Three things run     *)
(* concurrently: the timer core (every clock edge), the handler and        *)
(* main(), which share one CPU: main() does not move while the handler     *)
(* runs, and the handler starts between any two accesses of main().        *)
(***************************************************************************)
EXTENDS IntervalTimer

VARIABLES
    pc,          \* what main() does next
    isr,         \* what the interrupt handler does next, "idle" when it does not run
    registered,  \* the handler is registered and its interrupt enabled
    loop_done,   \* main.c:49
    age          \* history: clock edges since the last START, up to AgeCap

vars == <<timer_vars, pc, isr, registered, loop_done, age>>

AgeCap == Period + 2

Startup == {"stop", "clear_to", "register", "start"}
(* The statements of a pass between the start of the timer and the next    *)
(* "loop_done = 0", where main() counts on the timer to end the pass.      *)
InPass  == {"measure", "drain", "check", "spin", "clear"}
Labels  == Startup \cup InPass \cup {"arm"}

Init ==
    /\ TimerReset
    /\ pc = "stop"
    /\ isr = "idle"
    /\ registered = FALSE
    /\ loop_done = 0
    /\ age = 0

Older == age' = IF age < AgeCap THEN age + 1 ELSE age

(* A clock edge on which the CPU does not access the timer. *)
Clock ==
    /\ Edge(NoWrite)
    /\ Older
    /\ UNCHANGED <<pc, isr, registered, loop_done>>

(***************************************************************************)
(* The interrupt: taken between two accesses of main() once the handler is *)
(* registered; it clears TO and then sets loop_done.                       *)
(***************************************************************************)
Interrupt ==
    /\ isr = "idle" /\ registered /\ irq
    /\ isr' = "status"
    /\ UNCHANGED <<timer_vars, pc, registered, loop_done, age>>

(* Mutant of IsrClearTO: the handler forgets to clear TO. *)
IsrClearTO_Forgotten ==
    /\ isr = "status"
    /\ isr' = "flag"
    /\ Edge(NoWrite)
    /\ Older
    /\ UNCHANGED <<pc, registered, loop_done>>

IsrClearTO ==
    /\ isr = "status"
    /\ isr' = "flag"
    /\ Edge(StatusWrite)
    /\ Older
    /\ UNCHANGED <<pc, registered, loop_done>>

IsrSetDone ==
    /\ isr = "flag"
    /\ isr' = "idle"
    /\ loop_done' = 1
    /\ UNCHANGED <<timer_vars, pc, registered, age>>

handle_timer_interrupts == Interrupt \/ IsrClearTO \/ IsrSetDone

(***************************************************************************)
(* main()                                                                  *)
(***************************************************************************)
Goto(from, to) == isr = "idle" /\ pc = from /\ pc' = to

StopTimer ==
    /\ Goto("stop", "clear_to")
    /\ Edge(ControlWrite({"STOP", "ITO"}))
    /\ Older
    /\ UNCHANGED <<isr, registered, loop_done>>

ClearTimeout ==
    /\ Goto("clear_to", "register")
    /\ Edge(StatusWrite)
    /\ Older
    /\ UNCHANGED <<isr, registered, loop_done>>

RegisterIsr ==
    /\ Goto("register", "start")
    /\ registered' = TRUE
    /\ UNCHANGED <<timer_vars, isr, loop_done, age>>

(* Mutants of StartTimer: the wrong control bit; no interrupt enable. *)
StartTimer_NoStart ==
    /\ \/ Goto("start", "measure")
       \/ Goto("arm", "measure")
    /\ Edge(ControlWrite({"STOP", "ITO"}))
    /\ age' = 0
    /\ UNCHANGED <<isr, registered, loop_done>>

StartTimer_NoITO ==
    /\ \/ Goto("start", "measure")
       \/ Goto("arm", "measure")
    /\ Edge(ControlWrite({"START"}))
    /\ age' = 0
    /\ UNCHANGED <<isr, registered, loop_done>>

StartTimer ==
    /\ \/ Goto("start", "measure")
       \/ Goto("arm", "measure")
    /\ Edge(ControlWrite({"START", "ITO"}))
    /\ age' = 0
    /\ UNCHANGED <<isr, registered, loop_done>>

(* The measurements and print_table, then the command drain, each of any   *)
(* length: neither touches the timer nor writes loop_done.                 *)
Measure ==
    /\ Goto("measure", "drain")
    /\ UNCHANGED <<timer_vars, isr, registered, loop_done, age>>

Drain ==
    /\ Goto("drain", "check")
    /\ UNCHANGED <<timer_vars, isr, registered, loop_done, age>>

(* Mutant of CheckDone: an unfinished period is not waited for. *)
CheckDone_NoWait ==
    /\ Goto("check", "clear")
    /\ UNCHANGED <<timer_vars, isr, registered, loop_done, age>>

(* if(loop_done) printf("WARNING...") else while(!loop_done); *)
CheckDone ==
    /\ Goto("check", IF loop_done = 1 THEN "clear" ELSE "spin")
    /\ UNCHANGED <<timer_vars, isr, registered, loop_done, age>>

SpinDone ==
    /\ loop_done = 1
    /\ Goto("spin", "clear")
    /\ UNCHANGED <<timer_vars, isr, registered, loop_done, age>>

(* Mutant of ClearDone: the flag is not cleared for the next pass. *)
ClearDone_Forgotten ==
    /\ Goto("clear", "arm")
    /\ UNCHANGED <<timer_vars, isr, registered, loop_done, age>>

ClearDone ==
    /\ Goto("clear", "arm")
    /\ loop_done' = 0
    /\ UNCHANGED <<timer_vars, isr, registered, age>>

main == \/ StopTimer \/ ClearTimeout \/ RegisterIsr \/ StartTimer
        \/ Measure \/ Drain \/ CheckDone \/ SpinDone \/ ClearDone

Next == Clock \/ handle_timer_interrupts \/ main

Spec == Init /\ [][Next]_vars

(* The clock never stops, a pending interrupt is taken, and the CPU runs.  *)
FairSpec ==
    /\ Spec
    /\ WF_vars(Clock)
    /\ WF_vars(handle_timer_interrupts)
    /\ WF_vars(main)

--------------------------------------------------------------------------------
(* The end of the running period has not reached loop_done yet: the        *)
(* counter runs, or TO is set, or the handler is between its two stores.   *)
Armed == counter_is_running \/ timeout_occurred \/ isr # "idle"

PC == INSTANCE PassClock WITH armed <- Armed

(* Every variable has its type. *)
TypeOK ==
    /\ TimerTypeOK
    /\ pc \in Labels
    /\ isr \in {"idle", "status", "flag"}
    /\ registered \in BOOLEAN
    /\ loop_done \in {0, 1}
    /\ age \in 0..AgeCap

(* No lost wakeup: wherever main() may be in a pass, if loop_done is still *)
(* 0 then something is under way that will set it, so that the unbounded   *)
(* wait of main.c:705 cannot hang.                                         *)
NoLostWakeup == (pc \in InPass /\ loop_done = 0) => Armed

(* A pass is never cut short by an interrupt left over from an earlier     *)
(* period: when main() can see loop_done, a whole period of clock edges    *)
(* went by since it last started the timer (main.c:707-709).               *)
FullPeriod == loop_done = 1 => age > Period

(* When main() restarts the timer, the timer is at rest with its full      *)
(* count, no timeout is pending and the handler is not running.            *)
ArmFromRest ==
    pc \in {"start", "arm"} =>
        /\ ~counter_is_running /\ ~timeout_occurred
        /\ internal_counter = Period
        /\ isr = "idle" /\ loop_done = 0

(* Timer, handler and flag implement the clock main() counts on: one       *)
(* period per arming, reported once, acknowledged before the next one.     *)
ImplementsPassClock == PC!ClockSpec

(* The measurement loop never stops (main.c:570-710).                      *)
PassesForever == []<>(pc = "measure")
================================================================================
