---------------------------- MODULE LoopTimer_proofs ----------------------------
(***************************************************************************)
(* What LoopTimer promises, for every period.  The inductive invariant     *)
(* IInv says which of four stages the running period is in; everything     *)
(* else follows from it.                                                   *)
(***************************************************************************)
EXTENDS LoopTimer, TLAPS

(* The timer stopped, reloaded, with nothing on its way to the CPU. *)
AtRest ==
    /\ ~counter_is_running /\ ~timeout_occurred
    /\ internal_counter = Period
    /\ isr = "idle"

(* The four stages of an armed period, in the order they come. *)
Counting ==
    /\ counter_is_running /\ ~timeout_occurred
    /\ isr = "idle" /\ loop_done = 0
    /\ age + internal_counter = Period
    /\ counter_is_zero => ~delayed_zero

Elapsed ==
    /\ ~counter_is_running /\ timeout_occurred
    /\ internal_counter = Period
    /\ isr \in {"idle", "status"} /\ loop_done = 0
    /\ age > Period

Reporting ==
    /\ ~counter_is_running /\ ~timeout_occurred
    /\ internal_counter = Period
    /\ isr = "flag" /\ loop_done = 0
    /\ age > Period

Done == AtRest /\ loop_done = 1 /\ age > Period

Quiet == pc \notin InPass => AtRest /\ loop_done = 0

Stages ==
    pc \in InPass =>
        /\ registered /\ "ITO" \in control_register
        /\ Counting \/ Elapsed \/ Reporting \/ Done

IInv ==
    /\ TypeOK
    /\ "CONT" \notin control_register
    /\ pc \in {"start", "arm"} => registered
    /\ pc = "clear" => loop_done = 1
    /\ Quiet
    /\ Stages
--------------------------------------------------------------------------------
(* A clock edge without a START or STOP moves a counting timer one step,   *)
(* and leaves a resting one alone.                                         *)
LEMMA EdgeAtRest ==
    ASSUME NEW w \in {NoWrite, StatusWrite}, TimerTypeOK,
           ~counter_is_running, internal_counter = Period, Edge(w)
    PROVE  /\ TimerTypeOK'
           /\ ~counter_is_running' /\ internal_counter' = Period
           /\ timeout_occurred' = (w = NoWrite /\ timeout_occurred)
           /\ control_register' = control_register
  <1>1. ~counter_is_zero
    BY PeriodAssumption DEF counter_is_zero
  <1>2. /\ ~start_strobe(w)
        /\ w.address # "control"
        /\ status_wr_strobe(w) <=> w # NoWrite
    BY DEF NoWrite, StatusWrite, start_strobe, status_wr_strobe
  <1>3. internal_counter' = Period /\ counter_is_running' = FALSE /\ control_register' = control_register
    BY <1>2 DEF Edge, NextCounter
  <1>4. timeout_occurred' = (w = NoWrite /\ timeout_occurred)
    BY <1>1, <1>2 DEF Edge, timeout_event, TimerTypeOK
  <1>5. delayed_zero' \in BOOLEAN /\ timeout_occurred' \in BOOLEAN
    <2>1. delayed_zero' = (internal_counter = 0)
      BY DEF Edge, counter_is_zero
    <2>2. timeout_occurred' = (~status_wr_strobe(w) /\ (timeout_event \/ timeout_occurred))
      BY DEF Edge
    <2> QED
      BY <2>1, <2>2, Zenon
  <1> QED
    BY <1>3, <1>4, <1>5, PeriodAssumption DEF TimerTypeOK

(* What a clock edge does to the counter that runs. *)
LEMMA EdgeCounting ==
    ASSUME TimerTypeOK, counter_is_running, ~timeout_occurred,
           "CONT" \notin control_register,
           counter_is_zero => ~delayed_zero,
           Edge(NoWrite)
    PROVE  /\ TimerTypeOK'
           /\ control_register' = control_register
           /\ CASE internal_counter = 0 ->
                      /\ ~counter_is_running' /\ timeout_occurred'
                      /\ internal_counter' = Period
                [] OTHER ->
                      /\ counter_is_running' /\ ~timeout_occurred'
                      /\ internal_counter' = internal_counter - 1
                      /\ ~delayed_zero'
  <1>1. ~start_strobe(NoWrite) /\ ~stop_strobe(NoWrite) /\ ~status_wr_strobe(NoWrite)
    BY DEF NoWrite, start_strobe, stop_strobe, status_wr_strobe
  <1>2. control_register' = control_register
    BY DEF Edge, NoWrite
  <1>3. counter_is_running' = (internal_counter # 0)
    BY <1>1 DEF Edge, do_stop_counter, counter_is_zero
  <1>4. timeout_occurred' = (internal_counter = 0)
    BY <1>1 DEF Edge, timeout_event, counter_is_zero, TimerTypeOK
  <1>5. internal_counter' = IF internal_counter = 0 THEN Period ELSE internal_counter - 1
    BY DEF Edge, NextCounter, counter_is_zero
  <1>6. delayed_zero' = (internal_counter = 0)
    BY DEF Edge, counter_is_zero
  <1>7. internal_counter' \in 0..Period
    BY <1>5, PeriodAssumption DEF TimerTypeOK
  <1>8. TimerTypeOK'
    BY <1>2, <1>3, <1>4, <1>6, <1>7 DEF TimerTypeOK
  <1> QED
    BY <1>2, <1>3, <1>4, <1>5, <1>6, <1>8

(* A control write to a resting timer takes its bits and starts it exactly *)
(* when they contain START.                                                *)
LEMMA EdgeControl ==
    ASSUME NEW bits \in SUBSET ControlBits, TimerTypeOK,
           ~counter_is_running, ~timeout_occurred, internal_counter = Period,
           Edge(ControlWrite(bits))
    PROVE  /\ TimerTypeOK'
           /\ counter_is_running' = ("START" \in bits)
           /\ internal_counter' = Period /\ ~timeout_occurred'
           /\ control_register' = bits
  <1>1. ~counter_is_zero
    BY PeriodAssumption DEF counter_is_zero
  <1>2. /\ start_strobe(ControlWrite(bits)) <=> "START" \in bits
        /\ ~status_wr_strobe(ControlWrite(bits))
        /\ control_register' = bits
    BY DEF ControlWrite, start_strobe, status_wr_strobe, Edge
  <1>3. internal_counter' = Period /\ counter_is_running' = ("START" \in bits)
    BY <1>2 DEF Edge, NextCounter
  <1>4. ~timeout_occurred' /\ timeout_occurred' \in BOOLEAN /\ delayed_zero' \in BOOLEAN
    <2>1. delayed_zero' = (internal_counter = 0)
      BY DEF Edge, counter_is_zero
    <2>2. timeout_occurred' = FALSE
      BY <1>1, <1>2 DEF Edge, timeout_event
    <2> QED
      BY <2>1, <2>2
  <1> QED
    BY <1>2, <1>3, <1>4, PeriodAssumption DEF TimerTypeOK

--------------------------------------------------------------------------------
LEMMA InitIInv == Init => IInv
  <1> SUFFICES ASSUME Init PROVE IInv
    OBVIOUS
  <1>1. TimerTypeOK
    <2>1. Period \in 0..Period
      BY PeriodAssumption
    <2>2. {} \in SUBSET ControlBits
      OBVIOUS
    <2> QED
      BY <2>1, <2>2, Zenon DEF Init, TimerReset, TimerTypeOK
  <1>2. age \in 0..AgeCap
    BY PeriodAssumption DEF Init, AgeCap
  <1>3. TypeOK
    BY <1>1, <1>2 DEF Init, TypeOK, Labels, Startup
  <1>4. Quiet /\ Stages
    BY DEF Init, TimerReset, Quiet, AtRest, Stages, InPass
  <1> QED
    BY <1>3, <1>4 DEF Init, TimerReset, IInv

(* The steps that do not touch the timer keep its stage. *)
LEMMA CpuStepIInv ==
    ASSUME IInv,
           Interrupt \/ IsrSetDone \/ RegisterIsr \/ Measure \/ Drain
             \/ CheckDone \/ SpinDone \/ ClearDone
    PROVE  IInv'
  <1> USE DEF IInv, TypeOK, TimerTypeOK, timer_vars, AgeCap
  <1>1. CASE Interrupt
    BY <1>1 DEF Interrupt, irq, Quiet, AtRest, Stages, Counting, Elapsed, Reporting, Done
  <1>2. CASE IsrSetDone
    BY <1>2 DEF IsrSetDone, Quiet, AtRest, Stages, Counting, Elapsed, Reporting, Done
  <1>3. CASE RegisterIsr
    BY <1>3 DEF RegisterIsr, Goto, Labels, Startup, InPass, Quiet, AtRest, Stages
  <1>4. CASE Measure \/ Drain
    BY <1>4 DEF Measure, Drain, Goto, Labels, InPass, Quiet, Stages, Counting, Elapsed, Reporting,
                Done, AtRest, counter_is_zero
  <1>5. CASE CheckDone \/ SpinDone
    BY <1>5 DEF CheckDone, SpinDone, Goto, Labels, InPass, Quiet, Stages, Counting, Elapsed,
                Reporting, Done, AtRest, counter_is_zero
  <1>6. CASE ClearDone
    BY <1>6 DEF ClearDone, Goto, Labels, InPass, Quiet, Stages, Counting, Elapsed,
                Reporting, Done, AtRest
  <1> QED
    BY <1>1, <1>2, <1>3, <1>4, <1>5, <1>6

(* A clock edge moves Counting to Elapsed when the counter is at zero. *)
LEMMA ClockIInv == ASSUME IInv, Clock PROVE IInv'
  <1> USE DEF IInv, TypeOK
  <1>1. /\ Edge(NoWrite)
        /\ UNCHANGED <<pc, isr, registered, loop_done>>
    BY DEF Clock
  <1>2. age' \in 0..AgeCap /\ age' = IF age < AgeCap THEN age + 1 ELSE age
    BY PeriodAssumption DEF Clock, Older, AgeCap
  <1>3. CASE ~counter_is_running /\ internal_counter = Period
    <2>1. /\ TimerTypeOK' /\ ~counter_is_running' /\ internal_counter' = Period
          /\ timeout_occurred' = timeout_occurred
          /\ control_register' = control_register
      BY <1>1, <1>3, EdgeAtRest DEF TimerTypeOK
    <2>2. age > Period => age' > Period
      BY <1>2, PeriodAssumption DEF AgeCap
    <2>3. Quiet' /\ Stages'
      BY <1>1, <1>3, <2>1, <2>2
      DEF Quiet, AtRest, Stages, Counting, Elapsed, Reporting, Done, Labels, InPass
    <2> QED
      BY <1>1, <1>2, <2>1, <2>3
  <1>4. CASE counter_is_running
    <2>1. pc \in InPass /\ Counting
      BY <1>4 DEF Quiet, AtRest, Stages, Elapsed, Reporting, Done
    <2>2. /\ TimerTypeOK'
          /\ control_register' = control_register
          /\ CASE internal_counter = 0 ->
                      /\ ~counter_is_running' /\ timeout_occurred'
                      /\ internal_counter' = Period
                [] OTHER ->
                      /\ counter_is_running' /\ ~timeout_occurred'
                      /\ internal_counter' = internal_counter - 1
                      /\ ~delayed_zero'
      BY <1>1, <1>4, <2>1, EdgeCounting DEF Counting
    <2>3. CASE internal_counter = 0
      <3>1. Elapsed'
        BY <1>1, <1>2, <2>1, <2>2, <2>3, PeriodAssumption DEF Counting, Elapsed, AgeCap
      <3> QED
        BY <1>1, <1>2, <2>1, <2>2, <3>1 DEF Quiet, Stages, Counting
    <2>4. CASE internal_counter # 0
      <3>1. age + 1 + (internal_counter - 1) = Period /\ age < AgeCap
        BY <2>1, <2>4, PeriodAssumption DEF Counting, AgeCap, TimerTypeOK
      <3>2. Counting'
        BY <1>1, <1>2, <2>1, <2>2, <2>4, <3>1 DEF Counting
      <3> QED
        BY <1>1, <1>2, <2>1, <2>2, <3>2 DEF Quiet, Stages, Counting
    <2> QED
      BY <2>3, <2>4
  <1> QED
    BY <1>3, <1>4 DEF Quiet, AtRest, Stages, Counting, Elapsed, Reporting, Done

(* The handler clears TO of an elapsed period, which goes on to Reporting. *)
LEMMA IsrClearIInv == ASSUME IInv, IsrClearTO PROVE IInv'
  <1> USE DEF IInv, TypeOK
  <1>1. /\ isr = "status" /\ isr' = "flag"
        /\ Edge(StatusWrite)
        /\ UNCHANGED <<pc, registered, loop_done>>
    BY DEF IsrClearTO
  <1>2. pc \in InPass /\ Elapsed
    BY <1>1 DEF Quiet, AtRest, Stages, Counting, Reporting, Done
  <1>3. /\ TimerTypeOK' /\ ~counter_is_running' /\ internal_counter' = Period
        /\ ~timeout_occurred'
        /\ control_register' = control_register
    BY <1>1, <1>2, EdgeAtRest DEF Elapsed, StatusWrite, NoWrite
  <1>4. age' \in 0..AgeCap /\ age' > Period
    BY <1>2, PeriodAssumption DEF IsrClearTO, Older, AgeCap, Elapsed
  <1>5. Reporting'
    BY <1>1, <1>2, <1>3, <1>4 DEF Reporting, Elapsed
  <1> QED
    BY <1>1, <1>2, <1>3, <1>4, <1>5 DEF Quiet, Stages, Elapsed

(* The accesses main() makes to the timer find it at rest. *)
LEMMA TimerWriteIInv == ASSUME IInv, StopTimer \/ ClearTimeout \/ StartTimer PROVE IInv'
  <1> USE DEF IInv, TypeOK
  <1>1. CASE StopTimer
    <2>1. AtRest /\ loop_done = 0 /\ {"STOP", "ITO"} \in SUBSET ControlBits
      BY <1>1 DEF StopTimer, Goto, Quiet, InPass, ControlBits
    <2>2. /\ TimerTypeOK' /\ ~counter_is_running' /\ internal_counter' = Period
          /\ ~timeout_occurred' /\ control_register' = {"STOP", "ITO"}
      BY <1>1, <2>1, EdgeControl DEF StopTimer, AtRest
    <2>3. age' \in 0..AgeCap
      BY <1>1, PeriodAssumption DEF StopTimer, Older, AgeCap
    <2> QED
      BY <1>1, <2>1, <2>2, <2>3
      DEF StopTimer, Goto, Quiet, AtRest, Stages, Labels, Startup, InPass
  <1>2. CASE ClearTimeout
    <2>1. AtRest /\ loop_done = 0
      BY <1>2 DEF ClearTimeout, Goto, Quiet, InPass
    <2>2. /\ TimerTypeOK' /\ ~counter_is_running' /\ internal_counter' = Period
          /\ ~timeout_occurred' /\ control_register' = control_register
      BY <1>2, <2>1, EdgeAtRest DEF ClearTimeout, AtRest, StatusWrite, NoWrite
    <2>3. age' \in 0..AgeCap
      BY <1>2, PeriodAssumption DEF ClearTimeout, Older, AgeCap
    <2> QED
      BY <1>2, <2>1, <2>2, <2>3
      DEF ClearTimeout, Goto, Quiet, AtRest, Stages, Labels, Startup, InPass
  <1>3. CASE StartTimer
    <2>1. AtRest /\ loop_done = 0 /\ registered /\ {"START", "ITO"} \in SUBSET ControlBits
      BY <1>3 DEF StartTimer, Goto, Quiet, InPass, ControlBits
    <2>2. /\ TimerTypeOK' /\ counter_is_running' /\ internal_counter' = Period
          /\ ~timeout_occurred' /\ control_register' = {"START", "ITO"}
      BY <1>3, <2>1, EdgeControl DEF StartTimer, AtRest
    <2>3. /\ age' = 0 /\ pc' = "measure"
          /\ UNCHANGED <<isr, registered, loop_done>>
      BY <1>3 DEF StartTimer, Goto
    <2>4. Counting'
      BY <2>1, <2>2, <2>3, PeriodAssumption DEF Counting, AtRest, counter_is_zero
    <2> QED
      BY <2>1, <2>2, <2>3, <2>4, PeriodAssumption
      DEF Quiet, AtRest, Stages, Labels, InPass, AgeCap
  <1> QED
    BY <1>1, <1>2, <1>3

(* Every step of clock, handler and main() keeps the invariant. *)
LEMMA NextIInv == IInv /\ [Next]_vars => IInv'
  <1> SUFFICES ASSUME IInv, [Next]_vars PROVE IInv'
    OBVIOUS
  <1>1. CASE UNCHANGED vars
    BY <1>1
    DEF IInv, vars, timer_vars, TypeOK, TimerTypeOK, Quiet, AtRest, Stages, Counting, Elapsed,
        Reporting, Done, counter_is_zero
  <1>2. CASE Next
    BY <1>2, CpuStepIInv, ClockIInv, IsrClearIInv, TimerWriteIInv
    DEF Next, handle_timer_interrupts, main
  <1> QED
    BY <1>1, <1>2

(* IInv holds throughout every behaviour: the period of a pass goes from   *)
(* Counting to Elapsed, Reporting and Done, and nowhere else.              *)
THEOREM InductiveInvariant == Spec => []IInv
  BY InitIInv, NextIInv, PTL DEF Spec

(* Every variable of timer, handler and main() keeps its type. *)
THEOREM TypeCorrect == Spec => []TypeOK
  <1>1. IInv => TypeOK
    BY DEF IInv
  <1> QED
    BY <1>1, InductiveInvariant, PTL

(* Wherever main() is in a pass, a loop_done that is still 0 will be set:  *)
(* the wait of main.c:705 cannot have missed its interrupt.                *)
THEOREM WakeupNeverLost == Spec => []NoLostWakeup
  <1>1. IInv => NoLostWakeup
    BY DEF IInv, NoLostWakeup, Armed, Stages, Counting, Elapsed, Reporting, Done
  <1> QED
    BY <1>1, InductiveInvariant, PTL

(* main() sees loop_done only after a whole period since it started the    *)
(* timer, whatever the period and however late the interrupt is taken.     *)
THEOREM NoShortPass == Spec => []FullPeriod
  <1>1. IInv => FullPeriod
    BY DEF IInv, FullPeriod, Quiet, Stages, Counting, Elapsed, Reporting, Done
  <1> QED
    BY <1>1, InductiveInvariant, PTL

(* The timer main() restarts (main.c:709) is stopped, full and silent. *)
THEOREM RestartFromRest == Spec => []ArmFromRest
  <1>1. IInv => ArmFromRest
    BY DEF IInv, ArmFromRest, Quiet, AtRest, InPass
  <1> QED
    BY <1>1, InductiveInvariant, PTL

--------------------------------------------------------------------------------
(* A timer at rest stays so, or is armed, or finishes: what a step does to *)
(* Armed and loop_done is a step of PassClock.                             *)
LEMMA StepRefinesPassClock ==
    ASSUME IInv, IInv', [Next]_vars
    PROVE  [PC!ClockNext]_(PC!clock_vars)
  <1> USE DEF PC!ClockNext, PC!clock_vars
  <1>1. CASE UNCHANGED vars
    BY <1>1 DEF vars, timer_vars, Armed
  <1>2. CASE Clock
    <2>1. UNCHANGED <<pc, isr, loop_done>>
      BY <1>2 DEF Clock
    <2>2. CASE pc \in InPass
      <3>1. Armed <=> loop_done = 0
        BY <2>2 DEF IInv, Stages, Armed, Counting, Elapsed, Reporting, Done, AtRest
      <3>2. Armed' <=> loop_done' = 0
        BY <2>1, <2>2 DEF IInv, Stages, Armed, Counting, Elapsed, Reporting, Done, AtRest
      <3>3. Armed \in BOOLEAN /\ Armed' \in BOOLEAN
        BY DEF Armed
      <3> QED
        BY <2>1, <3>1, <3>2, <3>3
    <2>3. CASE pc \notin InPass
      <3>1. ~Armed /\ ~Armed'
        BY <2>1, <2>3 DEF IInv, Quiet, AtRest, Armed
      <3> QED
        BY <2>1, <3>1 DEF Armed
    <2> QED
      BY <2>2, <2>3
  <1>3. CASE Interrupt \/ IsrClearTO
    <2>1. loop_done' = loop_done /\ isr' # "idle"
      BY <1>3 DEF Interrupt, IsrClearTO
    <2>2. Armed /\ Armed'
      BY <1>3, <2>1 DEF Interrupt, IsrClearTO, Armed, irq
    <2> QED
      BY <2>1, <2>2 DEF Armed
  <1>4. CASE IsrSetDone
    <2>1. Armed /\ loop_done' = 1 /\ isr' = "idle" /\ pc \in InPass /\ pc' = pc
      BY <1>4 DEF IsrSetDone, Armed, IInv, Quiet, AtRest
    <2>2. ~Armed'
      BY <2>1 DEF IInv, Stages, Counting, Elapsed, Reporting, Done, AtRest, Armed
    <2>3. PC!Elapse
      BY <2>1, <2>2 DEF PC!Elapse, Armed
    <2> QED
      BY <2>3
  <1>5. CASE StopTimer \/ ClearTimeout \/ RegisterIsr
    <2>1. loop_done' = loop_done /\ pc \notin InPass /\ pc' \notin InPass
      BY <1>5 DEF StopTimer, ClearTimeout, RegisterIsr, Goto, InPass
    <2>2. ~Armed /\ ~Armed'
      BY <2>1 DEF IInv, Quiet, AtRest, Armed
    <2> QED
      BY <2>1, <2>2 DEF Armed
  <1>6. CASE StartTimer
    <2>1. loop_done' = loop_done /\ pc \notin InPass /\ pc' \in InPass
      BY <1>6 DEF StartTimer, Goto, InPass
    <2>2. ~Armed /\ loop_done = 0
      BY <2>1 DEF IInv, Quiet, AtRest, Armed
    <2>3. Armed'
      BY <2>1, <2>2 DEF IInv, Stages, Counting, Elapsed, Reporting, Done, Armed
    <2>4. PC!Arm
      BY <2>1, <2>2, <2>3 DEF PC!Arm, Armed
    <2> QED
      BY <2>4
  <1>7. CASE Measure \/ Drain \/ CheckDone \/ SpinDone
    BY <1>7 DEF Measure, Drain, CheckDone, SpinDone, timer_vars, Armed
  <1>8. CASE ClearDone
    <2>1. /\ pc = "clear" /\ loop_done = 1 /\ loop_done' = 0
          /\ UNCHANGED <<timer_vars, isr>>
      BY <1>8 DEF ClearDone, Goto, IInv
    <2>2. ~Armed
      BY <2>1 DEF IInv, Stages, InPass, Counting, Elapsed, Reporting, Done, AtRest, Armed
    <2>3. PC!Clear
      BY <2>1, <2>2 DEF PC!Clear, timer_vars, Armed
    <2> QED
      BY <2>3
  <1> QED
    BY <1>1, <1>2, <1>3, <1>4, <1>5, <1>6, <1>7, <1>8
    DEF Next, handle_timer_interrupts, main

(* Timer, handler and flag together are the clock of PassClock: armed once *)
(* per pass, elapsing once, acknowledged before it is armed again.         *)
THEOREM Implementation == Spec => ImplementsPassClock
  <1>1. Init => PC!ClockInit
    BY DEF Init, TimerReset, PC!ClockInit, Armed
  <1> QED
    BY <1>1, InductiveInvariant, StepRefinesPassClock, PTL
    DEF Spec, ImplementsPassClock, PC!ClockSpec
================================================================================
