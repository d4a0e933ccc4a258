-------------------------------- MODULE HalTime --------------------------------
(***************************************************************************)
(* How the HAL keeps time with one interval timer: as the system clock     *)
(* behind gettimeofday(), settimeofday() and times(), as the timestamp     *)
(* counter, or not at all, as the build says; and usleep(), which counts   *)
(* instructions.  A second has US microseconds and MS milliseconds, a word *)
(* WordRange values and a timer register HalfRange (10^6, 1000, 2^32 and   *)
(* 2^16).                                                                  *)
(*                                                                         *)
(* The handler runs within a period of the timer, or ticks are lost, and   *)
(* the period divides a second, or the rate of ALTERA_AVALON_TIMER_FREQ is *)
(* rounded and the time read is wrong by as much.  What usleep() is asked  *)
(* for is no whole number of the longest loops, or the last of them runs   *)
(* WordRange times more.                                                   *)
(***************************************************************************)
EXTENDS Integers

CONSTANTS US, MS, WordRange, HalfRange,
          TimerPeriods,    \* <<period, units>> the timer may be built with
          Roles,           \* what the build uses the timer for
          TimesToSet, TimesToSleep,
          LoopsPerUs,      \* ALT_CPU_FREQ / (cycles_per_loop * 1000000)
          SetWithin,       \* microseconds after reset that the time is set
          MaxTimeouts      \* bound on the timeouts of the system clock, which a word holds

CWord(n) == n % WordRange
FullHalf == HalfRange - 1
FullScale == HalfRange * HalfRange - 1
INT_MAX == WordRange \div 2 - 1
UsPerLoop == INT_MAX \div LoopsPerUs

ASSUME TimeAssumption ==
    /\ {US, MS, WordRange, HalfRange, LoopsPerUs} \subseteq Nat \ {0} /\ US % MS = 0
    /\ LoopsPerUs <= INT_MAX /\ {SetWithin, MaxTimeouts} \subseteq Nat /\ MaxTimeouts < WordRange
    /\ Roles \subseteq {"sys_clk", "timestamp", "none"}

ASSUME PeriodAssumption ==
    \A p \in TimerPeriods :
       /\ p[1] \in Nat \ {0} /\ p[2] \in {"us", "ms", "s"}
       /\ p[2] = "us" => US % p[1] = 0
       /\ p[2] = "ms" => MS % p[1] = 0
       /\ p[2] = "s" => p[1] = 1

ASSUME InputAssumption ==
    /\ TimesToSet \subseteq [sec : Nat, usec : 0..(US - 1)]
    /\ \A us \in TimesToSleep : us \in Nat /\ (us # 0 => us % UsPerLoop # 0)

VARIABLES
    timer_period,   \* <<period, units>> of this timer
    role,           \* "sys_clk", "timestamp" or "none"
    timer,          \* the core: period halves, counter, run, CONT, TO, snapshot
    tick_rate,      \* _alt_tick_rate
    systicks,       \* _alt_nticks
    ts_freq,        \* whether altera_avalon_timer_ts_freq is set
    resettime,      \* alt_resettime and alt_timezone
    tstep,          \* the step alt_timestamp_start() or alt_timestamp() is at
    answer,         \* what the last call gave
    timeouts,       \* timeouts of the timer so far
    set_to,         \* the time last set, and when
    started         \* clocks since the timestamp was started, and those at the snapshot

time_vars == <<timer_period, role, timer, tick_rate, systicks, ts_freq, resettime,
               tstep, answer, timeouts, set_to, started>>

NoAnswer == [op |-> "none"]

TimeInit ==
    /\ timer_period \in TimerPeriods /\ role \in Roles
    /\ timer = [lo |-> 0, hi |-> 0, count |-> 0, run |-> FALSE, cont |-> FALSE, to |-> FALSE, snap |-> 0]
    /\ tick_rate = 0 /\ systicks = 0 /\ ts_freq = FALSE
    /\ resettime = [sec |-> 0, usec |-> 0, zone |-> 0]
    /\ tstep = "boot" /\ answer = NoAnswer
    /\ timeouts = 0 /\ set_to = [time |-> [sec |-> 0, usec |-> 0], zone |-> 0, when |-> 0] /\ started = [clocks |-> -1, read |-> -1]

(* Of ceil(freq/period), ceil(1000000/period), ceil(1000/period) and 1,    *)
(* ALTERA_AVALON_TIMER_FREQ takes the one for the units.                   *)
TimerFreq(p) ==
    LET ceil(n) == (n + (p[1] - 1)) \div p[1] IN
    CASE p[2] = "us" -> ceil(US) [] p[2] = "ms" -> ceil(MS) [] OTHER -> 1

PeriodUs == timer_period[1] * (CASE timer_period[2] = "us" -> 1 [] timer_period[2] = "ms" -> US \div MS
                                 [] OTHER -> US)

(* ALTERA_AVALON_TIMER_INIT: alt_avalon_timer_sc_init(), whose             *)
(* alt_sysclk_init() takes the first rate it is given, or the two globals  *)
(* of the timestamp driver.                                                *)
AltTimerInit ==
    /\ tstep = "boot" /\ tstep' = "idle"
    /\ \/ /\ role = "sys_clk"
          /\ tick_rate' = TimerFreq(timer_period)
          /\ timer' = [timer EXCEPT !.run = TRUE, !.cont = TRUE] /\ UNCHANGED ts_freq
       \/ /\ role = "timestamp"
          /\ ts_freq' = TRUE /\ UNCHANGED <<tick_rate, timer>>
       \/ role = "none" /\ UNCHANGED <<tick_rate, ts_freq, timer>>
    /\ UNCHANGED <<timer_period, role, systicks, resettime, answer, timeouts, set_to, started>>

(* Microseconds since reset, up to the last interrupt that was served. *)
Elapsed == (timeouts - (IF timer.to THEN 1 ELSE 0)) * PeriodUs

(* A clock of the timer: at zero it reloads, raises TO, and stops unless   *)
(* CONT is set.                                                            *)
TimerCounts ==
    /\ timer.run /\ ~(role = "sys_clk" /\ timer.to) /\ timeouts < MaxTimeouts
    /\ timer' = IF timer.count # 0 THEN [timer EXCEPT !.count = @ - 1]
                ELSE [timer EXCEPT !.count = timer.lo + timer.hi * HalfRange, !.to = TRUE,
                                   !.run = timer.cont]
    /\ timeouts' = timeouts + (IF role = "sys_clk" THEN 1 ELSE 0)
    /\ started' = [started EXCEPT !.clocks = IF timer.count = 0 THEN 0 ELSE @ + 1]
    /\ UNCHANGED <<timer_period, role, tick_rate, systicks, ts_freq, resettime, tstep, answer, set_to>>

(* alt_avalon_timer_sc_irq(): TO is cleared, and alt_tick() counts.        *)
alt_avalon_timer_sc_irq ==
    /\ role = "sys_clk" /\ timer.to
    /\ timer' = [timer EXCEPT !.to = FALSE]
    /\ systicks' = CWord(systicks + 1)
    /\ UNCHANGED <<timer_period, role, tick_rate, ts_freq, resettime, tstep, answer, timeouts, set_to, started>>

----------------------------------------------------------------------------
(* The wall clock                                                          *)

(* Mutant of Normal: without the loop that carries into the seconds. *)
Normal_NoCarry(sec, usec) ==
    IF usec < 0 /\ sec * US + usec < 0 THEN [sec |-> 0, usec |-> 0]
    ELSE IF usec < 0 THEN [sec |-> (sec * US + usec) \div US, usec |-> usec % US]
    ELSE [sec |-> sec, usec |-> usec]

(* The two loops of gettimeofday(): a negative time is 0, and the          *)
(* microseconds borrow from the seconds and carry into them.               *)
Normal(sec, usec) ==
    IF usec < 0 /\ sec * US + usec < 0 THEN [sec |-> 0, usec |-> 0]
    ELSE [sec |-> sec + usec \div US, usec |-> usec % US]

(* The tick count as seconds and microseconds; settimeofday() multiplies   *)
(* in a word, gettimeofday() in two.                                       *)
Seconds == systicks \div tick_rate
MicrosOf(product) == product % US

ALT_GETTIMEOFDAY ==
    /\ tstep = "idle"
    /\ answer' =
         IF tick_rate = 0 THEN [op |-> "gettimeofday", ret |-> "-ENOTSUP"]
         ELSE [op |-> "gettimeofday", ret |-> "0",
               time |-> Normal(resettime.sec + Seconds,
                               resettime.usec + MicrosOf(systicks * (US \div tick_rate))),
               zone |-> resettime.zone, when |-> Elapsed]
    /\ UNCHANGED <<timer_period, role, timer, tick_rate, systicks, ts_freq, resettime, tstep,
                   timeouts, set_to, started>>

ALT_SETTIMEOFDAY(t, zone) ==
    /\ tstep = "idle" /\ systicks * PeriodUs <= SetWithin
    /\ answer' = [op |-> "settimeofday", ret |-> IF tick_rate = 0 THEN "-1" ELSE "0"]
    /\ IF tick_rate = 0 THEN UNCHANGED <<resettime, set_to>>
       ELSE /\ resettime' = [sec |-> t.sec - Seconds,
                             usec |-> t.usec - MicrosOf(CWord(systicks * (US \div tick_rate))),
                             zone |-> zone]
            /\ set_to' = [time |-> t, zone |-> zone, when |-> Elapsed]
    /\ UNCHANGED <<timer_period, role, timer, tick_rate, systicks, ts_freq, tstep, timeouts, started>>

ALT_TIMES ==
    /\ tstep = "idle"
    /\ answer' = IF tick_rate = 0 THEN [op |-> "times", ret |-> "ENOSYS"]
                 ELSE [op |-> "times", ret |-> "0", ticks |-> systicks, when |-> Elapsed]
    /\ UNCHANGED <<timer_period, role, timer, tick_rate, systicks, ts_freq, resettime, tstep,
                   timeouts, set_to, started>>

----------------------------------------------------------------------------
(* The timestamp                                                           *)

(* One access of the driver to the timer, which may count in between.  A   *)
(* period register stops and reloads the counter; a write to SNAPL takes   *)
(* the counter into the snapshot.                                          *)
Access(from, to, next) ==
    /\ tstep = from /\ tstep' = to /\ timer' = next
    /\ UNCHANGED <<timer_period, role, tick_rate, systicks, ts_freq, resettime, timeouts, set_to>>

Reloaded(next) == [next EXCEPT !.count = next.lo + next.hi * HalfRange, !.run = FALSE]

alt_timestamp_start ==
    \/ /\ ~ts_freq /\ Access("idle", "idle", timer)
       /\ answer' = [op |-> "timestamp_start", ret |-> "-1"] /\ UNCHANGED started
    \/ /\ ts_freq /\ UNCHANGED <<answer, started>>
       /\ \/ Access("idle", "start_lo", [timer EXCEPT !.run = FALSE, !.cont = FALSE])
          \/ Access("start_lo", "start_hi", Reloaded([timer EXCEPT !.lo = FullHalf]))
          \/ Access("start_hi", "start", Reloaded([timer EXCEPT !.hi = FullHalf]))
    \/ /\ Access("start", "idle", [timer EXCEPT !.run = TRUE])
       /\ answer' = [op |-> "timestamp_start", ret |-> "0"]
       /\ started' = [started EXCEPT !.clocks = 0]

(* Mutant of Snapshot: the halves are read from the counter as it runs. *)
Snapshot_Live(t) == t.count

Snapshot(t) == t.snap

(* Both halves are read from the snapshot; after the roll-over the counter *)
(* rests at full scale again and the result is 0.                          *)
alt_timestamp ==
    \/ /\ ~ts_freq /\ Access("idle", "idle", timer)
       /\ answer' = [op |-> "timestamp", ret |-> FullScale] /\ UNCHANGED started
    \/ /\ ts_freq /\ Access("idle", "snap_lo", [timer EXCEPT !.snap = timer.count])
       /\ started' = [started EXCEPT !.read = started.clocks] /\ UNCHANGED answer
    \/ /\ Access("snap_lo", "snap_hi", timer) /\ UNCHANGED started
       /\ answer' = [op |-> "lower", ret |-> Snapshot(timer) % HalfRange]
    \/ /\ Access("snap_hi", "idle", timer) /\ UNCHANGED started
       /\ answer' = [op |-> "timestamp",
                     ret |-> FullScale - ((Snapshot(timer) \div HalfRange) * HalfRange + answer.ret)]

----------------------------------------------------------------------------
(* usleep()                                                                *)

(* The times round the loops: a whole number of loops of INT_MAX, then the *)
(* rest.  Behind the first kind the loop ends at zero only, so none left   *)
(* is a whole word; otherwise it ends below one, so none left is once.     *)
Rounds(us) ==
    LET big_loops == us \div UsPerLoop
        left == CWord((us - big_loops * UsPerLoop) * LoopsPerUs)
    IN  big_loops * INT_MAX
        + (IF left # 0 THEN left ELSE IF big_loops > 0 THEN WordRange ELSE 1)

ALT_USLEEP(us) ==
    /\ tstep = "idle"
    /\ answer' = [op |-> "usleep", us |-> us, rounds |-> Rounds(us)]
    /\ UNCHANGED <<timer_period, role, timer, tick_rate, systicks, ts_freq, resettime, tstep,
                   timeouts, set_to, started>>

TimeNext ==
    \/ AltTimerInit \/ TimerCounts \/ alt_avalon_timer_sc_irq
    \/ ALT_GETTIMEOFDAY \/ ALT_TIMES \/ \E t \in TimesToSet, z \in {0, 1} : ALT_SETTIMEOFDAY(t, z)
    \/ alt_timestamp_start \/ alt_timestamp
    \/ \E us \in TimesToSleep : ALT_USLEEP(us)

TimeSpec == TimeInit /\ [][TimeNext]_time_vars

----------------------------------------------------------------------------
Answered(op) == answer.op = op /\ answer.ret = "0"
Micros(time) == time.sec * US + time.usec

(* gettimeofday() gives the time set and the time since, and times() the   *)
(* interrupts since reset, when the timer is the system clock and only     *)
(* then.                                                                   *)
WallClockKept ==
    /\ Answered("gettimeofday") =>
           /\ Micros(answer.time) = Micros(set_to.time) + answer.when - set_to.when
           /\ answer.time.usec \in 0..US - 1 /\ answer.zone = set_to.zone
    /\ Answered("times") => answer.ticks * PeriodUs = answer.when
    /\ answer.op \in {"gettimeofday", "settimeofday", "times"} => (answer.ret = "0" <=> role = "sys_clk")

(* A timestamp is the clocks since the start when it was taken, and 0 when *)
(* the counter has rolled over: so altera_avalon_timer_ts.c:57-58, though  *)
(* lines 92-94 say that alt_timestamp() returns -1 then, as it does when   *)
(* there is no timestamp.  It promises nothing before the first start.     *)
TimestampKept ==
    (answer.op = "timestamp" /\ tstep = "idle") =>
        IF role = "timestamp" THEN started.read \in {-1, answer.ret} ELSE answer.ret = FullScale

(* usleep() counts as many rounds as were asked for, and at most the       *)
(* remainder of a long loop more for each of them; at least one.           *)
SleepKept ==
    answer.op = "usleep" =>
        \E extra \in 0..(answer.us \div UsPerLoop) * (INT_MAX % LoopsPerUs) :
            answer.rounds = IF answer.us = 0 THEN 1 ELSE answer.us * LoopsPerUs + extra

(* Time is kept, by whatever the timer is used for: the wall clock across  *)
(* ticks, settings and carries, the timestamp across restarts and its      *)
(* roll-over, and the loops of usleep() across the range of an int.        *)
TimeKept == WallClockKept /\ TimestampKept /\ SleepKept

(* alt_settod.c:61: an immediate call to gettimeofday() would return the   *)
(* value specified.                                                        *)
SetTakesEffect ==
    Answered("gettimeofday") /\ answer.when = set_to.when => answer.time = set_to.time
================================================================================
