--------------------------------- MODULE Alarms ---------------------------------
(***************************************************************************)
(* The alarms of the HAL: the list of alarms that alt_alarm_start() and    *)
(* alt_alarm_stop() change with the interrupts disabled and that alt_tick()*)
(* walks at interrupt level, on a tick counter and alarm times of an       *)
(* alt_u32, which has TickRange values (2^32 in the code).                 *)
(*                                                                         *)
(* A callback may start another alarm.  It may not stop the alarm behind   *)
(* it on the list: alt_tick() has read that one already and would go round *)
(* in it for ever (alt_tick.c:102 and 140).  Nor may a program wait for    *)
(* TickRange - 1 ticks: the time of that alarm is the present one, without *)
(* a roll-over, and the next tick calls it (alt_alarm_start.c:82-96).      *)
(***************************************************************************)
EXTENDS Integers

CONSTANTS AlarmSet,
          TickRange,   \* the number of values of an alt_u32
          Waits,       \* the numbers of ticks the program asks for
          TickRate     \* alt_ticks_per_second(); 0 without a system clock

ASSUME AlarmAssumption ==
    /\ TickRange \in Nat \ {0, 1} /\ TickRate \in Nat
    /\ Waits \subseteq 0..(TickRange - 2)
    /\ AlarmSet \cap {"alt_alarm_list", "none"} = {}

Wrap(n) == n % TickRange

Head0 == "alt_alarm_list"
Nodes == AlarmSet \cup {Head0}

VARIABLES
    nticks,     \* _alt_nticks
    time, rollover, next, previous,     \* the fields of the alarms and the head
    cursor,     \* the entry that alt_tick() is at, or "none": it is not running
    after       \* its local variable next

alarm_vars == <<nticks, time, rollover, next, previous, cursor, after>>

AlarmsInit ==
    /\ nticks \in {0, TickRange - 2}
    /\ time = [a \in AlarmSet |-> 0] /\ rollover = [a \in AlarmSet |-> FALSE]
    /\ next = [n \in Nodes |-> n] /\ previous = [n \in Nodes |-> n]
    /\ cursor = "none" /\ after = Head0

Registered == {a \in AlarmSet : next[a] # a}

alt_llist_insert(a) ==
    /\ next' = [next EXCEPT ![a] = next[Head0], ![Head0] = a]
    /\ previous' = [[previous EXCEPT ![a] = Head0] EXCEPT ![next[Head0]] = a]

(* Mutant of alt_llist_remove: an entry that is removed stays linked. *)
remove_OneWay(a) ==
    /\ next' = [next EXCEPT ![previous[a]] = next[a], ![a] = a]
    /\ previous' = [previous EXCEPT ![a] = a]

alt_llist_remove(a) ==
    /\ next' = [[next EXCEPT ![previous[a]] = next[a]] EXCEPT ![a] = a]
    /\ previous' = [[previous EXCEPT ![next[a]] = previous[a]] EXCEPT ![a] = a]

SetAlarm(a, n) ==
    /\ time' = [time EXCEPT ![a] = Wrap(n + nticks + 1)]
    /\ rollover' = [rollover EXCEPT ![a] = Wrap(n + nticks + 1) < nticks]

(* Without a system clock it returns -ENOTSUP. *)
alt_alarm_start(a, n) ==
    /\ TickRate # 0 /\ cursor = "none" /\ a \notin Registered
    /\ SetAlarm(a, n)
    /\ alt_llist_insert(a)
    /\ UNCHANGED <<nticks, cursor, after>>

alt_alarm_stop(a) ==
    /\ cursor = "none"
    /\ alt_llist_remove(a)
    /\ UNCHANGED <<nticks, time, rollover, cursor, after>>

(* alt_tick() begins: it counts the tick and reads the head of the list. *)
TickStarts ==
    /\ TickRate # 0 /\ cursor = "none"
    /\ nticks' = Wrap(nticks + 1)
    /\ cursor' = next[Head0] /\ after' = next[next[Head0]]
    /\ UNCHANGED <<time, rollover, next, previous>>

TickReturns ==
    /\ cursor = Head0 /\ cursor' = "none" /\ after' = Head0
    /\ UNCHANGED <<nticks, time, rollover, next, previous>>

StillRolled(a) == rollover[a] /\ nticks # 0

Expired(a) == time[a] <= nticks /\ ~StillRolled(a)

Visiting == cursor \in AlarmSet

Advance == cursor' = after /\ after' = next'[after]

PassOver ==
    /\ Visiting /\ ~Expired(cursor)
    /\ rollover' = [rollover EXCEPT ![cursor] = StillRolled(cursor)]
    /\ UNCHANGED <<nticks, time, next, previous>>
    /\ Advance

(* The callback returns 0: the alarm is taken off the list. *)
LastCall ==
    /\ Visiting /\ Expired(cursor)
    /\ rollover' = [rollover EXCEPT ![cursor] = FALSE]
    /\ alt_llist_remove(cursor)
    /\ UNCHANGED <<nticks, time>>
    /\ Advance

Reset(a, n) ==
    /\ time' = [time EXCEPT ![a] = Wrap(@ + n)]
    /\ rollover' = [rollover EXCEPT ![a] = Wrap(time[a] + n) < nticks]

(* It returns n > 0: the alarm is set again. *)
CallAgain(n) ==
    /\ Visiting /\ Expired(cursor)
    /\ Reset(cursor, n)
    /\ UNCHANGED <<nticks, next, previous>>
    /\ Advance

(* It starts another alarm, and then returns 0. *)
CallStarts(a, n) ==
    /\ Visiting /\ Expired(cursor) /\ a \notin Registered
    /\ time' = [time EXCEPT ![a] = Wrap(n + nticks + 1)]
    /\ rollover' = [rollover EXCEPT ![a] = Wrap(n + nticks + 1) < nticks, ![cursor] = FALSE]
    /\ LET first == IF next[Head0] = cursor THEN next[cursor] ELSE next[Head0] IN
       /\ next' = [[next EXCEPT ![previous[cursor]] = next[cursor]]
                       EXCEPT ![cursor] = cursor, ![a] = first, ![Head0] = a]
       /\ previous' = [[[previous EXCEPT ![next[cursor]] = previous[cursor]]
                           EXCEPT ![cursor] = cursor, ![a] = Head0] EXCEPT ![first] = a]
    /\ UNCHANGED nticks
    /\ Advance

alt_tick ==
    \/ TickStarts \/ TickReturns \/ PassOver \/ LastCall
    \/ \E n \in Waits \ {0} : CallAgain(n)
    \/ \E a \in AlarmSet, n \in Waits : CallStarts(a, n)

AlarmsNext ==
    \/ alt_tick
    \/ \E a \in AlarmSet : alt_alarm_stop(a) \/ \E n \in Waits : alt_alarm_start(a, n)

AlarmsSpec == AlarmsInit /\ [][AlarmsNext]_alarm_vars

--------------------------------------------------------------------------------
Clock == INSTANCE AlarmClock WITH
    Alarms   <- AlarmSet,
    MaxTicks <- TickRange - 2,
    ticking  <- cursor # "none",
    armed    <- Registered,
    left     <- [a \in AlarmSet |->
                   IF a \notin Registered THEN 0
                   ELSE IF StillRolled(a) THEN time[a] + TickRange - nticks
                   ELSE time[a] - nticks]

(* Every alarm is called back exactly when it is due, also across the      *)
(* roll-over of the tick counter and while others are started and stopped  *)
(* around it: the list, the times and the roll-over flags of               *)
(* alt_alarm_start.c and alt_tick.c implement AlarmClock.                  *)
ImplementsAlarmClock == Clock!AlarmClockSpec
================================================================================
