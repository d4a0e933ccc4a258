------------------------------- MODULE AlarmClock -------------------------------
(***************************************************************************)
(* What the users of alt_alarm_start() rely on: an alarm that is started   *)
(* with n ticks is called back n + 1 ticks later, and then as often as its *)
(* callback asks for, at no other time, until it is stopped.               *)
(***************************************************************************)
EXTENDS Naturals

CONSTANTS Alarms,
          MaxTicks     \* the longest time an alarm can be set to

VARIABLES
    armed,      \* the alarms that are running
    left,       \* ticks until each of them is due; 0 for the others
    ticking     \* whether a tick is being processed

clock_vars == <<armed, left, ticking>>

Due == {a \in armed : left[a] = 0}

AlarmClockInit ==
    armed = {} /\ left = [a \in Alarms |-> 0] /\ ticking = FALSE

Set(a, n) == armed' = armed \cup {a} /\ left' = [left EXCEPT ![a] = n]

Start(a) ==
    /\ a \notin armed
    /\ \E n \in 0..MaxTicks : Set(a, n + 1)
    /\ UNCHANGED ticking

Stop(a) ==
    /\ armed' = armed \ {a} /\ left' = [left EXCEPT ![a] = 0]
    /\ UNCHANGED ticking

TickBegins ==
    /\ ~ticking
    /\ left' = [a \in Alarms |-> IF a \in armed THEN left[a] - 1 ELSE 0]
    /\ ticking' = TRUE /\ UNCHANGED armed

(* The callback of an alarm that is due: it asks to be called again, or    *)
(* not, or starts another alarm instead.                                   *)
CallBack(a) ==
    /\ ticking /\ a \in Due
    /\ \/ \E n \in 1..MaxTicks : Set(a, n)
       \/ armed' = armed \ {a} /\ UNCHANGED left
       \/ \E b \in Alarms \ armed, n \in 0..MaxTicks :
             /\ armed' = (armed \ {a}) \cup {b} /\ left' = [left EXCEPT ![b] = n + 1]
    /\ UNCHANGED ticking

TickEnds ==
    /\ ticking /\ Due = {}
    /\ ticking' = FALSE /\ UNCHANGED <<armed, left>>

AlarmClockNext ==
    \/ \E a \in Alarms : Start(a) \/ Stop(a) \/ CallBack(a)
    \/ TickBegins \/ TickEnds

AlarmClockSpec == AlarmClockInit /\ [][AlarmClockNext]_clock_vars
================================================================================
