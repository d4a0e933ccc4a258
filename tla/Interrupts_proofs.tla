--------------------------- MODULE Interrupts_proofs ---------------------------
(***************************************************************************)
(* The alarms that the timer's interrupt drives, and the dispatch of the   *)
(* interrupts.                                                             *)
(*                                                                         *)
(* The alarms implement AlarmClock, for any number of alarms and any width *)
(* of the tick counter.  What has to be known about the list is that the   *)
(* walk of alt_tick() comes past every alarm that is due: the entries are  *)
(* ranked so that an entry is followed by the one of the next higher rank. *)
(*                                                                         *)
(* Handlers and sections with the interrupts disabled are right for any    *)
(* number of lines and any registrations.  The inductive invariant says    *)
(* what the call under way has done to the table: only the entry of the    *)
(* line it names may be half written, and only while no handler can run.   *)
(***************************************************************************)
EXTENDS Alarms, IrqDispatch, WellFoundedInduction, TLAPS

Words == 0..(TickRange - 1)

AlarmTypeOK ==
    /\ nticks \in Words
    /\ time \in [AlarmSet -> Words] /\ rollover \in [AlarmSet -> BOOLEAN]
    /\ next \in [Nodes -> Nodes] /\ previous \in [Nodes -> Nodes]
    /\ cursor \in Nodes \cup {"none"} /\ after \in Nodes

(* The two directions of a list agree. *)
IsList(nx, pv) ==
    /\ nx \in [Nodes -> Nodes] /\ pv \in [Nodes -> Nodes]
    /\ \A n \in Nodes : nx[pv[n]] = n /\ pv[nx[n]] = n

On(nx) == {a \in AlarmSet : nx[a] # a}

(* The links behind alt_llist_insert() and alt_llist_remove(). *)
InsertNext(nx, a) == [nx EXCEPT ![a] = nx[Head0], ![Head0] = a]
InsertPrevious(nx, pv, a) == [[pv EXCEPT ![a] = Head0] EXCEPT ![nx[Head0]] = a]
RemoveNext(nx, pv, a) == [[nx EXCEPT ![pv[a]] = nx[a]] EXCEPT ![a] = a]
RemovePrevious(nx, pv, a) == [[pv EXCEPT ![nx[a]] = pv[a]] EXCEPT ![a] = a]

(* A list goes through its alarms in the order of their rank. *)
Ranked(nx, rank) ==
    /\ \A m, n \in On(nx) : rank[m] = rank[n] => m = n
    /\ \A m \in On(nx) : nx[Head0] # Head0 /\ rank[nx[Head0]] <= rank[m]
    /\ \A m, n \in On(nx) : rank[n] < rank[m] => nx[n] # Head0 /\ rank[nx[n]] <= rank[m]
    /\ \A n \in On(nx) : nx[n] # Head0 => rank[n] < rank[nx[n]]

(* alt_tick() is at an entry of the list, and knows the one behind it. *)
Walking ==
    cursor # "none" => after = next[cursor] /\ cursor \in Registered \cup {Head0}

(* An alarm of the present turn of the counter is not overdue. *)
InTime == \A a \in Registered : ~StillRolled(a) => nticks <= time[a]

(* What alt_tick() must not miss: an alarm that is due, and a flag that    *)
(* the roll-over of the counter has made out of date.                      *)
Pending(a) ==
    \/ ~StillRolled(a) /\ time[a] = nticks
    \/ rollover[a] /\ nticks = 0

Ahead(rank) ==
    \A a \in Registered : Pending(a) => cursor \in AlarmSet /\ rank[cursor] <= rank[a]

AlarmInv ==
    /\ AlarmTypeOK /\ IsList(next, previous) /\ Walking /\ InTime
    /\ \E rank \in [AlarmSet -> Int] : Ranked(next, rank) /\ Ahead(rank)

Left(a) == IF StillRolled(a) THEN time[a] + TickRange - nticks ELSE time[a] - nticks

--------------------------------------------------------------------------------
(* An entry that is not on a list is in nobody's way. *)
LEMMA OffList ==
    ASSUME NEW nx, NEW pv, IsList(nx, pv), NEW a \in AlarmSet, a \notin On(nx)
    PROVE  nx[a] = a /\ pv[a] = a /\ \A n \in Nodes : n # a => nx[n] # a /\ pv[n] # a
  BY DEF IsList, On, Nodes

(* alt_llist_insert() puts an alarm between the head and the rest. *)
LEMMA InsertKeepsList ==
    ASSUME NEW nx, NEW pv, IsList(nx, pv),
           NEW a \in AlarmSet, a \notin On(nx)
    PROVE  /\ IsList(InsertNext(nx, a), InsertPrevious(nx, pv, a))
           /\ On(InsertNext(nx, a)) = On(nx) \cup {a}
<1> DEFINE nx2 == InsertNext(nx, a)
           pv2 == InsertPrevious(nx, pv, a)
<1>1. /\ nx \in [Nodes -> Nodes] /\ pv \in [Nodes -> Nodes]
      /\ a \in Nodes /\ Head0 \in Nodes /\ a # Head0 /\ Head0 \notin AlarmSet
  BY AlarmAssumption DEF IsList, Nodes, Head0
<1>2. nx[a] = a /\ pv[a] = a /\ \A n \in Nodes : n # a => nx[n] # a /\ pv[n] # a
  BY OffList
<1>3. nx2 \in [Nodes -> Nodes] /\ pv2 \in [Nodes -> Nodes]
  BY <1>1 DEF InsertNext, InsertPrevious
<1>4. \A n \in Nodes : nx2[n] = IF n = Head0 THEN a ELSE IF n = a THEN nx[Head0] ELSE nx[n]
  BY <1>1 DEF InsertNext
<1>5. \A n \in Nodes : pv2[n] = IF n = nx[Head0] THEN a ELSE IF n = a THEN Head0 ELSE pv[n]
  BY <1>1 DEF InsertPrevious
<1> HIDE DEF nx2, pv2
<1>6. \A n \in Nodes : nx[pv[n]] = n /\ pv[nx[n]] = n
  BY DEF IsList
<1>7. \A n \in Nodes : nx2[pv2[n]] = n /\ pv2[nx2[n]] = n
  BY <1>1, <1>2, <1>4, <1>5, <1>6
<1>8. On(nx2) = On(nx) \cup {a}
  BY <1>1, <1>2, <1>4 DEF On, Nodes
<1> QED
  BY <1>3, <1>7, <1>8 DEF IsList, nx2, pv2

(* It comes before all others. *)
LEMMA InsertKeepsRank ==
    ASSUME NEW nx, NEW pv, IsList(nx, pv),
           NEW rank \in [AlarmSet -> Int], Ranked(nx, rank),
           NEW a \in AlarmSet, a \notin On(nx)
    PROVE  \E rank2 \in [AlarmSet -> Int] :
              /\ Ranked(InsertNext(nx, a), rank2)
              /\ \A b \in AlarmSet \ {a} : rank2[b] = rank[b]
<1> DEFINE nx2 == InsertNext(nx, a)
           first == IF nx[Head0] = Head0 THEN 0 ELSE rank[nx[Head0]] - 1
           rank2 == [rank EXCEPT ![a] = first]
<1>1. /\ nx \in [Nodes -> Nodes]
      /\ a \in Nodes /\ Head0 \in Nodes /\ a # Head0 /\ Head0 \notin AlarmSet
  BY AlarmAssumption DEF IsList, Nodes, Head0
<1>2. nx[a] = a /\ \A n \in Nodes : n # a => nx[n] # a
  BY OffList
<1>3. \A n \in Nodes : nx2[n] = IF n = Head0 THEN a ELSE IF n = a THEN nx[Head0] ELSE nx[n]
  BY <1>1 DEF InsertNext
<1>4. On(nx2) = On(nx) \cup {a}
  BY <1>1, <1>2, <1>3 DEF On, Nodes
<1>5. nx[Head0] # Head0 => nx[Head0] \in AlarmSet
  BY <1>1 DEF Nodes
<1>6. first \in Int
  BY <1>5
<1>7. /\ rank2 \in [AlarmSet -> Int] /\ rank2[a] = first
      /\ \A b \in AlarmSet \ {a} : rank2[b] = rank[b]
  BY <1>6
<1>8. \A m \in On(nx) : m \in AlarmSet /\ m # a /\ first < rank[m]
  <2> SUFFICES ASSUME NEW m \in On(nx) PROVE m \in AlarmSet /\ m # a /\ first < rank[m]
    OBVIOUS
  <2>1. m \in AlarmSet /\ rank[m] \in Int
    BY DEF On
  <2>2. nx[Head0] # Head0 /\ rank[nx[Head0]] <= rank[m]
    BY DEF Ranked
  <2>3. rank[nx[Head0]] \in Int
    BY <1>5, <2>2
  <2> QED
    BY <2>1, <2>2, <2>3
<1>9. \A n \in On(nx) : nx2[n] = nx[n] /\ nx[n] # a /\ n \in Nodes
  BY <1>1, <1>2, <1>3 DEF On, Nodes
<1> HIDE DEF first, rank2, nx2
<1>10. \A m, n \in On(nx2) : rank2[m] = rank2[n] => m = n
  BY <1>4, <1>6, <1>7, <1>8 DEF Ranked
<1>11. \A m \in On(nx2) : nx2[Head0] # Head0 /\ rank2[nx2[Head0]] <= rank2[m]
  BY <1>1, <1>3, <1>4, <1>6, <1>7, <1>8
<1>12. \A m, n \in On(nx2) : rank2[n] < rank2[m] => nx2[n] # Head0 /\ rank2[nx2[n]] <= rank2[m]
  BY <1>1, <1>2, <1>3, <1>4, <1>5, <1>6, <1>7, <1>8, <1>9 DEF Ranked, Nodes
<1>13. \A n \in On(nx2) : nx2[n] # Head0 => rank2[n] < rank2[nx2[n]]
  <2> SUFFICES ASSUME NEW n \in On(nx2), nx2[n] # Head0 PROVE rank2[n] < rank2[nx2[n]]
    OBVIOUS
  <2>1. CASE n = a
    <3>1. nx2[n] = nx[Head0] /\ nx[Head0] \in AlarmSet /\ nx[Head0] # a
      BY <1>1, <1>2, <1>3, <1>5, <2>1
    <3> QED
      BY <1>7, <2>1, <3>1 DEF first
  <2>2. CASE n # a
    <3>1. n \in On(nx) /\ nx2[n] = nx[n] /\ nx[n] # a /\ nx[n] \in AlarmSet
      BY <1>1, <1>4, <1>9, <2>2 DEF Nodes
    <3>2. rank[n] < rank[nx[n]]
      BY <3>1 DEF Ranked
    <3> QED
      BY <1>7, <1>8, <3>1, <3>2
  <2> QED
    BY <2>1, <2>2
<1> QED
  BY <1>7, <1>10, <1>11, <1>12, <1>13 DEF Ranked, nx2

(* alt_llist_remove() joins the neighbours of an alarm; the others stay in *)
(* their order.                                                            *)
LEMMA RemoveKeepsList ==
    ASSUME NEW nx, NEW pv, IsList(nx, pv),
           NEW rank \in [AlarmSet -> Int], Ranked(nx, rank), NEW a \in AlarmSet
    PROVE  /\ IsList(RemoveNext(nx, pv, a), RemovePrevious(nx, pv, a))
           /\ On(RemoveNext(nx, pv, a)) = On(nx) \ {a}
<1> DEFINE nx2 == RemoveNext(nx, pv, a)
           pv2 == RemovePrevious(nx, pv, a)
<1>1. nx \in [Nodes -> Nodes] /\ pv \in [Nodes -> Nodes] /\ a \in Nodes
  BY DEF IsList, Nodes
<1>2. \A n \in Nodes : nx[pv[n]] = n /\ pv[nx[n]] = n
  BY DEF IsList
<1>3. nx2 \in [Nodes -> Nodes] /\ pv2 \in [Nodes -> Nodes]
  BY <1>1 DEF RemoveNext, RemovePrevious
<1>4. \A n \in Nodes : nx2[n] = IF n = a THEN a ELSE IF n = pv[a] THEN nx[a] ELSE nx[n]
  BY <1>1 DEF RemoveNext
<1>5. \A n \in Nodes : pv2[n] = IF n = a THEN a ELSE IF n = nx[a] THEN pv[a] ELSE pv[n]
  BY <1>1 DEF RemovePrevious
<1> HIDE DEF nx2, pv2
<1>6. \A n \in Nodes : nx2[pv2[n]] = n /\ pv2[nx2[n]] = n
  BY <1>1, <1>2, <1>4, <1>5
<1>7. On(nx2) = On(nx) \ {a}
  <2>1. ASSUME NEW n \in AlarmSet, n # a PROVE nx2[n] # n <=> nx[n] # n
    <3>1. n \in Nodes /\ n # Head0 /\ a # Head0
      BY AlarmAssumption DEF Nodes, Head0
    <3>2. ~(nx[n] = a /\ nx[a] = n)
      <4> SUFFICES ASSUME nx[n] = a, nx[a] = n PROVE FALSE
        OBVIOUS
      <4>1. n \in On(nx) /\ a \in On(nx) /\ rank[n] \in Int /\ rank[a] \in Int
        BY <2>1 DEF On
      <4>2. rank[n] < rank[a] /\ rank[a] < rank[n]
        BY <3>1, <4>1 DEF Ranked
      <4> QED
        BY <4>1, <4>2
    <3> QED
      BY <1>1, <1>2, <1>4, <2>1, <3>1, <3>2
  <2> QED
    BY <1>1, <1>4, <2>1 DEF On
<1> QED
  BY <1>3, <1>6, <1>7 DEF IsList, nx2, pv2

LEMMA RemoveKeepsRank ==
    ASSUME NEW nx, NEW pv, IsList(nx, pv),
           NEW rank \in [AlarmSet -> Int], Ranked(nx, rank), NEW a \in AlarmSet
    PROVE  Ranked(RemoveNext(nx, pv, a), rank)
<1> DEFINE nx2 == RemoveNext(nx, pv, a)
<1>1. /\ nx \in [Nodes -> Nodes] /\ pv \in [Nodes -> Nodes] /\ a \in Nodes
      /\ Head0 \in Nodes /\ Head0 # a
  BY AlarmAssumption DEF IsList, Nodes, Head0
<1>2. \A n \in Nodes : nx[pv[n]] = n /\ pv[nx[n]] = n
  BY DEF IsList
<1>3. \A n \in Nodes : nx2[n] = IF n = a THEN a ELSE IF nx[n] = a THEN nx[a] ELSE nx[n]
  BY <1>1, <1>2 DEF RemoveNext
<1>4. On(nx2) = On(nx) \ {a}
  BY RemoveKeepsList
<1> HIDE DEF nx2
<1>5. \A n \in Nodes \ {Head0} : n \in AlarmSet /\ rank[n] \in Int
  BY DEF Nodes
<1>6. \A n \in On(nx) : n \in Nodes /\ n # Head0 /\ nx[n] # n
  BY AlarmAssumption DEF On, Nodes, Head0
<1>7. \A n \in AlarmSet : nx[a] # a \/ n = a \/ nx[n] # a
  BY <1>1, <1>2 DEF Nodes
<1>8. \A n \in Nodes : nx[n] = a /\ n # a => a \in On(nx)
  BY <1>1, <1>2 DEF On
<1>9. \A m \in On(nx2) : nx2[Head0] # Head0 /\ rank[nx2[Head0]] <= rank[m]
  <2> SUFFICES ASSUME NEW m \in On(nx2) PROVE nx2[Head0] # Head0 /\ rank[nx2[Head0]] <= rank[m]
    OBVIOUS
  <2>1. m \in On(nx) /\ m # a /\ nx[Head0] # Head0 /\ rank[nx[Head0]] <= rank[m]
    BY <1>4 DEF Ranked
  <2>2. CASE nx[Head0] = a
    <3>1. a \in On(nx) /\ rank[a] # rank[m] /\ rank[a] < rank[m]
      BY <1>1, <1>5, <1>6, <1>8, <2>1, <2>2 DEF Ranked
    <3> QED
      BY <1>1, <1>3, <2>1, <2>2, <3>1 DEF Ranked
  <2>3. CASE nx[Head0] # a
    BY <1>1, <1>3, <2>1, <2>3
  <2> QED
    BY <2>2, <2>3
<1>10. ASSUME NEW m \in On(nx2), NEW n \in On(nx2), rank[n] < rank[m]
       PROVE  nx2[n] # Head0 /\ rank[nx2[n]] <= rank[m]
  <2>1. m \in On(nx) /\ n \in On(nx) /\ m # a /\ n # a /\ nx[n] # Head0 /\ rank[nx[n]] <= rank[m]
    BY <1>4, <1>10 DEF Ranked
  <2>2. CASE nx[n] = a
    <3>1. a \in On(nx) /\ rank[a] # rank[m] /\ rank[a] < rank[m]
      BY <1>1, <1>5, <1>6, <1>8, <2>1, <2>2 DEF Ranked
    <3> QED
      BY <1>1, <1>3, <1>6, <2>1, <2>2, <3>1 DEF Ranked
  <2>3. CASE nx[n] # a
    BY <1>1, <1>3, <1>6, <2>1, <2>3
  <2> QED
    BY <2>2, <2>3
<1>11. ASSUME NEW n \in On(nx2), nx2[n] # Head0
       PROVE  rank[n] < rank[nx2[n]]
  <2>1. n \in On(nx) /\ n # a /\ n \in Nodes
    BY <1>4, <1>6
  <2>2. CASE nx[n] = a
    <3>1. a \in On(nx) /\ rank[n] < rank[a] /\ nx2[n] = nx[a] /\ nx[a] # Head0
      BY <1>1, <1>3, <1>8, <1>11, <2>1, <2>2 DEF Ranked
    <3>2. rank[a] < rank[nx[a]]
      BY <3>1 DEF Ranked
    <3>3. nx[a] \in Nodes
      BY <1>1
    <3> QED
      BY <1>1, <1>5, <1>6, <2>1, <3>1, <3>2, <3>3
  <2>3. CASE nx[n] # a
    BY <1>3, <1>11, <2>1, <2>3 DEF Ranked
  <2> QED
    BY <2>2, <2>3
<1> QED
  BY <1>4, <1>9, <1>10, <1>11 DEF Ranked, nx2

--------------------------------------------------------------------------------
(* A time that is set n ticks ahead is that far away, whether or not it is *)
(* behind the roll-over of the counter.                                    *)
LEMMA TimeAhead ==
    ASSUME NEW n \in 0..(TickRange - 1), nticks \in Words
    PROVE  /\ Wrap(nticks + n) \in Words
           /\ Wrap(nticks + n) < nticks =>
                nticks # 0 /\ Wrap(nticks + n) + TickRange - nticks = n
           /\ ~(Wrap(nticks + n) < nticks) =>
                nticks <= Wrap(nticks + n) /\ Wrap(nticks + n) - nticks = n
<1>1. TickRange \in Nat \ {0} /\ nticks \in Nat /\ n \in Nat
  BY AlarmAssumption DEF Words
<1>2. CASE nticks + n < TickRange
  <2>1. Wrap(nticks + n) = nticks + n
    BY <1>1, <1>2 DEF Wrap
  <2> QED
    BY <1>1, <1>2, <2>1 DEF Words
<1>3. CASE nticks + n >= TickRange
  <2>1. Wrap(nticks + n) = nticks + n - TickRange
    BY <1>1, <1>3 DEF Wrap, Words
  <2> QED
    BY <1>1, <1>3, <2>1 DEF Words
<1> QED
  BY <1>1, <1>2, <1>3

(* What a tick does to the counter. *)
LEMMA TickCounts ==
    ASSUME nticks \in Words
    PROVE  Wrap(nticks + 1) = IF nticks = TickRange - 1 THEN 0 ELSE nticks + 1
  BY AlarmAssumption DEF Words, Wrap

LEMMA WaitsInRange ==
    ASSUME NEW n \in Waits
    PROVE  n \in 0..(TickRange - 2) /\ n + 1 \in 0..(TickRange - 1) /\ n \in 0..(TickRange - 1)
  BY AlarmAssumption

--------------------------------------------------------------------------------
LEMMA AlarmInvInit == AlarmsInit => AlarmInv
<1> SUFFICES ASSUME AlarmsInit PROVE AlarmInv
  OBVIOUS
<1>1. AlarmTypeOK
  BY AlarmAssumption DEF AlarmsInit, AlarmTypeOK, Words, Nodes
<1>2. IsList(next, previous) /\ Registered = {} /\ On(next) = {}
  BY DEF AlarmsInit, IsList, Registered, On, Nodes
<1>3. Walking /\ InTime
  BY <1>2 DEF AlarmsInit, Walking, InTime
<1> DEFINE rank == [a \in AlarmSet |-> 0]
<1>4. rank \in [AlarmSet -> Int] /\ Ranked(next, rank) /\ Ahead(rank)
  BY <1>2 DEF Ranked, Ahead
<1> QED
  BY <1>1, <1>2, <1>3, <1>4 DEF AlarmInv

LEMMA RegisteredOn == Registered = On(next) /\ Registered' = On(next')
  BY DEF Registered, On

(* An alarm is started: it is in time and not pending. *)
LEMMA StartKeepsInv ==
    ASSUME AlarmInv, NEW a \in AlarmSet, NEW n \in Waits, alt_alarm_start(a, n)
    PROVE  AlarmInv' /\ Registered' = Registered \cup {a}
<1>1. /\ cursor = "none" /\ a \notin On(next)
      /\ UNCHANGED <<nticks, cursor, after>>
      /\ time' = [time EXCEPT ![a] = Wrap(n + nticks + 1)]
      /\ rollover' = [rollover EXCEPT ![a] = Wrap(n + nticks + 1) < nticks]
      /\ next' = InsertNext(next, a) /\ previous' = InsertPrevious(next, previous, a)
  BY RegisteredOn DEF alt_alarm_start, SetAlarm, alt_llist_insert, InsertNext, InsertPrevious
<1>2. PICK rank \in [AlarmSet -> Int] : Ranked(next, rank) /\ Ahead(rank)
  BY DEF AlarmInv
<1>3. IsList(next, previous) /\ nticks \in Words /\ AlarmTypeOK
  BY DEF AlarmInv, AlarmTypeOK
<1>4. IsList(next', previous') /\ Registered' = Registered \cup {a}
  BY <1>1, <1>3, InsertKeepsList, RegisteredOn
<1>5. PICK rank2 \in [AlarmSet -> Int] :
         Ranked(next', rank2) /\ \A b \in AlarmSet \ {a} : rank2[b] = rank[b]
  BY <1>1, <1>2, <1>3, InsertKeepsRank
<1>6. /\ time'[a] \in Words
      /\ rollover'[a] => nticks # 0
      /\ ~rollover'[a] => nticks < time'[a]
  <2>1. n + nticks + 1 = nticks + (n + 1) /\ n + 1 > 0 /\ n + 1 \in 0..(TickRange - 1)
    BY <1>3, WaitsInRange, AlarmAssumption DEF Words
  <2> DEFINE t == Wrap(nticks + (n + 1))
  <2>2. time'[a] = t /\ (rollover'[a] <=> t < nticks)
    BY <1>1, <1>3, <2>1 DEF AlarmTypeOK
  <2>3. /\ t \in Words
        /\ t < nticks => nticks # 0
        /\ ~(t < nticks) => nticks <= t /\ t - nticks = n + 1
    BY <1>3, <2>1, TimeAhead
  <2> HIDE DEF t
  <2> QED
    BY <1>3, <2>1, <2>2, <2>3, AlarmAssumption DEF Words
<1>7. AlarmTypeOK'
  BY <1>1, <1>3, <1>4, <1>6 DEF AlarmTypeOK, IsList
<1>8. \A b \in AlarmSet \ {a} : time'[b] = time[b] /\ rollover'[b] = rollover[b]
  BY <1>1, <1>3 DEF AlarmTypeOK
<1>9. InTime'
  BY <1>1, <1>3, <1>4, <1>6, <1>8 DEF InTime, AlarmInv, StillRolled, Registered, Words
<1>10. Ahead(rank2)'
  <2> SUFFICES ASSUME NEW b \in Registered', Pending(b)' PROVE FALSE
    BY DEF Ahead
  <2>1. CASE b = a
    BY <1>1, <1>3, <1>6, <2>1, AlarmAssumption DEF Pending, StillRolled, Words
  <2>2. CASE b # a
    BY <1>1, <1>2, <1>4, <1>8, <2>2, AlarmAssumption DEF Pending, StillRolled, Ahead, Registered
  <2> QED
    BY <2>1, <2>2
<1>11. Walking'
  BY <1>1 DEF Walking
<1> QED
  BY <1>4, <1>5, <1>7, <1>9, <1>10, <1>11 DEF AlarmInv

(* An alarm is stopped. *)
LEMMA StopKeepsInv ==
    ASSUME AlarmInv, NEW a \in AlarmSet, alt_alarm_stop(a)
    PROVE  AlarmInv' /\ Registered' = Registered \ {a}
<1>1. /\ cursor = "none" /\ UNCHANGED <<nticks, time, rollover, cursor, after>>
      /\ next' = RemoveNext(next, previous, a) /\ previous' = RemovePrevious(next, previous, a)
  BY DEF alt_alarm_stop, alt_llist_remove, RemoveNext, RemovePrevious
<1>2. PICK rank \in [AlarmSet -> Int] : Ranked(next, rank) /\ Ahead(rank)
  BY DEF AlarmInv
<1>3. IsList(next, previous) /\ AlarmTypeOK
  BY DEF AlarmInv
<1>4. IsList(next', previous') /\ Registered' = Registered \ {a}
  BY <1>1, <1>2, <1>3, RemoveKeepsList, RegisteredOn
<1>5. Ranked(next', rank)
  BY <1>1, <1>2, <1>3, RemoveKeepsRank
<1>6. Ahead(rank)'
  BY <1>1, <1>2, <1>4 DEF Ahead, Pending, StillRolled
<1>7. InTime' /\ Walking' /\ AlarmTypeOK'
  BY <1>1, <1>3, <1>4 DEF AlarmInv, InTime, StillRolled, Walking, AlarmTypeOK, IsList
<1> QED
  BY <1>2, <1>4, <1>5, <1>6, <1>7 DEF AlarmInv

--------------------------------------------------------------------------------
(* Behind an entry of the list comes another one, or the head. *)
LEMMA NextOnList ==
    ASSUME AlarmInv, NEW n \in Registered \cup {Head0}
    PROVE  next[n] \in Registered \cup {Head0} /\ (n # Head0 => next[n] # n)
<1>1. /\ n \in Nodes /\ next[n] \in Nodes /\ previous[next[n]] = n
      /\ Head0 \notin AlarmSet
  BY AlarmAssumption DEF AlarmInv, IsList, Nodes, Registered, Head0
<1>2. n # Head0 => next[n] # n
  BY DEF Registered
<1>3. next[n] # n => next[next[n]] # next[n]
  <2> SUFFICES ASSUME next[next[n]] = next[n] PROVE next[n] = n
    OBVIOUS
  <2>1. previous[next[next[n]]] = next[n]
    BY <1>1 DEF AlarmInv, IsList
  <2> QED
    BY <1>1, <2>1
<1> QED
  BY <1>1, <1>2, <1>3 DEF Nodes, Registered

(* alt_tick() goes to the next entry: none that it must not miss is behind *)
(* it.                                                                     *)
LEMMA PassesNone ==
    ASSUME AlarmInv, Visiting, NEW rank \in [AlarmSet -> Int], Ranked(next, rank), Ahead(rank)
    PROVE  /\ cursor \in Registered /\ after = next[cursor] /\ after # cursor
           /\ after \in Registered \cup {Head0}
           /\ \A a \in Registered \ {cursor} :
                 Pending(a) => after \in AlarmSet /\ rank[after] <= rank[a]
<1>1. cursor \in AlarmSet /\ cursor # "none" /\ cursor # Head0
  BY AlarmAssumption DEF Visiting, Head0
<1>2. cursor \in Registered /\ after = next[cursor]
  BY <1>1 DEF AlarmInv, Walking
<1>3. after # cursor /\ after \in Registered \cup {Head0}
  BY <1>1, <1>2, NextOnList
<1>4. ASSUME NEW a \in Registered, a # cursor, Pending(a)
      PROVE  after \in AlarmSet /\ rank[after] <= rank[a]
  <2>1. rank[cursor] <= rank[a] /\ rank[cursor] # rank[a]
    BY <1>2, <1>4 DEF Ahead, Ranked, On, Registered
  <2>2. rank[cursor] \in Int /\ rank[a] \in Int
    BY <1>1 DEF Registered
  <2>3. after # Head0 /\ rank[after] <= rank[a]
    BY <1>2, <2>1, <2>2 DEF Ranked, On, Registered
  <2> QED
    BY <1>3, <2>3 DEF Registered
<1> QED
  BY <1>2, <1>3, <1>4

(* The tick brings every registered alarm one tick closer. *)
LEMMA TickKeepsInv ==
    ASSUME AlarmInv, TickStarts
    PROVE  AlarmInv' /\ \A a \in Registered : Left(a)' = Left(a) - 1
<1>1. /\ cursor = "none" /\ nticks' = Wrap(nticks + 1)
      /\ cursor' = next[Head0] /\ after' = next[next[Head0]]
      /\ UNCHANGED <<time, rollover, next, previous>>
  BY DEF TickStarts
<1>2. PICK rank \in [AlarmSet -> Int] : Ranked(next, rank) /\ Ahead(rank)
  BY DEF AlarmInv
<1>3. /\ AlarmTypeOK /\ IsList(next, previous) /\ Head0 \in Nodes
      /\ TickRange \in Nat \ {0, 1} /\ "none" \notin AlarmSet
  BY AlarmAssumption DEF AlarmInv, Nodes
<1>4. /\ nticks \in Nat /\ nticks < TickRange
      /\ \/ nticks = TickRange - 1 /\ nticks' = 0
         \/ nticks < TickRange - 1 /\ nticks' = nticks + 1
  BY <1>1, <1>3, TickCounts DEF AlarmTypeOK, Words
<1>5. AlarmTypeOK'
  BY <1>1, <1>3, <1>4 DEF AlarmTypeOK, Words, Nodes
<1>6. Registered' = Registered
  BY <1>1 DEF Registered
<1>7. ASSUME NEW a \in Registered
      PROVE  Left(a)' = Left(a) - 1 /\ (~StillRolled(a)' => nticks' <= time'[a])
  <2>1. ~Pending(a)
    BY <1>1, <1>2, <1>3 DEF Ahead
  <2>2. time[a] \in Nat /\ time[a] < TickRange
    BY <1>3 DEF AlarmTypeOK, Words, Registered
  <2>3. ~StillRolled(a) => nticks <= time[a]
    BY DEF AlarmInv, InTime
  <2>4. CASE rollover[a]
    BY <1>1, <1>3, <1>4, <2>1, <2>2, <2>4 DEF Left, StillRolled, Pending
  <2>5. CASE ~rollover[a]
    BY <1>1, <1>3, <1>4, <2>1, <2>2, <2>3, <2>5 DEF Left, StillRolled, Pending
  <2> QED
    BY <2>4, <2>5
<1>8. Walking'
  BY <1>1, <1>6, NextOnList DEF Walking
<1>9. Ahead(rank)'
  BY <1>1, <1>2, <1>3, <1>6 DEF Ahead, Ranked, On, Registered, IsList, Nodes
<1> QED
  BY <1>1, <1>2, <1>3, <1>5, <1>6, <1>7, <1>8, <1>9 DEF AlarmInv, InTime

(* What is due is what is called. *)
LEMMA ExpiredIsDue ==
    ASSUME AlarmInv, NEW a \in Registered
    PROVE  /\ Left(a) \in Nat /\ (Expired(a) <=> Left(a) = 0)
           /\ Expired(a) => time[a] = nticks
           /\ Left(a) = 0 => Pending(a)
<1>1. TickRange \in Nat /\ nticks \in Words /\ time[a] \in Words
  BY AlarmAssumption DEF AlarmInv, AlarmTypeOK, Registered
<1>2. ~StillRolled(a) => nticks <= time[a]
  BY DEF AlarmInv, InTime
<1> QED
  BY <1>1, <1>2 DEF Left, Expired, Pending, Words

(* Whatever a callback does, alt_tick() goes on ahead of what is pending,  *)
(* as long as nothing becomes pending and the entry it leaves is not.      *)
LEMMA AheadKept ==
    ASSUME AlarmInv, Visiting, NEW rank \in [AlarmSet -> Int], Ranked(next, rank), Ahead(rank),
           NEW rank2, \A a \in Registered : rank2[a] = rank[a],
           cursor' = after,
           \A a \in Registered' : Pending(a)' => a \in Registered \ {cursor} /\ Pending(a)
    PROVE  Ahead(rank2)'
<1> SUFFICES ASSUME NEW a \in Registered', Pending(a)'
             PROVE  cursor' \in AlarmSet /\ rank2[cursor'] <= rank2[a]
  BY DEF Ahead
<1>1. a \in Registered \ {cursor} /\ Pending(a)
  OBVIOUS
<1>2. after \in AlarmSet /\ after \in Registered /\ rank[after] <= rank[a]
  BY <1>1, PassesNone, AlarmAssumption DEF Head0
<1> QED
  BY <1>1, <1>2

(* An alarm that is not due yet is passed over. *)
LEMMA PassOverKeepsInv ==
    ASSUME AlarmInv, PassOver
    PROVE  /\ AlarmInv' /\ Registered' = Registered /\ cursor' # "none"
           /\ \A a \in Registered : Left(a)' = Left(a)
<1>1. /\ Visiting /\ ~Expired(cursor)
      /\ rollover' = [rollover EXCEPT ![cursor] = StillRolled(cursor)]
      /\ UNCHANGED <<nticks, time, next, previous>>
      /\ cursor' = after /\ after' = next[after]
  BY DEF PassOver, Advance
<1>2. PICK rank \in [AlarmSet -> Int] : Ranked(next, rank) /\ Ahead(rank)
  BY DEF AlarmInv
<1>3. AlarmTypeOK /\ IsList(next, previous) /\ cursor \in AlarmSet
  BY <1>1 DEF AlarmInv, Visiting
<1>4. cursor \in Registered /\ after \in Registered \cup {Head0}
  BY <1>1, <1>2, PassesNone
<1>5. /\ rollover' \in [AlarmSet -> BOOLEAN] /\ (rollover'[cursor] <=> StillRolled(cursor))
      /\ \A a \in AlarmSet \ {cursor} : rollover'[a] = rollover[a]
  BY <1>1, <1>3 DEF AlarmTypeOK, StillRolled
<1>6. AlarmTypeOK' /\ Registered' = Registered
  BY <1>1, <1>3, <1>5 DEF AlarmTypeOK, Registered, Nodes
<1>7. ASSUME NEW a \in AlarmSet
      PROVE  StillRolled(a)' <=> StillRolled(a)
  BY <1>1, <1>5 DEF StillRolled
<1>8. \A a \in Registered : Left(a)' = Left(a)
  BY <1>1, <1>7 DEF Left, Registered
<1>9. InTime'
  BY <1>1, <1>6, <1>7 DEF InTime, AlarmInv, Registered
<1>10. cursor' # "none" /\ Walking'
  BY <1>1, <1>4, <1>6, AlarmAssumption DEF Walking, Registered, Head0
<1>11. ASSUME NEW a \in Registered, Pending(a)'
       PROVE  a # cursor /\ Pending(a)
  <2>1. a \in AlarmSet /\ time'[a] = time[a] /\ nticks' = nticks
    BY <1>1 DEF Registered
  <2>2. a # cursor
    <3> SUFFICES ASSUME a = cursor PROVE FALSE
      OBVIOUS
    <3>1. ~StillRolled(a) => time[a] # nticks
      BY <1>1, <1>3 DEF Expired, AlarmTypeOK, Words
    <3>2. rollover'[a] => nticks # 0
      BY <1>5 DEF StillRolled
    <3> QED
      BY <1>7, <1>11, <2>1, <3>1, <3>2 DEF Pending
  <2> QED
    BY <1>5, <1>7, <1>11, <2>1, <2>2 DEF Pending
<1>12. Ahead(rank)'
  BY <1>1, <1>2, <1>6, <1>11, AheadKept
<1> QED
  BY <1>1, <1>2, <1>3, <1>6, <1>8, <1>9, <1>10, <1>12 DEF AlarmInv

(* The callback of an alarm that is due returns 0: it is off the list, and *)
(* the others are as they were.                                            *)
LEMMA LastCallKeepsInv ==
    ASSUME AlarmInv, LastCall
    PROVE  /\ AlarmInv' /\ cursor \in Registered /\ Left(cursor) = 0 /\ cursor' # "none"
           /\ Registered' = Registered \ {cursor}
           /\ \A a \in Registered \ {cursor} : Left(a)' = Left(a)
<1>1. /\ Visiting /\ Expired(cursor)
      /\ rollover' = [rollover EXCEPT ![cursor] = FALSE]
      /\ next' = RemoveNext(next, previous, cursor)
      /\ previous' = RemovePrevious(next, previous, cursor)
      /\ UNCHANGED <<nticks, time>> /\ cursor' = after /\ after' = next'[after]
  BY DEF LastCall, Advance, alt_llist_remove, RemoveNext, RemovePrevious
<1>2. PICK rank \in [AlarmSet -> Int] : Ranked(next, rank) /\ Ahead(rank)
  BY DEF AlarmInv
<1>3. AlarmTypeOK /\ IsList(next, previous) /\ cursor \in AlarmSet
  BY <1>1 DEF AlarmInv, Visiting
<1>4. cursor \in Registered /\ after # cursor /\ after \in Registered \cup {Head0}
  BY <1>1, <1>2, PassesNone
<1>5. /\ rollover' \in [AlarmSet -> BOOLEAN]
      /\ \A a \in AlarmSet \ {cursor} : rollover'[a] = rollover[a]
  BY <1>1, <1>3 DEF AlarmTypeOK
<1>6. IsList(next', previous') /\ Registered' = Registered \ {cursor} /\ Ranked(next', rank)
  BY <1>1, <1>2, <1>3, RemoveKeepsList, RemoveKeepsRank, RegisteredOn
<1>7. AlarmTypeOK'
  BY <1>1, <1>3, <1>4, <1>5, <1>6 DEF AlarmTypeOK, IsList, Nodes, Registered
<1>8. ASSUME NEW a \in Registered \ {cursor}
      PROVE  (StillRolled(a)' <=> StillRolled(a)) /\ Left(a)' = Left(a)
             /\ (Pending(a)' => Pending(a)) /\ time'[a] = time[a]
  BY <1>1, <1>5 DEF StillRolled, Left, Pending, Registered
<1>9. InTime'
  BY <1>1, <1>6, <1>8 DEF InTime, AlarmInv
<1>10. cursor' # "none" /\ Walking'
  BY <1>1, <1>4, <1>6, AlarmAssumption DEF Walking, Registered, Head0
<1>11. Ahead(rank)'
  BY <1>1, <1>2, <1>6, <1>8, AheadKept
<1>12. Left(cursor) = 0
  BY <1>1, <1>4, ExpiredIsDue
<1> QED
  BY <1>2, <1>4, <1>6, <1>7, <1>8, <1>9, <1>10, <1>11, <1>12 DEF AlarmInv

(* It returns n: it is due again in n ticks. *)
LEMMA CallAgainKeepsInv ==
    ASSUME AlarmInv, NEW n \in Waits \ {0}, CallAgain(n), NEW c, c = cursor
    PROVE  /\ AlarmInv' /\ c \in Registered /\ Left(c) = 0 /\ cursor' # "none"
           /\ Registered' = Registered /\ Left(c)' = n
           /\ \A a \in Registered \ {c} : Left(a)' = Left(a)
<1>1. /\ Visiting /\ Expired(c)
      /\ time' = [time EXCEPT ![c] = Wrap(@ + n)]
      /\ rollover' = [rollover EXCEPT ![c] = Wrap(time[c] + n) < nticks]
      /\ UNCHANGED <<nticks, next, previous>> /\ cursor' = after /\ after' = next[after]
  BY DEF CallAgain, Advance, Reset
<1>2. PICK rank \in [AlarmSet -> Int] : Ranked(next, rank) /\ Ahead(rank)
  BY DEF AlarmInv
<1>3. AlarmTypeOK /\ IsList(next, previous) /\ c \in AlarmSet /\ nticks \in Words
  BY <1>1 DEF AlarmInv, Visiting, AlarmTypeOK
<1>4. c \in Registered /\ after \in Registered \cup {Head0}
  BY <1>1, <1>2, PassesNone
<1>5. time[c] = nticks /\ Left(c) = 0
  BY <1>1, <1>4, ExpiredIsDue
<1> DEFINE t == Wrap(nticks + n)
<1>6. /\ t \in Words
      /\ t < nticks => nticks # 0 /\ t + TickRange - nticks = n
      /\ ~(t < nticks) => nticks <= t /\ t - nticks = n
  BY <1>3, TimeAhead, WaitsInRange
<1>7. /\ time' \in [AlarmSet -> Words] /\ time'[c] = t
      /\ rollover' \in [AlarmSet -> BOOLEAN] /\ (rollover'[c] <=> t < nticks)
      /\ \A a \in AlarmSet \ {c} : rollover'[a] = rollover[a] /\ time'[a] = time[a]
  <2>1. time' = [time EXCEPT ![c] = t] /\ rollover' = [rollover EXCEPT ![c] = t < nticks]
    BY <1>1, <1>5
  <2>2. (t < nticks) \in BOOLEAN
    OBVIOUS
  <2> HIDE DEF t
  <2> QED
    BY <1>3, <1>6, <2>1, <2>2 DEF AlarmTypeOK
<1> HIDE DEF t
<1>8. AlarmTypeOK' /\ Registered' = Registered
  BY <1>1, <1>3, <1>4, <1>7 DEF AlarmTypeOK, Registered, Nodes
<1>9. n > 0 /\ n \in Nat
  BY WaitsInRange, AlarmAssumption
<1>10. Left(c)' = n /\ ~Pending(c)' /\ (~StillRolled(c)' => nticks' <= time'[c])
  BY <1>1, <1>3, <1>6, <1>7, <1>9, AlarmAssumption DEF Left, StillRolled, Pending, Words
<1>11. ASSUME NEW a \in Registered \ {c}
      PROVE  (StillRolled(a)' <=> StillRolled(a)) /\ Left(a)' = Left(a)
             /\ (Pending(a)' => Pending(a)) /\ time'[a] = time[a]
  BY <1>1, <1>7 DEF StillRolled, Left, Pending, Registered
<1>12. InTime'
  BY <1>1, <1>8, <1>10, <1>11 DEF InTime, AlarmInv
<1>13. cursor' # "none" /\ Walking'
  BY <1>1, <1>4, <1>8, AlarmAssumption DEF Walking, Registered, Head0
<1>14. Ahead(rank)'
  BY <1>1, <1>2, <1>8, <1>10, <1>11, AheadKept
<1> QED
  BY <1>1, <1>2, <1>3, <1>4, <1>5, <1>8, <1>10, <1>11, <1>12, <1>13, <1>14 DEF AlarmInv

(* It starts another alarm and returns 0: the list loses one alarm and     *)
(* gains the other, which is not pending.                                  *)
LEMMA CallStartsKeepsInv ==
    ASSUME AlarmInv, NEW b \in AlarmSet, NEW n \in Waits, CallStarts(b, n), NEW c, c = cursor
    PROVE  /\ AlarmInv' /\ c \in Registered /\ Left(c) = 0 /\ cursor' # "none"
           /\ b \notin Registered
           /\ Registered' = (Registered \ {c}) \cup {b} /\ Left(b)' = n + 1
           /\ \A a \in Registered \ {c} : Left(a)' = Left(a)
<1>1. /\ Visiting /\ Expired(c) /\ b \notin Registered
      /\ time' = [time EXCEPT ![b] = Wrap(n + nticks + 1)]
      /\ rollover' = [rollover EXCEPT ![b] = Wrap(n + nticks + 1) < nticks, ![c] = FALSE]
      /\ nticks' = nticks /\ cursor' = after /\ after' = next'[after]
  BY DEF CallStarts, Advance
<1>2. PICK rank \in [AlarmSet -> Int] : Ranked(next, rank) /\ Ahead(rank)
  BY DEF AlarmInv
<1>3. AlarmTypeOK /\ IsList(next, previous) /\ c \in AlarmSet /\ nticks \in Words
  BY <1>1 DEF AlarmInv, Visiting, AlarmTypeOK
<1>4. c \in Registered /\ after \in Registered \cup {Head0} /\ after # c /\ c # b
  BY <1>1, <1>2, PassesNone
<1>5. Left(c) = 0
  BY <1>1, <1>4, ExpiredIsDue
<1> DEFINE nx == RemoveNext(next, previous, c)
           pv == RemovePrevious(next, previous, c)
<1>6. IsList(nx, pv) /\ On(nx) = Registered \ {c} /\ Ranked(nx, rank)
  BY <1>2, <1>3, RemoveKeepsList, RemoveKeepsRank, RegisteredOn
<1>7. next' = InsertNext(nx, b) /\ previous' = InsertPrevious(nx, pv, b)
  <2>1. /\ c \in Nodes /\ b \in Nodes /\ Head0 \in Nodes /\ c # Head0 /\ b # Head0
        /\ next \in [Nodes -> Nodes] /\ previous \in [Nodes -> Nodes]
        /\ next[previous[c]] = c /\ previous[next[Head0]] = Head0
    BY <1>3, AlarmAssumption DEF IsList, Nodes, Head0
  <2> DEFINE first == IF next[Head0] = c THEN next[c] ELSE next[Head0]
  <2>2. nx[Head0] = first
    BY <2>1 DEF RemoveNext
  <2>3. next' = [[next EXCEPT ![previous[c]] = next[c]]
                     EXCEPT ![c] = c, ![b] = first, ![Head0] = b]
    BY DEF CallStarts
  <2>4. previous' = [[[previous EXCEPT ![next[c]] = previous[c]]
                         EXCEPT ![c] = c, ![b] = Head0] EXCEPT ![first] = b]
    BY DEF CallStarts
  <2> HIDE DEF first
  <2> QED
    BY <2>2, <2>3, <2>4 DEF InsertNext, InsertPrevious, RemoveNext, RemovePrevious
<1> HIDE DEF nx, pv
<1>8. /\ IsList(next', previous') /\ Registered' = (Registered \ {c}) \cup {b}
  BY <1>1, <1>6, <1>7, InsertKeepsList, RegisteredOn
<1>9. PICK rank2 \in [AlarmSet -> Int] :
         Ranked(next', rank2) /\ \A a \in AlarmSet \ {b} : rank2[a] = rank[a]
  BY <1>1, <1>6, <1>7, InsertKeepsRank
<1> DEFINE t == Wrap(nticks + (n + 1))
<1>10. n + nticks + 1 = nticks + (n + 1) /\ n + 1 > 0 /\ n + 1 \in 0..(TickRange - 1)
  BY <1>3, WaitsInRange, AlarmAssumption DEF Words
<1>11. /\ t \in Words
       /\ t < nticks => nticks # 0 /\ t + TickRange - nticks = n + 1
       /\ ~(t < nticks) => nticks <= t /\ t - nticks = n + 1
  BY <1>3, <1>10, TimeAhead
<1>12. /\ time' \in [AlarmSet -> Words] /\ time'[b] = t
       /\ rollover' \in [AlarmSet -> BOOLEAN] /\ (rollover'[b] <=> t < nticks)
       /\ \A a \in AlarmSet \ {b, c} : rollover'[a] = rollover[a] /\ time'[a] = time[a]
  <2>1. /\ time' = [time EXCEPT ![b] = t]
        /\ rollover' = [rollover EXCEPT ![b] = t < nticks, ![c] = FALSE]
    BY <1>1, <1>10
  <2>2. (t < nticks) \in BOOLEAN
    OBVIOUS
  <2> HIDE DEF t
  <2> QED
    BY <1>3, <1>4, <1>11, <2>1, <2>2 DEF AlarmTypeOK
<1> HIDE DEF t
<1>13. AlarmTypeOK'
  BY <1>1, <1>3, <1>4, <1>8, <1>12 DEF AlarmTypeOK, IsList, Nodes, Registered
<1>14. Left(b)' = n + 1 /\ ~Pending(b)' /\ (~StillRolled(b)' => nticks' <= time'[b])
  BY <1>1, <1>3, <1>10, <1>11, <1>12, AlarmAssumption DEF Left, StillRolled, Pending, Words
<1>15. ASSUME NEW a \in Registered \ {c}
       PROVE  (StillRolled(a)' <=> StillRolled(a)) /\ Left(a)' = Left(a)
              /\ (Pending(a)' => Pending(a)) /\ time'[a] = time[a]
  BY <1>1, <1>12 DEF StillRolled, Left, Pending, Registered
<1>16. InTime'
  BY <1>1, <1>8, <1>14, <1>15 DEF InTime, AlarmInv
<1>17. cursor' # "none" /\ Walking'
  BY <1>1, <1>4, <1>8, AlarmAssumption DEF Walking, Registered, Head0
<1>18. Ahead(rank2)'
  <2>1. \A a \in Registered : rank2[a] = rank[a]
    BY <1>1, <1>9 DEF Registered
  <2>2. \A a \in Registered' : Pending(a)' => a \in Registered \ {cursor} /\ Pending(a)
    BY <1>8, <1>14, <1>15
  <2> QED
    BY <1>1, <1>2, <2>1, <2>2, AheadKept
<1> QED
  BY <1>1, <1>4, <1>5, <1>8, <1>9, <1>13, <1>14, <1>15, <1>16, <1>17, <1>18 DEF AlarmInv

(* alt_tick() has come past all entries, and nothing is pending. *)
LEMMA TickReturnsKeepsInv ==
    ASSUME AlarmInv, TickReturns
    PROVE  /\ AlarmInv' /\ cursor # "none" /\ cursor' = "none"
           /\ Registered' = Registered /\ \A a \in Registered : Left(a)' = Left(a) /\ Left(a) # 0
<1>1. /\ cursor = Head0 /\ cursor' = "none" /\ after' = Head0
      /\ UNCHANGED <<nticks, time, rollover, next, previous>>
  BY DEF TickReturns
<1>2. PICK rank \in [AlarmSet -> Int] : Ranked(next, rank) /\ Ahead(rank)
  BY DEF AlarmInv
<1>3. Head0 # "none" /\ Head0 \notin AlarmSet
  BY AlarmAssumption DEF Head0
<1>4. Registered' = Registered /\ \A a \in Registered : ~Pending(a)
  BY <1>1, <1>2, <1>3 DEF Ahead, Registered
<1>5. \A a \in Registered : Left(a)' = Left(a) /\ Left(a) # 0
  BY <1>1, <1>4, ExpiredIsDue DEF Left, StillRolled
<1>6. Ahead(rank)'
  BY <1>1, <1>4 DEF Ahead, Pending, StillRolled
<1>7. AlarmTypeOK' /\ IsList(next, previous)' /\ Walking' /\ InTime'
  BY <1>1, <1>4 DEF AlarmInv, AlarmTypeOK, Nodes, Walking, InTime, StillRolled
<1> QED
  BY <1>1, <1>2, <1>3, <1>4, <1>5, <1>6, <1>7 DEF AlarmInv

LEMMA AlarmInvStep == AlarmInv /\ [AlarmsNext]_alarm_vars => AlarmInv'
<1> SUFFICES ASSUME AlarmInv, [AlarmsNext]_alarm_vars PROVE AlarmInv'
  OBVIOUS
<1>1. CASE UNCHANGED alarm_vars
  BY <1>1 DEF alarm_vars, AlarmInv, AlarmTypeOK, Walking, InTime, StillRolled, Registered, Ahead, Pending
<1>2. CASE alt_tick
  BY <1>2, TickKeepsInv, TickReturnsKeepsInv, PassOverKeepsInv, LastCallKeepsInv,
     CallAgainKeepsInv, CallStartsKeepsInv DEF alt_tick
<1>3. CASE \E a \in AlarmSet : alt_alarm_stop(a) \/ \E n \in Waits : alt_alarm_start(a, n)
  BY <1>3, StartKeepsInv, StopKeepsInv
<1> QED
  BY <1>1, <1>2, <1>3 DEF AlarmsNext

(* The inductive invariant holds in every state. *)
LEMMA AlarmInvHolds == AlarmsSpec => []AlarmInv
  BY AlarmInvInit, AlarmInvStep, PTL DEF AlarmsSpec

(* The counter, the times and the links of the list keep their types: no   *)
(* entry ever points outside of the list.                                  *)
THEOREM AlarmTypeCorrect == AlarmsSpec => []AlarmTypeOK
<1>1. AlarmInv => AlarmTypeOK
  BY DEF AlarmInv
<1> QED
  BY <1>1, AlarmInvHolds, PTL

--------------------------------------------------------------------------------
(* What AlarmClock sees of the alarms: the time that is left of each. *)
LeftMap == [a \in AlarmSet |-> IF a \notin Registered THEN 0 ELSE Left(a)]

(* Starting an alarm is Start, stopping it is Stop. *)
LEMMA StartRefines ==
    ASSUME AlarmInv, NEW a \in AlarmSet, NEW n \in Waits, alt_alarm_start(a, n)
    PROVE  Clock!Start(a)
<1>1. /\ cursor = "none" /\ a \notin Registered
      /\ UNCHANGED <<nticks, cursor>>
      /\ time' = [time EXCEPT ![a] = Wrap(n + nticks + 1)]
      /\ rollover' = [rollover EXCEPT ![a] = Wrap(n + nticks + 1) < nticks]
  BY DEF alt_alarm_start, SetAlarm
<1>2. AlarmTypeOK /\ nticks \in Words /\ TickRange \in Nat
  BY AlarmAssumption DEF AlarmInv, AlarmTypeOK
<1>3. Registered' = Registered \cup {a}
  BY StartKeepsInv
<1> DEFINE t == Wrap(nticks + (n + 1))
<1>4. n \in 0..(TickRange - 2) /\ n + 1 \in 0..(TickRange - 1) /\ n + nticks + 1 = nticks + (n + 1)
  BY <1>2, WaitsInRange DEF Words
<1>5. /\ t \in Words
      /\ t < nticks => nticks # 0 /\ t + TickRange - nticks = n + 1
      /\ ~(t < nticks) => t - nticks = n + 1
  BY <1>2, <1>4, TimeAhead
<1>6. /\ time'[a] = t /\ (rollover'[a] <=> t < nticks)
      /\ \A b \in AlarmSet \ {a} : time'[b] = time[b] /\ rollover'[b] = rollover[b]
  BY <1>1, <1>2, <1>4 DEF AlarmTypeOK
<1> HIDE DEF t
<1>7. Left(a)' = n + 1
  BY <1>1, <1>5, <1>6 DEF Left, StillRolled
<1>8. \A b \in Registered : Left(b)' = Left(b)
  BY <1>1, <1>6 DEF Left, StillRolled, Registered
<1>9. LeftMap' = [LeftMap EXCEPT ![a] = n + 1]
  BY <1>3, <1>7, <1>8 DEF LeftMap
<1> QED
  BY <1>1, <1>3, <1>4, <1>9 DEF Clock!Start, Clock!Set, LeftMap, Left

LEMMA StopRefines ==
    ASSUME AlarmInv, NEW a \in AlarmSet, alt_alarm_stop(a)
    PROVE  Clock!Stop(a)
<1>1. cursor = "none" /\ UNCHANGED <<nticks, time, rollover, cursor>>
  BY DEF alt_alarm_stop
<1>2. Registered' = Registered \ {a}
  BY StopKeepsInv
<1>3. LeftMap' = [LeftMap EXCEPT ![a] = 0]
  BY <1>1, <1>2 DEF LeftMap, Left, StillRolled
<1> QED
  BY <1>1, <1>2, <1>3 DEF Clock!Stop, LeftMap, Left

(* The beginning and the end of alt_tick() are TickBegins and TickEnds. *)
LEMMA TickBeginsRefines ==
    ASSUME AlarmInv, TickStarts
    PROVE  Clock!TickBegins
<1>1. cursor = "none" /\ cursor' = next[Head0] /\ next' = next
  BY DEF TickStarts
<1>2. cursor' # "none" /\ Registered' = Registered
  BY <1>1, AlarmAssumption DEF AlarmInv, AlarmTypeOK, Nodes, Head0, Registered
<1>3. \A a \in Registered : Left(a)' = Left(a) - 1
  BY TickKeepsInv
<1>4. LeftMap' = [a \in AlarmSet |-> IF a \in Registered THEN LeftMap[a] - 1 ELSE 0]
  BY <1>2, <1>3 DEF LeftMap
<1> QED
  BY <1>1, <1>2, <1>4 DEF Clock!TickBegins, LeftMap, Left

LEMMA TickEndsRefines ==
    ASSUME AlarmInv, TickReturns
    PROVE  Clock!TickEnds
<1>1. /\ cursor # "none" /\ cursor' = "none" /\ Registered' = Registered
      /\ \A a \in Registered : Left(a)' = Left(a) /\ Left(a) # 0
  BY TickReturnsKeepsInv
<1>2. LeftMap' = LeftMap /\ \A a \in Registered : LeftMap[a] # 0
  BY <1>1 DEF LeftMap, Registered
<1> QED
  BY <1>1, <1>2 DEF Clock!TickEnds, Clock!Due, LeftMap, Left

(* Passing an alarm over is not seen, and a callback is CallBack. *)
LEMMA PassOverRefines ==
    ASSUME AlarmInv, PassOver
    PROVE  UNCHANGED Clock!clock_vars
<1>1. /\ cursor # "none" /\ cursor' # "none" /\ Registered' = Registered
      /\ \A a \in Registered : Left(a)' = Left(a)
  BY PassOverKeepsInv, AlarmAssumption DEF PassOver, Visiting
<1>2. LeftMap' = LeftMap
  BY <1>1 DEF LeftMap
<1> QED
  BY <1>1, <1>2 DEF Clock!clock_vars, LeftMap, Left

LEMMA CallBackRefines ==
    ASSUME AlarmInv,
           \/ LastCall \/ (\E n \in Waits \ {0} : CallAgain(n))
           \/ (\E b \in AlarmSet, n \in Waits : CallStarts(b, n))
    PROVE  \E c \in AlarmSet : Clock!CallBack(c)
<1>1. PICK c \in AlarmSet : c = cursor
  BY DEF LastCall, CallAgain, CallStarts, Visiting
<1>2. cursor # "none"
  BY <1>1, AlarmAssumption
<1>3. CASE LastCall
  <2>1. /\ c \in Registered /\ Left(c) = 0 /\ cursor' # "none" /\ Registered' = Registered \ {c}
        /\ \A a \in Registered \ {c} : Left(a)' = Left(a)
    BY <1>1, <1>3, LastCallKeepsInv
  <2>2. LeftMap' = LeftMap /\ LeftMap[c] = 0
    BY <2>1 DEF LeftMap
  <2> QED
    BY <1>2, <2>1, <2>2 DEF Clock!CallBack, Clock!Due, LeftMap, Left
<1>4. ASSUME NEW n \in Waits \ {0}, CallAgain(n)
      PROVE  Clock!CallBack(c)
  <2>1. /\ c \in Registered /\ Left(c) = 0 /\ cursor' # "none"
        /\ Registered' = Registered /\ Left(c)' = n
        /\ \A a \in Registered \ {c} : Left(a)' = Left(a)
    BY <1>1, <1>4, CallAgainKeepsInv
  <2>2. LeftMap' = [LeftMap EXCEPT ![c] = n] /\ LeftMap[c] = 0
    <3>1. ASSUME NEW a \in AlarmSet
          PROVE  LeftMap'[a] = IF a = c THEN n ELSE LeftMap[a]
      BY <2>1 DEF LeftMap
    <3> QED
      BY <2>1, <3>1 DEF LeftMap
  <2>3. n \in 1..(TickRange - 2) /\ Registered' = Registered \cup {c}
    BY <2>1, WaitsInRange, AlarmAssumption
  <2> QED
    BY <1>2, <2>1, <2>2, <2>3 DEF Clock!CallBack, Clock!Due, Clock!Set, LeftMap, Left
<1>5. ASSUME NEW b \in AlarmSet, NEW n \in Waits, CallStarts(b, n)
      PROVE  Clock!CallBack(c)
  <2>1. /\ c \in Registered /\ Left(c) = 0 /\ cursor' # "none" /\ b \notin Registered
        /\ Registered' = (Registered \ {c}) \cup {b} /\ Left(b)' = n + 1
        /\ \A a \in Registered \ {c} : Left(a)' = Left(a)
    BY <1>1, <1>5, CallStartsKeepsInv
  <2>2. LeftMap' = [LeftMap EXCEPT ![b] = n + 1] /\ LeftMap[c] = 0
    BY <2>1 DEF LeftMap
  <2>3. n \in 0..(TickRange - 2) /\ b \in AlarmSet \ Registered
    BY <2>1, WaitsInRange
  <2> QED
    BY <1>2, <2>1, <2>2, <2>3 DEF Clock!CallBack, Clock!Due, LeftMap, Left
<1> QED
  BY <1>3, <1>4, <1>5

LEMMA StepRefinesAlarmClock ==
    ASSUME AlarmInv, [AlarmsNext]_alarm_vars
    PROVE  [Clock!AlarmClockNext]_(Clock!clock_vars)
<1>1. CASE UNCHANGED alarm_vars
  BY <1>1 DEF alarm_vars, Clock!clock_vars, Registered, StillRolled
<1>2. CASE alt_tick
  BY <1>2, TickBeginsRefines, TickEndsRefines, PassOverRefines, CallBackRefines
  DEF alt_tick, Clock!AlarmClockNext
<1>3. CASE \E a \in AlarmSet : alt_alarm_stop(a) \/ \E n \in Waits : alt_alarm_start(a, n)
  BY <1>3, StartRefines, StopRefines DEF Clock!AlarmClockNext
<1> QED
  BY <1>1, <1>2, <1>3 DEF AlarmsNext

(* Every alarm is called back when it is due and at no other time, however *)
(* many there are, whatever their times, across every roll-over of the     *)
(* tick counter, and while callbacks start, stop and reset alarms around   *)
(* the walk (alt_alarm_start.c:64-112, alt_tick.c:66-148).                 *)
THEOREM AlarmsImplementClock == AlarmsSpec => ImplementsAlarmClock
<1>1. AlarmsInit => Clock!AlarmClockInit
  <2> SUFFICES ASSUME AlarmsInit PROVE Clock!AlarmClockInit
    OBVIOUS
  <2>1. Registered = {}
    BY DEF AlarmsInit, Registered, Nodes
  <2> QED
    BY <2>1 DEF AlarmsInit, Clock!AlarmClockInit
<1> QED
  BY <1>1, AlarmInvHolds, StepRefinesAlarmClock, PTL
  DEF AlarmsSpec, ImplementsAlarmClock, Clock!AlarmClockSpec

--------------------------------------------------------------------------------
(***************************************************************************)
(* The dispatch of the interrupts.                                         *)
(***************************************************************************)
Handlers == Isrs \cup {NullIsr}
Entries == [handler : Handlers, context : Handlers]
RegSteps == {"none", "disable", "handler", "context", "line", "enable"}

IrqTypeOK ==
    /\ lines \in SUBSET Ids /\ ienable \in SUBSET Ids /\ active \in SUBSET Ids
    /\ PIE \in BOOLEAN /\ section \in BOOLEAN /\ saved \in BOOLEAN
    /\ alt_irq \in [Ids -> Entries]
    /\ reg \in [at : RegSteps, id : Ids, isr : Handlers, first : {"none", "handler", "line"}]

Updating == reg.at \in {"handler", "context", "line", "enable"}

(* Whether the interrupts are enabled. *)
Enabled ==
    /\ active # {} => ~PIE /\ ~section /\ ~Updating /\ active \subseteq lines \cap ienable
    /\ active = {} => PIE = (~section /\ ~Updating)
    /\ Updating => saved = ~section

(* What the call under way has done, and the entries it leaves alone. *)
Call ==
    /\ reg.at = "disable" => reg.first \in {"handler", "line"}
    /\ reg.at = "context" => alt_irq[reg.id].handler = reg.isr
    /\ reg.at = "line" \/ (reg.at = "disable" /\ reg.first = "line") =>
           reg.isr \in {alt_irq[reg.id].handler, NullIsr}

Whole(i) ==
    \/ reg.id = i /\ reg.at = "context"
    \/ alt_irq[i].context = alt_irq[i].handler
Served(i) ==
    \/ reg.id = i /\ reg.at \in {"context", "line"} /\ reg.isr = NullIsr
    \/ alt_irq[i].handler # NullIsr

IrqInv ==
    /\ IrqTypeOK /\ Enabled /\ Call
    /\ \A i \in Ids : Whole(i)
    /\ \A i \in ienable : Served(i)
--------------------------------------------------------------------------------
Less == {p \in Nat \X Nat : p[1] < p[2]}

(* There is no endless descent among the naturals. *)
LEMMA LessWellFounded == IsWellFoundedOn(Less, Nat)
  BY NatLessThanWellFounded, Zenon DEF OpToRel, Less

(* The interrupt that is picked is pending, and none pending is below it. *)
LEMMA LowestIsMember ==
    ASSUME NEW S \in SUBSET Nat, S # {}
    PROVE  Lowest(S) \in S /\ \A j \in S : Lowest(S) <= j
<1>1. PICK i \in S : \A j \in S : ~ (<<j, i>> \in Less)
  BY LessWellFounded, WFMin
<1>2. \A j \in S : i <= j
  <2> SUFFICES ASSUME NEW j \in S PROVE i <= j
    OBVIOUS
  <2>1. ~ (j < i)
    <3>1. ASSUME j < i PROVE <<j, i>> \in Less
      <4>1. <<j, i>> \in Nat \X Nat
        OBVIOUS
      <4> DEFINE p == <<j, i>>
      <4>2. p[1] < p[2]
        BY <3>1
      <4> QED
        BY <4>1, <4>2 DEF Less
    <3> QED
      BY <3>1, <1>1
  <2> QED
    BY <2>1
<1> QED
  BY <1>2 DEF Lowest
LEMMA ZeroIsAnId == 0 \in Ids
  BY IrqAssumption DEF Ids

(* No handler is registered, nothing is pending. *)
LEMMA IrqInvInit == IrqInit => IrqInv
<1> SUFFICES ASSUME IrqInit PROVE IrqInv
  OBVIOUS
<1> USE ZeroIsAnId DEF IrqInit, NoReg
<1>1. IrqTypeOK
  BY DEF IrqTypeOK, RegSteps, Handlers, Entries
<1>2. Enabled
  BY DEF Enabled, Updating
<1>3. Call
  BY DEF Call
<1>4. \A i \in Ids : Whole(i)
  BY DEF Whole
<1>5. \A i \in ienable : Served(i)
  OBVIOUS
<1> QED
  BY <1>1, <1>2, <1>3, <1>4, <1>5 DEF IrqInv

(* Every step of devices, driver and dispatcher keeps the invariant. *)
LEMMA IrqInvStep == IrqInv /\ [IrqNext]_irq_vars => IrqInv'
<1> SUFFICES ASSUME IrqInv, [IrqNext]_irq_vars PROVE IrqInv'
  OBVIOUS
<1> USE ZeroIsAnId DEF IrqInv, IrqTypeOK, Handlers, Entries, RegSteps
<1>1. ASSUME NEW i \in Ids, Asserted(i) PROVE IrqInv'
  <2>1. IrqTypeOK'
    BY <1>1 DEF Asserted
  <2>2. Enabled'
    BY <1>1 DEF Asserted, Enabled, Updating
  <2>3. Call'
    BY <1>1 DEF Asserted, Call
  <2>4. (\A j \in Ids : Whole(j))'
    BY <1>1 DEF Asserted, Whole, Call
  <2>5. (\A j \in ienable : Served(j))'
    BY <1>1 DEF Asserted, Served, Call
  <2> QED
    BY <2>1, <2>2, <2>3, <2>4, <2>5
<1>2. ASSUME NEW i \in Ids, NEW isr \in Handlers, alt_iic_isr_register(i, isr) PROVE IrqInv'
  <2>1. IrqTypeOK'
    BY <1>2 DEF alt_iic_isr_register, RegAt, NoReg
  <2>2. Enabled'
    BY <1>2 DEF alt_iic_isr_register, RegAt, NoReg, Enabled, Updating
  <2>3. Call'
    BY <1>2 DEF alt_iic_isr_register, RegAt, NoReg, Call
  <2>4. (\A j \in Ids : Whole(j))'
    BY <1>2 DEF alt_iic_isr_register, RegAt, NoReg, Whole, Call
  <2>5. (\A j \in ienable : Served(j))'
    BY <1>2 DEF alt_iic_isr_register, RegAt, NoReg, Served, Call
  <2> QED
    BY <2>1, <2>2, <2>3, <2>4, <2>5
<1>3. ASSUME NEW i \in Ids, alt_ic_irq_enable(i) PROVE IrqInv'
  <2>1. IrqTypeOK'
    BY <1>3 DEF alt_ic_irq_enable, SwitchLine, RegAt, NoReg
  <2>2. Enabled'
    BY <1>3 DEF alt_ic_irq_enable, SwitchLine, RegAt, NoReg, Enabled, Updating
  <2>3. Call'
    BY <1>3 DEF alt_ic_irq_enable, SwitchLine, RegAt, NoReg, Call
  <2>4. (\A j \in Ids : Whole(j))'
    BY <1>3 DEF alt_ic_irq_enable, SwitchLine, RegAt, NoReg, Whole, Call
  <2>5. (\A j \in ienable : Served(j))'
    BY <1>3 DEF alt_ic_irq_enable, SwitchLine, RegAt, NoReg, Served, Call
  <2> QED
    BY <2>1, <2>2, <2>3, <2>4, <2>5
<1>4. ASSUME NEW i \in Ids, alt_ic_irq_disable(i) PROVE IrqInv'
  <2>1. IrqTypeOK'
    BY <1>4 DEF alt_ic_irq_disable, SwitchLine, RegAt, NoReg
  <2>2. Enabled'
    BY <1>4 DEF alt_ic_irq_disable, SwitchLine, RegAt, NoReg, Enabled, Updating
  <2>3. Call'
    BY <1>4 DEF alt_ic_irq_disable, SwitchLine, RegAt, NoReg, Call
  <2>4. (\A j \in Ids : Whole(j))'
    BY <1>4 DEF alt_ic_irq_disable, SwitchLine, RegAt, NoReg, Whole, Call
  <2>5. (\A j \in ienable : Served(j))'
    BY <1>4 DEF alt_ic_irq_disable, SwitchLine, RegAt, NoReg, Served, Call
  <2> QED
    BY <2>1, <2>2, <2>3, <2>4, <2>5
<1>5. CASE Section
  <2>1. IrqTypeOK'
    BY <1>5 DEF Section, disable_all, enable_all
  <2>2. Enabled'
    BY <1>5 DEF Section, disable_all, enable_all, Enabled, Updating
  <2>3. Call'
    BY <1>5 DEF Section, disable_all, enable_all, Call
  <2>4. (\A j \in Ids : Whole(j))'
    BY <1>5 DEF Section, disable_all, enable_all, Whole, Call
  <2>5. (\A j \in ienable : Served(j))'
    BY <1>5 DEF Section, disable_all, enable_all, Served, Call
  <2> QED
    BY <2>1, <2>2, <2>3, <2>4, <2>5
<1>6. CASE RegDisables
  <2>1. IrqTypeOK'
    BY <1>6 DEF RegDisables, Disabled, RegAt, GoTo
  <2>2. Enabled'
    <3>1. active = {} /\ active' = {} /\ ~Updating /\ PIE = ~section
      BY <1>6 DEF RegDisables, RegAt, Enabled, Updating
    <3>2. Updating' /\ PIE' = FALSE /\ saved' = PIE /\ section' = section
      BY <1>6 DEF RegDisables, RegAt, GoTo, Disabled, Call, Updating
    <3> QED
      BY <3>1, <3>2, Zenon DEF Enabled
  <2>3. Call'
    BY <1>6 DEF RegDisables, Disabled, RegAt, GoTo, Call
  <2>4. (\A j \in Ids : Whole(j))'
    BY <1>6 DEF RegDisables, Disabled, RegAt, GoTo, Whole, Call
  <2>5. (\A j \in ienable : Served(j))'
    BY <1>6 DEF RegDisables, Disabled, RegAt, GoTo, Served, Call
  <2> QED
    BY <2>1, <2>2, <2>3, <2>4, <2>5
<1>7. CASE SetHandler
  <2>1. IrqTypeOK'
    BY <1>7 DEF SetHandler, RegAt, GoTo
  <2>2. Enabled'
    BY <1>7 DEF SetHandler, RegAt, GoTo, Enabled, Updating
  <2>3. Call'
    BY <1>7 DEF SetHandler, RegAt, GoTo, Call
  <2>4. (\A j \in Ids : Whole(j))'
    BY <1>7 DEF SetHandler, RegAt, GoTo, Whole, Call
  <2>5. (\A j \in ienable : Served(j))'
    BY <1>7 DEF SetHandler, RegAt, GoTo, Served, Call
  <2> QED
    BY <2>1, <2>2, <2>3, <2>4, <2>5
<1>8. CASE SetContext
  <2>1. IrqTypeOK'
    BY <1>8 DEF SetContext, RegAt, GoTo
  <2>2. Enabled'
    BY <1>8 DEF SetContext, RegAt, GoTo, Enabled, Updating
  <2>3. Call'
    BY <1>8 DEF SetContext, RegAt, GoTo, Call
  <2>4. (\A j \in Ids : Whole(j))'
    BY <1>8 DEF SetContext, RegAt, GoTo, Whole, Call
  <2>5. (\A j \in ienable : Served(j))'
    BY <1>8 DEF SetContext, RegAt, GoTo, Served, Call
  <2> QED
    BY <2>1, <2>2, <2>3, <2>4, <2>5
<1>9. CASE SetLine
  <2>1. IrqTypeOK'
    BY <1>9 DEF SetLine, RegAt, GoTo
  <2>2. Enabled'
    BY <1>9 DEF SetLine, RegAt, GoTo, Enabled, Updating
  <2>3. Call'
    BY <1>9 DEF SetLine, RegAt, GoTo, Call
  <2>4. (\A j \in Ids : Whole(j))'
    BY <1>9 DEF SetLine, RegAt, GoTo, Whole, Call
  <2>5. (\A j \in ienable : Served(j))'
    BY <1>9 DEF SetLine, RegAt, GoTo, Served, Call
  <2> QED
    BY <2>1, <2>2, <2>3, <2>4, <2>5
<1>10. CASE RegEnables
  <2>1. IrqTypeOK'
    BY <1>10 DEF RegEnables, Restored, RegAt, NoReg
  <2>2. Enabled'
    BY <1>10 DEF RegEnables, Restored, RegAt, NoReg, Enabled, Updating
  <2>3. Call'
    BY <1>10 DEF RegEnables, Restored, RegAt, NoReg, Call
  <2>4. (\A j \in Ids : Whole(j))'
    BY <1>10 DEF RegEnables, Restored, RegAt, NoReg, Whole, Call
  <2>5. (\A j \in ienable : Served(j))'
    BY <1>10 DEF RegEnables, Restored, RegAt, NoReg, Served, Call
  <2> QED
    BY <2>1, <2>2, <2>3, <2>4, <2>5
<1>11. CASE Exception
  <2>1. IrqTypeOK'
    BY <1>11 DEF Exception, ipending
  <2>2. Enabled'
    BY <1>11 DEF Exception, ipending, Enabled, Updating
  <2>3. Call'
    BY <1>11 DEF Exception, ipending, Call
  <2>4. (\A j \in Ids : Whole(j))'
    BY <1>11 DEF Exception, ipending, Whole, Call
  <2>5. (\A j \in ienable : Served(j))'
    BY <1>11 DEF Exception, ipending, Served, Call
  <2> QED
    BY <2>1, <2>2, <2>3, <2>4, <2>5
<1>12. CASE CallHandler
  <2>1. IrqTypeOK'
    BY <1>12 DEF CallHandler
  <2>2. Enabled'
    BY <1>12 DEF CallHandler, Enabled, Updating
  <2>3. Call'
    BY <1>12 DEF CallHandler, Call
  <2>4. (\A j \in Ids : Whole(j))'
    BY <1>12 DEF CallHandler, Whole, Call
  <2>5. (\A j \in ienable : Served(j))'
    BY <1>12 DEF CallHandler, Served, Call
  <2> QED
    BY <2>1, <2>2, <2>3, <2>4, <2>5
<1>13. CASE UNCHANGED irq_vars
  <2>1. IrqTypeOK'
    BY <1>13 DEF irq_vars
  <2>2. Enabled'
    BY <1>13 DEF irq_vars, Enabled, Updating
  <2>3. Call'
    BY <1>13 DEF irq_vars, Call
  <2>4. (\A j \in Ids : Whole(j))'
    BY <1>13 DEF irq_vars, Whole, Call
  <2>5. (\A j \in ienable : Served(j))'
    BY <1>13 DEF irq_vars, Served, Call
  <2> QED
    BY <2>1, <2>2, <2>3, <2>4, <2>5
<1> QED
  BY <1>1, <1>2, <1>3, <1>4, <1>5, <1>6, <1>7, <1>8, <1>9, <1>10, <1>11, <1>12, <1>13 DEF IrqNext

(* The inductive invariant holds in every state of the dispatch. *)
LEMMA IrqInvHolds == IrqSpec => []IrqInv
  BY IrqInvInit, IrqInvStep, PTL DEF IrqSpec

(* What is called is what was registered: whatever line is the lowest of   *)
(* those read, it is asserted and enabled, its handler is not null and the *)
(* context is that handler's own.                                          *)
LEMMA InvImpliesMatch == IrqInv => HandlersMatch
<1> SUFFICES ASSUME IrqInv, active # {} PROVE HandlersMatch
  BY DEF HandlersMatch
<1>1. active \in SUBSET Nat
  BY DEF IrqInv, IrqTypeOK, Ids
<1> DEFINE i == Lowest(active)
<1>2. i \in active
  BY <1>1, LowestIsMember
<1>3. i \in lines \cap ienable /\ i \in Ids /\ ~Updating
  BY <1>2 DEF IrqInv, IrqTypeOK, Enabled
<1>4. alt_irq[i].handler # NullIsr /\ alt_irq[i].context = alt_irq[i].handler
  BY <1>3 DEF IrqInv, Whole, Served, Updating
<1> QED
  BY <1>3, <1>4 DEF HandlersMatch

(* Handlers run for what asked for them and with the context they were     *)
(* registered with, and never inside a section that has disabled the       *)
(* interrupts, for any number of lines and any registrations               *)
(* (alt_iic_isr_register.c:84-101, alt_irq_handler.c:118-155).             *)
THEOREM DispatchCorrect == IrqSpec => []DispatchHolds
<1>1. IrqInv => SectionsHold
  BY DEF IrqInv, Enabled, SectionsHold
<1>2. IrqInv => DispatchHolds
  BY <1>1, InvImpliesMatch DEF DispatchHolds
<1> QED
  BY <1>2, IrqInvHolds, PTL

(* What the dispatch keeps has its type: no line, entry or step outside of *)
(* the tables of alt_irq_handler.c is ever reached.                        *)
THEOREM IrqTypeCorrect == IrqSpec => []IrqTypeOK
  BY IrqInvHolds, PTL DEF IrqInv
================================================================================
