---------------------------- MODULE Library_proofs ----------------------------
(***************************************************************************)
(* Parts of the library: exceptions with nested interrupts, for any        *)
(* program, lines and depth of nesting, the settings of the consoles, for  *)
(* any frequency, speeds and times, the reports of the flash driver, for   *)
(* any partition, calls and failures, the file descriptors, for any        *)
(* number of them and any devices, filesystems and names, the time, for    *)
(* any length of a second, a word and a period, and the blocks of the      *)
(* profiler, for any heap and program.                                     *)
(***************************************************************************)
EXTENDS Exceptions, ConsoleIoctl, OnchipFlash, Files, HalTime, Profiler, SequenceTheorems, WellFoundedInduction, TLAPS

(***************************************************************************)
(* Exceptions.                                                             *)
(***************************************************************************)
FrameStates ==
    [estatus : BOOLEAN, resume : Nat, at : {"irqtest", "irq", "interruptible", "unknown", "exit"},
     active : SUBSET Lines, old_priority : SUBSET Nat]

ExceptionsTypeOK ==
    /\ requests \in SUBSET Lines /\ enabled \in SUBSET Lines /\ alt_priority_mask \in SUBSET Nat
    /\ cpu \in [pc : Nat, PIE : BOOLEAN, ea : Nat] /\ frames \in Seq(FrameStates)
    /\ faulty \in SUBSET DOMAIN Code /\ alt_instruction_exception_handler \in BOOLEAN
    /\ retired \in Seq([at : Nat, how : {"executed", "skipped"}])

(* Only a handler that lets others in is interrupted, and what interrupts  *)
(* it is a line that stays asserted until it is looked at.                 *)
Nested ==
    /\ frames # <<>> => cpu.PIE = (Frame.at = "interruptible")
    /\ \A i \in 1..Len(frames) :
          /\ i < Len(frames) => frames[i].at = "interruptible"
          /\ i > 1 => frames[i].estatus /\ frames[i].at # "unknown"
          /\ i > 1 /\ frames[i].at = "irqtest" => Requested # {}
          /\ frames[i].active # {} <=> frames[i].at \in {"irq", "interruptible"}
          /\ frames[i].active # {} => frames[i].estatus

(* The lowest frame is the program's: where it goes on.                    *)
Returns ==
    /\ \A i \in 1..Len(retired) : retired[i].at = i
    /\ frames = <<>> => cpu.pc = Len(retired) + 1
    /\ frames # <<>> =>
          /\ frames[1].at # "unknown" => frames[1].resume = Len(retired) + 1
          /\ frames[1].at = "unknown" => frames[1].resume = Len(retired) + 2
          /\ frames[1].at \in {"irqtest", "unknown"} => cpu.ea = Len(retired) + 2

(* What is above a handler, what it may enable, and what it will restore,  *)
(* is more urgent than the handler.                                        *)
Above(i) == MoreUrgent(MostUrgent(frames[i].active))

Urgent ==
    /\ enabled = Lines \cap alt_priority_mask
    /\ \A i \in 1..Len(frames) : frames[i].at = "interruptible" => alt_priority_mask \subseteq Above(i)
    /\ \A i, j \in 1..Len(frames) :
          i < j => /\ frames[j].active \subseteq Above(i)
                   /\ frames[j].at = "interruptible" => frames[j].old_priority \subseteq Above(i)
    /\ IF frames # <<>> /\ frames[1].at = "interruptible" THEN frames[1].old_priority = Lines
       ELSE alt_priority_mask = Lines

ExceptionsInv == ExceptionsTypeOK /\ Nested /\ Returns /\ Urgent
--------------------------------------------------------------------------------
(***************************************************************************)
(* The settings of the consoles.                                           *)
(***************************************************************************)
IoctlTypeOK ==
    /\ termios \in Settings /\ baud \in [fixed : BOOLEAN, divisor : Int]
    /\ presence \in [timeout : 0..IntMax, host_inactive : Nat, ac : BOOLEAN]
    /\ known \in [settings : Settings, wait : 2..(IntMax - 1), quiet : Nat]

(* The driver's settings are the last ones that were accepted, both speeds *)
(* alike, and so is the divisor.                                           *)
SpeedSet ==
    /\ termios = known.settings /\ termios.ospeed = termios.ispeed /\ termios.ispeed > 0
    /\ ~baud.fixed => baud.divisor = DivisorFor(termios.ispeed)

(* The count of the silent seconds stops below "for ever".                 *)
SilenceCounted ==
    /\ Watching => presence.timeout = known.wait
    /\ presence.host_inactive = IF known.quiet < IntMax - 2 THEN known.quiet ELSE IntMax - 2

Replied ==
    /\ reply.req = "TIOCMGET" => reply.got = known.settings
    /\ reply.req = "TIOCMSET" /\ reply.arg = known.settings => reply.rc = 0
    /\ reply.req = "TIOCGCONNECTED" /\ reply.rc = 0 =>
           reply.got = (known.quiet < known.wait \/ known.wait = ForEver)

IoctlInv == IoctlTypeOK /\ SpeedSet /\ SilenceCounted /\ Replied

--------------------------------------------------------------------------------
(* The quotient and the divisor of a speed.                                *)
LEMMA QuotientBounds ==
    ASSUME NEW x \in Nat, NEW s \in Nat, s > 0
    PROVE  /\ x \div s \in Nat
           /\ (x \div s) * s <= x /\ x < ((x \div s) + 1) * s
  OBVIOUS

LEMMA IoctlConstants ==
    /\ Freq \in Nat /\ IntMax \in Nat /\ IntMax > 2
    /\ \A speed \in Speeds : speed \in Nat
    /\ BuiltSpeed \in Speeds /\ BuiltSpeed > 0 /\ BuiltMode \in UartModes
    /\ DefaultTimeout \in 2..(IntMax - 1)
  BY IoctlAssumption

LEMMA IoctlInvInit == IoctlInit => IoctlInv
<1> SUFFICES ASSUME IoctlInit PROVE IoctlInv
  OBVIOUS
<1>1. Built \in Settings
  BY IoctlConstants DEF Built, Settings
<1>2. DivisorFor(BuiltSpeed) \in Int
  <2>1. BuiltSpeed \in Nat /\ BuiltSpeed > 0 /\ Freq \in Nat
    BY IoctlConstants
  <2>2. Freq \div BuiltSpeed \in Nat
    BY <2>1, QuotientBounds
  <2> QED
    BY <2>2 DEF DivisorFor
<1>3. IoctlTypeOK
  BY <1>1, <1>2, IoctlConstants DEF IoctlInit, IoctlTypeOK
<1>4. SpeedSet
  BY IoctlConstants DEF IoctlInit, SpeedSet, Built
<1>5. SilenceCounted
  BY IoctlConstants DEF IoctlInit, SilenceCounted, Watching
<1>6. Replied
  BY DEF IoctlInit, Replied, NoReply
<1> QED
  BY <1>3, <1>4, <1>5, <1>6 DEF IoctlInv

(* A request for the settings, or for something the driver does not know.  *)
LEMMA UartAsked ==
    ASSUME IoctlInv, UNCHANGED <<termios, baud, known, presence>>,
           altera_avalon_uart_tiocmget \/ Replies("other", ENOTTY, 0, 0)
    PROVE  IoctlInv'
<1>1. IoctlTypeOK'
  BY DEF IoctlInv, IoctlTypeOK
<1>2. SpeedSet'
  BY DEF IoctlInv, SpeedSet
<1>3. SilenceCounted'
  BY DEF IoctlInv, SilenceCounted, Watching
<1>4. Replied'
  BY DEF IoctlInv, Replied, SpeedSet, altera_avalon_uart_tiocmget, Replies
<1> QED
  BY <1>1, <1>2, <1>3, <1>4 DEF IoctlInv

(* A request that is refused puts back what it has changed, and one for    *)
(* the present settings is not refused.                                    *)
LEMMA UartSet ==
    ASSUME IoctlInv, NEW term \in Settings, altera_avalon_uart_tiocmset(term), UNCHANGED presence
    PROVE  IoctlInv'
<1>1. /\ termios \in Settings /\ known.settings = termios
      /\ termios.ospeed = termios.ispeed /\ termios.ispeed > 0
      /\ known \in [settings : Settings, wait : 2..(IntMax - 1), quiet : Nat]
      /\ baud \in [fixed : BOOLEAN, divisor : Int]
  BY DEF IoctlInv, IoctlTypeOK, SpeedSet
<1>2. SilenceCounted' /\ presence' \in [timeout : 0..IntMax, host_inactive : Nat, ac : BOOLEAN]
  <2>1. known'.wait = known.wait /\ known'.quiet = known.quiet
    BY <1>1 DEF altera_avalon_uart_tiocmset
  <2> QED
    BY <2>1 DEF IoctlInv, IoctlTypeOK, SilenceCounted, Watching
<1>3. CASE Updated(term) # term
  <2>1. PutBack(term) = termios
    BY <1>1 DEF PutBack, Updated, Settings
  <2>2. /\ termios' = termios /\ UNCHANGED <<baud, known>>
        /\ reply' = [req |-> "TIOCMSET", rc |-> EIO, arg |-> term, got |-> 0]
    BY <1>3, <2>1 DEF altera_avalon_uart_tiocmset, Replies
  <2>3. term # known.settings
    <3>1. ASSUME term = termios PROVE Updated(term) = term
      BY <1>1, <3>1 DEF Updated, Settings
    <3> QED
      BY <1>1, <1>3, <3>1
  <2>4. IoctlTypeOK' /\ SpeedSet'
    BY <2>2 DEF IoctlInv, IoctlTypeOK, SpeedSet
  <2>5. Replied'
    BY <2>2, <2>3 DEF Replied
  <2> QED
    BY <1>2, <2>4, <2>5 DEF IoctlInv
<1>4. CASE Updated(term) = term
  <2>1. /\ term.ispeed > 0 /\ termios' = term
        /\ baud' = IF baud.fixed THEN baud ELSE [baud EXCEPT !.divisor = DivisorFor(term.ispeed)]
        /\ reply' = [req |-> "TIOCMSET", rc |-> 0, arg |-> term, got |-> 0]
        /\ known' = [known EXCEPT !.settings = term]
    BY <1>4 DEF altera_avalon_uart_tiocmset, Replies
  <2>2. term.ospeed = term.ispeed
    BY <1>1, <1>4 DEF Updated, Settings
  <2>3. DivisorFor(term.ispeed) \in Int
    <3>1. term.ispeed \in Nat /\ Freq \in Nat
      BY IoctlConstants DEF Settings
    <3>2. Freq \div term.ispeed \in Nat
      BY <2>1, <3>1, QuotientBounds
    <3> QED
      BY <3>2 DEF DivisorFor
  <2>4. known'.settings = term /\ known' \in [settings : Settings, wait : 2..(IntMax - 1), quiet : Nat]
    BY <1>1, <2>1
  <2>5. /\ baud' \in [fixed : BOOLEAN, divisor : Int]
        /\ ~baud'.fixed => baud'.divisor = DivisorFor(term.ispeed)
    BY <1>1, <2>1, <2>3
  <2>6. IoctlTypeOK' /\ SpeedSet'
    BY <1>2, <2>1, <2>2, <2>4, <2>5 DEF IoctlTypeOK, SpeedSet
  <2>7. Replied'
    BY <2>1 DEF Replied
  <2> QED
    BY <1>2, <2>6, <2>7 DEF IoctlInv
<1> QED
  BY <1>3, <1>4

LEMMA JtagAsked ==
    ASSUME IoctlInv, altera_avalon_jtag_uart_ioctl
    PROVE  IoctlInv'
<1>1. UNCHANGED <<termios, baud>> /\ known'.settings = known.settings /\ SpeedSet'
  BY DEF IoctlInv, IoctlTypeOK, SpeedSet, altera_avalon_jtag_uart_ioctl, SetTimeout, GetConnected
<1>2. ASSUME NEW timeout \in 0..IntMax, SetTimeout(timeout)
      PROVE  IoctlInv'
  <2> DEFINE wait == IF timeout >= 2 /\ timeout < IntMax THEN timeout ELSE ForEver
  <2>1. wait \in 2..(IntMax - 1)
    BY IoctlConstants DEF ForEver
  <2>2. \/ /\ presence' = [presence EXCEPT !.timeout = wait]
           /\ known' = [known EXCEPT !.wait = wait]
        \/ UNCHANGED <<presence, known>>
    BY <1>2 DEF SetTimeout
  <2> HIDE DEF wait
  <2>3. IoctlTypeOK'
    BY <1>1, <2>1, <2>2, IoctlConstants DEF IoctlInv, IoctlTypeOK
  <2>4. SilenceCounted'
    BY <2>1, <2>2, IoctlConstants DEF IoctlInv, IoctlTypeOK, SilenceCounted, Watching
  <2>5. Replied'
    BY <1>2 DEF SetTimeout, Replied, Replies
  <2> QED
    BY <1>1, <2>3, <2>4, <2>5 DEF IoctlInv
<1>3. CASE GetConnected
  <2>1. UNCHANGED <<presence, known>>
    BY <1>3 DEF GetConnected
  <2>2. IoctlTypeOK' /\ SilenceCounted'
    BY <1>1, <2>1 DEF IoctlInv, IoctlTypeOK, SilenceCounted, Watching
  <2>3. Replied'
    <3>1. CASE Watching
      <4> DEFINE host == presence.host_inactive
                 quiet == known.quiet
                 wait == known.wait
      <4>1. /\ host = IF quiet < IntMax - 2 THEN quiet ELSE IntMax - 2
            /\ quiet \in Nat /\ wait \in 2..(IntMax - 1) /\ presence.timeout = wait
        BY <3>1 DEF IoctlInv, IoctlTypeOK, SilenceCounted
      <4>2. reply' = [req |-> "TIOCGCONNECTED", rc |-> 0, arg |-> 0, got |-> host < wait]
        BY <1>3, <3>1, <4>1 DEF GetConnected, Replies
      <4>3. known'.quiet = quiet /\ known'.wait = wait
        BY <2>1
      <4> HIDE DEF host, quiet, wait
      <4>4. (host < wait) <=> (quiet < wait \/ wait = IntMax - 1)
        BY <4>1, IoctlConstants
      <4>5. (host < wait) = (quiet < wait \/ wait = IntMax - 1)
        BY <4>4
      <4> QED
        BY <4>2, <4>3, <4>5 DEF Replied, ForEver
    <3>2. CASE ~Watching
      BY <1>3, <3>2 DEF GetConnected, Replied, Replies, ENOTTY
    <3> QED
      BY <3>1, <3>2
  <2> QED
    BY <1>1, <2>2, <2>3 DEF IoctlInv
<1>4. CASE Replies("other", ENOTTY, 0, 0) /\ UNCHANGED <<presence, known>>
  <2>1. IoctlTypeOK' /\ SilenceCounted'
    BY <1>1, <1>4 DEF IoctlInv, IoctlTypeOK, SilenceCounted, Watching
  <2>2. Replied'
    BY <1>4 DEF Replied, Replies
  <2> QED
    BY <1>1, <2>1, <2>2 DEF IoctlInv
<1> QED
  BY <1>2, <1>3, <1>4 DEF altera_avalon_jtag_uart_ioctl

(* A second of silence, or a sign of the host.                             *)
LEMMA SecondPasses ==
    ASSUME IoctlInv, HostShows \/ altera_avalon_jtag_uart_timeout
    PROVE  IoctlInv'
<1>1. UNCHANGED <<termios, baud>> /\ known'.settings = known.settings /\ SpeedSet'
  BY DEF IoctlInv, IoctlTypeOK, SpeedSet, HostShows, altera_avalon_jtag_uart_timeout
<1>2. CASE HostShows
  <2>1. UNCHANGED <<reply, known>> /\ presence' = [presence EXCEPT !.ac = TRUE]
    BY <1>2 DEF HostShows
  <2>2. IoctlTypeOK'
    BY <1>1, <2>1 DEF IoctlInv, IoctlTypeOK
  <2>3. SilenceCounted'
    BY <2>1 DEF IoctlInv, IoctlTypeOK, SilenceCounted, Watching
  <2>4. Replied'
    BY <2>1 DEF IoctlInv, Replied
  <2> QED
    BY <1>1, <2>2, <2>3, <2>4 DEF IoctlInv
<1>3. CASE altera_avalon_jtag_uart_timeout
  <2> DEFINE host == presence.host_inactive
             quiet == known.quiet
             later == IF host < IntMax - 2 THEN host + 1 ELSE host
  <2>1. /\ host = IF quiet < IntMax - 2 THEN quiet ELSE IntMax - 2
        /\ quiet \in Nat /\ host \in Nat
    BY DEF IoctlInv, IoctlTypeOK, SilenceCounted
  <2>2. \/ /\ presence' = [presence EXCEPT !.ac = FALSE, !.host_inactive = 0]
           /\ known' = [known EXCEPT !.quiet = 0]
        \/ /\ presence' = [presence EXCEPT !.host_inactive = later]
           /\ known' = [known EXCEPT !.quiet = quiet + 1]
    <3>1. presence = [presence EXCEPT !.host_inactive = host]
      BY DEF IoctlInv, IoctlTypeOK
    <3> QED
      BY <1>3, <3>1 DEF altera_avalon_jtag_uart_timeout, MayCount
  <2>3. /\ later \in Nat /\ quiet + 1 \in Nat
        /\ later = IF quiet + 1 < IntMax - 2 THEN quiet + 1 ELSE IntMax - 2
    <3> HIDE DEF host, quiet
    <3> QED
      BY <2>1, IoctlConstants
  <2> HIDE DEF host, quiet, later
  <2>4. IoctlTypeOK'
    <3>1. presence' \in [timeout : 0..IntMax, host_inactive : Nat, ac : BOOLEAN]
      <4>1. presence \in [timeout : 0..IntMax, host_inactive : Nat, ac : BOOLEAN] /\ later \in Nat /\ 0 \in Nat
        BY <2>3 DEF IoctlInv, IoctlTypeOK
      <4>2. CASE presence' = [presence EXCEPT !.host_inactive = later]
        BY <4>1, <4>2
      <4>3. CASE presence' = [presence EXCEPT !.ac = FALSE, !.host_inactive = 0]
        BY <4>1, <4>3
      <4> QED
        BY <2>2, <4>2, <4>3
    <3>2. known' \in [settings : Settings, wait : 2..(IntMax - 1), quiet : Nat]
      BY <2>2, <2>3 DEF IoctlInv, IoctlTypeOK
    <3> QED
      BY <1>1, <3>1, <3>2 DEF IoctlInv, IoctlTypeOK
  <2>5. presence'.timeout = presence.timeout /\ known'.wait = known.wait
    BY <2>2 DEF IoctlInv, IoctlTypeOK
  <2>6. presence'.host_inactive = IF known'.quiet < IntMax - 2 THEN known'.quiet ELSE IntMax - 2
    <3>1. CASE presence' = [presence EXCEPT !.ac = FALSE, !.host_inactive = 0] /\ known' = [known EXCEPT !.quiet = 0]
      BY <3>1, IoctlConstants DEF IoctlInv, IoctlTypeOK
    <3>2. CASE presence' = [presence EXCEPT !.host_inactive = later] /\ known' = [known EXCEPT !.quiet = quiet + 1]
      <4>1. presence'.host_inactive = later /\ known'.quiet = quiet + 1
        BY <3>2 DEF IoctlInv, IoctlTypeOK
      <4> QED
        BY <2>3, <4>1
    <3> QED
      BY <2>2, <3>1, <3>2
  <2>7. SilenceCounted'
    BY <2>5, <2>6 DEF IoctlInv, SilenceCounted, Watching
  <2>8. Replied'
    BY <1>3 DEF altera_avalon_jtag_uart_timeout, Replied, NoReply
  <2> QED
    BY <1>1, <2>4, <2>7, <2>8 DEF IoctlInv
<1> QED
  BY <1>2, <1>3

(* What is set is what the driver runs with, for every frequency, every    *)
(* set of speeds, and every time after which the host counts as gone       *)
(* (altera_avalon_uart_ioctl.c:75-150, altera_avalon_jtag_uart_ioctl.c,    *)
(* altera_avalon_jtag_uart_init.c:203-225).                                *)
THEOREM SettingsAreKept == IoctlSpec => []SettingsKept
<1>1. IoctlInv /\ [IoctlNext]_ioctl_vars => IoctlInv'
  <2> SUFFICES ASSUME IoctlInv, [IoctlNext]_ioctl_vars PROVE IoctlInv'
    OBVIOUS
  <2>1. CASE UNCHANGED ioctl_vars
    <3>1. IoctlTypeOK' /\ SpeedSet'
      BY <2>1 DEF ioctl_vars, IoctlInv, IoctlTypeOK, SpeedSet
    <3>2. SilenceCounted' /\ Replied'
      BY <2>1 DEF ioctl_vars, IoctlInv, SilenceCounted, Watching, Replied
    <3> QED
      BY <3>1, <3>2 DEF IoctlInv
  <2>2. CASE altera_avalon_uart_ioctl
    <3>1. UNCHANGED presence
      BY <2>2 DEF altera_avalon_uart_ioctl
    <3>2. \/ altera_avalon_uart_tiocmget /\ UNCHANGED <<termios, baud, known>>
          \/ \E term \in Settings : altera_avalon_uart_tiocmset(term)
          \/ Replies("other", ENOTTY, 0, 0) /\ UNCHANGED <<termios, baud, known>>
      BY <2>2 DEF altera_avalon_uart_ioctl, altera_avalon_uart_tiocmget
    <3> QED
      BY <3>1, <3>2, UartAsked, UartSet
  <2>3. CASE altera_avalon_jtag_uart_ioctl
    BY <2>3, JtagAsked
  <2>4. CASE HostShows \/ altera_avalon_jtag_uart_timeout
    BY <2>4, SecondPasses
  <2> QED
    BY <2>1, <2>2, <2>3, <2>4 DEF IoctlNext
<1>2. IoctlInv => SettingsKept
  <2> SUFFICES ASSUME IoctlInv PROVE SettingsKept
    OBVIOUS
  <2>1. ASSUME ~baud.fixed
        PROVE  /\ (baud.divisor + 1) * known.settings.ispeed <= Freq
               /\ Freq < (baud.divisor + 2) * known.settings.ispeed
    <3> DEFINE s == known.settings.ispeed
               q == Freq \div s
    <3>1. s \in Nat /\ s > 0 /\ Freq \in Nat
      BY IoctlConstants DEF IoctlInv, IoctlTypeOK, SpeedSet, Settings
    <3>2. baud.divisor = q - 1
      BY <2>1 DEF IoctlInv, SpeedSet, DivisorFor
    <3>3. q \in Nat /\ q * s <= Freq /\ Freq < (q + 1) * s
      <4> HIDE DEF s
      <4> QED
        BY <3>1, QuotientBounds
    <3> HIDE DEF q
    <3>4. baud.divisor + 1 = q /\ baud.divisor + 2 = q + 1
      BY <3>2, <3>3
    <3> QED
      BY <3>3, <3>4
  <2> QED
    BY <2>1 DEF IoctlInv, Replied, SettingsKept
<1> QED
  BY <1>1, <1>2, IoctlInvInit, PTL DEF IoctlSpec
--------------------------------------------------------------------------------
(* The most urgent of some lines is one of them.                           *)
Less == {p \in Nat \X Nat : p[1] < p[2]}

LEMMA LessWellFounded == IsWellFoundedOn(Less, Nat)
  BY NatLessThanWellFounded, Zenon DEF OpToRel, Less

LEMMA MostUrgentIsMember ==
    ASSUME NEW S \in SUBSET Nat, S # {}
    PROVE  MostUrgent(S) \in S
<1>1. PICK i \in S : \A j \in S : ~ (<<j, i>> \in Less)
  BY LessWellFounded, WFMin
<1>2. ASSUME NEW j \in S PROVE i <= j
  <2>1. ASSUME j < i PROVE FALSE
    <3> DEFINE p == <<j, i>>
    <3>1. p \in Nat \X Nat /\ p[1] < p[2]
      BY <2>1
    <3>2. p \in Less
      BY <3>1 DEF Less
    <3> QED
      BY <1>1, <3>2
  <2> QED
    BY <2>1
<1> QED
  BY <1>2 DEF MostUrgent

LEMMA LinesAreNat == Lines \subseteq Nat
  BY ExceptionsAssumption

(* The frames behind a step that changes the top one, pushes one or pops   *)
(* it.                                                                     *)
LEMMA TopOf ==
    ASSUME ExceptionsTypeOK, frames # <<>>
    PROVE  /\ Len(frames) \in Nat /\ Len(frames) >= 1 /\ (Len(frames) = 1 \/ Len(frames) > 1)
           /\ Frame \in FrameStates /\ Frame = frames[Len(frames)]
           /\ \A i \in 1..Len(frames) : frames[i] \in FrameStates
<1>1. Len(frames) \in Nat /\ Len(frames) >= 1
  BY DEF ExceptionsTypeOK
<1>2. Len(frames) = 1 \/ Len(frames) > 1
  <2> DEFINE n == Len(frames)
  <2>1. n \in Nat /\ n >= 1
    BY <1>1
  <2> HIDE DEF n
  <2>2. n = 1 \/ n > 1
    BY <2>1
  <2> QED
    BY <2>2 DEF n
<1> QED
  BY <1>1, <1>2 DEF ExceptionsTypeOK, Frame

LEMMA TopChanges ==
    ASSUME ExceptionsTypeOK, frames # <<>>, NEW f \in FrameStates, Now(f)
    PROVE  /\ frames' \in Seq(FrameStates) /\ frames' # <<>> /\ Len(frames') = Len(frames)
           /\ Frame' = f /\ frames'[Len(frames)] = f
           /\ \A i \in 1..Len(frames) : i < Len(frames) => frames'[i] = frames[i]
<1>1. frames \in Seq(FrameStates) /\ Len(frames) \in 1..Len(frames)
  BY TopOf DEF ExceptionsTypeOK
<1>2. frames' = [frames EXCEPT ![Len(frames)] = f]
  BY DEF Now
<1>3. frames' \in Seq(FrameStates) /\ Len(frames') = Len(frames)
  BY <1>1, <1>2
<1>4. frames'[Len(frames)] = f /\ \A i \in 1..Len(frames) : i < Len(frames) => frames'[i] = frames[i]
  BY <1>1, <1>2
<1>5. frames' # <<>>
  BY <1>1, <1>3
<1> QED
  BY <1>3, <1>4, <1>5 DEF Frame

LEMMA FramePushed ==
    ASSUME ExceptionsTypeOK, NEW f \in FrameStates, frames' = Append(frames, f)
    PROVE  /\ frames' \in Seq(FrameStates) /\ frames' # <<>> /\ Len(frames') = Len(frames) + 1
           /\ Frame' = f /\ frames'[Len(frames) + 1] = f
           /\ \A i \in 1..Len(frames) : frames'[i] = frames[i]
<1>1. frames \in Seq(FrameStates) /\ Len(frames) \in Nat
  BY DEF ExceptionsTypeOK
<1> QED
  BY <1>1 DEF Frame

LEMMA FramePopped ==
    ASSUME ExceptionsTypeOK, frames # <<>>, frames' = SubSeq(frames, 1, Len(frames) - 1)
    PROVE  /\ frames' \in Seq(FrameStates) /\ Len(frames') = Len(frames) - 1
           /\ \A i \in 1..(Len(frames) - 1) : frames'[i] = frames[i]
           /\ frames' = <<>> <=> Len(frames) = 1
<1>1. frames \in Seq(FrameStates) /\ Len(frames) \in Nat /\ Len(frames) >= 1
  BY TopOf DEF ExceptionsTypeOK
<1>2. /\ frames' \in Seq(FrameStates) /\ Len(frames') = Len(frames) - 1
      /\ \A i \in 1..(Len(frames) - 1) : frames'[i] = frames[i]
  <2> DEFINE n == Len(frames) - 1
  <2>1. n \in Nat /\ n <= Len(frames) /\ frames' = SubSeq(frames, 1, n)
    BY <1>1
  <2> HIDE DEF n
  <2>2. frames' \in Seq(FrameStates) /\ Len(frames') = n /\ \A i \in 1..n : frames'[i] = frames[i]
    BY <1>1, <2>1
  <2> QED
    BY <2>2 DEF n
<1>3. frames' = <<>> <=> Len(frames') = 0
  BY <1>2, EmptySeq
<1>4. Len(frames') = 0 <=> Len(frames) = 1
  BY <1>1, <1>2
<1> QED
  BY <1>2, <1>3, <1>4

(* A step that changes the top frame, but does not push another.           *)
LEMMA NestedKept ==
    ASSUME ExceptionsInv, frames # <<>>, NEW f \in FrameStates, Now(f),
           cpu'.PIE = (f.at = "interruptible"), f.at # "irqtest",
           f.active # {} <=> f.at \in {"irq", "interruptible"}, f.active # {} => f.estatus,
           Len(frames) > 1 => f.estatus /\ f.at # "unknown"
    PROVE  Nested'
<1>1. /\ Len(frames') = Len(frames) /\ Frame' = f /\ frames'[Len(frames)] = f
      /\ \A i \in 1..Len(frames) : i < Len(frames) => frames'[i] = frames[i]
      /\ Len(frames) \in Nat
  BY TopChanges, TopOf DEF ExceptionsInv
<1> DEFINE Fits(g, i) ==
               /\ i < Len(frames) => g.at = "interruptible"
               /\ i > 1 => g.estatus /\ g.at # "unknown"
               /\ g.active # {} <=> g.at \in {"irq", "interruptible"}
               /\ g.active # {} => g.estatus
<1>2. ASSUME NEW i \in 1..Len(frames) PROVE Fits(frames'[i], i) /\ frames'[i].at # "irqtest"
  <2>1. CASE i < Len(frames)
    <3>1. frames'[i] = frames[i] /\ frames[i].at = "interruptible"
      BY <1>1, <2>1 DEF ExceptionsInv, Nested
    <3>2. Fits(frames[i], i)
      BY <2>1, <3>1 DEF ExceptionsInv, Nested
    <3> QED
      BY <3>1, <3>2
  <2>2. CASE i = Len(frames)
    BY <1>1, <2>2
  <2> QED
    BY <1>1, <2>1, <2>2
<1> QED
  BY <1>1, <1>2 DEF Nested

LEMMA ReturnsKept ==
    ASSUME ExceptionsInv, frames # <<>>, NEW f \in FrameStates, Now(f), UNCHANGED retired,
           f.resume = Frame.resume, f.at \notin {"irqtest", "unknown"}, Frame.at # "unknown"
    PROVE  Returns'
<1>1. /\ Len(frames') = Len(frames) /\ frames'[Len(frames)] = f /\ frames' # <<>>
      /\ \A i \in 1..Len(frames) : i < Len(frames) => frames'[i] = frames[i]
      /\ Len(frames) \in Nat /\ Len(frames) >= 1 /\ Frame = frames[Len(frames)]
  BY TopChanges, TopOf DEF ExceptionsInv
<1>2. frames'[1].resume = Len(retired) + 1 /\ frames'[1].at \notin {"irqtest", "unknown"}
  <2>1. CASE Len(frames) = 1
    BY <1>1, <2>1 DEF ExceptionsInv, Returns
  <2>2. CASE Len(frames) > 1
    <3>1. frames'[1] = frames[1] /\ frames[1].at = "interruptible"
      BY <1>1, <2>2 DEF ExceptionsInv, Nested
    <3> QED
      BY <3>1 DEF ExceptionsInv, Returns
  <2> QED
    BY <1>1, <2>1, <2>2
<1> QED
  BY <1>1, <1>2 DEF ExceptionsInv, Returns

LEMMA UrgentKept ==
    ASSUME ExceptionsInv, frames # <<>>, NEW f \in FrameStates, Now(f),
           UNCHANGED <<enabled, alt_priority_mask>>,
           f.active \subseteq enabled, f.at # "interruptible", Frame.at # "interruptible"
    PROVE  Urgent'
<1>1. /\ Len(frames') = Len(frames) /\ frames'[Len(frames)] = f /\ frames' # <<>>
      /\ \A i \in 1..Len(frames) : i < Len(frames) => frames'[i] = frames[i]
      /\ Len(frames) \in Nat /\ Len(frames) >= 1 /\ Frame = frames[Len(frames)]
  BY TopChanges, TopOf DEF ExceptionsInv
<1>2. ASSUME NEW i \in 1..Len(frames), i < Len(frames)
      PROVE  /\ Above(i)' = Above(i) /\ frames'[i] = frames[i] /\ frames[i].at = "interruptible"
             /\ alt_priority_mask \subseteq Above(i)
  BY <1>1, <1>2 DEF ExceptionsInv, Nested, Urgent, Above
<1>3. \A i \in 1..Len(frames') : frames'[i].at = "interruptible" => alt_priority_mask' \subseteq Above(i)'
  BY <1>1, <1>2
<1>4. ASSUME NEW i \in 1..Len(frames), NEW j \in 1..Len(frames), i < j
      PROVE  /\ frames'[j].active \subseteq Above(i)'
             /\ frames'[j].at = "interruptible" => frames'[j].old_priority \subseteq Above(i)'
  <2>1. i < Len(frames)
    BY <1>1, <1>4
  <2>2. CASE j < Len(frames)
    BY <1>2, <1>4, <2>1, <2>2 DEF ExceptionsInv, Urgent
  <2>3. CASE j = Len(frames)
    <3>1. enabled \subseteq alt_priority_mask
      BY DEF ExceptionsInv, Urgent
    <3> QED
      BY <1>1, <1>2, <2>1, <2>3, <3>1
  <2> QED
    BY <1>1, <2>2, <2>3
<1>5. IF frames' # <<>> /\ frames'[1].at = "interruptible" THEN frames'[1].old_priority = Lines
      ELSE alt_priority_mask' = Lines
  <2>1. CASE Len(frames) = 1
    BY <1>1, <2>1 DEF ExceptionsInv, Urgent
  <2>2. CASE Len(frames) > 1
    BY <1>1, <1>2, <2>2 DEF ExceptionsInv, Urgent
  <2> QED
    BY <1>1, <2>1, <2>2
<1>6. enabled' = Lines \cap alt_priority_mask'
  BY DEF ExceptionsInv, Urgent
<1> QED
  BY <1>1, <1>3, <1>4, <1>5, <1>6 DEF Urgent

LEMMA ExceptionsInvInit == ExceptionsInit => ExceptionsInv
<1> SUFFICES ASSUME ExceptionsInit PROVE ExceptionsInv
  OBVIOUS
<1>1. Lines \subseteq Nat /\ Faulty \subseteq DOMAIN Code
  BY ExceptionsAssumption
<1>2. ExceptionsTypeOK
  <2>1. cpu \in [pc : Nat, PIE : BOOLEAN, ea : Nat]
    BY DEF ExceptionsInit
  <2>2. frames \in Seq(FrameStates) /\ retired \in Seq([at : Nat, how : {"executed", "skipped"}])
    BY DEF ExceptionsInit
  <2>3. /\ requests \in SUBSET Lines /\ enabled \in SUBSET Lines /\ alt_priority_mask \in SUBSET Nat
        /\ faulty \in SUBSET DOMAIN Code /\ alt_instruction_exception_handler \in BOOLEAN
    BY <1>1 DEF ExceptionsInit
  <2> QED
    BY <2>1, <2>2, <2>3 DEF ExceptionsTypeOK
<1>3. Nested /\ Returns /\ Urgent
  BY DEF ExceptionsInit, Nested, Returns, Urgent
<1> QED
  BY <1>2, <1>3 DEF ExceptionsInv

(* The steps of the program, and of the hardware.                          *)
LEMMA AssertsKeeps ==
    ASSUME ExceptionsInv, NEW i \in Lines, Asserts(i)
    PROVE  ExceptionsInv'
<1>1. /\ UNCHANGED <<enabled, alt_priority_mask, cpu, frames, faulty, alt_instruction_exception_handler, retired>>
      /\ requests' = requests \cup {i}
  BY DEF Asserts
<1>2. ExceptionsTypeOK'
  BY <1>1 DEF ExceptionsInv, ExceptionsTypeOK
<1>3. Frame' = Frame /\ Requested \subseteq Requested'
  BY <1>1 DEF Frame, Requested
<1>4. Nested'
  BY <1>1, <1>3 DEF ExceptionsInv, Nested
<1>5. Returns'
  BY <1>1 DEF ExceptionsInv, Returns
<1>6. Urgent'
  BY <1>1 DEF ExceptionsInv, Urgent, Above
<1> QED
  BY <1>2, <1>4, <1>5, <1>6 DEF ExceptionsInv

LEMMA RegisterKeeps ==
    ASSUME ExceptionsInv, alt_instruction_exception_register
    PROVE  ExceptionsInv'
<1>1. /\ UNCHANGED <<requests, enabled, alt_priority_mask, cpu, frames, faulty, retired>>
      /\ alt_instruction_exception_handler' = ~alt_instruction_exception_handler
  BY DEF alt_instruction_exception_register
<1>2. ExceptionsTypeOK'
  BY <1>1 DEF ExceptionsInv, ExceptionsTypeOK
<1>3. Nested'
  BY <1>1 DEF ExceptionsInv, Nested, Frame, Requested
<1>4. Returns'
  BY <1>1 DEF ExceptionsInv, Returns
<1>5. Urgent'
  BY <1>1 DEF ExceptionsInv, Urgent, Above
<1> QED
  BY <1>2, <1>3, <1>4, <1>5 DEF ExceptionsInv

(* The instructions that have been executed or skipped, with one more.     *)
LEMMA OneMoreRetired ==
    ASSUME ExceptionsInv, NEW how \in {"executed", "skipped"}, NEW at \in Nat, at = Len(retired) + 1,
           retired' = Append(retired, [at |-> at, how |-> how])
    PROVE  /\ retired' \in Seq([at : Nat, how : {"executed", "skipped"}])
           /\ Len(retired') = Len(retired) + 1 /\ Len(retired) \in Nat
           /\ \A i \in 1..Len(retired') : retired'[i].at = i
<1> DEFINE entry == [at |-> at, how |-> how]
<1>1. retired \in Seq([at : Nat, how : {"executed", "skipped"}]) /\ \A i \in 1..Len(retired) : retired[i].at = i
  BY DEF ExceptionsInv, ExceptionsTypeOK, Returns
<1>2. entry \in [at : Nat, how : {"executed", "skipped"}] /\ entry.at = Len(retired) + 1 /\ retired' = Append(retired, entry)
  OBVIOUS
<1> HIDE DEF entry
<1>3. /\ retired' \in Seq([at : Nat, how : {"executed", "skipped"}])
      /\ Len(retired') = Len(retired) + 1 /\ Len(retired) \in Nat
      /\ \A i \in 1..Len(retired) : retired'[i] = retired[i]
      /\ retired'[Len(retired) + 1] = entry
  BY <1>1, <1>2
<1>4. ASSUME NEW i \in 1..Len(retired') PROVE retired'[i].at = i
  <2>1. CASE i \in 1..Len(retired)
    BY <1>1, <1>3, <2>1
  <2>2. CASE i = Len(retired) + 1
    BY <1>2, <1>3, <2>2
  <2> QED
    BY <1>3, <2>1, <2>2
<1> QED
  BY <1>3, <1>4

LEMMA ExecuteKeeps ==
    ASSUME ExceptionsInv, Execute
    PROVE  ExceptionsInv'
<1>1. /\ UNCHANGED <<requests, enabled, alt_priority_mask, frames, faulty, alt_instruction_exception_handler>>
      /\ frames = <<>> /\ retired' = Append(retired, [at |-> cpu.pc, how |-> "executed"])
  BY DEF Execute, AtProgram
<1>2. cpu.pc \in Nat /\ cpu.pc = Len(retired) + 1
  BY <1>1 DEF ExceptionsInv, ExceptionsTypeOK, Returns
<1>3. cpu' \in [pc : Nat, PIE : BOOLEAN, ea : Nat] /\ cpu'.pc = cpu.pc + 1
  <2> DEFINE PIE == CASE Code[cpu.pc] = "disable" -> FALSE [] Code[cpu.pc] = "enable" -> TRUE
                      [] OTHER -> cpu.PIE
  <2>1. PIE \in BOOLEAN
    BY DEF ExceptionsInv, ExceptionsTypeOK
  <2>2. cpu' = [cpu EXCEPT !.pc = cpu.pc + 1, !.PIE = PIE]
    BY DEF Execute
  <2> HIDE DEF PIE
  <2>3. cpu \in [pc : Nat, PIE : BOOLEAN, ea : Nat] /\ cpu.pc + 1 \in Nat
    BY <1>2 DEF ExceptionsInv, ExceptionsTypeOK
  <2> DEFINE later == cpu.pc + 1
  <2>4. later \in Nat /\ cpu' = [cpu EXCEPT !.pc = later, !.PIE = PIE]
    BY <2>2, <2>3
  <2> HIDE DEF later
  <2>5. cpu' \in [pc : Nat, PIE : BOOLEAN, ea : Nat] /\ cpu'.pc = later
    BY <2>1, <2>3, <2>4
  <2> QED
    BY <2>5 DEF later
<1>4. /\ retired' \in Seq([at : Nat, how : {"executed", "skipped"}])
      /\ Len(retired') = Len(retired) + 1
      /\ \A i \in 1..Len(retired') : retired'[i].at = i
  BY <1>1, <1>2, OneMoreRetired
<1>5. ExceptionsTypeOK'
  BY <1>1, <1>3, <1>4 DEF ExceptionsInv, ExceptionsTypeOK
<1>6. Nested'
  BY <1>1 DEF Nested
<1>7. Returns'
  BY <1>1, <1>2, <1>3, <1>4 DEF Returns
<1>8. Urgent'
  BY <1>1 DEF ExceptionsInv, Urgent, Above
<1> QED
  BY <1>5, <1>6, <1>7, <1>8 DEF ExceptionsInv

(* The CPU saves where it was: in the program, or in a handler that lets   *)
(* others in.                                                              *)
LEMMA ExceptionKeeps ==
    ASSUME ExceptionsInv, alt_exception
    PROVE  ExceptionsInv'
<1> DEFINE pushed == [estatus |-> cpu.PIE, resume |-> cpu.pc, at |-> "irqtest",
                      active |-> {}, old_priority |-> {}]
<1>1. /\ UNCHANGED <<requests, enabled, alt_priority_mask, faulty, alt_instruction_exception_handler, retired>>
      /\ cpu' = [pc |-> 0, PIE |-> FALSE, ea |-> cpu.pc + 1] /\ frames' = Append(frames, pushed)
  BY DEF alt_exception
<1>2. /\ cpu.pc \in Nat /\ cpu.PIE \in BOOLEAN /\ cpu'.PIE = FALSE /\ cpu'.ea = cpu.pc + 1
      /\ cpu' \in [pc : Nat, PIE : BOOLEAN, ea : Nat] /\ Len(retired) \in Nat
  <2>1. cpu.pc \in Nat /\ cpu.PIE \in BOOLEAN /\ Len(retired) \in Nat
    BY DEF ExceptionsInv, ExceptionsTypeOK
  <2> DEFINE later == cpu.pc + 1
  <2>2. later \in Nat /\ cpu' = [pc |-> 0, PIE |-> FALSE, ea |-> later]
    BY <1>1, <2>1
  <2> HIDE DEF later
  <2>3. cpu' \in [pc : Nat, PIE : BOOLEAN, ea : Nat] /\ cpu'.PIE = FALSE /\ cpu'.ea = later
    BY <2>2
  <2> QED
    BY <2>1, <2>3 DEF later
<1>3. /\ pushed \in FrameStates /\ pushed.at = "irqtest" /\ pushed.active = {}
      /\ pushed.resume = cpu.pc /\ pushed.estatus = cpu.PIE
  BY <1>2 DEF FrameStates
<1> HIDE DEF pushed
<1>4. /\ frames' \in Seq(FrameStates) /\ frames' # <<>> /\ Len(frames') = Len(frames) + 1
      /\ Frame' = pushed /\ frames'[Len(frames) + 1] = pushed
      /\ \A i \in 1..Len(frames) : frames'[i] = frames[i]
  BY <1>1, <1>3, FramePushed DEF ExceptionsInv
<1>5. ASSUME frames # <<>>
      PROVE  cpu.PIE /\ Requested # {} /\ \A i \in 1..Len(frames) : frames[i].at = "interruptible"
  <2>1. cpu.PIE /\ Requested # {}
    BY <1>5 DEF alt_exception, AtProgram
  <2>2. Frame.at = "interruptible" /\ Frame = frames[Len(frames)] /\ Len(frames) \in Nat
    BY <1>5, <2>1, TopOf DEF ExceptionsInv, Nested
  <2>3. \A i \in 1..Len(frames) : frames[i].at = "interruptible"
    BY <2>2 DEF ExceptionsInv, Nested
  <2> QED
    BY <2>1, <2>3
<1>6. Len(frames) \in Nat /\ (frames = <<>> <=> Len(frames) = 0)
  BY EmptySeq DEF ExceptionsInv, ExceptionsTypeOK
<1>7. ExceptionsTypeOK'
  BY <1>1, <1>2, <1>4 DEF ExceptionsInv, ExceptionsTypeOK
<1>8. Nested'
  <2>1. Requested' = Requested
    BY <1>1 DEF Requested
  <2>2. ASSUME NEW i \in 1..Len(frames)
        PROVE  /\ frames'[i].at = "interruptible" /\ (i > 1 => frames'[i].estatus)
               /\ frames'[i].active # {} /\ frames'[i].estatus
    <3>1. frames # <<>>
      BY <1>6
    <3> QED
      BY <1>4, <1>5, <3>1 DEF ExceptionsInv, Nested
  <2>3. Len(frames) + 1 > 1 => pushed.estatus /\ Requested # {}
    BY <1>3, <1>5, <1>6
  <2>4. cpu'.PIE = (Frame'.at = "interruptible")
    BY <1>2, <1>3, <1>4
  <2> QED
    BY <1>3, <1>4, <1>6, <2>1, <2>2, <2>3, <2>4 DEF Nested
<1>9. Returns'
  <2>1. CASE frames = <<>>
    <3>1. frames'[1] = pushed /\ cpu.pc = Len(retired) + 1
      BY <1>4, <1>6, <2>1 DEF ExceptionsInv, Returns
    <3> QED
      BY <1>1, <1>2, <1>3, <1>4, <3>1 DEF ExceptionsInv, Returns
  <2>2. CASE frames # <<>>
    <3>1. frames'[1] = frames[1] /\ frames[1].at = "interruptible"
      BY <1>4, <1>5, <1>6, <2>2
    <3> QED
      BY <1>1, <1>4, <2>2, <3>1 DEF ExceptionsInv, Returns
  <2> QED
    BY <2>1, <2>2
<1>10. Urgent'
  <2>1. \A i \in 1..Len(frames) : Above(i)' = Above(i)
    BY <1>4 DEF Above
  <2>2. \A i \in 1..Len(frames') : i \in 1..Len(frames) \/ i = Len(frames) + 1
    BY <1>4, <1>6
  <2>3. \A i \in 1..Len(frames') : frames'[i].at = "interruptible" => alt_priority_mask' \subseteq Above(i)'
    BY <1>1, <1>3, <1>4, <2>1, <2>2 DEF ExceptionsInv, Urgent
  <2>4. ASSUME NEW i \in 1..Len(frames'), NEW j \in 1..Len(frames'), i < j
        PROVE  /\ frames'[j].active \subseteq Above(i)'
               /\ frames'[j].at = "interruptible" => frames'[j].old_priority \subseteq Above(i)'
    <3>1. CASE j \in 1..Len(frames)
      <4>1. i \in 1..Len(frames)
        BY <1>4, <1>6, <2>4, <3>1
      <4> QED
        BY <1>4, <2>1, <2>4, <3>1, <4>1 DEF ExceptionsInv, Urgent
    <3>2. CASE j = Len(frames) + 1
      BY <1>3, <1>4, <3>2
    <3> QED
      BY <2>2, <3>1, <3>2
  <2>5. IF frames' # <<>> /\ frames'[1].at = "interruptible" THEN frames'[1].old_priority = Lines
        ELSE alt_priority_mask' = Lines
    <3>1. CASE frames = <<>>
      BY <1>1, <1>3, <1>4, <1>6, <3>1 DEF ExceptionsInv, Urgent
    <3>2. CASE frames # <<>>
      <4>1. frames'[1] = frames[1]
        BY <1>4, <1>6, <3>2
      <4> QED
        BY <1>1, <1>4, <3>2, <4>1 DEF ExceptionsInv, Urgent
    <3> QED
      BY <3>1, <3>2
  <2>6. enabled' = Lines \cap alt_priority_mask'
    BY <1>1 DEF ExceptionsInv, Urgent
  <2> QED
    BY <2>3, <2>4, <2>5, <2>6 DEF Urgent
<1> QED
  BY <1>7, <1>8, <1>9, <1>10 DEF ExceptionsInv

LEMMA IrqTestKeeps ==
    ASSUME ExceptionsInv, IrqTest
    PROVE  ExceptionsInv'
<1>1. /\ UNCHANGED <<requests, enabled, alt_priority_mask, cpu, faulty, alt_instruction_exception_handler, retired>>
      /\ frames # <<>> /\ Frame.at = "irqtest" /\ ~cpu.PIE
  BY DEF IrqTest, Step, ExceptionsInv, Nested
<1>2. /\ Len(frames) \in Nat /\ Len(frames) >= 1 /\ Frame \in FrameStates /\ Frame = frames[Len(frames)]
      /\ Requested \in SUBSET Lines /\ cpu.ea \in Nat /\ Requested \subseteq enabled
  BY <1>1, TopOf DEF ExceptionsInv, ExceptionsTypeOK, Requested
<1>3. Frame.active = {} /\ (Len(frames) > 1 => Frame.estatus /\ Requested # {})
  BY <1>1, <1>2 DEF ExceptionsInv, Nested
<1>4. CASE IsInterrupt(Frame)
  <2> DEFINE f == [Frame EXCEPT !.at = "irq", !.active = Requested]
  <2>1. Now(f) /\ Frame.estatus /\ Requested # {}
    BY <1>4 DEF IrqTest, IsInterrupt
  <2>2. /\ f \in FrameStates /\ f.at = "irq" /\ f.active = Requested /\ f.estatus /\ f.resume = Frame.resume
    BY <1>2, <2>1 DEF FrameStates
  <2> HIDE DEF f
  <2>3. ExceptionsTypeOK'
    BY <1>1, <2>1, <2>2, TopChanges DEF ExceptionsInv, ExceptionsTypeOK
  <2>4. cpu'.PIE = (f.at = "interruptible")
    BY <1>1, <2>2 DEF ExceptionsInv, ExceptionsTypeOK
  <2>5. Nested'
    BY <1>1, <2>1, <2>2, <2>4, NestedKept
  <2>6. Returns'
    BY <1>1, <2>1, <2>2, ReturnsKept
  <2>7. Urgent'
    BY <1>1, <1>2, <2>1, <2>2, UrgentKept
  <2> QED
    BY <2>3, <2>5, <2>6, <2>7 DEF ExceptionsInv
<1>5. CASE ~IsInterrupt(Frame)
  <2> DEFINE f == [Frame EXCEPT !.at = "unknown", !.resume = cpu.ea]
  <2>1. Now(f) /\ Len(frames) = 1
    <3>1. Now(f)
      BY <1>5 DEF IrqTest
    <3>2. ~(Len(frames) > 1)
      BY <1>3, <1>5 DEF IsInterrupt
    <3>3. Len(frames) = 1
      BY <1>1, <3>2, TopOf DEF ExceptionsInv
    <3> QED
      BY <3>1, <3>3, Zenon
  <2>2. f \in FrameStates /\ f.at = "unknown" /\ f.active = {} /\ f.resume = cpu.ea
    BY <1>2, <1>3 DEF FrameStates
  <2> HIDE DEF f
  <2>3. ExceptionsTypeOK'
    BY <1>1, <2>1, <2>2, TopChanges DEF ExceptionsInv, ExceptionsTypeOK
  <2>4. cpu'.PIE = (f.at = "interruptible")
    BY <1>1, <2>2 DEF ExceptionsInv, ExceptionsTypeOK
  <2>5. Nested'
    BY <1>1, <2>1, <2>2, <2>4, NestedKept
  <2>6. Returns'
    BY <1>1, <1>2, <2>1, <2>2, TopChanges DEF ExceptionsInv, Returns
  <2>7. Urgent'
    BY <1>1, <2>1, <2>2, UrgentKept
  <2> QED
    BY <2>3, <2>5, <2>6, <2>7 DEF ExceptionsInv
<1> QED
  BY <1>4, <1>5

(* The program's own exceptions: skipped, or issued again.                 *)
LEMMA InstructionKeeps ==
    ASSUME ExceptionsInv, alt_instruction_exception_entry
    PROVE  ExceptionsInv'
<1> DEFINE pc == cpu.ea - 1
<1>1. /\ UNCHANGED <<requests, enabled, alt_priority_mask, cpu, alt_instruction_exception_handler>>
      /\ frames # <<>> /\ Frame.at = "unknown" /\ ~cpu.PIE
  BY DEF alt_instruction_exception_entry, Step, ExceptionsInv, Nested
<1>2. /\ Len(frames) \in Nat /\ Frame \in FrameStates /\ Frame = frames[Len(frames)] /\ Len(frames) = 1
      /\ Frame.active = {} /\ Len(retired) \in Nat
  <2>1. Len(frames) \in Nat /\ Len(frames) >= 1 /\ Frame \in FrameStates /\ Frame = frames[Len(frames)]
    BY <1>1, TopOf DEF ExceptionsInv
  <2>2. Frame.active = {} /\ ~(Len(frames) > 1)
    BY <1>1, <2>1 DEF ExceptionsInv, Nested
  <2>3. Len(frames) = 1
    BY <1>1, <2>2, TopOf DEF ExceptionsInv
  <2>4. Len(retired) \in Nat
    BY DEF ExceptionsInv, ExceptionsTypeOK
  <2> QED
    BY <2>1, <2>2, <2>3, <2>4
<1>3. pc \in Nat /\ pc = Len(retired) + 1 /\ Frame.resume = Len(retired) + 2
  BY <1>1, <1>2 DEF ExceptionsInv, Returns
<1> HIDE DEF pc
<1>4. /\ \/ Now([Frame EXCEPT !.at = "exit"])
         \/ Now([Frame EXCEPT !.at = "exit", !.resume = pc])
  BY DEF alt_instruction_exception_entry, pc
<1>5. ASSUME NEW f \in FrameStates, Now(f), f.at = "exit", f.active = {}
      PROVE  Nested' /\ Urgent' /\ frames' \in Seq(FrameStates) /\ frames' # <<>> /\ frames'[1] = f
  <2>1. cpu'.PIE = (f.at = "interruptible")
    BY <1>1, <1>5 DEF ExceptionsInv, ExceptionsTypeOK
  <2>2. Nested'
    BY <1>1, <1>2, <1>5, <2>1, NestedKept
  <2>3. Urgent'
    BY <1>1, <1>5, UrgentKept
  <2> QED
    BY <1>1, <1>2, <1>5, <2>2, <2>3, TopChanges DEF ExceptionsInv
<1>6. CASE /\ Now([Frame EXCEPT !.at = "exit"]) /\ UNCHANGED faulty
           /\ retired' = Append(retired, [at |-> pc, how |-> "skipped"])
  <2> DEFINE f == [Frame EXCEPT !.at = "exit"]
  <2>1. Now(f) /\ f \in FrameStates /\ f.at = "exit" /\ f.active = {} /\ f.resume = Frame.resume
    BY <1>2, <1>6 DEF FrameStates
  <2> HIDE DEF f
  <2>2. Nested' /\ Urgent' /\ frames' \in Seq(FrameStates) /\ frames' # <<>> /\ frames'[1] = f
    BY <1>5, <2>1
  <2>3. /\ retired' \in Seq([at : Nat, how : {"executed", "skipped"}])
        /\ Len(retired') = Len(retired) + 1
        /\ \A i \in 1..Len(retired') : retired'[i].at = i
    BY <1>3, <1>6, OneMoreRetired
  <2>4. ExceptionsTypeOK'
    BY <1>1, <1>6, <2>2, <2>3 DEF ExceptionsInv, ExceptionsTypeOK
  <2>5. Returns'
    BY <1>2, <1>3, <2>1, <2>2, <2>3 DEF Returns
  <2> QED
    BY <2>2, <2>4, <2>5 DEF ExceptionsInv
<1>7. CASE /\ Now([Frame EXCEPT !.at = "exit", !.resume = pc]) /\ UNCHANGED retired
           /\ faulty' \subseteq faulty
  <2> DEFINE f == [Frame EXCEPT !.at = "exit", !.resume = pc]
  <2>1. Now(f) /\ f \in FrameStates /\ f.at = "exit" /\ f.active = {} /\ f.resume = pc
    BY <1>2, <1>3, <1>7 DEF FrameStates
  <2> HIDE DEF f
  <2>2. Nested' /\ Urgent' /\ frames' \in Seq(FrameStates) /\ frames' # <<>> /\ frames'[1] = f
    BY <1>5, <2>1
  <2>3. ExceptionsTypeOK'
    BY <1>1, <1>7, <2>2 DEF ExceptionsInv, ExceptionsTypeOK
  <2>4. Returns'
    BY <1>2, <1>3, <1>7, <2>1, <2>2 DEF ExceptionsInv, Returns
  <2> QED
    BY <2>2, <2>3, <2>4 DEF ExceptionsInv
<1> QED
  BY <1>6, <1>7 DEF alt_instruction_exception_entry, pc

(* A line that is being served lies in the lines that may be served.       *)
LEMMA ServingLines ==
    ASSUME ExceptionsInv, frames # <<>>, Frame.active # {}
    PROVE  /\ MostUrgent(Frame.active) \in Frame.active /\ MostUrgent(Frame.active) \in Nat
           /\ Frame.active \in SUBSET Lines
           /\ \A i \in 1..Len(frames) : i < Len(frames) => Frame.active \subseteq Above(i)
<1>1. Frame \in FrameStates /\ Frame = frames[Len(frames)] /\ Len(frames) \in 1..Len(frames)
  BY TopOf DEF ExceptionsInv
<1>2. Frame.active \in SUBSET Lines
  BY <1>1 DEF FrameStates
<1>3. MostUrgent(Frame.active) \in Frame.active
  BY <1>2, LinesAreNat, MostUrgentIsMember
<1> QED
  BY <1>1, <1>2, <1>3, LinesAreNat DEF ExceptionsInv, Urgent

LEMMA HandlerKeeps ==
    ASSUME ExceptionsInv, Handler
    PROVE  ExceptionsInv'
<1> DEFINE active == requests' \cap enabled'
           at == IF active = {} THEN "exit" ELSE "irq"
           f == [Frame EXCEPT !.active = active, !.at = at]
<1>1. /\ UNCHANGED <<enabled, alt_priority_mask, cpu, faulty, alt_instruction_exception_handler, retired>>
      /\ frames # <<>> /\ Frame.at = "irq" /\ ~cpu.PIE /\ requests' \subseteq requests /\ Now(f)
  BY DEF Handler, Serve, Step, ExceptionsInv, Nested
<1>2. /\ Frame \in FrameStates /\ Frame = frames[Len(frames)] /\ Len(frames) \in 1..Len(frames)
      /\ active \in SUBSET Lines /\ active \subseteq enabled
  BY <1>1, TopOf DEF ExceptionsInv, ExceptionsTypeOK
<1>3. at \in {"exit", "irq"} /\ (active # {} <=> at = "irq")
  OBVIOUS
<1>4. Frame.estatus
  BY <1>1, <1>2 DEF ExceptionsInv, Nested
<1> HIDE DEF active, at
<1>5. f \in FrameStates /\ f.at = at /\ f.active = active /\ f.resume = Frame.resume /\ f.estatus
  BY <1>2, <1>3, <1>4 DEF FrameStates
<1> HIDE DEF f
<1>6. ExceptionsTypeOK'
  BY <1>1, <1>5, TopChanges DEF ExceptionsInv, ExceptionsTypeOK
<1>7. cpu'.PIE = (f.at = "interruptible")
  BY <1>1, <1>3, <1>5 DEF ExceptionsInv, ExceptionsTypeOK
<1>8. Nested'
  BY <1>1, <1>3, <1>5, <1>7, NestedKept
<1>9. Returns'
  BY <1>1, <1>3, <1>5, ReturnsKept
<1>10. Urgent'
  BY <1>1, <1>2, <1>3, <1>5, UrgentKept
<1> QED
  BY <1>6, <1>8, <1>9, <1>10 DEF ExceptionsInv

(* A handler lets in the lines that are more urgent than its own, and      *)
(* keeps the mask it was called with.                                      *)
LEMMA InterruptibleKeeps ==
    ASSUME ExceptionsInv, alt_irq_interruptible
    PROVE  ExceptionsInv'
<1> DEFINE p == MostUrgent(Frame.active)
           f == [Frame EXCEPT !.at = "interruptible", !.old_priority = alt_priority_mask]
<1>1. /\ UNCHANGED <<requests, faulty, alt_instruction_exception_handler, retired>>
      /\ frames # <<>> /\ Frame.at = "irq" /\ Now(f) /\ alt_priority_mask' = MoreUrgent(p)
      /\ enabled' = Lines \cap alt_priority_mask' /\ cpu' = [cpu EXCEPT !.PIE = TRUE]
  BY DEF alt_irq_interruptible, Step
<1>2. /\ Frame \in FrameStates /\ Frame = frames[Len(frames)] /\ Len(frames) \in 1..Len(frames)
      /\ Len(frames) \in Nat /\ alt_priority_mask \in SUBSET Nat
      /\ cpu \in [pc : Nat, PIE : BOOLEAN, ea : Nat]
  BY <1>1, TopOf DEF ExceptionsInv, ExceptionsTypeOK
<1>3. Frame.active # {} /\ Frame.estatus
  BY <1>1, <1>2 DEF ExceptionsInv, Nested
<1>4. /\ p \in Frame.active /\ p \in Nat
      /\ \A i \in 1..Len(frames) : i < Len(frames) => Frame.active \subseteq Above(i)
  BY <1>1, <1>3, ServingLines
<1>5. /\ f \in FrameStates /\ f.at = "interruptible" /\ f.active = Frame.active /\ f.estatus
      /\ f.resume = Frame.resume /\ f.old_priority = alt_priority_mask
  BY <1>2, <1>3 DEF FrameStates
<1> HIDE DEF p, f
<1>6. MoreUrgent(p) \in SUBSET Nat
  BY <1>4 DEF MoreUrgent
<1>7. /\ frames' \in Seq(FrameStates) /\ Len(frames') = Len(frames) /\ frames'[Len(frames)] = f /\ frames' # <<>>
      /\ \A i \in 1..Len(frames) : i < Len(frames) => frames'[i] = frames[i]
  BY <1>1, <1>5, TopChanges DEF ExceptionsInv
<1>8. ExceptionsTypeOK'
  <2>1. cpu' \in [pc : Nat, PIE : BOOLEAN, ea : Nat]
    BY <1>1, <1>2
  <2> QED
    BY <1>1, <1>6, <1>7, <2>1 DEF ExceptionsInv, ExceptionsTypeOK
<1>9. Nested'
  <2>1. cpu'.PIE = TRUE
    BY <1>1, <1>2
  <2>2. cpu'.PIE = (f.at = "interruptible")
    BY <1>5, <2>1
  <2> QED
    BY <1>1, <1>3, <1>5, <2>2, NestedKept DEF ExceptionsInv, Nested
<1>10. Returns'
  BY <1>1, <1>5, ReturnsKept
<1>11. Urgent'
  <2>1. Above(Len(frames))' = MoreUrgent(p)
    BY <1>5, <1>7 DEF Above, p
  <2>2. ASSUME NEW i \in 1..Len(frames), i < Len(frames)
        PROVE  /\ Above(i)' = Above(i) /\ frames'[i] = frames[i] /\ frames[i].at = "interruptible"
               /\ alt_priority_mask \subseteq Above(i) /\ MoreUrgent(p) \subseteq Above(i)
               /\ Frame.active \subseteq Above(i)
    <3>1. /\ Above(i)' = Above(i) /\ frames'[i] = frames[i] /\ frames[i].at = "interruptible"
          /\ alt_priority_mask \subseteq Above(i) /\ Frame.active \subseteq Above(i)
      BY <1>4, <1>7, <2>2 DEF ExceptionsInv, Nested, Urgent, Above
    <3>2. MoreUrgent(p) \subseteq Above(i)
      <4> DEFINE q == MostUrgent(frames[i].active)
      <4>1. frames[i] \in FrameStates /\ frames[i].active # {}
        BY <1>1, <3>1, TopOf DEF ExceptionsInv, Nested
      <4>2. q \in Nat
        BY <4>1, LinesAreNat, MostUrgentIsMember DEF FrameStates
      <4>3. p \in 0..(q - 1)
        BY <1>4, <3>1 DEF Above, MoreUrgent
      <4> HIDE DEF q
      <4>4. 0..(p - 1) \subseteq 0..(q - 1)
        BY <1>4, <4>2, <4>3
      <4> QED
        BY <4>4 DEF Above, MoreUrgent, q
    <3> QED
      BY <3>1, <3>2
  <2>3. ASSUME NEW i \in 1..Len(frames'), frames'[i].at = "interruptible" PROVE alt_priority_mask' \subseteq Above(i)'
    BY <1>1, <1>2, <1>7, <2>1, <2>2
  <2>4. ASSUME NEW i \in 1..Len(frames'), NEW j \in 1..Len(frames'), i < j
        PROVE  /\ frames'[j].active \subseteq Above(i)'
               /\ frames'[j].at = "interruptible" => frames'[j].old_priority \subseteq Above(i)'
    <3>1. i < Len(frames) /\ i \in 1..Len(frames) /\ j \in 1..Len(frames)
      BY <1>2, <1>7, <2>4
    <3>2. CASE j < Len(frames)
      BY <2>2, <2>4, <3>1, <3>2 DEF ExceptionsInv, Urgent
    <3>3. CASE j = Len(frames)
      BY <1>5, <1>7, <2>2, <3>1, <3>3
    <3> QED
      BY <1>2, <3>1, <3>2, <3>3
  <2>5. frames'[1].at = "interruptible" /\ frames'[1].old_priority = Lines
    <3>1. CASE Len(frames) = 1
      BY <1>1, <1>2, <1>5, <1>7, <3>1 DEF ExceptionsInv, Urgent
    <3>2. CASE Len(frames) > 1
      BY <1>1, <1>2, <2>2, <3>2 DEF ExceptionsInv, Urgent
    <3> QED
      BY <1>1, <3>1, <3>2, TopOf DEF ExceptionsInv
  <2>6. enabled' = Lines \cap alt_priority_mask'
    BY <1>1
  <2> QED
    BY <1>7, <2>3, <2>4, <2>5, <2>6 DEF Urgent
<1> QED
  BY <1>8, <1>9, <1>10, <1>11 DEF ExceptionsInv

LEMMA NonInterruptibleKeeps ==
    ASSUME ExceptionsInv, alt_irq_non_interruptible
    PROVE  ExceptionsInv'
<1> DEFINE active == requests' \cap enabled'
           at == IF active = {} THEN "exit" ELSE "irq"
           f == [Frame EXCEPT !.active = active, !.at = at]
           mask == Frame.old_priority
<1>1. /\ UNCHANGED <<faulty, alt_instruction_exception_handler, retired>>
      /\ frames # <<>> /\ Frame.at = "interruptible" /\ requests' \subseteq requests /\ Now(f)
      /\ alt_priority_mask' = mask /\ enabled' = Lines \cap mask /\ cpu' = [cpu EXCEPT !.PIE = FALSE]
  BY DEF alt_irq_non_interruptible, Serve, Step
<1>2. /\ Frame \in FrameStates /\ Frame = frames[Len(frames)] /\ Len(frames) \in 1..Len(frames)
      /\ Len(frames) \in Nat /\ active \in SUBSET Lines /\ active \subseteq mask
      /\ cpu \in [pc : Nat, PIE : BOOLEAN, ea : Nat]
  BY <1>1, TopOf DEF ExceptionsInv, ExceptionsTypeOK
<1>3. at \in {"exit", "irq"} /\ (active # {} <=> at = "irq")
  OBVIOUS
<1>4. Frame.estatus
  BY <1>1, <1>2 DEF ExceptionsInv, Nested
<1>5. mask \in SUBSET Nat
  BY <1>2 DEF FrameStates
<1> HIDE DEF active, at
<1>6. f \in FrameStates /\ f.at = at /\ f.active = active /\ f.resume = Frame.resume /\ f.estatus
  BY <1>2, <1>3, <1>4 DEF FrameStates
<1> HIDE DEF f
<1>7. /\ frames' \in Seq(FrameStates) /\ Len(frames') = Len(frames) /\ frames'[Len(frames)] = f /\ frames' # <<>>
      /\ \A i \in 1..Len(frames) : i < Len(frames) => frames'[i] = frames[i]
  BY <1>1, <1>6, TopChanges DEF ExceptionsInv
<1>8. ExceptionsTypeOK'
  <2>1. cpu' \in [pc : Nat, PIE : BOOLEAN, ea : Nat]
    BY <1>1, <1>2
  <2> HIDE DEF mask
  <2> QED
    BY <1>1, <1>5, <1>7, <2>1 DEF ExceptionsInv, ExceptionsTypeOK
<1>9. Nested'
  <2>1. cpu'.PIE = FALSE
    BY <1>1, <1>2
  <2>2. cpu'.PIE = (f.at = "interruptible")
    BY <1>3, <1>6, <2>1
  <2> QED
    BY <1>1, <1>3, <1>6, <2>2, NestedKept
<1>10. Returns'
  BY <1>1, <1>3, <1>6, ReturnsKept
<1>11. Urgent'
  <2>1. ASSUME NEW i \in 1..Len(frames), i < Len(frames)
        PROVE  /\ Above(i)' = Above(i) /\ frames'[i] = frames[i] /\ frames[i].at = "interruptible"
               /\ mask \subseteq Above(i)
    BY <1>1, <1>2, <1>7, <2>1 DEF ExceptionsInv, Nested, Urgent, Above
  <2>2. ASSUME NEW i \in 1..Len(frames'), frames'[i].at = "interruptible" PROVE alt_priority_mask' \subseteq Above(i)'
    <3>1. i # Len(frames)
      BY <1>3, <1>6, <1>7, <2>2
    <3> QED
      BY <1>1, <1>2, <1>7, <2>1, <3>1
  <2>3. ASSUME NEW i \in 1..Len(frames'), NEW j \in 1..Len(frames'), i < j
        PROVE  /\ frames'[j].active \subseteq Above(i)'
               /\ frames'[j].at = "interruptible" => frames'[j].old_priority \subseteq Above(i)'
    <3>1. i < Len(frames) /\ i \in 1..Len(frames) /\ j \in 1..Len(frames)
      BY <1>2, <1>7, <2>3
    <3>2. CASE j < Len(frames)
      BY <2>1, <2>3, <3>1, <3>2 DEF ExceptionsInv, Urgent
    <3>3. CASE j = Len(frames)
      BY <1>2, <1>3, <1>6, <1>7, <2>1, <3>1, <3>3
    <3> QED
      BY <1>2, <3>1, <3>2, <3>3
  <2>4. IF frames' # <<>> /\ frames'[1].at = "interruptible" THEN frames'[1].old_priority = Lines
        ELSE alt_priority_mask' = Lines
    <3>1. CASE Len(frames) = 1
      BY <1>1, <1>2, <1>3, <1>6, <1>7, <3>1 DEF ExceptionsInv, Urgent
    <3>2. CASE Len(frames) > 1
      BY <1>1, <1>2, <1>7, <2>1, <3>2 DEF ExceptionsInv, Urgent
    <3> QED
      BY <1>1, <3>1, <3>2, TopOf DEF ExceptionsInv
  <2>5. enabled' = Lines \cap alt_priority_mask'
    BY <1>1
  <2> QED
    BY <2>2, <2>3, <2>4, <2>5 DEF Urgent
<1> QED
  BY <1>8, <1>9, <1>10, <1>11 DEF ExceptionsInv

(* The way back: into the program, or into the handler that let others in. *)
LEMMA ExitKeeps ==
    ASSUME ExceptionsInv, ExceptionExit
    PROVE  ExceptionsInv'
<1> DEFINE resume == Frame.resume
           estatus == Frame.estatus
<1>1. /\ UNCHANGED <<requests, enabled, alt_priority_mask, faulty, alt_instruction_exception_handler, retired>>
      /\ frames # <<>> /\ Frame.at = "exit" /\ frames' = SubSeq(frames, 1, Len(frames) - 1)
      /\ cpu' = [pc |-> resume, PIE |-> estatus, ea |-> resume]
  BY DEF ExceptionExit, Step
<1>2. /\ Len(frames) \in Nat /\ Frame = frames[Len(frames)] /\ (Len(frames) = 1 \/ Len(frames) > 1)
      /\ resume \in Nat /\ estatus \in BOOLEAN
  BY <1>1, TopOf DEF ExceptionsInv, FrameStates
<1> HIDE DEF resume, estatus
<1>3. /\ frames' \in Seq(FrameStates) /\ Len(frames') = Len(frames) - 1
      /\ \A i \in 1..(Len(frames) - 1) : frames'[i] = frames[i]
      /\ frames' = <<>> <=> Len(frames) = 1
  BY <1>1, FramePopped DEF ExceptionsInv
<1>4. cpu' \in [pc : Nat, PIE : BOOLEAN, ea : Nat] /\ cpu'.PIE = estatus /\ cpu'.pc = resume
  BY <1>1, <1>2
<1>5. ExceptionsTypeOK'
  BY <1>1, <1>3, <1>4 DEF ExceptionsInv, ExceptionsTypeOK
<1>6. \A i \in 1..Len(frames') : frames'[i] = frames[i] /\ frames[i].at = "interruptible" /\ i \in 1..Len(frames)
  BY <1>2, <1>3 DEF ExceptionsInv, Nested
<1>7. ASSUME Len(frames) > 1
      PROVE  frames' # <<>> /\ frames'[1] = frames[1] /\ frames[1].at = "interruptible" /\ 1 \in 1..Len(frames)
  BY <1>2, <1>3, <1>6, <1>7
<1>8. Nested'
  <2>1. ASSUME frames' # <<>> PROVE cpu'.PIE = (Frame'.at = "interruptible")
    <3>1. Len(frames) > 1
      BY <1>2, <1>3, <2>1
    <3>2. Frame' = frames'[Len(frames')] /\ Len(frames') \in 1..Len(frames')
      BY <1>2, <1>3, <3>1 DEF Frame
    <3>3. Frame'.at = "interruptible"
      BY <1>6, <3>2
    <3>4. estatus
      BY <1>2, <3>1 DEF ExceptionsInv, Nested, estatus
    <3> QED
      BY <1>2, <1>4, <3>3, <3>4
  <2>2. ASSUME NEW i \in 1..Len(frames')
        PROVE  /\ i < Len(frames') => frames'[i].at = "interruptible"
               /\ i > 1 => frames'[i].estatus /\ frames'[i].at # "unknown"
               /\ i > 1 /\ frames'[i].at = "irqtest" => Requested' # {}
               /\ frames'[i].active # {} <=> frames'[i].at \in {"irq", "interruptible"}
               /\ frames'[i].active # {} => frames'[i].estatus
    BY <1>6 DEF ExceptionsInv, Nested
  <2> QED
    BY <2>1, <2>2 DEF Nested
<1>9. Returns'
  <2>1. CASE Len(frames) = 1
    <3>1. resume = Len(retired) + 1
      BY <1>1, <1>2, <2>1 DEF ExceptionsInv, Returns, resume
    <3> QED
      BY <1>1, <1>3, <1>4, <2>1, <3>1 DEF ExceptionsInv, Returns
  <2>2. CASE Len(frames) > 1
    <3>1. frames # <<>> /\ frames'[1].at = "interruptible" /\ frames'[1].resume = Len(retired) + 1
      BY <1>1, <1>7, <2>2 DEF ExceptionsInv, Returns
    <3> QED
      BY <1>1, <1>7, <2>2, <3>1 DEF ExceptionsInv, Returns
  <2> QED
    BY <1>2, <2>1, <2>2
<1>10. Urgent'
  <2>1. \A i \in 1..Len(frames') : Above(i)' = Above(i) /\ frames'[i] = frames[i] /\ i \in 1..Len(frames)
    BY <1>6 DEF Above
  <2>2. \A i \in 1..Len(frames') : frames'[i].at = "interruptible" => alt_priority_mask' \subseteq Above(i)'
    BY <1>1, <2>1 DEF ExceptionsInv, Urgent
  <2>3. ASSUME NEW i \in 1..Len(frames'), NEW j \in 1..Len(frames'), i < j
        PROVE  /\ frames'[j].active \subseteq Above(i)'
               /\ frames'[j].at = "interruptible" => frames'[j].old_priority \subseteq Above(i)'
    BY <2>1, <2>3 DEF ExceptionsInv, Urgent
  <2>4. IF frames' # <<>> /\ frames'[1].at = "interruptible" THEN frames'[1].old_priority = Lines
        ELSE alt_priority_mask' = Lines
    <3>1. CASE Len(frames) = 1
      BY <1>1, <1>2, <1>3, <3>1 DEF ExceptionsInv, Urgent
    <3>2. CASE Len(frames) > 1
      BY <1>1, <1>7, <3>2 DEF ExceptionsInv, Urgent
    <3> QED
      BY <1>2, <3>1, <3>2
  <2>5. enabled' = Lines \cap alt_priority_mask'
    BY <1>1 DEF ExceptionsInv, Urgent
  <2> QED
    BY <2>2, <2>3, <2>4, <2>5 DEF Urgent
<1> QED
  BY <1>5, <1>8, <1>9, <1>10 DEF ExceptionsInv

(* What the invariant says of the instructions and of the handlers that    *)
(* are interrupted.                                                        *)
LEMMA ServedInOrder == ExceptionsInv => ExceptionsServed
<1> SUFFICES ASSUME ExceptionsInv PROVE ExceptionsServed
  OBVIOUS
<1>1. frames \in Seq(FrameStates) /\ retired \in Seq([at : Nat, how : {"executed", "skipped"}])
  BY DEF ExceptionsInv, ExceptionsTypeOK
<1>2. DOMAIN frames = 1..Len(frames) /\ DOMAIN retired = 1..Len(retired)
  BY <1>1
<1>3. EachInstructionOnce
  BY <1>2 DEF ExceptionsInv, Returns, EachInstructionOnce
<1>4. ASSUME NEW i \in 1..Len(frames), NEW j \in 1..Len(frames), i < j,
             frames[i].active # {}, frames[j].active # {}
      PROVE  MostUrgent(frames[j].active) < MostUrgent(frames[i].active)
  <2> DEFINE p == MostUrgent(frames[i].active)
             q == MostUrgent(frames[j].active)
  <2>1. frames[i].active \in SUBSET Nat /\ frames[j].active \in SUBSET Nat
    <3> HIDE DEF p, q
    <3>1. frames[i] \in FrameStates /\ frames[j] \in FrameStates
      BY <1>1
    <3>2. frames[i].active \in SUBSET Lines /\ frames[j].active \in SUBSET Lines
      BY <3>1 DEF FrameStates
    <3> QED
      BY <3>2, LinesAreNat
  <2>2. p \in Nat /\ q \in frames[j].active /\ q \in Nat
    BY <1>4, <2>1, MostUrgentIsMember
  <2>3. q \in 0..(p - 1)
    BY <1>4, <2>2 DEF ExceptionsInv, Urgent, Above, MoreUrgent
  <2> HIDE DEF p, q
  <2>4. q < p
    BY <2>2, <2>3
  <2> QED
    BY <2>4 DEF p, q
<1>5. frames = <<>> => alt_priority_mask = Lines /\ enabled = Lines
  BY DEF ExceptionsInv, Urgent
<1>6. UrgentFirst
  BY <1>2, <1>4, <1>5 DEF ExceptionsInv, Nested, UrgentFirst
<1> QED
  BY <1>3, <1>6 DEF ExceptionsServed

(* However deep interrupts nest, and whatever interrupts come while an     *)
(* instruction faults, each instruction is executed or skipped once and in *)
(* its order, and a handler is only interrupted by what is more urgent     *)
(* (alt_exception_entry.S:76-343, alt_irq_entry.S:76-89,                   *)
(* alt_legacy_irq.h:112-149).                                              *)
THEOREM ExceptionsAreServed == ExceptionsSpec => []ExceptionsServed
<1>1. ExceptionsInv /\ [ExceptionsNext]_exception_vars => ExceptionsInv'
  <2> SUFFICES ASSUME ExceptionsInv, [ExceptionsNext]_exception_vars PROVE ExceptionsInv'
    OBVIOUS
  <2>1. CASE UNCHANGED exception_vars
    <3>1. ExceptionsTypeOK' /\ Nested'
      BY <2>1 DEF exception_vars, ExceptionsInv, ExceptionsTypeOK, Nested, Frame, Requested
    <3>2. Returns' /\ Urgent'
      BY <2>1 DEF exception_vars, ExceptionsInv, Returns, Urgent, Above
    <3> QED
      BY <3>1, <3>2 DEF ExceptionsInv
  <2>2. CASE \E i \in Lines : Asserts(i)
    BY <2>2, AssertsKeeps
  <2>3. CASE alt_instruction_exception_register
    BY <2>3, RegisterKeeps
  <2>4. CASE Execute
    BY <2>4, ExecuteKeeps
  <2>5. CASE alt_exception
    BY <2>5, ExceptionKeeps
  <2>6. CASE IrqTest
    BY <2>6, IrqTestKeeps
  <2>7. CASE alt_instruction_exception_entry
    BY <2>7, InstructionKeeps
  <2>8. CASE Handler
    BY <2>8, HandlerKeeps
  <2>9. CASE alt_irq_interruptible
    BY <2>9, InterruptibleKeeps
  <2>10. CASE alt_irq_non_interruptible
    BY <2>10, NonInterruptibleKeeps
  <2>11. CASE ExceptionExit
    BY <2>11, ExitKeeps
  <2> QED
    BY <2>1, <2>2, <2>3, <2>4, <2>5, <2>6, <2>7, <2>8, <2>9, <2>10, <2>11 DEF ExceptionsNext
<1> QED
  BY <1>1, ExceptionsInvInit, ServedInOrder, PTL DEF ExceptionsSpec
--------------------------------------------------------------------------------
(***************************************************************************)
(* The flash.                                                              *)
(***************************************************************************)
EraseSteps == {"erase_block", "erase_wait", "erase_enable", "erase", "erase_idle", "erase_passed",
               "erase_disable", "erased"}
WriteSteps == {"write_block", "write_wait", "write_enable", "write_word", "write_idle", "write_passed",
               "next_word", "write_disable", "written"}
Unprotected == {"erase", "erase_idle", "erase_passed", "erase_disable", "write_word", "write_idle",
                "write_passed", "next_word", "write_disable"}
Registers == [protected : BOOLEAN, erasing : BOOLEAN, age : Nat, page : Nat, erase_passed : BOOLEAN,
              write_passed : BOOLEAN]

FlashTypeOK ==
    /\ cells \in [Bytes -> BOOLEAN] /\ before \in [Bytes -> BOOLEAN] /\ ctl \in Registers
    /\ fcall \in [op : {"none", "read", "erase_block", "write_block", "write"}, offset : Nat, data : Seq(BOOLEAN)]
    /\ fpc \in EraseSteps \cup WriteSteps \cup {"write", "at_block", "next_block", "read", "done"}
    /\ offset \in Nat /\ data_offset \in Nat /\ polls \in 1..PollTimeout

(* Which functions a call goes through, and where in its range they are.   *)
Called ==
    /\ fpc \in EraseSteps => fcall.op \in {"erase_block", "write"}
    /\ fpc \in WriteSteps => fcall.op \in {"write_block", "write"}
    /\ fpc \in {"write", "at_block", "next_block"} => fcall.op = "write"
    /\ fpc = "read" => fcall.op = "read"
    /\ offset >= fcall.offset /\ offset <= End /\ data_offset >= offset
    /\ fcall.op # "write" => offset = fcall.offset
    /\ offset \in {fcall.offset, End, PageOf(offset) * PageBytes}
    /\ fcall.op = "write" /\ fpc \in EraseSteps \cup WriteSteps => offset < End
    /\ fpc \in EraseSteps \cup {"write_block", "write_wait", "write_enable", "write", "at_block"} => data_offset = offset

(* The controller gives up an erasure before the driver gives up polling.  *)
Polled ==
    /\ fpc \notin Unprotected => ctl.protected
    /\ fpc = "erase_idle" => ctl.page = PageOf(EraseOffset)
    /\ fpc \in {"erase_enable", "erase"} => polls = PollTimeout
    /\ IF ctl.erasing
       THEN fpc = "erase_idle" /\ ctl.age <= ControllerTimeout /\ polls + ctl.age = PollTimeout
       ELSE ctl.age = 0

(* A status that says "passed" is that of the erasure that was asked for.  *)
ErasedBlock == \A a \in Page(PageOf(EraseOffset)) : a \in Bytes /\ cells[a]

Erased ==
    /\ fpc = "erase_idle" /\ ~ctl.erasing /\ ctl.erase_passed => ErasedBlock
    /\ fpc = "erase_passed" /\ ctl.erase_passed => ErasedBlock
    /\ fpc \in {"erase_disable", "erased"} /\ ret = "0" => ErasedBlock
    /\ fpc = "done" /\ fcall.op = "erase_block" /\ ret = "0" => ErasedBlock

(* Below "upto" is the data, above it what programming starts from.        *)
Original(a) == fcall.op = "write" \/ before[a]
Loaded(upto) ==
    \A a \in Bytes : offset <= a /\ a < WriteEnd => cells[a] = (Original(a) /\ (a < upto => DataAt(a)))
BehindWord == (data_offset \div WordBytes + 1) * WordBytes

(* The blocks that write() is through with.                                *)
Behind == \A a \in Bytes : fcall.offset <= a /\ a < offset => cells[a] = DataAt(a)

Programmed ==
    /\ fpc \in {"write_block", "write_wait", "write_enable", "write_word"} => Loaded(data_offset)
    /\ fpc \in {"write_idle", "write_passed"} /\ ctl.write_passed => Loaded(BehindWord)
    /\ fpc = "next_word" => Loaded(BehindWord)
    /\ fpc \in {"write_disable", "written"} /\ ret = "0" => Loaded(WriteEnd)
    /\ fpc = "next_block" => Loaded(WriteEnd)
    /\ fpc = "done" /\ fcall.op = "write_block" /\ ret = "0" => Loaded(WriteEnd)
    /\ fcall.op = "write" => Behind
    /\ fpc = "done" /\ fcall.op = "write" /\ ret = "0" => offset = End \/ PageOf(offset) \notin Blocks

Untouched == \A a \in Bytes \ Touched : cells[a] = before[a]

FlashInv == FlashTypeOK /\ Called /\ Polled /\ Erased /\ Programmed /\ Untouched
--------------------------------------------------------------------------------
LEMMA FlashConstants ==
    /\ PageBytes \in Nat /\ PageBytes > 0 /\ WordBytes \in Nat /\ WordBytes > 0
    /\ PollTimeout \in Nat /\ PollTimeout > 0 /\ ControllerTimeout \in Nat /\ ControllerTimeout < PollTimeout
    /\ Pages \subseteq Nat /\ Blocks \subseteq Pages
  BY FlashAssumption DEF Pages, Blocks

(* The pages are stretches of the addresses, and do not overlap.           *)
LEMMA ProductsInOrder ==
    ASSUME NEW x \in Nat, NEW y \in Nat, NEW s \in Nat, x < y
    PROVE  (x + 1) * s <= y * s
<1>1. PICK d \in Nat : y = x + 1 + d
  <2>1. y - (x + 1) \in Nat /\ y = x + 1 + (y - (x + 1))
    OBVIOUS
  <2> QED
    BY <2>1
<1>2. y * s = (x + 1) * s + d * s
  BY <1>1
<1>3. d * s \in Nat /\ (x + 1) * s \in Nat
  OBVIOUS
<1> QED
  BY <1>2, <1>3

LEMMA PageBounds ==
    ASSUME NEW a \in Nat
    PROVE  /\ PageOf(a) \in Nat /\ PageOf(a) * PageBytes \in Nat /\ (PageOf(a) + 1) * PageBytes \in Nat
           /\ PageOf(a) * PageBytes <= a /\ a < (PageOf(a) + 1) * PageBytes
  BY FlashConstants, QuotientBounds DEF PageOf

LEMMA PageMembers ==
    ASSUME NEW p \in Nat
    PROVE  /\ \A a \in Nat : a \in Page(p) <=> PageOf(a) = p
           /\ Page(p) \subseteq Nat /\ PageOf(p * PageBytes) = p /\ p * PageBytes \in Nat
<1>1. p * PageBytes \in Nat /\ (p + 1) * PageBytes \in Nat /\ p * PageBytes < (p + 1) * PageBytes
  BY FlashConstants
<1>2. ASSUME NEW a \in Nat, PageOf(a) = p PROVE a \in Page(p)
  <2> DEFINE low == p * PageBytes
             high == (p + 1) * PageBytes
  <2>1. low <= a /\ a < high /\ low \in Nat /\ high \in Nat
    BY <1>2, PageBounds
  <2> HIDE DEF low, high
  <2>2. a \in low..(high - 1)
    BY <2>1
  <2> QED
    BY <2>2 DEF Page, low, high
<1>3. ASSUME NEW a \in Nat, a \in Page(p) PROVE PageOf(a) = p
  <2> DEFINE low == p * PageBytes
             high == (p + 1) * PageBytes
             q == PageOf(a)
             from == q * PageBytes
             to == (q + 1) * PageBytes
  <2>1. a \in low..(high - 1) /\ low \in Nat /\ high \in Nat
    BY <1>1, <1>3 DEF Page
  <2>2. q \in Nat /\ from \in Nat /\ to \in Nat /\ from <= a /\ a < to
    BY PageBounds
  <2>3. q < p => to <= low
    BY <2>2, FlashConstants, ProductsInOrder
  <2>4. p < q => high <= from
    BY <2>2, FlashConstants, ProductsInOrder
  <2> HIDE DEF low, high, from, to, q
  <2>5. q = p
    BY <2>1, <2>2, <2>3, <2>4
  <2> QED
    BY <2>5 DEF q
<1>4. Page(p) \subseteq Nat
  BY <1>1 DEF Page
<1>5. p * PageBytes \in Page(p)
  <2> DEFINE low == p * PageBytes
             high == (p + 1) * PageBytes
  <2>1. low \in Nat /\ high \in Nat /\ low < high
    BY <1>1
  <2> HIDE DEF low, high
  <2>2. low \in low..(high - 1)
    BY <2>1
  <2> QED
    BY <2>2 DEF Page, low, high
<1> QED
  BY <1>1, <1>2, <1>3, <1>4, <1>5

LEMMA BytesOfPages == Bytes \subseteq Nat /\ \A a \in Nat : PageOf(a) \in Pages => a \in Bytes
<1>1. Bytes \subseteq Nat
  BY FlashConstants, PageMembers DEF Bytes
<1>2. ASSUME NEW a \in Nat, PageOf(a) \in Pages PROVE a \in Bytes
  <2> DEFINE p == PageOf(a)
  <2>1. p \in Nat /\ p \in Pages /\ a \in Page(p)
    BY <1>2, FlashConstants, PageMembers
  <2> HIDE DEF p
  <2> QED
    BY <2>1 DEF Bytes
<1> QED
  BY <1>1, <1>2

(* Where a call is, in numbers.                                            *)
LEMMA Ends ==
    ASSUME FlashTypeOK, Called
    PROVE  /\ End \in Nat /\ fcall.offset \in Nat /\ fcall.offset <= End
           /\ BlockEnd \in Nat /\ BlockEnd <= End /\ offset <= BlockEnd /\ (offset < End => offset < BlockEnd)
           /\ WriteEnd \in Nat /\ WriteEnd <= End /\ EraseOffset \in Nat
           /\ WriteEnd = IF fcall.op = "write" THEN BlockEnd ELSE End
           /\ \A a \in Nat : offset <= a /\ a < BlockEnd => PageOf(a) = PageOf(offset)
           /\ BlockEnd = End \/ BlockEnd = PageOf(BlockEnd) * PageBytes
           /\ PageOf(EraseOffset) = PageOf(IF fcall.op = "write" THEN offset ELSE fcall.offset)
<1>1. fcall.offset \in Nat /\ offset \in Nat /\ Len(fcall.data) \in Nat /\ offset <= End
  BY DEF FlashTypeOK, Called
<1>2. End \in Nat /\ fcall.offset <= End
  BY <1>1 DEF End
<1> DEFINE p == PageOf(offset)
           first == p * PageBytes
           last == (p + 1) * PageBytes
<1>3. p \in Nat /\ p + 1 \in Nat /\ first \in Nat /\ last \in Nat /\ first <= offset /\ offset < last
  <2>1. p \in Nat /\ first \in Nat /\ last \in Nat /\ first <= offset /\ offset < last
    BY <1>1, PageBounds
  <2> HIDE DEF first, last, p
  <2> QED
    BY <2>1
<1>4. BlockEnd = IF last < End THEN last ELSE End
  BY DEF BlockEnd
<1>5. PageOf(last) = p + 1 /\ PageOf(first) = p
  BY <1>3, PageMembers
<1>6. ASSUME NEW a \in Nat, offset <= a, a < BlockEnd PROVE PageOf(a) = PageOf(offset)
  <2>1. a \in first..(last - 1)
    <3> HIDE DEF first, last, p
    <3> QED
      BY <1>1, <1>2, <1>3, <1>4, <1>6
  <2>2. a \in Page(p)
    BY <2>1 DEF Page
  <2> QED
    BY <1>3, <2>2, PageMembers
<1>7. BlockEnd = End \/ BlockEnd = PageOf(BlockEnd) * PageBytes
  BY <1>4, <1>5
<1>8. EraseOffset = (IF fcall.op = "write" THEN first ELSE fcall.offset) /\ EraseOffset \in Nat
  BY <1>1, <1>3 DEF EraseOffset
<1>9. PageOf(EraseOffset) = PageOf(IF fcall.op = "write" THEN offset ELSE fcall.offset)
  BY <1>5, <1>8
<1>10. /\ BlockEnd \in Nat /\ BlockEnd <= End /\ offset <= BlockEnd /\ (offset < End => offset < BlockEnd)
  <2> HIDE DEF first, last, p
  <2> QED
    BY <1>1, <1>2, <1>3, <1>4
<1>11. /\ WriteEnd \in Nat /\ WriteEnd <= End /\ WriteEnd = IF fcall.op = "write" THEN BlockEnd ELSE End
  BY <1>2, <1>10 DEF WriteEnd
<1> QED
  BY <1>1, <1>2, <1>6, <1>7, <1>8, <1>9, <1>10, <1>11

LEMMA FlashInvInit == FlashInit => FlashInv
<1> SUFFICES ASSUME FlashInit PROVE FlashInv
  OBVIOUS
<1>1. FlashTypeOK
  <2>1. ctl \in Registers
    BY DEF FlashInit, Registers
  <2>2. cells \in [Bytes -> BOOLEAN] /\ before \in [Bytes -> BOOLEAN]
    BY BytesOfPages DEF FlashInit
  <2>3. fcall \in [op : {"none", "read", "erase_block", "write_block", "write"}, offset : Nat, data : Seq(BOOLEAN)]
    BY DEF FlashInit
  <2>4. offset \in Nat /\ data_offset \in Nat /\ polls \in 1..PollTimeout /\ fpc = "done"
    BY FlashConstants DEF FlashInit
  <2> QED
    BY <2>1, <2>2, <2>3, <2>4 DEF FlashTypeOK
<1>2. Called
  BY DEF FlashInit, Called, EraseSteps, WriteSteps, End
<1>3. Polled /\ Erased
  BY DEF FlashInit, Polled, Erased, Unprotected
<1>4. Programmed
  BY DEF FlashInit, Programmed
<1>5. Untouched
  BY DEF FlashInit, Untouched
<1> QED
  BY <1>1, <1>2, <1>3, <1>4, <1>5 DEF FlashInv

(* A step that leaves the contents and the offsets alone.                  *)
LEMMA QuietStep ==
    ASSUME FlashInv, UNCHANGED <<cells, fcall, before, offset, data_offset>>
    PROVE  /\ Untouched' /\ End' = End /\ WriteEnd' = WriteEnd /\ EraseOffset' = EraseOffset
           /\ ErasedBlock' = ErasedBlock /\ Loaded(data_offset)' = Loaded(data_offset)
           /\ Loaded(BehindWord)' = Loaded(BehindWord) /\ Loaded(WriteEnd)' = Loaded(WriteEnd)
           /\ Behind' = Behind
<1>1. End' = End /\ EraseOffset' = EraseOffset /\ BlockEnd' = BlockEnd
  BY DEF End, EraseOffset, BlockEnd
<1>2. WriteEnd' = WriteEnd /\ BehindWord' = BehindWord
  BY <1>1 DEF WriteEnd, BehindWord
<1>3. \A a : DataAt(a)' = DataAt(a) /\ Original(a)' = Original(a)
  BY DEF DataAt, Original
<1>4. ErasedBlock' = ErasedBlock
  BY <1>1 DEF ErasedBlock
<1>5. Loaded(data_offset)' = Loaded(data_offset)
  BY <1>2, <1>3 DEF Loaded
<1>6. Loaded(BehindWord)' = Loaded(BehindWord) /\ Loaded(WriteEnd)' = Loaded(WriteEnd)
  BY <1>2, <1>3 DEF Loaded
<1>7. Touched' = Touched
  BY <1>1 DEF Touched, Written
<1>8. Untouched'
  BY <1>7 DEF FlashInv, Untouched
<1>9. Behind' = Behind
  BY <1>3 DEF Behind
<1> QED
  BY <1>1, <1>2, <1>4, <1>5, <1>6, <1>8, <1>9

(* What such a step has left to show, when it is one of the driver's: that *)
(* the label it goes to is right.                                          *)
LEMMA QuietKeeps ==
    ASSUME FlashInv, UNCHANGED <<cells, fcall, before, offset, data_offset>>,
           ctl' \in Registers, polls' \in 1..PollTimeout,
           fpc' \in EraseSteps \cup WriteSteps \cup {"write", "at_block", "next_block", "read", "done"},
           Called', Polled', Erased', Programmed'
    PROVE  FlashInv'
<1>1. FlashTypeOK'
  BY DEF FlashInv, FlashTypeOK
<1>2. Untouched'
  BY QuietStep
<1> QED
  BY <1>1, <1>2 DEF FlashInv

(* The steps of the driver that only look at the controller    *)
(* and at what is stored.                                                  *)
LEMMA NoneErasing ==
    ASSUME FlashInv, fpc # "erase_idle"
    PROVE  ~ctl.erasing /\ ctl.age = 0
  BY DEF FlashInv, Polled

(* An erased block is what programming it starts from.                     *)
LEMMA ErasedIsLoaded ==
    ASSUME FlashInv, fcall.op = "write", ErasedBlock, data_offset = offset
    PROVE  Loaded(data_offset)
<1> SUFFICES ASSUME NEW a \in Bytes, offset <= a, a < WriteEnd
             PROVE  cells[a] = (Original(a) /\ (a < data_offset => DataAt(a)))
  BY DEF Loaded
<1>1. a \in Nat /\ offset \in Nat /\ WriteEnd = BlockEnd
  BY BytesOfPages, Ends DEF FlashInv, FlashTypeOK
<1>2. PageOf(a) = PageOf(EraseOffset) /\ PageOf(EraseOffset) \in Nat
  BY <1>1, Ends, PageBounds DEF FlashInv
<1>3. a \in Page(PageOf(EraseOffset))
  BY <1>1, <1>2, PageMembers
<1>4. cells[a] /\ cells[a] \in BOOLEAN
  BY <1>3 DEF ErasedBlock, FlashInv, FlashTypeOK
<1>5. ~(a < data_offset)
  BY <1>1
<1> QED
  BY <1>4, <1>5 DEF Original

LEMMA EraseBlockKeeps ==
    ASSUME FlashInv, alt_onchip_flash_erase_block
    PROVE  FlashInv'
<1>1. UNCHANGED <<cells, fcall, before, offset, data_offset>>
  BY DEF alt_onchip_flash_erase_block, Check, GoesIdle, Poll, Protect, At
<1>2. CASE Check("erase_block",
             IF EraseOffset >= DevLength THEN "-EFAULT"
             ELSE IF read_only THEN "-ENODEV"
             ELSE IF EraseOffset % PageBytes # 0 THEN "-EINVAL" ELSE "0", "erase_wait", "erased")
  <2>1. /\ fpc = "erase_block" /\ UNCHANGED <<ctl, polls>>
        /\ fpc' = "erase_wait" \/ (fpc' = "erased" /\ ret' # "0")
    BY <1>1, <1>2 DEF Check, At
  <2>2. ctl' \in Registers /\ polls' \in 1..PollTimeout
    BY <1>1, <2>1, FlashConstants DEF FlashInv, FlashTypeOK, Registers
  <2>3. Called'
    BY <1>1, <2>1, QuietStep DEF FlashInv, Called, EraseSteps, WriteSteps
  <2>4. Polled'
    BY <1>1, <2>1, <2>2, QuietStep, FlashConstants DEF FlashInv, FlashTypeOK, Polled, Unprotected, Registers
  <2>5. Erased'
    BY <1>1, <2>1, QuietStep DEF FlashInv, FlashTypeOK, Registers, Erased, Called, WriteSteps, EraseSteps
  <2>6. Programmed'
    BY <1>1, <2>1, QuietStep DEF FlashInv, FlashTypeOK, Registers, Programmed
  <2> QED
    BY <1>1, <2>1, <2>2, <2>3, <2>4, <2>5, <2>6, QuietKeeps DEF EraseSteps, WriteSteps
<1>3. CASE GoesIdle("erase_wait", "erase_enable", "erased")
  <2>1. /\ fpc = "erase_wait" /\ UNCHANGED ctl /\ fpc' = "erase_enable" /\ polls' = PollTimeout
    BY <1>1, <1>3, NoneErasing DEF GoesIdle, Poll, At
  <2>2. ctl' \in Registers /\ polls' \in 1..PollTimeout
    BY <1>1, <2>1, FlashConstants DEF FlashInv, FlashTypeOK, Registers
  <2>3. Called'
    BY <1>1, <2>1, QuietStep DEF FlashInv, Called, EraseSteps, WriteSteps
  <2>4. Polled'
    BY <1>1, <2>1, <2>2, QuietStep, FlashConstants DEF FlashInv, FlashTypeOK, Polled, Unprotected, Registers
  <2>5. Erased'
    BY <1>1, <2>1, QuietStep DEF FlashInv, FlashTypeOK, Registers, Erased, Called, WriteSteps, EraseSteps
  <2>6. Programmed'
    BY <1>1, <2>1, QuietStep DEF FlashInv, FlashTypeOK, Registers, Programmed
  <2> QED
    BY <1>1, <2>1, <2>2, <2>3, <2>4, <2>5, <2>6, QuietKeeps DEF EraseSteps, WriteSteps
<1>4. CASE Protect("erase_enable", FALSE, "erase")
  <2>1. /\ fpc = "erase_enable" /\ fpc' = "erase" /\ UNCHANGED polls
        /\ ctl' = [ctl EXCEPT !.protected = FALSE]
    BY <1>1, <1>4 DEF Protect, At
  <2>2. ctl' \in Registers /\ polls' \in 1..PollTimeout
    BY <1>1, <2>1, FlashConstants DEF FlashInv, FlashTypeOK, Registers
  <2>3. Called'
    BY <1>1, <2>1, QuietStep DEF FlashInv, Called, EraseSteps, WriteSteps
  <2>4. Polled'
    BY <1>1, <2>1, <2>2, QuietStep, FlashConstants DEF FlashInv, FlashTypeOK, Polled, Unprotected, Registers
  <2>5. Erased'
    BY <1>1, <2>1, QuietStep DEF FlashInv, FlashTypeOK, Registers, Erased, Called, WriteSteps, EraseSteps
  <2>6. Programmed'
    BY <1>1, <2>1, QuietStep DEF FlashInv, FlashTypeOK, Registers, Programmed
  <2> QED
    BY <1>1, <2>1, <2>2, <2>3, <2>4, <2>5, <2>6, QuietKeeps DEF EraseSteps, WriteSteps
<1>5. CASE /\ At("erase") /\ fpc' = "erase_idle"
           /\ ctl' = [ctl EXCEPT !.erasing = TRUE, !.page = PageOf(EraseOffset)]
           /\ UNCHANGED <<cells, ret, offset, data_offset, polls>>
  <2>1. /\ fpc = "erase" /\ fpc' = "erase_idle" /\ UNCHANGED polls
        /\ ctl' = [ctl EXCEPT !.erasing = TRUE, !.page = PageOf(EraseOffset)] /\ PageOf(EraseOffset) \in Nat
    BY <1>1, <1>5, Ends, PageBounds DEF At, FlashInv
  <2>2. ctl' \in Registers /\ polls' \in 1..PollTimeout
    BY <1>1, <2>1, FlashConstants DEF FlashInv, FlashTypeOK, Registers
  <2>3. Called'
    BY <1>1, <2>1, QuietStep DEF FlashInv, Called, EraseSteps, WriteSteps
  <2>4. Polled'
    BY <1>1, <2>1, <2>2, QuietStep, FlashConstants DEF FlashInv, FlashTypeOK, Polled, Unprotected, Registers
  <2>5. Erased'
    BY <1>1, <2>1, QuietStep DEF FlashInv, FlashTypeOK, Registers, Erased, Called, WriteSteps, EraseSteps
  <2>6. Programmed'
    BY <1>1, <2>1, QuietStep DEF FlashInv, FlashTypeOK, Registers, Programmed
  <2> QED
    BY <1>1, <2>1, <2>2, <2>3, <2>4, <2>5, <2>6, QuietKeeps DEF EraseSteps, WriteSteps
<1>6. CASE GoesIdle("erase_idle", "erase_passed", "erase_passed")
  <2> DEFINE age == ctl.age
             later == age + 1
  <2>1. fpc = "erase_idle" /\ (ctl.erasing => ctl.age < ControllerTimeout /\ polls + ctl.age = PollTimeout)
    BY <1>6 DEF GoesIdle, Poll, At, FlashInv, Polled
  <2>2. age \in Nat /\ later \in Nat /\ polls \in 1..PollTimeout /\ (ctl.erasing => later <= ControllerTimeout /\ polls > 1)
    <3>1. age \in Nat /\ polls \in 1..PollTimeout /\ (ctl.erasing => age < ControllerTimeout /\ polls + age = PollTimeout)
      BY <2>1 DEF FlashInv, FlashTypeOK, Registers
    <3> HIDE DEF age
    <3> QED
      BY <3>1, FlashConstants
  <2>3. \/ fpc' = "erase_passed" /\ ~ctl.erasing /\ polls' = PollTimeout /\ UNCHANGED ctl
        \/ fpc' = fpc /\ ctl.erasing /\ polls' = polls - 1 /\ ctl' = [ctl EXCEPT !.age = later]
    BY <1>6, <2>2 DEF GoesIdle, Poll, At
  <2>4. ctl' \in Registers /\ polls' \in 1..PollTimeout
    <3> HIDE DEF later, age
    <3> QED
      BY SMTT(30), <2>2, <2>3, FlashConstants DEF FlashInv, FlashTypeOK, Registers
  <2>5. Called'
    BY <1>1, <2>1, <2>3, QuietStep DEF FlashInv, Called, EraseSteps, WriteSteps
  <2>6. Polled'
    <3>1. CASE ctl.erasing
      <4>1. ctl'.age = later /\ ctl'.erasing /\ ctl'.page = ctl.page /\ ctl'.protected = ctl.protected /\ fpc' = "erase_idle"
        BY <2>1, <2>3, <3>1 DEF FlashInv, FlashTypeOK, Registers
      <4>2. later <= ControllerTimeout /\ polls' + later = PollTimeout
        <5>1. polls + age = PollTimeout /\ polls' = polls - 1
          BY <2>1, <2>3, <3>1
        <5> HIDE DEF age
        <5> QED
          BY <2>2, <3>1, <5>1, FlashConstants
      <4> HIDE DEF later
      <4> QED
        BY <1>1, <2>1, <4>1, <4>2, QuietStep DEF FlashInv, Polled, Unprotected
    <3>2. CASE ~ctl.erasing
      BY <2>1, <2>3, <3>2 DEF FlashInv, Polled, Unprotected
    <3> QED
      BY <3>1, <3>2
  <2>7. Erased'
    <3> HIDE DEF later
    <3>1. ctl'.erasing = ctl.erasing /\ ctl'.erase_passed = ctl.erase_passed
      BY <2>3 DEF FlashInv, FlashTypeOK, Registers
    <3> QED
      BY <1>1, <2>1, <2>3, <3>1, QuietStep DEF FlashInv, FlashTypeOK, Registers, Erased, Called, WriteSteps, EraseSteps
  <2>8. Programmed'
    BY <1>1, <2>1, <2>3, QuietStep DEF FlashInv, FlashTypeOK, Registers, Programmed
  <2> QED
    BY <1>1, <2>1, <2>3, <2>4, <2>5, <2>6, <2>7, <2>8, QuietKeeps DEF EraseSteps, WriteSteps
<1>7. CASE Poll("erase_passed", ctl.erase_passed, "erase_disable", "erase_disable")
  <2>1. /\ fpc = "erase_passed" /\ ~ctl.erasing /\ ctl.age = 0
        /\ \/ fpc' = "erase_disable" /\ ctl.erase_passed /\ polls' = PollTimeout /\ UNCHANGED ctl
           \/ fpc' = "erase_disable" /\ ret' # "0" /\ polls' = PollTimeout /\ ctl' = [ctl EXCEPT !.age = 0]
           \/ fpc' = "erase_passed" /\ polls > 1 /\ polls' = polls - 1 /\ ctl' = [ctl EXCEPT !.age = 0]
    BY <1>1, <1>7, NoneErasing DEF Poll, At
  <2>2. ctl' \in Registers /\ polls' \in 1..PollTimeout
    BY <1>1, <2>1, FlashConstants DEF FlashInv, FlashTypeOK, Registers
  <2>3. Called'
    BY <1>1, <2>1, QuietStep DEF FlashInv, Called, EraseSteps, WriteSteps
  <2>4. Polled'
    BY <1>1, <2>1, <2>2, QuietStep, FlashConstants DEF FlashInv, FlashTypeOK, Polled, Unprotected, Registers
  <2>5. Erased'
    BY <1>1, <2>1, QuietStep DEF FlashInv, FlashTypeOK, Registers, Erased, Called, WriteSteps, EraseSteps
  <2>6. Programmed'
    BY <1>1, <2>1, QuietStep DEF FlashInv, FlashTypeOK, Registers, Programmed
  <2> QED
    BY <1>1, <2>1, <2>2, <2>3, <2>4, <2>5, <2>6, QuietKeeps DEF EraseSteps, WriteSteps
<1>8. CASE Protect("erase_disable", TRUE, "erased")
  <2>1. /\ fpc = "erase_disable" /\ fpc' = "erased" /\ UNCHANGED <<polls, ret>>
        /\ ctl' = [ctl EXCEPT !.protected = TRUE]
    BY <1>1, <1>8 DEF Protect, At
  <2>2. ctl' \in Registers /\ polls' \in 1..PollTimeout
    BY <1>1, <2>1, FlashConstants DEF FlashInv, FlashTypeOK, Registers
  <2>3. Called'
    BY <1>1, <2>1, QuietStep DEF FlashInv, Called, EraseSteps, WriteSteps
  <2>4. Polled'
    BY <1>1, <2>1, <2>2, QuietStep, FlashConstants DEF FlashInv, FlashTypeOK, Polled, Unprotected, Registers
  <2>5. Erased'
    BY <1>1, <2>1, QuietStep DEF FlashInv, FlashTypeOK, Registers, Erased, Called, WriteSteps, EraseSteps
  <2>6. Programmed'
    BY <1>1, <2>1, QuietStep DEF FlashInv, FlashTypeOK, Registers, Programmed
  <2> QED
    BY <1>1, <2>1, <2>2, <2>3, <2>4, <2>5, <2>6, QuietKeeps DEF EraseSteps, WriteSteps
<1>9. CASE Check("erased", ret, IF fcall.op = "write" THEN "write_block" ELSE "done", "done")
  <2>1. /\ fpc = "erased" /\ UNCHANGED <<ctl, polls, ret>>
        /\ IF ret = "0" /\ fcall.op = "write" THEN fpc' = "write_block" ELSE fpc' = "done"
    BY <1>1, <1>9 DEF Check, At
  <2>2. ctl' \in Registers /\ polls' \in 1..PollTimeout
    BY <1>1, <2>1, FlashConstants DEF FlashInv, FlashTypeOK, Registers
  <2>3. Called'
    BY <1>1, <2>1, QuietStep DEF FlashInv, Called, EraseSteps, WriteSteps
  <2>4. Polled'
    BY <1>1, <2>1, <2>2, QuietStep, FlashConstants DEF FlashInv, FlashTypeOK, Polled, Unprotected, Registers
  <2>5. Erased'
    BY <1>1, <2>1, QuietStep DEF FlashInv, FlashTypeOK, Registers, Erased, Called, WriteSteps, EraseSteps
  <2>6. Programmed'
    BY <1>1, <2>1, QuietStep, ErasedIsLoaded DEF FlashInv, FlashTypeOK, Registers, Programmed, Erased, Called, EraseSteps
  <2> QED
    BY <1>1, <2>1, <2>2, <2>3, <2>4, <2>5, <2>6, QuietKeeps DEF EraseSteps, WriteSteps
<1> QED
  BY <1>2, <1>3, <1>4, <1>5, <1>6, <1>7, <1>8, <1>9 DEF alt_onchip_flash_erase_block

LEMMA LoadedToEnd ==
    ASSUME FlashInv, Loaded(data_offset), data_offset >= WriteEnd
    PROVE  Loaded(WriteEnd)
<1> SUFFICES ASSUME NEW a \in Bytes, offset <= a, a < WriteEnd
             PROVE  cells[a] = (Original(a) /\ (a < WriteEnd => DataAt(a)))
  BY DEF Loaded
<1>1. a < data_offset
  BY BytesOfPages, Ends DEF FlashInv, FlashTypeOK
<1> QED
  BY <1>1 DEF Loaded

LEMMA WriteBlockQuiet ==
    ASSUME FlashInv, alt_onchip_flash_write_block, ~WriteWord, ~NextWord
    PROVE  FlashInv'
<1>1. UNCHANGED <<cells, fcall, before, offset, data_offset>>
  BY DEF alt_onchip_flash_write_block, Check, GoesIdle, Poll, Protect, At
<1>2. CASE Check("write_block",
             IF data_offset >= DevLength \/ WriteEnd > DevLength THEN "-EFAULT"
             ELSE IF read_only THEN "-ENODEV" ELSE "0", "write_wait", "written")
  <2>1. /\ fpc = "write_block" /\ UNCHANGED <<ctl, polls>>
        /\ fpc' = "write_wait" \/ (fpc' = "written" /\ ret' # "0")
    BY <1>1, <1>2 DEF Check, At
  <2>2. ctl' \in Registers /\ polls' \in 1..PollTimeout
    BY <1>1, <2>1, FlashConstants DEF FlashInv, FlashTypeOK, Registers
  <2>3. Called'
    BY <1>1, <2>1, QuietStep DEF FlashInv, Called, EraseSteps, WriteSteps
  <2>4. Polled'
    BY <1>1, <2>1, <2>2, QuietStep, FlashConstants DEF FlashInv, FlashTypeOK, Polled, Unprotected, Registers
  <2>5. Erased'
    BY <1>1, <2>1, QuietStep DEF FlashInv, FlashTypeOK, Registers, Erased, Called, WriteSteps, EraseSteps
  <2>6. Programmed'
    BY <1>1, <2>1, QuietStep DEF FlashInv, FlashTypeOK, Registers, Programmed
  <2> QED
    BY <1>1, <2>1, <2>2, <2>3, <2>4, <2>5, <2>6, QuietKeeps DEF EraseSteps, WriteSteps
<1>3. CASE GoesIdle("write_wait", "write_enable", "written")
  <2>1. /\ fpc = "write_wait" /\ UNCHANGED ctl /\ fpc' = "write_enable" /\ polls' = PollTimeout
    BY <1>1, <1>3, NoneErasing DEF GoesIdle, Poll, At
  <2>2. ctl' \in Registers /\ polls' \in 1..PollTimeout
    BY <1>1, <2>1, FlashConstants DEF FlashInv, FlashTypeOK, Registers
  <2>3. Called'
    BY <1>1, <2>1, QuietStep DEF FlashInv, Called, EraseSteps, WriteSteps
  <2>4. Polled'
    BY <1>1, <2>1, <2>2, QuietStep, FlashConstants DEF FlashInv, FlashTypeOK, Polled, Unprotected, Registers
  <2>5. Erased'
    BY <1>1, <2>1, QuietStep DEF FlashInv, FlashTypeOK, Registers, Erased, Called, WriteSteps, EraseSteps
  <2>6. Programmed'
    BY <1>1, <2>1, QuietStep DEF FlashInv, FlashTypeOK, Registers, Programmed
  <2> QED
    BY <1>1, <2>1, <2>2, <2>3, <2>4, <2>5, <2>6, QuietKeeps DEF EraseSteps, WriteSteps
<1>4. CASE Protect("write_enable", FALSE, "write_word")
  <2>1. /\ fpc = "write_enable" /\ fpc' = "write_word" /\ UNCHANGED polls
        /\ ctl' = [ctl EXCEPT !.protected = FALSE]
    BY <1>1, <1>4 DEF Protect, At
  <2>2. ctl' \in Registers /\ polls' \in 1..PollTimeout
    BY <1>1, <2>1, FlashConstants DEF FlashInv, FlashTypeOK, Registers
  <2>3. Called'
    BY <1>1, <2>1, QuietStep DEF FlashInv, Called, EraseSteps, WriteSteps
  <2>4. Polled'
    BY <1>1, <2>1, <2>2, QuietStep, FlashConstants DEF FlashInv, FlashTypeOK, Polled, Unprotected, Registers
  <2>5. Erased'
    BY <1>1, <2>1, QuietStep DEF FlashInv, FlashTypeOK, Registers, Erased, Called, WriteSteps, EraseSteps
  <2>6. Programmed'
    BY <1>1, <2>1, QuietStep DEF FlashInv, FlashTypeOK, Registers, Programmed
  <2> QED
    BY <1>1, <2>1, <2>2, <2>3, <2>4, <2>5, <2>6, QuietKeeps DEF EraseSteps, WriteSteps
<1>5. CASE GoesIdle("write_idle", "write_passed", "write_disable")
  <2>1. /\ fpc = "write_idle" /\ UNCHANGED ctl /\ fpc' = "write_passed" /\ polls' = PollTimeout
    BY <1>1, <1>5, NoneErasing DEF GoesIdle, Poll, At
  <2>2. ctl' \in Registers /\ polls' \in 1..PollTimeout
    BY <1>1, <2>1, FlashConstants DEF FlashInv, FlashTypeOK, Registers
  <2>3. Called'
    BY <1>1, <2>1, QuietStep DEF FlashInv, Called, EraseSteps, WriteSteps
  <2>4. Polled'
    BY <1>1, <2>1, <2>2, QuietStep, FlashConstants DEF FlashInv, FlashTypeOK, Polled, Unprotected, Registers
  <2>5. Erased'
    BY <1>1, <2>1, QuietStep DEF FlashInv, FlashTypeOK, Registers, Erased, Called, WriteSteps, EraseSteps
  <2>6. Programmed'
    BY <1>1, <2>1, QuietStep DEF FlashInv, FlashTypeOK, Registers, Programmed
  <2> QED
    BY <1>1, <2>1, <2>2, <2>3, <2>4, <2>5, <2>6, QuietKeeps DEF EraseSteps, WriteSteps
<1>6. CASE Poll("write_passed", ctl.write_passed, "next_word", "write_disable")
  <2>1. /\ fpc = "write_passed" /\ ~ctl.erasing /\ ctl.age = 0
        /\ \/ fpc' = "next_word" /\ ctl.write_passed /\ polls' = PollTimeout /\ UNCHANGED ctl
           \/ fpc' = "write_disable" /\ ret' # "0" /\ polls' = PollTimeout /\ ctl' = [ctl EXCEPT !.age = 0]
           \/ fpc' = "write_passed" /\ polls > 1 /\ polls' = polls - 1 /\ ctl' = [ctl EXCEPT !.age = 0]
    BY <1>1, <1>6, NoneErasing DEF Poll, At
  <2>2. ctl' \in Registers /\ polls' \in 1..PollTimeout
    BY <1>1, <2>1, FlashConstants DEF FlashInv, FlashTypeOK, Registers
  <2>3. Called'
    BY <1>1, <2>1, QuietStep DEF FlashInv, Called, EraseSteps, WriteSteps
  <2>4. Polled'
    BY <1>1, <2>1, <2>2, QuietStep, FlashConstants DEF FlashInv, FlashTypeOK, Polled, Unprotected, Registers
  <2>5. Erased'
    BY <1>1, <2>1, QuietStep DEF FlashInv, FlashTypeOK, Registers, Erased, Called, WriteSteps, EraseSteps
  <2>6. Programmed'
    BY <1>1, <2>1, QuietStep DEF FlashInv, FlashTypeOK, Registers, Programmed
  <2> QED
    BY <1>1, <2>1, <2>2, <2>3, <2>4, <2>5, <2>6, QuietKeeps DEF EraseSteps, WriteSteps
<1>7. CASE /\ At("write_word") /\ data_offset >= WriteEnd /\ fpc' = "write_disable"
           /\ UNCHANGED <<cells, ctl, ret, offset, data_offset, polls>>
  <2>1. /\ fpc = "write_word" /\ fpc' = "write_disable" /\ UNCHANGED <<ctl, polls, ret>>
        /\ data_offset >= WriteEnd
    BY <1>1, <1>7 DEF At
  <2>2. ctl' \in Registers /\ polls' \in 1..PollTimeout
    BY <1>1, <2>1, FlashConstants DEF FlashInv, FlashTypeOK, Registers
  <2>3. Called'
    BY <1>1, <2>1, QuietStep DEF FlashInv, Called, EraseSteps, WriteSteps
  <2>4. Polled'
    BY <1>1, <2>1, <2>2, QuietStep, FlashConstants DEF FlashInv, FlashTypeOK, Polled, Unprotected, Registers
  <2>5. Erased'
    BY <1>1, <2>1, QuietStep DEF FlashInv, FlashTypeOK, Registers, Erased, Called, WriteSteps, EraseSteps
  <2>6. Programmed'
    BY <1>1, <2>1, QuietStep, LoadedToEnd DEF FlashInv, FlashTypeOK, Registers, Programmed
  <2> QED
    BY <1>1, <2>1, <2>2, <2>3, <2>4, <2>5, <2>6, QuietKeeps DEF EraseSteps, WriteSteps
<1>8. CASE Protect("write_disable", TRUE, "written")
  <2>1. /\ fpc = "write_disable" /\ fpc' = "written" /\ UNCHANGED <<polls, ret>>
        /\ ctl' = [ctl EXCEPT !.protected = TRUE]
    BY <1>1, <1>8 DEF Protect, At
  <2>2. ctl' \in Registers /\ polls' \in 1..PollTimeout
    BY <1>1, <2>1, FlashConstants DEF FlashInv, FlashTypeOK, Registers
  <2>3. Called'
    BY <1>1, <2>1, QuietStep DEF FlashInv, Called, EraseSteps, WriteSteps
  <2>4. Polled'
    BY <1>1, <2>1, <2>2, QuietStep, FlashConstants DEF FlashInv, FlashTypeOK, Polled, Unprotected, Registers
  <2>5. Erased'
    BY <1>1, <2>1, QuietStep DEF FlashInv, FlashTypeOK, Registers, Erased, Called, WriteSteps, EraseSteps
  <2>6. Programmed'
    BY <1>1, <2>1, QuietStep DEF FlashInv, FlashTypeOK, Registers, Programmed
  <2> QED
    BY <1>1, <2>1, <2>2, <2>3, <2>4, <2>5, <2>6, QuietKeeps DEF EraseSteps, WriteSteps
<1>9. CASE Check("written", ret, IF fcall.op = "write" THEN "next_block" ELSE "done", "done")
  <2>1. /\ fpc = "written" /\ UNCHANGED <<ctl, polls, ret>>
        /\ IF ret = "0" /\ fcall.op = "write" THEN fpc' = "next_block" ELSE fpc' = "done"
    BY <1>1, <1>9 DEF Check, At
  <2>2. ctl' \in Registers /\ polls' \in 1..PollTimeout
    BY <1>1, <2>1, FlashConstants DEF FlashInv, FlashTypeOK, Registers
  <2>3. Called'
    BY <1>1, <2>1, QuietStep DEF FlashInv, Called, EraseSteps, WriteSteps
  <2>4. Polled'
    BY <1>1, <2>1, <2>2, QuietStep, FlashConstants DEF FlashInv, FlashTypeOK, Polled, Unprotected, Registers
  <2>5. Erased'
    BY <1>1, <2>1, QuietStep DEF FlashInv, FlashTypeOK, Registers, Erased, Called, WriteSteps, EraseSteps
  <2>6. Programmed'
    BY <1>1, <2>1, QuietStep DEF FlashInv, FlashTypeOK, Registers, Programmed, Called, WriteSteps
  <2> QED
    BY <1>1, <2>1, <2>2, <2>3, <2>4, <2>5, <2>6, QuietKeeps DEF EraseSteps, WriteSteps
<1> QED
  BY <1>2, <1>3, <1>4, <1>5, <1>6, <1>7, <1>8, <1>9 DEF alt_onchip_flash_write_block

(* read(), and what write() does before and after a block.                 *)
LEMMA Compared ==
    ASSUME FlashInv, fpc = "at_block"
    PROVE  IF Differs THEN offset < End ELSE Loaded(WriteEnd)
<1>1. /\ offset \in Nat /\ BlockEnd \in Nat /\ BlockEnd <= End /\ End \in Nat /\ fcall.op = "write"
      /\ WriteEnd = BlockEnd
  BY Ends DEF FlashInv, FlashTypeOK, Called
<1>2. ASSUME Differs PROVE offset < End
  BY <1>1, <1>2 DEF Differs
<1>3. ASSUME ~Differs PROVE Loaded(WriteEnd)
  <2> SUFFICES ASSUME NEW a \in Bytes, offset <= a, a < WriteEnd
               PROVE  cells[a] = (Original(a) /\ (a < WriteEnd => DataAt(a)))
    BY DEF Loaded
  <2>1. a \in offset..(BlockEnd - 1)
    BY <1>1, BytesOfPages
  <2>2. DataAt(a) = cells[a] /\ cells[a] \in BOOLEAN
    BY <1>3, <2>1 DEF Differs, FlashInv, FlashTypeOK
  <2> QED
    BY <1>1, <2>2 DEF Original
<1> QED
  BY <1>2, <1>3

LEMMA WriteQuiet ==
    ASSUME FlashInv,
           \/ alt_onchip_flash_read \/ AtBlock
           \/ Check("write", IF fcall.offset >= DevLength \/ End > DevLength THEN "-EFAULT" ELSE "0",
                    "at_block", "done")
    PROVE  FlashInv'
<1>1. UNCHANGED <<cells, fcall, before, offset, data_offset>>
  BY DEF alt_onchip_flash_read, AtBlock, Check, At
<1>2. CASE alt_onchip_flash_read
  <2>1. /\ fpc = "read" /\ UNCHANGED <<ctl, polls>> /\ fpc' = "done"
    BY <1>1, <1>2 DEF alt_onchip_flash_read, Check, At
  <2>2. ctl' \in Registers /\ polls' \in 1..PollTimeout
    BY <1>1, <2>1, FlashConstants DEF FlashInv, FlashTypeOK, Registers
  <2>3. Called'
    BY <1>1, <2>1, QuietStep DEF FlashInv, Called, EraseSteps, WriteSteps
  <2>4. Polled'
    BY <1>1, <2>1, <2>2, QuietStep, FlashConstants DEF FlashInv, FlashTypeOK, Polled, Unprotected, Registers
  <2>5. Erased'
    BY <1>1, <2>1, QuietStep DEF FlashInv, FlashTypeOK, Registers, Erased, Called, WriteSteps, EraseSteps
  <2>6. Programmed'
    BY <1>1, <2>1, QuietStep DEF FlashInv, FlashTypeOK, Registers, Programmed, Called, WriteSteps, EraseSteps
  <2> QED
    BY <1>1, <2>1, <2>2, <2>3, <2>4, <2>5, <2>6, QuietKeeps DEF EraseSteps, WriteSteps
<1>3. CASE Check("write", IF fcall.offset >= DevLength \/ End > DevLength THEN "-EFAULT" ELSE "0",
                  "at_block", "done")
  <2>1. /\ fpc = "write" /\ UNCHANGED <<ctl, polls>>
        /\ fpc' = "at_block" \/ (fpc' = "done" /\ ret' # "0")
    BY <1>1, <1>3 DEF Check, At
  <2>2. ctl' \in Registers /\ polls' \in 1..PollTimeout
    BY <1>1, <2>1, FlashConstants DEF FlashInv, FlashTypeOK, Registers
  <2>3. Called'
    BY <1>1, <2>1, QuietStep DEF FlashInv, Called, EraseSteps, WriteSteps
  <2>4. Polled'
    BY <1>1, <2>1, <2>2, QuietStep, FlashConstants DEF FlashInv, FlashTypeOK, Polled, Unprotected, Registers
  <2>5. Erased'
    BY <1>1, <2>1, QuietStep DEF FlashInv, FlashTypeOK, Registers, Erased, Called, WriteSteps, EraseSteps
  <2>6. Programmed'
    BY <1>1, <2>1, QuietStep DEF FlashInv, FlashTypeOK, Registers, Programmed, Called, WriteSteps, EraseSteps
  <2> QED
    BY <1>1, <2>1, <2>2, <2>3, <2>4, <2>5, <2>6, QuietKeeps DEF EraseSteps, WriteSteps
<1>4. CASE AtBlock
  <2>1. /\ fpc = "at_block" /\ UNCHANGED <<ctl, polls, ret>>
        /\ \/ fpc' = "done" /\ PageOf(offset) \notin Blocks
           \/ fpc' = "erase_block" /\ offset < End
           \/ fpc' = "next_block" /\ Loaded(WriteEnd)
    BY <1>1, <1>4, Compared DEF AtBlock, At
  <2>2. ctl' \in Registers /\ polls' \in 1..PollTimeout
    BY <1>1, <2>1, FlashConstants DEF FlashInv, FlashTypeOK, Registers
  <2>3. Called'
    BY <1>1, <2>1, QuietStep DEF FlashInv, Called, EraseSteps, WriteSteps
  <2>4. Polled'
    BY <1>1, <2>1, <2>2, QuietStep, FlashConstants DEF FlashInv, FlashTypeOK, Polled, Unprotected, Registers
  <2>5. Erased'
    BY <1>1, <2>1, QuietStep DEF FlashInv, FlashTypeOK, Registers, Erased, Called, WriteSteps, EraseSteps
  <2>6. Programmed'
    BY <1>1, <2>1, QuietStep DEF FlashInv, FlashTypeOK, Registers, Programmed, Called, WriteSteps, EraseSteps
  <2> QED
    BY <1>1, <2>1, <2>2, <2>3, <2>4, <2>5, <2>6, QuietKeeps DEF EraseSteps, WriteSteps
<1> QED
  BY <1>2, <1>3, <1>4

(* The steps that move on in the data.                                     *)
LEMMA DataIsBits ==
    ASSUME FlashTypeOK, NEW a \in Nat, fcall.offset <= a, a < End
    PROVE  DataAt(a) \in BOOLEAN
<1> DEFINE from == fcall.offset
           data == fcall.data
<1>1. from \in Nat /\ data \in Seq(BOOLEAN)
  BY DEF FlashTypeOK
<1>2. from <= a /\ a < from + Len(data)
  BY DEF End
<1> HIDE DEF from, data
<1>3. a - from + 1 \in 1..Len(data)
  BY <1>1, <1>2
<1>4. data[a - from + 1] \in BOOLEAN
  BY <1>1, <1>3
<1> QED
  BY <1>4 DEF DataAt, from, data

LEMMA WordBounds ==
    ASSUME NEW d \in Nat
    PROVE  /\ (d \div WordBytes + 1) * WordBytes \in Nat /\ d < (d \div WordBytes + 1) * WordBytes
           /\ \A a \in Nat : d <= a /\ a < (d \div WordBytes + 1) * WordBytes
                             => a \div WordBytes = d \div WordBytes
           /\ \A a \in Nat : a \div WordBytes = d \div WordBytes
                             => a < (d \div WordBytes + 1) * WordBytes
<1> DEFINE q == d \div WordBytes
           first == q * WordBytes
           behind == (q + 1) * WordBytes
<1>1. q \in Nat /\ first \in Nat /\ behind \in Nat /\ first <= d /\ d < behind
  BY FlashConstants, QuotientBounds
<1>2. ASSUME NEW a \in Nat, d <= a, a < behind PROVE a \div WordBytes = q
  <2> DEFINE r == a \div WordBytes
             from == r * WordBytes
             to == (r + 1) * WordBytes
  <2>1. r \in Nat /\ from \in Nat /\ to \in Nat /\ from <= a /\ a < to
    BY FlashConstants, QuotientBounds
  <2> HIDE DEF q
  <2>2. (r < q => to <= first) /\ (q < r => behind <= from)
    BY <1>1, <2>1, FlashConstants, ProductsInOrder
  <2> HIDE DEF r, from, to, first, behind
  <2>3. r = q
    BY <1>1, <1>2, <2>1, <2>2
  <2> QED
    BY <2>3 DEF r
<1>3. ASSUME NEW a \in Nat, a \div WordBytes = q PROVE a < behind
  BY <1>3, FlashConstants, QuotientBounds
<1> QED
  BY <1>1, <1>2, <1>3

LEMMA NextWordKeeps ==
    ASSUME FlashInv, NextWord
    PROVE  FlashInv'
<1>1. /\ fpc = "next_word" /\ fpc' = "write_word" /\ data_offset' = BehindWord
      /\ UNCHANGED <<cells, ctl, ret, offset, polls, fcall, before>>
  BY DEF NextWord, At, BehindWord
<1>2. data_offset \in Nat /\ BehindWord \in Nat /\ data_offset < BehindWord /\ offset \in Nat
  BY WordBounds DEF FlashInv, FlashTypeOK, BehindWord
<1>3. End' = End /\ WriteEnd' = WriteEnd /\ Touched' = Touched
  BY <1>1 DEF End, WriteEnd, BlockEnd, Touched, Written
<1>4. \A a : DataAt(a)' = DataAt(a) /\ Original(a)' = Original(a)
  BY <1>1 DEF DataAt, Original
<1>5. FlashTypeOK'
  BY <1>1, <1>2 DEF FlashInv, FlashTypeOK, WriteSteps
<1>6. Called'
  BY <1>1, <1>2, <1>3 DEF FlashInv, Called, EraseSteps, WriteSteps
<1>7. Polled'
  BY <1>1 DEF FlashInv, Polled, Unprotected
<1>8. Erased'
  BY <1>1 DEF Erased
<1>9. Loaded(data_offset)'
  BY <1>1, <1>3, <1>4 DEF FlashInv, Programmed, Loaded
<1>10. Behind' = Behind
  BY <1>1, <1>4 DEF Behind
<1>11. Programmed'
  BY <1>1, <1>9, <1>10 DEF FlashInv, Programmed
<1>12. Untouched'
  BY <1>1, <1>3 DEF FlashInv, Untouched
<1> QED
  BY <1>5, <1>6, <1>7, <1>8, <1>11, <1>12 DEF FlashInv

LEMMA NextBlockKeeps ==
    ASSUME FlashInv, NextBlock
    PROVE  FlashInv'
<1>1. /\ fpc = "next_block" /\ fpc' = (IF BlockEnd = End THEN "done" ELSE "at_block")
      /\ offset' = BlockEnd /\ data_offset' = BlockEnd /\ fcall.op = "write"
      /\ UNCHANGED <<cells, ctl, ret, polls, fcall, before>>
  BY DEF NextBlock, At, FlashInv, Called
<1>2. /\ End \in Nat /\ BlockEnd \in Nat /\ BlockEnd <= End /\ fcall.offset \in Nat /\ fcall.offset <= End
      /\ BlockEnd = End \/ BlockEnd = PageOf(BlockEnd) * PageBytes
      /\ WriteEnd = BlockEnd /\ offset \in Nat /\ fcall.offset <= offset
  BY <1>1, Ends DEF FlashInv, FlashTypeOK, Called
<1>3. fcall.offset <= BlockEnd
  <2> DEFINE from == fcall.offset
  <2>1. from \in Nat /\ from <= offset /\ offset <= BlockEnd
    BY <1>2, Ends DEF FlashInv
  <2> HIDE DEF from
  <2>2. from <= BlockEnd
    BY <1>2, <2>1
  <2> QED
    BY <2>2 DEF from
<1>4. End' = End /\ Touched' = Touched
  BY <1>1 DEF End, Touched, Written
<1>5. \A a : DataAt(a)' = DataAt(a)
  BY <1>1 DEF DataAt
<1>6. FlashTypeOK'
  BY <1>1, <1>2 DEF FlashInv, FlashTypeOK
<1>7. Called'
  BY <1>1, <1>2, <1>3, <1>4 DEF Called, EraseSteps, WriteSteps
<1>8. Polled'
  BY <1>1 DEF FlashInv, Polled, Unprotected
<1>9. Erased'
  BY <1>1 DEF Erased
<1>10. Behind'
  <2> SUFFICES ASSUME NEW a \in Bytes, fcall.offset <= a, a < BlockEnd PROVE cells[a] = DataAt(a)
    BY <1>1, <1>5 DEF Behind
  <2>1. a \in Nat /\ a < End
    BY <1>2, BytesOfPages
  <2>2. CASE a < offset
    BY <1>1, <2>2 DEF FlashInv, Programmed, Behind
  <2>3. CASE offset <= a
    BY <1>1, <1>2, <2>1, <2>3, DataIsBits DEF FlashInv, Programmed, Loaded, Original
  <2> QED
    BY <1>2, <2>1, <2>2, <2>3
<1>11. Programmed'
  BY <1>1, <1>4, <1>10 DEF Programmed
<1>12. Untouched'
  BY <1>1, <1>4 DEF FlashInv, Untouched
<1> QED
  BY <1>6, <1>7, <1>8, <1>9, <1>11, <1>12 DEF FlashInv

(* The controller's steps.                                                 *)
LEMMA OutcomeOf ==
    ASSUME NEW bytes, NEW writable \in BOOLEAN, NEW o \in Outcomes(bytes, writable)
    PROVE  /\ o.passed \in BOOLEAN /\ (o.passed => o.at = bytes /\ writable)
           /\ o.at \subseteq bytes
<1>1. CASE writable
  <2>1. o = [passed |-> TRUE, at |-> bytes] \/ \E some \in SUBSET bytes : o = [passed |-> FALSE, at |-> some]
    BY <1>1 DEF Outcomes
  <2>2. CASE o = [passed |-> TRUE, at |-> bytes]
    BY <1>1, <2>2
  <2>3. ASSUME NEW some \in SUBSET bytes, o = [passed |-> FALSE, at |-> some]
        PROVE  o.passed = FALSE /\ o.at \subseteq bytes
    BY <2>3
  <2> QED
    BY <2>1, <2>2, <2>3
<1>2. CASE ~writable
  <2>1. o = [passed |-> FALSE, at |-> {}]
    BY <1>2 DEF Outcomes
  <2> QED
    BY <2>1
<1> QED
  BY <1>1, <1>2

LEMMA WriteWordKeeps ==
    ASSUME FlashInv, WriteWord
    PROVE  FlashInv'
<1>1. PICK o \in Outcomes(Word(data_offset), Writable(PageOf(data_offset))) :
          /\ cells' = [a \in Bytes |-> cells[a] /\ (a \in o.at => WordData(a))]
          /\ ctl' = [ctl EXCEPT !.write_passed = o.passed]
  BY DEF WriteWord
<1>2. /\ fpc = "write_word" /\ fpc' = "write_idle" /\ data_offset < WriteEnd
      /\ UNCHANGED <<ret, offset, data_offset, polls, fcall, before>>
  BY DEF WriteWord, At
<1>3. o.passed \in BOOLEAN /\ (o.passed => o.at = Word(data_offset))
  <2>1. Writable(PageOf(data_offset)) \in BOOLEAN
    BY DEF Writable
  <2> QED
    BY <2>1, OutcomeOf
<1>4. /\ data_offset \in Nat /\ offset \in Nat /\ offset <= data_offset /\ WriteEnd \in Nat /\ End \in Nat
      /\ WriteEnd <= End /\ fcall.offset \in Nat /\ fcall.offset <= offset
      /\ fcall.op \in {"write_block", "write"}
  BY <1>2, Ends DEF FlashInv, FlashTypeOK, Called, WriteSteps
<1>5. /\ End' = End /\ WriteEnd' = WriteEnd /\ Touched' = Touched /\ BehindWord' = BehindWord
      /\ EraseOffset' = EraseOffset
  BY <1>2 DEF End, WriteEnd, BlockEnd, Touched, Written, BehindWord, EraseOffset
<1>6. \A a : DataAt(a)' = DataAt(a) /\ Original(a)' = Original(a)
  BY <1>2 DEF DataAt, Original
<1>7. ctl' \in Registers /\ ctl'.write_passed = o.passed /\ ctl'.erasing = ctl.erasing /\ ctl'.age = ctl.age
  BY <1>1, <1>3 DEF FlashInv, FlashTypeOK, Registers
<1>8. FlashTypeOK'
  BY <1>1, <1>2, <1>7 DEF FlashInv, FlashTypeOK, WriteSteps
<1>9. Called'
  BY <1>2, <1>5 DEF FlashInv, Called, EraseSteps, WriteSteps
<1>10. Polled'
  BY <1>2, <1>7 DEF FlashInv, Polled, Unprotected
<1>11. Erased'
  BY <1>2 DEF Erased
<1>12. ASSUME NEW a \in Bytes, a < data_offset \/ a >= WriteEnd PROVE cells'[a] = cells[a]
  BY <1>1, <1>12, <1>4, BytesOfPages DEF WordData, FlashInv, FlashTypeOK
<1>13. ASSUME NEW a \in Bytes, a \notin Word(data_offset), o.passed PROVE cells'[a] = cells[a]
  BY <1>1, <1>3, <1>13 DEF FlashInv, FlashTypeOK
<1>14. ASSUME NEW a \in Bytes, a \in Word(data_offset), data_offset <= a, a < WriteEnd, o.passed
       PROVE  cells'[a] = (cells[a] /\ DataAt(a))
  BY <1>1, <1>3, <1>14 DEF WordData
<1>15. ctl'.write_passed => Loaded(BehindWord)'
  <2> SUFFICES ASSUME o.passed, NEW a \in Bytes, offset <= a, a < WriteEnd
               PROVE  cells'[a] = (Original(a) /\ (a < BehindWord => DataAt(a)))
    BY <1>2, <1>5, <1>6, <1>7 DEF Loaded
  <2>1. a \in Nat
    BY BytesOfPages
  <2>2. cells[a] = (Original(a) /\ (a < data_offset => DataAt(a))) /\ cells[a] \in BOOLEAN
    BY <1>2 DEF FlashInv, FlashTypeOK, Programmed, Loaded
  <2>3. BehindWord \in Nat /\ data_offset < BehindWord
    BY <1>4, WordBounds DEF BehindWord
  <2>4. CASE a < data_offset
    BY <1>4, <1>12, <2>1, <2>2, <2>3, <2>4
  <2>5. CASE data_offset <= a /\ a < BehindWord
    <3>1. a \in Word(data_offset)
      BY <1>4, <2>1, <2>5, WordBounds DEF BehindWord, Word
    <3>2. cells'[a] = (cells[a] /\ DataAt(a)) /\ ~(a < data_offset)
      BY <1>4, <1>14, <2>1, <2>5, <3>1
    <3>3. DataAt(a) \in BOOLEAN
      BY <1>4, <2>1, DataIsBits DEF FlashInv
    <3> QED
      BY <2>2, <2>5, <3>2, <3>3
  <2>6. CASE a >= BehindWord
    <3>1. a \notin Word(data_offset)
      BY <1>4, <2>1, <2>3, <2>6, WordBounds DEF BehindWord, Word
    <3>2. ~(a < BehindWord) /\ ~(a < data_offset)
      BY <1>4, <2>1, <2>3, <2>6
    <3> QED
      BY <1>13, <2>2, <3>1, <3>2
  <2> QED
    BY <1>4, <2>1, <2>3, <2>4, <2>5, <2>6
<1>16. fcall.op = "write" => Behind'
  <2> SUFFICES ASSUME fcall.op = "write", NEW a \in Bytes, fcall.offset <= a, a < offset
               PROVE  cells'[a] = DataAt(a)
    BY <1>2, <1>6 DEF Behind
  <2>1. a < data_offset
    BY <1>4, BytesOfPages
  <2> QED
    BY <1>12, <2>1 DEF FlashInv, Programmed, Behind
<1>17. Programmed'
  BY <1>2, <1>15, <1>16 DEF Programmed
<1>18. Untouched'
  <2> SUFFICES ASSUME NEW a \in Bytes, a \notin Touched PROVE cells'[a] = before[a]
    BY <1>2, <1>5 DEF Untouched
  <2>1. a \in Nat
    BY BytesOfPages
  <2>2. a \notin Written
    <3>1. CASE fcall.op = "write"
      BY <2>1, <3>1, PageBounds, PageMembers DEF Touched
    <3>2. CASE fcall.op = "write_block"
      BY <3>2 DEF Touched
    <3> QED
      BY <1>4, <3>1, <3>2
  <2>3. a < data_offset \/ a >= WriteEnd
    BY <1>4, <2>1, <2>2 DEF Written
  <2> QED
    BY <1>12, <2>3 DEF FlashInv, Untouched
<1> QED
  BY <1>8, <1>9, <1>10, <1>11, <1>17, <1>18 DEF FlashInv

LEMMA EraseEndsKeeps ==
    ASSUME FlashInv, EraseEnds
    PROVE  FlashInv'
<1> DEFINE page == ctl.page
<1>1. PICK o \in Outcomes(Page(page), page \in Blocks) :
          /\ cells' = [a \in Bytes |-> cells[a] \/ a \in o.at]
          /\ ctl' = [ctl EXCEPT !.erasing = FALSE, !.age = 0, !.erase_passed = o.passed]
  BY DEF EraseEnds
<1>2. /\ fpc = "erase_idle" /\ page = PageOf(EraseOffset) /\ page \in Nat
      /\ UNCHANGED <<fcall, fpc, ret, offset, data_offset, polls, before>>
  BY DEF EraseEnds, FlashInv, FlashTypeOK, Registers, Polled
<1>3. /\ o.passed \in BOOLEAN /\ (o.passed => o.at = Page(page) /\ page \in Blocks)
      /\ o.at \subseteq Page(page)
  <2>1. (page \in Blocks) \in BOOLEAN
    OBVIOUS
  <2> DEFINE b == page \in Blocks   p == Page(page)
  <2>2. b \in BOOLEAN /\ o \in Outcomes(p, b)
    BY <2>1, <1>1
  <2> HIDE DEF b, p
  <2>3. /\ o.passed \in BOOLEAN /\ (o.passed => o.at = p /\ b) /\ o.at \subseteq p
    BY <2>2, OutcomeOf
  <2> QED
    BY <2>3 DEF b, p
<1>4. /\ page = PageOf(IF fcall.op = "write" THEN offset ELSE fcall.offset)
      /\ fcall.op \in {"erase_block", "write"} /\ (fcall.op = "write" => offset < End)
      /\ fcall.offset \in Nat /\ fcall.offset <= offset /\ End \in Nat /\ offset \in Nat
  BY <1>2, Ends DEF FlashInv, FlashTypeOK, Called, EraseSteps
<1>5. /\ End' = End /\ WriteEnd' = WriteEnd /\ Touched' = Touched /\ EraseOffset' = EraseOffset
  BY <1>2 DEF End, WriteEnd, BlockEnd, Touched, Written, EraseOffset
<1>6. \A a : DataAt(a)' = DataAt(a)
  BY <1>2 DEF DataAt
<1>7. /\ ctl' \in Registers /\ ctl'.erase_passed = o.passed /\ ~ctl'.erasing /\ ctl'.age = 0
      /\ ctl'.protected = ctl.protected /\ ctl'.page = page
  BY <1>1, <1>3 DEF FlashInv, FlashTypeOK, Registers
<1>8. FlashTypeOK'
  BY <1>1, <1>2, <1>7 DEF FlashInv, FlashTypeOK
<1>9. Called'
  BY <1>2, <1>5 DEF FlashInv, Called
<1>10. Polled'
  BY <1>2, <1>5, <1>7 DEF FlashInv, Polled, Unprotected
<1>11. Erased'
  <2> SUFFICES ASSUME o.passed PROVE ErasedBlock'
    BY <1>2, <1>7 DEF Erased
  <2>1. \A a \in Page(page) : a \in Bytes
    BY <1>3, FlashConstants DEF Bytes
  <2> QED
    BY <1>1, <1>2, <1>3, <1>5, <2>1 DEF ErasedBlock
<1>12. ASSUME NEW a \in Bytes, a \notin Page(page) PROVE cells'[a] = cells[a]
  BY <1>1, <1>3, <1>12 DEF FlashInv, FlashTypeOK
<1>13. fcall.op = "write" => Behind'
  <2> SUFFICES ASSUME fcall.op = "write", NEW a \in Bytes, fcall.offset <= a, a < offset
               PROVE  cells'[a] = DataAt(a)
    BY <1>2, <1>6 DEF Behind
  <2>1. a \in Nat /\ page = PageOf(offset)
    BY <1>4, BytesOfPages
  <2>2. offset = PageOf(offset) * PageBytes
    <3>1. offset # End /\ offset # fcall.offset
      BY <1>4, <2>1
    <3> QED
      BY <3>1 DEF FlashInv, Called
  <2>3. a \notin Page(page)
    <3>1. PageOf(a) # page
      BY <1>4, <2>1, <2>2, PageBounds
    <3> QED
      BY <1>2, <2>1, <3>1, PageMembers
  <2> QED
    BY <1>12, <2>3 DEF FlashInv, Programmed, Behind
<1>14. Programmed'
  BY <1>2, <1>13 DEF Programmed
<1>15. Untouched'
  <2> SUFFICES ASSUME NEW a \in Bytes, a \notin Touched PROVE cells'[a] = before[a]
    BY <1>2, <1>5 DEF Untouched
  <2>1. a \notin Page(page)
    <3>1. CASE fcall.op = "write"
      <4>1. offset \in Written
        BY <1>4, <3>1 DEF Written
      <4> QED
        BY <1>4, <3>1, <4>1 DEF Touched
    <3>2. CASE fcall.op = "erase_block"
      BY <1>4, <3>2 DEF Touched
    <3> QED
      BY <1>4, <3>1, <3>2
  <2> QED
    BY <1>12, <2>1 DEF FlashInv, Untouched
<1> QED
  BY <1>8, <1>9, <1>10, <1>11, <1>14, <1>15 DEF FlashInv

(* The next call: what the flash holds is what it is measured against.     *)
LEMMA CallKeeps ==
    ASSUME FlashInv, CallFlash
    PROVE  FlashInv'
<1>1. PICK c \in FlashCalls : fcall' = c /\ fpc' = c.op /\ offset' = c.offset /\ data_offset' = c.offset
  BY DEF CallFlash
<1>2. fpc = "done" /\ before' = cells /\ UNCHANGED <<cells, ctl, read_only, polls>>
  BY DEF CallFlash
<1>3. c.op \in {"read", "erase_block", "write_block", "write"} /\ c.offset \in Nat /\ c.data \in Seq(BOOLEAN)
  BY FlashAssumption
<1>4. c \in [op : {"none", "read", "erase_block", "write_block", "write"}, offset : Nat, data : Seq(BOOLEAN)]
  BY FlashAssumption
<1> DEFINE op == c.op
           from == c.offset
<1>5. fcall' = c /\ fcall'.op = op /\ fcall'.offset = from /\ fpc' = op /\ offset' = from /\ data_offset' = from
  BY <1>1
<1>6. op \in {"read", "erase_block", "write_block", "write"} /\ from \in Nat
  BY <1>3
<1>7. End' \in Nat /\ from <= End'
  <2>1. Len(c.data) \in Nat /\ End' = from + Len(c.data)
    BY <1>1, <1>3 DEF End
  <2> HIDE DEF from
  <2> QED
    BY <1>6, <2>1
<1> HIDE DEF op, from
<1>8. FlashTypeOK'
  BY <1>2, <1>4, <1>5, <1>6 DEF FlashInv, FlashTypeOK, EraseSteps, WriteSteps
<1>9. Called'
  BY <1>5, <1>6, <1>7 DEF Called, EraseSteps, WriteSteps
<1>10. Polled'
  BY <1>2, <1>5, <1>6 DEF FlashInv, Polled, Unprotected
<1>11. Erased'
  BY <1>5, <1>6 DEF Erased
<1>12. op = "write_block" => Loaded(data_offset)'
  <2> SUFFICES ASSUME op = "write_block", NEW a \in Bytes, from <= a
               PROVE  cells[a] = (Original(a)' /\ (a < from => DataAt(a)'))
    BY <1>2, <1>5 DEF Loaded
  <2>1. ~(a < from)
    BY <1>6, BytesOfPages
  <2>2. Original(a)' = cells[a] /\ cells[a] \in BOOLEAN
    BY <1>2, <1>5 DEF Original, FlashInv, FlashTypeOK
  <2> QED
    BY <2>1, <2>2
<1>13. Behind'
  <2>1. \A a \in Bytes : ~(from <= a /\ a < from)
    BY <1>6, BytesOfPages
  <2> QED
    BY <1>5, <2>1 DEF Behind
<1>14. Programmed'
  BY <1>5, <1>6, <1>12, <1>13 DEF Programmed
<1>15. Untouched'
  BY <1>2 DEF Untouched
<1> QED
  BY <1>8, <1>9, <1>10, <1>11, <1>14, <1>15 DEF FlashInv

LEMMA ReportedAsStored == FlashInv => FlashAsReported
<1> SUFFICES ASSUME FlashInv PROVE FlashAsReported
  OBVIOUS
<1>1. fcall.offset \in Nat /\ End \in Nat /\ Written = fcall.offset..(End - 1) /\ Written \subseteq Nat
  BY Ends DEF FlashInv, Written
<1>2. ASSUME fpc = "done" PROVE ctl.protected /\ ~ctl.erasing
  BY <1>2 DEF FlashInv, Polled, Unprotected
<1>3. ASSUME fpc = "done", ret = "0", {PageOf(a) : a \in Written} \subseteq Blocks PROVE Stored
  <2>1. \A a \in Written : a \in Bytes /\ a \in Nat /\ fcall.offset <= a /\ a < End
    <3> TAKE a \in Written
    <3>1. a \in Nat /\ fcall.offset <= a /\ a < End
      BY <1>1
    <3>2. PageOf(a) \in Pages
      BY <1>3, FlashConstants
    <3> QED
      BY <3>1, <3>2, BytesOfPages
  <2>2. CASE fcall.op \in {"none", "read"}
    BY <2>2 DEF Stored
  <2>3. CASE fcall.op = "erase_block"
    <3>1. ErasedBlock /\ PageOf(EraseOffset) = PageOf(fcall.offset)
      BY <1>3, <2>3, Ends DEF FlashInv, Erased
    <3> QED
      BY <2>3, <3>1 DEF Stored, Touched, ErasedBlock
  <2>4. CASE fcall.op = "write_block"
    <3>1. Loaded(WriteEnd) /\ WriteEnd = End /\ offset = fcall.offset
      BY <1>3, <2>4, Ends DEF FlashInv, Programmed, Called
    <3>2. \A a \in Written : cells[a] = (before[a] /\ DataAt(a))
      BY <2>1, <2>4, <3>1, DataIsBits DEF FlashInv, FlashTypeOK, Loaded, Original
    <3> QED
      BY <2>4, <3>2 DEF Stored
  <2>5. CASE fcall.op = "write"
    <3>1. offset \in Nat /\ fcall.offset <= offset /\ offset <= End
      BY DEF FlashInv, FlashTypeOK, Called
    <3>2. offset = End \/ PageOf(offset) \notin Blocks
      BY <1>3, <2>5 DEF FlashInv, Programmed
    <3>3. offset = End
      <4>1. ASSUME offset < End PROVE FALSE
        <5>1. offset \in Written
          BY <1>1, <3>1, <4>1
        <5> QED
          BY <1>3, <3>1, <3>2, <4>1, <5>1, <1>1
      <4> QED
        BY <1>1, <3>1, <4>1
    <3>4. \A a \in Written : cells[a] = DataAt(a)
      BY <2>1, <2>5, <3>3 DEF FlashInv, Programmed, Behind
    <3> QED
      BY <2>5, <3>4 DEF Stored
  <2> QED
    BY <2>2, <2>3, <2>4, <2>5 DEF FlashInv, FlashTypeOK
<1> QED
  BY <1>2, <1>3 DEF FlashInv, Untouched, FlashAsReported

(* Whatever the partition into sectors, pages and words, whatever the      *)
(* calls and whichever erasures and words fail: a call that returns 0 has  *)
(* stored its data, and none changes anything outside of its blocks        *)
(* (altera_onchip_flash.c:131-383).                                        *)
THEOREM ReportsAreTrue == FlashSpec => []FlashAsReported
<1>1. FlashInv /\ [FlashNext]_flash_vars => FlashInv'
  <2> SUFFICES ASSUME FlashInv, [FlashNext]_flash_vars PROVE FlashInv'
    OBVIOUS
  <2>1. CASE UNCHANGED flash_vars
    <3>1. UNCHANGED <<cells, fcall, before, offset, data_offset, ctl, polls, fpc, ret>>
      BY <2>1 DEF flash_vars
    <3>2. Called' /\ Polled' /\ Erased'
      BY <3>1, QuietStep DEF FlashInv, Called, Polled, Erased
    <3>3. Programmed'
      BY <3>1, QuietStep DEF FlashInv, Programmed
    <3> QED
      BY <3>1, <3>2, <3>3, QuietKeeps DEF FlashInv, FlashTypeOK
  <2>2. CASE alt_onchip_flash_read \/ alt_onchip_flash_write
    BY <2>2, WriteQuiet, NextBlockKeeps DEF alt_onchip_flash_write
  <2>3. CASE EraseEnds
    BY <2>3, EraseEndsKeeps
  <2>4. CASE CallFlash
    BY <2>4, CallKeeps
  <2>5. CASE alt_onchip_flash_erase_block
    BY <2>5, EraseBlockKeeps
  <2>6. CASE alt_onchip_flash_write_block
    BY <2>6, WriteBlockQuiet, WriteWordKeeps, NextWordKeeps
  <2> QED
    BY <2>1, <2>2, <2>3, <2>4, <2>5, <2>6 DEF FlashNext
<1> QED
  BY <1>1, FlashInvInit, ReportedAsStored, PTL DEF FlashSpec

--------------------------------------------------------------------------------
(***************************************************************************)
(* Files.                                                                  *)
(***************************************************************************)
(* The provers do not know that a literal is a string.                     *)
Character == STRING \cup {"/", "n"}

FilesTypeOK ==
    /\ alt_fd_list = [f \in 0..(MaxFd - 1) |-> alt_fd_list[f]] /\ alt_max_fd \in Int
    /\ \A f \in 0..(MaxFd - 1) : DOMAIN alt_fd_list[f] = {"dev", "mode", "nonblock", "excl", "isdev"}
    /\ alt_dev_list \in Seq(Seq(Character)) /\ alt_fs_list \in Seq(Seq(Character)) /\ registered \in Nat
    /\ DOMAIN held \subseteq 3..(MaxFd - 1) /\ held = [f \in DOMAIN held |-> held[f]]

(* A descriptor that has a lock, or only a device, is among those that the *)
(* search for a lock looks at.                                             *)
Searched ==
    \A f \in 0..(MaxFd - 1) :
        /\ f <= 2 => alt_fd_list[f].dev # NoDev
        /\ f > 2 /\ f \notin DOMAIN held => alt_fd_list[f] = Free
        /\ alt_fd_list[f].excl => alt_fd_list[f].isdev
        /\ alt_fd_list[f].isdev => f <= alt_max_fd

(* A descriptor that is held has the mode it was opened with, and belongs  *)
(* to the device of the name, or to a filesystem the name goes through.    *)
OpenedAs ==
    \A f \in DOMAIN held :
        /\ alt_fd_list[f].dev # NoDev /\ alt_fd_list[f].mode = held[f].mode
        /\ IF alt_fd_list[f].isdev THEN alt_fd_list[f].dev = held[f].name
           ELSE GoesThrough(held[f].name, alt_fd_list[f].dev)

FilesInv == FilesTypeOK /\ Searched /\ OpenedAs

(* Every name is one of these characters.                                  *)
LEMMA NamesAreCharacters == Seq(STRING) \subseteq Seq(Character)
  BY DEF Character

(* The first of some places is one of them.                                *)
LEMMA FirstIsMember ==
    ASSUME NEW S \in SUBSET Nat, S # {}
    PROVE  First(S) \in S
<1>1. PICK i \in S : \A j \in S : ~ (<<j, i>> \in Less)
  BY LessWellFounded, WFMin
<1>2. ASSUME NEW j \in S PROVE i <= j
  <2>1. ASSUME j < i PROVE FALSE
    <3> DEFINE p == <<j, i>>
    <3>1. p \in Nat \X Nat /\ p[1] < p[2]
      BY <2>1
    <3>2. p \in Less
      BY <3>1 DEF Less
    <3> QED
      BY <1>1, <3>2
  <2> QED
    BY <2>1
<1> QED
  BY <1>2 DEF First

(* What alt_find_dev() returns: nothing, or what was asked for.            *)
LEMMA FindsDevice ==
    ASSUME FilesInv, NEW name, alt_find_dev(name) # NoDev
    PROVE  alt_find_dev(name) = name
<1> DEFINE S == {i \in DOMAIN alt_dev_list : alt_dev_list[i] = name}
<1>1. S # {}
  BY DEF alt_find_dev, Found
<1>2. S \in SUBSET Nat
  BY DEF FilesInv, FilesTypeOK
<1>3. alt_find_dev(name) = alt_dev_list[First(S)]
  BY <1>1 DEF alt_find_dev, Found
<1>4. First(S) \in S
  BY <1>1, <1>2, FirstIsMember
<1> QED
  BY <1>3, <1>4

(* What alt_find_file() returns: nothing, or the owner of the file.        *)
LEMMA FindsFile ==
    ASSUME FilesInv, NEW name, alt_find_file(name) # NoDev
    PROVE  OwnsFile(alt_find_file(name), name) /\ alt_find_file(name) \in Seq(Character)
<1> DEFINE S == {i \in DOMAIN alt_fs_list : OwnsFile(alt_fs_list[i], name)}
<1>1. S # {}
  BY DEF alt_find_file, Found
<1>2. S \in SUBSET Nat
  BY DEF FilesInv, FilesTypeOK
<1>3. alt_find_file(name) = alt_fs_list[First(S)]
  BY <1>1 DEF alt_find_file, Found
<1>4. First(S) \in S
  BY <1>1, <1>2, FirstIsMember
<1>5. alt_fs_list[First(S)] \in Seq(Character)
  BY <1>4 DEF FilesInv, FilesTypeOK
<1> QED
  BY <1>3, <1>4, <1>5

(* The owner of a file is one of the directories it goes through.          *)
LEMMA OwnerIsDirectory ==
    ASSUME NEW mount \in Seq(Character), mount # <<>>, NEW name \in Seq(Character), OwnsFile(mount, name)
    PROVE  GoesThrough(name, mount)
<1> DEFINE stem == IF Last(mount) = "/" THEN Front(mount) ELSE mount
<1> DEFINE l == Len(mount)
<1> DEFINE k == Len(stem)
<1> DEFINE n == Len(name)
<1>1. l \in Nat /\ l > 0 /\ n \in Nat
  OBVIOUS
<1>2. /\ k \in Nat /\ k <= l /\ (mount[l] = "/" => k = l - 1) /\ (mount[l] # "/" => k = l)
      /\ \A i \in 1..k : stem[i] = mount[i]
      /\ stem \in Seq(Character)
  <2>1. CASE mount[l] = "/"
    <3>1. stem = SubSeq(mount, 1, l - 1)
      BY <2>1 DEF Last, Front
    <3>2. l - 1 \in Nat /\ l - 1 <= l
      BY <1>1
    <3>3. stem \in Seq(Character)
      BY <1>1, <3>1, <3>2
    <3> QED
      BY <1>1, <2>1, <3>1, <3>2, <3>3
  <2>2. CASE mount[l] # "/"
    BY <1>1, <2>2 DEF Last
  <2> QED
    BY <2>1, <2>2
<1>3. k <= n /\ SubSeq(stem, 1, k) = SubSeq(name, 1, k) /\ (n > k => name[k + 1] = "/")
  BY DEF OwnsFile, IsPrefix
<1>4. ASSUME NEW i \in 1..k PROVE name[i] = mount[i]
  <2>2. SubSeq(stem, 1, k)[i] = stem[i]
    BY <1>2
  <2>3. SubSeq(name, 1, k)[i] = name[i]
    BY <1>1, <1>2, <1>3
  <2> QED
    BY <1>2, <1>3, <2>2, <2>3
<1> HIDE DEF l, k, n, stem
<1>5. SUFFICES ASSUME NEW q \in 1..l, NEW p \in 0..(q - 1), IsStep(mount, p, q)
               PROVE  IsStep(name, p, q) /\ \A i \in (p + 1)..q : name[i] = mount[i]
  BY DEF GoesThrough, l
<1>6. /\ \A i \in (p + 1)..q : mount[i] # "/"
      /\ p > 0 => mount[p] = "/"
      /\ q < l => mount[q + 1] = "/"
  BY <1>5 DEF IsStep, l
<1>7. q <= k
  <2>1. q \in (p + 1)..q
    BY <1>1, <1>5
  <2>2. q = l => mount[l] # "/"
    BY <1>6, <2>1
  <2> QED
    BY <1>1, <1>2, <1>5, <2>2
<1>8. \A i \in (p + 1)..q : name[i] = mount[i] /\ name[i] # "/"
  BY <1>1, <1>2, <1>4, <1>5, <1>6, <1>7
<1>9. p > 0 => name[p] = "/"
  BY <1>1, <1>2, <1>4, <1>5, <1>6, <1>7
<1>10. q < n => name[q + 1] = "/"
  <2>1. CASE q < k
    <3>1. q + 1 \in 1..k /\ q < l
      BY <1>1, <1>2, <1>5, <2>1
    <3>2. name[q + 1] = mount[q + 1]
      BY <1>4, <3>1
    <3> QED
      BY <1>6, <3>1, <3>2
  <2>2. CASE q = k
    BY <1>3, <2>2
  <2> QED
    BY <1>2, <1>7, <2>1, <2>2
<1>11. p < q /\ q <= n
  BY <1>1, <1>2, <1>3, <1>5, <1>7
<1> QED
  BY <1>8, <1>9, <1>10, <1>11 DEF IsStep, n

(* What alt_get_fd() gives is free, and not one of the standard three.     *)
LEMMA GetsFree ==
    ASSUME FilesInv, FreeFds # {}
    PROVE  /\ alt_get_fd \in 3..(MaxFd - 1) /\ alt_get_fd \notin DOMAIN held
           /\ alt_fd_list[alt_get_fd].dev = NoDev /\ HighWater(alt_get_fd) \in Int
           /\ HighWater(alt_get_fd) >= alt_get_fd /\ HighWater(alt_get_fd) >= alt_max_fd
<1>1. MaxFd \in Nat
  BY FilesAssumption DEF FilesAssumption
<1>2. FreeFds \in SUBSET Nat
  BY <1>1 DEF FreeFds, FilesInv, FilesTypeOK
<1>3. alt_get_fd \in FreeFds
  BY <1>2, FirstIsMember DEF alt_get_fd
<1>4. alt_get_fd \in 0..(MaxFd - 1) /\ alt_fd_list[alt_get_fd].dev = NoDev
  BY <1>3 DEF FreeFds, FilesInv, FilesTypeOK
<1>5. ~(alt_get_fd <= 2)
  BY <1>4 DEF FilesInv, Searched
<1>6. alt_get_fd \notin DOMAIN held
  BY <1>4 DEF FilesInv, OpenedAs
<1>7. alt_get_fd \in 3..(MaxFd - 1) /\ alt_max_fd \in Int
  BY <1>1, <1>4, <1>5 DEF FilesInv, FilesTypeOK
<1> HIDE DEF alt_get_fd
<1> QED
  BY <1>4, <1>6, <1>7 DEF HighWater

(* One descriptor changes, and the high water does not fall.               *)
Rewritten(f, fd) ==
    /\ alt_fd_list' = [alt_fd_list EXCEPT ![f] = fd]
    /\ alt_max_fd' \in Int /\ alt_max_fd' >= alt_max_fd

(* The invariant does not depend on the other descriptors.                 *)
LEMMA OneRewritten ==
    ASSUME FilesInv, NEW f \in 0..(MaxFd - 1), NEW fd, Rewritten(f, fd), UNCHANGED lists,
           DOMAIN fd = {"dev", "mode", "nonblock", "excl", "isdev"},
           DOMAIN held' \subseteq 3..(MaxFd - 1), held' = [g \in DOMAIN held' |-> held'[g]],
           \A g \in DOMAIN held' \ {f} : g \in DOMAIN held /\ held'[g] = held[g],
           DOMAIN held \ {f} \subseteq DOMAIN held',
           f <= 2 => fd.dev # NoDev,
           f > 2 /\ f \notin DOMAIN held' => fd = Free,
           fd.excl => fd.isdev, fd.isdev => f <= alt_max_fd',
           f \in DOMAIN held' =>
              /\ fd.dev # NoDev /\ fd.mode = held'[f].mode
              /\ IF fd.isdev THEN fd.dev = held'[f].name ELSE GoesThrough(held'[f].name, fd.dev)
    PROVE  FilesInv'
<1>1. MaxFd \in Nat /\ alt_max_fd \in Int
  BY FilesAssumption DEF FilesAssumption, FilesInv, FilesTypeOK
<1>2. /\ alt_fd_list' = [g \in 0..(MaxFd - 1) |-> alt_fd_list'[g]] /\ alt_fd_list'[f] = fd
      /\ \A g \in 0..(MaxFd - 1) : g # f => alt_fd_list'[g] = alt_fd_list[g]
  BY DEF FilesInv, FilesTypeOK, Rewritten
<1>3. FilesTypeOK'
  <2>1. \A g \in 0..(MaxFd - 1) : DOMAIN alt_fd_list'[g] = {"dev", "mode", "nonblock", "excl", "isdev"}
    BY <1>2 DEF FilesInv, FilesTypeOK
  <2> QED
    BY <1>2, <2>1 DEF FilesInv, FilesTypeOK, Rewritten, lists
<1>4. Searched'
  <2>1. SUFFICES ASSUME NEW g \in 0..(MaxFd - 1)
                 PROVE  /\ g <= 2 => alt_fd_list'[g].dev # NoDev
                        /\ g > 2 /\ g \notin DOMAIN held' => alt_fd_list'[g] = Free
                        /\ alt_fd_list'[g].excl => alt_fd_list'[g].isdev
                        /\ alt_fd_list'[g].isdev => g <= alt_max_fd'
    BY DEF Searched
  <2>2. CASE g = f
    BY <1>2, <2>2
  <2>3. CASE g # f
    BY <1>1, <1>2, <2>3 DEF FilesInv, Searched, Rewritten
  <2> QED
    BY <2>2, <2>3
<1>5. OpenedAs'
  <2>1. SUFFICES ASSUME NEW g \in DOMAIN held'
                 PROVE  /\ alt_fd_list'[g].dev # NoDev /\ alt_fd_list'[g].mode = held'[g].mode
                        /\ IF alt_fd_list'[g].isdev THEN alt_fd_list'[g].dev = held'[g].name
                           ELSE GoesThrough(held'[g].name, alt_fd_list'[g].dev)
    BY DEF OpenedAs
  <2>2. CASE g = f
    BY <1>2, <2>2
  <2>3. CASE g # f
    <3>1. g \in DOMAIN held /\ held'[g] = held[g] /\ g \in 0..(MaxFd - 1)
      BY <1>1, <2>3
    <3> QED
      BY <1>2, <2>3, <3>1 DEF FilesInv, OpenedAs
  <2> QED
    BY <2>2, <2>3
<1> QED
  BY <1>3, <1>4, <1>5 DEF FilesInv

(* A call that fails, or only registers something, leaves the descriptors. *)
LEMMA NoneRewritten ==
    ASSUME FilesInv, UNCHANGED <<alt_fd_list, held>>, alt_max_fd' \in Int, alt_max_fd' >= alt_max_fd,
           alt_dev_list' \in Seq(Seq(Character)), alt_fs_list' \in Seq(Seq(Character)), registered' \in Nat
    PROVE  FilesInv'
<1>1. MaxFd \in Nat /\ alt_max_fd \in Int
  BY FilesAssumption DEF FilesAssumption, FilesInv, FilesTypeOK
<1>2. FilesTypeOK'
  BY DEF FilesInv, FilesTypeOK
<1>3. Searched'
  BY <1>1 DEF FilesInv, Searched
<1>4. OpenedAs'
  BY DEF FilesInv, OpenedAs
<1> QED
  BY <1>2, <1>3, <1>4 DEF FilesInv

(* What open() has found when it succeeds.                                 *)
LEMMA Opens ==
    ASSUME FilesInv, NEW name, OpenSucceeds(name)
    PROVE  /\ FreeFds # {} /\ Target(name) # NoDev
           /\ IsDevice(name) => Target(name) = name
           /\ ~IsDevice(name) /\ name \in Seq(Character) => GoesThrough(name, Target(name))
<1>1. Target(name) # NoDev /\ FreeFds # {}
  BY DEF OpenSucceeds
<1>2. CASE IsDevice(name)
  BY <1>1, <1>2, FindsDevice DEF Target, IsDevice
<1>3. CASE ~IsDevice(name)
  <2>1. Target(name) = alt_find_file(name)
    BY <1>3 DEF Target
  <2>2. OwnsFile(Target(name), name) /\ Target(name) \in Seq(Character) /\ Target(name) # <<>>
    BY <1>1, <2>1, FindsFile DEF NoDev
  <2> QED
    BY <1>1, <1>3, <2>2, OwnerIsDirectory
<1> QED
  BY <1>1, <1>2, <1>3

(* A failed open() may have raised the high water.                         *)
LEMMA FailureKeeps ==
    ASSUME FilesInv, NEW name, OpenFails(name), UNCHANGED lists
    PROVE  FilesInv'
<1>1. alt_max_fd \in Int
  BY DEF FilesInv, FilesTypeOK
<1>2. alt_max_fd' \in Int /\ alt_max_fd' >= alt_max_fd
  <2>1. CASE FreeFds # {}
    BY <1>1, <2>1, GetsFree DEF OpenFails
  <2>2. CASE FreeFds = {}
    BY <1>1, <2>2 DEF OpenFails
  <2> QED
    BY <2>1, <2>2
<1> QED
  BY <1>2, NoneRewritten DEF OpenFails, FilesInv, FilesTypeOK, lists

(* Every step preserves the invariant.                                     *)
LEMMA OpenKeeps ==
    ASSUME FilesInv, NEW name \in Names, NEW mode, NEW nonblock, alt_open(name, mode, nonblock)
    PROVE  FilesInv'
<1>1. CASE OpenFails(name)
  BY <1>1, FailureKeeps DEF alt_open
<1>2. CASE ~OpenFails(name)
  <2>0. PICK fd, f : fd = Opened(name, mode, nonblock) /\ f = alt_get_fd
    OBVIOUS
  <2>1. /\ OpenSucceeds(name) /\ alt_max_fd' = HighWater(f) /\ UNCHANGED lists
        /\ alt_fd_list' = [alt_fd_list EXCEPT ![f] = fd]
        /\ held' = [g \in DOMAIN held \cup {f} |-> IF g = f THEN [name |-> name, mode |-> mode] ELSE held[g]]
    BY <1>2, <2>0 DEF alt_open
  <2>2. /\ FreeFds # {} /\ DOMAIN fd = {"dev", "mode", "nonblock", "excl", "isdev"}
        /\ fd.dev # NoDev /\ fd.mode = mode /\ ~fd.excl
        /\ IF fd.isdev THEN fd.dev = name ELSE GoesThrough(name, fd.dev)
    <3>1. /\ FreeFds # {} /\ Target(name) # NoDev
          /\ IsDevice(name) => Target(name) = name
          /\ ~IsDevice(name) /\ name \in Seq(Character) => GoesThrough(name, Target(name))
      BY <2>1, Opens
    <3>2. name \in Seq(Character)
      BY FilesAssumption, NamesAreCharacters DEF FilesAssumption
    <3> QED
      BY <2>0, <3>1, <3>2 DEF Opened
  <2>3. /\ f \in 3..(MaxFd - 1) /\ f \notin DOMAIN held /\ HighWater(f) \in Int
        /\ HighWater(f) >= f /\ HighWater(f) >= alt_max_fd
    BY <2>0, <2>1, <2>2, GetsFree
  <2>4. MaxFd \in Nat /\ DOMAIN held \subseteq 3..(MaxFd - 1)
    BY FilesAssumption DEF FilesAssumption, FilesInv, FilesTypeOK
  <2>5. Rewritten(f, fd) /\ f \in 0..(MaxFd - 1) /\ f > 2
    BY <2>1, <2>3, <2>4 DEF Rewritten
  <2>6. /\ DOMAIN held' \subseteq 3..(MaxFd - 1) /\ held' = [g \in DOMAIN held' |-> held'[g]] /\ f \in DOMAIN held'
        /\ \A g \in DOMAIN held' \ {f} : g \in DOMAIN held /\ held'[g] = held[g]
        /\ DOMAIN held \ {f} \subseteq DOMAIN held'
        /\ held'[f] = [name |-> name, mode |-> mode]
    BY <2>1, <2>3, <2>4
  <2> QED
    BY <2>1, <2>2, <2>3, <2>5, <2>6, OneRewritten
<1> QED
  BY <1>1, <1>2

LEMMA RedirectKeeps ==
    ASSUME FilesInv, NEW step, NEW f \in 0..2, NEW mode, NEW next, Redirect(step, f, mode, next)
    PROVE  FilesInv'
<1>1. CASE OpenFails(StdDevices[f])
  BY <1>1, FailureKeeps DEF Redirect
<1>2. CASE ~OpenFails(StdDevices[f])
  <2>0. PICK fd : fd = Opened(StdDevices[f], mode, FALSE)
    OBVIOUS
  <2>1. /\ OpenSucceeds(StdDevices[f]) /\ alt_max_fd' = HighWater(alt_get_fd) /\ UNCHANGED <<lists, held>>
        /\ alt_fd_list' = [alt_fd_list EXCEPT ![f] = fd]
    BY <1>2, <2>0 DEF Redirect
  <2>2. /\ FreeFds # {} /\ DOMAIN fd = {"dev", "mode", "nonblock", "excl", "isdev"}
        /\ fd.dev # NoDev /\ ~fd.excl
    <3>1. FreeFds # {} /\ Target(StdDevices[f]) # NoDev
      BY <2>1, Opens
    <3> QED
      BY <2>0, <3>1 DEF Opened
  <2>3. /\ alt_get_fd \in 3..(MaxFd - 1) /\ alt_max_fd' \in Int
        /\ alt_max_fd' >= alt_get_fd /\ alt_max_fd' >= alt_max_fd
    BY <2>0, <2>1, <2>2, GetsFree
  <2>4. MaxFd \in Nat /\ MaxFd > 3 /\ DOMAIN held \subseteq 3..(MaxFd - 1) /\ held = [g \in DOMAIN held |-> held[g]]
    BY FilesAssumption DEF FilesAssumption, FilesInv, FilesTypeOK
  <2>5. Rewritten(f, fd) /\ f \in 0..(MaxFd - 1) /\ f <= 2 /\ f <= alt_max_fd' /\ f \notin DOMAIN held'
    BY <2>1, <2>3, <2>4 DEF Rewritten
  <2> QED
    BY <2>1, <2>2, <2>4, <2>5, OneRewritten
<1> QED
  BY <1>1, <1>2

LEMMA CloseKeeps ==
    ASSUME FilesInv, NEW f \in 0..(MaxFd - 1), alt_close(f)
    PROVE  FilesInv'
<1>1. MaxFd \in Nat /\ alt_max_fd \in Int /\ DOMAIN held \subseteq 3..(MaxFd - 1) /\ held = [g \in DOMAIN held |-> held[g]]
  BY FilesAssumption DEF FilesAssumption, FilesInv, FilesTypeOK
<1>2. held' = [g \in DOMAIN held \ {f} |-> held[g]] /\ UNCHANGED <<alt_max_fd, lists>>
  BY DEF alt_close
<1>3. CASE f > 2
  <2>1. Rewritten(f, Free)
    BY <1>1, <1>2, <1>3 DEF Rewritten, alt_close, Released
  <2>2. /\ DOMAIN Free = {"dev", "mode", "nonblock", "excl", "isdev"} /\ ~Free.excl /\ ~Free.isdev
    BY DEF Free
  <2>3. /\ DOMAIN held' \subseteq 3..(MaxFd - 1) /\ held' = [g \in DOMAIN held' |-> held'[g]] /\ f \notin DOMAIN held'
        /\ \A g \in DOMAIN held' \ {f} : g \in DOMAIN held /\ held'[g] = held[g]
        /\ DOMAIN held \ {f} \subseteq DOMAIN held'
    BY <1>1, <1>2
  <2> QED
    BY <1>2, <1>3, <2>1, <2>2, <2>3, OneRewritten
<1>4. CASE ~(f > 2)
  <2>1. f \notin DOMAIN held
    BY <1>1, <1>4
  <2>2. DOMAIN held \ {f} = DOMAIN held
    BY <2>1
  <2>3. UNCHANGED <<alt_fd_list, held>>
    BY <1>1, <1>2, <1>4, <2>2 DEF alt_close
  <2> QED
    BY <1>1, <1>2, <2>3, NoneRewritten DEF FilesInv, FilesTypeOK, lists
<1> QED
  BY <1>3, <1>4

(* Flags that keep device and mode, and a lock only for a device.          *)
LEMMA FlagsKeep ==
    ASSUME FilesInv, NEW f \in 0..(MaxFd - 1), NEW flags, SetFlags(f, flags),
           DOMAIN flags = {"dev", "mode", "nonblock", "excl", "isdev"},
           flags.dev = alt_fd_list[f].dev, flags.mode = alt_fd_list[f].mode,
           flags.isdev = alt_fd_list[f].isdev, flags.excl => flags.isdev
    PROVE  FilesInv'
<1>1. MaxFd \in Nat /\ alt_max_fd \in Int /\ DOMAIN held \subseteq 3..(MaxFd - 1) /\ held = [g \in DOMAIN held |-> held[g]]
  BY FilesAssumption DEF FilesAssumption, FilesInv, FilesTypeOK
<1>2. Rewritten(f, flags) /\ UNCHANGED <<alt_max_fd, lists, held>> /\ f \in DOMAIN held \cup 0..2
  BY <1>1 DEF Rewritten, SetFlags, InUse
<1>3. f <= 2 => flags.dev # NoDev
  BY DEF FilesInv, Searched
<1>4. flags.isdev => f <= alt_max_fd'
  BY <1>2 DEF FilesInv, Searched
<1>5. f > 2 => f \in DOMAIN held'
  BY <1>2
<1>6. f \in DOMAIN held' =>
              /\ flags.dev # NoDev /\ flags.mode = held'[f].mode
              /\ IF flags.isdev THEN flags.dev = held'[f].name ELSE GoesThrough(held'[f].name, flags.dev)
  BY <1>2 DEF FilesInv, OpenedAs
<1> QED
  BY <1>1, <1>2, <1>3, <1>4, <1>5, <1>6, OneRewritten

LEMMA SysInitKeeps ==
    ASSUME FilesInv, alt_sys_init
    PROVE  FilesInv'
<1>1. /\ SysDevices \in Seq(Seq(Character)) /\ Filesystems \in Seq(Seq(Character)) /\ registered \in Nat /\ alt_max_fd \in Int
      /\ alt_dev_list \in Seq(Seq(Character)) /\ alt_fs_list \in Seq(Seq(Character))
  <2>1. Seq(Seq(STRING) \ {<<>>}) \subseteq Seq(Seq(Character)) /\ Seq(Seq(STRING)) \subseteq Seq(Seq(Character))
    <3>1. Seq(STRING) \subseteq Seq(Character)
      BY NamesAreCharacters
    <3> QED
      BY <3>1
  <2> QED
    BY <2>1, FilesAssumption DEF FilesAssumption, FilesInv, FilesTypeOK
<1>2. \A name \in Seq(Character), list \in Seq(Seq(Character)) : Registered(list, name) \in Seq(Seq(Character))
  <2>1. SUFFICES ASSUME NEW name \in Seq(Character), NEW list \in Seq(Seq(Character))
                 PROVE  Registered(list, name) \in Seq(Seq(Character))
    OBVIOUS
  <2>2. <<name>> \in Seq(Seq(Character))
    OBVIOUS
  <2>3. <<name>> \o list \in Seq(Seq(Character))
    BY <2>2, ConcatProperties
  <2> QED
    BY <2>3 DEF Registered
<1>3. /\ alt_dev_list' \in Seq(Seq(Character)) /\ alt_fs_list' \in Seq(Seq(Character)) /\ registered' \in Nat
  <2>1. CASE registered < Len(SysDevices) /\ alt_dev_list' = Registered(alt_dev_list, SysDevices[registered + 1])
             /\ registered' = registered + 1 /\ UNCHANGED alt_fs_list
    <3>1. SysDevices[registered + 1] \in Seq(Character)
      BY <1>1, <2>1
    <3> QED
      BY <1>1, <1>2, <2>1, <3>1
  <2>2. CASE \E i \in DOMAIN Filesystems :
                /\ alt_fs_list' = Registered(alt_fs_list, Filesystems[i])
                /\ registered' = registered + 1 /\ UNCHANGED alt_dev_list
    <3>1. PICK i \in DOMAIN Filesystems : alt_fs_list' = Registered(alt_fs_list, Filesystems[i])
      BY <2>2
    <3>2. Filesystems[i] \in Seq(Character)
      BY <1>1
    <3> QED
      BY <1>1, <1>2, <2>2, <3>1, <3>2
  <2>3. CASE UNCHANGED lists
    BY <1>1, <2>3 DEF lists
  <2> QED
    BY <2>1, <2>2, <2>3 DEF alt_sys_init
<1> QED
  BY <1>1, <1>3, NoneRewritten DEF alt_sys_init

LEMMA FilesStep == FilesInv /\ [FilesNext]_files_vars => FilesInv'
<1> SUFFICES ASSUME FilesInv, [FilesNext]_files_vars PROVE FilesInv'
  OBVIOUS
<1>1. CASE alt_sys_init
  BY <1>1, SysInitKeeps
<1>2. CASE alt_io_redirect
  BY <1>2, RedirectKeeps DEF alt_io_redirect
<1>3. ASSUME NEW name \in Names, NEW mode \in Modes, NEW nonblock \in BOOLEAN, alt_open(name, mode, nonblock)
      PROVE  FilesInv'
  BY <1>3, OpenKeeps
<1>4. ASSUME NEW f \in 0..(MaxFd - 1), alt_close(f)
      PROVE  FilesInv'
  BY <1>4, CloseKeeps
<1>5. ASSUME NEW f \in 0..(MaxFd - 1),
             \/ alt_fd_lock(f) \/ alt_fd_unlock(f)
             \/ \E nonblock \in BOOLEAN : alt_fcntl(f, nonblock)
      PROVE  FilesInv'
  <2>1. DOMAIN alt_fd_list[f] = {"dev", "mode", "nonblock", "excl", "isdev"} /\ (alt_fd_list[f].excl => alt_fd_list[f].isdev)
    BY DEF FilesInv, FilesTypeOK, Searched
  <2>2. CASE alt_fd_lock(f)
    <3> DEFINE flags == [alt_fd_list[f] EXCEPT !.excl = TRUE]
    <3>1. SetFlags(f, flags) /\ alt_fd_list[f].isdev
      BY <2>2 DEF alt_fd_lock
    <3>2. /\ DOMAIN flags = {"dev", "mode", "nonblock", "excl", "isdev"} /\ flags.dev = alt_fd_list[f].dev
          /\ flags.mode = alt_fd_list[f].mode /\ flags.isdev = alt_fd_list[f].isdev
      BY <2>1
    <3> HIDE DEF flags
    <3> QED
      BY <3>1, <3>2, FlagsKeep
  <2>3. CASE alt_fd_unlock(f)
    <3> DEFINE flags == [alt_fd_list[f] EXCEPT !.excl = FALSE]
    <3>1. SetFlags(f, flags)
      BY <2>3 DEF alt_fd_unlock
    <3>2. /\ DOMAIN flags = {"dev", "mode", "nonblock", "excl", "isdev"} /\ flags.dev = alt_fd_list[f].dev
          /\ flags.mode = alt_fd_list[f].mode /\ flags.isdev = alt_fd_list[f].isdev /\ ~flags.excl
      BY <2>1
    <3> HIDE DEF flags
    <3> QED
      BY <3>1, <3>2, FlagsKeep
  <2>4. ASSUME NEW nonblock \in BOOLEAN, alt_fcntl(f, nonblock)
        PROVE  FilesInv'
    <3> DEFINE flags == [alt_fd_list[f] EXCEPT !.nonblock = nonblock]
    <3>1. SetFlags(f, flags)
      BY <2>4 DEF alt_fcntl
    <3>2. /\ DOMAIN flags = {"dev", "mode", "nonblock", "excl", "isdev"} /\ flags.dev = alt_fd_list[f].dev
          /\ flags.mode = alt_fd_list[f].mode /\ flags.isdev = alt_fd_list[f].isdev /\ flags.excl = alt_fd_list[f].excl
      BY <2>1
    <3> HIDE DEF flags
    <3> QED
      BY <2>1, <3>1, <3>2, FlagsKeep
  <2> QED
    BY <1>5, <2>2, <2>3, <2>4
<1>6. CASE UNCHANGED files_vars
  BY <1>6, NoneRewritten DEF files_vars, FilesInv, FilesTypeOK
<1> QED
  BY <1>1, <1>2, <1>3, <1>4, <1>5, <1>6 DEF FilesNext

(* What main() starts with.                                                *)
LEMMA FilesStart == FilesInit => FilesInv
<1> SUFFICES ASSUME FilesInit PROVE FilesInv
  OBVIOUS
<1>1. MaxFd \in Nat /\ MaxFd > 3
  BY FilesAssumption DEF FilesAssumption
<1>2. /\ alt_fd_list = [f \in 0..(MaxFd - 1) |-> IF f <= 2 THEN [Free EXCEPT !.dev = Null] ELSE Free]
      /\ alt_max_fd = -1 /\ alt_dev_list = <<Null>> /\ alt_fs_list = <<>> /\ registered = 0
      /\ held = [f \in {} |-> Free]
  BY DEF FilesInit
<1>3. /\ \A f \in 0..(MaxFd - 1) : f > 2 => alt_fd_list[f] = Free
      /\ \A f \in 0..(MaxFd - 1) : f <= 2 => alt_fd_list[f] = [Free EXCEPT !.dev = Null]
  BY <1>1, <1>2
<1>4. /\ DOMAIN Free = {"dev", "mode", "nonblock", "excl", "isdev"} /\ ~Free.excl /\ ~Free.isdev
      /\ DOMAIN [Free EXCEPT !.dev = Null] = {"dev", "mode", "nonblock", "excl", "isdev"}
      /\ ~[Free EXCEPT !.dev = Null].excl /\ ~[Free EXCEPT !.dev = Null].isdev
      /\ [Free EXCEPT !.dev = Null].dev = Null
  BY DEF Free
<1>5. Null # NoDev
  BY DEF Null, NoDev
<1>6. FilesTypeOK
  <2>1. <<Null>> \in Seq(Seq(Character)) /\ <<>> \in Seq(Seq(Character))
    <3> DEFINE S == Seq(Character)
    <3>a. ASSUME NEW C, NEW a \in C, NEW b \in C PROVE <<a, b>> \in Seq(C)
      OBVIOUS
    <3>b. "/" \in Character /\ "n" \in Character
      BY DEF Character
    <3>1. Null \in S
      BY <3>a, <3>b, Zenon DEF Null
    <3> HIDE DEF S
    <3>2. <<Null>> \in Seq(S) /\ <<>> \in Seq(S)
      BY <3>1
    <3> QED
      BY <3>2 DEF S
  <2>2. \A f \in 0..(MaxFd - 1) : DOMAIN alt_fd_list[f] = {"dev", "mode", "nonblock", "excl", "isdev"}
    BY <1>1, <1>3, <1>4
  <2> QED
    BY <1>1, <1>2, <2>1, <2>2 DEF FilesTypeOK
<1>7. Searched
  BY <1>1, <1>3, <1>4, <1>5 DEF Searched
<1>8. OpenedAs
  BY <1>2 DEF OpenedAs
<1> QED
  BY <1>6, <1>7, <1>8 DEF FilesInv

LEMMA FilesInvariant == FilesSpec => []FilesInv
<1>1. FilesInv /\ [FilesNext]_files_vars => FilesInv'
  BY FilesStep
<1> QED
  BY <1>1, FilesStart, PTL DEF FilesSpec

(* A call on a descriptor that is held, or on -1.                          *)
LEMMA HeldAreAnswered == FilesInv => CallsAnswered
<1> SUFFICES ASSUME FilesInv, NEW f \in {-1} \cup DOMAIN held
             PROVE  /\ Answer("isatty", f) = "1" <=> Answer("fstat", f) = "_IFCHR"
                    /\ f = -1 => \A op \in DOMAIN Refused : Answer(op, f) # "driver"
                    /\ f # -1 => LET provided == Provides[alt_fd_list[f].dev] IN
                          /\ Answer("read", f) = "driver" <=> held[f].mode # "O_WRONLY" /\ "read" \in provided
                          /\ Answer("write", f) = "driver" <=> held[f].mode # "O_RDONLY" /\ "write" \in provided
  BY DEF CallsAnswered
<1>1. CASE f = -1
  BY <1>1 DEF Answer
<1>2. CASE f # -1
  <2>1. f \in DOMAIN held /\ ~(f < 0)
    BY <1>2, FilesAssumption DEF FilesInv, FilesTypeOK, FilesAssumption
  <2>2. alt_fd_list[f].mode = held[f].mode
    BY <2>1 DEF FilesInv, OpenedAs
  <2>3. \A op \in {"read", "write", "fstat", "isatty"} :
           Answer(op, f) = IF Reaches(op, alt_fd_list[f]) THEN "driver" ELSE Refused[op]
    BY <2>1 DEF Answer
  <2>4. /\ Refused["read"] = "EACCES" /\ Refused["write"] = "EACCES"
        /\ Refused["fstat"] = "_IFCHR" /\ Refused["isatty"] = "1"
    BY DEF Refused
  <2>5. Reaches("isatty", alt_fd_list[f]) <=> Reaches("fstat", alt_fd_list[f])
    BY DEF Reaches
  <2>6. /\ Reaches("read", alt_fd_list[f]) <=> held[f].mode # "O_WRONLY" /\ "read" \in Provides[alt_fd_list[f].dev]
        /\ Reaches("write", alt_fd_list[f]) <=> held[f].mode # "O_RDONLY" /\ "write" \in Provides[alt_fd_list[f].dev]
    BY <2>2 DEF Reaches, MayRead, MayWrite
  <2>7. Answer("isatty", f) = "1" <=> Answer("fstat", f) = "_IFCHR"
    BY <2>3, <2>4, <2>5
  <2>8. /\ Answer("read", f) = "driver" <=> Reaches("read", alt_fd_list[f])
        /\ Answer("write", f) = "driver" <=> Reaches("write", alt_fd_list[f])
    BY <2>3, <2>4
  <2> QED
    BY <1>2, <2>6, <2>7, <2>8
<1> QED
  BY <1>1, <1>2

(* A descriptor is allocated exactly as long as the program holds it, on   *)
(* the device of that name or on a filesystem whose mount point is a       *)
(* directory of the name, and carries nothing of the one that had it       *)
(* before; a call on it gets to the driver in the direction it was opened  *)
(* for and no other (alt_open.c:105-171, alt_close.c:64-101,               *)
(* alt_read.c:82-123, alt_write.c:92-136): for every number of             *)
(* descriptors, every list of devices, filesystems and names.              *)
THEOREM DescriptorsAreTheirs == FilesSpec => []FilesKept
<1>1. FilesInv => DescriptorsHeld
  <2> SUFFICES ASSUME FilesInv, NEW f \in 3..(MaxFd - 1)
               PROVE  IF f \in DOMAIN held
                      THEN IF alt_fd_list[f].isdev THEN alt_fd_list[f].dev = held[f].name
                           ELSE GoesThrough(held[f].name, alt_fd_list[f].dev)
                      ELSE alt_fd_list[f] = Free
    BY DEF DescriptorsHeld
  <2>1. f \in 0..(MaxFd - 1) /\ f > 2
    BY FilesAssumption DEF FilesAssumption
  <2> QED
    BY <2>1 DEF FilesInv, Searched, OpenedAs
<1>2. FilesInv => FilesKept
  BY <1>1, HeldAreAnswered DEF FilesKept
<1> QED
  BY <1>2, FilesInvariant, PTL

(* What open() gives out for a device is refused as long as one of the     *)
(* descriptors has the lock.                                               *)
LEMMA OpenRespectsLocks ==
    ASSUME FilesInv, NEW name, NEW mode, NEW nonblock, alt_open(name, mode, nonblock),
           NEW f \in DOMAIN held' \ DOMAIN held, NEW g \in 0..(MaxFd - 1),
           alt_fd_list[g].excl, alt_fd_list'[f].isdev
    PROVE  alt_fd_list[g].dev # alt_fd_list'[f].dev
<1>1. /\ OpenSucceeds(name)
      /\ alt_fd_list' = [alt_fd_list EXCEPT ![alt_get_fd] = Opened(name, mode, nonblock)]
      /\ DOMAIN held' = DOMAIN held \cup {alt_get_fd}
  BY DEF alt_open, OpenFails
<1>2. f = alt_get_fd /\ FreeFds # {}
  BY <1>1 DEF OpenSucceeds
<1>3. /\ f \in 3..(MaxFd - 1) /\ alt_fd_list[f].dev = NoDev
      /\ HighWater(f) \in Int /\ HighWater(f) >= alt_max_fd
  BY <1>2, GetsFree
<1>4. MaxFd \in Nat /\ alt_max_fd \in Int /\ f \in DOMAIN alt_fd_list
  BY <1>3, FilesAssumption DEF FilesAssumption, FilesInv, FilesTypeOK
<1>5. alt_fd_list'[f] = Opened(name, mode, nonblock)
  BY <1>1, <1>2, <1>4
<1>6. alt_fd_list'[f].dev = Target(name) /\ IsDevice(name) /\ Target(name) # NoDev
  BY <1>1, <1>5 DEF Opened, OpenSucceeds
<1>7. ~alt_file_locked(Target(name))
  BY <1>1, <1>6 DEF OpenSucceeds
<1>8. CASE g = f
  BY <1>3, <1>6, <1>8
<1>9. CASE g # f
  <2>1. g <= alt_max_fd
    BY DEF FilesInv, Searched
  <2>2. g \in (0..HighWater(f)) \ {f}
    BY <1>3, <1>4, <1>9, <2>1
  <2> QED
    BY <1>2, <1>6, <1>7, <2>2 DEF alt_file_locked
<1> QED
  BY <1>8, <1>9

(* As long as a descriptor of a device has the lock, no open() of that     *)
(* device succeeds (alt_open.c:63-79, 139-142, alt_fd_lock.c:54-88),       *)
(* although the search for locks stops at the highest descriptor that was  *)
(* ever allocated, and whichever calls of open() failed before.            *)
THEOREM LockIsExclusive == FilesSpec => LockExcludes
<1>1. FilesInv /\ [FilesNext]_files_vars =>
         [\A f \in DOMAIN held' \ DOMAIN held :
             \A g \in 0..(MaxFd - 1) :
                alt_fd_list[g].excl /\ alt_fd_list'[f].isdev => alt_fd_list[g].dev # alt_fd_list'[f].dev]_files_vars
  <2> SUFFICES ASSUME FilesInv, FilesNext,
                      NEW f \in DOMAIN held' \ DOMAIN held, NEW g \in 0..(MaxFd - 1),
                      alt_fd_list[g].excl, alt_fd_list'[f].isdev
               PROVE  alt_fd_list[g].dev # alt_fd_list'[f].dev
    OBVIOUS
  <2>1. ASSUME NEW name \in Names, NEW mode \in Modes, NEW nonblock \in BOOLEAN, alt_open(name, mode, nonblock)
        PROVE  alt_fd_list[g].dev # alt_fd_list'[f].dev
    BY <2>1, OpenRespectsLocks
  <2>2. alt_sys_init => UNCHANGED held
    BY DEF alt_sys_init
  <2>3. alt_io_redirect => UNCHANGED held
    BY DEF alt_io_redirect, Redirect, OpenFails
  <2>4. \A h \in 0..(MaxFd - 1) : alt_close(h) => DOMAIN held' \subseteq DOMAIN held
    BY DEF alt_close
  <2>5. \A h \in 0..(MaxFd - 1) : \A flags : SetFlags(h, flags) => UNCHANGED held
    BY DEF SetFlags
  <2>6. \A h \in 0..(MaxFd - 1) :
           alt_fd_lock(h) \/ alt_fd_unlock(h) \/ (\E nonblock \in BOOLEAN : alt_fcntl(h, nonblock)) => UNCHANGED held
    BY <2>5 DEF alt_fd_lock, alt_fd_unlock, alt_fcntl
  <2> QED
    BY <2>1, <2>2, <2>3, <2>4, <2>6 DEF FilesNext
<1> QED
  BY <1>1, FilesInvariant, PTL DEF FilesSpec, LockExcludes

--------------------------------------------------------------------------------
(***************************************************************************)
(* Time.                                                                   *)
(***************************************************************************)
TimeSteps == {"boot", "idle", "start_lo", "start_hi", "start", "snap_lo", "snap_hi"}
Timers == [lo : Nat, hi : Nat, count : Nat, run : BOOLEAN, cont : BOOLEAN, to : BOOLEAN, snap : Nat]
Times == [sec : Nat, usec : Nat]

TimeTypeOK ==
    /\ timer_period \in TimerPeriods /\ role \in Roles /\ timer \in Timers
    /\ tick_rate \in Nat /\ systicks \in Nat /\ timeouts \in Nat /\ ts_freq \in BOOLEAN
    /\ resettime \in [sec : Int, usec : Int, zone : {0, 1}] /\ tstep \in TimeSteps
    /\ set_to \in [time : Times, zone : {0, 1}, when : Nat]
    /\ started \in [clocks : Int, read : Int]

(* The driver that the build asks for has the timer, and no other; a       *)
(* timeout of the system clock is counted as soon as it was served.        *)
InCharge ==
    /\ tick_rate = (IF tstep # "boot" /\ role = "sys_clk" THEN TimerFreq(timer_period) ELSE 0)
    /\ ts_freq <=> tstep # "boot" /\ role = "timestamp"
    /\ ~ts_freq => tstep \in {"boot", "idle"}
    /\ tstep = "boot" => ~timer.run /\ answer = NoAnswer /\ started.clocks = -1
    /\ role = "sys_clk" =>
          /\ timeouts <= MaxTimeouts /\ timeouts = systicks + (IF timer.to THEN 1 ELSE 0)
          /\ timer.lo = 0 /\ timer.hi = 0 /\ timer.count = 0

(* The time at reset is that set last, less what had elapsed then.         *)
SetBack ==
    /\ Micros(resettime) + set_to.when = Micros(set_to.time) /\ resettime.zone = set_to.zone
    /\ set_to.when <= systicks * PeriodUs

(* The counter runs down from full scale once and rests there.             *)
Stamping ==
    role = "timestamp" =>
        /\ ~timer.cont
        /\ timer.run => tstep \in {"idle", "snap_lo", "snap_hi"} /\ started.clocks # -1
        /\ tstep \in {"start_hi", "start"} => timer.lo = FullHalf
        /\ tstep = "start" => timer.hi = FullHalf /\ timer.count = FullScale
        /\ tstep \in {"idle", "snap_lo", "snap_hi"} /\ started.clocks # -1 =>
              /\ timer.lo = FullHalf /\ timer.hi = FullHalf
              /\ started.clocks >= 0 /\ timer.count = FullScale - started.clocks
        /\ tstep \in {"snap_lo", "snap_hi"} /\ started.read # -1 => timer.snap = FullScale - started.read
        /\ tstep = "snap_hi" => answer = [op |-> "lower", ret |-> timer.snap % HalfRange]

TimeInv == TimeTypeOK /\ InCharge /\ SetBack /\ Stamping /\ TimeKept

--------------------------------------------------------------------------------
(* Quotient and remainder are known by their bounds.                       *)
LEMMA QuotientUnique ==
    ASSUME NEW q \in Nat, NEW r \in Nat, NEW s \in Nat, r < s
    PROVE  (q * s + r) \div s = q /\ (q * s + r) % s = r
<1> DEFINE x == q * s + r
           k == x \div s
<1>1. x \in Nat /\ s > 0 /\ q * s \in Nat /\ q * s <= x /\ x < q * s + s /\ (q + 1) * s = q * s + s
  OBVIOUS
<1>2. k \in Nat /\ k * s \in Nat /\ k * s <= x /\ x < k * s + s /\ (k + 1) * s = k * s + s
  <2>1. k \in Nat /\ k * s <= x /\ x < (k + 1) * s
    BY <1>1, QuotientBounds
  <2> HIDE DEF k, x
  <2> QED
    BY <2>1
<1>3. x = k * s + (x % s)
  BY <1>1
<1> HIDE DEF x, k
<1>4. q < k => q * s + s <= k * s
  BY <1>1, <1>2, ProductsInOrder
<1>5. k < q => k * s + s <= q * s
  BY <1>1, <1>2, ProductsInOrder
<1>6. k = q
  BY <1>1, <1>2, <1>4, <1>5
<1>7. x % s = r
  <2>1. x = q * s + (x % s) /\ x % s \in Int
    BY <1>1, <1>3, <1>6
  <2> HIDE DEF x
  <2> QED
    BY <2>1, <1>1 DEF x
<1> QED
  BY <1>6, <1>7 DEF x, k

(* A quotient that is rounded up is exact if there is no remainder.        *)
LEMMA ExactCeiling ==
    ASSUME NEW n \in Nat, NEW d \in Nat, n > 0, d > 0, n % d = 0
    PROVE  LET c == (n + (d - 1)) \div d IN c \in Nat /\ c > 0 /\ c * d = n
<1> DEFINE q == n \div d
<1>1. q \in Nat /\ n = q * d + (n % d)
  OBVIOUS
<1>2. n = q * d /\ q > 0
  <2>1. n = q * d
    BY <1>1
  <2>2. q = 0 => n = 0
    BY <2>1
  <2> QED
    BY <1>1, <2>1, <2>2
<1> HIDE DEF q
<1>3. (q * d + (d - 1)) \div d = q
  BY <1>1, QuotientUnique
<1> QED
  BY <1>1, <1>2, <1>3

(* A larger factor, a larger product.                                      *)
LEMMA ProductsOrdered ==
    ASSUME NEW a \in Nat, NEW b \in Nat, NEW p \in Nat, a <= b
    PROVE  a * p <= b * p
<1>1. a * p \in Nat /\ b * p \in Nat
  OBVIOUS
<1>2. CASE a < b
  <2>1. (a + 1) * p <= b * p
    BY <1>2, ProductsInOrder
  <2>2. (a + 1) * p = a * p + p
    OBVIOUS
  <2> DEFINE x == a * p
             y == b * p
             z == (a + 1) * p
  <2>3. x \in Nat /\ y \in Nat /\ z = x + p /\ z <= y
    BY <1>1, <2>1, <2>2
  <2> HIDE DEF x, y, z
  <2>4. x <= y
    BY <2>3
  <2> QED
    BY <2>4 DEF x, y
<1>3. CASE a = b
  BY <1>1, <1>3
<1> QED
  BY <1>2, <1>3

LEMMA ProductsAreNat == \A a, b \in Nat : a * b \in Nat
  OBVIOUS

LEMMA TimeConstants ==
    /\ US \in Nat /\ US > 0 /\ MS \in Nat /\ MS > 0 /\ US % MS = 0
    /\ WordRange \in Nat /\ WordRange > 0 /\ HalfRange \in Nat /\ HalfRange > 0
    /\ LoopsPerUs \in Nat /\ LoopsPerUs > 0 /\ LoopsPerUs <= INT_MAX
    /\ SetWithin \in Nat /\ MaxTimeouts \in Nat /\ MaxTimeouts < WordRange
  BY TimeAssumption

(* The rate is the number of periods in a second.                          *)
LEMMA RateOfPeriod ==
    ASSUME timer_period \in TimerPeriods
    PROVE  /\ TimerFreq(timer_period) \in Nat /\ TimerFreq(timer_period) > 0
           /\ PeriodUs \in Nat /\ PeriodUs > 0
           /\ TimerFreq(timer_period) * PeriodUs = US
<1> PICK d, u : d = timer_period[1] /\ u = timer_period[2]
  OBVIOUS
<1>1. /\ d \in Nat /\ d > 0 /\ u \in {"us", "ms", "s"}
      /\ u = "us" => US % d = 0
      /\ u = "ms" => MS % d = 0
      /\ u = "s" => d = 1
  BY PeriodAssumption
<1>2. CASE u = "us"
  <2>1. TimerFreq(timer_period) = (US + (d - 1)) \div d /\ PeriodUs = d * 1
    BY <1>2 DEF TimerFreq, PeriodUs
  <2>2. LET c == (US + (d - 1)) \div d IN c \in Nat /\ c > 0 /\ c * d = US
    BY <1>1, <1>2, TimeConstants, ExactCeiling
  <2> DEFINE c == (US + (d - 1)) \div d
  <2>3. c \in Nat /\ c > 0 /\ c * d = US
    BY <2>2
  <2> HIDE DEF c
  <2>4. TimerFreq(timer_period) = c /\ PeriodUs = d
    BY <1>1, <2>1 DEF c
  <2> QED
    BY <1>1, <2>3, <2>4
<1>3. CASE u = "ms"
  <2> DEFINE c == (MS + (d - 1)) \div d
             m == US \div MS
  <2>1. TimerFreq(timer_period) = c /\ PeriodUs = d * m
    BY <1>3 DEF TimerFreq, PeriodUs
  <2>2. c \in Nat /\ c > 0 /\ c * d = MS
    BY <1>1, <1>3, TimeConstants, ExactCeiling
  <2>3. m \in Nat /\ US = m * MS + (US % MS)
    BY TimeConstants
  <2>4. US = m * MS /\ m > 0
    <3>1. US = m * MS
      BY <2>3, TimeConstants
    <3>2. m = 0 => US = 0
      BY <3>1, TimeConstants
    <3> QED
      BY <2>3, <3>1, <3>2, TimeConstants
  <2> HIDE DEF c, m
  <2>5. c * (d * m) = (c * d) * m
    BY <1>1, <2>2, <2>3
  <2>6. d * m \in Nat /\ d * m > 0
    BY <1>1, <2>3, <2>4
  <2>7. MS * m = US
    BY <2>3, <2>4, TimeConstants
  <2> QED
    BY <2>1, <2>2, <2>5, <2>6, <2>7
<1>4. CASE u = "s"
  <2>1. TimerFreq(timer_period) = 1 /\ PeriodUs = d * US
    BY <1>4 DEF TimerFreq, PeriodUs
  <2> QED
    BY <1>1, <1>4, <2>1, TimeConstants
<1> QED
  BY <1>1, <1>2, <1>3, <1>4

(* The loops of gettimeofday() on a time that is not negative.             *)
LEMMA NormalKeeps ==
    ASSUME NEW sec \in Int, NEW usec \in Int, sec * US + usec >= 0
    PROVE  LET t == Normal(sec, usec) IN
           /\ t.sec \in Nat /\ t.usec \in 0..(US - 1) /\ t.sec * US + t.usec = sec * US + usec
<1> DEFINE q == usec \div US
           r == usec % US
           v == US
<1>1. v \in Nat /\ v > 0
  BY TimeConstants
<1>2. q \in Int /\ r \in 0..(v - 1) /\ usec = q * v + r
  BY <1>1
<1>3. Normal(sec, usec) = [sec |-> sec + q, usec |-> r]
  <2> DEFINE z == sec * US + usec
  <2>1. z \in Int /\ z >= 0
    BY <1>1
  <2>2. ~(z < 0)
    <3> HIDE DEF z
    <3> QED
      BY <2>1
  <2> QED
    BY <2>2 DEF Normal
<1> HIDE DEF q, r, v
<1>4. (sec + q) * v + r = sec * v + usec /\ sec * v + usec \in Int
  BY <1>1, <1>2
<1>5. (sec + q) * v + r >= 0
  BY <1>4 DEF v
<1>6. sec + q >= 0
  <2> DEFINE k == sec + q
  <2>1. k \in Int /\ r < v /\ r \in Int
    BY <1>1, <1>2
  <2>2. k * v + r >= 0
    BY <1>5
  <2>3. ASSUME k < 0 PROVE FALSE
    <3>1. (-1 - k) \in Nat /\ (-1 - k) * v \in Nat
      BY <1>1, <2>1, <2>3
    <3>2. (-1 - k) * v = -v - k * v
      BY <1>1, <2>1
    <3> DEFINE a == k * v
    <3>3. a \in Int /\ -v - a >= 0 /\ a + r >= 0
      BY <1>1, <2>1, <2>2, <3>1, <3>2
    <3> HIDE DEF a, k
    <3> QED
      BY <1>1, <2>1, <3>3
  <2> QED
    BY <2>1, <2>3
<1> QED
  BY <1>1, <1>2, <1>3, <1>4, <1>6 DEF v

(* The rounds of the delay loop for a time that is not a whole number of   *)
(* the longest loops.                                                      *)
LEMMA RoundsBounded ==
    ASSUME NEW us \in Nat, us # 0 => us % UsPerLoop # 0
    PROVE  \E extra \in 0..(us \div UsPerLoop) * (INT_MAX % LoopsPerUs) :
              Rounds(us) = IF us = 0 THEN 1 ELSE us * LoopsPerUs + extra
<1> DEFINE L == LoopsPerUs
           M == INT_MAX
           W == WordRange
           u == UsPerLoop
           over == INT_MAX % LoopsPerUs
           b == us \div UsPerLoop
           rest == us % UsPerLoop
<1>1. L \in Nat /\ L > 0 /\ W \in Nat /\ W > 0 /\ M \in Nat /\ L <= M /\ M < W
  <2>1. W \in Nat /\ W \div 2 \in Int /\ 2 * (W \div 2) <= W /\ W > 0
    BY TimeConstants
  <2>2. M = W \div 2 - 1 /\ M \in Int
    BY <2>1 DEF INT_MAX
  <2> HIDE DEF M, W
  <2> DEFINE h == W \div 2
  <2> HIDE DEF h
  <2>3. h \in Int /\ 2 * h <= W /\ M = h - 1
    BY <2>1, <2>2 DEF h
  <2> QED
    BY <2>1, <2>2, <2>3, TimeConstants DEF M, W
<1>2. u \in Nat /\ u > 0 /\ over \in Nat /\ M = u * L + over
  <2>1. u = M \div L /\ over = M % L
    BY DEF UsPerLoop
  <2> HIDE DEF u, over, M, L
  <2>2. u \in Nat /\ over \in Nat /\ over < L /\ M = u * L + over
    BY <1>1, <2>1
  <2>3. u = 0 => M = over
    BY <1>1, <2>2
  <2> QED
    BY <1>1, <2>2, <2>3
<1>3. b \in Nat /\ rest \in Nat /\ rest < u /\ us = b * u + rest
  <2>1. b = us \div u /\ rest = us % u
    OBVIOUS
  <2> HIDE DEF u, b, rest
  <2> QED
    BY <1>2, <2>1
<1>4. us # 0 => rest # 0
  OBVIOUS
<1>5. Rounds(us) = b * M + (IF CWord((us - b * u) * L) # 0 THEN CWord((us - b * u) * L)
                            ELSE IF b > 0 THEN W ELSE 1)
  BY DEF Rounds
<1>6. CWord(rest * L) = rest * L /\ rest * L \in Nat
  <2>1. (rest + 1) * L <= u * L
    <3> HIDE DEF rest, u, L
    <3> QED
      BY <1>1, <1>2, <1>3, ProductsInOrder
  <2> DEFINE p == rest * L
             s == u * L
  <2>2. p \in Nat /\ s \in Nat /\ (rest + 1) * L = p + L
    <3> HIDE DEF rest, u, L
    <3> QED
      BY <1>1, <1>2, <1>3
  <2>3. M = s + over
    BY <1>2
  <2> HIDE DEF p, s, rest, M, over, L, W
  <2>4. p < W
    BY <1>1, <1>2, <2>1, <2>2, <2>3 DEF s
  <2>5. p % W = p
    BY <1>1, <2>2, <2>4
  <2> QED
    BY <2>2, <2>5 DEF CWord, p, W
<1> HIDE DEF L, M, W, u, over, b, rest
<1>7. us - b * u = rest
  <2> DEFINE z == b * u
  <2>1. z \in Nat
    BY <1>2, <1>3
  <2>2. us = z + rest
    BY <1>3
  <2> HIDE DEF z
  <2>3. us - z = rest
    BY <1>3, <2>1, <2>2
  <2> QED
    BY <2>3 DEF z
<1>8. CASE us = 0
  <2>1. b = 0 /\ rest = 0
    <3>1. rest = 0 /\ b * u = 0
      <4> DEFINE z == b * u
      <4>1. z \in Nat
        BY <1>2, <1>3
      <4>2. us = z + rest
        BY <1>3
      <4> HIDE DEF z
      <4>3. rest = 0 /\ z = 0
        BY <1>3, <1>8, <4>1, <4>2
      <4> QED
        BY <4>3 DEF z
    <3> QED
      BY <1>2, <1>3, <3>1
  <2>2. Rounds(us) = 1
    BY <1>1, <1>5, <1>6, <1>7, <2>1
  <2>3. 0 \in 0..b * over
    BY <1>2, <2>1
  <2> QED
    BY <1>8, <2>2, <2>3 DEF b, over
<1>9. CASE us # 0
  <2>1. rest * L # 0
    BY <1>1, <1>3, <1>4, <1>9
  <2>2. Rounds(us) = b * M + rest * L
    BY <1>5, <1>6, <1>7, <2>1
  <2>3. b * over \in Nat /\ b * over \in 0..b * over
    <3>1. b * over \in Nat
      BY <1>2, <1>3
    <3> DEFINE z == b * over
    <3> HIDE DEF z
    <3>2. z \in Nat => z \in 0..z
      OBVIOUS
    <3> QED
      BY <3>1, <3>2 DEF z
  <2>4. b * M = (b * u) * L + b * over
    BY <1>1, <1>2, <1>3
  <2>5. us * L = (b * u) * L + rest * L
    BY <1>1, <1>2, <1>3
  <2>6. Rounds(us) = us * L + b * over
    <3> DEFINE x == (b * u) * L
               y == rest * L
               z == b * over
    <3>1. x \in Nat /\ y \in Nat /\ z \in Nat
      BY <1>1, <1>2, <1>3
    <3>2. Rounds(us) = (x + z) + y /\ us * L = x + y
      BY <2>2, <2>4, <2>5
    <3> HIDE DEF x, y, z
    <3>3. (x + z) + y = (x + y) + z
      BY <3>1
    <3> QED
      BY <3>2, <3>3 DEF z
  <2> QED
    BY <1>9, <2>3, <2>6 DEF L, b, over
<1> QED
  BY <1>8, <1>9
--------------------------------------------------------------------------------
LEMMA TimeInvInit == TimeInit => TimeInv
<1> SUFFICES ASSUME TimeInit PROVE TimeInv
  OBVIOUS
<1>1. TimeTypeOK
  <2>1. timer \in Timers
    BY DEF TimeInit, Timers
  <2>2. resettime \in [sec : Int, usec : Int, zone : {0, 1}]
    BY DEF TimeInit
  <2>3. set_to \in [time : Times, zone : {0, 1}, when : Nat]
    <3>1. set_to.time \in Times /\ set_to = [time |-> set_to.time, zone |-> 0, when |-> 0]
      BY DEF TimeInit, Times
    <3> QED
      BY <3>1
  <2>4. started \in [clocks : Int, read : Int]
    BY DEF TimeInit
  <2> QED
    BY <2>1, <2>2, <2>3, <2>4 DEF TimeInit, TimeTypeOK, TimeSteps
<1>2. InCharge
  BY TimeConstants DEF TimeInit, InCharge
<1>3. SetBack
  <2>1. PeriodUs \in Nat /\ US \in Nat
    BY <1>1, RateOfPeriod, TimeConstants DEF TimeTypeOK
  <2>2. 0 * US + 0 = 0 /\ 0 * PeriodUs = 0
    BY <2>1
  <2>3. /\ resettime.sec = 0 /\ resettime.usec = 0 /\ resettime.zone = 0 /\ systicks = 0
        /\ set_to.time.sec = 0 /\ set_to.time.usec = 0 /\ set_to.zone = 0 /\ set_to.when = 0
    BY DEF TimeInit
  <2>4. Micros(resettime) = 0 /\ Micros(set_to.time) = 0
    BY <2>2, <2>3 DEF Micros
  <2> QED
    BY <2>2, <2>3, <2>4 DEF SetBack
<1>4. Stamping
  BY DEF TimeInit, Stamping
<1>5. TimeKept
  BY DEF TimeInit, NoAnswer, TimeKept, WallClockKept, TimestampKept, SleepKept, Answered
<1> QED
  BY <1>1, <1>2, <1>3, <1>4, <1>5 DEF TimeInv

(* What stays true as long as no new answer is given.                      *)
LEMMA AnswersStay ==
    ASSUME TimeInv, UNCHANGED <<timer_period, role, answer, set_to>>,
           tstep' = "idle" => tstep = "idle" /\ started'.read = started.read
    PROVE  TimeKept'
<1>1. WallClockKept'
  BY DEF TimeInv, TimeKept, WallClockKept, Answered, Micros, PeriodUs
<1>2. TimestampKept'
  BY DEF TimeInv, TimeKept, TimestampKept
<1>3. SleepKept'
  BY DEF TimeInv, TimeKept, SleepKept
<1> QED
  BY <1>1, <1>2, <1>3 DEF TimeKept

LEMMA SettingStays ==
    ASSUME TimeInv, UNCHANGED <<timer_period, resettime, set_to>>, systicks' \in Nat, systicks' >= systicks
    PROVE  SetBack'
<1>1. PeriodUs \in Nat /\ PeriodUs' = PeriodUs /\ systicks \in Nat /\ set_to.when \in Nat
  BY RateOfPeriod DEF TimeInv, TimeTypeOK, PeriodUs
<1>2. systicks * PeriodUs <= systicks' * PeriodUs
  BY <1>1, ProductsOrdered
<1>3. Micros(resettime)' = Micros(resettime) /\ Micros(set_to.time)' = Micros(set_to.time)
  BY DEF Micros
<1>4. set_to.when <= systicks' * PeriodUs
  <2> DEFINE x == systicks * PeriodUs
             y == systicks' * PeriodUs
             w == set_to.when
  <2>1. x \in Nat /\ y \in Nat
    BY <1>1, ProductsAreNat
  <2>2. x <= y /\ w \in Nat /\ w <= x
    BY <1>1, <1>2 DEF TimeInv, SetBack
  <2> HIDE DEF x, y, w
  <2>3. w <= y
    BY <2>1, <2>2
  <2> QED
    BY <2>3 DEF w, y
<1> QED
  BY <1>1, <1>3, <1>4 DEF TimeInv, SetBack

LEMMA TimerStarts ==
    ASSUME TimeInv, AltTimerInit
    PROVE  TimeInv'
<1>1. TimerFreq(timer_period) \in Nat /\ systicks \in Nat
  BY RateOfPeriod DEF TimeInv, TimeTypeOK
<1>2. TimeTypeOK'
  <2>1. timer' \in Timers
    BY DEF AltTimerInit, TimeInv, TimeTypeOK, Timers
  <2>2. tick_rate' \in Nat /\ ts_freq' \in BOOLEAN /\ tstep' \in TimeSteps
    BY <1>1 DEF AltTimerInit, TimeInv, TimeTypeOK, TimeSteps
  <2> QED
    BY <2>1, <2>2 DEF AltTimerInit, TimeInv, TimeTypeOK
<1>3. InCharge'
  <2>1. /\ tstep = "boot" /\ tstep' = "idle" /\ UNCHANGED <<timer_period, role, systicks, timeouts>> 
        /\ timer'.to = timer.to /\ timer'.lo = timer.lo /\ timer'.hi = timer.hi /\ timer'.count = timer.count
    BY DEF AltTimerInit, TimeInv, TimeTypeOK, Timers
  <2>2. tick_rate = 0 /\ ~ts_freq
    BY <2>1 DEF TimeInv, InCharge
  <2>3. /\ tick_rate' = (IF role = "sys_clk" THEN TimerFreq(timer_period) ELSE 0)
        /\ ts_freq' <=> role = "timestamp"
    BY <2>2 DEF AltTimerInit
  <2> QED
    BY <2>1, <2>3 DEF TimeInv, InCharge, TimerFreq
<1>4. SetBack'
  BY <1>1, SettingStays DEF AltTimerInit
<1>5. Stamping'
  <2> SUFFICES ASSUME role' = "timestamp" PROVE Stamping'
    BY DEF Stamping
  <2>1. UNCHANGED <<role, timer, started, answer>> /\ tstep = "boot" /\ tstep' = "idle"
    BY DEF AltTimerInit
  <2> QED
    BY <2>1 DEF TimeInv, InCharge, Stamping
<1>6. TimeKept'
  <2>1. WallClockKept'
    BY DEF AltTimerInit, TimeInv, TimeKept, WallClockKept, Answered, Micros, PeriodUs
  <2>2. TimestampKept' /\ SleepKept'
    BY DEF AltTimerInit, TimeInv, InCharge, NoAnswer, TimestampKept, SleepKept
  <2> QED
    BY <2>1, <2>2 DEF TimeKept
<1> QED
  BY <1>2, <1>3, <1>4, <1>5, <1>6 DEF TimeInv

(* The system clock in the middle of a behaviour: the ticks are the time   *)
(* elapsed, as seconds and microseconds too.                               *)
LEMMA TicksElapsed ==
    ASSUME TimeInv, tick_rate # 0
    PROVE  /\ role = "sys_clk" /\ Elapsed = systicks * PeriodUs /\ systicks * PeriodUs \in Nat
           /\ US \div tick_rate = PeriodUs /\ Seconds \in Nat /\ (systicks * PeriodUs) % US \in Nat
           /\ Seconds * US + ((systicks * PeriodUs) % US) = systicks * PeriodUs
<1> PICK n, rate, period, us :
       n = systicks /\ rate = tick_rate /\ period = PeriodUs /\ us = US
  OBVIOUS
<1>1. /\ role = "sys_clk" /\ tick_rate = TimerFreq(timer_period)
      /\ timeouts = systicks + (IF timer.to THEN 1 ELSE 0) /\ n \in Nat /\ timeouts \in Nat
  BY DEF TimeInv, TimeTypeOK, InCharge
<1>2. rate \in Nat /\ rate > 0 /\ period \in Nat /\ period > 0 /\ us = rate * period
  BY <1>1, RateOfPeriod DEF TimeInv, TimeTypeOK
<1>3. PICK q \in Nat, r \in Nat : r < rate /\ n = q * rate + r /\ q = n \div rate
  <2>1. n \div rate \in Nat /\ n % rate \in Nat /\ n % rate < rate /\ n = (n \div rate) * rate + (n % rate)
    BY <1>1, <1>2
  <2> QED
    BY <2>1
<1>4. r * period \in Nat /\ r * period < us
  <2>1. (r + 1) * period <= rate * period
    BY <1>2, <1>3, ProductsInOrder
  <2>2. (r + 1) * period = r * period + period /\ r * period \in Nat
    BY <1>2
  <2> DEFINE a == r * period
  <2> HIDE DEF a
  <2> QED
    BY <1>2, <2>1, <2>2 DEF a
<1>5. n * period = q * us + r * period
  <2>1. n * period = (q * rate) * period + r * period
    BY <1>2, <1>3
  <2>2. (q * rate) * period = q * (rate * period)
    BY <1>2
  <2> QED
    BY <1>2, <2>1, <2>2
<1>6. us \div rate = period /\ us \in Nat
  <2>1. us = period * rate + 0 /\ us \in Nat
    BY <1>2
  <2> QED
    BY <1>2, <2>1, QuotientUnique
<1>7. (n * period) % us = r * period
  <2> DEFINE a == r * period
  <2> HIDE DEF a
  <2>1. (q * us + a) % us = a
    BY <1>3, <1>4, <1>6, QuotientUnique DEF a
  <2> QED
    BY <1>5, <2>1 DEF a
<1>8. /\ n \div rate \in Nat /\ (n * period) % us \in Nat
      /\ (n \div rate) * us + ((n * period) % us) = n * period /\ n * period \in Nat
  BY <1>1, <1>2, <1>3, <1>4, <1>5, <1>7, ProductsAreNat
<1>9. timeouts - (IF timer.to THEN 1 ELSE 0) = n
  BY <1>1
<1> QED
  BY <1>1, <1>6, <1>8, <1>9 DEF Elapsed, Seconds

(* A timer that counts.                                                    *)
LEMMA CountKeeps ==
    ASSUME TimeInv, TimerCounts
    PROVE  TimeInv'
<1> DEFINE full == timer.lo + timer.hi * HalfRange
<1>1. /\ timer.lo \in Nat /\ timer.hi \in Nat /\ timer.count \in Nat /\ timer.run /\ timer.cont \in BOOLEAN
      /\ started.clocks \in Int /\ timeouts \in Nat /\ systicks \in Nat
  BY DEF TimerCounts, TimeInv, TimeTypeOK, Timers
<1>2. full \in Nat
  BY <1>1, TimeConstants, ProductsAreNat
<1> HIDE DEF full
<1>3. /\ timer' = IF timer.count # 0 THEN [timer EXCEPT !.count = @ - 1]
                  ELSE [timer EXCEPT !.count = full, !.to = TRUE, !.run = timer.cont]
      /\ timeouts' = timeouts + (IF role = "sys_clk" THEN 1 ELSE 0)
      /\ started' = [started EXCEPT !.clocks = IF timer.count = 0 THEN 0 ELSE @ + 1]
      /\ UNCHANGED <<timer_period, role, tick_rate, systicks, ts_freq, resettime, tstep, answer, set_to>>
      /\ tstep # "boot"
  BY DEF TimerCounts, full, TimeInv, InCharge
<1>4. TimeTypeOK'
  <2>1. timer' \in Timers
    <3>1. timer.count # 0 => timer.count - 1 \in Nat
      BY <1>1
    <3> QED
      BY <1>1, <1>2, <1>3, <3>1 DEF TimeInv, TimeTypeOK, Timers
  <2>2. started' \in [clocks : Int, read : Int]
    BY <1>1, <1>3 DEF TimeInv, TimeTypeOK
  <2>3. timeouts' \in Nat
    BY <1>1, <1>3
  <2> QED
    BY <1>3, <2>1, <2>2, <2>3 DEF TimeInv, TimeTypeOK
<1>5. InCharge'
  <2>1. ASSUME role = "sys_clk"
        PROVE  /\ timeouts' <= MaxTimeouts /\ timeouts' = systicks + (IF timer'.to THEN 1 ELSE 0)
               /\ timer'.lo = 0 /\ timer'.hi = 0 /\ timer'.count = 0
    <3>1. ~timer.to /\ timeouts < MaxTimeouts /\ timeouts = systicks /\ timer.lo = 0 /\ timer.hi = 0 /\ timer.count = 0
      BY <1>1, <2>1 DEF TimerCounts, TimeInv, InCharge
    <3>2. full = 0
      BY <3>1, TimeConstants DEF full
    <3>3. timer'.to /\ timer'.lo = 0 /\ timer'.hi = 0 /\ timer'.count = 0
      BY <1>3, <3>1, <3>2 DEF TimeInv, TimeTypeOK, Timers
    <3> QED
      BY <1>1, <1>3, <2>1, <3>1, <3>3, TimeConstants
  <2> QED
    BY <1>3, <2>1 DEF TimeInv, InCharge, TimerFreq
<1>6. SetBack'
  BY <1>1, <1>3, SettingStays
<1>7. Stamping'
  <2> SUFFICES ASSUME role = "timestamp" PROVE Stamping'
    BY <1>3 DEF Stamping
  <2>1. /\ ~timer.cont /\ tstep \in {"idle", "snap_lo", "snap_hi"} /\ started.clocks # -1
        /\ timer.lo = FullHalf /\ timer.hi = FullHalf
        /\ started.clocks >= 0 /\ timer.count = FullScale - started.clocks
    BY <1>1 DEF TimeInv, Stamping
  <2>2. timer'.lo = timer.lo /\ timer'.hi = timer.hi /\ timer'.cont = timer.cont /\ timer'.snap = timer.snap /\ started'.read = started.read
    BY <1>3 DEF TimeInv, TimeTypeOK, Timers
  <2>3. full = FullScale /\ FullScale \in Int
    <3> PICK h : h = HalfRange
      OBVIOUS
    <3>1. h \in Nat /\ full = (h - 1) + (h - 1) * h /\ FullScale = h * h - 1
      BY <2>1, TimeConstants DEF full, FullHalf, FullScale
    <3>2. (h - 1) * h = h * h - h /\ h * h \in Nat
      BY <3>1
    <3> DEFINE k == h * h
    <3>3. k \in Nat /\ full = (h - 1) + (k - h) /\ FullScale = k - 1
      BY <3>1, <3>2
    <3> HIDE DEF k
    <3> QED
      BY <3>1, <3>3
  <2>4. started'.clocks >= 0 /\ timer'.count = FullScale - started'.clocks
    <3>1. CASE timer.count = 0
      BY <1>1, <1>3, <2>3, <3>1 DEF TimeInv, TimeTypeOK, Timers
    <3>2. CASE timer.count # 0
      <4>1. timer'.count = timer.count - 1 /\ started'.clocks = started.clocks + 1
        BY <1>3, <3>2 DEF TimeInv, TimeTypeOK, Timers
      <4> QED
        BY <1>1, <2>1, <2>3, <4>1
    <3> QED
      BY <3>1, <3>2
  <2>5. started'.clocks # -1
    BY <2>4
  <2> QED
    BY <1>3, <2>1, <2>2, <2>4, <2>5 DEF TimeInv, Stamping
<1>8. TimeKept'
  <2>1. started'.read = started.read
    BY <1>3 DEF TimeInv, TimeTypeOK
  <2> QED
    BY <1>3, <2>1, AnswersStay
<1> QED
  BY <1>4, <1>5, <1>6, <1>7, <1>8 DEF TimeInv

LEMMA TickKeeps ==
    ASSUME TimeInv, alt_avalon_timer_sc_irq
    PROVE  TimeInv'
<1>1. /\ role = "sys_clk" /\ timer.to /\ timeouts = systicks + 1 /\ timeouts <= MaxTimeouts
      /\ systicks \in Nat /\ timeouts \in Nat
  BY DEF alt_avalon_timer_sc_irq, TimeInv, TimeTypeOK, InCharge
<1>2. CWord(systicks + 1) = systicks + 1
  <2> PICK n, w : n = systicks + 1 /\ w = WordRange
    OBVIOUS
  <2>1. n \in Nat /\ w \in Nat /\ n < w
    BY <1>1, TimeConstants
  <2>2. n % w = n
    BY <2>1
  <2> QED
    BY <2>2 DEF CWord
<1>3. /\ timer' = [timer EXCEPT !.to = FALSE] /\ systicks' = systicks + 1
      /\ UNCHANGED <<timer_period, role, tick_rate, ts_freq, resettime, tstep, answer, timeouts, set_to, started>>
  BY <1>2 DEF alt_avalon_timer_sc_irq
<1>4. /\ timer' \in Timers /\ ~timer'.to /\ timer'.run = timer.run
      /\ timer'.lo = timer.lo /\ timer'.hi = timer.hi /\ timer'.count = timer.count
  BY <1>3 DEF TimeInv, TimeTypeOK, Timers
<1>5. TimeTypeOK'
  BY <1>1, <1>3, <1>4 DEF TimeInv, TimeTypeOK
<1>6. InCharge'
  <2>1. tick_rate = (IF tstep # "boot" /\ role = "sys_clk" THEN TimerFreq(timer_period) ELSE 0)
    BY DEF TimeInv, InCharge
  <2>2. tick_rate' = (IF tstep' # "boot" /\ role' = "sys_clk" THEN TimerFreq(timer_period)' ELSE 0)
    BY <1>3, <2>1 DEF TimerFreq
  <2> QED
    BY <1>1, <1>3, <1>4, <2>2 DEF TimeInv, InCharge
<1>7. SetBack'
  BY <1>1, <1>3, SettingStays
<1>8. Stamping'
  BY <1>1, <1>3 DEF Stamping
<1>9. TimeKept'
  BY <1>3, AnswersStay
<1> QED
  BY <1>5, <1>6, <1>7, <1>8, <1>9 DEF TimeInv

(* A call that only answers.                                               *)
LEMMA AnswerKeeps ==
    ASSUME TimeInv, tstep = "idle", TimeKept',
           UNCHANGED <<timer_period, role, timer, tick_rate, systicks, ts_freq, resettime, tstep,
                       timeouts, set_to, started>>
    PROVE  TimeInv'
<1>1. TimeTypeOK' /\ InCharge'
  BY DEF TimeInv, TimeTypeOK, InCharge, TimerFreq
<1>2. SetBack'
  BY SettingStays DEF TimeInv, TimeTypeOK
<1>3. Stamping'
  BY DEF TimeInv, Stamping
<1> QED
  BY <1>1, <1>2, <1>3 DEF TimeInv

LEMMA WithoutClock ==
    ASSUME TimeInv, tstep = "idle"
    PROVE  /\ tick_rate = 0 <=> role # "sys_clk"
           /\ ts_freq <=> role = "timestamp"
  BY RateOfPeriod DEF TimeInv, TimeTypeOK, InCharge

(* What gettimeofday() makes of the time at reset and the ticks.           *)
LEMMA ReadsTime ==
    ASSUME TimeInv, tick_rate # 0,
           NEW time, time = Normal(resettime.sec + Seconds,
                                   resettime.usec + MicrosOf(systicks * (US \div tick_rate)))
    PROVE  /\ Micros(time) = Micros(set_to.time) + Elapsed - set_to.when
           /\ time.usec \in 0..(US - 1)
<1> PICK sec, usec, s, m, v, e, w, us :
       /\ sec = resettime.sec /\ usec = resettime.usec /\ s = Seconds
       /\ m = (systicks * PeriodUs) % US /\ v = Micros(set_to.time) /\ e = Elapsed /\ w = set_to.when /\ us = US
  OBVIOUS
<1>1. /\ sec \in Int /\ usec \in Int /\ s \in Nat /\ m \in Nat /\ w \in Nat /\ us \in Nat
      /\ US \div tick_rate = PeriodUs
  BY TicksElapsed, TimeConstants DEF TimeInv, TimeTypeOK
<1>2. e \in Nat /\ s * us + m = e /\ w <= e
  BY TicksElapsed DEF TimeInv, SetBack
<1>3. v \in Nat
  <2> PICK a, b : a = set_to.time.sec /\ b = set_to.time.usec
    OBVIOUS
  <2>1. a \in Nat /\ b \in Nat
    BY DEF TimeInv, TimeTypeOK, Times
  <2>2. a * us \in Nat
    BY <1>1, <2>1, ProductsAreNat
  <2>3. a * us + b \in Nat
    BY <2>1, <2>2
  <2> QED
    BY <2>3 DEF Micros
<1>4. (sec * us + usec) + w = v
  BY DEF TimeInv, SetBack, Micros
<1>5. (sec + s) * us + (usec + m) = (v + e) - w
  <2> DEFINE x == sec * us
             y == s * us
  <2>1. x \in Int /\ y \in Int /\ (sec + s) * us = x + y
    BY <1>1
  <2>2. (x + usec) + w = v /\ y + m = e
    BY <1>2, <1>4
  <2> HIDE DEF x, y
  <2>3. (x + y) + (usec + m) = (v + e) - w
    BY <1>1, <1>2, <1>3, <2>1, <2>2
  <2> QED
    BY <2>1, <2>3
<1>6. sec + s \in Int /\ usec + m \in Int /\ (sec + s) * us + (usec + m) >= 0
  BY <1>1, <1>2, <1>3, <1>5
<1>7. time = Normal(sec + s, usec + m)
  BY <1>1 DEF MicrosOf
<1>8. LET t == Normal(sec + s, usec + m) IN
      t.usec \in 0..(US - 1) /\ t.sec * US + t.usec = (sec + s) * US + (usec + m)
  BY <1>6, NormalKeeps
<1>9. time.usec \in 0..(US - 1) /\ time.sec * US + time.usec = (sec + s) * US + (usec + m)
  BY <1>7, <1>8
<1>10. Micros(time) = (sec + s) * us + (usec + m)
  BY <1>9 DEF Micros
<1>11. Micros(time) = (v + e) - w
  BY <1>5, <1>10
<1> QED
  BY <1>1, <1>2, <1>3, <1>9, <1>11

LEMMA GetKeeps ==
    ASSUME TimeInv, ALT_GETTIMEOFDAY
    PROVE  TimeInv'
<1>1. /\ tstep = "idle"
      /\ UNCHANGED <<timer_period, role, timer, tick_rate, systicks, ts_freq, resettime, tstep,
                     timeouts, set_to, started>>
  BY DEF ALT_GETTIMEOFDAY
<1>2. WallClockKept'
  <2>1. CASE tick_rate = 0
    <3>1. answer' = [op |-> "gettimeofday", ret |-> "-ENOTSUP"] /\ role # "sys_clk"
      BY <1>1, <2>1, WithoutClock DEF ALT_GETTIMEOFDAY
    <3> QED
      BY <1>1, <3>1 DEF WallClockKept, Answered
  <2>2. CASE tick_rate # 0
    <3> PICK time : time = Normal(resettime.sec + Seconds,
                                  resettime.usec + MicrosOf(systicks * (US \div tick_rate)))
      OBVIOUS
    <3>1. Micros(time) = Micros(set_to.time) + Elapsed - set_to.when /\ time.usec \in 0..(US - 1)
      BY <2>2, ReadsTime
    <3>2. answer' = [op |-> "gettimeofday", ret |-> "0", time |-> time, zone |-> resettime.zone, when |-> Elapsed]
      BY <2>2 DEF ALT_GETTIMEOFDAY
    <3>3. role = "sys_clk" /\ resettime.zone = set_to.zone
      BY <1>1, <2>2, WithoutClock DEF TimeInv, SetBack
    <3>4. /\ Micros(answer'.time) = Micros(set_to'.time) + answer'.when - set_to'.when
          /\ answer'.time.usec \in 0..(US - 1) /\ answer'.zone = set_to'.zone
          /\ answer'.op = "gettimeofday" /\ answer'.ret = "0" /\ role' = "sys_clk"
      BY <1>1, <3>1, <3>2, <3>3
    <3> QED
      BY <3>4 DEF WallClockKept, Answered, Micros
  <2> QED
    BY <2>1, <2>2
<1>3. TimestampKept' /\ SleepKept'
  <2>1. answer'.op = "gettimeofday"
    BY DEF ALT_GETTIMEOFDAY
  <2> QED
    BY <2>1 DEF TimestampKept, SleepKept
<1> QED
  BY <1>1, <1>2, <1>3, AnswerKeeps DEF TimeKept

LEMMA TimesKeeps ==
    ASSUME TimeInv, ALT_TIMES
    PROVE  TimeInv'
<1>1. /\ tstep = "idle"
      /\ UNCHANGED <<timer_period, role, timer, tick_rate, systicks, ts_freq, resettime, tstep,
                     timeouts, set_to, started>>
  BY DEF ALT_TIMES
<1>2. WallClockKept'
  <2>1. CASE tick_rate = 0
    <3>1. answer' = [op |-> "times", ret |-> "ENOSYS"] /\ role # "sys_clk"
      BY <1>1, <2>1, WithoutClock DEF ALT_TIMES
    <3> QED
      BY <1>1, <3>1 DEF WallClockKept, Answered
  <2>2. CASE tick_rate # 0
    <3>1. answer' = [op |-> "times", ret |-> "0", ticks |-> systicks, when |-> Elapsed]
      BY <2>2 DEF ALT_TIMES
    <3>2. role = "sys_clk" /\ Elapsed = systicks * PeriodUs /\ PeriodUs' = PeriodUs
      BY <1>1, <2>2, TicksElapsed DEF PeriodUs
    <3> QED
      BY <1>1, <3>1, <3>2 DEF WallClockKept, Answered
  <2> QED
    BY <2>1, <2>2
<1>3. TimestampKept' /\ SleepKept'
  <2>1. answer'.op = "times"
    BY DEF ALT_TIMES
  <2> QED
    BY <2>1 DEF TimestampKept, SleepKept
<1> QED
  BY <1>1, <1>2, <1>3, AnswerKeeps DEF TimeKept

LEMMA UsleepKeeps ==
    ASSUME TimeInv, NEW us \in TimesToSleep, ALT_USLEEP(us)
    PROVE  TimeInv'
<1>1. /\ tstep = "idle" /\ answer' = [op |-> "usleep", us |-> us, rounds |-> Rounds(us)]
      /\ UNCHANGED <<timer_period, role, timer, tick_rate, systicks, ts_freq, resettime, tstep,
                     timeouts, set_to, started>>
  BY DEF ALT_USLEEP
<1>2. us \in Nat /\ (us # 0 => us % UsPerLoop # 0)
  BY InputAssumption
<1>3. \E extra \in 0..(us \div UsPerLoop) * (INT_MAX % LoopsPerUs) :
              Rounds(us) = IF us = 0 THEN 1 ELSE us * LoopsPerUs + extra
  BY <1>2, RoundsBounded
<1>4. answer'.op = "usleep" /\ answer'.us = us /\ answer'.rounds = Rounds(us)
  BY <1>1
<1>5. SleepKept'
  BY <1>3, <1>4 DEF SleepKept
<1>6. WallClockKept' /\ TimestampKept'
  BY <1>4 DEF WallClockKept, TimestampKept, Answered
<1> QED
  BY <1>1, <1>5, <1>6, AnswerKeeps DEF TimeKept

(* The time is set before a word of microseconds has elapsed.              *)
LEMMA SetKeeps ==
    ASSUME TimeInv, NEW t \in TimesToSet, NEW zone \in {0, 1}, ALT_SETTIMEOFDAY(t, zone), SetWithin < WordRange
    PROVE  TimeInv'
<1>1. /\ tstep = "idle" /\ systicks * PeriodUs <= SetWithin
      /\ answer' = [op |-> "settimeofday", ret |-> IF tick_rate = 0 THEN "-1" ELSE "0"]
      /\ UNCHANGED <<timer_period, role, timer, tick_rate, systicks, ts_freq, tstep, timeouts, started>>
  BY DEF ALT_SETTIMEOFDAY
<1>2. TimeKept'
  <2>1. answer'.op = "settimeofday" /\ (answer'.ret = "0" <=> role' = "sys_clk")
    BY <1>1, WithoutClock
  <2> QED
    BY <2>1 DEF TimeKept, WallClockKept, TimestampKept, SleepKept, Answered
<1>3. CASE tick_rate = 0
  BY <1>1, <1>2, <1>3, AnswerKeeps DEF ALT_SETTIMEOFDAY
<1>4. CASE tick_rate # 0
  <2>1. PICK sec, usec, s, m, e, us :
          /\ sec = t.sec /\ usec = t.usec /\ s = Seconds
          /\ m = (systicks * PeriodUs) % US /\ e = Elapsed /\ us = US
    OBVIOUS
  <2>2. /\ sec \in Nat /\ usec \in Nat /\ s \in Nat /\ m \in Nat /\ e \in Nat /\ us \in Nat
        /\ US \div tick_rate = PeriodUs /\ systicks * PeriodUs = e /\ s * us + m = e
    BY <1>4, <2>1, TicksElapsed, TimeConstants, InputAssumption
  <2>3. CWord(systicks * PeriodUs) = systicks * PeriodUs
    <3> PICK n, w : n = systicks * PeriodUs /\ w = WordRange
      OBVIOUS
    <3>1. n \in Nat /\ w \in Nat /\ n < w
      BY <1>1, <2>2, TimeConstants
    <3>2. n % w = n
      BY <3>1
    <3> QED
      BY <3>2 DEF CWord
  <2>4. /\ resettime' = [sec |-> sec - s, usec |-> usec - m, zone |-> zone]
        /\ set_to' = [time |-> t, zone |-> zone, when |-> e]
    BY <1>4, <2>1, <2>2, <2>3 DEF ALT_SETTIMEOFDAY, MicrosOf
  <2>5. SetBack'
    <3>1. (sec - s) * us + (usec - m) + e = sec * us + usec
      <4> DEFINE x == sec * us
                 y == s * us
      <4>1. x \in Int /\ y \in Int /\ (sec - s) * us = x - y /\ y + m = e
        BY <2>2
      <4> HIDE DEF x, y
      <4>2. (x - y) + (usec - m) + e = x + usec
        BY <2>2, <4>1
      <4> QED
        BY <4>1, <4>2 DEF x
    <3>2. Micros(resettime)' + set_to'.when = Micros(set_to.time)'
      BY <2>1, <2>4, <3>1 DEF Micros
    <3>3. set_to'.when <= systicks' * PeriodUs'
      <4>1. set_to'.when = e /\ systicks' * PeriodUs' = e
        BY <1>1, <2>2, <2>4 DEF PeriodUs
      <4> QED
        BY <2>2, <4>1
    <3>4. resettime'.zone = set_to'.zone
      BY <2>4
    <3> QED
      BY <3>2, <3>3, <3>4 DEF SetBack
  <2>6. TimeTypeOK'
    <3>1. resettime' \in [sec : Int, usec : Int, zone : {0, 1}]
      BY <2>2, <2>4
    <3>2. t \in Times
      BY <2>1, <2>2, InputAssumption DEF Times
    <3>3. set_to' \in [time : Times, zone : {0, 1}, when : Nat]
      BY <2>2, <2>4, <3>2
    <3> QED
      BY <1>1, <3>1, <3>3 DEF TimeInv, TimeTypeOK
  <2>7. InCharge'
    BY <1>1 DEF TimeInv, InCharge, TimerFreq
  <2>8. Stamping'
    BY <1>1 DEF TimeInv, Stamping
  <2> QED
    BY <1>2, <2>5, <2>6, <2>7, <2>8 DEF TimeInv
<1> QED
  BY <1>3, <1>4

(* An access of the timestamp driver, which has the timer to itself.       *)
LEMMA AccessFrame ==
    ASSUME TimeInv, ts_freq, tstep' \in TimeSteps \ {"boot"}, timer' \in Timers,
           started' \in [clocks : Int, read : Int],
           UNCHANGED <<timer_period, role, tick_rate, systicks, ts_freq, resettime, timeouts, set_to>>
    PROVE  TimeTypeOK' /\ InCharge' /\ SetBack' /\ role = "timestamp" /\ tstep # "boot"
<1>1. role = "timestamp" /\ tstep # "boot" /\ systicks \in Nat
  BY DEF TimeInv, InCharge, TimeTypeOK
<1>2. TimeTypeOK'
  BY DEF TimeInv, TimeTypeOK
<1>3. InCharge'
  <2>1. tick_rate = 0
    BY <1>1 DEF TimeInv, InCharge
  <2> QED
    BY <1>1, <2>1 DEF InCharge
<1>4. SetBack'
  BY <1>1, SettingStays
<1> QED
  BY <1>1, <1>2, <1>3, <1>4

LEMMA HalvesAreFull ==
    /\ FullHalf \in Nat /\ FullScale \in Nat /\ FullHalf + FullHalf * HalfRange = FullScale
<1> PICK h : h = HalfRange
  OBVIOUS
<1>1. h \in Nat /\ h > 0 /\ FullHalf = h - 1 /\ FullScale = h * h - 1
  BY TimeConstants DEF FullHalf, FullScale
<1>2. (h - 1) * h = h * h - h /\ h * h \in Nat /\ 1 * h <= h * h
  BY <1>1, ProductsOrdered
<1> DEFINE k == h * h
           j == (h - 1) * h
<1>3. k \in Nat /\ j = k - h /\ h <= k /\ FullScale = k - 1
  BY <1>1, <1>2
<1> HIDE DEF k, j
<1>4. FullScale \in Nat /\ FullHalf \in Nat /\ (h - 1) + j = FullScale
  BY <1>1, <1>3
<1> QED
  BY <1>1, <1>4 DEF j

LEMMA StampStartKeeps ==
    ASSUME TimeInv, alt_timestamp_start
    PROVE  TimeInv'
<1>1. CASE /\ ~ts_freq /\ Access("idle", "idle", timer)
           /\ answer' = [op |-> "timestamp_start", ret |-> "-1"] /\ UNCHANGED started
  <2>1. TimeKept'
    BY <1>1 DEF TimeKept, WallClockKept, TimestampKept, SleepKept, Answered
  <2> QED
    BY <1>1, <2>1, AnswerKeeps DEF Access
<1>2. CASE /\ ts_freq /\ UNCHANGED <<answer, started>>
           /\ Access("idle", "start_lo", [timer EXCEPT !.run = FALSE, !.cont = FALSE])
  <2>1. /\ tstep = "idle" /\ tstep' = "start_lo" /\ timer' = [timer EXCEPT !.run = FALSE, !.cont = FALSE]
        /\ UNCHANGED <<timer_period, role, tick_rate, systicks, ts_freq, resettime, timeouts, set_to, answer, started>>
    BY <1>2 DEF Access
  <2>2. timer' \in Timers /\ ~timer'.run /\ ~timer'.cont /\ tstep' \in TimeSteps \ {"boot"}
    BY <2>1 DEF TimeInv, TimeTypeOK, Timers, TimeSteps
  <2>3. TimeTypeOK' /\ InCharge' /\ SetBack' /\ role = "timestamp"
    BY <1>2, <2>1, <2>2, AccessFrame DEF TimeInv, TimeTypeOK
  <2>4. Stamping'
    BY <2>1, <2>2 DEF Stamping
  <2>5. TimeKept'
    BY <2>1, AnswersStay
  <2> QED
    BY <2>3, <2>4, <2>5 DEF TimeInv
<1>3. CASE /\ ts_freq /\ UNCHANGED <<answer, started>>
           /\ Access("start_lo", "start_hi", Reloaded([timer EXCEPT !.lo = FullHalf]))
  <2> DEFINE next == [timer EXCEPT !.lo = FullHalf]
             full == next.lo + next.hi * HalfRange
  <2>1. /\ tstep = "start_lo" /\ tstep' = "start_hi" /\ timer' = [next EXCEPT !.count = full, !.run = FALSE]
        /\ UNCHANGED <<timer_period, role, tick_rate, systicks, ts_freq, resettime, timeouts, set_to, answer, started>>
    BY <1>3 DEF Access, Reloaded
  <2>2. next \in Timers /\ next.lo = FullHalf /\ next.cont = timer.cont
    BY HalvesAreFull DEF TimeInv, TimeTypeOK, Timers
  <2>3. full \in Nat
    <3>1. next.lo \in Nat /\ next.hi \in Nat /\ HalfRange \in Nat
      BY <2>2, TimeConstants DEF Timers
    <3> HIDE DEF next
    <3> QED
      BY <3>1, ProductsAreNat
  <2> HIDE DEF next, full
  <2>4. /\ timer' \in Timers /\ timer'.lo = FullHalf /\ ~timer'.run /\ timer'.cont = timer.cont
        /\ tstep' \in TimeSteps \ {"boot"}
    BY <2>1, <2>2, <2>3 DEF Timers, TimeSteps
  <2>5. TimeTypeOK' /\ InCharge' /\ SetBack' /\ role = "timestamp"
    BY <1>3, <2>1, <2>4, AccessFrame DEF TimeInv, TimeTypeOK
  <2>6. Stamping'
    BY <2>1, <2>4 DEF TimeInv, Stamping
  <2>7. TimeKept'
    BY <2>1, AnswersStay
  <2> QED
    BY <2>5, <2>6, <2>7 DEF TimeInv
<1>4. CASE /\ ts_freq /\ UNCHANGED <<answer, started>>
           /\ Access("start_hi", "start", Reloaded([timer EXCEPT !.hi = FullHalf]))
  <2> DEFINE next == [timer EXCEPT !.hi = FullHalf]
             full == next.lo + next.hi * HalfRange
  <2>1. /\ tstep = "start_hi" /\ tstep' = "start" /\ timer' = [next EXCEPT !.count = full, !.run = FALSE]
        /\ UNCHANGED <<timer_period, role, tick_rate, systicks, ts_freq, resettime, timeouts, set_to, answer, started>>
    BY <1>4 DEF Access, Reloaded
  <2>2. role = "timestamp"
    BY <1>4 DEF TimeInv, InCharge
  <2>3. next \in Timers /\ next.lo = FullHalf /\ next.hi = FullHalf /\ next.cont = timer.cont
    BY <2>1, <2>2, HalvesAreFull DEF TimeInv, TimeTypeOK, Timers, Stamping
  <2>4. full = FullScale /\ full \in Nat
    <3> HIDE DEF next
    <3> QED
      BY <2>3, HalvesAreFull
  <2> HIDE DEF next, full
  <2>5. /\ timer' \in Timers /\ timer'.lo = FullHalf /\ timer'.hi = FullHalf /\ timer'.count = FullScale
        /\ ~timer'.run /\ timer'.cont = timer.cont /\ tstep' \in TimeSteps \ {"boot"}
    BY <2>1, <2>3, <2>4 DEF Timers, TimeSteps
  <2>6. TimeTypeOK' /\ InCharge' /\ SetBack'
    BY <1>4, <2>1, <2>5, AccessFrame DEF TimeInv, TimeTypeOK
  <2>7. Stamping'
    BY <2>1, <2>2, <2>5 DEF TimeInv, Stamping
  <2>8. TimeKept'
    BY <2>1, AnswersStay
  <2> QED
    BY <2>6, <2>7, <2>8 DEF TimeInv
<1>5. CASE /\ Access("start", "idle", [timer EXCEPT !.run = TRUE])
           /\ answer' = [op |-> "timestamp_start", ret |-> "0"]
           /\ started' = [started EXCEPT !.clocks = 0]
  <2>1. /\ tstep = "start" /\ tstep' = "idle" /\ timer' = [timer EXCEPT !.run = TRUE]
        /\ UNCHANGED <<timer_period, role, tick_rate, systicks, ts_freq, resettime, timeouts, set_to>>
    BY <1>5 DEF Access
  <2>2. role = "timestamp" /\ ts_freq
    BY <2>1 DEF TimeInv, InCharge
  <2>3. /\ timer' \in Timers /\ timer'.lo = timer.lo /\ timer'.hi = timer.hi /\ timer'.count = timer.count
        /\ timer'.cont = timer.cont /\ tstep' \in TimeSteps \ {"boot"}
    BY <2>1 DEF TimeInv, TimeTypeOK, Timers, TimeSteps
  <2>4. started' \in [clocks : Int, read : Int] /\ started'.clocks = 0
    BY <1>5 DEF TimeInv, TimeTypeOK
  <2>5. TimeTypeOK' /\ InCharge' /\ SetBack'
    BY <2>1, <2>2, <2>3, <2>4, AccessFrame
  <2>6. Stamping'
    BY <2>1, <2>2, <2>3, <2>4, HalvesAreFull DEF TimeInv, Stamping
  <2>7. TimeKept'
    BY <1>5 DEF TimeKept, WallClockKept, TimestampKept, SleepKept, Answered
  <2> QED
    BY <2>5, <2>6, <2>7 DEF TimeInv
<1> QED
  BY <1>1, <1>2, <1>3, <1>4, <1>5 DEF alt_timestamp_start

(* The two halves of the snapshot are the counter when it was taken.       *)
LEMMA StampKeeps ==
    ASSUME TimeInv, alt_timestamp
    PROVE  TimeInv'
<1>1. CASE /\ ~ts_freq /\ Access("idle", "idle", timer)
           /\ answer' = [op |-> "timestamp", ret |-> FullScale] /\ UNCHANGED started
  <2>1. role # "timestamp" /\ UNCHANGED role
    BY <1>1, WithoutClock DEF Access
  <2>2. TimeKept'
    BY <1>1, <2>1 DEF TimeKept, WallClockKept, TimestampKept, SleepKept, Answered
  <2> QED
    BY <1>1, <2>2, AnswerKeeps DEF Access
<1>2. CASE /\ ts_freq /\ Access("idle", "snap_lo", [timer EXCEPT !.snap = timer.count])
           /\ started' = [started EXCEPT !.read = started.clocks] /\ UNCHANGED answer
  <2>1. /\ tstep = "idle" /\ tstep' = "snap_lo" /\ timer' = [timer EXCEPT !.snap = timer.count]
        /\ UNCHANGED <<timer_period, role, tick_rate, systicks, ts_freq, resettime, timeouts, set_to, answer>>
    BY <1>2 DEF Access
  <2>2. /\ timer' \in Timers /\ timer'.lo = timer.lo /\ timer'.hi = timer.hi /\ timer'.count = timer.count
        /\ timer'.cont = timer.cont /\ timer'.run = timer.run /\ timer'.snap = timer.count
        /\ tstep' \in TimeSteps \ {"boot"}
    BY <2>1 DEF TimeInv, TimeTypeOK, Timers, TimeSteps
  <2>3. /\ started' \in [clocks : Int, read : Int] /\ started'.clocks = started.clocks /\ started'.read = started.clocks
    BY <1>2 DEF TimeInv, TimeTypeOK
  <2>4. TimeTypeOK' /\ InCharge' /\ SetBack' /\ role = "timestamp"
    BY <1>2, <2>1, <2>2, <2>3, AccessFrame
  <2>5. Stamping'
    BY <2>1, <2>2, <2>3, <2>4 DEF TimeInv, Stamping
  <2>6. TimeKept'
    BY <2>1, AnswersStay
  <2> QED
    BY <2>4, <2>5, <2>6 DEF TimeInv
<1>3. CASE /\ Access("snap_lo", "snap_hi", timer) /\ UNCHANGED started
           /\ answer' = [op |-> "lower", ret |-> Snapshot(timer) % HalfRange]
  <2>1. /\ tstep = "snap_lo" /\ tstep' = "snap_hi" /\ tstep' \in TimeSteps \ {"boot"}
        /\ UNCHANGED <<timer, started, timer_period, role, tick_rate, systicks, ts_freq, resettime, timeouts, set_to>>
    BY <1>3 DEF Access, TimeSteps
  <2>2. ts_freq
    BY <2>1 DEF TimeInv, InCharge
  <2>3. TimeTypeOK' /\ InCharge' /\ SetBack' /\ role = "timestamp"
    BY <2>1, <2>2, AccessFrame DEF TimeInv, TimeTypeOK
  <2>4. answer' = [op |-> "lower", ret |-> timer'.snap % HalfRange]
    BY <1>3, <2>1 DEF Snapshot
  <2>5. Stamping'
    BY <2>1, <2>3, <2>4 DEF TimeInv, Stamping
  <2>6. TimeKept'
    BY <1>3, <2>1 DEF TimeKept, WallClockKept, TimestampKept, SleepKept, Answered
  <2> QED
    BY <2>3, <2>5, <2>6 DEF TimeInv
<1>4. CASE /\ Access("snap_hi", "idle", timer) /\ UNCHANGED started
           /\ answer' = [op |-> "timestamp",
                         ret |-> FullScale - ((Snapshot(timer) \div HalfRange) * HalfRange + answer.ret)]
  <2>1. /\ tstep = "snap_hi" /\ tstep' = "idle" /\ tstep' \in TimeSteps \ {"boot"}
        /\ UNCHANGED <<timer, started, timer_period, role, tick_rate, systicks, ts_freq, resettime, timeouts, set_to>>
    BY <1>4 DEF Access, TimeSteps
  <2>2. ts_freq
    BY <2>1 DEF TimeInv, InCharge
  <2>3. TimeTypeOK' /\ InCharge' /\ SetBack' /\ role = "timestamp"
    BY <2>1, <2>2, AccessFrame DEF TimeInv, TimeTypeOK
  <2>4. Stamping'
    BY <2>1, <2>3 DEF TimeInv, Stamping
  <2>5. answer'.op = "timestamp" /\ answer'.ret = FullScale - timer.snap
    <3> PICK s, h : s = timer.snap /\ h = HalfRange
      OBVIOUS
    <3>1. s \in Nat /\ h \in Nat /\ h > 0
      BY TimeConstants DEF TimeInv, TimeTypeOK, Timers
    <3>2. (s \div h) * h + (s % h) = s
      BY <3>1
    <3>3. answer.ret = s % h
      BY <2>1, <2>3 DEF TimeInv, Stamping
    <3>4. answer'.ret = FullScale - ((s \div h) * h + (s % h))
      BY <1>4, <3>3 DEF Snapshot
    <3> QED
      BY <1>4, <3>2, <3>4
  <2>6. TimestampKept'
    <3>1. started.read # -1 => answer'.ret = started.read
      <4>1. /\ FullScale \in Nat /\ started.read \in Int
            /\ started.read # -1 => timer.snap = FullScale - started.read
        BY <2>1, <2>3, HalvesAreFull DEF TimeInv, TimeTypeOK, Stamping
      <4> QED
        BY <2>5, <4>1
    <3> QED
      BY <2>1, <2>3, <3>1 DEF TimestampKept
  <2>7. WallClockKept' /\ SleepKept'
    BY <2>5 DEF WallClockKept, SleepKept, Answered
  <2> QED
    BY <2>3, <2>4, <2>6, <2>7 DEF TimeInv, TimeKept
<1> QED
  BY <1>1, <1>2, <1>3, <1>4 DEF alt_timestamp

(* Time is kept by whatever the timer is used for, for every length of a   *)
(* second, word and register, every period that divides a second and every *)
(* call: the wall clock across ticks, settings and carries                 *)
(* (alt_gettod.c:71-124, alt_settod.c:72-96), as long as it is set before  *)
(* the microseconds fill a word, the timestamp across restarts and its     *)
(* roll-over (altera_avalon_timer_ts.c:64-131), and the loops of usleep()  *)
(* across the range of an int (alt_busy_sleep.c:49-133).                   *)
THEOREM TimeIsKept == SetWithin < WordRange => (TimeSpec => []TimeKept)
<1> SUFFICES ASSUME SetWithin < WordRange PROVE TimeSpec => []TimeKept
  OBVIOUS
<1>1. TimeInv /\ [TimeNext]_time_vars => TimeInv'
  <2> SUFFICES ASSUME TimeInv, [TimeNext]_time_vars PROVE TimeInv'
    OBVIOUS
  <2>1. CASE UNCHANGED time_vars
    <3>1. TimeTypeOK' /\ InCharge'
      BY <2>1 DEF time_vars, TimeInv, TimeTypeOK, InCharge, TimerFreq
    <3>2. SetBack'
      BY <2>1, SettingStays DEF time_vars, TimeInv, TimeTypeOK
    <3>3. Stamping'
      BY <2>1 DEF time_vars, TimeInv, Stamping
    <3>4. TimeKept'
      BY <2>1, AnswersStay DEF time_vars
    <3> QED
      BY <3>1, <3>2, <3>3, <3>4 DEF TimeInv
  <2>2. ASSUME NEW t \in TimesToSet, NEW zone \in {0, 1}, ALT_SETTIMEOFDAY(t, zone) PROVE TimeInv'
    BY <2>2, SetKeeps
  <2>3. ASSUME NEW us \in TimesToSleep, ALT_USLEEP(us) PROVE TimeInv'
    BY <2>3, UsleepKeeps
  <2>4. CASE AltTimerInit \/ TimerCounts \/ alt_avalon_timer_sc_irq
    BY <2>4, TimerStarts, CountKeeps, TickKeeps
  <2>5. CASE ALT_GETTIMEOFDAY \/ ALT_TIMES
    BY <2>5, GetKeeps, TimesKeeps
  <2>6. CASE alt_timestamp_start \/ alt_timestamp
    BY <2>6, StampStartKeeps, StampKeeps
  <2> QED
    BY <2>1, <2>2, <2>3, <2>4, <2>5, <2>6 DEF TimeNext
<1>2. TimeInv => TimeKept
  BY DEF TimeInv
<1> QED
  BY <1>1, <1>2, TimeInvInit, PTL DEF TimeSpec

(***************************************************************************)
(* The heap.  Nobody looks at the -1 of an sbrk() that fails for the       *)
(* profiler, so that the blocks are apart as long as no block has that     *)
(* address.                                                                *)
(***************************************************************************)
Heap == [heap_end : Nat, slab_ptr : Int, slab_size : Nat, blocks : Seq(Int \X Nat)]

NoneFailed(m) == \A i \in DOMAIN m.blocks : m.blocks[i][1] # -1

Apart(b, c) == b[1] + b[2] <= c[1] \/ c[1] + c[2] <= b[1]

WordAligned(a) == a % 4 = 0

InHeap(m, b) ==
    /\ WordAligned(b[1]) /\ b[1] >= HeapStart
    /\ b[1] + b[2] <= HeapLimit /\ b[1] + b[2] <= m.heap_end

(* What is left of the slab is a block that is nobody's yet. *)
Left(m) == <<m.slab_ptr, m.slab_size>>

HeapSafe(m) ==
    /\ m.heap_end >= HeapStart
    /\ \A i \in DOMAIN m.blocks : InHeap(m, m.blocks[i])
    /\ \A i \in DOMAIN m.blocks : \A k \in 1..i - 1 : Apart(m.blocks[i], m.blocks[k])
    /\ m.slab_size > 0 =>
          InHeap(m, Left(m)) /\ \A i \in DOMAIN m.blocks : Apart(m.blocks[i], Left(m))

HeapKept(m) == m \in Heap /\ (NoneFailed(m) => HeapSafe(m))

(* The buffer of the samples is one of the blocks.                         *)
BufferKept(m, s) ==
    s.pcsamples # 0 => \E i \in DOMAIN m.blocks : m.blocks[i] = <<s.pcsamples, 2 * Buckets>>

Samplings == [need_init : BOOLEAN, pcsamples : Int, samples : [0..Buckets - 1 -> Int], starts : Nat]

ProfilerInv ==
    HeapKept(memory) /\ sampling \in Samplings /\ BufferKept(memory, sampling)

LEMMA Sizes ==
    /\ HeapStart \in Nat /\ HeapStart > 0 /\ HeapLimit \in Nat /\ Requests \subseteq Nat
    /\ SlabBytes \in Nat /\ EntryBytes \in Nat /\ EntryBytes > 0 /\ WordAligned(EntryBytes)
    /\ EntryBytes <= SlabBytes
    /\ BucketBytes \in Nat /\ BucketBytes > 0 /\ TextBytes \in Nat /\ TextBytes % BucketBytes = 0
<1>1. \A n \in Nat \ {0} : n \in Nat /\ n > 0 OBVIOUS
<1>2. {SlabBytes, EntryBytes, BucketBytes, TextBytes} \subseteq Nat \ {0} /\ HeapStart \in Nat \ {0}
    BY ProfilerAssumption DEF ProfilerAssumption
<1> QED BY <1>1, <1>2, ProfilerAssumption, Zenon DEF ProfilerAssumption, WordAligned

(* Aligned() rounds up to the next word. *)
LEMMA AlignedIsNext ==
    ASSUME NEW address \in Nat
    PROVE  /\ Aligned(address) \in Nat /\ Aligned(address) >= address
           /\ WordAligned(Aligned(address))
<1>1. (address + 3) \div 4 \in Nat /\ 4 * ((address + 3) \div 4) >= address
    BY SMT
<1> DEFINE q == (address + 3) \div 4
<1>2. q \in Nat BY <1>1
<1>3. Aligned(address) = q * 4 BY DEF Aligned
<1> HIDE DEF q
<1>4. (q * 4) % 4 = 0 /\ q * 4 \in Nat BY <1>2, SMT
<1>5. q * 4 >= address BY <1>1, <1>2, SMT DEF q
<1> QED BY <1>3, <1>4, <1>5 DEF WordAligned

LEMMA WordsAdd ==
    ASSUME NEW a \in Int, NEW b \in Int, WordAligned(a), WordAligned(b)
    PROVE  WordAligned(a + b)
BY SMT DEF WordAligned

(* What sbrk() does. *)
LEMMA SbrkGives ==
    ASSUME NEW m \in Heap, NEW incr \in Nat
    PROVE  /\ ALT_SBRK(m, incr).m \in Heap /\ ALT_SBRK(m, incr).ptr \in Int
           /\ ALT_SBRK(m, incr).m.blocks = m.blocks
           /\ ALT_SBRK(m, incr).m.slab_ptr = m.slab_ptr
           /\ ALT_SBRK(m, incr).m.slab_size = m.slab_size
           /\ ALT_SBRK(m, incr).m.heap_end >= m.heap_end
           /\ ALT_SBRK(m, incr).ptr # -1 =>
                 /\ WordAligned(ALT_SBRK(m, incr).ptr) /\ ALT_SBRK(m, incr).ptr >= m.heap_end
                 /\ ALT_SBRK(m, incr).ptr + incr <= HeapLimit
                 /\ ALT_SBRK(m, incr).ptr + incr <= ALT_SBRK(m, incr).m.heap_end
<1> DEFINE base == Aligned(m.heap_end)
<1>1. m.heap_end \in Nat /\ m.slab_ptr \in Int /\ m.slab_size \in Nat /\ m.blocks \in Seq(Int \X Nat)
    BY DEF Heap
<1>2. base \in Nat /\ base >= m.heap_end /\ WordAligned(base)
    BY <1>1, AlignedIsNext
<1> HIDE DEF base
<1>3. m = [heap_end |-> m.heap_end, slab_ptr |-> m.slab_ptr, slab_size |-> m.slab_size, blocks |-> m.blocks]
    BY DEF Heap
<1>4. CASE base + incr > HeapLimit
    <2>1. ALT_SBRK(m, incr) = [ptr |-> -1, m |-> [m EXCEPT !.heap_end = base]]
        BY <1>4 DEF ALT_SBRK, base
    <2>2. ALT_SBRK(m, incr).m = [m EXCEPT !.heap_end = base] /\ ALT_SBRK(m, incr).ptr = -1
        BY <2>1
    <2>3. [m EXCEPT !.heap_end = base] =
            [heap_end |-> base, slab_ptr |-> m.slab_ptr, slab_size |-> m.slab_size, blocks |-> m.blocks]
        BY <1>3
    <2> QED BY <1>1, <1>2, <2>2, <2>3 DEF Heap
<1>5. CASE ~(base + incr > HeapLimit)
    <2>1. ALT_SBRK(m, incr) = [ptr |-> base, m |-> [m EXCEPT !.heap_end = base + incr]]
        BY <1>5 DEF ALT_SBRK, base
    <2>2. ALT_SBRK(m, incr).m = [m EXCEPT !.heap_end = base + incr] /\ ALT_SBRK(m, incr).ptr = base
        BY <2>1
    <2>3. [m EXCEPT !.heap_end = base + incr] =
            [heap_end |-> base + incr, slab_ptr |-> m.slab_ptr, slab_size |-> m.slab_size, blocks |-> m.blocks]
        BY <1>3
    <2>4. base + incr \in Nat /\ base + incr >= m.heap_end /\ base + incr <= HeapLimit
        BY <1>1, <1>2, <1>5, Sizes
    <2> QED BY <1>1, <1>2, <2>2, <2>3, <2>4 DEF Heap
<1> QED BY <1>4, <1>5

(* A request that fails changes nothing that is handed out. *)
LEMMA SbrkKeeps ==
    ASSUME NEW m, HeapKept(m), NEW incr \in Nat
    PROVE  HeapKept(ALT_SBRK(m, incr).m)
<1> DEFINE n == ALT_SBRK(m, incr).m
<1>1. /\ m \in Heap /\ n \in Heap /\ n.blocks = m.blocks /\ n.slab_ptr = m.slab_ptr
      /\ n.slab_size = m.slab_size /\ n.heap_end >= m.heap_end
    BY SbrkGives DEF HeapKept
<1> HIDE DEF n
<1>2. NoneFailed(n) => HeapSafe(m) BY <1>1 DEF HeapKept, NoneFailed
<1>3. \A b \in Int \X Nat : InHeap(m, b) => InHeap(n, b)
    BY <1>1, Sizes DEF InHeap, Heap
<1>4. \A i \in DOMAIN m.blocks : m.blocks[i] \in Int \X Nat
    BY <1>1 DEF Heap
<1>5. Left(n) = Left(m) /\ Left(m) \in Int \X Nat
    BY <1>1 DEF Left, Heap
<1>6. NoneFailed(n) => HeapSafe(n)
    <2> SUFFICES ASSUME HeapSafe(m) PROVE HeapSafe(n) BY <1>2
    <2>1. n.heap_end >= HeapStart
        BY <1>1, Sizes DEF HeapSafe, Heap
    <2>2. \A i \in DOMAIN n.blocks : InHeap(n, n.blocks[i])
        BY <1>1, <1>3, <1>4 DEF HeapSafe
    <2>3. \A i \in DOMAIN n.blocks : \A k \in 1..i - 1 : Apart(n.blocks[i], n.blocks[k])
        BY <1>1 DEF HeapSafe
    <2>4. n.slab_size > 0 =>
            InHeap(n, Left(n)) /\ \A i \in DOMAIN n.blocks : Apart(n.blocks[i], Left(n))
        BY <1>1, <1>3, <1>5 DEF HeapSafe
    <2> QED BY <2>1, <2>2, <2>3, <2>4 DEF HeapSafe
<1> QED BY <1>1, <1>6 DEF HeapKept, n

(* A block that is in the heap and apart from the others may be handed out. *)
LEMMA HandingOutKeeps ==
    ASSUME NEW m, HeapKept(m), NEW ptr \in Int, NEW bytes \in Nat,
           NoneFailed(m) /\ ptr # -1 =>
              /\ InHeap(m, <<ptr, bytes>>)
              /\ \A i \in DOMAIN m.blocks : Apart(<<ptr, bytes>>, m.blocks[i])
              /\ m.slab_size > 0 => Apart(<<ptr, bytes>>, Left(m))
    PROVE  HeapKept([m EXCEPT !.blocks = Append(@, <<ptr, bytes>>)])
<1> DEFINE n == [m EXCEPT !.blocks = Append(@, <<ptr, bytes>>)]
           b == <<ptr, bytes>>
<1>1. m \in Heap /\ b \in Int \X Nat /\ m.blocks \in Seq(Int \X Nat)
    BY DEF HeapKept, Heap
<1>a. n = [heap_end |-> m.heap_end, slab_ptr |-> m.slab_ptr, slab_size |-> m.slab_size,
           blocks |-> Append(m.blocks, b)]
    <2>1. m = [heap_end |-> m.heap_end, slab_ptr |-> m.slab_ptr, slab_size |-> m.slab_size,
               blocks |-> m.blocks]
        BY <1>1 DEF Heap
    <2> DEFINE more == Append(m.blocks, b)
    <2> HIDE DEF more
    <2>2. [m EXCEPT !.blocks = more] =
            [heap_end |-> m.heap_end, slab_ptr |-> m.slab_ptr, slab_size |-> m.slab_size,
             blocks |-> more]
        BY <2>1
    <2> QED BY <2>2 DEF more
<1>b. b[1] = ptr OBVIOUS
<1>c. Append(m.blocks, b) \in Seq(Int \X Nat) BY <1>1
<1> HIDE DEF b
<1>2. /\ n \in Heap /\ n.blocks = Append(m.blocks, b) /\ n.slab_ptr = m.slab_ptr
      /\ n.slab_size = m.slab_size /\ n.heap_end = m.heap_end
    BY <1>1, <1>a, <1>c DEF Heap
<1> HIDE DEF n, b
<1>3. /\ Len(n.blocks) = Len(m.blocks) + 1 /\ Len(m.blocks) \in Nat
      /\ DOMAIN m.blocks = 1..Len(m.blocks) /\ DOMAIN n.blocks = 1..Len(m.blocks) + 1
      /\ \A i \in 1..Len(m.blocks) : n.blocks[i] = m.blocks[i]
      /\ n.blocks[Len(m.blocks) + 1] = b
    BY <1>1, <1>2
<1>4. NoneFailed(n) => NoneFailed(m) /\ ptr # -1
    <2>1. Len(m.blocks) + 1 \in DOMAIN n.blocks /\ DOMAIN m.blocks \subseteq DOMAIN n.blocks
        BY <1>3
    <2> QED BY <1>3, <1>b, <2>1 DEF NoneFailed
<1>5. Left(n) = Left(m) BY <1>2 DEF Left
<1>6. \A c \in Int \X Nat : InHeap(m, c) => InHeap(n, c)
    BY <1>2 DEF InHeap
<1>7. NoneFailed(n) => HeapSafe(n)
    <2> SUFFICES ASSUME NoneFailed(n) PROVE HeapSafe(n) OBVIOUS
    <2>0. HeapSafe(m) /\ InHeap(m, b) /\ (\A i \in DOMAIN m.blocks : Apart(b, m.blocks[i]))
          /\ (m.slab_size > 0 => Apart(b, Left(m)))
        BY <1>4 DEF HeapKept, b
    <2>1. n.heap_end >= HeapStart
        BY <1>2, <2>0 DEF HeapSafe
    <2>2. \A i \in DOMAIN n.blocks : InHeap(n, n.blocks[i])
        BY <1>2, <1>3, <2>0 DEF HeapSafe, InHeap
    <2>3. \A i \in DOMAIN n.blocks : \A k \in 1..i - 1 : Apart(n.blocks[i], n.blocks[k])
        <3> TAKE i \in DOMAIN n.blocks
        <3> TAKE k \in 1..i - 1
        <3>1. k \in 1..Len(m.blocks) /\ n.blocks[k] = m.blocks[k] BY <1>3
        <3>2. CASE i = Len(m.blocks) + 1 BY <1>3, <2>0, <3>1, <3>2
        <3>3. CASE i \in 1..Len(m.blocks) BY <1>3, <2>0, <3>1, <3>3 DEF HeapSafe
        <3> QED BY <1>3, <3>2, <3>3
    <2>4. n.slab_size > 0 =>
            InHeap(n, Left(n)) /\ \A i \in DOMAIN n.blocks : Apart(n.blocks[i], Left(n))
        <3>1. n.slab_size > 0 => InHeap(n, Left(n))
            BY <1>2, <1>5, <2>0 DEF HeapSafe, InHeap
        <3>2. ASSUME n.slab_size > 0, NEW i \in DOMAIN n.blocks
              PROVE  Apart(n.blocks[i], Left(n))
            <4>1. CASE i = Len(m.blocks) + 1 BY <1>2, <1>3, <1>5, <2>0, <3>2, <4>1
            <4>2. CASE i \in 1..Len(m.blocks) BY <1>2, <1>3, <1>5, <2>0, <3>2, <4>2 DEF HeapSafe
            <4> QED BY <1>3, <4>1, <4>2
        <3> QED BY <3>1, <3>2
    <2> QED BY <2>1, <2>2, <2>3, <2>4 DEF HeapSafe
<1> QED BY <1>2, <1>7 DEF HeapKept, n, b

(* What sbrk() gives lies behind all there was. *)
LEMMA SbrkHandsOut ==
    ASSUME NEW m, HeapKept(m), NEW bytes \in Nat
    PROVE  HeapKept(HandedOut(ALT_SBRK(m, bytes), bytes).m)
<1> DEFINE r == ALT_SBRK(m, bytes)
           n == r.m
<1>1. /\ m \in Heap /\ n \in Heap /\ r.ptr \in Int /\ n.blocks = m.blocks /\ Left(n) = Left(m)
      /\ n.slab_size = m.slab_size /\ n.heap_end >= m.heap_end
      /\ r.ptr # -1 => /\ WordAligned(r.ptr) /\ r.ptr >= m.heap_end
                       /\ r.ptr + bytes <= HeapLimit /\ r.ptr + bytes <= n.heap_end
    BY SbrkGives DEF HeapKept, Left
<1>2. HeapKept(n) BY SbrkKeeps
<1>3. HandedOut(r, bytes).m = [n EXCEPT !.blocks = Append(@, <<r.ptr, bytes>>)]
    BY DEF HandedOut, ALT_SBRK
<1> HIDE DEF n, r
<1>4. ASSUME NoneFailed(n), r.ptr # -1
      PROVE  /\ InHeap(n, <<r.ptr, bytes>>)
             /\ \A i \in DOMAIN n.blocks : Apart(<<r.ptr, bytes>>, n.blocks[i])
             /\ n.slab_size > 0 => Apart(<<r.ptr, bytes>>, Left(n))
    <2>1. HeapSafe(m) BY <1>1, <1>4 DEF HeapKept, NoneFailed
    <2>2. InHeap(n, <<r.ptr, bytes>>)
        BY <1>1, <1>4, <2>1, Sizes DEF InHeap, HeapSafe, Heap
    <2>3. \A c \in Int \X Nat : InHeap(m, c) => Apart(<<r.ptr, bytes>>, c)
        BY <1>1, <1>4 DEF InHeap, Apart, Heap
    <2>4. \A i \in DOMAIN n.blocks : n.blocks[i] \in Int \X Nat BY <1>1 DEF Heap
    <2>5. Left(n) \in Int \X Nat BY <1>1 DEF Left, Heap
    <2> QED BY <1>1, <2>1, <2>2, <2>3, <2>4, <2>5 DEF HeapSafe
<1>5. HeapKept([n EXCEPT !.blocks = Append(@, <<r.ptr, bytes>>)])
    BY <1>1, <1>2, <1>4, HandingOutKeeps
<1> QED BY <1>3, <1>5 DEF r

(* A piece of the slab leaves what is left of it and the blocks apart.     *)
LEMMA CarvingKeeps ==
    ASSUME NEW m \in Heap, m.slab_size >= EntryBytes,
           NoneFailed(m) /\ m.slab_ptr # -1 => HeapSafe(m)
    PROVE  HeapKept(HandedOut([ptr |-> m.slab_ptr, m |-> Carved(m)], EntryBytes).m)
<1> DEFINE p == m.slab_ptr
           n == [heap_end |-> m.heap_end, slab_ptr |-> p + EntryBytes,
                 slab_size |-> m.slab_size - EntryBytes,
                 blocks |-> Append(m.blocks, <<p, EntryBytes>>)]
           b == <<p, EntryBytes>>
<1>0. /\ m.heap_end \in Nat /\ p \in Int /\ m.slab_size \in Nat /\ m.blocks \in Seq(Int \X Nat)
      /\ EntryBytes \in Nat /\ EntryBytes > 0
      /\ m = [heap_end |-> m.heap_end, slab_ptr |-> p, slab_size |-> m.slab_size, blocks |-> m.blocks]
    BY Sizes DEF Heap
<1>1. HandedOut([ptr |-> m.slab_ptr, m |-> Carved(m)], EntryBytes).m = n
    BY <1>0 DEF HandedOut, Carved
<1>2. m.slab_size - EntryBytes \in Nat /\ p + EntryBytes \in Int /\ b \in Int \X Nat
    BY <1>0
<1>3. n \in Heap BY <1>0, <1>2 DEF Heap
<1>4. /\ Len(n.blocks) = Len(m.blocks) + 1 /\ Len(m.blocks) \in Nat
      /\ DOMAIN m.blocks = 1..Len(m.blocks) /\ DOMAIN n.blocks = 1..Len(m.blocks) + 1
      /\ \A i \in 1..Len(m.blocks) : n.blocks[i] = m.blocks[i]
      /\ n.blocks[Len(m.blocks) + 1] = b
    BY <1>0, <1>2
<1>5. n.heap_end = m.heap_end /\ n.slab_size = m.slab_size - EntryBytes
      /\ Left(n) = <<p + EntryBytes, m.slab_size - EntryBytes>> /\ Left(m) = <<p, m.slab_size>>
    BY DEF Left
<1>6. b[1] = p /\ b[2] = EntryBytes OBVIOUS
<1>7. NoneFailed(n) => NoneFailed(m) /\ p # -1
    BY <1>4, <1>6 DEF NoneFailed
<1> HIDE DEF n, b
<1>8. ASSUME NoneFailed(n) PROVE HeapSafe(n)
    <2>1. HeapSafe(m) BY <1>7, <1>8 DEF p
    <2>2. InHeap(m, Left(m)) /\ \A i \in DOMAIN m.blocks : Apart(m.blocks[i], Left(m))
        BY <1>0, <2>1 DEF HeapSafe
    <2>3. WordAligned(p) /\ p >= HeapStart /\ p + m.slab_size <= HeapLimit /\ p + m.slab_size <= m.heap_end
        BY <1>5, <2>2 DEF InHeap
    <2> HIDE DEF p
    <2>4. InHeap(n, b)
        BY <1>0, <1>2, <1>5, <1>6, <2>3, Sizes DEF InHeap
    <2>5. WordAligned(p + EntryBytes)
        BY <1>0, <2>3, Sizes, WordsAdd
    <2>6. InHeap(n, Left(n))
        <3>1. Left(n)[1] = p + EntryBytes /\ Left(n)[2] = m.slab_size - EntryBytes BY <1>5
        <3>2. /\ p + EntryBytes >= HeapStart
              /\ p + EntryBytes + (m.slab_size - EntryBytes) = p + m.slab_size
            BY <1>0, <2>3, Sizes
        <3> QED BY <1>5, <2>3, <2>5, <3>1, <3>2 DEF InHeap
    <2>7. \A c \in Int \X Nat : Apart(c, Left(m)) => Apart(c, b) /\ Apart(b, c) /\ Apart(c, Left(n))
        BY <1>0, <1>2, <1>5, <1>6 DEF Apart
    <2>8. \A i \in DOMAIN m.blocks : m.blocks[i] \in Int \X Nat BY <1>0
    <2>9. \A i \in DOMAIN n.blocks : InHeap(n, n.blocks[i])
        BY <1>4, <1>5, <2>1, <2>4 DEF HeapSafe, InHeap
    <2>10. \A i \in DOMAIN n.blocks : \A k \in 1..i - 1 : Apart(n.blocks[i], n.blocks[k])
        <3> TAKE i \in DOMAIN n.blocks
        <3> TAKE k \in 1..i - 1
        <3>1. k \in 1..Len(m.blocks) /\ n.blocks[k] = m.blocks[k] BY <1>4
        <3>2. CASE i = Len(m.blocks) + 1 BY <1>4, <2>2, <2>7, <2>8, <3>1, <3>2
        <3>3. CASE i \in 1..Len(m.blocks) BY <1>4, <2>1, <3>1, <3>3 DEF HeapSafe
        <3> QED BY <1>4, <3>2, <3>3
    <2>11. Apart(b, Left(n))
        BY <1>0, <1>2, <1>5, <1>6 DEF Apart
    <2>12. \A i \in DOMAIN n.blocks : Apart(n.blocks[i], Left(n))
        BY <1>4, <2>2, <2>7, <2>8, <2>11
    <2>13. n.heap_end >= HeapStart BY <1>5, <2>1 DEF HeapSafe
    <2> QED BY <2>6, <2>9, <2>10, <2>12, <2>13 DEF HeapSafe
<1> QED BY <1>1, <1>3, <1>8 DEF HeapKept

(* What mcount_allocate() gives is a block of its own, if the slab is.     *)
LEMMA AllocationKeeps ==
    ASSUME NEW m, HeapKept(m)
    PROVE  HeapKept(mcount_allocate(m).m)
<1> DEFINE slab == ALT_SBRK(m, SlabBytes)
           fresh == [slab.m EXCEPT !.slab_ptr = slab.ptr, !.slab_size = SlabBytes]
<1>0. m \in Heap /\ m.slab_size \in Nat BY DEF HeapKept, Heap
<1>1. CASE ~(EntryBytes > m.slab_size)
    <2>1. mcount_allocate(m) = HandedOut([ptr |-> m.slab_ptr, m |-> Carved(m)], EntryBytes)
        BY <1>1 DEF mcount_allocate
    <2>2. m.slab_size >= EntryBytes BY <1>0, <1>1, Sizes
    <2> QED BY <1>0, <2>1, <2>2, CarvingKeeps DEF HeapKept
<1>2. CASE EntryBytes > m.slab_size
    <2>1. mcount_allocate(m) = HandedOut([ptr |-> fresh.slab_ptr, m |-> Carved(fresh)], EntryBytes)
        BY <1>2 DEF mcount_allocate
    <2>2. /\ slab.m \in Heap /\ slab.ptr \in Int /\ slab.m.blocks = m.blocks
          /\ slab.m.heap_end >= m.heap_end
          /\ slab.ptr # -1 => /\ WordAligned(slab.ptr) /\ slab.ptr >= m.heap_end
                              /\ slab.ptr + SlabBytes <= HeapLimit
                              /\ slab.ptr + SlabBytes <= slab.m.heap_end
        BY <1>0, SbrkGives, Sizes
    <2>3. HeapKept(slab.m) BY SbrkKeeps, Sizes
    <2> HIDE DEF slab
    <2>4. /\ fresh \in Heap /\ fresh.slab_ptr = slab.ptr /\ fresh.slab_size = SlabBytes
          /\ fresh.blocks = m.blocks /\ fresh.heap_end = slab.m.heap_end
        BY <2>2, Sizes DEF Heap
    <2> HIDE DEF fresh
    <2>5. ASSUME NoneFailed(fresh), slab.ptr # -1 PROVE HeapSafe(fresh)
        <3>1. HeapSafe(slab.m) /\ HeapSafe(m)
            BY <2>2, <2>3, <2>4, <2>5 DEF NoneFailed, HeapKept
        <3>2. fresh.heap_end >= HeapStart BY <2>4, <3>1 DEF HeapSafe
        <3>3. \A i \in DOMAIN fresh.blocks : InHeap(fresh, fresh.blocks[i])
            BY <2>2, <2>4, <3>1 DEF HeapSafe, InHeap
        <3>4. \A i \in DOMAIN fresh.blocks : \A k \in 1..i - 1 : Apart(fresh.blocks[i], fresh.blocks[k])
            BY <2>4, <3>1 DEF HeapSafe
        <3>5. Left(fresh) = <<slab.ptr, SlabBytes>> BY <2>4 DEF Left
        <3>6. InHeap(fresh, Left(fresh))
            BY <1>0, <2>2, <2>4, <2>5, <3>1, <3>5, Sizes DEF InHeap, HeapSafe, Heap
        <3>7. \A c \in Int \X Nat : InHeap(m, c) => Apart(c, Left(fresh))
            <4> TAKE c \in Int \X Nat
            <4>1. c[1] \in Int /\ c[2] \in Nat /\ (InHeap(m, c) => c[1] + c[2] <= m.heap_end)
                BY DEF InHeap
            <4>2. Left(fresh)[1] = slab.ptr BY <3>5
            <4>3. slab.ptr >= m.heap_end /\ m.heap_end \in Nat BY <1>0, <2>2, <2>5 DEF Heap
            <4>4. InHeap(m, c) => c[1] + c[2] <= slab.ptr BY <2>2, <4>1, <4>3
            <4> QED BY <4>2, <4>4 DEF Apart
        <3>8. \A i \in DOMAIN m.blocks : m.blocks[i] \in Int \X Nat BY <1>0 DEF Heap
        <3>9. \A i \in DOMAIN fresh.blocks : Apart(fresh.blocks[i], Left(fresh))
            BY <2>4, <3>1, <3>7, <3>8 DEF HeapSafe
        <3> QED BY <3>2, <3>3, <3>4, <3>6, <3>9 DEF HeapSafe
    <2>6. fresh.slab_size >= EntryBytes BY <2>4, Sizes
    <2> QED BY <2>1, <2>4, <2>5, <2>6, CarvingKeeps
<1> QED BY <1>1, <1>2

(* Blocks are only ever added. *)
BlocksOf(m, n) ==
    DOMAIN m.blocks \subseteq DOMAIN n.blocks /\ \A i \in DOMAIN m.blocks : n.blocks[i] = m.blocks[i]

LEMMA HandingOutAdds ==
    ASSUME NEW m, m.blocks \in Seq(Int \X Nat), NEW n, NEW b \in Int \X Nat,
           n.blocks = Append(m.blocks, b)
    PROVE  BlocksOf(m, n)
<1>1. /\ DOMAIN m.blocks = 1..Len(m.blocks) /\ DOMAIN n.blocks = 1..Len(m.blocks) + 1
      /\ Len(m.blocks) \in Nat
      /\ \A i \in 1..Len(m.blocks) : n.blocks[i] = m.blocks[i]
    OBVIOUS
<1> QED BY <1>1 DEF BlocksOf

LEMMA SbrkAdds ==
    ASSUME NEW m \in Heap, NEW bytes \in Nat
    PROVE  /\ BlocksOf(m, HandedOut(ALT_SBRK(m, bytes), bytes).m)
           /\ \E i \in DOMAIN HandedOut(ALT_SBRK(m, bytes), bytes).m.blocks :
                 HandedOut(ALT_SBRK(m, bytes), bytes).m.blocks[i] = <<ALT_SBRK(m, bytes).ptr, bytes>>
<1> DEFINE r == ALT_SBRK(m, bytes)
<1>1. r.m \in Heap /\ r.ptr \in Int /\ r.m.blocks = m.blocks /\ m.blocks \in Seq(Int \X Nat)
    BY SbrkGives DEF Heap
<1>2. HandedOut(r, bytes).m = [r.m EXCEPT !.blocks = Append(@, <<r.ptr, bytes>>)]
    BY DEF HandedOut, ALT_SBRK
<1> HIDE DEF r
<1>3. HandedOut(r, bytes).m.blocks = Append(m.blocks, <<r.ptr, bytes>>)
    BY <1>1, <1>2 DEF Heap
<1>4. <<r.ptr, bytes>> \in Int \X Nat BY <1>1
<1> DEFINE h == HandedOut(r, bytes).m
           b == <<r.ptr, bytes>>
<1> HIDE DEF h, b
<1>5. h.blocks = Append(m.blocks, b) /\ b \in Int \X Nat BY <1>3, <1>4 DEF h, b
<1>6. m.blocks \in Seq(Int \X Nat) BY <1>1
<1>8. /\ DOMAIN m.blocks = 1..Len(m.blocks) /\ DOMAIN h.blocks = 1..Len(m.blocks) + 1
      /\ Len(m.blocks) \in Nat /\ h.blocks[Len(m.blocks) + 1] = b
    BY <1>5, <1>6
<1>7. BlocksOf(m, h) /\ \E i \in DOMAIN h.blocks : h.blocks[i] = b
    <2>1. BlocksOf(m, h) BY <1>5, <1>6, HandingOutAdds
    <2>2. Len(m.blocks) + 1 \in DOMAIN h.blocks BY <1>8
    <2> QED BY <1>8, <2>1, <2>2
<1> QED BY <1>7, Zenon DEF r, h, b

LEMMA CarvingAdds ==
    ASSUME NEW m \in Heap
    PROVE  BlocksOf(m, HandedOut([ptr |-> m.slab_ptr, m |-> Carved(m)], EntryBytes).m)
<1>1. m.blocks \in Seq(Int \X Nat) /\ <<m.slab_ptr, EntryBytes>> \in Int \X Nat
    BY Sizes DEF Heap
<1>2. HandedOut([ptr |-> m.slab_ptr, m |-> Carved(m)], EntryBytes).m.blocks
        = Append(m.blocks, <<m.slab_ptr, EntryBytes>>)
    BY DEF HandedOut, Carved, Heap
<1> QED BY <1>1, <1>2, HandingOutAdds

LEMMA AllocationAdds ==
    ASSUME NEW m \in Heap
    PROVE  BlocksOf(m, mcount_allocate(m).m)
<1> DEFINE slab == ALT_SBRK(m, SlabBytes)
           fresh == [slab.m EXCEPT !.slab_ptr = slab.ptr, !.slab_size = SlabBytes]
<1>1. CASE ~(EntryBytes > m.slab_size)
    BY <1>1, CarvingAdds DEF mcount_allocate
<1>2. CASE EntryBytes > m.slab_size
    <2>1. mcount_allocate(m) = HandedOut([ptr |-> fresh.slab_ptr, m |-> Carved(fresh)], EntryBytes)
        BY <1>2 DEF mcount_allocate
    <2>2. slab.m \in Heap /\ slab.ptr \in Int /\ slab.m.blocks = m.blocks
        BY SbrkGives, Sizes
    <2> HIDE DEF slab
    <2>3. fresh \in Heap /\ fresh.blocks = m.blocks
        BY <2>2, Sizes DEF Heap
    <2> HIDE DEF fresh
    <2>4. BlocksOf(fresh, mcount_allocate(m).m) BY <2>1, <2>3, CarvingAdds
    <2> QED BY <2>3, <2>4 DEF BlocksOf
<1> QED BY <1>1, <1>2

LEMMA BufferStays ==
    ASSUME NEW m, NEW n, NEW s, BufferKept(m, s), BlocksOf(m, n)
    PROVE  BufferKept(n, s)
BY DEF BufferKept, BlocksOf

(* The masked part of __mcount_record() keeps the heap and the buffer. *)
LEMMA RecordKeeps ==
    ASSUME NEW m, HeapKept(m), NEW s, BufferKept(m, s), NEW self, NEW from, NEW address
    PROVE  HeapKept(Record(m, self, from, address).m) /\ BufferKept(Record(m, self, from, address).m, s)
<1> DEFINE entry == IF address = 0 THEN mcount_allocate(m) ELSE [ptr |-> address, m |-> m]
<1>1. Record(m, self, from, address).m = mcount_allocate(entry.m).m
    BY DEF Record
<1>2. HeapKept(entry.m) /\ BufferKept(entry.m, s)
    <2>1. CASE address = 0
        <3>1. entry.m = mcount_allocate(m).m BY <2>1
        <3> HIDE DEF entry
        <3> QED BY <3>1, AllocationKeeps, AllocationAdds, BufferStays DEF HeapKept
    <2>2. CASE address # 0 BY <2>2
    <2> QED BY <2>1, <2>2
<1> HIDE DEF entry
<1>3. HeapKept(mcount_allocate(entry.m).m) BY <1>2, AllocationKeeps
<1>4. BufferKept(mcount_allocate(entry.m).m, s)
    BY <1>2, AllocationAdds, BufferStays DEF HeapKept
<1> QED BY <1>1, <1>3, <1>4

LEMMA BucketsAreWhole ==
    /\ Buckets \in Nat
    /\ \A pc \in 0..TextBytes - 1 : Bucket(pc) \in Nat /\ Bucket(pc) + 1 <= Buckets
<1> DEFINE q == TextBytes \div BucketBytes
<1>1. q \in Nat /\ TextBytes = (BucketBytes * q) + (TextBytes % BucketBytes)
    BY Sizes, SMT
<1>2. TextBytes = BucketBytes * q BY <1>1, Sizes
<1> HIDE DEF q
<1>3. ASSUME NEW pc \in 0..TextBytes - 1
      PROVE  pc \div BucketBytes \in Nat /\ pc \div BucketBytes + 1 <= q
    <2> DEFINE d == pc \div BucketBytes
    <2>0. pc \in Nat /\ pc < TextBytes BY <1>3, Sizes
    <2>1. d \in Nat /\ BucketBytes * d <= pc
        BY <2>0, Sizes, SMT
    <2> HIDE DEF d
    <2>2. BucketBytes * d < BucketBytes * q BY <1>1, <1>2, <2>0, <2>1, Sizes
    <2>3. d < q
        <3> SUFFICES ASSUME d >= q PROVE FALSE BY <1>1, <2>1
        <3>1. BucketBytes * d >= BucketBytes * q BY <1>1, <2>1, Sizes, SMT
        <3> QED BY <1>1, <2>1, <2>2, <3>1, Sizes
    <2> QED BY <1>1, <2>1, <2>3 DEF d
<1> QED BY <1>1, <1>3 DEF q, Buckets, Bucket

LEMMA BufferFits ==
    ASSUME NEW m, NEW s, HeapKept(m), NoneFailed(m), BufferKept(m, s), s.pcsamples # 0
    PROVE  \A pc \in 0..TextBytes - 1 : \E i \in DOMAIN m.blocks :
             /\ m.blocks[i] = <<s.pcsamples, 2 * Buckets>>
             /\ 2 * Bucket(pc) + 2 <= m.blocks[i][2]
<1>1. PICK i \in DOMAIN m.blocks : m.blocks[i] = <<s.pcsamples, 2 * Buckets>>
    BY DEF BufferKept
<1>2. m.blocks[i][2] = 2 * Buckets BY <1>1
<1>3. \A pc \in 0..TextBytes - 1 : 2 * Bucket(pc) + 2 <= 2 * Buckets
    BY BucketsAreWhole
<1> QED BY <1>1, <1>2, <1>3

(* The invariant says what BlocksApart says of a heap that was enough. *)
LEMMA KeptIsApart == ProfilerInv => (NoneFailed(memory) => BlocksApart)
<1> SUFFICES ASSUME ProfilerInv, NoneFailed(memory) PROVE BlocksApart OBVIOUS
<1>1. HeapSafe(memory) BY DEF ProfilerInv, HeapKept
<1>2. \A i \in DOMAIN memory.blocks :
        /\ memory.blocks[i][1] % 4 = 0 /\ memory.blocks[i][1] >= HeapStart
        /\ memory.blocks[i][1] + memory.blocks[i][2] <= HeapLimit
        /\ \A k \in 1..i - 1 :
              \/ memory.blocks[i][1] + memory.blocks[i][2] <= memory.blocks[k][1]
              \/ memory.blocks[k][1] + memory.blocks[k][2] <= memory.blocks[i][1]
    BY <1>1, Zenon DEF HeapSafe, InHeap, WordAligned, Apart
<1>3. sampling.pcsamples # 0 =>
        \A pc \in 0..TextBytes - 1 : \E i \in DOMAIN memory.blocks :
             /\ memory.blocks[i] = <<sampling.pcsamples, 2 * Buckets>>
             /\ 2 * Bucket(pc) + 2 <= memory.blocks[i][2]
    BY BufferFits DEF ProfilerInv
<1> QED BY <1>2, <1>3, Zenon DEF BlocksApart

LEMMA ProfilerInvInit == ProfilerInit => ProfilerInv
<1> SUFFICES ASSUME ProfilerInit PROVE ProfilerInv OBVIOUS
<1>1. memory = [heap_end |-> HeapStart, slab_ptr |-> 0, slab_size |-> 0, blocks |-> <<>>]
    BY DEF ProfilerInit
<1>2. memory \in Heap BY <1>1, Sizes DEF Heap
<1>3. DOMAIN memory.blocks = {} BY <1>1
<1>4. HeapSafe(memory) BY <1>1, <1>3, Sizes DEF HeapSafe
<1>5. sampling \in Samplings /\ sampling.pcsamples = 0
    BY BucketsAreWhole DEF ProfilerInit, Samplings, NoSamples
<1> QED BY <1>2, <1>4, <1>5 DEF ProfilerInv, HeapKept, BufferKept

(* Both ways of a start of the sampler. *)
LEMMA StartingKeeps ==
    ASSUME ProfilerInv
    PROVE  /\ HeapKept(PcsampleInit(memory).m) /\ PcsampleInit(memory).sampling \in Samplings
           /\ BufferKept(PcsampleInit(memory).m, PcsampleInit(memory).sampling)
<1>0. HeapKept(memory) /\ memory \in Heap /\ sampling \in Samplings /\ BufferKept(memory, sampling)
    BY DEF ProfilerInv, HeapKept
<1>1. CASE ticks_per_second = 0
    <2>1. PcsampleInit(memory) = [m |-> memory, sampling |-> [sampling EXCEPT !.need_init = TRUE]]
        BY <1>1 DEF PcsampleInit
    <2>2. [sampling EXCEPT !.need_init = TRUE] \in Samplings
          /\ [sampling EXCEPT !.need_init = TRUE].pcsamples = sampling.pcsamples
        BY <1>0 DEF Samplings
    <2> DEFINE s == [sampling EXCEPT !.need_init = TRUE]
    <2> HIDE DEF s
    <2>3. s \in Samplings /\ BufferKept(memory, s) BY <1>0, <2>2 DEF s, BufferKept
    <2>4. PcsampleInit(memory).m = memory /\ PcsampleInit(memory).sampling = s BY <2>1 DEF s
    <2> QED BY <1>0, <2>3, <2>4
<1>2. CASE ticks_per_second # 0
    <2> DEFINE r == ALT_SBRK(memory, 2 * Buckets)
               m == HandedOut(r, 2 * Buckets).m
               s == [need_init |-> FALSE, pcsamples |-> r.ptr, samples |-> NoSamples,
                     starts |-> sampling.starts + 1]
    <2>1. PcsampleInit(memory) = [m |-> m, sampling |-> s] BY <1>2 DEF PcsampleInit
    <2>2. 2 * Buckets \in Nat BY BucketsAreWhole
    <2>3. HeapKept(m) BY <1>0, <2>2, SbrkHandsOut
    <2>4. r.ptr \in Int BY <1>0, <2>2, SbrkGives
    <2>5. \E i \in DOMAIN m.blocks : m.blocks[i] = <<r.ptr, 2 * Buckets>>
        BY <1>0, <2>2, SbrkAdds
    <2> HIDE DEF m, r
    <2>6. s \in Samplings BY <1>0, <2>4, BucketsAreWhole DEF Samplings, NoSamples
    <2>7. BufferKept(m, s) BY <2>5 DEF BufferKept
    <2> HIDE DEF s
    <2>8. PcsampleInit(memory).m = m /\ PcsampleInit(memory).sampling = s BY <2>1
    <2> QED BY <2>3, <2>6, <2>7, <2>8
<1> QED BY <1>1, <1>2

LEMMA ProfilerInvNext == ProfilerInv /\ [ProfilerNext]_profiler_vars => ProfilerInv'
<1> SUFFICES ASSUME ProfilerInv, [ProfilerNext]_profiler_vars PROVE ProfilerInv' OBVIOUS
<1>0. HeapKept(memory) /\ memory \in Heap /\ sampling \in Samplings /\ BufferKept(memory, sampling)
    BY DEF ProfilerInv, HeapKept
<1>1. ASSUME UNCHANGED <<memory, sampling>> PROVE ProfilerInv'
    BY <1>0, <1>1 DEF ProfilerInv
<1>2. CASE main_calls
    <2>1. CASE \E arc \in Arcs : WalkFunctions(arc) BY <1>1, <2>1 DEF WalkFunctions
    <2>2. CASE WalkArcs BY <1>1, <2>2 DEF WalkArcs
    <2>3. CASE LoadCount BY <1>1, <2>3 DEF LoadCount
    <2>4. CASE StoreCount BY <1>1, <2>4 DEF StoreCount
    <2>5. CASE TestNeedInit BY <1>1, <2>5 DEF TestNeedInit
    <2>6. CASE ClearNeedInit
        <3>1. memory' = memory /\ sampling' = [sampling EXCEPT !.need_init = FALSE]
            BY <2>6 DEF ClearNeedInit
        <3>2. sampling' \in Samplings /\ sampling'.pcsamples = sampling.pcsamples
            BY <1>0, <3>1 DEF Samplings
        <3> QED BY <1>0, <3>1, <3>2 DEF ProfilerInv, BufferKept
    <2>7. CASE nios2_pcsample_init
        <3>1. memory' = PcsampleInit(memory).m /\ sampling' = PcsampleInit(memory).sampling
            BY <2>7 DEF nios2_pcsample_init
        <3> QED BY <3>1, StartingKeeps DEF ProfilerInv
    <2>8. CASE RecordArc
        <3>1. memory' = Record(memory, mcount.self, mcount.from, mcount.entry).m /\ sampling' = sampling
            BY <2>8 DEF RecordArc
        <3> QED BY <1>0, <3>1, RecordKeeps DEF ProfilerInv
    <2> QED BY <1>2, <2>1, <2>2, <2>3, <2>4, <2>5, <2>6, <2>7, <2>8 DEF main_calls
<1>3. ASSUME NEW bytes \in Requests, main_allocates(bytes) PROVE ProfilerInv'
    <2> DEFINE r == ALT_SBRK(memory, bytes)
    <2>1. memory' = (IF r.ptr = -1 THEN r.m ELSE HandedOut(r, bytes).m) /\ sampling' = sampling
        BY <1>3 DEF main_allocates
    <2>2. bytes \in Nat BY <1>3, Sizes
    <2>3. HeapKept(r.m) /\ HeapKept(HandedOut(r, bytes).m) BY <1>0, <2>2, SbrkKeeps, SbrkHandsOut
    <2>4. r.m.blocks = memory.blocks BY <1>0, <2>2, SbrkGives
    <2>5. BlocksOf(memory, HandedOut(r, bytes).m) BY <1>0, <2>2, SbrkAdds
    <2>6. BlocksOf(memory, r.m) BY <2>4 DEF BlocksOf
    <2> HIDE DEF r
    <2>7. HeapKept(memory') /\ BlocksOf(memory, memory')
        BY <2>1, <2>3, <2>5, <2>6
    <2>8. BufferKept(memory', sampling) BY <1>0, <2>7, BufferStays
    <2> QED BY <1>0, <2>1, <2>7, <2>8 DEF ProfilerInv
<1>4. CASE ClockStarts BY <1>1, <1>4 DEF ClockStarts
<1>5. ASSUME NEW arc \in Arcs, HandlerCalls(arc) PROVE ProfilerInv'
    <2> DEFINE start == IF sampling.need_init THEN PcsampleInit(memory)
                        ELSE [m |-> memory, sampling |-> sampling]
               entry == FindFunction(arc[1])
    <2>1. \/ UNCHANGED <<memory, sampling>>
          \/ memory' = Record(start.m, arc[1], arc[2], entry).m /\ sampling' = start.sampling
        BY <1>5 DEF HandlerCalls
    <2>2. HeapKept(start.m) /\ start.sampling \in Samplings /\ BufferKept(start.m, start.sampling)
        BY <1>0, StartingKeeps
    <2> HIDE DEF start, entry
    <2>3. /\ HeapKept(Record(start.m, arc[1], arc[2], entry).m)
          /\ BufferKept(Record(start.m, arc[1], arc[2], entry).m, start.sampling)
        BY <2>2, RecordKeeps
    <2> QED BY <1>1, <2>1, <2>2, <2>3 DEF ProfilerInv
<1>6. ASSUME NEW pc \in 0..TextBytes - 1, nios2_pcsample(pc) PROVE ProfilerInv'
    <2>1. memory' = memory /\ sampling' = [sampling EXCEPT !.samples[Bucket(pc)] = @ + 1]
        BY <1>6 DEF nios2_pcsample
    <2>2. sampling' \in Samplings /\ sampling'.pcsamples = sampling.pcsamples
        <3> DEFINE more == [sampling.samples EXCEPT ![Bucket(pc)] = @ + 1]
        <3>1. sampling' = [sampling EXCEPT !.samples = more] BY <1>0, <2>1 DEF Samplings
        <3>2. sampling.samples \in [0..Buckets - 1 -> Int] BY <1>0 DEF Samplings
        <3>3. Bucket(pc) \in 0..Buckets - 1 BY <1>6, BucketsAreWhole
        <3>6. sampling.samples[Bucket(pc)] \in Int BY <3>2, <3>3, Zenon
        <3>5. sampling.samples[Bucket(pc)] + 1 \in Int BY <3>6
        <3>4. more \in [0..Buckets - 1 -> Int]
            <4> DEFINE I == 0..Buckets - 1
            <4> HIDE DEF I
            <4>1. sampling.samples \in [I -> Int] /\ Bucket(pc) \in I BY <3>2, <3>3 DEF I
            <4>2. more \in [I -> Int] BY <3>5, <4>1
            <4> QED BY <4>2 DEF I
        <3> HIDE DEF more
        <3> QED BY <1>0, <3>1, <3>4 DEF Samplings
    <2> QED BY <1>0, <2>1, <2>2 DEF ProfilerInv, BufferKept
<1> QED BY <1>1, <1>2, <1>3, <1>4, <1>5, <1>6 DEF ProfilerNext, profiler_vars

(* As long as no sbrk() failed for the profiler, whatever interrupts what: *)
(* every block is aligned, in the heap and nobody else's, and no sample is *)
(* counted outside of the histogram (alt_sbrk.c:65-100, alt_gmon.c:133-148,*)
(* 216-271).                                                               *)
THEOREM BlocksAreApart == ProfilerSpec => [](NoneFailed(memory) => BlocksApart)
<1> QED BY ProfilerInvInit, ProfilerInvNext, KeptIsApart, PTL DEF ProfilerSpec
================================================================================
