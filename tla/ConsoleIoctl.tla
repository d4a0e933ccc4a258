------------------------------ MODULE ConsoleIoctl ------------------------------
(***************************************************************************)
(* What ioctl() does to the consoles: the speed of the UART, and the time  *)
(* after which a silent JTAG host counts as gone.  A behaviour is about    *)
(* one console.  The settings of the UART that no request can change are   *)
(* one value, `mode`: stop bits, parity, data bits and flow control.       *)
(*                                                                         *)
(* A speed of 0 that the driver accepts is divided by; the program asks    *)
(* for none.                                                               *)
(***************************************************************************)
EXTENDS Naturals

CONSTANTS Freq,            \* UART_0_FREQ
          Speeds, UartModes,  \* the speeds and modes that requests name
          BuiltSpeed,      \* UART_0_BAUD
          BuiltMode,       \* the mode of ALTERA_AVALON_UART_TERMIOS
          IntMax,          \* INT_MAX
          DefaultTimeout,  \* ALTERA_AVALON_JTAG_UART_DEFAULT_TIMEOUT
          MaxQuiet         \* bound of the seconds of silence that are counted

ASSUME IoctlAssumption ==
    /\ {Freq, IntMax, DefaultTimeout, MaxQuiet} \subseteq Nat \ {0}
    /\ Speeds \subseteq 0..Freq /\ BuiltSpeed \in Speeds \ {0} /\ BuiltMode \in UartModes
    /\ DefaultTimeout \in 2..(IntMax - 1)

VARIABLES
    console,   \* "uart" or "jtag"
    termios,   \* sp->termios: ispeed, ospeed, mode
    baud,      \* of the UART: fixed, as its flags say, and the divisor
    presence,  \* of the JTAG UART: sp->timeout, sp->host_inactive, and the bit AC
    reply,     \* what the last ioctl() was asked and returned
    known      \* history: the settings and the time last accepted, and the seconds of silence

ioctl_vars == <<console, termios, baud, presence, reply, known>>

(* Errors are returned negated. *)
EIO == 5
ENOTTY == 25

Settings == [ispeed : Speeds, ospeed : Speeds, mode : UartModes]
Built == [ispeed |-> BuiltSpeed, ospeed |-> BuiltSpeed, mode |-> BuiltMode]
DivisorFor(speed) == (Freq \div speed) - 1

NoReply == [req |-> "none", rc |-> 0, arg |-> 0, got |-> 0]

(* The alarm of the JTAG UART can only be started where there is a clock;  *)
(* without one the timeout is INT_MAX.                                     *)
IoctlInit ==
    /\ console \in {"uart", "jtag"}
    /\ termios = Built
    /\ \E fixed \in BOOLEAN : baud = [fixed |-> fixed, divisor |-> DivisorFor(BuiltSpeed)]
    /\ \E timeout \in {DefaultTimeout, IntMax} :
           presence = [timeout |-> timeout, host_inactive |-> 0, ac |-> FALSE]
    /\ reply = NoReply
    /\ known = [settings |-> Built, wait |-> DefaultTimeout, quiet |-> 0]

Replies(req, rc, arg, got) == reply' = [req |-> req, rc |-> rc, arg |-> arg, got |-> got]

----------------------------------------------------------------------------
(* The UART                                                                *)

altera_avalon_uart_tiocmget ==
    /\ Replies("TIOCMGET", 0, 0, termios)
    /\ UNCHANGED <<termios, baud, known>>

(* What the driver has when it compares the request with its settings.     *)
Updated(term) ==
    IF baud.fixed THEN termios ELSE [termios EXCEPT !.ispeed = term.ispeed, !.ospeed = term.ispeed]

(* Mutant of PutBack: only the speed of the receiver is put back. *)
PutBack_InputOnly(term) == [Updated(term) EXCEPT !.ispeed = termios.ispeed]

(* A refused request: both speeds are put back.                            *)
PutBack(term) == [Updated(term) EXCEPT !.ispeed = termios.ispeed, !.ospeed = termios.ispeed]

altera_avalon_uart_tiocmset(term) ==
    IF Updated(term) # term
    THEN /\ termios' = PutBack(term)
         /\ Replies("TIOCMSET", EIO, term, 0)
         /\ UNCHANGED <<baud, known>>
    ELSE /\ term.ispeed > 0
         /\ termios' = term
         /\ baud' = IF baud.fixed THEN baud ELSE [baud EXCEPT !.divisor = DivisorFor(term.ispeed)]
         /\ Replies("TIOCMSET", 0, term, 0)
         /\ known' = [known EXCEPT !.settings = term]

altera_avalon_uart_ioctl ==
    /\ console = "uart"
    /\ \/ altera_avalon_uart_tiocmget
       \/ \E term \in Settings : altera_avalon_uart_tiocmset(term)
       \/ Replies("other", ENOTTY, 0, 0) /\ UNCHANGED <<termios, baud, known>>
    /\ UNCHANGED <<console, presence>>

----------------------------------------------------------------------------
(* The JTAG UART                                                           *)

Watching == presence.timeout # IntMax
ForEver == IntMax - 1

(* TIOCSTIMEOUT: a time below two seconds means for ever.                  *)
SetTimeout(timeout) ==
    LET wait == IF timeout >= 2 /\ timeout < IntMax THEN timeout ELSE ForEver
    IN  IF Watching
        THEN /\ presence' = [presence EXCEPT !.timeout = wait]
             /\ known' = [known EXCEPT !.wait = wait]
             /\ Replies("TIOCSTIMEOUT", 0, timeout, 0)
        ELSE Replies("TIOCSTIMEOUT", ENOTTY, timeout, 0) /\ UNCHANGED <<presence, known>>

GetConnected ==
    /\ IF Watching
       THEN Replies("TIOCGCONNECTED", 0, 0, presence.host_inactive < presence.timeout)
       ELSE Replies("TIOCGCONNECTED", ENOTTY, 0, FALSE)
    /\ UNCHANGED <<presence, known>>

altera_avalon_jtag_uart_ioctl ==
    /\ console = "jtag"
    /\ \/ \E timeout \in 0..IntMax : SetTimeout(timeout)
       \/ GetConnected
       \/ Replies("other", ENOTTY, 0, 0) /\ UNCHANGED <<presence, known>>
    /\ UNCHANGED <<console, termios, baud>>

(* The host shows itself: the JTAG UART sets AC.                           *)
HostShows ==
    /\ console = "jtag" /\ ~presence.ac
    /\ presence' = [presence EXCEPT !.ac = TRUE]
    /\ UNCHANGED <<console, termios, baud, reply, known>>

(* Mutant of MayCount: the count may reach the time that means for ever. *)
MayCount_OneMore == presence.host_inactive < IntMax - 1

MayCount == presence.host_inactive < IntMax - 2

(* The alarm, every second.                                                *)
altera_avalon_jtag_uart_timeout ==
    /\ console = "jtag" /\ Watching /\ known.quiet < MaxQuiet
    /\ IF presence.ac
       THEN /\ presence' = [presence EXCEPT !.ac = FALSE, !.host_inactive = 0]
            /\ known' = [known EXCEPT !.quiet = 0]
       ELSE /\ presence' = IF MayCount THEN [presence EXCEPT !.host_inactive = @ + 1] ELSE presence
            /\ known' = [known EXCEPT !.quiet = @ + 1]
    /\ reply' = NoReply
    /\ UNCHANGED <<console, termios, baud>>

IoctlNext ==
    \/ altera_avalon_uart_ioctl
    \/ altera_avalon_jtag_uart_ioctl \/ HostShows \/ altera_avalon_jtag_uart_timeout

IoctlSpec == IoctlInit /\ [][IoctlNext]_ioctl_vars

----------------------------------------------------------------------------
(* The UART runs at the speed of the last request that was accepted, and   *)
(* TIOCMGET tells it; a request that was refused has left no trace of      *)
(* itself, so that what TIOCMGET returns may always be set again.  The     *)
(* host counts as gone once it has been silent for the time last asked     *)
(* for, and never when that time is for ever, however long the silence.    *)
SettingsKept ==
    /\ (reply.req = "TIOCMGET" => reply.got = known.settings)
    /\ (reply.req = "TIOCMSET" /\ reply.arg = known.settings => reply.rc = 0)
    /\ (~baud.fixed =>
            /\ (baud.divisor + 1) * known.settings.ispeed <= Freq
            /\ Freq < (baud.divisor + 2) * known.settings.ispeed)
    /\ (reply.req = "TIOCGCONNECTED" /\ reply.rc = 0 =>
            reply.got = (known.quiet < known.wait \/ known.wait = ForEver))
================================================================================
