------------------------------- MODULE MCLibrary -------------------------------
(* The parts of the library that run in the program's own time, and the    *)
(* hardware they address, side by side: they share no state, so that a     *)
(* behaviour is one of one part, and the other parts stay at rest.         *)
EXTENDS OnchipFlash, Files, HalTime, SystemMap, Profiler, Printing, Exceptions, ConsoleIoctl

MCSectors == <<{0}, {1}, {2}>>
Data(n) == {[i \in 1..n |-> i % 2 = b] : b \in {0, 1}}
MCFlashCalls ==
    {[op |-> "write", offset |-> 1, data |-> d] : d \in Data(2)}
    \cup {[op |-> "write", offset |-> o, data |-> [i \in 1..6 |-> i % 2 = 0]] : o \in {1, 5}}
    \cup {[op |-> "write", offset |-> o, data |-> d] : o \in {9, 12}, d \in Data(2)}
    \cup {[op |-> "erase_block", offset |-> o, data |-> <<>>] : o \in {0, 2, 8}}
    \cup {[op |-> "write_block", offset |-> o, data |-> d] : o \in {3, 8}, d \in Data(3)}
    \cup {[op |-> "read", offset |-> 11, data |-> d] : d \in Data(1) \cup Data(2)}

Uart == <<"/", "u">>
Mount == <<"/", "m", "/">>
Other == <<"/", "m", "d">>
MCSysDevices == <<Uart, <<>>>>
MCFilesystems == <<Mount, Other>>
MCStdDevices == [f \in 0..2 |-> Uart]
MCProvides == (Uart :> {"read", "write", "ioctl"}) @@ (Null :> {"write"})
              @@ (Mount :> {"read", "write", "lseek", "fstat"}) @@ (Other :> {"read"})
MCNames == {Uart, Other \o <<"/", "x">>, Other \o <<"x">>, <<"/", "m">>}

MCPeriods == {<<3, "us">>, <<1, "ms">>, <<2, "ms">>, <<1, "s">>}
MCTimes == {[sec |-> 0, usec |-> 0], [sec |-> 1, usec |-> 11], [sec |-> 2, usec |-> 5]}

MCArcs == {<<"f", "main">>, <<"f", "g">>, <<"g", "main">>}

Literal == [chars |-> <<"a">>, conv |-> "", value |-> 0]
Conversion(chars, conv, value) == [chars |-> chars, conv |-> conv, value |-> value]
LogDirectives ==
    {Literal, Conversion(<<>>, "%", 0), Conversion(<<"5">>, "d", 200), Conversion(<<"0", "5">>, "d", 200),
     Conversion(<<"0", "3">>, "x", 10), Conversion(<<>>, "X", 171), Conversion(<<"l">>, "u", 0),
     Conversion(<<>>, "o", 9), Conversion(<<"1", "0">>, "i", 127), Conversion(<<"2">>, "s", <<"b">>),
     Conversion(<<>>, "c", <<"b">>), Conversion(<<"3", ".", "1">>, "d", 128)}
AltDirectives ==
    {Literal, Conversion(<<>>, "%", 0), Conversion(<<>>, "x", 0), Conversion(<<>>, "x", 171),
     Conversion(<<>>, "x", 10), Conversion(<<>>, "s", <<"b", "c">>), Conversion(<<>>, "c", <<"b">>)}
MCFormats ==
    ({"alt_log"} \X {<<d, e>> : d, e \in LogDirectives})
    \cup ({"alt_printf"} \X {<<d, e>> : d, e \in AltDirectives})
MCEchoed == UNION {[1..n -> {"a", "^D", "NUL"}] : n \in 0..4}

MCCode == <<"plain", "plain", "disable", "plain", "enable">>

CONSTANT Parts

VARIABLE part

library_vars == <<part, flash_vars, files_vars, time_vars, map_vars, profiler_vars, printing_vars,
                  exception_vars, ioctl_vars>>

LibraryInit ==
    /\ part \in Parts
    /\ FlashInit /\ (part = "flash" \/ (read_only /\ cells = [a \in Bytes |-> FALSE]))
    /\ TimeInit /\ (part = "time" \/ (role = "none" /\ timer_period = <<1, "ms">>))
    /\ FilesInit /\ MapInit /\ ProfilerInit /\ PrintingInit /\ ExceptionsInit
    /\ IoctlInit /\ (part = "ioctl" \/ (console = "uart" /\ ~baud.fixed /\ presence.timeout = IntMax))

LibraryNext ==
    /\ UNCHANGED part
    /\ \/ /\ part = "flash" /\ FlashNext
          /\ UNCHANGED <<files_vars, time_vars, map_vars, profiler_vars,
                         printing_vars, exception_vars, ioctl_vars>>
       \/ /\ part = "files" /\ FilesNext
          /\ UNCHANGED <<flash_vars, time_vars, map_vars, profiler_vars,
                         printing_vars, exception_vars, ioctl_vars>>
       \/ /\ part = "time" /\ TimeNext
          /\ UNCHANGED <<flash_vars, files_vars, map_vars, profiler_vars,
                         printing_vars, exception_vars, ioctl_vars>>
       \/ /\ part = "map" /\ MapNext
          /\ UNCHANGED <<flash_vars, files_vars, time_vars, profiler_vars,
                         printing_vars, exception_vars, ioctl_vars>>
       \/ /\ part = "profiler" /\ ProfilerNext
          /\ UNCHANGED <<flash_vars, files_vars, time_vars, map_vars,
                         printing_vars, exception_vars, ioctl_vars>>
       \/ /\ part = "printing" /\ PrintingNext
          /\ UNCHANGED <<flash_vars, files_vars, time_vars, map_vars,
                         profiler_vars, exception_vars, ioctl_vars>>
       \/ /\ part = "exceptions" /\ ExceptionsNext
          /\ UNCHANGED <<flash_vars, files_vars, time_vars, map_vars,
                         profiler_vars, printing_vars, ioctl_vars>>
       \/ /\ part = "ioctl" /\ IoctlNext
          /\ UNCHANGED <<flash_vars, files_vars, time_vars, map_vars,
                         profiler_vars, printing_vars, exception_vars>>

LibrarySpec == LibraryInit /\ [][LibraryNext]_library_vars
================================================================================
