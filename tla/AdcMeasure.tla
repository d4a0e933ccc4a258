------------------------------- MODULE AdcMeasure -------------------------------
(***************************************************************************)
(* The measurements of main(), the table it prints and the calibration:    *)
(* one step per register access of setup_conv(), read_chan() and           *)
(* calibrate_ad7124_8(), with the converters running on their own and      *)
(* usleep() counting the same ticks as they do.  No result is waited for:  *)
(* the code relies on usleep() alone.                                      *)
(***************************************************************************)
EXTENDS Ad7124, Sequences

CONSTANTS N_ADC, N_CHAN,
          ConvSleep,   \* how many ticks usleep() takes behind a batch of conversions,
          GainSleep,   \* of full-scale calibrations,
          OffsSleep    \* and of zero-scale calibrations

(* Each of the waits is long enough: usleep() is all that orders them. *)
ASSUME SleepAssumption ==
    /\ N_ADC \in Nat \ {0} /\ N_CHAN \in 0..6
    /\ ConvSleep \in Nat /\ ConvTime <= ConvSleep
    /\ GainSleep \in Nat /\ GainTime <= GainSleep
    /\ OffsSleep \in Nat /\ OffsTime <= OffsSleep

ADC == 0..(N_ADC - 1)

pchan_2n2222  == <<12, 10, 8, 5, 3, 1>>
nchan_2n2222  == 7
pchan_current == <<13, 11, 9, 6, 4, 2>>
nchan_current == <<12, 10, 8, 5, 3, 1>>
pchan_board_temp == 14
nchan_board_temp == 15
pchan_adc_temp == 16
nchan_adc_temp == 17

(* A batch: every converter is set up in turn, then main() sleeps and      *)
(* reads registers of all of them, each into a row of a table.             *)
Measurement(row, pchan, nchan, pga, reads) ==
    [row |-> row, ch |-> <<pchan, nchan>>, pga |-> pga, fs |-> 640, pmode |-> 3, mode |-> SINGLE,
     init_offs |-> FALSE, sleep |-> ConvSleep, reads |-> reads]

Single(row, pchan, nchan, pga) == Measurement(row, pchan, nchan, pga, << <<row, "DATA">> >>)

current(c) == Single(<<"curr", c>>, pchan_current[c], nchan_current[c], 2)

voltage(c) == Measurement(<<"tsig", c>>, pchan_2n2222[c], nchan_2n2222, 2,
                          << <<<<"stat", c>>, "STATUS">>,
                             <<<<"tsig", c>>, "DATA">>,
                             <<<<"erro", c>>, "ERR">> >>)

(* The batches of a pass, by number: the converters without a sensor, two  *)
(* batches per channel, and the temperatures of converters and board.      *)
LastBatch == 2 * N_CHAN + 4

BatchOf(n) ==
    CASE n = 1             -> Single(<<"bsln", 0>>, 7, 0, 1)
      [] n = 2             -> Single(<<"zero", 0>>, 7, 7, 2)
      [] n = LastBatch - 1 -> Single(<<"atemp", 0>>, pchan_adc_temp, nchan_adc_temp, 2)
      [] n = LastBatch     -> Single(<<"btemp", 0>>, pchan_board_temp, nchan_board_temp, 2)
      [] OTHER             -> IF n % 2 = 1 THEN current((n - 1) \div 2) ELSE voltage((n - 2) \div 2)

Pass == [n \in 1..LastBatch |-> BatchOf(n)]

CalibrationBatch(mode, init_offs, sleep, reads) ==
    [row |-> <<"cal", mode>>, ch |-> <<8, 7>>, pga |-> 2, fs |-> 2047, pmode |-> 1, mode |-> mode,
     init_offs |-> init_offs, sleep |-> sleep, reads |-> reads]

(* Mutant of calibrate_ad7124_8: the offset is calibrated with the old gain. *)
calibrate_Swapped ==
    << CalibrationBatch(ZERO_SCALE, TRUE, OffsSleep, <<>>),
       CalibrationBatch(FULL_SCALE, FALSE, GainSleep,
                        << <<<<"GAIN", 0>>, "GAIN0">>, <<<<"OFFS", 0>>, "OFFS0">> >>) >>

calibrate_ad7124_8 ==
    << CalibrationBatch(FULL_SCALE, TRUE, GainSleep, <<>>),
       CalibrationBatch(ZERO_SCALE, FALSE, OffsSleep,
                        << <<<<"GAIN", 0>>, "GAIN0">>, <<<<"OFFS", 0>>, "OFFS0">> >>) >>

VARIABLES
    todo,       \* the batches that are left, the present one first
    phase,      \* "setup", "sleep", "read", "print" or "commands"
    adc,        \* the converter it is at
    index,      \* the access of setup_conv(), or the row to read
    sleep,      \* ticks left in usleep()
    pass,       \* the parity of the pass
    calibrated, \* whether the last calibration has returned
    converters,
    table,      \* what was read, by row and converter
    overloaded  \* the input pair of one converter that is out of range

adc_vars == <<todo, phase, adc, index, sleep, pass, calibrated, converters, table, overloaded>>

AdcInit ==
    /\ todo = Pass /\ phase = "setup" /\ adc = 0 /\ index = 1
    /\ sleep = 0 /\ pass = 0 /\ calibrated = FALSE
    /\ converters = [a \in ADC |-> PowerUp]
    /\ table = << >>
    /\ overloaded \in ADC \X {Pass[i].ch : i \in 1..Len(Pass)}

batch == Head(todo)

(* Mutant of Accesses: the error register is not read. *)
Accesses_NoErr(b) ==
    <<"CH0_MAP", "CFG0", "FILT0">> \o (IF b.init_offs THEN <<"OFFS0">> ELSE <<>>)
    \o <<"ERREN", "ADC_CTRL">>

(* The accesses of setup_conv(), in order. *)
Accesses(b) ==
    <<"CH0_MAP", "CFG0", "FILT0">> \o (IF b.init_offs THEN <<"OFFS0">> ELSE <<>>)
    \o <<"ERREN", "ADC_CTRL", "ERR">>

ValueToWrite(reg) ==
    CASE reg = "CH0_MAP" -> batch.ch
      [] reg = "CFG0"    -> batch.pga
      [] reg = "FILT0"   -> batch.fs
      [] reg = "OFFS0"   -> <<"nominal">>          \* 0x800000
      [] reg = "ERREN"   -> {"ADC_CAL_ERR", "ADC_CONV_ERR", "ADC_SAT_ERR", "REF_DET_ERR",
                             "SPI_READ_ERR", "SPI_WRITE_ERR"}

(* Mutant of AdvanceSetup: the last converter is left out. *)
AdvanceSetup_NotLast ==
    \/ /\ index < Len(Accesses(batch))
       /\ index' = index + 1 /\ UNCHANGED <<adc, phase, sleep>>
    \/ /\ index = Len(Accesses(batch)) /\ adc < N_ADC - 2
       /\ index' = 1 /\ adc' = adc + 1 /\ UNCHANGED <<phase, sleep>>
    \/ /\ index = Len(Accesses(batch)) /\ adc >= N_ADC - 2
       /\ phase' = "sleep" /\ sleep' = batch.sleep /\ adc' = 0 /\ index' = 1

(* The next access of setup_conv(), the next converter, or usleep(). *)
AdvanceSetup ==
    \/ /\ index < Len(Accesses(batch))
       /\ index' = index + 1 /\ UNCHANGED <<adc, phase, sleep>>
    \/ /\ index = Len(Accesses(batch)) /\ adc < N_ADC - 1
       /\ index' = 1 /\ adc' = adc + 1 /\ UNCHANGED <<phase, sleep>>
    \/ /\ index = Len(Accesses(batch)) /\ adc = N_ADC - 1
       /\ phase' = "sleep" /\ sleep' = batch.sleep /\ adc' = 0 /\ index' = 1

setup_conv ==
    /\ phase = "setup"
    /\ LET reg == Accesses(batch)[index] IN
       \/ /\ reg = "ADC_CTRL"
          /\ \E c \in Started(converters[adc], batch.pmode, batch.mode, pass) :
                converters' = [converters EXCEPT ![adc] = c]
       \/ /\ reg = "ERR"
          /\ converters' = [converters EXCEPT ![adc] = AfterRead(@, "ERR")]
       \/ /\ reg \notin {"ADC_CTRL", "ERR"}
          /\ converters' = [converters EXCEPT ![adc] = Configure(@, reg, ValueToWrite(reg))]
    /\ AdvanceSetup
    /\ UNCHANGED <<todo, pass, calibrated, table, overloaded>>

(* The end of the reads of a batch. *)
AfterBatch ==
    /\ todo' = Tail(todo)
    /\ phase' = IF todo' # <<>> THEN "setup" ELSE IF batch.mode = SINGLE THEN "print" ELSE "commands"
    /\ calibrated' = (calibrated \/ batch.mode = ZERO_SCALE)
    /\ adc' = 0 /\ index' = 1

usleep ==
    /\ phase = "sleep" /\ sleep = 0
    /\ IF batch.reads # <<>> THEN phase' = "read" /\ UNCHANGED <<todo, calibrated, adc, index>>
       ELSE AfterBatch
    /\ UNCHANGED <<sleep, pass, converters, table, overloaded>>

(* A table with one more entry, or a newer one. *)
Enter(t, entry, value) == [e \in DOMAIN t \union {entry} |-> IF e = entry THEN value ELSE t[e]]

read_chan ==
    /\ phase = "read"
    /\ LET row == batch.reads[index][1]
           reg == batch.reads[index][2]
       IN /\ table' = Enter(table, <<row, adc>>, ValueOf(converters[adc], reg))
          /\ converters' = [converters EXCEPT ![adc] = AfterRead(@, reg)]
    /\ \/ /\ adc < N_ADC - 1
          /\ adc' = adc + 1 /\ UNCHANGED <<todo, phase, index, calibrated>>
       \/ /\ adc = N_ADC - 1 /\ index < Len(batch.reads)
          /\ adc' = 0 /\ index' = index + 1 /\ UNCHANGED <<todo, phase, calibrated>>
       \/ /\ adc = N_ADC - 1 /\ index = Len(batch.reads)
          /\ AfterBatch
    /\ UNCHANGED <<sleep, pass, overloaded>>

print_table ==
    /\ phase = "print" /\ phase' = "commands"
    /\ UNCHANGED <<todo, adc, index, sleep, pass, calibrated, converters, table, overloaded>>

(* The host asks for a calibration. *)
Calibrate ==
    /\ phase = "commands"
    /\ todo' = calibrate_ad7124_8 /\ phase' = "setup" /\ calibrated' = FALSE
    /\ UNCHANGED <<adc, index, sleep, pass, converters, table, overloaded>>

NextPass ==
    /\ phase = "commands"
    /\ todo' = Pass /\ phase' = "setup" /\ pass' = 1 - pass
    /\ UNCHANGED <<adc, index, sleep, calibrated, converters, table, overloaded>>

main == setup_conv \/ usleep \/ read_chan \/ print_table \/ Calibrate \/ NextPass

(* A tick: not between the start of a conversion and the read of ERR right *)
(* behind it (under a millisecond), and not while a finished usleep() returns.    *)
Tick ==
    /\ ~(phase = "setup" /\ index > 1 /\ Accesses(batch)[index - 1] = "ADC_CTRL")
    /\ phase = "sleep" => sleep > 0
    /\ sleep' = IF sleep = 0 THEN 0 ELSE sleep - 1
    /\ converters' = [a \in ADC |-> AfterTick(converters[a], overloaded = <<a, converters[a].CH0_MAP>>)]
    /\ UNCHANGED <<todo, phase, adc, index, pass, calibrated, table, overloaded>>

AdcNext == main \/ Tick

AdcSpec == AdcInit /\ [][AdcNext]_adc_vars

--------------------------------------------------------------------------------
(* Every number of the table that is printed comes from a conversion of    *)
(* this pass, between the inputs and with the gain of its row, and no two  *)
(* calibrations apart: it was made with the coefficients the converter has *)
(* now (main.c:573-674, which never looks at RDY).                         *)
TableIsOfThisPass ==
    phase = "print" =>
        \A i \in 1..Len(Pass), a \in ADC :
            LET r == table[<<Pass[i].row, a>>] IN
            /\ r.pass = pass
            /\ r.ch = Pass[i].ch /\ r.cfg = Pass[i].pga
            /\ r.filt = Pass[i].fs /\ r.pmode = Pass[i].pmode
            /\ r.gain = converters[a].GAIN0 /\ r.offs = converters[a].OFFS0

(* The STAT and ERRO rows describe the conversion of the TSIG row: RDY was *)
(* set, and the errors are those of this conversion, neither those of the  *)
(* conversion before it nor the one that waking up may raise               *)
(* (main.c:227-258, 635-637).                                              *)
ErrorsOfThisResult ==
    phase = "print" =>
        \A c \in 1..N_CHAN, a \in ADC :
            /\ table[<<<<"stat", c>>, a>>].rdy
            /\ table[<<<<"erro", c>>, a>>] = table[<<<<"tsig", c>>, a>>].errors

(* Once calibrate_ad7124_8() has returned, every converter works with the  *)
(* coefficients that were printed: a gain found with the nominal offset    *)
(* and an offset found with that gain (main.c:273-297).                    *)
CalibrationHolds ==
    (calibrated /\ phase \in {"print", "commands"}) =>
        \A a \in ADC :
            /\ converters[a].GAIN0 = <<"calibrated", <<"nominal">>>>
            /\ converters[a].OFFS0 = <<"calibrated", converters[a].GAIN0>>
            /\ table[<<<<"GAIN", 0>>, a>>] = converters[a].GAIN0
            /\ table[<<<<"OFFS", 0>>, a>>] = converters[a].OFFS0
================================================================================
