--------------------------------- MODULE Ad7124 ---------------------------------
(***************************************************************************)
(* The AD7124 converter, as far as main.c uses it (ad7124_regs.h names its *)
(* registers): single conversions and internal calibrations that take a    *)
(* time, the result register, the error register that is cleared by        *)
(* reading it.  A chip is one record.  Time passes in ticks, in which many *)
(* register accesses fit.                                                  *)
(***************************************************************************)
EXTENDS Naturals

CONSTANTS ConvTime,    \* the most ticks that a single conversion takes,
          GainTime,    \* a full-scale calibration,
          OffsTime     \* a zero-scale calibration

ASSUME TimeAssumption == {ConvTime, GainTime, OffsTime} \subseteq Nat \ {0}

(* ADC_Control: the mode field. *)
SINGLE == 1
ZERO_SCALE == 5
FULL_SCALE == 6

LongestTime == [m \in {SINGLE, ZERO_SCALE, FULL_SCALE} |->
                  CASE m = SINGLE     -> ConvTime
                    [] m = ZERO_SCALE -> OffsTime
                    [] m = FULL_SCALE -> GainTime]

(* A result carries what it was made with: the registers, the coefficients *)
(* and the pass of the program in which the conversion was started.        *)
NoResult == [ch |-> <<0, 0>>, cfg |-> 0, filt |-> 0, pmode |-> 0,
             gain |-> <<"factory">>, offs |-> <<"factory">>, pass |-> 0, errors |-> {}]

PowerUp ==
    [CH0_MAP |-> <<0, 0>>, CFG0 |-> 0, FILT0 |-> 0, ERREN |-> {},
     GAIN0 |-> <<"factory">>, OFFS0 |-> <<"factory">>,
     pmode |-> 0, mode |-> SINGLE, left |-> 0,   \* ticks until it is done; 0: standby
     pass |-> 0,                                \* history: when it was started
     DATA |-> NoResult, RDY |-> FALSE, ERR |-> {}]

(* A write to a configuration register; it restarts what is going on. *)
Configure(chip, reg, value) ==
    [chip EXCEPT ![reg] = value, !.left = IF @ = 0 THEN 0 ELSE LongestTime[chip.mode]]

(* A write to ADC_Control takes the chip out of standby, which may raise   *)
(* the reference detection error (main.c:254-257).                         *)
Start(chip, pmode, mode, pass, left, wakeup) ==
    [chip EXCEPT !.pmode = pmode, !.mode = mode, !.left = left, !.pass = pass, !.RDY = FALSE,
                 !.ERR = @ \cup (wakeup \cap chip.ERREN)]

Started(chip, pmode, mode, pass) ==
    {Start(chip, pmode, mode, pass, left, wakeup) :
        left \in 1..LongestTime[mode], wakeup \in {{}, {"REF_DET_ERR"}}}

Done(chip, overload) ==
    LET errors == IF overload THEN {"ADC_SAT_ERR"} \cap chip.ERREN ELSE {} IN
    CASE chip.mode = SINGLE ->
           [chip EXCEPT !.left = 0, !.RDY = TRUE, !.ERR = @ \cup errors,
              !.DATA = [ch |-> chip.CH0_MAP, cfg |-> chip.CFG0, filt |-> chip.FILT0,
                        pmode |-> chip.pmode, gain |-> chip.GAIN0, offs |-> chip.OFFS0,
                        pass |-> chip.pass, errors |-> errors]]
      [] chip.mode = FULL_SCALE -> [chip EXCEPT !.left = 0, !.GAIN0 = <<"calibrated", chip.OFFS0>>]
      [] chip.mode = ZERO_SCALE -> [chip EXCEPT !.left = 0, !.OFFS0 = <<"calibrated", chip.GAIN0>>]

AfterTick(chip, overload) ==
    IF chip.left > 1 THEN [chip EXCEPT !.left = @ - 1]
    ELSE IF chip.left = 1 THEN Done(chip, overload) ELSE chip

(* What reading a register returns, and what it does to the chip. *)
ValueOf(chip, reg) ==
    IF reg = "STATUS" THEN [rdy |-> chip.RDY, error |-> chip.ERR # {}] ELSE chip[reg]

AfterRead(chip, reg) ==
    CASE reg = "DATA" -> [chip EXCEPT !.RDY = FALSE]
      [] reg = "ERR"  -> [chip EXCEPT !.ERR = {}]
      [] OTHER        -> chip
================================================================================
