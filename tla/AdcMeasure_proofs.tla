--------------------------- MODULE AdcMeasure_proofs ---------------------------
(***************************************************************************)
(* The measurements, for every number of converters and of channels and    *)
(* every time that a conversion, a calibration or usleep() takes.          *)
(***************************************************************************)
EXTENDS AdcMeasure, SequenceTheorems, TLAPS

Busy == {"setup", "sleep", "read"}

ChipFields == {"CH0_MAP", "CFG0", "FILT0", "ERREN", "GAIN0", "OFFS0", "pmode", "mode", "left", "pass",
               "DATA", "RDY", "ERR"}

AdcTypeOK ==
    /\ phase \in Busy \union {"print", "commands"}
    /\ adc \in ADC /\ index \in Nat \ {0} /\ sleep \in Nat
    /\ pass \in {0, 1} /\ calibrated \in BOOLEAN
    /\ DOMAIN converters = ADC
    /\ \A a \in ADC : DOMAIN converters[a] = ChipFields /\ converters[a].left \in Nat

--------------------------------------------------------------------------------
(* Where the program is in the pass or in the calibration.                 *)
Length == IF batch.init_offs THEN 7 ELSE 6

(* Access j of setup_conv() is the next one of converter a. *)
Next_(a) ==
    IF phase # "setup" \/ a < adc THEN Length + 1 ELSE IF a = adc THEN index ELSE 1

(* Converter a has been read into row j of the batch. *)
HasRead(j, a) == phase = "read" /\ (j < index \/ (j = index /\ a < adc))

InPass(k)        == k \in 1..LastBatch /\ todo = SubSeq(Pass, k, LastBatch)
InCalibration(k) == k \in 1..2 /\ todo = SubSeq(calibrate_ad7124_8, k, 2)

Place ==
    /\ phase \in Busy =>
          \/ \E k \in 1..LastBatch : InPass(k)
          \/ ~calibrated /\ \E k \in 1..2 : InCalibration(k)
    /\ phase \notin Busy => todo = <<>>
    /\ phase = "setup" => index <= Length
    /\ phase = "read"  => index <= Len(batch.reads)
    /\ phase \notin {"setup", "read"} => adc = 0 /\ index = 1
    /\ phase # "sleep" => sleep = 0

(* What a converter is set to, and whether it is at work. *)
Finished(a) ==
    LET c == converters[a] IN
    /\ batch.mode = SINGLE =>
          /\ c.DATA = [ch |-> batch.ch, cfg |-> batch.pga, filt |-> batch.fs,
                       pmode |-> batch.pmode, gain |-> c.GAIN0, offs |-> c.OFFS0,
                       pass |-> pass, errors |-> c.DATA.errors]
          /\ (\A j \in 1..Len(batch.reads) : batch.reads[j][2] = "DATA" => ~HasRead(j, a)) => c.RDY
          /\ (\A j \in 1..Len(batch.reads) : batch.reads[j][2] = "ERR" => ~HasRead(j, a))
                => c.ERR = c.DATA.errors
    /\ batch.mode = FULL_SCALE => c.GAIN0 = <<"calibrated", <<"nominal">>>>
    /\ batch.mode = ZERO_SCALE => c.OFFS0 = <<"calibrated", c.GAIN0>>

(* Converter c has made the accesses of setup_conv() before access j.      *)
SetUpTo(c, j) ==
    /\ j > 1 => c.CH0_MAP = batch.ch
    /\ j > 2 => c.CFG0 = batch.pga
    /\ j > 3 => c.FILT0 = batch.fs
    /\ j > 4 /\ batch.mode = FULL_SCALE => c.OFFS0 = <<"nominal">>
    /\ j < Length => c.left = 0
    /\ j >= Length =>
           /\ c.pmode = batch.pmode /\ c.mode = batch.mode
           /\ batch.mode = SINGLE => c.pass = pass
           /\ c.left <= batch.sleep
    /\ j = Length => c.left > 0 /\ ~c.RDY

ConverterInv(a) ==
    LET c == converters[a] IN
    /\ SetUpTo(c, Next_(a))
    /\ Next_(a) > Length => IF c.left > 0 THEN c.ERR = {} ELSE Finished(a)
    /\ phase = "sleep" => c.left <= sleep
    /\ phase = "read" => c.left = 0

Converting ==
    /\ phase \in Busy => \A a \in ADC : ConverterInv(a)
    /\ phase \notin Busy => \A a \in ADC : converters[a].left = 0

(* What the table holds. *)
Has(row, a) == <<row, a>> \in DOMAIN table

RowOk(i, a) ==
    /\ Has(Pass[i].row, a)
    /\ LET r == table[<<Pass[i].row, a>>] IN
       /\ r.pass = pass
       /\ r.ch = Pass[i].ch /\ r.cfg = Pass[i].pga
       /\ r.filt = Pass[i].fs /\ r.pmode = Pass[i].pmode
       /\ r.gain = converters[a].GAIN0 /\ r.offs = converters[a].OFFS0

ErrorsOk(c, a) ==
    /\ Has(<<"stat", c>>, a) /\ Has(<<"tsig", c>>, a) /\ Has(<<"erro", c>>, a)
    /\ table[<<<<"stat", c>>, a>>].rdy
    /\ table[<<<<"erro", c>>, a>>] = table[<<<<"tsig", c>>, a>>].errors

RowsBefore(k) ==
    \A a \in ADC :
        /\ \A i \in 1..(k - 1) : RowOk(i, a)
        /\ \A c \in 1..N_CHAN : 2 * c + 2 < k => ErrorsOk(c, a)

GainFound(a) == converters[a].GAIN0 = <<"calibrated", <<"nominal">>>>

CalibrationOk(a) ==
    /\ GainFound(a) /\ converters[a].OFFS0 = <<"calibrated", converters[a].GAIN0>>
    /\ Has(<<"GAIN", 0>>, a) /\ Has(<<"OFFS", 0>>, a)
    /\ table[<<<<"GAIN", 0>>, a>>] = converters[a].GAIN0
    /\ table[<<<<"OFFS", 0>>, a>>] = converters[a].OFFS0

(* What has been read of batch b. *)
ReadOk(b, j, a) ==
    LET row == b.reads[j][1]
        reg == b.reads[j][2]
        c   == converters[a]
        r   == table[<<row, a>>]
    IN /\ Has(row, a)
       /\ CASE reg = "STATUS" -> r.rdy
            [] reg = "ERR"    -> r = c.DATA.errors
            [] OTHER          -> r = c[reg]

Tables ==
    /\ phase \in Busy => \A k \in 1..LastBatch : InPass(k) => RowsBefore(k)
    /\ phase = "print" => RowsBefore(LastBatch + 1)
    /\ phase \in Busy /\ InCalibration(2) => \A a \in ADC : GainFound(a)
    /\ calibrated => \A a \in ADC : CalibrationOk(a)
    /\ phase = "read" =>
          \A a \in ADC, j \in 1..Len(batch.reads) : HasRead(j, a) => ReadOk(batch, j, a)

AdcInv == AdcTypeOK /\ Place /\ Converting /\ Tables
--------------------------------------------------------------------------------
LEMMA ConstantsOf ==
    /\ N_ADC \in Nat /\ N_ADC > 0 /\ N_CHAN \in Nat
    /\ LastBatch \in Nat /\ LastBatch = 2 * N_CHAN + 4 /\ LastBatch > 3
    /\ ADC = 0..(N_ADC - 1)
    /\ ConvSleep \in Nat /\ GainSleep \in Nat /\ OffsSleep \in Nat
    /\ LongestTime[SINGLE] \in 1..ConvSleep
    /\ LongestTime[FULL_SCALE] \in 1..GainSleep
    /\ LongestTime[ZERO_SCALE] \in 1..OffsSleep
  BY SleepAssumption, TimeAssumption
     DEF LastBatch, ADC, LongestTime, SINGLE, FULL_SCALE, ZERO_SCALE

(* The accesses of setup_conv(), with the offset or without it. *)
LEMMA AccessesOf ==
    ASSUME NEW b
    PROVE  LET n == Len(Accesses(b)) IN
           /\ n = (IF b.init_offs THEN 7 ELSE 6)
           /\ Accesses(b)[1] = "CH0_MAP" /\ Accesses(b)[2] = "CFG0" /\ Accesses(b)[3] = "FILT0"
           /\ b.init_offs => Accesses(b)[4] = "OFFS0"
           /\ Accesses(b)[n - 2] = "ERREN" /\ Accesses(b)[n - 1] = "ADC_CTRL" /\ Accesses(b)[n] = "ERR"
<1>1. CASE b.init_offs
  BY <1>1 DEF Accesses
<1>2. CASE ~b.init_offs
  <2>1. Accesses(b) = (<<"CH0_MAP", "CFG0", "FILT0">> \o <<>>) \o <<"ERREN", "ADC_CTRL", "ERR">>
    BY <1>2 DEF Accesses
  <2> QED
    BY <1>2, <2>1
<1> QED
  BY <1>1, <1>2

(* The rest of a sequence, from its element k on. *)
LEMMA SuffixOf ==
    ASSUME NEW S, NEW s \in Seq(S), NEW k \in 1..Len(s)
    PROVE  /\ Head(SubSeq(s, k, Len(s))) = s[k] /\ SubSeq(s, k, Len(s)) # <<>>
           /\ Tail(SubSeq(s, k, Len(s))) = SubSeq(s, k + 1, Len(s))
           /\ SubSeq(s, k + 1, Len(s)) = <<>> <=> k = Len(s)
<1> DEFINE t == SubSeq(s, k, Len(s))
           u == SubSeq(s, k + 1, Len(s))
<1>1. /\ t \in Seq(S) /\ Len(t) = Len(s) - k + 1
      /\ \A i \in 1..(Len(s) - k + 1) : t[i] = s[k + i - 1]
  BY SubSeqProperties
<1>2. /\ u \in Seq(S) /\ Len(u) = Len(s) - k
      /\ \A i \in 1..(Len(s) - k) : u[i] = s[k + i]
  BY SubSeqProperties
<1> HIDE DEF t, u
<1>3. t # <<>> /\ Head(t) = s[k]
  BY <1>1
<1>4. /\ Tail(t) \in Seq(S) /\ Len(Tail(t)) = Len(t) - 1
      /\ \A i \in 1..(Len(t) - 1) : Tail(t)[i] = t[i + 1]
  BY <1>1, <1>3, HeadTailProperties
<1>5. Tail(t) = u
  <2>1. Len(Tail(t)) = Len(u)
    BY <1>1, <1>2, <1>4
  <2>2. ASSUME NEW i \in 1..Len(u) PROVE Tail(t)[i] = u[i]
    <3>1. i \in 1..(Len(t) - 1) /\ i + 1 \in 1..(Len(s) - k + 1) /\ k + (i + 1) - 1 = k + i
      BY <1>1, <1>2
    <3> QED
      BY <1>1, <1>2, <1>4, <3>1
  <2> QED
    BY <1>2, <1>4, <2>1, <2>2, SeqEqual
<1>6. u = <<>> <=> k = Len(s)
  BY <1>2, EmptySeq
<1> QED
  BY <1>3, <1>5, <1>6 DEF t, u

(* A batch of the pass: one conversion, read alone or with its errors.     *)
LEMMA PassBatch ==
    ASSUME NEW k \in 1..LastBatch
    PROVE  /\ Pass[k].mode = SINGLE /\ ~Pass[k].init_offs /\ Pass[k].sleep = ConvSleep
           /\ \/ /\ Pass[k].reads = << <<Pass[k].row, "DATA">> >>
                 /\ \A c \in 1..N_CHAN : k # 2 * c + 2
              \/ \E c \in 1..N_CHAN :
                    /\ k = 2 * c + 2 /\ Pass[k].row = <<"tsig", c>>
                    /\ Pass[k].reads = << <<<<"stat", c>>, "STATUS">>, <<<<"tsig", c>>, "DATA">>,
                                          <<<<"erro", c>>, "ERR">> >>
           /\ \/ k = 1 /\ Pass[k].row = <<"bsln", 0>>
              \/ k = 2 /\ Pass[k].row = <<"zero", 0>>
              \/ k = LastBatch - 1 /\ Pass[k].row = <<"atemp", 0>>
              \/ k = LastBatch /\ Pass[k].row = <<"btemp", 0>>
              \/ \E c \in 1..N_CHAN : k = 2 * c + 1 /\ Pass[k].row = <<"curr", c>>
              \/ \E c \in 1..N_CHAN : k = 2 * c + 2 /\ Pass[k].row = <<"tsig", c>>
<1> USE ConstantsOf
<1> DEFINE Plain(row) == /\ Pass[k].mode = SINGLE /\ ~Pass[k].init_offs /\ Pass[k].sleep = ConvSleep
                         /\ Pass[k].row = row /\ Pass[k].reads = << <<row, "DATA">> >>
<1>0. ASSUME NEW row, NEW p, NEW n, NEW g, Pass[k] = Single(row, p, n, g)
      PROVE  Plain(row)
  BY <1>0 DEF Single, Measurement
<1> HIDE DEF Plain
<1>1. CASE k = 1
  <2>1. Pass[k] = Single(<<"bsln", 0>>, 7, 0, 1)
    BY <1>1 DEF Pass, BatchOf
  <2>2. Plain(<<"bsln", 0>>)
    BY <2>1, <1>0
  <2> QED
    BY <1>1, <2>2 DEF Plain
<1>2. CASE k = 2
  <2>1. Pass[k] = Single(<<"zero", 0>>, 7, 7, 2)
    BY <1>2 DEF Pass, BatchOf
  <2>2. Plain(<<"zero", 0>>)
    BY <2>1, <1>0
  <2> QED
    BY <1>2, <2>2 DEF Plain
<1>3. CASE k = LastBatch - 1
  <2>1. Pass[k] = Single(<<"atemp", 0>>, pchan_adc_temp, nchan_adc_temp, 2)
    BY <1>3 DEF Pass, BatchOf
  <2>2. Plain(<<"atemp", 0>>)
    BY <2>1, <1>0
  <2>3. \A c \in 1..N_CHAN : k # 2 * c + 2
    BY <1>3
  <2> QED
    BY <1>3, <2>2, <2>3 DEF Plain
<1>4. CASE k = LastBatch
  <2>1. Pass[k] = Single(<<"btemp", 0>>, pchan_board_temp, nchan_board_temp, 2)
    BY <1>4 DEF Pass, BatchOf
  <2>2. Plain(<<"btemp", 0>>)
    BY <2>1, <1>0
  <2>3. \A c \in 1..N_CHAN : k # 2 * c + 2
    BY <1>4
  <2> QED
    BY <1>4, <2>2, <2>3 DEF Plain
<1>5. CASE k \in 3..(2 * N_CHAN + 2) /\ k % 2 = 1
  <2> DEFINE c == (k - 1) \div 2
  <2>1. c \in 1..N_CHAN /\ k = 2 * c + 1
    BY <1>5
  <2>2. Pass[k] = current(c)
    <3>1. k # 1 /\ k # 2 /\ k # LastBatch - 1 /\ k # LastBatch
      BY <1>5
    <3>2. Pass[k] = IF k % 2 = 1 THEN current((k - 1) \div 2) ELSE voltage((k - 2) \div 2)
      BY <3>1, Zenon DEF Pass, BatchOf
    <3> QED
      BY <3>2, <1>5
  <2> HIDE DEF c
  <2>3. Plain(<<"curr", c>>)
    BY <2>2, <1>0 DEF current
  <2>4. \A d \in 1..N_CHAN : k # 2 * d + 2
    BY <1>5
  <2> QED
    BY <2>1, <2>3, <2>4 DEF Plain
<1>6. CASE k \in 3..(2 * N_CHAN + 2) /\ k % 2 # 1
  <2> DEFINE c == (k - 2) \div 2
  <2>1. c \in 1..N_CHAN /\ k = 2 * c + 2
    BY <1>6
  <2>2. Pass[k] = voltage(c)
    <3>1. k # 1 /\ k # 2 /\ k # LastBatch - 1 /\ k # LastBatch
      BY <1>6
    <3>2. Pass[k] = IF k % 2 = 1 THEN current((k - 1) \div 2) ELSE voltage((k - 2) \div 2)
      BY <3>1, Zenon DEF Pass, BatchOf
    <3> QED
      BY <3>2, <1>6
  <2> HIDE DEF c
  <2>3. /\ Pass[k].mode = SINGLE /\ ~Pass[k].init_offs /\ Pass[k].sleep = ConvSleep
        /\ Pass[k].row = <<"tsig", c>>
        /\ Pass[k].reads = << <<<<"stat", c>>, "STATUS">>, <<<<"tsig", c>>, "DATA">>,
                              <<<<"erro", c>>, "ERR">> >>
    BY <2>2 DEF voltage, Measurement
  <2> QED
    BY <2>1, <2>3
<1>7. k = 1 \/ k = 2 \/ k = LastBatch - 1 \/ k = LastBatch \/ k \in 3..(2 * N_CHAN + 2)
  OBVIOUS
<1> QED
  BY <1>1, <1>2, <1>3, <1>4, <1>5, <1>6, <1>7

LEMMA PassWhole ==
    /\ Pass \in Seq({Pass[i] : i \in 1..LastBatch}) /\ Len(Pass) = LastBatch
    /\ SubSeq(Pass, 1, LastBatch) = Pass
<1> DEFINE S == {Pass[i] : i \in 1..LastBatch}
<1>1. Pass \in Seq(S) /\ Len(Pass) = LastBatch
  <2>1. DOMAIN Pass = 1..LastBatch /\ Pass = [i \in 1..LastBatch |-> Pass[i]]
    BY DEF Pass
  <2>2. \A i \in 1..LastBatch : Pass[i] \in S
    OBVIOUS
  <2> HIDE DEF S
  <2>3. Pass \in [1..LastBatch -> S]
    BY <2>1, <2>2, Zenon
  <2> QED
    BY <2>3, ConstantsOf
<1> HIDE DEF S
<1>2. SubSeq(Pass, 1, LastBatch) = Pass
  BY <1>1, SubSeqProperties, SeqEqual, ConstantsOf
<1> QED
  BY <1>1, <1>2 DEF S

LEMMA PassSuffix ==
    ASSUME NEW k \in 1..LastBatch
    PROVE  LET t == SubSeq(Pass, k, LastBatch) IN
           /\ t # <<>> /\ Head(t) = Pass[k] /\ Len(t) = LastBatch - k + 1
           /\ Tail(t) = SubSeq(Pass, k + 1, LastBatch)
           /\ Tail(t) = <<>> <=> k = LastBatch
<1> DEFINE S == {Pass[i] : i \in 1..LastBatch}
<1>1. Pass \in Seq(S) /\ Len(Pass) = LastBatch
  BY PassWhole
<1> HIDE DEF S
<1>2. Len(SubSeq(Pass, k, LastBatch)) = LastBatch - k + 1
  BY <1>1, SubSeqProperties, ConstantsOf
<1> QED
  BY <1>1, <1>2, SuffixOf

LEMMA CalibrationSuffix ==
    LET t(k) == SubSeq(calibrate_ad7124_8, k, 2) IN
    /\ t(1) = calibrate_ad7124_8 /\ t(1) # <<>> /\ t(2) # <<>>
    /\ Head(t(1)) = calibrate_ad7124_8[1] /\ Head(t(2)) = calibrate_ad7124_8[2]
    /\ Tail(t(1)) = t(2) /\ Tail(t(2)) = <<>>
<1> DEFINE f == CalibrationBatch(FULL_SCALE, TRUE, GainSleep, <<>>)
           z == CalibrationBatch(ZERO_SCALE, FALSE, OffsSleep,
                                 << <<<<"GAIN", 0>>, "GAIN0">>, <<<<"OFFS", 0>>, "OFFS0">> >>)
<1>0. calibrate_ad7124_8 = <<f, z>>
  BY DEF calibrate_ad7124_8
<1> HIDE DEF f, z
<1>1. calibrate_ad7124_8 \in Seq({f, z}) /\ Len(calibrate_ad7124_8) = 2
  BY <1>0
<1> QED
  BY <1>1, SuffixOf, SubSeqProperties

(* What is asked of the converters, in a pass or in the calibration.       *)
Measures(b) ==
    /\ b.mode = SINGLE /\ ~b.init_offs /\ b.sleep = ConvSleep
    /\ \/ b.reads = << <<b.row, "DATA">> >>
       \/ \E c \in 1..N_CHAN :
             b.reads = << <<<<"stat", c>>, "STATUS">>, <<<<"tsig", c>>, "DATA">>,
                          <<<<"erro", c>>, "ERR">> >>

FindsGain(b) == b.mode = FULL_SCALE /\ b.init_offs /\ b.sleep = GainSleep /\ b.reads = <<>>

FindsOffset(b) ==
    /\ b.mode = ZERO_SCALE /\ ~b.init_offs /\ b.sleep = OffsSleep
    /\ b.reads = << <<<<"GAIN", 0>>, "GAIN0">>, <<<<"OFFS", 0>>, "OFFS0">> >>

LEMMA InPassFacts ==
    ASSUME NEW k, InPass(k)
    PROVE  /\ k \in 1..LastBatch /\ todo # <<>> /\ batch = Pass[k] /\ Measures(batch)
           /\ Len(todo) = LastBatch - k + 1
           /\ Tail(todo) = SubSeq(Pass, k + 1, LastBatch)
           /\ Tail(todo) = <<>> <=> k = LastBatch
<1>1. k \in 1..LastBatch
  BY DEF InPass
<1>2. Measures(Pass[k])
  BY <1>1, PassBatch DEF Measures
<1>3. todo = SubSeq(Pass, k, LastBatch)
  BY DEF InPass
<1> QED
  BY <1>1, <1>2, <1>3, PassSuffix DEF batch

LEMMA InCalibrationFacts ==
    /\ InCalibration(1) => /\ todo # <<>> /\ FindsGain(batch)
                           /\ Tail(todo) = SubSeq(calibrate_ad7124_8, 2, 2) /\ Tail(todo) # <<>>
    /\ InCalibration(2) => todo # <<>> /\ FindsOffset(batch) /\ Tail(todo) = <<>>
<1>1. FindsGain(calibrate_ad7124_8[1]) /\ FindsOffset(calibrate_ad7124_8[2])
  BY DEF FindsGain, FindsOffset, calibrate_ad7124_8, CalibrationBatch
<1> QED
  BY <1>1, CalibrationSuffix DEF InCalibration, batch

(* The batch that main() is at. *)
LEMMA PlaceOf ==
    ASSUME Place, phase \in Busy
    PROVE  \/ \E k \in 1..LastBatch : InPass(k) /\ Measures(batch)
           \/ ~calibrated /\ InCalibration(1) /\ FindsGain(batch)
           \/ ~calibrated /\ InCalibration(2) /\ FindsOffset(batch)
<1>1. CASE \E k \in 1..LastBatch : InPass(k)
  BY <1>1, InPassFacts
<1>2. CASE ~calibrated /\ \E k \in 1..2 : InCalibration(k)
  <2>1. InCalibration(1) \/ InCalibration(2)
    BY <1>2
  <2> QED
    BY <1>2, <2>1, InCalibrationFacts
<1> QED
  BY <1>1, <1>2 DEF Place

LEMMA BatchFacts ==
    ASSUME Place, phase \in Busy
    PROVE  /\ batch.mode \in {SINGLE, FULL_SCALE, ZERO_SCALE} /\ todo # <<>>
           /\ LongestTime[batch.mode] \in 1..batch.sleep /\ batch.sleep \in Nat
           /\ batch.init_offs <=> batch.mode = FULL_SCALE
           /\ batch.reads = <<>> <=> batch.mode = FULL_SCALE
           /\ Len(batch.reads) \in Nat /\ (batch.reads # <<>> => Len(batch.reads) > 0)
           /\ batch.mode = SINGLE <=> \E k \in 1..LastBatch : InPass(k)
           /\ Length = IF batch.mode = FULL_SCALE THEN 7 ELSE 6
<1>1. CASE \E k \in 1..LastBatch : InPass(k) /\ Measures(batch)
  <2>1. todo # <<>>
    BY <1>1, InPassFacts
  <2>2. batch.reads # <<>> /\ Len(batch.reads) \in Nat /\ Len(batch.reads) > 0
    <3>1. CASE batch.reads = << <<batch.row, "DATA">> >>
      BY <3>1
    <3>2. CASE \E c \in 1..N_CHAN :
                  batch.reads = << <<<<"stat", c>>, "STATUS">>, <<<<"tsig", c>>, "DATA">>,
                                   <<<<"erro", c>>, "ERR">> >>
      BY <3>2
    <3> QED
      BY <1>1, <3>1, <3>2 DEF Measures
  <2> QED
    BY <1>1, <2>1, <2>2, ConstantsOf DEF Measures, Length, SINGLE, FULL_SCALE, ZERO_SCALE
<1>2. CASE InCalibration(1) /\ FindsGain(batch)
  <2>1. todo # <<>> /\ ~\E k \in 1..LastBatch : InPass(k)
    BY <1>2, InCalibrationFacts, InPassFacts DEF Measures, FindsGain, SINGLE, FULL_SCALE
  <2> QED
    BY <1>2, <2>1, ConstantsOf DEF FindsGain, Length, SINGLE, FULL_SCALE, ZERO_SCALE
<1>3. CASE InCalibration(2) /\ FindsOffset(batch)
  <2>1. todo # <<>> /\ ~\E k \in 1..LastBatch : InPass(k)
    BY <1>3, InCalibrationFacts, InPassFacts DEF Measures, FindsOffset, SINGLE, ZERO_SCALE
  <2> QED
    BY <1>3, <2>1, ConstantsOf DEF FindsOffset, Length, SINGLE, FULL_SCALE, ZERO_SCALE
<1> QED
  BY <1>1, <1>2, <1>3, PlaceOf

--------------------------------------------------------------------------------
(* What an access or a tick does to a converter.                           *)
Same(c, d, fields) == \A f \in fields : d[f] = c[f]

Settings == {"CH0_MAP", "CFG0", "FILT0", "OFFS0", "ERREN"}

LEMMA ConfigureFacts ==
    ASSUME NEW c, DOMAIN c = ChipFields, c.left = 0, NEW reg \in Settings, NEW value
    PROVE  LET d == Configure(c, reg, value) IN
           /\ DOMAIN d = ChipFields /\ d.left = 0 /\ d[reg] = value
           /\ Same(c, d, ChipFields \ {reg})
  BY DEF Configure, Same, ChipFields, Settings

LEMMA StartedFacts ==
    ASSUME NEW c, DOMAIN c = ChipFields, NEW pmode, NEW mode, NEW p,
           NEW d \in Started(c, pmode, mode, p)
    PROVE  /\ DOMAIN d = ChipFields /\ d.left \in 1..LongestTime[mode]
           /\ d.pmode = pmode /\ d.mode = mode /\ d.pass = p /\ d.RDY = FALSE
           /\ Same(c, d, {"CH0_MAP", "CFG0", "FILT0", "ERREN", "GAIN0", "OFFS0", "DATA"})
<1>1. PICK left \in 1..LongestTime[mode], wakeup \in {{}, {"REF_DET_ERR"}} :
         d = Start(c, pmode, mode, p, left, wakeup)
  BY DEF Started
<1> QED
  BY <1>1 DEF Start, Same, ChipFields

LEMMA ReadFacts ==
    ASSUME NEW c, DOMAIN c = ChipFields, NEW reg
    PROVE  LET d == AfterRead(c, reg) IN
           /\ DOMAIN d = ChipFields /\ Same(c, d, ChipFields \ {"RDY", "ERR"})
           /\ reg = "ERR"  => d.ERR = {} /\ d.RDY = c.RDY
           /\ reg = "DATA" => d.ERR = c.ERR /\ d.RDY = FALSE
           /\ reg \notin {"ERR", "DATA"} => d = c
  BY DEF AfterRead, Same, ChipFields

Resting == {"CH0_MAP", "CFG0", "FILT0", "ERREN", "pmode", "mode", "pass"}

(* Converter c a tick later: it waits, goes on or comes to its end.        *)
Ticked(c, d) ==
    /\ DOMAIN d = ChipFields /\ Same(c, d, Resting)
    /\ c.left = 0 => d = c
    /\ c.left > 1 => d.left = c.left - 1 /\ Same(c, d, ChipFields \ {"left"})
    /\ c.left = 1 =>
          /\ d.left = 0
          /\ c.mode # FULL_SCALE => d.GAIN0 = c.GAIN0
          /\ c.mode # ZERO_SCALE => d.OFFS0 = c.OFFS0
          /\ c.mode = SINGLE =>
                /\ d.DATA = [ch |-> c.CH0_MAP, cfg |-> c.CFG0, filt |-> c.FILT0,
                             pmode |-> c.pmode, gain |-> c.GAIN0, offs |-> c.OFFS0,
                             pass |-> c.pass, errors |-> d.DATA.errors]
                /\ d.RDY = TRUE /\ d.ERR = c.ERR \union d.DATA.errors
          /\ c.mode = FULL_SCALE => d.GAIN0 = <<"calibrated", c.OFFS0>>
          /\ c.mode = ZERO_SCALE => d.OFFS0 = <<"calibrated", c.GAIN0>>

LEMMA TickFacts ==
    ASSUME NEW c, DOMAIN c = ChipFields, c.left \in Nat, NEW o,
           c.left = 1 => c.mode \in {SINGLE, FULL_SCALE, ZERO_SCALE}
    PROVE  Ticked(c, AfterTick(c, o))
<1> DEFINE d == AfterTick(c, o)
<1>00. SINGLE # FULL_SCALE /\ SINGLE # ZERO_SCALE /\ FULL_SCALE # ZERO_SCALE
  BY DEF SINGLE, FULL_SCALE, ZERO_SCALE
<1>0. c.left = 1 => d = Done(c, o)
  BY DEF AfterTick
<1>1. CASE c.left = 0
  BY <1>1 DEF AfterTick, Ticked, Same, ChipFields, Resting
<1>2. CASE c.left > 1
  <2>1. d = [c EXCEPT !.left = @ - 1]
    BY <1>2 DEF AfterTick
  <2> QED
    BY <1>2, <2>1 DEF Ticked, Same, ChipFields, Resting
<1>3. CASE c.left = 1 /\ c.mode = SINGLE
  <2> DEFINE errors == IF o THEN {"ADC_SAT_ERR"} \cap c.ERREN ELSE {}
  <2>1. d = [c EXCEPT !.left = 0, !.RDY = TRUE, !.ERR = c.ERR \union errors,
               !.DATA = [ch |-> c.CH0_MAP, cfg |-> c.CFG0, filt |-> c.FILT0,
                         pmode |-> c.pmode, gain |-> c.GAIN0, offs |-> c.OFFS0,
                         pass |-> c.pass, errors |-> errors]]
    BY <1>0, <1>00, <1>3, Zenon DEF Done
  <2> HIDE DEF errors
  <2> QED
    BY <1>3, <2>1 DEF Ticked, Same, ChipFields, Resting, SINGLE, FULL_SCALE, ZERO_SCALE
<1>4. CASE c.left = 1 /\ c.mode = FULL_SCALE
  <2>1. d = [c EXCEPT !.left = 0, !.GAIN0 = <<"calibrated", c.OFFS0>>]
    BY <1>0, <1>00, <1>4, Zenon DEF Done
  <2> QED
    BY <1>4, <2>1 DEF Ticked, Same, ChipFields, Resting, SINGLE, FULL_SCALE, ZERO_SCALE
<1>5. CASE c.left = 1 /\ c.mode = ZERO_SCALE
  <2>1. d = [c EXCEPT !.left = 0, !.OFFS0 = <<"calibrated", c.GAIN0>>]
    BY <1>0, <1>00, <1>5, Zenon DEF Done
  <2> QED
    BY <1>5, <2>1 DEF Ticked, Same, ChipFields, Resting, SINGLE, FULL_SCALE, ZERO_SCALE
<1>6. c.left = 0 \/ c.left > 1 \/ c.left = 1
  OBVIOUS
<1> HIDE DEF d
<1> QED
  BY <1>1, <1>2, <1>3, <1>4, <1>5, <1>6, Zenon

--------------------------------------------------------------------------------
(* setup_conv(): one access of the converter it is at.                     *)
Accessed(c, reg) ==
    IF reg = "ADC_CTRL" THEN Started(c, batch.pmode, batch.mode, pass)
    ELSE IF reg = "ERR" THEN {AfterRead(c, "ERR")} ELSE {Configure(c, reg, ValueToWrite(reg))}

LEMMA AccessFacts ==
    ASSUME AdcTypeOK, Place, phase = "setup",
           NEW c, DOMAIN c = ChipFields, c.left \in Nat, SetUpTo(c, index),
           NEW d \in Accessed(c, Accesses(batch)[index])
    PROVE  /\ DOMAIN d = ChipFields /\ d.left \in Nat
           /\ SetUpTo(d, index + 1)
           /\ index = Length => d.left > 0 /\ d.ERR = {}
           /\ d.GAIN0 = c.GAIN0
           /\ batch.mode # FULL_SCALE => d.OFFS0 = c.OFFS0
<1> DEFINE reg == Accesses(batch)[index]
<1>1. /\ index \in 1..Length /\ index \in Nat /\ Length \in {6, 7}
      /\ batch.init_offs <=> batch.mode = FULL_SCALE
      /\ Length = IF batch.mode = FULL_SCALE THEN 7 ELSE 6
      /\ LongestTime[batch.mode] \in 1..batch.sleep /\ batch.sleep \in Nat
  BY BatchFacts DEF AdcTypeOK, Place, Busy
<1>2. /\ index = 1 => reg = "CH0_MAP"
      /\ index = 2 => reg = "CFG0"
      /\ index = 3 => reg = "FILT0"
      /\ index = 4 /\ batch.mode = FULL_SCALE => reg = "OFFS0"
      /\ index = Length - 2 => reg = "ERREN"
      /\ index = Length - 1 => reg = "ADC_CTRL"
      /\ index = Length => reg = "ERR"
  BY AccessesOf, <1>1 DEF Length
<1> HIDE DEF reg
<1>3. CASE index < Length - 1
  <2>1. reg \in Settings /\ reg \notin {"ADC_CTRL", "ERR"}
    BY <1>1, <1>2, <1>3 DEF Settings
  <2>2. c.left = 0
    BY <1>1, <1>3 DEF SetUpTo
  <2>3. d = Configure(c, reg, ValueToWrite(reg))
    BY <2>1 DEF Accessed, reg
  <2>4. /\ DOMAIN d = ChipFields /\ d.left = 0 /\ d[reg] = ValueToWrite(reg)
        /\ Same(c, d, ChipFields \ {reg})
    BY <2>1, <2>2, <2>3, ConfigureFacts
  <2>5. /\ reg # "CH0_MAP" => d.CH0_MAP = c.CH0_MAP
        /\ reg # "CFG0" => d.CFG0 = c.CFG0
        /\ reg # "FILT0" => d.FILT0 = c.FILT0
        /\ reg # "OFFS0" => d.OFFS0 = c.OFFS0
        /\ d.GAIN0 = c.GAIN0
    BY <2>1, <2>4 DEF Same, ChipFields, Settings
  <2>6. /\ reg = "CH0_MAP" => d.CH0_MAP = batch.ch
        /\ reg = "CFG0" => d.CFG0 = batch.pga
        /\ reg = "FILT0" => d.FILT0 = batch.fs
        /\ reg = "OFFS0" => d.OFFS0 = <<"nominal">>
    BY <2>4 DEF ValueToWrite
  <2>7. /\ index > 1 => c.CH0_MAP = batch.ch
        /\ index > 2 => c.CFG0 = batch.pga
        /\ index > 3 => c.FILT0 = batch.fs
        /\ index > 4 /\ batch.mode = FULL_SCALE => c.OFFS0 = <<"nominal">>
    BY DEF SetUpTo
  <2>8. CASE batch.mode = FULL_SCALE
    <3>1. index \in 1..5 /\ (index = 5 => reg = "ERREN") /\ (index = 4 => reg = "OFFS0")
      BY <1>1, <1>2, <1>3, <2>8
    <3>2. /\ index + 1 > 1 => d.CH0_MAP = batch.ch
          /\ index + 1 > 2 => d.CFG0 = batch.pga
          /\ index + 1 > 3 => d.FILT0 = batch.fs
          /\ index + 1 > 4 => d.OFFS0 = <<"nominal">>
      BY <3>1, <1>2, <2>5, <2>6, <2>7, <2>8
    <3> QED
      BY <1>1, <1>3, <2>4, <2>5, <2>8, <3>2 DEF SetUpTo
  <2>9. CASE batch.mode # FULL_SCALE
    <3>1. index \in 1..4 /\ (index = 4 => reg = "ERREN")
      BY <1>1, <1>2, <1>3, <2>9
    <3>2. /\ index + 1 > 1 => d.CH0_MAP = batch.ch
          /\ index + 1 > 2 => d.CFG0 = batch.pga
          /\ index + 1 > 3 => d.FILT0 = batch.fs
          /\ d.OFFS0 = c.OFFS0
      BY <3>1, <1>2, <2>5, <2>6, <2>7
    <3> QED
      BY <1>1, <1>3, <2>4, <2>5, <2>9, <3>2 DEF SetUpTo
  <2> QED
    BY <2>8, <2>9
<1>4. CASE index = Length - 1
  <2>1. d \in Started(c, batch.pmode, batch.mode, pass)
    BY <1>2, <1>4 DEF Accessed, reg
  <2>2. /\ DOMAIN d = ChipFields /\ d.left \in 1..LongestTime[batch.mode]
        /\ d.pmode = batch.pmode /\ d.mode = batch.mode /\ d.pass = pass /\ d.RDY = FALSE
        /\ Same(c, d, {"CH0_MAP", "CFG0", "FILT0", "ERREN", "GAIN0", "OFFS0", "DATA"})
    BY <2>1, StartedFacts
  <2>3. /\ d.CH0_MAP = c.CH0_MAP /\ d.CFG0 = c.CFG0 /\ d.FILT0 = c.FILT0
        /\ d.GAIN0 = c.GAIN0 /\ d.OFFS0 = c.OFFS0
    BY <2>2 DEF Same
  <2>4. d.left \in Nat /\ d.left > 0 /\ d.left <= batch.sleep
    BY <1>1, <2>2
  <2> QED
    BY <1>1, <1>4, <2>2, <2>3, <2>4 DEF SetUpTo
<1>5. CASE index = Length
  <2>1. d = AfterRead(c, "ERR")
    BY <1>2, <1>5 DEF Accessed, reg
  <2>2. /\ DOMAIN d = ChipFields /\ Same(c, d, ChipFields \ {"RDY", "ERR"})
        /\ d.ERR = {}
    BY <2>1, ReadFacts
  <2>3. /\ d.CH0_MAP = c.CH0_MAP /\ d.CFG0 = c.CFG0 /\ d.FILT0 = c.FILT0
        /\ d.GAIN0 = c.GAIN0 /\ d.OFFS0 = c.OFFS0 /\ d.pmode = c.pmode /\ d.mode = c.mode
        /\ d.pass = c.pass /\ d.left = c.left
    BY <2>2 DEF Same, ChipFields
  <2> QED
    BY <1>1, <1>5, <2>2, <2>3 DEF SetUpTo
<1> QED
  BY <1>1, <1>3, <1>4, <1>5

--------------------------------------------------------------------------------
(* What a step leaves as it is.                                            *)
SameBatch == todo' = todo /\ pass' = pass

SameCoefficients(a) ==
    /\ converters'[a].GAIN0 = converters[a].GAIN0
    /\ converters'[a].OFFS0 = converters[a].OFFS0

KeepsRow(row, a) ==
    Has(row, a) => Has(row, a)' /\ table'[<<row, a>>] = table[<<row, a>>]

LEMMA BatchFrame ==
    ASSUME SameBatch
    PROVE  /\ batch' = batch /\ Length' = Length
           /\ \A k : InPass(k)' <=> InPass(k)
           /\ \A k : InCalibration(k)' <=> InCalibration(k)
<1>1. batch' = batch
  BY DEF SameBatch, batch
<1> QED
  BY <1>1 DEF SameBatch, Length, InPass, InCalibration

LEMMA FinishedFrame ==
    ASSUME SameBatch, NEW a \in ADC, Finished(a), converters'[a] = converters[a],
           \A j \in 1..Len(batch.reads) : HasRead(j, a)' <=> HasRead(j, a)
    PROVE  Finished(a)'
<1>1. batch' = batch
  BY DEF SameBatch, batch
<1>2. pass' = pass
  BY DEF SameBatch
<1> QED
  BY <1>1, <1>2 DEF Finished

LEMMA RowFrame ==
    ASSUME NEW i, NEW a, pass' = pass, SameCoefficients(a), KeepsRow(Pass[i].row, a), RowOk(i, a)
    PROVE  RowOk(i, a)'
<1> DEFINE row == Pass[i].row
<1>1. Has(row, a)' /\ table'[<<row, a>>] = table[<<row, a>>]
  BY DEF RowOk, KeepsRow
<1> QED
  BY <1>1 DEF RowOk, SameCoefficients

LEMMA ErrorsFrame ==
    ASSUME NEW c, NEW a, KeepsRow(<<"stat", c>>, a), KeepsRow(<<"tsig", c>>, a),
           KeepsRow(<<"erro", c>>, a), ErrorsOk(c, a)
    PROVE  ErrorsOk(c, a)'
<1>1. /\ Has(<<"stat", c>>, a)' /\ Has(<<"tsig", c>>, a)' /\ Has(<<"erro", c>>, a)'
      /\ table'[<<<<"stat", c>>, a>>] = table[<<<<"stat", c>>, a>>]
      /\ table'[<<<<"tsig", c>>, a>>] = table[<<<<"tsig", c>>, a>>]
      /\ table'[<<<<"erro", c>>, a>>] = table[<<<<"erro", c>>, a>>]
  BY DEF ErrorsOk, KeepsRow
<1> QED
  BY <1>1 DEF ErrorsOk

LEMMA CalibrationFrame ==
    ASSUME NEW a, SameCoefficients(a), KeepsRow(<<"GAIN", 0>>, a), KeepsRow(<<"OFFS", 0>>, a),
           CalibrationOk(a)
    PROVE  CalibrationOk(a)'
<1>1. /\ Has(<<"GAIN", 0>>, a)' /\ Has(<<"OFFS", 0>>, a)'
      /\ table'[<<<<"GAIN", 0>>, a>>] = table[<<<<"GAIN", 0>>, a>>]
      /\ table'[<<<<"OFFS", 0>>, a>>] = table[<<<<"OFFS", 0>>, a>>]
  BY DEF CalibrationOk, KeepsRow
<1> QED
  BY <1>1 DEF CalibrationOk, GainFound, SameCoefficients

(* The whole table is kept.                                                *)
LEMMA TableFrame ==
    ASSUME table' = table
    PROVE  \A row, a : KeepsRow(row, a)
  BY DEF KeepsRow, Has

LEMMA RowsFrame ==
    ASSUME NEW k, RowsBefore(k), pass' = pass, table' = table,
           \A a \in ADC : SameCoefficients(a)
    PROVE  RowsBefore(k)'
<1> SUFFICES ASSUME NEW a \in ADC
             PROVE  /\ \A i \in 1..(k - 1) : RowOk(i, a)'
                    /\ \A c \in 1..N_CHAN : 2 * c + 2 < k => ErrorsOk(c, a)'
  BY DEF RowsBefore
<1>1. \A row : KeepsRow(row, a)
  BY TableFrame
<1>2. ASSUME NEW i \in 1..(k - 1) PROVE RowOk(i, a)'
  BY <1>1, RowFrame DEF RowsBefore
<1>3. ASSUME NEW c \in 1..N_CHAN, 2 * c + 2 < k PROVE ErrorsOk(c, a)'
  BY <1>1, <1>3, ErrorsFrame DEF RowsBefore
<1> QED
  BY <1>2, <1>3

LEMMA SetupStep ==
    ASSUME AdcInv, setup_conv
    PROVE  AdcInv'
<1> USE DEF Busy
<1>1. /\ AdcTypeOK /\ Place /\ Converting /\ Tables /\ phase = "setup"
      /\ SameBatch /\ calibrated' = calibrated /\ table' = table
      /\ \A a \in ADC : ConverterInv(a) /\ DOMAIN converters[a] = ChipFields /\ converters[a].left \in Nat
  BY DEF AdcInv, setup_conv, SameBatch, Converting, AdcTypeOK
<1>2. /\ adc \in ADC /\ adc \in Nat /\ index \in Nat \ {0} /\ index <= Length /\ Length \in {6, 7}
      /\ Length = Len(Accesses(batch)) /\ DOMAIN converters = ADC
      /\ N_ADC \in Nat /\ N_ADC > 0 /\ ADC = 0..(N_ADC - 1)
  <2>1. Len(Accesses(batch)) = Length
    BY AccessesOf DEF Length
  <2>2. /\ adc \in ADC /\ index \in Nat \ {0} /\ DOMAIN converters = ADC
        /\ index <= Length
    BY <1>1 DEF AdcTypeOK, Place
  <2>3. Length \in {6, 7}
    BY DEF Length
  <2> HIDE DEF Busy
  <2> QED
    BY <2>1, <2>2, <2>3, ConstantsOf
<1>3. PICK d \in Accessed(converters[adc], Accesses(batch)[index]) :
         converters' = [converters EXCEPT ![adc] = d]
  BY DEF setup_conv, Accessed
<1>4. SetUpTo(converters[adc], index)
  BY <1>1, <1>2 DEF ConverterInv, Next_
<1>5. /\ DOMAIN d = ChipFields /\ d.left \in Nat
      /\ SetUpTo(d, index + 1)
      /\ index = Length => d.left > 0 /\ d.ERR = {}
      /\ d.GAIN0 = converters[adc].GAIN0
      /\ batch.mode # FULL_SCALE => d.OFFS0 = converters[adc].OFFS0
  BY <1>1, <1>2, <1>3, <1>4, AccessFacts
<1>6. /\ DOMAIN converters' = ADC /\ converters'[adc] = d
      /\ \A a \in ADC : a # adc => converters'[a] = converters[a]
  BY <1>2, <1>3
<1>7. /\ batch' = batch /\ Length' = Length
      /\ \A k : InPass(k)' <=> InPass(k)
      /\ \A k : InCalibration(k)' <=> InCalibration(k)
  BY <1>1, BatchFrame
<1>8. \/ index < Length /\ index' = index + 1 /\ adc' = adc /\ phase' = phase /\ sleep' = sleep
      \/ index = Length /\ adc < N_ADC - 1 /\ index' = 1 /\ adc' = adc + 1 /\ phase' = phase /\ sleep' = sleep
      \/ index = Length /\ adc = N_ADC - 1 /\ phase' = "sleep" /\ sleep' = batch.sleep /\ adc' = 0 /\ index' = 1
  BY <1>2 DEF setup_conv, AdvanceSetup
<1>9. /\ \A a \in ADC : a = adc => Next_(a)' = index + 1 /\ Next_(a) = index
      /\ \A a \in ADC : a # adc => Next_(a)' = Next_(a)
      /\ phase' = "sleep" => \A a \in ADC : a # adc => Next_(a) = Length + 1
  <2>1. phase = "setup" /\ Length' = Length
    BY <1>1, <1>7
  <2>2. \A a \in ADC : a \in Nat /\ a <= N_ADC - 1
    BY <1>2
  <2> HIDE DEF Busy
  <2>3. CASE index < Length
    BY <1>2, <1>8, <2>1, <2>2, <2>3 DEF Next_
  <2>4. CASE index = Length /\ adc < N_ADC - 1
    BY <1>2, <1>8, <2>1, <2>2, <2>4 DEF Next_
  <2>5. CASE index = Length /\ adc = N_ADC - 1
    BY <1>2, <1>8, <2>1, <2>2, <2>5 DEF Next_
  <2> QED
    BY <1>2, <1>8, <2>3, <2>4, <2>5
<1>10. batch.sleep \in Nat /\ (batch.init_offs <=> batch.mode = FULL_SCALE)
       /\ (batch.mode = SINGLE <=> \E k \in 1..LastBatch : InPass(k))
  BY <1>1, BatchFacts
<1>11. AdcTypeOK'
  <2>1. \A a \in ADC : DOMAIN converters'[a] = ChipFields /\ converters'[a].left \in Nat
    BY <1>1, <1>5, <1>6
  <2>2. sleep \in Nat /\ pass \in {0, 1} /\ calibrated \in BOOLEAN
    BY <1>1 DEF AdcTypeOK
  <2>3. phase' \in Busy /\ index' \in Nat \ {0} /\ sleep' \in Nat
    BY <1>1, <1>2, <1>8, <1>10, <2>2
  <2>4. adc' \in ADC
    BY <1>2, <1>8
  <2>5. pass' = pass /\ calibrated' = calibrated
    BY <1>1 DEF SameBatch
  <2> QED
    BY <1>6, <2>1, <2>2, <2>3, <2>4, <2>5 DEF AdcTypeOK
<1>12. Place'
  BY <1>1, <1>2, <1>7, <1>8 DEF Place
<1>13. ASSUME NEW a \in ADC PROVE ConverterInv(a)'
  <2>1. \A j : HasRead(j, a)' <=> HasRead(j, a)
    BY <1>1, <1>8 DEF HasRead
  <2>2. CASE a = adc
    <3>1. SetUpTo(converters[a], Next_(a))'
      <4>1. /\ converters'[a] = d /\ Next_(a)' = index + 1 /\ SetUpTo(d, index + 1) /\ pass' = pass
            /\ batch' = batch /\ Length' = Length
        BY <1>1, <1>5, <1>6, <1>7, <1>9, <2>2 DEF SameBatch
      <4>2. PICK j : j = index + 1
        OBVIOUS
      <4> QED
        BY <4>1, <4>2 DEF SetUpTo
    <3>2. Next_(a)' > Length' => d.left > 0 /\ d.ERR = {}
      BY <1>2, <1>5, <1>7, <1>9, <2>2
    <3>3. phase' = "sleep" => d.left <= sleep'
      <4>1. CASE index = Length
        BY <1>1, <1>2, <1>5, <1>8, <4>1 DEF SetUpTo
      <4> QED
        BY <1>1, <1>2, <1>8, <4>1
    <3> QED
      BY <1>1, <1>6, <1>8, <2>2, <3>1, <3>2, <3>3 DEF ConverterInv
  <2>3. CASE a # adc
    <3> DEFINE c == converters[a]
    <3>1. converters'[a] = c /\ Next_(a)' = Next_(a) /\ ConverterInv(a)
      BY <1>1, <1>6, <1>9, <2>3
    <3>2. SetUpTo(c, Next_(a))
      BY <3>1 DEF ConverterInv
    <3>3. SetUpTo(converters[a], Next_(a))'
      BY <1>1, <1>7, <3>1, <3>2 DEF SetUpTo, SameBatch
    <3>4. Next_(a)' > Length' => IF converters'[a].left > 0 THEN converters'[a].ERR = {} ELSE Finished(a)'
      BY <1>1, <1>7, <2>1, <3>1, FinishedFrame DEF ConverterInv
    <3>5. phase' = "sleep" => c.left <= sleep'
      BY <1>2, <1>8, <1>9, <2>3, <3>2, <1>1 DEF SetUpTo
    <3> QED
      BY <1>1, <1>8, <3>1, <3>3, <3>4, <3>5 DEF ConverterInv
  <2> QED
    BY <2>2, <2>3
<1>14. Converting'
  BY <1>8, <1>1, <1>13 DEF Converting
<1>15. Tables'
  <2>1. \A a \in ADC : converters'[a].GAIN0 = converters[a].GAIN0
    BY <1>5, <1>6
  <2>2. batch.mode # FULL_SCALE => \A a \in ADC : SameCoefficients(a)
    BY <1>5, <1>6 DEF SameCoefficients
  <2>3. ASSUME NEW k \in 1..LastBatch, InPass(k) PROVE RowsBefore(k)'
    <3>1. batch.mode # FULL_SCALE
      BY <1>10, <2>3 DEF SINGLE, FULL_SCALE
    <3> QED
      BY <1>1, <2>2, <2>3, <3>1, RowsFrame DEF Tables, SameBatch
  <2>4. ASSUME calibrated, NEW a \in ADC PROVE CalibrationOk(a)'
    <3>1. batch.mode # FULL_SCALE
      <4>1. batch.mode = SINGLE
        BY <1>1, <1>10, <2>4 DEF Place
      <4> QED
        BY <4>1 DEF SINGLE, FULL_SCALE
    <3> QED
      BY <1>1, <2>2, <2>4, <3>1, CalibrationFrame, TableFrame DEF Tables
  <2>5. ASSUME InCalibration(2), NEW a \in ADC PROVE GainFound(a)'
    BY <1>1, <2>1, <2>5 DEF Tables, GainFound
  <2> QED
    BY <1>1, <1>7, <1>8, <2>3, <2>4, <2>5 DEF Tables
<1> QED
  BY <1>11, <1>12, <1>14, <1>15 DEF AdcInv

--------------------------------------------------------------------------------
(* The end of a batch.  The places of the program are told apart by what   *)
(* is left to do.                                                          *)
LEMMA PlacesApart ==
    /\ \A k \in 1..LastBatch, l \in 1..LastBatch :
          SubSeq(Pass, k, LastBatch) = SubSeq(Pass, l, LastBatch) => k = l
    /\ \A k \in 1..LastBatch, j \in 1..2 :
          SubSeq(Pass, k, LastBatch) # SubSeq(calibrate_ad7124_8, j, 2)
<1>1. ASSUME NEW k \in 1..LastBatch, NEW l \in 1..LastBatch,
             SubSeq(Pass, k, LastBatch) = SubSeq(Pass, l, LastBatch)
      PROVE  k = l
  <2>1. /\ Len(SubSeq(Pass, k, LastBatch)) = LastBatch - k + 1
        /\ Len(SubSeq(Pass, l, LastBatch)) = LastBatch - l + 1
    BY PassSuffix
  <2> QED
    BY <1>1, <2>1, ConstantsOf
<1>2. ASSUME NEW k \in 1..LastBatch, NEW j \in 1..2
      PROVE  SubSeq(Pass, k, LastBatch) # SubSeq(calibrate_ad7124_8, j, 2)
  <2>1. Head(SubSeq(Pass, k, LastBatch)).mode = SINGLE
    BY PassSuffix, PassBatch
  <2>2. Head(SubSeq(calibrate_ad7124_8, 1, 2)).mode = FULL_SCALE
    BY CalibrationSuffix DEF calibrate_ad7124_8, CalibrationBatch
  <2>3. Head(SubSeq(calibrate_ad7124_8, 2, 2)).mode = ZERO_SCALE
    BY CalibrationSuffix DEF calibrate_ad7124_8, CalibrationBatch
  <2>4. SINGLE # FULL_SCALE /\ SINGLE # ZERO_SCALE /\ (j = 1 \/ j = 2)
    BY DEF SINGLE, FULL_SCALE, ZERO_SCALE
  <2> QED
    BY <2>1, <2>2, <2>3, <2>4, Zenon
<1> QED
  BY <1>1, <1>2

(* A batch or a calibration that is about to begin.                        *)
LEMMA BatchBegins ==
    ASSUME phase' \notin {"sleep", "read"}, adc' = 0, index' = 1, sleep' = 0,
           DOMAIN converters' = ADC,
           \A a \in ADC : DOMAIN converters'[a] = ChipFields /\ converters'[a].left = 0
    PROVE  Converting'
<1>1. ASSUME NEW a \in ADC, phase' = "setup" PROVE ConverterInv(a)'
  <2>1. Next_(a)' = 1
    BY <1>1, ConstantsOf DEF Next_
  <2>2. Length' \in {6, 7}
    BY DEF Length
  <2>3. SetUpTo(converters[a], Next_(a))'
    BY <2>1, <2>2 DEF SetUpTo
  <2> QED
    BY <1>1, <2>1, <2>2, <2>3 DEF ConverterInv
<1> QED
  BY <1>1 DEF Converting, Busy

LEMMA BatchEnds ==
    ASSUME AdcTypeOK, Place, phase \in {"sleep", "read"},
           AfterBatch, sleep' = 0, pass' = pass, DOMAIN converters' = ADC,
           \A a \in ADC : DOMAIN converters'[a] = ChipFields /\ converters'[a].left = 0,
           \A k \in 1..LastBatch : InPass(k) => RowsBefore(k + 1)',
           \A a \in ADC : /\ InCalibration(1) => GainFound(a)'
                          /\ InCalibration(2) \/ calibrated => CalibrationOk(a)'
    PROVE  AdcInv'
<1> USE DEF Busy
<1>1. adc' = 0 /\ index' = 1 /\ todo' = Tail(todo) /\ pass' \in {0, 1} /\ 0 \in ADC
      /\ calibrated \in BOOLEAN /\ calibrated' = (calibrated \/ batch.mode = ZERO_SCALE)
      /\ phase' = IF todo' # <<>> THEN "setup" ELSE IF batch.mode = SINGLE THEN "print" ELSE "commands"
  BY ConstantsOf DEF AfterBatch, AdcTypeOK
<1>2. phase' \in {"setup", "print", "commands"}
  BY <1>1
<1>3. AdcTypeOK'
  BY <1>1, <1>2 DEF AdcTypeOK
<1>4. Converting'
  BY <1>1, <1>2, BatchBegins
<1>5. phase' = "setup" => index' <= Length'
  BY <1>1 DEF Length
<1>6. CASE \E k \in 1..LastBatch : InPass(k) /\ Measures(batch)
  <2>1. PICK k \in 1..LastBatch : InPass(k)
    BY <1>6
  <2>2. batch.mode = SINGLE /\ todo' = SubSeq(Pass, k + 1, LastBatch) /\ (todo' = <<>> <=> k = LastBatch)
    BY <1>1, <1>6, <2>1, InPassFacts DEF Measures
  <2>3. calibrated' = calibrated
    BY <1>1, <2>2 DEF SINGLE, ZERO_SCALE
  <2>4. RowsBefore(k + 1)' /\ \A a \in ADC : calibrated => CalibrationOk(a)'
    BY <2>1
  <2>5. CASE k = LastBatch
    BY <1>1, <1>3, <1>4, <2>2, <2>3, <2>4, <2>5 DEF AdcInv, Place, Tables, InCalibration
  <2>6. CASE k # LastBatch
    <3>0. k + 1 \in 1..LastBatch
      BY <2>6, ConstantsOf
    <3>1. k + 1 \in 1..LastBatch /\ InPass(k + 1)' /\ phase' = "setup"
      BY <1>1, <2>2, <2>6, <3>0 DEF InPass
    <3>2. \A l : InPass(l)' => l = k + 1
      BY <2>2, <3>1, PlacesApart DEF InPass
    <3>3. ~InCalibration(2)'
      BY <2>2, <3>1, PlacesApart DEF InCalibration
    <3>4. Place'
      BY <1>1, <1>5, <3>1 DEF Place
    <3>5. Tables'
      BY <2>3, <2>4, <3>1, <3>2, <3>3 DEF Tables
    <3> QED
      BY <1>3, <1>4, <3>4, <3>5 DEF AdcInv
  <2> QED
    BY <2>5, <2>6
<1>7. CASE ~calibrated /\ InCalibration(1) /\ FindsGain(batch)
  <2>1. todo' = SubSeq(calibrate_ad7124_8, 2, 2) /\ todo' # <<>> /\ phase' = "setup"
    BY <1>1, <1>7, InCalibrationFacts
  <2>2. ~calibrated'
    BY <1>1, <1>7 DEF FindsGain, FULL_SCALE, ZERO_SCALE
  <2>3. InCalibration(2)' /\ \A k : ~InPass(k)'
    <3>1. 2 \in 1..2
      OBVIOUS
    <3>2. InCalibration(2)'
      BY <2>1, <3>1, Zenon DEF InCalibration
    <3>3. ASSUME NEW k, InPass(k)' PROVE FALSE
      BY <2>1, <3>1, <3>3, PlacesApart, Zenon DEF InPass
    <3> QED
      BY <3>2, <3>3
  <2>4. Place'
    BY <1>1, <1>5, <2>1, <2>2, <2>3 DEF Place
  <2>5. Tables'
    BY <1>7, <2>1, <2>2, <2>3 DEF Tables
  <2> QED
    BY <1>3, <1>4, <2>4, <2>5 DEF AdcInv
<1>8. CASE ~calibrated /\ InCalibration(2) /\ FindsOffset(batch)
  <2>1. todo' = <<>> /\ phase' = "commands"
    BY <1>1, <1>8, InCalibrationFacts DEF FindsOffset, SINGLE, ZERO_SCALE
  <2>2. \A a \in ADC : CalibrationOk(a)'
    BY <1>8
  <2> QED
    BY <1>1, <1>3, <1>4, <2>1, <2>2 DEF AdcInv, Place, Tables
<1> QED
  BY <1>6, <1>7, <1>8, PlaceOf

--------------------------------------------------------------------------------
(* The rows of different batches are different rows.                       *)
Number(row) ==
    IF row[1] = "bsln" THEN 1
    ELSE IF row[1] = "zero" THEN 2
    ELSE IF row[1] = "atemp" THEN LastBatch - 1
    ELSE IF row[1] = "btemp" THEN LastBatch
    ELSE IF row[1] = "curr" THEN 2 * row[2] + 1 ELSE 2 * row[2] + 2

LEMMA RowNumber ==
    ASSUME NEW k \in 1..LastBatch
    PROVE  /\ Number(Pass[k].row) = k
           /\ Pass[k].row[1] \in {"bsln", "zero", "atemp", "btemp", "curr", "tsig"}
<1>1. CASE k = 1 /\ Pass[k].row = <<"bsln", 0>>
  BY <1>1 DEF Number
<1>2. CASE k = 2 /\ Pass[k].row = <<"zero", 0>>
  BY <1>2 DEF Number
<1>3. CASE k = LastBatch - 1 /\ Pass[k].row = <<"atemp", 0>>
  BY <1>3 DEF Number
<1>4. CASE k = LastBatch /\ Pass[k].row = <<"btemp", 0>>
  BY <1>4 DEF Number
<1>5. CASE \E c \in 1..N_CHAN : k = 2 * c + 1 /\ Pass[k].row = <<"curr", c>>
  BY <1>5 DEF Number
<1>6. CASE \E c \in 1..N_CHAN : k = 2 * c + 2 /\ Pass[k].row = <<"tsig", c>>
  BY <1>6 DEF Number
<1> QED
  BY <1>1, <1>2, <1>3, <1>4, <1>5, <1>6, PassBatch

LEMMA RowsApart ==
    ASSUME NEW k \in 1..LastBatch, NEW j \in 1..Len(Pass[k].reads)
    PROVE  LET row == Pass[k].reads[j][1] IN
           /\ \A i \in 1..LastBatch : i # k => row # Pass[i].row
           /\ \A c \in 1..N_CHAN : 2 * c + 2 # k =>
                 row # <<"stat", c>> /\ row # <<"tsig", c>> /\ row # <<"erro", c>>
           /\ row # <<"GAIN", 0>> /\ row # <<"OFFS", 0>>
<1> DEFINE row == Pass[k].reads[j][1]
<1>1. \A i \in 1..LastBatch : i # k => Pass[k].row # Pass[i].row
  BY RowNumber
<1>2. /\ \A c : Pass[k].row # <<"stat", c>> /\ Pass[k].row # <<"erro", c>>
      /\ \A c \in 1..N_CHAN : 2 * c + 2 # k => Pass[k].row # <<"tsig", c>>
      /\ Pass[k].row # <<"GAIN", 0>> /\ Pass[k].row # <<"OFFS", 0>>
  <2>1. \A c \in 1..N_CHAN : Number(<<"tsig", c>>) = 2 * c + 2
    BY DEF Number
  <2>2. /\ Number(Pass[k].row) = k
        /\ Pass[k].row[1] \in {"bsln", "zero", "atemp", "btemp", "curr", "tsig"}
    BY RowNumber
  <2>3. \A c \in 1..N_CHAN : 2 * c + 2 # k => Pass[k].row # <<"tsig", c>>
    BY <2>1, <2>2
  <2>4. \A c : Pass[k].row # <<"stat", c>> /\ Pass[k].row # <<"erro", c>>
    BY <2>2
  <2>5. Pass[k].row # <<"GAIN", 0>> /\ Pass[k].row # <<"OFFS", 0>>
    BY <2>2
  <2> QED
    BY <2>3, <2>4, <2>5
<1>3. CASE Pass[k].reads = << <<Pass[k].row, "DATA">> >>
  <2>1. row = Pass[k].row
    BY <1>3
  <2> QED
    BY <1>1, <1>2, <2>1
<1>4. CASE \E c \in 1..N_CHAN :
             /\ k = 2 * c + 2 /\ Pass[k].row = <<"tsig", c>>
             /\ Pass[k].reads = << <<<<"stat", c>>, "STATUS">>, <<<<"tsig", c>>, "DATA">>,
                                   <<<<"erro", c>>, "ERR">> >>
  <2>1. PICK c \in 1..N_CHAN :
             /\ k = 2 * c + 2 /\ Pass[k].row = <<"tsig", c>>
             /\ Pass[k].reads = << <<<<"stat", c>>, "STATUS">>, <<<<"tsig", c>>, "DATA">>,
                                   <<<<"erro", c>>, "ERR">> >>
    BY <1>4
  <2>2. row = Pass[k].row \/ row = <<"stat", c>> \/ row = <<"erro", c>>
    BY <2>1
  <2>3. \A i \in 1..LastBatch : Pass[i].row # <<"stat", c>> /\ Pass[i].row # <<"erro", c>>
    <3>1. ASSUME NEW i \in 1..LastBatch
          PROVE  Pass[i].row[1] # "stat" /\ Pass[i].row[1] # "erro"
      BY RowNumber
    <3> QED
      BY <3>1
  <2>4. /\ <<"stat", c>> # <<"GAIN", 0>> /\ <<"stat", c>> # <<"OFFS", 0>>
        /\ <<"erro", c>> # <<"GAIN", 0>> /\ <<"erro", c>> # <<"OFFS", 0>>
        /\ \A e \in 1..N_CHAN : e # c =>
              /\ <<"stat", c>> # <<"stat", e>> /\ <<"erro", c>> # <<"erro", e>>
        /\ \A e \in 1..N_CHAN :
              /\ <<"stat", c>> # <<"tsig", e>> /\ <<"stat", c>> # <<"erro", e>>
              /\ <<"erro", c>> # <<"stat", e>> /\ <<"erro", c>> # <<"tsig", e>>
    OBVIOUS
  <2>5. \A e \in 1..N_CHAN : 2 * e + 2 # k => e # c
    BY <2>1
  <2> HIDE DEF row
  <2>6. CASE row = Pass[k].row
    BY <1>1, <1>2, <2>6 DEF row
  <2>7. CASE row = <<"stat", c>>
    BY <2>3, <2>4, <2>5, <2>7 DEF row
  <2>8. CASE row = <<"erro", c>>
    BY <2>3, <2>4, <2>5, <2>8 DEF row
  <2> QED
    BY <2>2, <2>6, <2>7, <2>8
<1> QED
  BY <1>3, <1>4, PassBatch

(* The rows of one batch are different, too.                               *)
LEMMA RowsOfBatch ==
    ASSUME Place, phase \in Busy,
           NEW i \in 1..Len(batch.reads), NEW j \in 1..Len(batch.reads), i # j
    PROVE  batch.reads[i][1] # batch.reads[j][1]
<1>1. CASE Measures(batch)
  BY <1>1 DEF Measures
<1>2. CASE FindsGain(batch)
  BY <1>2 DEF FindsGain
<1>3. CASE FindsOffset(batch)
  BY <1>3 DEF FindsOffset
<1> QED
  BY <1>1, <1>2, <1>3, PlaceOf

--------------------------------------------------------------------------------
(* usleep(): every converter is done when it returns.                      *)
LEMMA SleepStep ==
    ASSUME AdcInv, usleep
    PROVE  AdcInv'
<1> USE DEF Busy
<1>1. /\ AdcTypeOK /\ Place /\ Converting /\ Tables /\ phase = "sleep" /\ sleep = 0
      /\ adc = 0 /\ index = 1
      /\ sleep' = sleep /\ pass' = pass /\ converters' = converters /\ table' = table
      /\ \A a \in ADC : ConverterInv(a) /\ DOMAIN converters[a] = ChipFields /\ converters[a].left \in Nat
      /\ DOMAIN converters = ADC
  BY DEF AdcInv, usleep, Converting, AdcTypeOK, Place
<1>2. /\ batch.mode \in {SINGLE, FULL_SCALE, ZERO_SCALE}
      /\ batch.reads = <<>> <=> batch.mode = FULL_SCALE
      /\ Len(batch.reads) \in Nat
  BY <1>1, BatchFacts
<1>3. ASSUME NEW a \in ADC
      PROVE  /\ converters[a].left = 0 /\ Next_(a) = Length + 1 /\ Finished(a)
             /\ SetUpTo(converters[a], Length + 1) /\ SameCoefficients(a)
  <2>1. Next_(a) = Length + 1 /\ Length \in Nat
    BY <1>1 DEF Next_, Length
  <2>2. converters[a].left = 0
    BY <1>1 DEF ConverterInv
  <2> QED
    BY <1>1, <2>1, <2>2 DEF ConverterInv, SameCoefficients
<1>4. \A k : RowsBefore(k) => RowsBefore(k)'
  BY <1>1, <1>3, RowsFrame
<1>5. \A a \in ADC : CalibrationOk(a) => CalibrationOk(a)'
  BY <1>1, <1>3, CalibrationFrame, TableFrame
<1>6. CASE batch.reads # <<>>
  <2>1. /\ phase' = "read" /\ todo' = todo /\ calibrated' = calibrated /\ adc' = adc /\ index' = index
        /\ SameBatch
    BY <1>1, <1>6 DEF usleep, SameBatch
  <2>2. /\ batch' = batch /\ Length' = Length
        /\ \A k : InPass(k)' <=> InPass(k)
        /\ \A k : InCalibration(k)' <=> InCalibration(k)
    BY <2>1, BatchFrame
  <2>3. \A a \in ADC, j \in 1..Len(batch.reads) : ~HasRead(j, a) /\ ~HasRead(j, a)'
    BY <1>1, <1>2, <2>1, ConstantsOf DEF HasRead
  <2>4. AdcTypeOK'
    BY <1>1, <2>1 DEF AdcTypeOK
  <2>5. Place'
    <3>1. index' <= Len(batch.reads')
      <4>1. Len(batch.reads) > 0
        BY <1>1, <1>6, BatchFacts
      <4> QED
        BY <1>1, <1>2, <2>1, <2>2, <4>1
    <3> QED
      BY <1>1, <2>1, <2>2, <3>1 DEF Place
  <2>6. ASSUME NEW a \in ADC PROVE ConverterInv(a)'
    <3>1. Next_(a)' = Length + 1
      BY <2>1, <2>2 DEF Next_
    <3>2. SetUpTo(converters[a], Next_(a))'
      BY <1>1, <1>3, <2>1, <2>2, <3>1 DEF SetUpTo, SameBatch
    <3>3. Finished(a)'
      BY <1>1, <1>3, <2>1, <2>3, FinishedFrame
    <3> QED
      BY <1>1, <1>3, <2>1, <3>2, <3>3 DEF ConverterInv
  <2>7. Tables'
    <3>1. \A k \in 1..LastBatch : InPass(k)' => RowsBefore(k)'
      BY <1>1, <1>4, <2>2 DEF Tables
    <3>2. InCalibration(2)' => \A a \in ADC : GainFound(a)'
      BY <1>1, <2>2 DEF Tables, GainFound
    <3>3. calibrated' => \A a \in ADC : CalibrationOk(a)'
      BY <1>1, <1>5, <2>1 DEF Tables
    <3> QED
      BY <2>1, <2>2, <2>3, <3>1, <3>2, <3>3 DEF Tables
  <2> QED
    BY <2>1, <2>4, <2>5, <2>6, <2>7 DEF AdcInv, Converting
<1>7. CASE batch.reads = <<>>
  <2>1. ~calibrated /\ InCalibration(1) /\ batch.mode = FULL_SCALE
    BY <1>1, <1>2, <1>7, PlaceOf DEF Measures, FindsOffset, SINGLE, FULL_SCALE, ZERO_SCALE
  <2>2. AfterBatch
    BY <1>7 DEF usleep
  <2>3. ASSUME NEW a \in ADC PROVE GainFound(a)'
    BY <1>1, <1>3, <2>1 DEF Finished, GainFound, SINGLE, FULL_SCALE
  <2>4. ~InCalibration(2) /\ \A k : ~InPass(k)
    BY <2>1, InCalibrationFacts, InPassFacts
       DEF Measures, FindsGain, FindsOffset, SINGLE, FULL_SCALE, ZERO_SCALE
  <2> QED
    BY <1>1, <1>3, <2>1, <2>2, <2>3, <2>4, BatchEnds
<1> QED
  BY <1>6, <1>7

--------------------------------------------------------------------------------
(* read_chan(): one register of the converter it is at.                    *)
Ending == adc = N_ADC - 1 /\ index = Len(batch.reads)

ReadRow == batch.reads[index][1]
ReadReg == batch.reads[index][2]

(* What the read leaves of the converters and of the table.                *)
LEMMA ReadKeeps ==
    ASSUME AdcInv, read_chan
    PROVE  /\ DOMAIN converters' = ADC /\ pass' = pass
           /\ \A a \in ADC :
                 /\ DOMAIN converters'[a] = ChipFields
                 /\ Same(converters[a], converters'[a], ChipFields \ {"RDY", "ERR"})
                 /\ SameCoefficients(a) /\ converters'[a].DATA = converters[a].DATA
                 /\ a # adc => converters'[a] = converters[a]
           /\ ReadReg # "DATA" => converters'[adc].RDY = converters[adc].RDY
           /\ ReadReg # "ERR"  => converters'[adc].ERR = converters[adc].ERR
           /\ <<ReadRow, adc>> \in DOMAIN table'
           /\ table'[<<ReadRow, adc>>] = ValueOf(converters[adc], ReadReg)
           /\ \A row, a : row # ReadRow \/ a # adc => KeepsRow(row, a)
<1>1. /\ adc \in ADC /\ DOMAIN converters = ADC
      /\ \A a \in ADC : DOMAIN converters[a] = ChipFields
  BY DEF AdcInv, AdcTypeOK
<1>2. /\ converters' = [converters EXCEPT ![adc] = AfterRead(converters[adc], ReadReg)]
      /\ table' = Enter(table, <<ReadRow, adc>>, ValueOf(converters[adc], ReadReg))
      /\ pass' = pass
  BY DEF read_chan, ReadRow, ReadReg
<1>3. PICK d : d = AfterRead(converters[adc], ReadReg)
  OBVIOUS
<1>4. /\ DOMAIN d = ChipFields /\ Same(converters[adc], d, ChipFields \ {"RDY", "ERR"})
      /\ ReadReg # "DATA" => d.RDY = converters[adc].RDY
      /\ ReadReg # "ERR"  => d.ERR = converters[adc].ERR
  BY <1>1, <1>3, ReadFacts
<1>5. /\ DOMAIN converters' = ADC /\ converters'[adc] = d
      /\ \A a \in ADC : a # adc => converters'[a] = converters[a]
  BY <1>1, <1>2, <1>3
<1>6. ASSUME NEW a \in ADC
      PROVE  /\ DOMAIN converters'[a] = ChipFields
             /\ Same(converters[a], converters'[a], ChipFields \ {"RDY", "ERR"})
  BY <1>1, <1>4, <1>5 DEF Same
<1>7. ASSUME NEW a \in ADC
      PROVE  SameCoefficients(a) /\ converters'[a].DATA = converters[a].DATA
  BY <1>6 DEF Same, ChipFields, SameCoefficients
<1>8. PICK entry, value : entry = <<ReadRow, adc>> /\ value = ValueOf(converters[adc], ReadReg)
  OBVIOUS
<1>9. table' = [e \in DOMAIN table \union {entry} |-> IF e = entry THEN value ELSE table[e]]
  BY <1>2, <1>8 DEF Enter
<1>10. /\ DOMAIN table' = DOMAIN table \union {entry} /\ table'[entry] = value
       /\ \A e \in DOMAIN table : e # entry => table'[e] = table[e]
  BY <1>9
<1>11. <<ReadRow, adc>> \in DOMAIN table' /\ table'[<<ReadRow, adc>>] = value
  BY <1>8, <1>10
<1>12. ASSUME NEW row, NEW a, row # ReadRow \/ a # adc PROVE KeepsRow(row, a)
  <2>1. <<row, a>> # entry
    BY <1>8, <1>12
  <2> QED
    BY <1>10, <2>1 DEF KeepsRow, Has
<1> QED
  BY <1>2, <1>4, <1>5, <1>6, <1>7, <1>8, <1>11, <1>12

LEMMA ReadingFacts ==
    ASSUME AdcInv, phase = "read"
    PROVE  /\ AdcTypeOK /\ Place /\ Converting /\ Tables /\ sleep = 0
           /\ adc \in ADC /\ adc \in Nat /\ index \in 1..Len(batch.reads) /\ index \in Nat
           /\ Len(batch.reads) \in Nat
           /\ batch.mode = SINGLE \/ batch.mode = ZERO_SCALE
           /\ \A a \in ADC : /\ ConverterInv(a) /\ converters[a].left = 0
                             /\ DOMAIN converters[a] = ChipFields
                             /\ Next_(a) = Length + 1 /\ Finished(a)
<1>1. /\ AdcTypeOK /\ Place /\ Converting /\ Tables /\ sleep = 0
      /\ adc \in ADC /\ index \in Nat \ {0} /\ index <= Len(batch.reads)
      /\ \A a \in ADC : ConverterInv(a) /\ DOMAIN converters[a] = ChipFields
  BY DEF AdcInv, Converting, AdcTypeOK, Place, Busy
<1>2. /\ Len(batch.reads) \in Nat /\ batch.mode \in {SINGLE, FULL_SCALE, ZERO_SCALE}
      /\ batch.reads = <<>> <=> batch.mode = FULL_SCALE
  BY <1>1, BatchFacts DEF Busy
<1>3. batch.reads # <<>>
  BY <1>1, <1>2
<1>4. ASSUME NEW a \in ADC
      PROVE  converters[a].left = 0 /\ Next_(a) = Length + 1 /\ Finished(a)
  <2>1. Next_(a) = Length + 1 /\ Length \in Nat
    BY DEF Next_, Length
  <2>2. converters[a].left = 0
    BY <1>1 DEF ConverterInv
  <2> QED
    BY <1>1, <2>1, <2>2 DEF ConverterInv
<1>5. adc \in Nat /\ index \in 1..Len(batch.reads)
  BY <1>1, <1>2, ConstantsOf
<1> QED
  BY <1>1, <1>2, <1>3, <1>4, <1>5

(* Every read of a batch gives what the converter has found.               *)
LEMMA ReadGives ==
    ASSUME AdcInv, read_chan, NEW b, b = batch, NEW a \in ADC, NEW j \in 1..Len(b.reads),
           HasRead(j, a) \/ (j = index /\ a = adc)
    PROVE  ReadOk(b, j, a)'
<1> DEFINE row == b.reads[j][1]
           reg == b.reads[j][2]
<1>1. phase = "read"
  BY DEF read_chan
<1>2. /\ Place /\ Tables /\ adc \in ADC /\ index \in 1..Len(batch.reads)
      /\ batch.mode = SINGLE \/ batch.mode = ZERO_SCALE
      /\ Finished(a)
  BY <1>1, ReadingFacts
<1>3. /\ Same(converters[a], converters'[a], ChipFields \ {"RDY", "ERR"})
      /\ converters'[a].DATA = converters[a].DATA
  BY ReadKeeps
<1>4. reg \in {"STATUS", "DATA", "ERR", "GAIN0", "OFFS0"}
  <2>1. CASE Measures(batch)
    <3>1. CASE b.reads = << <<b.row, "DATA">> >>
      BY <3>1
    <3>2. CASE \E c \in 1..N_CHAN :
                 b.reads = << <<<<"stat", c>>, "STATUS">>, <<<<"tsig", c>>, "DATA">>,
                              <<<<"erro", c>>, "ERR">> >>
      BY <3>2
    <3> QED
      BY <2>1, <3>1, <3>2 DEF Measures
  <2>2. CASE FindsGain(batch)
    BY <2>2 DEF FindsGain
  <2>3. CASE FindsOffset(batch)
    BY <2>3 DEF FindsOffset
  <2> QED
    BY <1>1, <1>2, <2>1, <2>2, <2>3, PlaceOf DEF Busy
<1>5. reg \notin {"STATUS", "ERR"} => converters'[a][reg] = converters[a][reg]
  BY <1>3, <1>4 DEF Same, ChipFields
<1>6. CASE HasRead(j, a) /\ ~(j = index /\ a = adc)
  <2>1. ReadOk(batch, j, a)
    BY <1>1, <1>2, <1>6 DEF Tables
  <2>2. row # ReadRow \/ a # adc
    BY <1>1, <1>2, <1>6, RowsOfBatch DEF ReadRow, Busy
  <2>3. KeepsRow(row, a)
    BY <2>2, ReadKeeps
  <2>4. Has(row, a)
    BY <2>1 DEF ReadOk
  <2>5. Has(row, a)' /\ table'[<<row, a>>] = table[<<row, a>>]
    BY <2>3, <2>4 DEF KeepsRow
  <2> QED
    BY <1>3, <1>4, <1>5, <2>1, <2>5 DEF ReadOk
<1>7. CASE j = index /\ a = adc
  <2>1. row = ReadRow /\ reg = ReadReg
    BY <1>7 DEF ReadRow, ReadReg
  <2>2. Has(row, a)' /\ table'[<<row, a>>] = ValueOf(converters[a], reg)
    BY <1>7, <2>1, ReadKeeps DEF Has
  <2>3. CASE reg = "STATUS"
    <3>1. batch.mode = SINGLE /\ index = 1 /\ \A i \in 1..Len(batch.reads) :
             batch.reads[i][2] = "DATA" => ~HasRead(i, a)
      <4>1. ~FindsOffset(batch) /\ ~FindsGain(batch)
        BY SMTT(30), <1>2, <1>7, <2>3 DEF FindsOffset, FindsGain
      <4>2. Measures(batch)
        BY <1>1, <1>2, <4>1, PlaceOf DEF Busy
      <4>3. j = 1 /\ \A i \in 1..Len(batch.reads) : batch.reads[i][2] = "DATA" => i # 1
        BY <1>7, <2>3, <4>2 DEF Measures
      <4> QED
        BY <1>2, <1>7, <4>2, <4>3 DEF HasRead, Measures
    <3>2. converters[a].RDY
      BY <1>2, <3>1 DEF Finished
    <3> QED
      BY <2>2, <2>3, <3>2 DEF ReadOk, ValueOf
  <2>4. CASE reg = "ERR"
    <3>1. batch.mode = SINGLE /\ \A i \in 1..Len(batch.reads) :
             batch.reads[i][2] = "ERR" => ~HasRead(i, a)
      <4>1. ~FindsOffset(batch) /\ ~FindsGain(batch)
        BY <1>2, <1>7, <2>4 DEF FindsOffset, FindsGain
      <4>2. Measures(batch)
        BY <1>1, <1>2, <4>1, PlaceOf DEF Busy
      <4>3. \A i \in 1..Len(batch.reads) : batch.reads[i][2] = "ERR" => i = j
        BY <1>7, <2>4, <4>2 DEF Measures
      <4>4. ~HasRead(j, a)
        BY <1>2, <1>7, ConstantsOf DEF HasRead
      <4> QED
        BY <4>2, <4>3, <4>4 DEF Measures
    <3>2. converters[a].ERR = converters[a].DATA.errors
      BY <1>2, <3>1 DEF Finished
    <3> QED
      BY <1>3, <2>2, <2>4, <3>2 DEF ReadOk, ValueOf
  <2>5. CASE reg \notin {"STATUS", "ERR"}
    BY <1>5, <2>2, <2>5 DEF ReadOk, ValueOf
  <2> QED
    BY <2>3, <2>4, <2>5
<1> QED
  BY <1>6, <1>7

LEMMA RowsKept ==
    ASSUME AdcInv, read_chan, NEW k \in 1..LastBatch, InPass(k)
    PROVE  /\ RowsBefore(k)'
           /\ calibrated => \A a \in ADC : CalibrationOk(a)'
<1>1. phase = "read"
  BY DEF read_chan
<1>2. Tables /\ index \in 1..Len(batch.reads) /\ batch = Pass[k] /\ pass' = pass
  BY <1>1, ReadingFacts, InPassFacts, ReadKeeps
<1>3. /\ \A i \in 1..LastBatch : i # k => ReadRow # Pass[i].row
      /\ \A c \in 1..N_CHAN : 2 * c + 2 # k =>
            ReadRow # <<"stat", c>> /\ ReadRow # <<"tsig", c>> /\ ReadRow # <<"erro", c>>
      /\ ReadRow # <<"GAIN", 0>> /\ ReadRow # <<"OFFS", 0>>
  BY <1>2, RowsApart DEF ReadRow
<1>4. RowsBefore(k)
  BY <1>1, <1>2 DEF Tables, Busy
<1>5. \A a \in ADC : SameCoefficients(a)
  BY ReadKeeps
<1>6. \A row, a : row # ReadRow => KeepsRow(row, a)
  BY ReadKeeps
<1>7. ASSUME NEW a \in ADC, NEW i \in 1..(k - 1) PROVE RowOk(i, a)'
  <2>1. i \in 1..LastBatch /\ i # k
    BY ConstantsOf
  <2>2. KeepsRow(Pass[i].row, a)
    BY <1>3, <1>6, <2>1
  <2>3. RowOk(i, a)
    BY <1>4 DEF RowsBefore
  <2> QED
    BY <1>2, <1>5, <2>2, <2>3, RowFrame
<1>8. ASSUME NEW a \in ADC, NEW c \in 1..N_CHAN, 2 * c + 2 < k PROVE ErrorsOk(c, a)'
  <2>1. 2 * c + 2 # k
    BY <1>8, ConstantsOf
  <2>2. KeepsRow(<<"stat", c>>, a) /\ KeepsRow(<<"tsig", c>>, a) /\ KeepsRow(<<"erro", c>>, a)
    BY <1>3, <1>6, <2>1
  <2>3. ErrorsOk(c, a)
    BY <1>4, <1>8 DEF RowsBefore
  <2> QED
    BY <2>2, <2>3, ErrorsFrame
<1>9. ASSUME calibrated, NEW a \in ADC PROVE CalibrationOk(a)'
  BY <1>2, <1>3, <1>5, <1>6, <1>9, CalibrationFrame DEF Tables
<1> QED
  BY <1>7, <1>8, <1>9 DEF RowsBefore

(* The last read of a batch of the pass completes its rows.                *)
LEMMA RowsCompleted ==
    ASSUME AdcInv, read_chan, Ending, NEW k \in 1..LastBatch, InPass(k)
    PROVE  RowsBefore(k + 1)'
<1>1. phase = "read"
  BY DEF read_chan
<1>2. /\ batch = Pass[k] /\ pass' = pass /\ index \in 1..Len(batch.reads) /\ adc \in ADC
      /\ batch.mode = SINGLE
  BY <1>1, ReadingFacts, InPassFacts, ReadKeeps DEF Measures
<1>3. ASSUME NEW a \in ADC, NEW j \in 1..Len(Pass[k].reads) PROVE ReadOk(Pass[k], j, a)'
  <2>1. HasRead(j, a) \/ (j = index /\ a = adc)
    BY <1>1, <1>2, ConstantsOf DEF HasRead, Ending
  <2> QED
    BY <1>2, <2>1, ReadGives
<1>4. ASSUME NEW a \in ADC
      PROVE  LET r == converters'[a].DATA IN
             /\ r.pass = pass /\ r.ch = Pass[k].ch /\ r.cfg = Pass[k].pga
             /\ r.filt = Pass[k].fs /\ r.pmode = Pass[k].pmode
             /\ r.gain = converters'[a].GAIN0 /\ r.offs = converters'[a].OFFS0
  <2>1. PICK r, errors :
           /\ r = converters[a].DATA
           /\ r = [ch |-> batch.ch, cfg |-> batch.pga, filt |-> batch.fs,
                   pmode |-> batch.pmode, gain |-> converters[a].GAIN0,
                   offs |-> converters[a].OFFS0, pass |-> pass, errors |-> errors]
    BY <1>1, <1>2, ReadingFacts DEF Finished
  <2>2. /\ r.pass = pass /\ r.ch = Pass[k].ch /\ r.cfg = Pass[k].pga
        /\ r.filt = Pass[k].fs /\ r.pmode = Pass[k].pmode
        /\ r.gain = converters[a].GAIN0 /\ r.offs = converters[a].OFFS0
    BY <1>2, <2>1
  <2>3. /\ converters'[a].DATA = r
        /\ converters'[a].GAIN0 = converters[a].GAIN0
        /\ converters'[a].OFFS0 = converters[a].OFFS0
    BY <2>1, ReadKeeps DEF SameCoefficients
  <2> QED
    BY <2>2, <2>3
<1>5. ASSUME NEW a \in ADC, Has(Pass[k].row, a)',
             table'[<<Pass[k].row, a>>] = converters'[a].DATA
      PROVE  RowOk(k, a)'
  BY <1>2, <1>4, <1>5 DEF RowOk
<1>6. ASSUME NEW a \in ADC
      PROVE  /\ RowOk(k, a)'
             /\ \A c \in 1..N_CHAN : k = 2 * c + 2 => ErrorsOk(c, a)'
  <2>1. CASE /\ Pass[k].reads = << <<Pass[k].row, "DATA">> >>
             /\ \A c \in 1..N_CHAN : k # 2 * c + 2
    <3>1. 1 \in 1..Len(Pass[k].reads)
      BY <2>1
    <3>2. ReadOk(Pass[k], 1, a)'
      BY <1>3, <3>1
    <3>3. Has(Pass[k].row, a)' /\ table'[<<Pass[k].row, a>>] = converters'[a].DATA
      BY <2>1, <3>2 DEF ReadOk
    <3> QED
      BY <1>5, <2>1, <3>3
  <2>2. CASE \E c \in 1..N_CHAN :
                /\ k = 2 * c + 2 /\ Pass[k].row = <<"tsig", c>>
                /\ Pass[k].reads = << <<<<"stat", c>>, "STATUS">>, <<<<"tsig", c>>, "DATA">>,
                                      <<<<"erro", c>>, "ERR">> >>
    <3>1. PICK c \in 1..N_CHAN :
                /\ k = 2 * c + 2 /\ Pass[k].row = <<"tsig", c>>
                /\ Pass[k].reads = << <<<<"stat", c>>, "STATUS">>, <<<<"tsig", c>>, "DATA">>,
                                      <<<<"erro", c>>, "ERR">> >>
      BY <2>2
    <3>2. 1 \in 1..Len(Pass[k].reads) /\ 2 \in 1..Len(Pass[k].reads) /\ 3 \in 1..Len(Pass[k].reads)
      BY <3>1
    <3>3. ReadOk(Pass[k], 1, a)' /\ ReadOk(Pass[k], 2, a)' /\ ReadOk(Pass[k], 3, a)'
      BY <1>3, <3>2
    <3>4. Has(<<"stat", c>>, a)' /\ table'[<<<<"stat", c>>, a>>].rdy
      BY <3>1, <3>3 DEF ReadOk
    <3>5. Has(<<"tsig", c>>, a)' /\ table'[<<<<"tsig", c>>, a>>] = converters'[a].DATA
      BY <3>1, <3>3 DEF ReadOk
    <3>6. Has(<<"erro", c>>, a)' /\ table'[<<<<"erro", c>>, a>>] = converters'[a].DATA.errors
      BY <3>1, <3>3 DEF ReadOk
    <3>7. RowOk(k, a)'
      BY <1>5, <3>1, <3>5
    <3>8. ErrorsOk(c, a)'
      BY <3>4, <3>5, <3>6 DEF ErrorsOk
    <3>9. \A d \in 1..N_CHAN : k = 2 * d + 2 => d = c
      BY <3>1
    <3> QED
      BY <3>7, <3>8, <3>9
  <2> QED
    BY <2>1, <2>2, PassBatch
<1>7. RowsBefore(k)'
  BY RowsKept
<1>8. ASSUME NEW a \in ADC, NEW i \in 1..((k + 1) - 1) PROVE RowOk(i, a)'
  <2>1. i = k \/ i \in 1..(k - 1)
    BY ConstantsOf
  <2> QED
    BY <1>6, <1>7, <2>1 DEF RowsBefore
<1>9. ASSUME NEW a \in ADC, NEW c \in 1..N_CHAN, 2 * c + 2 < k + 1 PROVE ErrorsOk(c, a)'
  <2>1. k = 2 * c + 2 \/ 2 * c + 2 < k
    BY <1>9, ConstantsOf
  <2> QED
    BY <1>6, <1>7, <2>1 DEF RowsBefore
<1> QED
  BY <1>8, <1>9 DEF RowsBefore

LEMMA LastRead ==
    ASSUME AdcInv, read_chan, Ending, AfterBatch
    PROVE  AdcInv'
<1>1. phase = "read"
  BY DEF read_chan
<1>2. /\ AdcTypeOK /\ Place /\ Tables /\ sleep = 0
      /\ adc \in ADC /\ index \in 1..Len(batch.reads)
      /\ batch.mode = SINGLE \/ batch.mode = ZERO_SCALE
  BY <1>1, ReadingFacts
<1>3. sleep' = 0 /\ pass' = pass /\ DOMAIN converters' = ADC
  BY <1>2, ReadKeeps DEF read_chan
<1>4. ASSUME NEW a \in ADC PROVE DOMAIN converters'[a] = ChipFields /\ converters'[a].left = 0
  BY <1>1, ReadingFacts, ReadKeeps DEF Same, ChipFields
<1>5. ~InCalibration(1)
  BY <1>2, InCalibrationFacts DEF FindsGain, SINGLE, FULL_SCALE, ZERO_SCALE
<1>6. ASSUME NEW a \in ADC, InCalibration(2) PROVE CalibrationOk(a)'
  <2>1. FindsOffset(batch) /\ GainFound(a)
    BY <1>1, <1>2, <1>6, InCalibrationFacts DEF Tables, Busy
  <2>2. converters[a].OFFS0 = <<"calibrated", converters[a].GAIN0>>
    BY <1>1, <2>1, ReadingFacts DEF Finished, FindsOffset
  <2>3. converters'[a].GAIN0 = converters[a].GAIN0 /\ converters'[a].OFFS0 = converters[a].OFFS0
    BY ReadKeeps DEF SameCoefficients
  <2>4. PICK b : b = batch
    OBVIOUS
  <2>5. /\ b.reads[1] = <<<<"GAIN", 0>>, "GAIN0">> /\ b.reads[2] = <<<<"OFFS", 0>>, "OFFS0">>
        /\ Len(b.reads) = 2 /\ 1 \in 1..2 /\ 2 \in 1..2
    BY <2>1, <2>4 DEF FindsOffset
  <2>6. ASSUME NEW j \in 1..Len(b.reads) PROVE ReadOk(b, j, a)'
    <3>1. HasRead(j, a) \/ (j = index /\ a = adc)
      BY <1>1, <1>2, <2>4, <2>5, ConstantsOf DEF HasRead, Ending
    <3> QED
      BY <2>4, <3>1, ReadGives
  <2>7. /\ Has(<<"GAIN", 0>>, a)' /\ table'[<<<<"GAIN", 0>>, a>>] = converters'[a].GAIN0
        /\ Has(<<"OFFS", 0>>, a)' /\ table'[<<<<"OFFS", 0>>, a>>] = converters'[a].OFFS0
    BY <2>5, <2>6 DEF ReadOk
  <2> QED
    BY <2>1, <2>2, <2>3, <2>7 DEF CalibrationOk, GainFound
<1>7. ASSUME NEW a \in ADC, calibrated PROVE CalibrationOk(a)'
  <2>1. PICK k \in 1..LastBatch : InPass(k)
    BY <1>1, <1>2, <1>7, PlaceOf DEF Busy
  <2> QED
    BY <1>7, <2>1, RowsKept
<1>8. \A k \in 1..LastBatch : InPass(k) => RowsBefore(k + 1)'
  BY RowsCompleted
<1> QED
  BY <1>1, <1>2, <1>3, <1>4, <1>5, <1>6, <1>7, <1>8, BatchEnds

LEMMA ReadStep ==
    ASSUME AdcInv, read_chan
    PROVE  AdcInv'
<1>1. phase = "read"
  BY DEF read_chan
<1>2. /\ AdcTypeOK /\ Place /\ Converting /\ Tables /\ sleep = 0
      /\ adc \in ADC /\ adc \in Nat /\ index \in 1..Len(batch.reads) /\ index \in Nat
      /\ Len(batch.reads) \in Nat
      /\ N_ADC \in Nat /\ N_ADC > 0 /\ ADC = 0..(N_ADC - 1)
  BY <1>1, ReadingFacts, ConstantsOf
<1>3. CASE Ending /\ AfterBatch
  BY <1>3, LastRead
<1>4. CASE /\ todo' = todo /\ phase' = phase /\ calibrated' = calibrated
           /\ \/ adc < N_ADC - 1 /\ adc' = adc + 1 /\ index' = index
              \/ adc = N_ADC - 1 /\ index < Len(batch.reads) /\ adc' = 0 /\ index' = index + 1
  <2>1. SameBatch /\ sleep' = sleep
    BY <1>4 DEF SameBatch, read_chan
  <2>2. /\ batch' = batch /\ Length' = Length
        /\ \A k : InPass(k)' <=> InPass(k)
        /\ \A k : InCalibration(k)' <=> InCalibration(k)
    BY <2>1, BatchFrame
  <2>3. adc' \in ADC /\ index' \in 1..Len(batch.reads) /\ index' \in Nat \ {0}
    BY <1>2, <1>4
  <2>4. ASSUME NEW a \in ADC, NEW j \in 1..Len(batch.reads)
        PROVE  HasRead(j, a)' <=> (HasRead(j, a) \/ (j = index /\ a = adc))
    <3>1. a \in Nat /\ a <= N_ADC - 1 /\ j \in Nat
      BY <1>2
    <3> QED
      BY <1>1, <1>2, <1>4, <3>1 DEF HasRead
  <2>5. AdcTypeOK'
    <3>1. ASSUME NEW a \in ADC PROVE DOMAIN converters'[a] = ChipFields /\ converters'[a].left \in Nat
      BY <1>1, ReadingFacts, ReadKeeps DEF Same, ChipFields
    <3> QED
      BY <1>2, <1>4, <2>1, <2>3, <3>1, ReadKeeps DEF AdcTypeOK, SameBatch
  <2>6. Place'
    BY <1>1, <1>2, <1>4, <2>1, <2>2, <2>3 DEF Place
  <2>7. ASSUME NEW a \in ADC PROVE ConverterInv(a)'
    <3>1. /\ ConverterInv(a) /\ converters[a].left = 0 /\ DOMAIN converters[a] = ChipFields
          /\ Next_(a) = Length + 1 /\ Finished(a)
      BY <1>1, ReadingFacts
    <3>2. PICK c, d : c = converters[a] /\ d = converters'[a]
      OBVIOUS
    <3>3. /\ d.CH0_MAP = c.CH0_MAP /\ d.CFG0 = c.CFG0 /\ d.FILT0 = c.FILT0 /\ d.OFFS0 = c.OFFS0
          /\ d.GAIN0 = c.GAIN0 /\ d.pmode = c.pmode /\ d.mode = c.mode /\ d.left = c.left
          /\ d.pass = c.pass /\ d.DATA = c.DATA
      BY <3>2, ReadKeeps DEF Same, ChipFields
    <3>4. Next_(a)' = Length + 1 /\ Length \in {6, 7} /\ Length' = Length
      BY <1>1, <1>4, <2>2 DEF Next_, Length
    <3>5. SetUpTo(c, Length + 1)
      BY <3>1, <3>2 DEF ConverterInv
    <3>6. SetUpTo(converters[a], Next_(a))'
      BY <2>1, <2>2, <3>2, <3>3, <3>4, <3>5 DEF SetUpTo, SameBatch
    <3>7. Finished(a)'
      <4>1. CASE a # adc
        <5>1. \A j \in 1..Len(batch.reads) : HasRead(j, a)' <=> HasRead(j, a)
          BY <2>4, <4>1
        <5> QED
          BY <2>1, <3>1, <4>1, <5>1, ReadKeeps, FinishedFrame
      <4>2. CASE a = adc
        <5>1. (\A j \in 1..Len(batch.reads) : batch.reads[j][2] = "DATA" => ~HasRead(j, a)')
                 => (\A j \in 1..Len(batch.reads) : batch.reads[j][2] = "DATA" => ~HasRead(j, a))
                    /\ d.RDY = c.RDY
          BY <1>2, <2>4, <3>2, <4>2, ReadKeeps DEF ReadReg
        <5>2. (\A j \in 1..Len(batch.reads) : batch.reads[j][2] = "ERR" => ~HasRead(j, a)')
                 => (\A j \in 1..Len(batch.reads) : batch.reads[j][2] = "ERR" => ~HasRead(j, a))
                    /\ d.ERR = c.ERR
          BY <1>2, <2>4, <3>2, <4>2, ReadKeeps DEF ReadReg
        <5>3. pass' = pass /\ batch' = batch
          BY <2>1, <2>2 DEF SameBatch
        <5> QED
          BY <3>1, <3>2, <3>3, <5>1, <5>2, <5>3 DEF Finished
      <4> QED
        BY <4>1, <4>2
    <3> QED
      BY <1>1, <1>4, <3>1, <3>2, <3>3, <3>4, <3>6, <3>7 DEF ConverterInv
  <2>8. Tables'
    <3>1. ASSUME NEW k \in 1..LastBatch, InPass(k) PROVE RowsBefore(k)'
      BY <3>1, RowsKept
    <3>2. ASSUME InCalibration(2), NEW a \in ADC PROVE GainFound(a)'
      BY <1>1, <1>2, <3>2, ReadKeeps DEF Tables, GainFound, SameCoefficients, Busy
    <3>3. ASSUME calibrated, NEW a \in ADC PROVE CalibrationOk(a)'
      BY <1>1, <1>2, <3>1, <3>3, PlaceOf, RowsKept DEF Busy
    <3>4. ASSUME NEW a \in ADC, NEW j \in 1..Len(batch.reads), HasRead(j, a)'
          PROVE  ReadOk(batch, j, a)'
      <4>1. PICK b : b = batch
        OBVIOUS
      <4>2. ReadOk(b, j, a)'
        BY <2>4, <3>4, <4>1, ReadGives
      <4> QED
        BY <2>2, <4>1, <4>2 DEF ReadOk
    <3> QED
      BY <1>1, <1>4, <2>2, <3>1, <3>2, <3>3, <3>4 DEF Tables
  <2> QED
    BY <1>1, <1>4, <2>5, <2>6, <2>7, <2>8 DEF AdcInv, Converting, Busy
<1> QED
  BY <1>3, <1>4 DEF read_chan, Ending

--------------------------------------------------------------------------------
(* Time passes: the converters come to an end while usleep() lasts.        *)
LEMMA TickStep ==
    ASSUME AdcInv, Tick
    PROVE  AdcInv'
<1> USE DEF Busy
<1>1. /\ AdcTypeOK /\ Place /\ Converting /\ Tables
      /\ SameBatch /\ phase' = phase /\ adc' = adc /\ index' = index
      /\ calibrated' = calibrated /\ table' = table /\ sleep \in Nat
      /\ \A a \in ADC : DOMAIN converters[a] = ChipFields /\ converters[a].left \in Nat
  BY DEF AdcInv, AdcTypeOK, Tick, SameBatch
<1>2. /\ batch' = batch /\ Length' = Length
      /\ \A k : InPass(k)' <=> InPass(k)
      /\ \A k : InCalibration(k)' <=> InCalibration(k)
  BY <1>1, BatchFrame
<1>3. /\ phase = "sleep" => sleep > 0
      /\ sleep' = IF sleep = 0 THEN 0 ELSE sleep - 1
  BY DEF Tick
<1>4. /\ DOMAIN converters' = ADC
      /\ \A a \in ADC : \E o : converters'[a] = AfterTick(converters[a], o)
  BY DEF Tick
<1>5. ASSUME phase = "setup" PROVE index # Length
  <2>1. Len(Accesses(batch)) = Length /\ Accesses(batch)[Length - 1] = "ADC_CTRL" /\ Length \in {6, 7}
    BY AccessesOf DEF Length
  <2> QED
    BY <1>5, <2>1 DEF Tick
<1>6. ASSUME phase \in Busy, NEW a \in ADC
      PROVE  /\ ConverterInv(a) /\ ConverterInv(a)' /\ DOMAIN converters'[a] = ChipFields
             /\ converters'[a].left \in Nat
             /\ batch.mode # FULL_SCALE => converters'[a].GAIN0 = converters[a].GAIN0
             /\ batch.mode # FULL_SCALE /\ batch.mode # ZERO_SCALE => SameCoefficients(a)
  <2>1. PICK c, d, o : c = converters[a] /\ d = converters'[a] /\ d = AfterTick(c, o)
    BY <1>4
  <2>2. PICK j : j = Next_(a)
    OBVIOUS
  <2>3. /\ ConverterInv(a) /\ DOMAIN c = ChipFields /\ c.left \in Nat
        /\ j = Next_(a)' /\ SetUpTo(c, j)
        /\ j > Length => IF c.left > 0 THEN c.ERR = {} ELSE Finished(a)
        /\ phase = "sleep" => c.left <= sleep
        /\ phase = "read" => c.left = 0
    <3>1. Next_(a)' = Next_(a)
      BY <1>1, <1>2 DEF Next_
    <3> QED
      BY <1>1, <1>6, <2>1, <2>2, <3>1 DEF Converting, ConverterInv
  <2>4. /\ j \in Nat /\ j # Length /\ Length \in {6, 7}
        /\ j > Length => j = Length + 1
        /\ batch.mode \in {SINGLE, FULL_SCALE, ZERO_SCALE} /\ batch.sleep \in Nat
        /\ (Length = 7 <=> batch.mode = FULL_SCALE)
    <3>1. Length \in {6, 7} /\ index \in Nat /\ (phase = "setup" => index <= Length)
      BY <1>1 DEF Length, AdcTypeOK, Place
    <3>2. j \in Nat /\ j # Length /\ (j > Length => j = Length + 1)
      BY <1>5, <2>2, <3>1 DEF Next_
    <3> QED
      BY <1>1, <1>6, <3>1, <3>2, BatchFacts
  <2>5. j < Length => c.left = 0
    BY <2>3 DEF SetUpTo
  <2>6. j > Length => /\ c.mode = batch.mode /\ c.pmode = batch.pmode /\ c.left <= batch.sleep
                      /\ c.CH0_MAP = batch.ch /\ c.CFG0 = batch.pga /\ c.FILT0 = batch.fs
                      /\ batch.mode = SINGLE => c.pass = pass
                      /\ batch.mode = FULL_SCALE => c.OFFS0 = <<"nominal">>
    BY <2>3, <2>4 DEF SetUpTo
  <2>7. c.left = 1 => c.mode \in {SINGLE, FULL_SCALE, ZERO_SCALE}
    BY <2>4, <2>5, <2>6
  <2>8. Ticked(c, d)
    BY <2>1, <2>3, <2>7, TickFacts
  <2>9. DOMAIN converters'[a] = ChipFields
    BY <2>1, <2>8 DEF Ticked
  <2>10. \A i : HasRead(i, a)' <=> HasRead(i, a)
    BY <1>1 DEF HasRead
  <2>11. CASE c.left = 0
    <3>1. converters'[a] = converters[a]
      BY <2>1, <2>8, <2>11 DEF Ticked
    <3>2. Finished(a) => Finished(a)'
      BY <1>1, <2>10, <3>1, FinishedFrame
    <3>3. SetUpTo(converters[a], Next_(a))'
      BY <1>1, <1>2, <2>1, <2>3, <3>1 DEF SetUpTo, SameBatch
    <3>4. sleep' \in Nat
      BY <1>1, <1>3
    <3>5. Next_(a)' > Length' => IF converters'[a].left > 0 THEN converters'[a].ERR = {} ELSE Finished(a)'
      BY <1>2, <2>1, <2>3, <2>11, <3>1, <3>2
    <3>6. ConverterInv(a)'
      <4>1. converters'[a].left = 0
        BY <2>1, <2>11, <3>1
      <4>2. 0 <= sleep'
        BY <3>4
      <4> QED
        BY <3>3, <3>5, <4>1, <4>2 DEF ConverterInv
    <3> QED
      BY <2>1, <2>3, <2>9, <3>1, <3>6 DEF SameCoefficients
  <2>12. CASE c.left > 0
    <3>1. j = Length + 1
      BY <2>4, <2>5, <2>12
    <3>2. c.ERR = {}
      BY <2>3, <2>4, <2>12, <3>1
    <3>3. /\ d.CH0_MAP = c.CH0_MAP /\ d.CFG0 = c.CFG0 /\ d.FILT0 = c.FILT0
          /\ d.pmode = c.pmode /\ d.mode = c.mode /\ d.pass = c.pass
      BY <2>8 DEF Ticked, Same, Resting
    <3>4. d.left = c.left - 1
      BY <2>3, <2>8, <2>12 DEF Ticked
    <3>5. /\ batch.mode # FULL_SCALE => d.GAIN0 = c.GAIN0
          /\ batch.mode # ZERO_SCALE => d.OFFS0 = c.OFFS0
      <4>1. CASE c.left > 1
        BY <2>8, <4>1 DEF Ticked, Same, ChipFields
      <4>2. CASE c.left = 1
        BY <2>4, <2>6, <2>8, <3>1, <4>2 DEF Ticked
      <4> QED
        BY <2>3, <2>12, <4>1, <4>2
    <3>6. SetUpTo(d, j)
      <4>1. batch.mode = FULL_SCALE => d.OFFS0 = <<"nominal">>
        BY <2>4, <2>6, <3>1, <3>5 DEF FULL_SCALE, ZERO_SCALE
      <4>2. d.left <= batch.sleep
        BY <2>3, <2>4, <2>6, <3>1, <3>4
      <4>3. j > Length
        BY <2>4, <3>1
      <4> QED
        BY <2>4, <2>6, <3>1, <3>3, <4>1, <4>2, <4>3 DEF SetUpTo
    <3>7. SetUpTo(converters[a], Next_(a))'
      BY <1>1, <1>2, <2>1, <2>3, <3>6 DEF SetUpTo, SameBatch
    <3>8. CASE c.left > 1
      <4>1. d.left > 0 /\ d.ERR = {}
        BY <2>3, <2>8, <3>2, <3>4, <3>8 DEF Ticked, Same, ChipFields
      <4>2. phase = "sleep" => d.left <= sleep'
        BY <1>1, <1>3, <2>3, <3>4
      <4> QED
        BY <1>1, <2>1, <2>3, <2>12, <2>9, <3>4, <3>5, <3>7, <4>1, <4>2 DEF ConverterInv, SameCoefficients
    <3>9. CASE c.left = 1
      <4>1. d.left = 0 /\ sleep' \in Nat
        BY <1>1, <1>3, <3>4, <3>9
      <4>2. c.mode = batch.mode /\ j > Length
        BY <2>4, <2>6, <3>1
      <4>3. batch.mode = SINGLE =>
              /\ d.DATA = [ch |-> batch.ch, cfg |-> batch.pga, filt |-> batch.fs,
                           pmode |-> batch.pmode, gain |-> d.GAIN0, offs |-> d.OFFS0,
                           pass |-> pass, errors |-> d.DATA.errors]
              /\ d.RDY = TRUE /\ d.ERR = d.DATA.errors
        <5> SUFFICES ASSUME batch.mode = SINGLE
                     PROVE  /\ d.DATA = [ch |-> batch.ch, cfg |-> batch.pga, filt |-> batch.fs,
                                         pmode |-> batch.pmode, gain |-> d.GAIN0, offs |-> d.OFFS0,
                                         pass |-> pass, errors |-> d.DATA.errors]
                            /\ d.RDY = TRUE /\ d.ERR = d.DATA.errors
          OBVIOUS
        <5>1. /\ c.CH0_MAP = batch.ch /\ c.CFG0 = batch.pga /\ c.FILT0 = batch.fs
              /\ c.pmode = batch.pmode /\ c.pass = pass
          BY <2>6, <4>2
        <5>2. d.GAIN0 = c.GAIN0 /\ d.OFFS0 = c.OFFS0
          BY <3>5 DEF SINGLE, FULL_SCALE, ZERO_SCALE
        <5>3. /\ d.DATA = [ch |-> c.CH0_MAP, cfg |-> c.CFG0, filt |-> c.FILT0,
                           pmode |-> c.pmode, gain |-> c.GAIN0, offs |-> c.OFFS0,
                           pass |-> c.pass, errors |-> d.DATA.errors]
              /\ d.RDY = TRUE /\ d.ERR = c.ERR \union d.DATA.errors
          BY <2>8, <3>9, <4>2 DEF Ticked
        <5>4. d.ERR = d.DATA.errors
          BY <3>2, <5>3
        <5> QED
          BY <5>1, <5>2, <5>3, <5>4, Zenon
      <4>4. batch.mode = FULL_SCALE => d.GAIN0 = <<"calibrated", <<"nominal">>>>
        BY <2>6, <2>8, <3>9, <4>2 DEF Ticked
      <4>5. batch.mode = ZERO_SCALE => d.OFFS0 = <<"calibrated", d.GAIN0>>
        BY <2>8, <3>5, <3>9, <4>2 DEF Ticked, FULL_SCALE, ZERO_SCALE
      <4>6. Finished(a)'
        <5>1. pass' = pass /\ batch' = batch /\ d = converters'[a]
          BY <1>1, <1>2, <2>1 DEF SameBatch
        <5> QED
          BY <4>3, <4>4, <4>5, <5>1 DEF Finished
      <4> QED
        BY <1>1, <2>1, <2>3, <2>12, <2>9, <3>5, <3>7, <4>1, <4>6 DEF ConverterInv, SameCoefficients
    <3> QED
      BY <2>3, <2>12, <3>8, <3>9
  <2> QED
    BY <2>3, <2>11, <2>12
<1>7. ASSUME phase \notin Busy, NEW a \in ADC
      PROVE  converters'[a] = converters[a] /\ converters[a].left = 0
  <2>1. converters[a].left = 0
    BY <1>1, <1>7 DEF Converting
  <2>2. PICK o : converters'[a] = AfterTick(converters[a], o)
    BY <1>4
  <2> QED
    BY <2>1, <2>2 DEF AfterTick
<1>8. AdcTypeOK'
  <2>1. \A a \in ADC : DOMAIN converters'[a] = ChipFields /\ converters'[a].left \in Nat
    BY <1>1, <1>6, <1>7
  <2> QED
    BY <1>1, <1>3, <1>4, <2>1 DEF AdcTypeOK, SameBatch
<1>9. Place'
  BY <1>1, <1>2, <1>3 DEF Place, SameBatch
<1>10. Converting'
  BY <1>1, <1>6, <1>7 DEF Converting
<1>11. Tables'
  <2>1. \A a \in ADC, j \in 1..Len(batch.reads) :
           phase = "read" => converters'[a] = converters[a] /\ (HasRead(j, a)' <=> HasRead(j, a))
    <3>1. ASSUME phase = "read", NEW a \in ADC PROVE converters'[a] = converters[a]
      <4>1. converters[a].left = 0
        BY <1>6, <3>1 DEF ConverterInv
      <4>2. PICK o : converters'[a] = AfterTick(converters[a], o)
        BY <1>4
      <4> QED
        BY <4>1, <4>2 DEF AfterTick
    <3> QED
      BY <1>1, <3>1 DEF HasRead
  <2>2. ASSUME phase = "read", NEW a \in ADC, NEW j \in 1..Len(batch.reads), HasRead(j, a)'
        PROVE  ReadOk(batch, j, a)'
    <3>1. ReadOk(batch, j, a) /\ converters'[a] = converters[a]
      BY <1>1, <2>1, <2>2 DEF Tables
    <3> QED
      BY <1>1, <1>2, <3>1 DEF ReadOk, Has
  <2>3. ASSUME phase \in Busy, NEW k \in 1..LastBatch, InPass(k) PROVE RowsBefore(k)'
    <3>1. batch.mode = SINGLE
      BY <1>1, <2>3, BatchFacts
    <3>2. \A a \in ADC : SameCoefficients(a)
      BY <1>6, <2>3, <3>1 DEF SINGLE, FULL_SCALE, ZERO_SCALE
    <3> QED
      BY <1>1, <2>3, <3>2, RowsFrame DEF Tables, SameBatch
  <2>4. ASSUME phase = "print" PROVE RowsBefore(LastBatch + 1)'
    <3>1. \A a \in ADC : SameCoefficients(a)
      BY <1>7, <2>4 DEF SameCoefficients
    <3> QED
      BY <1>1, <2>4, <3>1, RowsFrame DEF Tables, SameBatch
  <2>5. ASSUME phase \in Busy, InCalibration(2), NEW a \in ADC PROVE GainFound(a)'
    <3>1. batch.mode = ZERO_SCALE
      BY <2>5, InCalibrationFacts DEF FindsOffset
    <3>2. converters'[a].GAIN0 = converters[a].GAIN0
      BY <1>6, <2>5, <3>1 DEF FULL_SCALE, ZERO_SCALE
    <3> QED
      BY <1>1, <2>5, <3>2 DEF Tables, GainFound
  <2>6. ASSUME calibrated, NEW a \in ADC PROVE CalibrationOk(a)'
    <3>1. SameCoefficients(a)
      <4>1. CASE phase \notin Busy
        BY <1>7, <4>1 DEF SameCoefficients
      <4>2. CASE phase \in Busy
        <5>1. batch.mode = SINGLE
          BY <1>1, <2>6, <4>2, BatchFacts DEF Place
        <5> QED
          BY <1>6, <4>2, <5>1 DEF SINGLE, FULL_SCALE, ZERO_SCALE
      <4> QED
        BY <4>1, <4>2
    <3> QED
      BY <1>1, <2>6, <3>1, CalibrationFrame, TableFrame DEF Tables
  <2> QED
    BY <1>1, <1>2, <2>2, <2>3, <2>4, <2>5, <2>6 DEF Tables
<1> QED
  BY <1>8, <1>9, <1>10, <1>11 DEF AdcInv

--------------------------------------------------------------------------------
(* Between the batches: the table, a calibration, the next pass.           *)
LEMMA FromCommands ==
    ASSUME AdcInv, phase \in {"print", "commands"}
    PROVE  /\ AdcTypeOK /\ Place /\ Converting /\ Tables
           /\ todo = <<>> /\ adc = 0 /\ index = 1 /\ sleep = 0
           /\ \A a \in ADC : DOMAIN converters[a] = ChipFields /\ converters[a].left = 0
  BY DEF AdcInv, AdcTypeOK, Place, Converting, Busy

LEMMA PrintStep ==
    ASSUME AdcInv, print_table
    PROVE  AdcInv'
<1>1. /\ phase = "print" /\ phase' = "commands"
      /\ todo' = todo /\ adc' = adc /\ index' = index /\ sleep' = sleep /\ pass' = pass
      /\ calibrated' = calibrated /\ converters' = converters /\ table' = table
  BY DEF print_table
<1>2. /\ AdcTypeOK /\ Place /\ Converting /\ Tables
      /\ todo = <<>> /\ adc = 0 /\ index = 1 /\ sleep = 0
      /\ \A a \in ADC : DOMAIN converters[a] = ChipFields /\ converters[a].left = 0
  BY <1>1, FromCommands
<1>3. \A a \in ADC : CalibrationOk(a) => CalibrationOk(a)'
  BY <1>1, CalibrationFrame, TableFrame DEF SameCoefficients
<1>4. AdcTypeOK'
  BY <1>1, <1>2 DEF AdcTypeOK
<1>5. Place' /\ Converting'
  BY <1>1, <1>2 DEF Place, Converting, Busy
<1>6. Tables'
  BY <1>1, <1>2, <1>3 DEF Tables, Busy
<1> QED
  BY <1>4, <1>5, <1>6 DEF AdcInv

LEMMA CalibrateStep ==
    ASSUME AdcInv, Calibrate
    PROVE  AdcInv'
<1>1. /\ phase = "commands" /\ phase' = "setup" /\ todo' = calibrate_ad7124_8 /\ calibrated' = FALSE
      /\ adc' = adc /\ index' = index /\ sleep' = sleep /\ pass' = pass
      /\ converters' = converters /\ table' = table
  BY DEF Calibrate
<1>2. /\ AdcTypeOK /\ Place /\ Converting /\ Tables
      /\ adc = 0 /\ index = 1 /\ sleep = 0
      /\ \A a \in ADC : DOMAIN converters[a] = ChipFields /\ converters[a].left = 0
  BY <1>1, FromCommands
<1>3. AdcTypeOK'
  BY <1>1, <1>2 DEF AdcTypeOK, Busy
<1>4. Converting'
  BY <1>1, <1>2, BatchBegins DEF AdcTypeOK
<1>5. todo' = SubSeq(calibrate_ad7124_8, 1, 2) /\ 1 \in 1..2 /\ 2 \in 1..2
  BY <1>1, CalibrationSuffix
<1>6. InCalibration(1)' /\ \A k : ~InPass(k)'
  <2>1. ASSUME NEW k, InPass(k)' PROVE FALSE
    BY <1>5, <2>1, PlacesApart, Zenon DEF InPass
  <2> QED
    BY <1>5, <2>1 DEF InCalibration
<1>7. ~InCalibration(2)'
  <2>1. Head(SubSeq(calibrate_ad7124_8, 1, 2)).mode = FULL_SCALE
    BY CalibrationSuffix DEF calibrate_ad7124_8, CalibrationBatch
  <2>2. Head(SubSeq(calibrate_ad7124_8, 2, 2)).mode = ZERO_SCALE
    BY CalibrationSuffix DEF calibrate_ad7124_8, CalibrationBatch
  <2>3. FULL_SCALE # ZERO_SCALE
    BY DEF FULL_SCALE, ZERO_SCALE
  <2> QED
    BY <1>5, <2>1, <2>2, <2>3, Zenon DEF InCalibration
<1>8. index' <= Length'
  BY <1>1, <1>2 DEF Length
<1>9. Place'
  BY <1>1, <1>2, <1>5, <1>6, <1>8 DEF Place, Busy
<1>10. Tables'
  BY <1>1, <1>6, <1>7 DEF Tables, Busy
<1> QED
  BY <1>3, <1>4, <1>9, <1>10 DEF AdcInv

LEMMA PassBegins ==
    ASSUME todo' = Pass, phase' = "setup", adc' = 0, index' = 1, sleep' = 0,
           DOMAIN converters' = ADC,
           \A a \in ADC : DOMAIN converters'[a] = ChipFields /\ converters'[a].left = 0,
           calibrated' => \A a \in ADC : CalibrationOk(a)'
    PROVE  Place' /\ Converting' /\ Tables'
<1>1. Converting'
  BY BatchBegins
<1>2. todo' = SubSeq(Pass, 1, LastBatch) /\ 1 \in 1..LastBatch
  BY PassWhole, ConstantsOf
<1>3. InPass(1)' /\ \A k : InPass(k)' => k = 1
  <2>1. InPass(1)'
    BY <1>2 DEF InPass
  <2>2. ASSUME NEW k, InPass(k)' PROVE k = 1
    BY <1>2, <2>2, PlacesApart, Zenon DEF InPass
  <2> QED
    BY <2>1, <2>2
<1>4. ~InCalibration(2)'
  BY <1>2, PlacesApart, Zenon DEF InCalibration
<1>5. index' <= Length'
  BY DEF Length
<1>6. Place'
  BY <1>2, <1>3, <1>5 DEF Place, Busy
<1>7. RowsBefore(1)'
  BY ConstantsOf DEF RowsBefore
<1>8. Tables'
  BY <1>3, <1>4, <1>7 DEF Tables, Busy
<1> QED
  BY <1>1, <1>6, <1>8

LEMMA PassStep ==
    ASSUME AdcInv, NextPass
    PROVE  AdcInv'
<1>1. /\ phase = "commands" /\ phase' = "setup" /\ todo' = Pass /\ pass' = 1 - pass
      /\ adc' = adc /\ index' = index /\ sleep' = sleep /\ calibrated' = calibrated
      /\ converters' = converters /\ table' = table
  BY DEF NextPass
<1>2. /\ AdcTypeOK /\ Place /\ Converting /\ Tables
      /\ adc = 0 /\ index = 1 /\ sleep = 0
      /\ \A a \in ADC : DOMAIN converters[a] = ChipFields /\ converters[a].left = 0
  BY <1>1, FromCommands
<1>3. AdcTypeOK'
  <2>1. pass' \in {0, 1}
    BY <1>1, <1>2 DEF AdcTypeOK
  <2> QED
    BY <1>1, <1>2, <2>1 DEF AdcTypeOK, Busy
<1>4. calibrated' => \A a \in ADC : CalibrationOk(a)'
  BY <1>1, <1>2, CalibrationFrame, TableFrame DEF SameCoefficients, Tables
<1> QED
  BY <1>1, <1>2, <1>3, <1>4, PassBegins DEF AdcInv, AdcTypeOK

LEMMA InitStep == AdcInit => AdcInv
<1> SUFFICES ASSUME AdcInit PROVE AdcInv
  OBVIOUS
<1>1. /\ todo = Pass /\ phase = "setup" /\ adc = 0 /\ index = 1 /\ sleep = 0 /\ pass = 0
      /\ calibrated = FALSE /\ converters = [a \in ADC |-> PowerUp]
  BY DEF AdcInit
<1>2. \A a \in ADC : converters[a] = PowerUp
  BY <1>1
<1>3. DOMAIN PowerUp = ChipFields /\ PowerUp.left = 0
  BY DEF PowerUp, ChipFields
<1>4. AdcTypeOK
  <2>1. \A a \in ADC : DOMAIN converters[a] = ChipFields /\ converters[a].left = 0
    BY <1>2, <1>3
  <2>2. DOMAIN converters = ADC
    BY <1>1
  <2>3. 0 \in ADC
    BY ConstantsOf
  <2>4. phase \in Busy /\ adc \in ADC /\ index \in Nat \ {0} /\ sleep \in Nat /\ pass \in {0, 1}
    BY <1>1, <2>3 DEF Busy
  <2>5. calibrated \in BOOLEAN
    BY <1>1
  <2> QED
    BY <2>1, <2>2, <2>4, <2>5 DEF AdcTypeOK
<1>5. todo = SubSeq(Pass, 1, LastBatch) /\ 1 \in 1..LastBatch
  BY <1>1, PassWhole, ConstantsOf
<1>6. InPass(1)
  BY <1>5 DEF InPass
<1>7. \A k : InPass(k) => k = 1
  BY <1>5, PlacesApart, Zenon DEF InPass
<1>8. ~InCalibration(2)
  BY <1>5, PlacesApart, Zenon DEF InCalibration
<1>9. Length \in {6, 7}
  BY DEF Length
<1>10. Place
  BY <1>1, <1>5, <1>6, <1>9 DEF Place, Busy
<1>11. ASSUME NEW a \in ADC PROVE ConverterInv(a)
  <2>1. Next_(a) = 1
    BY <1>1, ConstantsOf DEF Next_
  <2>2. SetUpTo(converters[a], 1)
    BY <1>2, <1>3, <1>9 DEF SetUpTo
  <2> QED
    BY <1>1, <1>9, <2>1, <2>2 DEF ConverterInv
<1>12. RowsBefore(1)
  BY ConstantsOf DEF RowsBefore
<1>13. Tables
  BY <1>1, <1>7, <1>8, <1>12 DEF Tables, Busy
<1> QED
  BY <1>1, <1>4, <1>10, <1>11, <1>13 DEF AdcInv, Converting, Busy

LEMMA StutterStep ==
    ASSUME AdcInv, UNCHANGED adc_vars
    PROVE  AdcInv'
<1>1. /\ todo' = todo /\ phase' = phase /\ adc' = adc /\ index' = index /\ sleep' = sleep
      /\ pass' = pass /\ calibrated' = calibrated /\ converters' = converters /\ table' = table
  BY DEF adc_vars
<1>2. SameBatch /\ \A a \in ADC : SameCoefficients(a)
  BY <1>1 DEF SameBatch, SameCoefficients
<1>3. /\ batch' = batch /\ Length' = Length
      /\ \A k : InPass(k)' <=> InPass(k)
      /\ \A k : InCalibration(k)' <=> InCalibration(k)
  BY <1>2, BatchFrame
<1>4. AdcTypeOK'
  BY <1>1 DEF AdcInv, AdcTypeOK
<1>5. Place'
  BY <1>1, <1>3 DEF AdcInv, Place
<1>6. \A j, a : HasRead(j, a)' <=> HasRead(j, a)
  BY <1>1 DEF HasRead
<1>7. ASSUME NEW a \in ADC, ConverterInv(a) PROVE ConverterInv(a)'
  <2>1. Next_(a)' = Next_(a)
    BY <1>1, <1>3 DEF Next_
  <2>2. Finished(a) => Finished(a)'
    BY <1>1, <1>2, <1>6, FinishedFrame
  <2>3. SetUpTo(converters[a], Next_(a)) => SetUpTo(converters[a], Next_(a))'
    BY <1>1, <1>3, <2>1 DEF SetUpTo
  <2> QED
    BY <1>1, <1>3, <1>7, <2>1, <2>2, <2>3 DEF ConverterInv
<1>8. Converting'
  BY <1>1, <1>7 DEF AdcInv, Converting
<1>9. Tables'
  <2>1. \A k : RowsBefore(k) => RowsBefore(k)'
    BY <1>1, <1>2, RowsFrame
  <2>2. \A a \in ADC : CalibrationOk(a) => CalibrationOk(a)'
    BY <1>1, <1>2, CalibrationFrame, TableFrame
  <2>3. \A a \in ADC : GainFound(a) => GainFound(a)'
    BY <1>1 DEF GainFound
  <2>4. \A j, a : ReadOk(batch, j, a) => ReadOk(batch, j, a)'
    BY <1>1, <1>3 DEF ReadOk, Has
  <2> QED
    BY <1>1, <1>3, <1>6, <2>1, <2>2, <2>3, <2>4 DEF AdcInv, Tables
<1> QED
  BY <1>4, <1>5, <1>8, <1>9 DEF AdcInv

LEMMA AdcInductive == AdcSpec => []AdcInv
<1>1. AdcInv /\ [AdcNext]_adc_vars => AdcInv'
  BY SetupStep, SleepStep, ReadStep, PrintStep, CalibrateStep, PassStep, TickStep, StutterStep
     DEF AdcNext, main
<1> QED
  BY <1>1, InitStep, PTL DEF AdcSpec

--------------------------------------------------------------------------------
(* Every number that is printed was measured in this pass, with the input  *)
(* and the gain of its row and the present coefficients, although nothing  *)
(* but usleep() orders the read behind the conversion (main.c:573-674).    *)
THEOREM PrintedIsMeasured == AdcSpec => []TableIsOfThisPass
<1>1. AdcInv => TableIsOfThisPass
  <2> SUFFICES ASSUME AdcInv, phase = "print", NEW i \in 1..Len(Pass), NEW a \in ADC
               PROVE  RowOk(i, a)
    BY DEF TableIsOfThisPass, RowOk
  <2>1. RowsBefore(LastBatch + 1)
    BY DEF AdcInv, Tables
  <2>2. i \in 1..((LastBatch + 1) - 1)
    BY PassWhole, ConstantsOf
  <2> QED
    BY <2>1, <2>2 DEF RowsBefore
<1> QED
  BY <1>1, AdcInductive, PTL

(* The state and the errors that are printed are those of the result in    *)
(* the same line, for every instant at which the result came and whatever  *)
(* waking up has raised before (main.c:227-258, 635-637).                  *)
THEOREM ErrorsAreOfTheResult == AdcSpec => []ErrorsOfThisResult
<1>1. AdcInv => ErrorsOfThisResult
  <2> SUFFICES ASSUME AdcInv, phase = "print", NEW c \in 1..N_CHAN, NEW a \in ADC
               PROVE  ErrorsOk(c, a)
    BY DEF ErrorsOfThisResult, ErrorsOk
  <2>1. RowsBefore(LastBatch + 1)
    BY DEF AdcInv, Tables
  <2>2. 2 * c + 2 < LastBatch + 1
    BY ConstantsOf
  <2> QED
    BY <2>1, <2>2 DEF RowsBefore
<1> QED
  BY <1>1, AdcInductive, PTL

(* Behind a calibration every converter works with the coefficients that   *)
(* were printed, the offset found with the gain and the gain found with    *)
(* the nominal offset, through all the passes that follow (main.c:273-297).*)
THEOREM CalibrationIsKept == AdcSpec => []CalibrationHolds
<1>1. AdcInv => CalibrationHolds
  BY DEF AdcInv, Tables, CalibrationHolds, CalibrationOk, GainFound
<1> QED
  BY <1>1, AdcInductive, PTL
================================================================================
