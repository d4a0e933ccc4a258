------------------------------ MODULE OnchipFlash ------------------------------
(***************************************************************************)
(* The driver of the on-chip flash (altera_onchip_flash.c) and the flash   *)
(* controller: blocks are erased, words are programmed, and both can fail. *)
(* A byte is one bit wide here: TRUE is its erased state, and programming  *)
(* can only clear it.  A page is one block.  Offsets and lengths are not   *)
(* negative.                                                               *)
(*                                                                         *)
(* The controller gives up before the driver does (350 ms, tmc_nios2.v:217,*)
(* against 700000 polls of 1 us), and is busy before the driver can read   *)
(* its status again.                                                       *)
(***************************************************************************)
EXTENDS Integers, Sequences

CONSTANTS PageBytes, WordBytes,
          Sectors,            \* the sectors in order, as sets of pages
          Unavailable,        \* the ones that the controller says are not there
          FlashCalls,         \* the calls the program may make
          MaxFlashCalls,
          PollTimeout,        \* ALTERA_ONCHIP_FLASH_STATUS_BIT_POLLING_TIMEOUT_VALUE
          ControllerTimeout   \* in polls of the driver

ASSUME FlashAssumption ==
    /\ {PageBytes, WordBytes, PollTimeout, ControllerTimeout} \subseteq Nat \ {0}
    /\ PageBytes % WordBytes = 0 /\ ControllerTimeout < PollTimeout
    /\ Unavailable \subseteq DOMAIN Sectors /\ \A s \in DOMAIN Sectors : Sectors[s] \subseteq Nat
    /\ FlashCalls \subseteq [op : {"read", "erase_block", "write_block", "write"}, offset : Nat, data : Seq(BOOLEAN)]

Pages == UNION {Sectors[s] : s \in DOMAIN Sectors}
PageOf(a) == a \div PageBytes
Page(p) == (p * PageBytes)..((p + 1) * PageBytes - 1)
Bytes == UNION {Page(p) : p \in Pages}

(* dev.length: ONCHIP_FLASH_0_DATA_SPAN, all sectors together. *)
DevLength == 1 + CHOOSE a \in Bytes : \A b \in Bytes : b <= a

VARIABLES
    cells,      \* the contents
    ctl,        \* the registers of the controller
    read_only,  \* the flag of the device
    fcall,      \* the call that runs, or the last one
    fpc,        \* where it is; "done": it has returned ret
    ret,        \* ret_code
    offset,     \* where write() is
    data_offset,    \* current_data_offset of write_block()
    polls,      \* count_down of the poll loop
    before,     \* history: the contents when the call was made
    made        \* history: the number of calls made

flash_vars == <<cells, ctl, read_only, fcall, fpc, ret, offset, data_offset, polls,
                before, made>>

(* altera_onchip_flash_init(): a region for each sector that is available. *)
Blocks == UNION {Sectors[s] : s \in DOMAIN Sectors \ Unavailable}

FlashInit ==
    /\ cells \in {[a \in Bytes |-> FALSE], [a \in Bytes |-> a % 2 = 0]}
    /\ ctl = [protected |-> TRUE, erasing |-> FALSE, age |-> 0, page |-> 0,
              erase_passed |-> FALSE, write_passed |-> FALSE]
    /\ read_only \in BOOLEAN
    /\ fcall = [op |-> "none", offset |-> 0, data |-> <<>>] /\ fpc = "done" /\ ret = "0"
    /\ offset = 0 /\ data_offset = 0 /\ polls = PollTimeout /\ before = cells /\ made = 0

(***************************************************************************)
(* The controller.                                                         *)
(***************************************************************************)
Writable(p) == ~ctl.protected /\ p \in Blocks

(* What an operation on these bytes may do: pass, or fail at some of them. *)
Outcomes(bytes, writable) ==
    IF writable
    THEN {[passed |-> TRUE, at |-> bytes]} \cup {[passed |-> FALSE, at |-> some] : some \in SUBSET bytes}
    ELSE {[passed |-> FALSE, at |-> {}]}

EraseEnds ==
    /\ ctl.erasing
    /\ \E o \in Outcomes(Page(ctl.page), ctl.page \in Blocks) :
          /\ cells' = [a \in Bytes |-> cells[a] \/ a \in o.at]
          /\ ctl' = [ctl EXCEPT !.erasing = FALSE, !.age = 0, !.erase_passed = o.passed]
    /\ UNCHANGED <<read_only, fcall, fpc, ret, offset, data_offset, polls, before, made>>

(***************************************************************************)
(* The poll loops.                                                         *)
(***************************************************************************)
At(label) == fpc = label /\ UNCHANGED <<read_only, fcall, before, made>>

Poll(label, satisfied, then, otherwise) ==
    /\ At(label)
    /\ IF satisfied
       THEN ret' = "0" /\ fpc' = then /\ polls' = PollTimeout /\ UNCHANGED ctl
       ELSE /\ ctl.erasing => ctl.age < ControllerTimeout
            /\ ctl' = [ctl EXCEPT !.age = IF ctl.erasing THEN @ + 1 ELSE 0]
            /\ IF polls > 1 THEN polls' = polls - 1 /\ UNCHANGED <<ret, fpc>>
               ELSE ret' = "-ETIMEDOUT" /\ fpc' = otherwise /\ polls' = PollTimeout
    /\ UNCHANGED <<cells, offset, data_offset>>

GoesIdle(label, then, otherwise) == Poll(label, ~ctl.erasing, then, otherwise)

(* The write protection is lifted or put back. *)
Protect(label, protected, then) ==
    /\ At(label) /\ fpc' = then
    /\ ctl' = [ctl EXCEPT !.protected = protected]
    /\ UNCHANGED <<cells, ret, offset, data_offset, polls>>

(***************************************************************************)
(* The calls.                                                              *)
(***************************************************************************)
CallFlash ==
    /\ fpc = "done" /\ made < MaxFlashCalls
    /\ \E c \in FlashCalls :
          /\ fcall' = c /\ fpc' = c.op /\ offset' = c.offset /\ data_offset' = c.offset
    /\ ret' = "0" /\ before' = cells /\ made' = made + 1
    /\ UNCHANGED <<cells, ctl, read_only, polls>>

End == fcall.offset + Len(fcall.data)
DataAt(a) == fcall.data[a - fcall.offset + 1]

(* A check at the beginning of a function, and where it goes on. *)
Check(label, code, then, otherwise) ==
    /\ At(label)
    /\ ret' = code /\ fpc' = IF code = "0" THEN then ELSE otherwise
    /\ UNCHANGED <<cells, ctl, offset, data_offset, polls>>

(* The block it is called for: by write(), the one it has come to. *)
EraseOffset == IF fcall.op = "write" THEN PageOf(offset) * PageBytes ELSE fcall.offset

alt_onchip_flash_erase_block ==
    \/ Check("erase_block",
             IF EraseOffset >= DevLength THEN "-EFAULT"
             ELSE IF read_only THEN "-ENODEV"
             ELSE IF EraseOffset % PageBytes # 0 THEN "-EINVAL" ELSE "0", "erase_wait", "erased")
    \/ GoesIdle("erase_wait", "erase_enable", "erased")
    \/ Protect("erase_enable", FALSE, "erase")
    \/ /\ At("erase") /\ fpc' = "erase_idle"
       /\ ctl' = [ctl EXCEPT !.erasing = TRUE, !.page = PageOf(EraseOffset)]
       /\ UNCHANGED <<cells, ret, offset, data_offset, polls>>
    \/ GoesIdle("erase_idle", "erase_passed", "erase_passed")
    \/ Poll("erase_passed", ctl.erase_passed, "erase_disable", "erase_disable")
    \/ Protect("erase_disable", TRUE, "erased")
    \/ Check("erased", ret, IF fcall.op = "write" THEN "write_block" ELSE "done", "done")

(* The part of the range that lies in the block write() is at.             *)
BlockEnd == LET end == (PageOf(offset) + 1) * PageBytes IN IF end < End THEN end ELSE End

(* The end of what write_block() is called for. *)
WriteEnd == IF fcall.op = "write" THEN BlockEnd ELSE End

Word(a) == {b \in Bytes : b \div WordBytes = a \div WordBytes}

(* Mutant of WordData: the padding clears the bytes around the data. *)
WordData_ZeroPadded(b) == b >= data_offset /\ b < WriteEnd /\ DataAt(b)

(* The word that is written, padded with 0xFF around the data. *)
WordData(b) == (b >= data_offset /\ b < WriteEnd) => DataAt(b)

(* The bus waits until the word is programmed. *)
WriteWord ==
    /\ At("write_word") /\ data_offset < WriteEnd
    /\ \E o \in Outcomes(Word(data_offset), Writable(PageOf(data_offset))) :
          /\ cells' = [a \in Bytes |-> cells[a] /\ (a \in o.at => WordData(a))]
          /\ ctl' = [ctl EXCEPT !.write_passed = o.passed]
    /\ fpc' = "write_idle"
    /\ UNCHANGED <<ret, offset, data_offset, polls>>

NextWord ==
    /\ At("next_word") /\ fpc' = "write_word"
    /\ data_offset' = (data_offset \div WordBytes + 1) * WordBytes
    /\ UNCHANGED <<cells, ctl, ret, offset, polls>>

alt_onchip_flash_write_block ==
    \/ Check("write_block",
             IF data_offset >= DevLength \/ WriteEnd > DevLength THEN "-EFAULT"
             ELSE IF read_only THEN "-ENODEV" ELSE "0", "write_wait", "written")
    \/ GoesIdle("write_wait", "write_enable", "written")
    \/ Protect("write_enable", FALSE, "write_word")
    \/ WriteWord \/ NextWord
    \/ GoesIdle("write_idle", "write_passed", "write_disable")
    \/ Poll("write_passed", ctl.write_passed, "next_word", "write_disable")
    \/ At("write_word") /\ data_offset >= WriteEnd /\ fpc' = "write_disable"
       /\ UNCHANGED <<cells, ctl, ret, offset, data_offset, polls>>
    \/ Protect("write_disable", TRUE, "written")
    \/ Check("written", ret, IF fcall.op = "write" THEN "next_block" ELSE "done", "done")

(* memcmp() of the data with what the block holds there. *)
Differs == \E a \in offset..(BlockEnd - 1) : DataAt(a) # cells[a]

(* write() is at the block of a region, or there is none behind offset.    *)
AtBlock ==
    /\ At("at_block")
    /\ fpc' = IF PageOf(offset) \notin Blocks THEN "done"
              ELSE IF Differs THEN "erase_block" ELSE "next_block"
    /\ UNCHANGED <<cells, ctl, ret, offset, data_offset, polls>>

NextBlock ==
    /\ At("next_block")
    /\ fpc' = IF BlockEnd = End THEN "done" ELSE "at_block"
    /\ offset' = BlockEnd /\ data_offset' = BlockEnd
    /\ UNCHANGED <<cells, ctl, ret, polls>>

alt_onchip_flash_write ==
    \/ Check("write", IF fcall.offset >= DevLength \/ End > DevLength THEN "-EFAULT" ELSE "0",
             "at_block", "done")
    \/ AtBlock \/ NextBlock

(* The controller says of the last word read whether it was there. *)
alt_onchip_flash_read ==
    Check("read", IF fcall.offset >= DevLength \/ End > DevLength THEN "-EFAULT"
                  ELSE IF End > fcall.offset /\ End - 1 \notin Bytes THEN "-EIO" ELSE "0", "done", "done")

FlashNext ==
    \/ alt_onchip_flash_read \/ EraseEnds \/ CallFlash
    \/ alt_onchip_flash_erase_block \/ alt_onchip_flash_write_block \/ alt_onchip_flash_write

FlashSpec == FlashInit /\ [][FlashNext]_flash_vars

--------------------------------------------------------------------------------
Written == fcall.offset..(End - 1)

(* The bytes that a call may change: a write erases the blocks it touches. *)
Touched ==
    CASE fcall.op \in {"none", "read"} -> {}
      [] fcall.op = "erase_block" -> Page(PageOf(fcall.offset))
      [] fcall.op = "write_block" -> Written
      [] fcall.op = "write" -> UNION {Page(PageOf(a)) : a \in Written}

Stored ==
    CASE fcall.op \in {"none", "read"} -> TRUE
      [] fcall.op = "erase_block" -> \A a \in Touched : cells[a]
      [] fcall.op = "write_block" -> \A a \in Written : cells[a] = (before[a] /\ DataAt(a))
      [] fcall.op = "write" -> \A a \in Written : cells[a] = DataAt(a)

(* A call that returns 0 has stored what it was asked to, whatever failed  *)
(* on the way, one that returns an error has changed nothing but the       *)
(* blocks of its range, and the flash is write protected between the calls *)
(* (altera_onchip_flash.c:131-383).  Of a range that leaves the regions,   *)
(* or begins outside of them, the part behind is not written, and the call *)
(* returns 0 all the same, against line 299.                               *)
FlashAsReported ==
    /\ \A a \in Bytes \ Touched : cells[a] = before[a]
    /\ fpc = "done" =>
          /\ ctl.protected /\ ~ctl.erasing
          /\ ret = "0" /\ {PageOf(a) : a \in Written} \subseteq Blocks => Stored
================================================================================
