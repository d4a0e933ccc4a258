------------------------------ MODULE IrqDispatch ------------------------------
(***************************************************************************)
(* The interrupts of the HAL: alt_ic_isr_register(), the nested sections   *)
(* with the interrupts disabled, and alt_irq_handler(), on the internal    *)
(* interrupt controller of the Nios II.                                    *)
(*                                                                         *)
(* A device holds its line until its handler has served it; a handler is   *)
(* named by the registration it comes from, and so is its context.  The    *)
(* program enables no line without a handler (alt_ic_irq_enable() alone).  *)
(***************************************************************************)
EXTENDS Naturals

CONSTANTS NIRQ,      \* ALT_NIRQ
          Isrs       \* the registrations a program makes

NullIsr == "null"

ASSUME IrqAssumption == NIRQ \in Nat \ {0} /\ NullIsr \notin Isrs

Ids == 0..(NIRQ - 1)

VARIABLES
    lines,      \* the interrupt lines that are asserted
    PIE,        \* status.PIE
    ienable,    \* the ienable register, which alt_irq_active mirrors
    alt_irq,    \* the table of handlers
    section,    \* the program is between disable_all() and enable_all() of its own
    reg,        \* the call that is under way: a registration, or a line alone
    saved,      \* its local variable status
    active      \* what alt_irq_handler() has read from ipending; {}: it is not running

irq_vars == <<lines, PIE, ienable, alt_irq, section, reg, saved, active>>

NoReg == [at |-> "none", id |-> 0, isr |-> NullIsr, first |-> "none"]

IrqInit ==
    /\ lines = {} /\ PIE = TRUE /\ ienable = {}
    /\ alt_irq = [i \in Ids |-> [handler |-> NullIsr, context |-> NullIsr]]
    /\ section = FALSE /\ reg = NoReg /\ saved = TRUE /\ active = {}

ipending == lines \cap ienable
Lowest(S) == CHOOSE i \in S : \A j \in S : i <= j

Asserted(i) ==
    /\ lines' = lines \cup {i}
    /\ UNCHANGED <<PIE, ienable, alt_irq, section, reg, saved, active>>

(***************************************************************************)
(* The program, which runs while no handler does.                          *)
(***************************************************************************)
RegAt(step) == active = {} /\ reg.at = step
GoTo(step) == reg' = [reg EXCEPT !.at = step]

disable_all == active = {} /\ ~section /\ reg.at = "none" /\ section' = TRUE /\ PIE' = FALSE
enable_all == active = {} /\ section /\ reg.at = "none" /\ section' = FALSE /\ PIE' = TRUE

Section == (disable_all \/ enable_all) /\ UNCHANGED <<lines, ienable, alt_irq, reg, saved, active>>

(* An id that is not below ALT_NIRQ is refused with -EINVAL. *)
alt_iic_isr_register(id, isr) ==
    /\ RegAt("none") /\ reg' = [at |-> "disable", id |-> id, isr |-> isr, first |-> "handler"]
    /\ UNCHANGED <<lines, PIE, ienable, alt_irq, section, saved, active>>

(* alt_irq_enable() and alt_irq_disable() of a line by itself.             *)
SwitchLine(id, isr) ==
    /\ RegAt("none") /\ reg' = [at |-> "disable", id |-> id, isr |-> isr, first |-> "line"]
    /\ UNCHANGED <<lines, PIE, ienable, alt_irq, section, saved, active>>

alt_ic_irq_enable(id) == alt_irq[id].handler # NullIsr /\ SwitchLine(id, alt_irq[id].handler)
alt_ic_irq_disable(id) == SwitchLine(id, NullIsr)

(* Mutant of Disabled: the interrupts stay enabled. *)
Disabled_Not == UNCHANGED PIE

Disabled == PIE' = FALSE

RegDisables ==
    /\ RegAt("disable") /\ GoTo(reg.first) /\ saved' = PIE /\ Disabled
    /\ UNCHANGED <<lines, ienable, alt_irq, section, active>>

SetHandler ==
    /\ RegAt("handler") /\ GoTo("context")
    /\ alt_irq' = [alt_irq EXCEPT ![reg.id].handler = reg.isr]
    /\ UNCHANGED <<lines, PIE, ienable, section, saved, active>>

SetContext ==
    /\ RegAt("context") /\ GoTo("line")
    /\ alt_irq' = [alt_irq EXCEPT ![reg.id].context = reg.isr]
    /\ UNCHANGED <<lines, PIE, ienable, section, saved, active>>

(* alt_irq_enable() and alt_irq_disable() save and restore PIE themselves: *)
(* it is clear before and after.                                           *)
SetLine ==
    /\ RegAt("line") /\ GoTo("enable")
    /\ ienable' = IF reg.isr # NullIsr THEN ienable \cup {reg.id} ELSE ienable \ {reg.id}
    /\ UNCHANGED <<lines, PIE, alt_irq, section, saved, active>>

(* Mutant of Restored: PIE is set whatever it was. *)
Restored_Always == PIE' = TRUE

Restored == PIE' = saved

RegEnables ==
    /\ RegAt("enable") /\ reg' = NoReg /\ Restored
    /\ UNCHANGED <<lines, ienable, alt_irq, section, saved, active>>

(***************************************************************************)
(* The exception and alt_irq_handler().                                    *)
(***************************************************************************)
Exception ==
    /\ PIE /\ active = {} /\ ipending # {}
    /\ PIE' = FALSE /\ active' = ipending
    /\ UNCHANGED <<lines, ienable, alt_irq, section, reg, saved>>

(* The handler of the lowest line is called; when it returns, ipending is  *)
(* read again, and the interrupts are enabled when there is nothing left.  *)
CallHandler ==
    /\ active # {}
    /\ \E again \in SUBSET Ids :
          /\ lines' = (lines \ {Lowest(active)}) \cup again
          /\ active' = lines' \cap ienable
    /\ PIE' = (active' = {})
    /\ UNCHANGED <<ienable, alt_irq, section, reg, saved>>

IrqNext ==
    \/ \E i \in Ids : Asserted(i) \/ \E isr \in Isrs \cup {NullIsr} : alt_iic_isr_register(i, isr)
    \/ \E i \in Ids : alt_ic_irq_enable(i) \/ alt_ic_irq_disable(i)
    \/ Section \/ RegDisables \/ SetHandler \/ SetContext \/ SetLine \/ RegEnables
    \/ Exception \/ CallHandler

--------------------------------------------------------------------------------
(* A handler is called only for a line that is asserted and enabled, is    *)
(* not null, and gets the context it was registered with: "interrupts are  *)
(* disabled while the handler tables are updated to ensure that an         *)
(* interrupt doesn't occur while the tables are in an inconsistant state"  *)
(* (alt_iic_isr_register.c:84-98, alt_irq_handler.c:118-155).              *)
HandlersMatch ==
    active # {} =>
        LET entry == alt_irq[Lowest(active)]
        IN  /\ Lowest(active) \in lines \cap ienable
            /\ entry.handler # NullIsr /\ entry.context = entry.handler

(* No handler runs between alt_irq_disable_all() and alt_irq_enable_all()  *)
(* of the program, whatever it registers in between (alt_irq.h:105-145).   *)
SectionsHold == section => active = {}

(* Handlers run for what asked for them, and when they may.                *)
DispatchHolds == HandlersMatch /\ SectionsHold

IrqSpec == IrqInit /\ [][IrqNext]_irq_vars
================================================================================
