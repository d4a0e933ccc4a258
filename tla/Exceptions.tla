------------------------------- MODULE Exceptions -------------------------------
(***************************************************************************)
(* The exceptions of the Nios II as the HAL serves them: the entry and     *)
(* exit code that interrupts and instructions that fault share, the        *)
(* handler a program registers for its instructions, and interrupt         *)
(* handlers that let those of a higher priority in.                        *)
(*                                                                         *)
(* An address is an index of the program; all of a handler is at address 0 *)
(* and raises no exception itself.  A line is held until it is served.     *)
(***************************************************************************)
EXTENDS Integers, Sequences

CONSTANTS Lines,        \* the interrupt lines, 0 is the most urgent
          Code,         \* the program: "plain", "disable", "enable"
          Faulty        \* addresses whose instruction raises an exception

ASSUME ExceptionsAssumption ==
    /\ Lines \subseteq Nat
    /\ Code \in Seq({"plain", "disable", "enable"}) /\ Faulty \subseteq DOMAIN Code

VARIABLES
    requests,           \* the lines that are asserted
    enabled,            \* the ienable register; alt_irq_active has all lines
    alt_priority_mask,
    cpu,                \* pc, status.PIE, and ea
    frames,             \* what alt_exception has saved, and how far each one is
    faulty,             \* addresses that still raise an exception
    alt_instruction_exception_handler,
    retired             \* history: what became of the instructions

exception_vars == <<requests, enabled, alt_priority_mask, cpu, frames, faulty,
                    alt_instruction_exception_handler, retired>>

ExceptionsInit ==
    /\ requests = {} /\ enabled = Lines /\ alt_priority_mask = Lines
    /\ cpu = [pc |-> 1, PIE |-> TRUE, ea |-> 0] /\ frames = <<>>
    /\ faulty = Faulty /\ alt_instruction_exception_handler = FALSE /\ retired = <<>>

Requested == requests \cap enabled
MostUrgent(S) == CHOOSE i \in S : \A j \in S : i <= j

Frame == frames[Len(frames)]
Step(at) == frames # <<>> /\ Frame.at = at
Now(frame) == frames' = [frames EXCEPT ![Len(frames)] = frame]

Asserts(i) ==
    /\ requests' = requests \cup {i}
    /\ UNCHANGED <<enabled, alt_priority_mask, cpu, frames, faulty, alt_instruction_exception_handler, retired>>

(* The program.                                                            *)
AtProgram == frames = <<>> /\ cpu.pc \in DOMAIN Code

alt_instruction_exception_register ==
    /\ AtProgram /\ alt_instruction_exception_handler' = ~alt_instruction_exception_handler
    /\ UNCHANGED <<requests, enabled, alt_priority_mask, cpu, frames, faulty, retired>>

Execute ==
    /\ AtProgram /\ cpu.pc \notin faulty
    /\ LET PIE == CASE Code[cpu.pc] = "disable" -> FALSE [] Code[cpu.pc] = "enable" -> TRUE
                    [] OTHER -> cpu.PIE
       IN  cpu' = [cpu EXCEPT !.pc = @ + 1, !.PIE = PIE]
    /\ retired' = Append(retired, [at |-> cpu.pc, how |-> "executed"])
    /\ UNCHANGED <<requests, enabled, alt_priority_mask, frames, faulty, alt_instruction_exception_handler>>

(* The CPU goes to alt_exception, which saves estatus and the address that *)
(* ea follows.                                                             *)
alt_exception ==
    /\ \/ AtProgram /\ cpu.pc \in faulty
       \/ cpu.PIE /\ Requested # {}
    /\ cpu' = [pc |-> 0, PIE |-> FALSE, ea |-> cpu.pc + 1]
    /\ frames' = Append(frames, [estatus |-> cpu.PIE, resume |-> cpu.pc, at |-> "irqtest",
                                 active |-> {}, old_priority |-> {}])
    /\ UNCHANGED <<requests, enabled, alt_priority_mask, faulty, alt_instruction_exception_handler, retired>>

(* Mutant of IsInterrupt: what the interrupted code had enabled is not     *)
(* asked for.                                                              *)
IsInterrupt_Pending(frame) == Requested # {}

IsInterrupt(frame) == frame.estatus /\ Requested # {}

(* A faulting instruction with an interrupt pending is issued again after  *)
(* the interrupt; without one it is to be skipped.                         *)
IrqTest ==
    /\ Step("irqtest")
    /\ Now(IF IsInterrupt(Frame) THEN [Frame EXCEPT !.at = "irq", !.active = Requested]
           ELSE [Frame EXCEPT !.at = "unknown", !.resume = cpu.ea])
    /\ UNCHANGED <<requests, enabled, alt_priority_mask, cpu, faulty, alt_instruction_exception_handler, retired>>

(* The handler of the program skips the instruction, or has it issued      *)
(* again, with its cause removed or not.  Without one the CPU stays here.  *)
alt_instruction_exception_entry ==
    /\ Step("unknown") /\ alt_instruction_exception_handler
    /\ LET exception_pc == cpu.ea - 1 IN
       \/ /\ Now([Frame EXCEPT !.at = "exit"])
          /\ retired' = Append(retired, [at |-> exception_pc, how |-> "skipped"]) /\ UNCHANGED faulty
       \/ /\ Now([Frame EXCEPT !.at = "exit", !.resume = exception_pc])
          /\ \/ faulty' = faulty \ {exception_pc}
             \/ UNCHANGED faulty
          /\ UNCHANGED retired
    /\ UNCHANGED <<requests, enabled, alt_priority_mask, cpu, alt_instruction_exception_handler>>

(* A handler of an interrupt serves its line, and ipending is read again.  *)
Serve(frame) ==
    /\ requests' = requests \ {MostUrgent(frame.active)}
    /\ LET active == requests' \cap enabled'
       IN  Now([frame EXCEPT !.active = active, !.at = IF active = {} THEN "exit" ELSE "irq"])

Handler ==
    /\ Step("irq") /\ UNCHANGED enabled /\ Serve(Frame)
    /\ UNCHANGED <<alt_priority_mask, cpu, faulty, alt_instruction_exception_handler, retired>>

(* Mutant of MoreUrgent: the line itself may interrupt its handler.        *)
MoreUrgent_OrSame(priority) == 0..priority

MoreUrgent(priority) == 0..(priority - 1)

alt_irq_interruptible ==
    /\ Step("irq") /\ Now([Frame EXCEPT !.at = "interruptible", !.old_priority = alt_priority_mask])
    /\ alt_priority_mask' = MoreUrgent(MostUrgent(Frame.active))
    /\ enabled' = Lines \cap alt_priority_mask' /\ cpu' = [cpu EXCEPT !.PIE = TRUE]
    /\ UNCHANGED <<requests, faulty, alt_instruction_exception_handler, retired>>

alt_irq_non_interruptible ==
    /\ Step("interruptible") /\ cpu' = [cpu EXCEPT !.PIE = FALSE]
    /\ alt_priority_mask' = Frame.old_priority /\ enabled' = Frame.old_priority \cap Lines
    /\ Serve(Frame)
    /\ UNCHANGED <<faulty, alt_instruction_exception_handler, retired>>

ExceptionExit ==
    /\ Step("exit") /\ frames' = SubSeq(frames, 1, Len(frames) - 1)
    /\ cpu' = [pc |-> Frame.resume, PIE |-> Frame.estatus, ea |-> Frame.resume]
    /\ UNCHANGED <<requests, enabled, alt_priority_mask, faulty, alt_instruction_exception_handler, retired>>

ExceptionsNext ==
    \/ \E i \in Lines : Asserts(i)
    \/ alt_instruction_exception_register \/ Execute \/ alt_exception \/ IrqTest
    \/ alt_instruction_exception_entry \/ Handler \/ alt_irq_interruptible
    \/ alt_irq_non_interruptible \/ ExceptionExit

ExceptionsSpec == ExceptionsInit /\ [][ExceptionsNext]_exception_vars

----------------------------------------------------------------------------
(* Every instruction of the program is executed or skipped once and in its *)
(* order, whatever interrupts come while it faults: no return address is   *)
(* off by one (alt_exception_entry.S:76-343,                               *)
(* alt_instruction_exception_entry.c:67-157).                              *)
EachInstructionOnce ==
    /\ \A i \in DOMAIN retired : retired[i].at = i
    /\ frames = <<>> => cpu.pc = Len(retired) + 1

(* An interrupt handler runs only where the code below it had interrupts   *)
(* enabled, and is more urgent than those it interrupts; when all have     *)
(* returned every line is enabled again (alt_irq_entry.S:76-89,            *)
(* alt_legacy_irq.h:112-149).                                              *)
UrgentFirst ==
    /\ \A i \in DOMAIN frames : frames[i].active # {} => frames[i].estatus
    /\ \A i, j \in DOMAIN frames :
          i < j /\ frames[i].active # {} /\ frames[j].active # {}
          => MostUrgent(frames[j].active) < MostUrgent(frames[i].active)
    /\ frames = <<>> => alt_priority_mask = Lines /\ enabled = Lines

ExceptionsServed == EachInstructionOnce /\ UrgentFirst
================================================================================
