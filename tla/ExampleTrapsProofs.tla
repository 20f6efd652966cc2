-------------------------- MODULE ExampleTrapsProofs --------------------------
(***************************************************************************)
(* Proofs about ExampleTraps, for any stack, any register contents, any    *)
(* number of ticks and of system calls.                                    *)
(***************************************************************************)
EXTENDS ExampleTraps, TLAPS

Value  == Nat \cup Numbers
Regs   == [t0 : Value, a0 : Value, tmp : Value, sav : Value, sp : Value]
Frames == [pc : Nat, regs : Regs]
Causes == {"none", "interrupt", "store_page_fault", "load_page_fault",
           "inst_page_fault", "ecall"}
Csrs   == [mode : {"S", "U"}, spp : {"S", "U"}, spie : BOOLEAN, sie : BOOLEAN,
           sepc : Nat, scause : Causes, stval : 0..2, sscratch : Value]
Calls  == [regs : Regs, upc : Nat, cause : Causes]
Frame  == mem[Top - 1]

EntryLabels     == {"trap_entry", "save"}
ExceptionLabels == {"exception_entry", "exception_handler"}
ExitLabels      == {"exception_exit", "trap_exit", "restore"}
Labels == EntryLabels \cup ExceptionLabels \cup ExitLabels \cup
          {"start_user_program", "program", "interrupt_handler", "sret", "halt"}

TypeInv ==
  /\ prog \in {"ex01", "ex20", "ex25"} /\ pc \in Labels /\ upc \in Nat
  /\ csr \in Csrs /\ reg \in Regs /\ mem \in [0..Top -> Frames] /\ call \in Calls
  /\ timer \in [event : BOOLEAN, irq : BOOLEAN] /\ ticks \in Nat

(* Which stack is in use, and which mode sret will go back to.             *)
StackInv ==
  /\ pc \in {"save", "interrupt_handler"} \cup ExceptionLabels \cup ExitLabels =>
       reg.sp = Top - 1
  /\ pc = "exception_handler" => reg.a0 = Top - 1
  /\ pc \in {"program", "trap_entry", "sret"} =>
       IF Dual THEN csr.sscratch = Top ELSE reg.sp = Top
  /\ pc = "restore" /\ Dual => csr.sscratch = Top
  /\ pc = "program" => csr.mode = IF Dual THEN "U" ELSE "S"
  /\ pc \notin {"start_user_program", "program", "halt"} =>
       csr.spp = IF Dual THEN "U" ELSE "S"
  /\ pc = "start_user_program" => Dual /\ call.cause = "none"

(* The cause of the trap, in the CSRs and in the history.                  *)
CauseInv ==
  /\ timer.irq => prog = "ex01"
  /\ pc \in EntryLabels => csr.sepc = call.upc /\ csr.scause = call.cause
  /\ pc \in EntryLabels => call.cause # "none"
  /\ pc \in ExceptionLabels => csr.scause = call.cause
  /\ pc \in ExceptionLabels => call.cause \notin {"none", "interrupt"}
  /\ pc = "exception_exit" => call.cause # "interrupt"
  /\ pc = "interrupt_handler" => call.cause = "interrupt"
  /\ Dual => call.cause \in {"none", "ecall", "load_page_fault"}
  /\ ~Dual /\ call.cause # "none" => call.regs.sp = Top
  /\ ~Dual /\ pc \in ExitLabels \cup {"sret"} => call.cause # "none"

(* How much of the registers at the trap is saved, what is still in place, *)
(* and what has been restored.                                             *)
Saved == /\ Frame.regs.t0 = call.regs.t0 /\ Frame.regs.a0 = call.regs.a0
         /\ Frame.regs.tmp = call.regs.tmp
         /\ Dual => Frame.regs.sp = call.regs.sp

Resume == call.upc + IF call.cause = "interrupt" THEN 0 ELSE 1

SaveInv ==
  /\ pc = "trap_entry" => reg = call.regs
  /\ pc = "save" => /\ reg.t0 = call.regs.t0 /\ reg.a0 = call.regs.a0
                    /\ reg.tmp = call.regs.tmp
                    /\ Dual => csr.sscratch = call.regs.sp
  /\ pc \in {"save", "exception_entry", "interrupt_handler"} =>
       reg.sav = call.regs.sav
  /\ pc \in {"interrupt_handler"} \cup ExceptionLabels => Saved /\ Frame.pc = call.upc
  /\ pc = "exception_handler" => Frame.regs.sav = call.regs.sav

RestoreInv ==
  call.cause # "none" =>
    /\ pc \in ExitLabels => Saved /\ Frame.pc = Resume
    /\ pc = "exception_exit" => Frame.regs.sav = call.regs.sav
    /\ pc \in {"trap_exit", "restore"} => reg.sav = call.regs.sav
    /\ pc = "restore" => csr.sepc = Frame.pc
    /\ pc = "sret" => reg = call.regs /\ csr.sepc = Resume

(* ex25: the characters, and the calls that come back.                     *)
Printing == /\ pc \in EntryLabels \cup ExceptionLabels
            /\ call.cause = "ecall" /\ call.regs.t0 = SYS_XPUTC

OutputInv ==
  Dual =>
    /\ sent = IF Printing THEN Append(out, call.regs.a0) ELSE out
    /\ pc \in ExitLabels \cup {"sret"} =>
         call.cause = "none" \/ (call.cause = "ecall" /\ call.regs.t0 = SYS_XPUTC)
    /\ pc = "halt" => ~(call.cause = "ecall" /\ call.regs.t0 = SYS_XPUTC)

(* ex20: the fault under way, and the one the program expects.             *)
ExpectInv ==
  prog = "ex20" =>
    /\ pc = "program" => /\ upc \in 0..4
                         /\ upc = 1 => expect = Faults[1]
                         /\ upc \in {3, 4} => expect = Faults[2]
    /\ pc \in EntryLabels \cup ExceptionLabels =>
         /\ call.upc \in {1, 3, 4}
         /\ <<csr.scause, csr.stval>> = CASE call.upc = 1 -> Faults[1]
                                          [] call.upc = 3 -> Faults[2]
                                          [] call.upc = 4 -> <<"inst_page_fault", 2>>
    /\ pc \in EntryLabels \cup ExceptionLabels \cup ExitLabels \cup {"sret"} =>
         expect = Faults[IF call.upc = 1 THEN 1 ELSE 2]
    /\ pc \in ExitLabels \cup {"sret"} => call.upc \in {1, 3}
    /\ call.cause # "interrupt" /\ pc # "interrupt_handler"
    /\ pc = "halt" => call.upc = 4

IInv == /\ TypeInv /\ StackInv /\ CauseInv /\ SaveInv /\ RestoreInv
        /\ OutputInv /\ ExpectInv

-----------------------------------------------------------------------------
(* Values, registers and frames.                                           *)

\* What may be in a register.
LEMMA ValueFacts ==
  /\ Nat \subseteq Value /\ Words \subseteq Value /\ Numbers \subseteq Value
  /\ {Junk, SYS_EXIT, Top, Top - 1} \subseteq Value
BY ExampleAssumption DEF Value, Junk, SYS_EXIT

\* Two sets of registers that agree on each register are the same.
LEMMA RegsEqual ==
  ASSUME NEW r \in Regs, NEW s \in Regs, r.t0 = s.t0, r.a0 = s.a0, r.tmp = s.tmp,
         r.sav = s.sav, r.sp = s.sp
  PROVE  r = s
BY DEF Regs

\* The frame at the top of the stack is one of those mem holds.
LEMMA TypeFacts ==
  ASSUME TypeInv
  PROVE  /\ Top - 1 \in 0..Top /\ Top \in Nat
         /\ Frame \in Frames /\ Frame.regs \in Regs /\ Frame.pc \in Nat
         /\ call.regs \in Regs
BY ExampleAssumption DEF TypeInv, Frame, Frames, Calls

\* A frame is written whole or in part.
LEMMA FrameWritten ==
  ASSUME mem \in [0..Top -> Frames], Top - 1 \in 0..Top, NEW f \in Frames,
         mem' = [mem EXCEPT ![Top - 1] = f]
  PROVE  mem' \in [0..Top -> Frames] /\ Frame' = f
BY DEF Frame

\* A C function leaves anything in the caller-saved registers.
LEMMA ClobberedRegs ==
  ASSUME reg \in Regs, Clobbered
  PROVE  reg' \in Regs /\ reg'.sav = reg.sav /\ reg'.sp = reg.sp
BY ValueFacts DEF Clobbered, Regs

\* The CSRs and the history after a trap.
LEMMA TrapType ==
  ASSUME TypeInv, NEW cause \in Causes, NEW val \in 0..2, Trap(cause, val)
  PROVE  csr' \in Csrs /\ call' \in Calls
<1>1. csr \in Csrs /\ csr.mode \in {"S", "U"} /\ csr.sie \in BOOLEAN /\ upc \in Nat
  BY DEF TypeInv, Csrs
<1>2. csr' = [csr EXCEPT !.mode = "S", !.spp = csr.mode, !.spie = csr.sie, !.sie = FALSE,
                         !.sepc = upc, !.scause = cause, !.stval = val]
  BY DEF Trap
<1>3. csr' \in Csrs
  BY <1>1, <1>2 DEF Csrs
<1> QED
  BY <1>3 DEF Trap, TypeInv, Calls

\* The three accesses of ex20, each with its own fault.
LEMMA PageFaults ==
  ASSUME PageFault
  PROVE  /\ prog = "ex20"
         /\ \/ upc = 1 /\ Trap("store_page_fault", 0)
            \/ upc = 3 /\ Trap("load_page_fault", 1)
            \/ upc = 4 /\ Trap("inst_page_fault", 2)
<1>1. CASE upc = 1
  <2>1. upc \div 2 + 1 = 1
    BY <1>1
  <2> QED
    BY <1>1, <2>1 DEF PageFault, Faults
<1>2. CASE upc = 3
  <2>1. upc \div 2 + 1 = 2
    BY <1>2
  <2> QED
    BY <1>2, <2>1 DEF PageFault, Faults
<1>3. CASE upc = 4
  BY <1>3 DEF PageFault
<1> QED
  BY <1>1, <1>2, <1>3 DEF PageFault

-----------------------------------------------------------------------------
(* What each step that writes the frame leaves in it.                      *)

\* trap_entry saves the caller-saved registers, sepc and, in the dual-stack
\* code, the program's sp.
LEMMA SaveCallerFrame ==
  ASSUME IInv, SaveCaller
  PROVE  /\ mem' \in [0..Top -> Frames] /\ Frame'.pc = csr.sepc
         /\ Frame'.regs.t0 = reg.t0 /\ Frame'.regs.a0 = reg.a0
         /\ Frame'.regs.tmp = reg.tmp /\ (Dual => Frame'.regs.sp = csr.sscratch)
<1> DEFINE p == IF Dual THEN csr.sscratch ELSE Frame.regs.sp
           r == [Frame.regs EXCEPT !.t0 = reg.t0, !.a0 = reg.a0, !.tmp = reg.tmp, !.sp = p]
           f == [pc |-> csr.sepc, regs |-> r]
<1>1. mem' = [mem EXCEPT ![Top - 1] = f]
  BY DEF IInv, StackInv, SaveCaller, Goto, Frame
<1>2. p \in Value /\ (Dual => p = csr.sscratch)
  BY TypeFacts DEF IInv, TypeInv, Regs, Csrs
<1> HIDE DEF p
<1>3. r \in Regs /\ r.t0 = reg.t0 /\ r.a0 = reg.a0 /\ r.tmp = reg.tmp /\ r.sp = p
  BY <1>2, TypeFacts DEF IInv, TypeInv, Regs
<1> HIDE DEF r
<1>4. f \in Frames
  BY <1>3 DEF IInv, TypeInv, Frames, Csrs
<1>5. mem' \in [0..Top -> Frames] /\ Frame' = f
  BY <1>1, <1>4, FrameWritten, TypeFacts DEF IInv, TypeInv
<1> QED
  BY <1>2, <1>3, <1>5

\* exception_entry saves the others and, in the single-stack code, the sp
\* that releasing the frame will give.
LEMMA ExceptionEntryFrame ==
  ASSUME IInv, ExceptionEntry
  PROVE  /\ mem' \in [0..Top -> Frames] /\ Frame'.pc = Frame.pc
         /\ Frame'.regs.t0 = Frame.regs.t0 /\ Frame'.regs.a0 = Frame.regs.a0
         /\ Frame'.regs.tmp = Frame.regs.tmp /\ Frame'.regs.sav = reg.sav
         /\ (Dual => Frame'.regs.sp = Frame.regs.sp)
<1> DEFINE p == IF Dual THEN Frame.regs.sp ELSE reg.sp + 1
           r == [Frame.regs EXCEPT !.sav = reg.sav, !.sp = p]
<1>1. reg.sp = Top - 1 /\ reg.sp + 1 = Top
  BY ExampleAssumption DEF IInv, StackInv, ExceptionLabels, ExceptionEntry, Goto
<1>2. mem' = [mem EXCEPT ![Top - 1].regs = r]
  BY <1>1 DEF ExceptionEntry, Frame
<1>3. p \in Value /\ (Dual => p = Frame.regs.sp)
  BY <1>1, TypeFacts, ValueFacts DEF IInv, Regs
<1> HIDE DEF p
<1>4. /\ r \in Regs /\ r.t0 = Frame.regs.t0 /\ r.a0 = Frame.regs.a0
      /\ r.tmp = Frame.regs.tmp /\ r.sav = reg.sav /\ r.sp = p
  BY <1>3, TypeFacts DEF IInv, TypeInv, Regs
<1> HIDE DEF r
<1>5. mem' \in [0..Top -> Frames] /\ Frame'.pc = Frame.pc /\ Frame'.regs = r
  BY <1>2, <1>4, TypeFacts DEF IInv, TypeInv, Frame, Frames
<1> QED
  BY <1>3, <1>4, <1>5

\* A handler that serves the exception steps over the instruction.
LEMMA SteppedOver ==
  ASSUME TypeInv, mem' = [mem EXCEPT ![Top - 1].pc = @ + 1]
  PROVE  /\ mem' \in [0..Top -> Frames]
         /\ Frame' = [pc |-> Frame.pc + 1, regs |-> Frame.regs]
<1>1. mem' = [mem EXCEPT ![Top - 1] = [Frame EXCEPT !.pc = Frame.pc + 1]]
  BY TypeFacts DEF TypeInv, Frame
<1>2. [Frame EXCEPT !.pc = Frame.pc + 1] = [pc |-> Frame.pc + 1, regs |-> Frame.regs]
  BY TypeFacts DEF Frames
<1>3. [pc |-> Frame.pc + 1, regs |-> Frame.regs] \in Frames
  BY TypeFacts DEF Frames
<1> QED
  BY <1>1, <1>2, <1>3, FrameWritten, TypeFacts DEF TypeInv

\* The handler of ex20 serves an expected fault and nothing else.
LEMMA MmuServes ==
  ASSUME IInv, MmuHandler
  PROVE  IF expect = <<csr.scause, csr.stval>>
         THEN /\ pc' = "exception_exit"
              /\ Frame' = [pc |-> Frame.pc + 1, regs |-> Frame.regs]
              /\ mem' \in [0..Top -> Frames]
         ELSE pc' = "halt" /\ mem' = mem
<1>1. reg.a0 = Top - 1
  BY DEF IInv, StackInv, MmuHandler, Goto
<1> QED
  BY <1>1, SteppedOver DEF IInv, MmuHandler, Goto

\* The handler of ex25 serves xputc and nothing else.
LEMMA KernelServes ==
  ASSUME IInv, KernelHandler
  PROVE  IF csr.scause = "ecall" /\ Frame.regs.t0 = SYS_XPUTC
         THEN /\ pc' = "exception_exit" /\ out' = Append(out, Frame.regs.a0)
              /\ Frame' = [pc |-> Frame.pc + 1, regs |-> Frame.regs]
              /\ mem' \in [0..Top -> Frames]
         ELSE pc' = "halt" /\ mem' = mem /\ out' = out
<1>1. reg.a0 = Top - 1
  BY DEF IInv, StackInv, KernelHandler, Goto
<1> QED
  BY <1>1, SteppedOver DEF IInv, KernelHandler, Goto, Frame

-----------------------------------------------------------------------------
(* The steps.                                                              *)

\* Every variable keeps its type.
LEMMA TypeInvStep ==
  ASSUME IInv, [Next]_vars
  PROVE  TypeInv'
<1> USE DEF IInv, TypeInv, Labels, EntryLabels, ExceptionLabels, ExitLabels, Dual
<1>1. CASE TimerStart
  <2>1. CASE At("ex01", 0) /\ upc' = 1 /\ csr' = [csr EXCEPT !.sie = TRUE] /\ UNCHANGED <<reg, io>>
    BY <2>1 DEF At, io, ex01, Csrs
  <2>2. CASE /\ At("ex01", 1) /\ upc' = 2 /\ timer' = [event |-> FALSE, irq |-> TRUE]
             /\ UNCHANGED <<csr, reg, ticks, clock, expect, out, sent>>
    BY <2>2 DEF At
  <2> QED
    BY <1>1, <2>1, <2>2 DEF TimerStart
<1>2. CASE ShowTime
  <2>1. reg' \in Regs
    BY <1>2, ValueFacts DEF ShowTime, At, io, ex01, Regs
  <2>2. upc' \in {3, 4, 5}
    BY <1>2 DEF ShowTime
  <2>3. UNCHANGED <<prog, pc, mem, call>>
    BY <1>2 DEF ShowTime, At
  <2>4. UNCHANGED <<csr, timer, ticks>>
    BY <1>2 DEF ShowTime, io, ex01
  <2> QED
    BY <2>1, <2>2, <2>3, <2>4
<1>3. CASE WaitForTick
  <2>1. reg' \in Regs
    BY <1>3, ValueFacts DEF WaitForTick, At, io, ex01, Regs
  <2>2. upc' \in Nat
    BY <1>3 DEF WaitForTick, At, io, ex01
  <2> QED
    BY <1>3, <2>1, <2>2 DEF WaitForTick, At, io, ex01
<1>4. CASE Expect
  <2>1. reg' \in Regs
    BY <1>4, ValueFacts DEF Expect, At, io, ex01, Regs
  <2>2. upc' \in Nat
    BY <1>4 DEF Expect, At, io, ex01
  <2> QED
    BY <1>4, <2>1, <2>2 DEF Expect, At, io, ex01
<1>5. CASE PageFault
  <2>1. csr' \in Csrs /\ call' \in Calls
    BY <1>5, PageFaults, TrapType DEF Causes
  <2>2. pc' = "trap_entry" /\ UNCHANGED <<prog, upc, reg, mem>>
    BY <1>5, PageFaults DEF Trap
  <2> QED
    BY <1>5, <2>1, <2>2 DEF PageFault, Trap, io, ex01
<1>6. CASE UserCompute
  <2>1. reg' \in Regs
    BY <1>6, ValueFacts DEF UserCompute, At, io, ex01, Regs
  <2>2. upc' \in Nat
    BY <1>6 DEF UserCompute, At, io, ex01
  <2> QED
    BY <1>6, <2>1, <2>2 DEF UserCompute, At, io, ex01
<1>7. CASE Ecall
  <2>1. csr' \in Csrs /\ call' \in Calls
    BY <1>7, TrapType DEF Ecall, Causes
  <2> QED
    BY <1>7, <2>1 DEF Ecall, Trap, io, ex01
<1>8. CASE UserFault
  <2>1. csr' \in Csrs /\ call' \in Calls
    BY <1>8, TrapType DEF UserFault, Causes
  <2> QED
    BY <1>8, <2>1 DEF UserFault, Trap, io, ex01
<1>9. CASE TrapEntry
  <2>1. IF Dual THEN csr.sscratch = Top ELSE reg.sp = Top
    BY <1>9 DEF TrapEntry, Goto, io, ex01, StackInv
  <2>2. reg' = [reg EXCEPT !.sp = Top - 1]
    BY <1>9, <2>1 DEF TrapEntry, Goto, io, ex01
  <2>3. reg' \in Regs
    BY <2>2, ValueFacts DEF Regs
  <2>4. csr' \in Csrs
    BY <1>9 DEF TrapEntry, Goto, io, ex01, Csrs, Regs
  <2> QED
    BY <1>9, <2>1, <2>2, <2>3, <2>4 DEF TrapEntry, Goto, io, ex01
<1>10. CASE SaveCaller
  <2>1. reg' \in Regs
    BY <1>10, ValueFacts DEF SaveCaller, Goto, io, ex01, Regs
  <2>2. mem' \in [0..Top -> Frames]
    BY <1>10, SaveCallerFrame
  <2> QED
    BY <1>10, <2>1, <2>2 DEF SaveCaller, Goto, io, ex01
<1>11. CASE ExceptionEntry
  <2>1. reg' \in Regs
    BY <1>11 DEF ExceptionEntry, Goto, io, ex01, Regs
  <2>2. mem' \in [0..Top -> Frames]
    BY <1>11, ExceptionEntryFrame
  <2> QED
    BY <1>11, <2>1, <2>2 DEF ExceptionEntry, Goto, io, ex01
<1>12. CASE TimerHandler
  <2>1. reg' \in Regs
    BY <1>12, ClobberedRegs DEF TimerHandler
  <2>2. timer' \in [event : BOOLEAN, irq : BOOLEAN]
    BY <1>12 DEF TimerHandler
  <2>3. ticks' \in Nat
    BY <1>12 DEF TimerHandler
  <2> QED
    BY <1>12, <2>1, <2>2, <2>3 DEF TimerHandler, Goto, Clobbered, io, ex01
<1>13. CASE MmuHandler
  <2>1. reg' \in Regs
    BY <1>13, ClobberedRegs DEF MmuHandler
  <2>2. mem' \in [0..Top -> Frames] /\ pc' \in {"exception_exit", "halt"}
    BY <1>13, MmuServes
  <2> QED
    BY <1>13, <2>1, <2>2 DEF MmuHandler, Goto, Clobbered, io, ex01
<1>14. CASE KernelHandler
  <2>1. reg' \in Regs
    BY <1>14, ClobberedRegs DEF KernelHandler
  <2>2. mem' \in [0..Top -> Frames] /\ pc' \in {"exception_exit", "halt"}
    BY <1>14, KernelServes
  <2> QED
    BY <1>14, <2>1, <2>2 DEF KernelHandler, Goto, Clobbered, io, ex01
<1>15. CASE Halt
  BY <1>15 DEF Halt, vars, io, ex01
<1>16. CASE StartUserProgram
  <2> DEFINE f == [pc |-> 0, regs |-> [NoReg EXCEPT !.sp = Top]]
  <2>1. f \in Frames
    BY ValueFacts DEF NoReg, Regs, Frames
  <2>2. mem' \in [0..Top -> Frames]
    BY <1>16, <2>1, TypeFacts DEF StartUserProgram, Goto, io, ex01
  <2>3. csr' \in Csrs
    BY <1>16 DEF StartUserProgram, Goto, io, ex01, Csrs
  <2>4. reg' \in Regs
    BY <1>16, ValueFacts DEF StartUserProgram, Goto, io, ex01, Regs
  <2> QED
    BY <1>16, <2>2, <2>3, <2>4 DEF StartUserProgram, Goto, io, ex01
<1>17. CASE ExceptionExit
  <2>1. reg.sp = Top - 1
    BY <1>17 DEF ExceptionExit, Goto, io, ex01, StackInv
  <2>2. reg' = [reg EXCEPT !.sav = Frame.regs.sav]
    BY <1>17, <2>1 DEF ExceptionExit, Goto, io, ex01, Frame
  <2>3. reg' \in Regs
    BY <2>2, TypeFacts DEF Regs
  <2> QED
    BY <1>17, <2>1, <2>2, <2>3 DEF ExceptionExit, Goto, io, ex01
<1>18. CASE TrapExit
  <2>1. reg.sp = Top - 1 /\ reg.sp + 1 = Top
    BY <1>18, ExampleAssumption DEF TrapExit, Goto, io, ex01, StackInv
  <2>2. csr' = [csr EXCEPT !.sepc = Frame.pc, !.sscratch = IF Dual THEN Top ELSE @]
    BY <1>18, <2>1 DEF TrapExit, Goto, io, ex01, Frame
  <2>3. csr' \in Csrs
    BY <2>2, TypeFacts, ValueFacts DEF Csrs
  <2>4. reg' \in Regs
    BY <1>18, ValueFacts DEF TrapExit, Goto, io, ex01, Regs
  <2> QED
    BY <1>18, <2>1, <2>2, <2>3, <2>4 DEF TrapExit, Goto, io, ex01
<1>19. CASE Restore
  <2>1. reg.sp = Top - 1 /\ reg.sp + 1 = Top
    BY <1>19, ExampleAssumption DEF Restore, Goto, io, ex01, StackInv
  <2>2. reg' = [Frame.regs EXCEPT !.sav = reg.sav, !.sp = IF Dual THEN @ ELSE Top]
    BY <1>19, <2>1 DEF Restore, Goto, io, ex01, Frame
  <2>3. reg' \in Regs
    BY <2>2, TypeFacts, ValueFacts DEF Regs
  <2> QED
    BY <1>19, <2>1, <2>2, <2>3 DEF Restore, Goto, io, ex01
<1>20. CASE Sret
  <2>1. csr' \in Csrs
    BY <1>20 DEF Sret, Goto, io, ex01, Csrs
  <2>2. upc' \in Nat
    BY <1>20 DEF Sret, Goto, io, ex01, Csrs
  <2> QED
    BY <1>20, <2>1, <2>2 DEF Sret, Goto, io, ex01
<1>21. CASE Wrap
  <2>1. timer' \in [event : BOOLEAN, irq : BOOLEAN]
    BY <1>21 DEF Wrap, io, ex01
  <2> QED
    BY <1>21, <2>1 DEF Wrap, io, ex01
<1>22. CASE Interrupt
  <2>1. csr' \in Csrs /\ call' \in Calls
    BY <1>22, TrapType DEF Interrupt, Causes
  <2> QED
    BY <1>22, <2>1 DEF Interrupt, Trap, io, ex01
<1>23. CASE UNCHANGED vars
  BY <1>23 DEF vars, io, ex01
<1> QED
  BY <1>1, <1>2, <1>3, <1>4, <1>5, <1>6, <1>7, <1>8, <1>9, <1>10, <1>11, <1>12,
     <1>13, <1>14, <1>15, <1>16, <1>17, <1>18, <1>19, <1>20, <1>21, <1>22,
     <1>23 DEF Next, Hart

\* The stack is where StackInv says.
LEMMA StackInvStep ==
  ASSUME IInv, [Next]_vars
  PROVE  StackInv'
<1> USE ExampleAssumption DEF IInv, TypeInv, StackInv, Regs, Csrs, Frames, Calls,
        EntryLabels, ExceptionLabels, ExitLabels, Dual
<1>1. CASE TimerStart
  BY <1>1 DEF TimerStart, At, io, ex01
<1>2. CASE ShowTime
  BY <1>2 DEF ShowTime, At, io, ex01
<1>3. CASE WaitForTick
  BY <1>3 DEF WaitForTick, At, io, ex01
<1>4. CASE Expect
  BY <1>4 DEF Expect, At, io, ex01
<1>5. CASE PageFault
  BY <1>5 DEF PageFault, Trap, io, ex01
<1>6. CASE UserCompute
  BY <1>6 DEF UserCompute, At, io, ex01
<1>7. CASE Ecall
  BY <1>7 DEF Ecall, Trap, io, ex01
<1>8. CASE UserFault
  BY <1>8 DEF UserFault, Trap, io, ex01
<1>9. CASE TrapEntry
  BY <1>9 DEF TrapEntry, Goto, io, ex01
<1>10. CASE SaveCaller
  BY <1>10 DEF SaveCaller, Goto, io, ex01
<1>11. CASE ExceptionEntry
  BY <1>11 DEF ExceptionEntry, Goto, io, ex01
<1>12. CASE TimerHandler
  BY <1>12 DEF TimerHandler, Goto, Clobbered, io, ex01
<1>13. CASE MmuHandler
  BY <1>13 DEF MmuHandler, Goto, Clobbered, io, ex01
<1>14. CASE KernelHandler
  BY <1>14 DEF KernelHandler, Goto, Clobbered, io, ex01
<1>15. CASE Halt
  BY <1>15 DEF Halt, vars, io, ex01
<1>16. CASE StartUserProgram
  BY <1>16 DEF StartUserProgram, Goto, io, ex01
<1>17. CASE ExceptionExit
  BY <1>17 DEF ExceptionExit, Goto, io, ex01
<1>18. CASE TrapExit
  BY <1>18 DEF TrapExit, Goto, io, ex01
<1>19. CASE Restore
  <2>1. reg.sp = Top - 1 /\ reg.sp + 1 = Top
    BY <1>19 DEF Restore, Goto, io, ex01
  <2>2. reg' = [Frame.regs EXCEPT !.sav = reg.sav, !.sp = IF Dual THEN @ ELSE Top]
    BY <1>19, <2>1 DEF Restore, Goto, io, ex01, Frame
  <2>3. ~Dual => reg'.sp = Top
    BY <2>2, TypeFacts
  <2> QED
    BY <1>19, <2>3 DEF Restore, Goto, io, ex01
<1>20. CASE Sret
  BY <1>20 DEF Sret, Goto, io, ex01
<1>21. CASE Wrap
  BY <1>21 DEF Wrap, io, ex01
<1>22. CASE Interrupt
  BY <1>22 DEF Interrupt, Trap, io, ex01
<1>23. CASE UNCHANGED vars
  BY <1>23 DEF vars, io, ex01
<1> QED
  BY <1>1, <1>2, <1>3, <1>4, <1>5, <1>6, <1>7, <1>8, <1>9, <1>10, <1>11, <1>12,
     <1>13, <1>14, <1>15, <1>16, <1>17, <1>18, <1>19, <1>20, <1>21, <1>22,
     <1>23 DEF Next, Hart

\* The cause of the trap is kept.
LEMMA CauseInvStep ==
  ASSUME IInv, [Next]_vars
  PROVE  CauseInv'
<1> USE ExampleAssumption DEF IInv, TypeInv, StackInv, CauseInv, Regs, Csrs,
        Frames, Calls, EntryLabels, ExceptionLabels, ExitLabels, Dual
<1>1. CASE TimerStart
  BY <1>1 DEF TimerStart, At, io, ex01
<1>2. CASE ShowTime
  BY <1>2 DEF ShowTime, At, io, ex01
<1>3. CASE WaitForTick
  BY <1>3 DEF WaitForTick, At, io, ex01
<1>4. CASE Expect
  BY <1>4 DEF Expect, At, io, ex01
<1>5. CASE PageFault
  <2>1. \/ Trap("store_page_fault", 0) \/ Trap("load_page_fault", 1)
        \/ Trap("inst_page_fault", 2)
    BY <1>5, PageFaults
  <2>2. timer' = timer /\ prog = "ex20"
    BY <1>5 DEF PageFault, Trap, io, ex01
  <2>3. CASE Trap("store_page_fault", 0)
    BY <2>2, <2>3 DEF Trap
  <2>4. CASE Trap("load_page_fault", 1)
    BY <2>2, <2>4 DEF Trap
  <2>5. CASE Trap("inst_page_fault", 2)
    BY <2>2, <2>5 DEF Trap
  <2> QED
    BY <2>1, <2>3, <2>4, <2>5
<1>6. CASE UserCompute
  BY <1>6 DEF UserCompute, At, io, ex01
<1>7. CASE Ecall
  BY <1>7 DEF Ecall, Trap, io, ex01
<1>8. CASE UserFault
  BY <1>8 DEF UserFault, Trap, io, ex01
<1>9. CASE TrapEntry
  BY <1>9 DEF TrapEntry, Goto, io, ex01
<1>10. CASE SaveCaller
  BY <1>10 DEF SaveCaller, Goto, io, ex01
<1>11. CASE ExceptionEntry
  BY <1>11 DEF ExceptionEntry, Goto, io, ex01
<1>12. CASE TimerHandler
  BY <1>12 DEF TimerHandler, Goto, Clobbered, io, ex01
<1>13. CASE MmuHandler
  BY <1>13 DEF MmuHandler, Goto, Clobbered, io, ex01
<1>14. CASE KernelHandler
  BY <1>14 DEF KernelHandler, Goto, Clobbered, io, ex01
<1>15. CASE Halt
  BY <1>15 DEF Halt, vars, io, ex01
<1>16. CASE StartUserProgram
  BY <1>16 DEF StartUserProgram, Goto, io, ex01
<1>17. CASE ExceptionExit
  BY <1>17 DEF ExceptionExit, Goto, io, ex01
<1>18. CASE TrapExit
  BY <1>18 DEF TrapExit, Goto, io, ex01
<1>19. CASE Restore
  BY <1>19 DEF Restore, Goto, io, ex01
<1>20. CASE Sret
  BY <1>20 DEF Sret, Goto, io, ex01
<1>21. CASE Wrap
  BY <1>21 DEF Wrap, io, ex01
<1>22. CASE Interrupt
  BY <1>22 DEF Interrupt, Trap, io, ex01
<1>23. CASE UNCHANGED vars
  BY <1>23 DEF vars, io, ex01
<1> QED
  BY <1>1, <1>2, <1>3, <1>4, <1>5, <1>6, <1>7, <1>8, <1>9, <1>10, <1>11, <1>12,
     <1>13, <1>14, <1>15, <1>16, <1>17, <1>18, <1>19, <1>20, <1>21, <1>22,
     <1>23 DEF Next, Hart

\* The registers of the program are saved or still in place.
LEMMA SaveInvStep ==
  ASSUME IInv, [Next]_vars
  PROVE  SaveInv'
<1> USE ExampleAssumption DEF IInv, TypeInv, StackInv, CauseInv, SaveInv, Saved,
        Frame, Regs, Csrs, Frames, Calls, EntryLabels, ExceptionLabels, ExitLabels,
        Dual
<1>1. CASE TimerStart
  BY <1>1 DEF TimerStart, At, io, ex01
<1>2. CASE ShowTime
  BY <1>2 DEF ShowTime, At, io, ex01
<1>3. CASE WaitForTick
  BY <1>3 DEF WaitForTick, At, io, ex01
<1>4. CASE Expect
  BY <1>4 DEF Expect, At, io, ex01
<1>5. CASE PageFault
  BY <1>5 DEF PageFault, Trap, io, ex01
<1>6. CASE UserCompute
  BY <1>6 DEF UserCompute, At, io, ex01
<1>7. CASE Ecall
  BY <1>7 DEF Ecall, Trap, io, ex01
<1>8. CASE UserFault
  BY <1>8 DEF UserFault, Trap, io, ex01
<1>9. CASE TrapEntry
  BY <1>9 DEF TrapEntry, Goto, io, ex01
<1>10. CASE SaveCaller
  BY <1>10 DEF SaveCaller, Goto, io, ex01
<1>11. CASE ExceptionEntry
  <2>1. /\ Frame'.regs.t0 = Frame.regs.t0 /\ Frame'.regs.a0 = Frame.regs.a0
        /\ Frame'.regs.tmp = Frame.regs.tmp /\ Frame'.regs.sav = reg.sav
        /\ (Dual => Frame'.regs.sp = Frame.regs.sp) /\ Frame'.pc = Frame.pc
    BY <1>11, ExceptionEntryFrame, TypeFacts DEF Regs
  <2>2. /\ pc = "exception_entry" /\ pc' = "exception_handler"
        /\ call' = call /\ Dual' = Dual
    BY <1>11 DEF ExceptionEntry, Goto, io, ex01
  <2>3. Saved /\ Frame.pc = call.upc /\ reg.sav = call.regs.sav
    BY <2>2
  <2> QED
    BY <2>1, <2>2, <2>3 DEF Saved
<1>12. CASE TimerHandler
  BY <1>12 DEF TimerHandler, Goto, Clobbered, io, ex01
<1>13. CASE MmuHandler
  BY <1>13 DEF MmuHandler, Goto, Clobbered, io, ex01
<1>14. CASE KernelHandler
  BY <1>14 DEF KernelHandler, Goto, Clobbered, io, ex01
<1>15. CASE Halt
  BY <1>15 DEF Halt, vars, io, ex01
<1>16. CASE StartUserProgram
  BY <1>16 DEF StartUserProgram, Goto, io, ex01
<1>17. CASE ExceptionExit
  BY <1>17 DEF ExceptionExit, Goto, io, ex01
<1>18. CASE TrapExit
  BY <1>18 DEF TrapExit, Goto, io, ex01
<1>19. CASE Restore
  BY <1>19 DEF Restore, Goto, io, ex01
<1>20. CASE Sret
  BY <1>20 DEF Sret, Goto, io, ex01
<1>21. CASE Wrap
  BY <1>21 DEF Wrap, io, ex01
<1>22. CASE Interrupt
  BY <1>22 DEF Interrupt, Trap, io, ex01
<1>23. CASE UNCHANGED vars
  BY <1>23 DEF vars, io, ex01
<1> QED
  BY <1>1, <1>2, <1>3, <1>4, <1>5, <1>6, <1>7, <1>8, <1>9, <1>10, <1>11, <1>12,
     <1>13, <1>14, <1>15, <1>16, <1>17, <1>18, <1>19, <1>20, <1>21, <1>22,
     <1>23 DEF Next, Hart

\* What is restored is what the program had.
LEMMA RestoreInvStep ==
  ASSUME IInv, [Next]_vars
  PROVE  RestoreInv'
<1> USE ExampleAssumption DEF IInv, TypeInv, StackInv, CauseInv, SaveInv, Saved,
        Resume, RestoreInv, Frame, Regs, Csrs, Frames, Calls, EntryLabels,
        ExceptionLabels, ExitLabels, Dual
<1>1. CASE TimerStart
  BY <1>1 DEF TimerStart, At, io, ex01
<1>2. CASE ShowTime
  BY <1>2 DEF ShowTime, At, io, ex01
<1>3. CASE WaitForTick
  BY <1>3 DEF WaitForTick, At, io, ex01
<1>4. CASE Expect
  BY <1>4 DEF Expect, At, io, ex01
<1>5. CASE PageFault
  BY <1>5 DEF PageFault, Trap, io, ex01
<1>6. CASE UserCompute
  BY <1>6 DEF UserCompute, At, io, ex01
<1>7. CASE Ecall
  BY <1>7 DEF Ecall, Trap, io, ex01
<1>8. CASE UserFault
  BY <1>8 DEF UserFault, Trap, io, ex01
<1>9. CASE TrapEntry
  BY <1>9 DEF TrapEntry, Goto, io, ex01
<1>10. CASE SaveCaller
  BY <1>10 DEF SaveCaller, Goto, io, ex01
<1>11. CASE ExceptionEntry
  BY <1>11 DEF ExceptionEntry, Goto, io, ex01
<1>12. CASE TimerHandler
  BY <1>12 DEF TimerHandler, Goto, Clobbered, io, ex01
<1>13. CASE MmuHandler
  BY <1>13 DEF MmuHandler, Goto, Clobbered, io, ex01
<1>14. CASE KernelHandler
  BY <1>14 DEF KernelHandler, Goto, Clobbered, io, ex01
<1>15. CASE Halt
  BY <1>15 DEF Halt, vars, io, ex01
<1>16. CASE StartUserProgram
  BY <1>16 DEF StartUserProgram, Goto, io, ex01
<1>17. CASE ExceptionExit
  BY <1>17 DEF ExceptionExit, Goto, io, ex01
<1>18. CASE TrapExit
  BY <1>18 DEF TrapExit, Goto, io, ex01
<1>19. CASE Restore
  <2>1. reg.sp = Top - 1 /\ reg.sp + 1 = Top
    BY <1>19 DEF Restore, Goto, io, ex01
  <2>2. reg' = [Frame.regs EXCEPT !.sav = reg.sav, !.sp = IF Dual THEN @ ELSE Top]
    BY <1>19, <2>1 DEF Restore, Goto, io, ex01, Frame
  <2>3. reg' \in Regs
    BY <2>2, TypeFacts, ValueFacts DEF Regs
  <2>4. ASSUME call.cause # "none"
        PROVE  reg' = call.regs
    <3>1. Saved /\ reg.sav = call.regs.sav /\ (~Dual => call.regs.sp = Top)
      BY <1>19, <2>4 DEF Restore, Goto, io, ex01
    <3>2. /\ reg'.t0 = call.regs.t0 /\ reg'.a0 = call.regs.a0 /\ reg'.tmp = call.regs.tmp
          /\ reg'.sav = call.regs.sav /\ reg'.sp = call.regs.sp
      BY <2>2, <3>1, TypeFacts DEF Saved
    <3> QED
      BY <2>3, <3>2, TypeFacts, RegsEqual
  <2> QED
    BY <1>19, <2>4 DEF Restore, Goto, io, ex01, Resume
<1>20. CASE Sret
  BY <1>20 DEF Sret, Goto, io, ex01
<1>21. CASE Wrap
  BY <1>21 DEF Wrap, io, ex01
<1>22. CASE Interrupt
  BY <1>22 DEF Interrupt, Trap, io, ex01
<1>23. CASE UNCHANGED vars
  BY <1>23 DEF vars, io, ex01
<1> QED
  BY <1>1, <1>2, <1>3, <1>4, <1>5, <1>6, <1>7, <1>8, <1>9, <1>10, <1>11, <1>12,
     <1>13, <1>14, <1>15, <1>16, <1>17, <1>18, <1>19, <1>20, <1>21, <1>22,
     <1>23 DEF Next, Hart

\* At most the character of the call under way is missing.
LEMMA OutputInvStep ==
  ASSUME IInv, [Next]_vars
  PROVE  OutputInv'
<1> USE ExampleAssumption DEF IInv, TypeInv, StackInv, CauseInv, SaveInv, Saved,
        OutputInv, Printing, Frame, Regs, Csrs, Frames, Calls, EntryLabels,
        ExceptionLabels, ExitLabels, Dual
<1>1. CASE TimerStart
  BY <1>1 DEF TimerStart, At, io, ex01
<1>2. CASE ShowTime
  BY <1>2 DEF ShowTime, At, io, ex01
<1>3. CASE WaitForTick
  BY <1>3 DEF WaitForTick, At, io, ex01
<1>4. CASE Expect
  BY <1>4 DEF Expect, At, io, ex01
<1>5. CASE PageFault
  BY <1>5 DEF PageFault, Trap, io, ex01
<1>6. CASE UserCompute
  BY <1>6 DEF UserCompute, At, io, ex01
<1>7. CASE Ecall
  BY <1>7 DEF Ecall, Trap, io, ex01
<1>8. CASE UserFault
  BY <1>8 DEF UserFault, Trap, io, ex01
<1>9. CASE TrapEntry
  BY <1>9 DEF TrapEntry, Goto, io, ex01
<1>10. CASE SaveCaller
  BY <1>10 DEF SaveCaller, Goto, io, ex01
<1>11. CASE ExceptionEntry
  BY <1>11 DEF ExceptionEntry, Goto, io, ex01
<1>12. CASE TimerHandler
  BY <1>12 DEF TimerHandler, Goto, Clobbered, io, ex01
<1>13. CASE MmuHandler
  BY <1>13 DEF MmuHandler, Goto, Clobbered, io, ex01
<1>14. CASE KernelHandler
  BY <1>14 DEF KernelHandler, Goto, Clobbered, io, ex01
<1>15. CASE Halt
  BY <1>15 DEF Halt, vars, io, ex01
<1>16. CASE StartUserProgram
  BY <1>16 DEF StartUserProgram, Goto, io, ex01
<1>17. CASE ExceptionExit
  BY <1>17 DEF ExceptionExit, Goto, io, ex01
<1>18. CASE TrapExit
  BY <1>18 DEF TrapExit, Goto, io, ex01
<1>19. CASE Restore
  BY <1>19 DEF Restore, Goto, io, ex01
<1>20. CASE Sret
  BY <1>20 DEF Sret, Goto, io, ex01
<1>21. CASE Wrap
  BY <1>21 DEF Wrap, io, ex01
<1>22. CASE Interrupt
  BY <1>22 DEF Interrupt, Trap, io, ex01
<1>23. CASE UNCHANGED vars
  BY <1>23 DEF vars, io, ex01
<1> QED
  BY <1>1, <1>2, <1>3, <1>4, <1>5, <1>6, <1>7, <1>8, <1>9, <1>10, <1>11, <1>12,
     <1>13, <1>14, <1>15, <1>16, <1>17, <1>18, <1>19, <1>20, <1>21, <1>22,
     <1>23 DEF Next, Hart

\* ex20 expects the fault it is going to take.
LEMMA ExpectInvStep ==
  ASSUME IInv, [Next]_vars
  PROVE  ExpectInv'
<1> USE ExampleAssumption DEF IInv, TypeInv, StackInv, CauseInv, SaveInv,
        RestoreInv, Resume, ExpectInv, Faults, Regs, Csrs, Frames, Calls,
        EntryLabels, ExceptionLabels, ExitLabels, Dual
<1>1. CASE TimerStart
  BY <1>1 DEF TimerStart, At, io, ex01
<1>2. CASE ShowTime
  BY <1>2 DEF ShowTime, At, io, ex01
<1>3. CASE WaitForTick
  BY <1>3 DEF WaitForTick, At, io, ex01
<1>4. CASE Expect
  BY <1>4 DEF Expect, At, io, ex01
<1>5. CASE PageFault
  <2>1. timer' = timer /\ expect' = expect /\ pc = "program" /\ prog' = prog
    BY <1>5, PageFaults DEF PageFault, Trap, io, ex01
  <2>2. CASE upc = 1 /\ Trap("store_page_fault", 0)
    BY <2>1, <2>2 DEF Trap
  <2>3. CASE upc = 3 /\ Trap("load_page_fault", 1)
    BY <2>1, <2>3 DEF Trap
  <2>4. CASE upc = 4 /\ Trap("inst_page_fault", 2)
    BY <2>1, <2>4 DEF Trap
  <2> QED
    BY <1>5, <2>2, <2>3, <2>4, PageFaults
<1>6. CASE UserCompute
  BY <1>6 DEF UserCompute, At, io, ex01
<1>7. CASE Ecall
  BY <1>7 DEF Ecall, Trap, io, ex01
<1>8. CASE UserFault
  BY <1>8 DEF UserFault, Trap, io, ex01
<1>9. CASE TrapEntry
  BY <1>9 DEF TrapEntry, Goto, io, ex01
<1>10. CASE SaveCaller
  BY <1>10 DEF SaveCaller, Goto, io, ex01
<1>11. CASE ExceptionEntry
  BY <1>11 DEF ExceptionEntry, Goto, io, ex01
<1>12. CASE TimerHandler
  BY <1>12 DEF TimerHandler, Goto, Clobbered, io, ex01
<1>13. CASE MmuHandler
  BY <1>13 DEF MmuHandler, Goto, Clobbered, io, ex01
<1>14. CASE KernelHandler
  BY <1>14 DEF KernelHandler, Goto, Clobbered, io, ex01
<1>15. CASE Halt
  BY <1>15 DEF Halt, vars, io, ex01
<1>16. CASE StartUserProgram
  BY <1>16 DEF StartUserProgram, Goto, io, ex01
<1>17. CASE ExceptionExit
  BY <1>17 DEF ExceptionExit, Goto, io, ex01
<1>18. CASE TrapExit
  BY <1>18 DEF TrapExit, Goto, io, ex01
<1>19. CASE Restore
  BY <1>19 DEF Restore, Goto, io, ex01
<1>20. CASE Sret
  BY <1>20 DEF Sret, Goto, io, ex01
<1>21. CASE Wrap
  BY <1>21 DEF Wrap, io, ex01
<1>22. CASE Interrupt
  BY <1>22 DEF Interrupt, Trap, io, ex01
<1>23. CASE UNCHANGED vars
  BY <1>23 DEF vars, io, ex01
<1> QED
  BY <1>1, <1>2, <1>3, <1>4, <1>5, <1>6, <1>7, <1>8, <1>9, <1>10, <1>11, <1>12,
     <1>13, <1>14, <1>15, <1>16, <1>17, <1>18, <1>19, <1>20, <1>21, <1>22,
     <1>23 DEF Next, Hart

-----------------------------------------------------------------------------
(* The theorems.                                                           *)

\* The initial states satisfy the inductive invariant.
LEMMA InitInv == Init => IInv
<1> SUFFICES ASSUME Init PROVE IInv
  OBVIOUS
<1>1. TypeInv
  <2>1. NoReg \in Regs /\ reg \in Regs
    BY ValueFacts DEF Init, NoReg, Regs
  <2>2. [pc |-> 0, regs |-> NoReg] \in Frames
    BY <2>1 DEF Frames
  <2>3. mem \in [0..Top -> Frames]
    BY <2>2 DEF Init
  <2>4. csr \in Csrs
    BY ValueFacts DEF Init, Csrs, Causes
  <2>5. call \in Calls
    BY <2>1 DEF Init, Calls, Causes
  <2>6. timer \in [event : BOOLEAN, irq : BOOLEAN]
    BY DEF Init
  <2> QED
    BY <2>1, <2>3, <2>4, <2>5, <2>6 DEF Init, TypeInv, Labels
<1>2. StackInv
  BY <1>1, ExampleAssumption DEF Init, StackInv, TypeInv, NoReg, Dual,
     ExceptionLabels,
     ExitLabels, EntryLabels
<1>3. CauseInv /\ SaveInv /\ RestoreInv
  BY DEF Init, CauseInv, SaveInv, RestoreInv, Dual, EntryLabels, ExceptionLabels,
     ExitLabels
<1>4. OutputInv
  BY DEF Init, OutputInv, Printing, Dual, EntryLabels, ExceptionLabels, ExitLabels
<1>5. ExpectInv
  BY DEF Init, ExpectInv, Dual, EntryLabels, ExceptionLabels, ExitLabels
<1> QED
  BY <1>1, <1>2, <1>3, <1>4, <1>5 DEF IInv

\* Every step keeps it.
LEMMA NextInv == IInv /\ [Next]_vars => IInv'
BY TypeInvStep, StackInvStep, CauseInvStep, SaveInvStep, RestoreInvStep,
   OutputInvStep,
   ExpectInvStep DEF IInv

\* IInv holds in every reachable state.
LEMMA Invariance == Spec => []IInv
BY InitInv, NextInv, PTL DEF Spec

(* Both trap entries give the program back every register, at the right    *)
(* instruction, and find their stack the next time, whatever the program   *)
(* keeps in its registers and whenever the timer interrupts it.            *)
THEOREM ProgramSafety == Spec => []ProgramUndisturbed
<1>1. IInv => ProgramUndisturbed
  BY DEF IInv, StackInv, RestoreInv, Resume, ProgramUndisturbed, Dual
<1> QED
  BY <1>1, Invariance, PTL

(* ex25 prints what was handed to xputc and halts only where it should,    *)
(* for any call numbers and any number of calls; ex20 survives its two     *)
(* expected faults and does not survive the third.                         *)
THEOREM StopSafety == Spec => []StopsWhereItShould
<1>1. IInv => StopsWhereItShould
  BY DEF IInv, OutputInv, ExpectInv, Printing, StopsWhereItShould, Dual, EntryLabels,
         ExceptionLabels, ExitLabels
<1> QED
  BY <1>1, Invariance, PTL
===============================================================================
