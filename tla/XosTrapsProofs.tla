---------------------------- MODULE XosTrapsProofs ----------------------------
(***************************************************************************)
(* Proofs about XosTraps, for any kernel stack, any contents of the user's *)
(* registers and any number of system calls.                               *)
(***************************************************************************)
EXTENDS XosTraps, TLAPS

Frame      == mem[KTop - 1]
SaveLabels == {"save_caller", "save_pc_sp", "save_callee"}
SysLabels  == {"syscall_entry", "sys_exit", "sys_xputc", "sys_thread_create",
               "illegal_syscall", "syscall_return"}
ExitLabels == {"trap_exit", "restore_pc", "restore_caller"}

(* Which stack is in use, and where the kernel stack is kept meanwhile.    *)
StackInv ==
  /\ \A a \in 0..KTop \ {KTop - 1} : mem[a] = Zeroed
  /\ pc = "user_mode_entry" => reg.a0 = KTop - 1
  /\ pc \in SaveLabels \cup KernelLabels \cup ExitLabels => reg.sp = KTop - 1
  /\ pc \in KernelLabels => reg.tp = KTop
  /\ pc \in {"user", "trap_entry", "restore_pc", "restore_caller", "sret"} =>
       sscratch = KTop
  /\ pc = "user" => mode = "U"
  /\ pc # "start_user_program" => spp = "U"

(* What the trap was about, in the CSRs and in the history.                *)
CauseInv ==
  /\ pc \in {"start_user_program", "user_mode_entry"} => call.cause = "none"
  /\ pc \in {"trap_entry"} \cup SaveLabels => scause = call.cause /\ sepc = call.upc
  /\ pc \in {"trap_entry"} \cup SaveLabels => call.cause \in {"ECALL_UMODE", "fault"}
  /\ pc \in SysLabels => call.cause = "ECALL_UMODE"
  /\ pc \in ExitLabels \cup {"user", "sret"} => call.cause # "fault"
  /\ call.cause = "ECALL_UMODE" => call.upc % 2 = 1

(* How much of the registers at the trap is saved, and what is not saved   *)
(* yet is still where it was.                                              *)
SaveInv ==
  /\ pc = "trap_entry" => reg = call.regs
  /\ pc \in SaveLabels =>
       /\ reg.t0 = call.regs.t0 /\ reg.a0 = call.regs.a0
       /\ reg.sav = call.regs.sav /\ reg.tp = call.regs.tp
       /\ sscratch = call.regs.sp
  /\ pc = "save_caller" => reg.tmp = call.regs.tmp
  /\ pc \in {"save_pc_sp", "save_callee"} =>
       /\ Frame.regs.t0 = call.regs.t0 /\ Frame.regs.a0 = call.regs.a0
       /\ Frame.regs.tmp = call.regs.tmp
  /\ pc = "save_callee" => Frame.pc = call.upc /\ Frame.regs.sp = call.regs.sp
  /\ pc \in SysLabels => Frame = [pc |-> call.upc, regs |-> call.regs]

(* Which call the handlers are at, and the argument that reaches them.     *)
DispatchInv ==
  /\ pc \in {"syscall_entry", "sys_xputc"} => reg.a0 = call.regs.a0
  /\ pc = "syscall_entry" => reg.t0 = call.regs.t0
  /\ pc = "sys_exit" => call.regs.t0 = EXIT
  /\ pc = "sys_xputc" => call.regs.t0 = XPUTC
  /\ pc = "sys_thread_create" => call.regs.t0 = THREAD_CREATE
  /\ pc = "illegal_syscall" => call.regs.t0 >= SYSCALL_COUNT
  /\ pc = "syscall_return" =>
       /\ call.regs.t0 \in {XPUTC, THREAD_CREATE}
       /\ call.regs.t0 = THREAD_CREATE => reg.a0 = XOS_ERR_NOT_SUPPORTED

(* The registers r and program counter u are those of the program at its   *)
(* last trap, but for the result of the call: the next instruction when    *)
(* the call was served, the same one when its number was illegal.          *)
Resumes(r, u) ==
  /\ r = [call.regs EXCEPT !.a0 = r.a0]
  /\ \/ /\ u = call.upc + 1 /\ call.regs.t0 \in {XPUTC, THREAD_CREATE}
        /\ call.regs.t0 = THREAD_CREATE => r.a0 = XOS_ERR_NOT_SUPPORTED
     \/ u = call.upc /\ call.regs.t0 >= SYSCALL_COUNT

(* What is restored is what the program will resume with.                  *)
RestoreInv ==
  /\ pc \in ExitLabels \cup {"user_mode_entry"} =>
       IF call.cause = "none" THEN Frame.pc = 0 ELSE Resumes(Frame.regs, Frame.pc)
  /\ pc \in {"restore_pc", "restore_caller"} =>
       reg.sav = Frame.regs.sav /\ reg.tp = Frame.regs.tp
  /\ pc = "restore_caller" => sepc = Frame.pc
  /\ pc = "sret" =>
       IF call.cause = "none" THEN sepc = 0 ELSE Resumes(reg, sepc)
  /\ pc = "user" /\ upc % 2 = 0 /\ call.cause = "ECALL_UMODE" => Resumes(reg, upc)

(* The user program: its last call is exit, and a character is one.        *)
ProgramInv ==
  /\ upc < 2 * MaxCalls
  /\ pc = "user" /\ upc % 2 = 1 =>
       /\ upc = 2 * MaxCalls - 1 => reg.t0 = EXIT
       /\ reg.t0 = XPUTC => reg.a0 \in Words
  /\ call.cause = "ECALL_UMODE" =>
       /\ call.upc = 2 * MaxCalls - 1 => call.regs.t0 = EXIT
       /\ call.regs.t0 = XPUTC => call.regs.a0 \in Words

(* The character of an xputc under way is the only one not yet printed.    *)
Printing == /\ pc \in {"trap_entry", "syscall_entry", "sys_xputc"} \cup SaveLabels
            /\ call.cause = "ECALL_UMODE" /\ call.regs.t0 = XPUTC

OutputInv == sent = IF Printing THEN Append(out, call.regs.a0) ELSE out

IInv == /\ TypeOK /\ StackInv /\ CauseInv /\ SaveInv /\ DispatchInv
        /\ RestoreInv /\ ProgramInv /\ OutputInv

Frames == [pc : Code, regs : Regs]

-----------------------------------------------------------------------------
(* Values, registers and frames.                                           *)

\* What may be in a register.
LEMMA ValueFacts ==
  /\ Value \subseteq Nat /\ Words \subseteq Value /\ Numbers \subseteq Value
  /\ {Junk, KTop, KTop - 1, XOS_ERR_NOT_SUPPORTED, XOS_ERR_BAD_SYSCALL} \subseteq Value
BY TrapsAssumption DEF Value, Junk, XOS_ERR_NOT_SUPPORTED, XOS_ERR_BAD_SYSCALL

\* Two sets of registers that agree on each register are the same.
LEMMA RegsEqual ==
  ASSUME NEW r \in Regs, NEW s \in Regs, r.t0 = s.t0, r.a0 = s.a0, r.tmp = s.tmp,
         r.sav = s.sav, r.sp = s.sp, r.tp = s.tp
  PROVE  r = s
BY DEF Regs

\* The frame at the top of the kernel stack is one of those mem holds.
LEMMA TypeFacts ==
  ASSUME TypeOK
  PROVE  /\ KTop - 1 \in 0..KTop /\ KTop \in Nat /\ 0 \in Code
         /\ mem \in [0..KTop -> Frames] /\ Frame \in Frames
         /\ Frame.regs \in Regs /\ Frame.pc \in Code
         /\ reg \in Regs /\ call.regs \in Regs
         /\ NoReg \in Regs
BY TrapsAssumption, ValueFacts DEF TypeOK, Frame, Frames, Code, NoReg, Regs

\* Storing one register of a frame.
LEMMA StoreSp ==
  ASSUME NEW f \in Frames, NEW v \in Value
  PROVE  [f EXCEPT !.regs.sp = v] = [pc |-> f.pc, regs |-> [f.regs EXCEPT !.sp = v]]
BY DEF Frames

\* The same for the result.
LEMMA StoreA0 ==
  ASSUME NEW f \in Frames, NEW v \in Value
  PROVE  [f EXCEPT !.regs.a0 = v] = [pc |-> f.pc, regs |-> [f.regs EXCEPT !.a0 = v]]
BY DEF Frames

-----------------------------------------------------------------------------
(* What each step that writes the frame leaves in it.                      *)

\* kernel.c fills the frame that user_mode_entry will load.
LEMMA StartFrame ==
  ASSUME IInv, StartUserProgram
  PROVE  /\ mem' \in [0..KTop -> Frames]
         /\ Frame'.pc = 0 /\ Frame'.regs = [NoReg EXCEPT !.sp = UserStack]
<1> DEFINE r == [NoReg EXCEPT !.sp = UserStack]
<1>1. r \in Regs
  BY TrapsAssumption, ValueFacts, TypeFacts DEF IInv, Regs, UserStack
<1> HIDE DEF r
<1>2. mem' = [mem EXCEPT ![KTop - 1] = [pc |-> 0, regs |-> r]]
  BY DEF StartUserProgram, r
<1>3. [pc |-> 0, regs |-> r] \in Frames
  BY <1>1, TypeFacts DEF Frames, IInv
<1>4. mem' \in [0..KTop -> Frames] /\ mem'[KTop - 1] = [pc |-> 0, regs |-> r]
  BY <1>2, <1>3, TypeFacts DEF IInv
<1> QED
  BY <1>4 DEF Frame, r

\* trap_entry saves t0, a0 and the other caller-saved registers.
LEMMA SaveCallerFrame ==
  ASSUME IInv, SaveCaller
  PROVE  /\ mem' \in [0..KTop -> Frames]
         /\ Frame'.regs = [Frame.regs EXCEPT !.t0 = reg.t0, !.a0 = reg.a0,
                                             !.tmp = reg.tmp]
<1> DEFINE r == [Frame.regs EXCEPT !.t0 = reg.t0, !.a0 = reg.a0, !.tmp = reg.tmp]
<1>1. r \in Regs
  BY TypeFacts DEF IInv, Regs
<1>2. mem' = [mem EXCEPT ![KTop - 1].regs = r]
  BY DEF IInv, StackInv, SaveLabels, SaveCaller, Goto, Frame
<1> QED
  BY <1>1, <1>2, TypeFacts DEF IInv, Frame, Frames

\* trap_entry saves sepc, and the user's sp from sscratch.
LEMMA SavePcSpFrame ==
  ASSUME IInv, SavePcSp
  PROVE  /\ mem' \in [0..KTop -> Frames]
         /\ Frame'.pc = sepc /\ Frame'.regs = [Frame.regs EXCEPT !.sp = sscratch]
<1> DEFINE r == [Frame.regs EXCEPT !.sp = sscratch]
<1>1. r \in Regs /\ sepc \in Code
  BY TypeFacts DEF IInv, Regs, TypeOK
<1> DEFINE f == [[Frame EXCEPT !.pc = sepc] EXCEPT !.regs.sp = sscratch]
<1>2. mem' = [mem EXCEPT ![KTop - 1] = f]
  BY TypeFacts DEF IInv, StackInv, SaveLabels, SavePcSp, Goto, Frame
<1>3. [Frame EXCEPT !.pc = sepc] = [pc |-> sepc, regs |-> Frame.regs]
  BY TypeFacts DEF IInv, Frames
<1>4. [pc |-> sepc, regs |-> Frame.regs] \in Frames /\ sscratch \in Value
  BY <1>1, TypeFacts DEF IInv, TypeOK, Frames
<1>5. f = [[pc |-> sepc, regs |-> Frame.regs] EXCEPT !.regs.sp = sscratch]
  BY <1>3
<1>6. f = [pc |-> sepc, regs |-> r]
  BY <1>4, <1>5, StoreSp
<1> HIDE DEF f
<1> QED
  BY <1>1, <1>2, <1>6, TypeFacts DEF IInv, Frame, Frames

\* trap_entry saves the callee-saved registers and tp.
LEMMA SaveCalleeFrame ==
  ASSUME IInv, SaveCallee
  PROVE  /\ mem' \in [0..KTop -> Frames]
         /\ Frame'.pc = Frame.pc
         /\ Frame'.regs = [Frame.regs EXCEPT !.sav = reg.sav, !.tp = reg.tp]
<1> DEFINE r == [Frame.regs EXCEPT !.sav = reg.sav, !.tp = reg.tp]
<1>1. r \in Regs
  BY TypeFacts DEF IInv, Regs
<1>2. mem' = [mem EXCEPT ![KTop - 1].regs = r]
  BY DEF IInv, StackInv, SaveLabels, SaveCallee, Frame
<1> QED
  BY <1>1, <1>2, TypeFacts DEF IInv, Frame, Frames

\* syscall_entry stores the result and steps over the ecall.
LEMMA SyscallReturnFrame ==
  ASSUME IInv, SyscallReturn
  PROVE  /\ mem' \in [0..KTop -> Frames]
         /\ Frame'.pc = call.upc + 1
         /\ Frame'.regs = [call.regs EXCEPT !.a0 = reg.a0]
<1> DEFINE r == [call.regs EXCEPT !.a0 = reg.a0]
<1>1. Frame.regs = call.regs /\ Frame.pc = call.upc
  BY DEF IInv, SaveInv, SyscallReturn, Goto, SysLabels
<1>2. r \in Regs
  BY TypeFacts DEF IInv, Regs
<1>3. call.upc + 1 \in Code
  <2>1. call.upc \in Code /\ call.upc % 2 = 1
    BY DEF IInv, TypeOK, CauseInv, SyscallReturn, Goto, SysLabels
  <2> QED
    BY <2>1, TrapsAssumption DEF Code
<1> DEFINE f == [Frame EXCEPT !.regs.a0 = reg.a0]
<1>4. mem' = [mem EXCEPT ![KTop - 1] = [f EXCEPT !.pc = @ + 1]]
  BY TypeFacts DEF IInv, StackInv, KernelLabels, SyscallReturn, Goto, Frame
<1>5. f = [pc |-> call.upc, regs |-> r]
  BY <1>1, TypeFacts, StoreA0 DEF IInv, Regs
<1> HIDE DEF f
<1>6. [f EXCEPT !.pc = @ + 1] = [pc |-> call.upc + 1, regs |-> r]
  BY <1>5
<1> QED
  BY <1>2, <1>3, <1>4, <1>6, TypeFacts DEF IInv, Frame, Frames

\* illegal_syscall stores the error and leaves user.pc alone.
LEMMA IllegalSyscallFrame ==
  ASSUME IInv, IllegalSyscall
  PROVE  /\ mem' \in [0..KTop -> Frames]
         /\ Frame'.pc = call.upc
         /\ Frame'.regs = [call.regs EXCEPT !.a0 = XOS_ERR_BAD_SYSCALL]
<1> DEFINE r == [call.regs EXCEPT !.a0 = XOS_ERR_BAD_SYSCALL]
<1>1. Frame.regs = call.regs /\ Frame.pc = call.upc
  BY DEF IInv, SaveInv, IllegalSyscall, Goto, SysLabels
<1>2. r \in Regs
  BY TypeFacts, ValueFacts DEF IInv, Regs
<1> DEFINE f == [Frame EXCEPT !.regs.a0 = XOS_ERR_BAD_SYSCALL]
<1>3. mem' = [mem EXCEPT ![KTop - 1] = f]
  BY TypeFacts DEF IInv, StackInv, KernelLabels, IllegalSyscall, Goto, Frame
<1>4. f = [pc |-> call.upc, regs |-> r]
  BY <1>1, TypeFacts, ValueFacts, StoreA0 DEF IInv
<1> HIDE DEF f
<1> QED
  BY <1>1, <1>2, <1>3, <1>4, TypeFacts DEF IInv, Frame, Frames

\* The table sends each number to its own handler.
LEMMA Dispatch ==
  ASSUME IInv, SyscallEntry
  PROVE  \/ reg.t0 = EXIT /\ pc' = "sys_exit"
         \/ reg.t0 = XPUTC /\ pc' = "sys_xputc"
         \/ reg.t0 = THREAD_CREATE /\ pc' = "sys_thread_create"
         \/ reg.t0 >= SYSCALL_COUNT /\ pc' = "illegal_syscall"
<1>1. reg.t0 \in Nat
  BY TypeFacts, ValueFacts DEF IInv, Regs
<1>2. CASE reg.t0 >= SYSCALL_COUNT
  BY <1>2 DEF SyscallEntry
<1>3. CASE reg.t0 = 0
  BY <1>3 DEF SyscallEntry, Handler, EXIT, SYSCALL_COUNT, XPUTC, THREAD_CREATE
<1>4. CASE reg.t0 = 1
  BY <1>4 DEF SyscallEntry, Handler, EXIT, SYSCALL_COUNT, XPUTC, THREAD_CREATE
<1>5. CASE reg.t0 = 2
  BY <1>5 DEF SyscallEntry, Handler, EXIT, SYSCALL_COUNT, XPUTC, THREAD_CREATE
<1> QED
  BY <1>1, <1>2, <1>3, <1>4, <1>5 DEF SYSCALL_COUNT

\* Every variable keeps its type.
LEMMA TypeOKStep ==
  ASSUME IInv, [Next]_vars
  PROVE  TypeOK'
<1> USE TrapsAssumption DEF IInv, TypeOK, KernelLabels
<1>1. CASE StartUserProgram
  <2>1. reg' \in Regs
    BY <1>1, TypeFacts, ValueFacts DEF StartUserProgram, Goto, csrs, history, Regs
  <2> QED
    BY <1>1, <2>1, StartFrame DEF StartUserProgram, Goto, csrs, history, Frames
<1>2. CASE UserModeEntry
  <2>1. reg.a0 = KTop - 1 /\ reg.a0 + 1 = KTop
    BY <1>2 DEF UserModeEntry, Goto, csrs, history, StackInv
  <2>2. reg' = [reg EXCEPT !.sp = KTop - 1, !.tp = KTop]
    BY <1>2, <2>1, TypeFacts DEF UserModeEntry, Goto, csrs, history
  <2>3. reg' \in Regs
    BY <2>2, TypeFacts, ValueFacts DEF Regs
  <2> QED
    BY <1>2, <2>3 DEF UserModeEntry, Goto, csrs, history
<1>3. CASE UserCompute
  <2>1. reg' \in Regs
    BY <1>3, TypeFacts, ValueFacts DEF UserCompute, csrs, history, Regs, EXIT
  <2>2. upc' \in Code
    BY <1>3 DEF UserCompute, csrs, history, ProgramInv, Code
  <2> QED
    BY <1>3, <2>1, <2>2 DEF UserCompute, csrs, history
<1>4. CASE Ecall
  <2>1. sent' \in Seq(Words)
    BY <1>4 DEF Ecall, Trap, csrs, history, ProgramInv
  <2>2. call' \in [regs : Regs, upc : Code, cause : {"none", "ECALL_UMODE", "fault"}]
    BY <1>4 DEF Ecall, Trap, csrs, history
  <2> QED
    BY <1>4, <2>1, <2>2 DEF Ecall, Trap, csrs, history
<1>5. CASE Fault
  BY <1>5 DEF Fault, Trap, csrs, history
<1>6. CASE SwapStack
  <2>1. sscratch = KTop
    BY <1>6 DEF SwapStack, Goto, csrs, history, StackInv
  <2>2. reg' \in Regs /\ reg.sp \in Value
    BY <1>6, <2>1, TypeFacts, ValueFacts DEF SwapStack, Goto, csrs, history, Regs
  <2> QED
    BY <1>6, <2>2 DEF SwapStack, Goto, csrs, history
<1>7. CASE SaveCaller
  BY <1>7, SaveCallerFrame DEF SaveCaller, Goto, csrs, history, Frames
<1>8. CASE SavePcSp
  <2>1. reg' \in Regs
    BY <1>8, TypeFacts, ValueFacts DEF SavePcSp, Goto, csrs, history, Regs
  <2> QED
    BY <1>8, <2>1, SavePcSpFrame DEF SavePcSp, Goto, csrs, history, Frames
<1>9. CASE SaveCallee
  <2>1. reg.sp = KTop - 1 /\ reg.sp + 1 = KTop
    BY <1>9 DEF SaveCallee, csrs, history, StackInv, SaveLabels
  <2>2. reg' = [reg EXCEPT !.tp = KTop]
    BY <1>9, <2>1, TypeFacts DEF SaveCallee, csrs, history
  <2>3. reg' \in Regs
    BY <2>2, TypeFacts, ValueFacts DEF Regs
  <2> QED
    BY <1>9, <2>3, SaveCalleeFrame DEF SaveCallee, csrs, history, Frames
<1>10. CASE SyscallEntry
  <2>1. reg' \in Regs
    BY <1>10, TypeFacts, ValueFacts DEF SyscallEntry, Regs
  <2> QED
    BY <1>10, <2>1, Dispatch DEF SyscallEntry, csrs, history
<1>11. CASE SysXputc
  <2>1. reg' \in Regs
    BY <1>11, TypeFacts, ValueFacts DEF SysXputc, Goto, csrs, history, Regs
  <2>2. reg.a0 \in Words
    BY <1>11 DEF SysXputc, Goto, csrs, history, CauseInv, DispatchInv, ProgramInv,
       SysLabels
  <2>3. out' \in Seq(Words)
    BY <1>11, <2>2 DEF SysXputc, Goto, csrs, history
  <2> QED
    BY <1>11, <2>1, <2>3 DEF SysXputc, Goto, csrs, history
<1>12. CASE SysThreadCreate
  <2>1. reg' \in Regs
    BY <1>12, TypeFacts, ValueFacts DEF SysThreadCreate, Goto, csrs, history, Regs
  <2> QED
    BY <1>12, <2>1 DEF SysThreadCreate, Goto, csrs, history
<1>13. CASE Halt
  BY <1>13 DEF Halt, vars, csrs, history
<1>14. CASE SyscallReturn
  BY <1>14, SyscallReturnFrame DEF SyscallReturn, Goto, csrs, history, Frames
<1>15. CASE IllegalSyscall
  BY <1>15, IllegalSyscallFrame DEF IllegalSyscall, Goto, csrs, history, Frames
<1>16. CASE TrapExit
  <2>1. reg.sp = KTop - 1
    BY <1>16 DEF TrapExit, Goto, csrs, history, StackInv, ExitLabels
  <2>2. reg' \in Regs /\ Frame.pc \in Code
    BY <1>16, <2>1, TypeFacts, ValueFacts DEF TrapExit, Goto, csrs, history, Regs,
       Frame
  <2> QED
    BY <1>16, <2>1, <2>2, TypeFacts DEF TrapExit, Goto, csrs, history, Frame, Regs
<1>17. CASE RestorePc
  <2>1. reg.sp = KTop - 1
    BY <1>17 DEF RestorePc, Goto, csrs, history, StackInv, ExitLabels
  <2>2. reg' \in Regs /\ Frame.pc \in Code
    BY <1>17, <2>1, TypeFacts, ValueFacts DEF RestorePc, Goto, csrs, history, Regs,
       Frame
  <2> QED
    BY <1>17, <2>1, <2>2, TypeFacts DEF RestorePc, Goto, csrs, history, Frame, Regs
<1>18. CASE RestoreCaller
  <2>1. reg.sp = KTop - 1
    BY <1>18 DEF RestoreCaller, Goto, csrs, history, StackInv, ExitLabels
  <2>2. reg' \in Regs /\ Frame.pc \in Code
    BY <1>18, <2>1, TypeFacts, ValueFacts DEF RestoreCaller, Goto, csrs, history,
       Regs, Frame
  <2> QED
    BY <1>18, <2>1, <2>2, TypeFacts DEF RestoreCaller, Goto, csrs, history, Frame,
       Regs
<1>19. CASE Sret
  BY <1>19 DEF Sret, Goto, csrs, history
<1>20. CASE UNCHANGED vars
  BY <1>20 DEF vars, csrs, history
<1> QED
  BY <1>1, <1>2, <1>3, <1>4, <1>5, <1>6, <1>7, <1>8, <1>9, <1>10, <1>11, <1>12, <1>13,
     <1>14, <1>15, <1>16, <1>17, <1>18, <1>19, <1>20 DEF Next

\* The kernel stack is where StackInv says.
LEMMA StackInvStep ==
  ASSUME IInv, [Next]_vars
  PROVE  StackInv'
<1> USE TrapsAssumption DEF IInv, TypeOK, StackInv, SaveLabels, SysLabels,
        ExitLabels, KernelLabels, Zeroed
<1>1. CASE StartUserProgram
  BY <1>1 DEF StartUserProgram, Goto, csrs, history
<1>2. CASE UserModeEntry
  BY <1>2, TypeFacts DEF UserModeEntry, Goto, csrs, history, Regs
<1>3. CASE UserCompute
  BY <1>3 DEF UserCompute, csrs, history
<1>4. CASE Ecall
  BY <1>4 DEF Ecall, Trap, csrs, history
<1>5. CASE Fault
  BY <1>5 DEF Fault, Trap, csrs, history
<1>6. CASE SwapStack
  BY <1>6 DEF SwapStack, Goto, csrs, history
<1>7. CASE SaveCaller
  BY <1>7 DEF SaveCaller, Goto, csrs, history
<1>8. CASE SavePcSp
  BY <1>8 DEF SavePcSp, Goto, csrs, history
<1>9. CASE SaveCallee
  BY <1>9 DEF SaveCallee, csrs, history
<1>10. CASE SyscallEntry
  BY <1>10, Dispatch DEF SyscallEntry, csrs, history
<1>11. CASE SysXputc
  BY <1>11 DEF SysXputc, Goto, csrs, history
<1>12. CASE SysThreadCreate
  BY <1>12 DEF SysThreadCreate, Goto, csrs, history
<1>13. CASE Halt
  BY <1>13 DEF Halt, vars, csrs, history
<1>14. CASE SyscallReturn
  BY <1>14 DEF SyscallReturn, Goto, csrs, history
<1>15. CASE IllegalSyscall
  BY <1>15 DEF IllegalSyscall, Goto, csrs, history
<1>16. CASE TrapExit
  BY <1>16 DEF TrapExit, Goto, csrs, history
<1>17. CASE RestorePc
  BY <1>17 DEF RestorePc, Goto, csrs, history
<1>18. CASE RestoreCaller
  BY <1>18 DEF RestoreCaller, Goto, csrs, history
<1>19. CASE Sret
  BY <1>19 DEF Sret, Goto, csrs, history
<1>20. CASE UNCHANGED vars
  BY <1>20 DEF vars, csrs, history
<1> QED
  BY <1>1, <1>2, <1>3, <1>4, <1>5, <1>6, <1>7, <1>8, <1>9, <1>10, <1>11, <1>12, <1>13,
     <1>14, <1>15, <1>16, <1>17, <1>18, <1>19, <1>20 DEF Next

\* The cause of the trap is kept.
LEMMA CauseInvStep ==
  ASSUME IInv, [Next]_vars
  PROVE  CauseInv'
<1> USE TrapsAssumption DEF IInv, TypeOK, CauseInv, SaveLabels, SysLabels,
        ExitLabels, KernelLabels
<1>1. CASE StartUserProgram
  BY <1>1 DEF StartUserProgram, Goto, csrs, history
<1>2. CASE UserModeEntry
  BY <1>2 DEF UserModeEntry, Goto, csrs, history
<1>3. CASE UserCompute
  BY <1>3 DEF UserCompute, csrs, history
<1>4. CASE Ecall
  BY <1>4 DEF Ecall, Trap, csrs, history
<1>5. CASE Fault
  BY <1>5 DEF Fault, Trap, csrs, history
<1>6. CASE SwapStack
  BY <1>6 DEF SwapStack, Goto, csrs, history
<1>7. CASE SaveCaller
  BY <1>7 DEF SaveCaller, Goto, csrs, history
<1>8. CASE SavePcSp
  BY <1>8 DEF SavePcSp, Goto, csrs, history
<1>9. CASE SaveCallee
  BY <1>9 DEF SaveCallee, csrs, history
<1>10. CASE SyscallEntry
  BY <1>10, Dispatch DEF SyscallEntry, csrs, history
<1>11. CASE SysXputc
  BY <1>11 DEF SysXputc, Goto, csrs, history
<1>12. CASE SysThreadCreate
  BY <1>12 DEF SysThreadCreate, Goto, csrs, history
<1>13. CASE Halt
  BY <1>13 DEF Halt, vars, csrs, history
<1>14. CASE SyscallReturn
  BY <1>14 DEF SyscallReturn, Goto, csrs, history
<1>15. CASE IllegalSyscall
  BY <1>15 DEF IllegalSyscall, Goto, csrs, history
<1>16. CASE TrapExit
  BY <1>16 DEF TrapExit, Goto, csrs, history
<1>17. CASE RestorePc
  BY <1>17 DEF RestorePc, Goto, csrs, history
<1>18. CASE RestoreCaller
  BY <1>18 DEF RestoreCaller, Goto, csrs, history
<1>19. CASE Sret
  BY <1>19 DEF Sret, Goto, csrs, history
<1>20. CASE UNCHANGED vars
  BY <1>20 DEF vars, csrs, history
<1> QED
  BY <1>1, <1>2, <1>3, <1>4, <1>5, <1>6, <1>7, <1>8, <1>9, <1>10, <1>11, <1>12, <1>13,
     <1>14, <1>15, <1>16, <1>17, <1>18, <1>19, <1>20 DEF Next

\* The registers of the program are saved or still in place.
LEMMA SaveInvStep ==
  ASSUME IInv, [Next]_vars
  PROVE  SaveInv'
<1> USE TrapsAssumption DEF IInv, SaveInv, SaveLabels, SysLabels, ExitLabels,
        KernelLabels
<1>1. CASE StartUserProgram
  BY <1>1 DEF StartUserProgram, Goto, csrs, history
<1>2. CASE UserModeEntry
  BY <1>2 DEF UserModeEntry, Goto, csrs, history
<1>3. CASE UserCompute
  BY <1>3 DEF UserCompute, csrs, history
<1>4. CASE Ecall
  BY <1>4 DEF Ecall, Trap, csrs, history
<1>5. CASE Fault
  BY <1>5 DEF Fault, Trap, csrs, history
<1>6. CASE SwapStack
  <2>1. /\ reg'.t0 = reg.t0 /\ reg'.a0 = reg.a0 /\ reg'.sav = reg.sav
        /\ reg'.tp = reg.tp /\ reg'.tmp = reg.tmp
    BY <1>6, TypeFacts DEF SwapStack, Goto, csrs, history, Regs
  <2> QED
    BY <1>6, <2>1 DEF SwapStack, Goto, csrs, history
<1>7. CASE SaveCaller
  <2>1. /\ Frame'.regs.t0 = reg.t0 /\ Frame'.regs.a0 = reg.a0
        /\ Frame'.regs.tmp = reg.tmp
    BY <1>7, SaveCallerFrame, TypeFacts DEF Regs
  <2> QED
    BY <1>7, <2>1 DEF SaveCaller, Goto, csrs, history
<1>8. CASE SavePcSp
  <2>1. /\ Frame'.pc = sepc /\ Frame'.regs.sp = sscratch
        /\ Frame'.regs.t0 = Frame.regs.t0 /\ Frame'.regs.a0 = Frame.regs.a0
        /\ Frame'.regs.tmp = Frame.regs.tmp
    BY <1>8, SavePcSpFrame, TypeFacts DEF Regs
  <2>2. /\ reg'.t0 = reg.t0 /\ reg'.a0 = reg.a0 /\ reg'.sav = reg.sav /\ reg'.tp = reg.tp
    BY <1>8, TypeFacts DEF SavePcSp, Goto, csrs, history, Regs
  <2> QED
    BY <1>8, <2>1, <2>2 DEF SavePcSp, Goto, csrs, history, CauseInv
<1>9. CASE SaveCallee
  <2>1. /\ reg.sav = call.regs.sav /\ reg.tp = call.regs.tp
        /\ Frame.regs.t0 = call.regs.t0 /\ Frame.regs.a0 = call.regs.a0
        /\ Frame.regs.tmp = call.regs.tmp /\ Frame.regs.sp = call.regs.sp
        /\ Frame.pc = call.upc /\ call' = call
    BY <1>9 DEF SaveCallee, csrs, history
  <2>2. Frame'.regs \in Regs /\ Frame' \in Frames
    BY <1>9, SaveCalleeFrame, TypeFacts DEF Frame, Frames
  <2>3. Frame'.regs = call.regs
    BY <1>9, <2>1, <2>2, SaveCalleeFrame, TypeFacts, RegsEqual DEF Regs
  <2>4. Frame' = [pc |-> call.upc, regs |-> call.regs]
    BY <1>9, <2>1, <2>2, <2>3, SaveCalleeFrame DEF Frames
  <2> QED
    BY <1>9, <2>1, <2>4 DEF SaveCallee, csrs, history
<1>10. CASE SyscallEntry
  BY <1>10, Dispatch DEF SyscallEntry, csrs, history, Frame
<1>11. CASE SysXputc
  BY <1>11 DEF SysXputc, Goto, csrs, history, Frame
<1>12. CASE SysThreadCreate
  BY <1>12 DEF SysThreadCreate, Goto, csrs, history, Frame
<1>13. CASE Halt
  BY <1>13 DEF Halt, vars, csrs, history, Frame
<1>14. CASE SyscallReturn
  BY <1>14 DEF SyscallReturn, Goto, csrs, history
<1>15. CASE IllegalSyscall
  BY <1>15 DEF IllegalSyscall, Goto, csrs, history
<1>16. CASE TrapExit
  BY <1>16 DEF TrapExit, Goto, csrs, history
<1>17. CASE RestorePc
  BY <1>17 DEF RestorePc, Goto, csrs, history
<1>18. CASE RestoreCaller
  BY <1>18 DEF RestoreCaller, Goto, csrs, history
<1>19. CASE Sret
  BY <1>19 DEF Sret, Goto, csrs, history
<1>20. CASE UNCHANGED vars
  BY <1>20 DEF vars, csrs, history, Frame
<1> QED
  BY <1>1, <1>2, <1>3, <1>4, <1>5, <1>6, <1>7, <1>8, <1>9, <1>10, <1>11, <1>12, <1>13,
     <1>14, <1>15, <1>16, <1>17, <1>18, <1>19, <1>20 DEF Next

\* The handler is the one of the call, with its argument.
LEMMA DispatchInvStep ==
  ASSUME IInv, [Next]_vars
  PROVE  DispatchInv'
<1> USE TrapsAssumption DEF IInv, DispatchInv, SaveLabels, SysLabels, ExitLabels,
        KernelLabels, EXIT, XPUTC, THREAD_CREATE, SYSCALL_COUNT, XOS_ERR_NOT_SUPPORTED
<1>1. CASE StartUserProgram
  BY <1>1 DEF StartUserProgram, Goto, csrs, history
<1>2. CASE UserModeEntry
  BY <1>2 DEF UserModeEntry, Goto, csrs, history
<1>3. CASE UserCompute
  BY <1>3 DEF UserCompute, csrs, history
<1>4. CASE Ecall
  BY <1>4 DEF Ecall, Trap, csrs, history
<1>5. CASE Fault
  BY <1>5 DEF Fault, Trap, csrs, history
<1>6. CASE SwapStack
  BY <1>6 DEF SwapStack, Goto, csrs, history
<1>7. CASE SaveCaller
  BY <1>7 DEF SaveCaller, Goto, csrs, history
<1>8. CASE SavePcSp
  BY <1>8 DEF SavePcSp, Goto, csrs, history
<1>9. CASE SaveCallee
  <2>1. reg'.t0 = reg.t0 /\ reg'.a0 = reg.a0
    BY <1>9, TypeFacts DEF SaveCallee, csrs, history, Regs
  <2> QED
    BY <1>9, <2>1 DEF SaveCallee, csrs, history, SaveInv
<1>10. CASE SyscallEntry
  BY <1>10, Dispatch DEF SyscallEntry, csrs, history
<1>11. CASE SysXputc
  <2>1. pc' = "syscall_return" /\ call' = call /\ call.regs.t0 = XPUTC
    BY <1>11 DEF SysXputc, Goto, csrs, history
  <2> QED
    BY <2>1
<1>12. CASE SysThreadCreate
  BY <1>12, TypeFacts DEF SysThreadCreate, Goto, csrs, history, Regs
<1>13. CASE Halt
  BY <1>13 DEF Halt, vars, csrs, history
<1>14. CASE SyscallReturn
  BY <1>14 DEF SyscallReturn, Goto, csrs, history
<1>15. CASE IllegalSyscall
  BY <1>15 DEF IllegalSyscall, Goto, csrs, history
<1>16. CASE TrapExit
  BY <1>16 DEF TrapExit, Goto, csrs, history
<1>17. CASE RestorePc
  BY <1>17 DEF RestorePc, Goto, csrs, history
<1>18. CASE RestoreCaller
  BY <1>18 DEF RestoreCaller, Goto, csrs, history
<1>19. CASE Sret
  BY <1>19 DEF Sret, Goto, csrs, history
<1>20. CASE UNCHANGED vars
  BY <1>20 DEF vars, csrs, history
<1> QED
  BY <1>1, <1>2, <1>3, <1>4, <1>5, <1>6, <1>7, <1>8, <1>9, <1>10, <1>11, <1>12, <1>13,
     <1>14, <1>15, <1>16, <1>17, <1>18, <1>19, <1>20 DEF Next

\* What is restored is what the program will resume with.
LEMMA RestoreInvStep ==
  ASSUME IInv, [Next]_vars
  PROVE  RestoreInv'
<1> USE TrapsAssumption DEF IInv, RestoreInv, SaveLabels, SysLabels, ExitLabels,
        KernelLabels, EXIT, XPUTC, THREAD_CREATE, SYSCALL_COUNT, XOS_ERR_NOT_SUPPORTED
<1>1. CASE StartUserProgram
  <2>1. Frame'.pc = 0
    BY <1>1, StartFrame
  <2> QED
    BY <1>1, <2>1 DEF StartUserProgram, Goto, csrs, history, CauseInv
<1>2. CASE UserModeEntry
  <2>1. Frame' = Frame /\ call' = call /\ pc' = "trap_exit" /\ call.cause = "none"
    BY <1>2 DEF UserModeEntry, Goto, csrs, history, CauseInv, Frame
  <2>2. Frame.pc = 0
    BY <1>2, <2>1 DEF UserModeEntry, Goto, csrs, history
  <2> QED
    BY <2>1, <2>2
<1>3. CASE UserCompute
  <2>1. upc \in Nat /\ upc % 2 = 0 /\ upc' = upc + 1 /\ pc' = "user"
    BY <1>3 DEF UserCompute, csrs, history, TypeOK, Code
  <2>2. upc' % 2 = 1
    BY <2>1
  <2> QED
    BY <2>1, <2>2
<1>4. CASE Ecall
  BY <1>4 DEF Ecall, Trap, csrs, history
<1>5. CASE Fault
  BY <1>5 DEF Fault, Trap, csrs, history
<1>6. CASE SwapStack
  BY <1>6 DEF SwapStack, Goto, csrs, history
<1>7. CASE SaveCaller
  BY <1>7 DEF SaveCaller, Goto, csrs, history
<1>8. CASE SavePcSp
  BY <1>8 DEF SavePcSp, Goto, csrs, history
<1>9. CASE SaveCallee
  BY <1>9 DEF SaveCallee, csrs, history
<1>10. CASE SyscallEntry
  BY <1>10, Dispatch DEF SyscallEntry, csrs, history
<1>11. CASE SysXputc
  BY <1>11 DEF SysXputc, Goto, csrs, history
<1>12. CASE SysThreadCreate
  BY <1>12 DEF SysThreadCreate, Goto, csrs, history
<1>13. CASE Halt
  BY <1>13 DEF Halt, vars, csrs, history
<1>14. CASE SyscallReturn
  <2>1. call' = call /\ Frame'.pc = call.upc + 1
    BY <1>14, SyscallReturnFrame DEF SyscallReturn, Goto, csrs, history
  <2>2. Frame'.regs = [call.regs EXCEPT !.a0 = reg.a0] /\ Frame'.regs.a0 = reg.a0
    BY <1>14, SyscallReturnFrame, TypeFacts DEF Regs
  <2>3. /\ call.regs.t0 \in {XPUTC, THREAD_CREATE}
        /\ call.regs.t0 = THREAD_CREATE => reg.a0 = XOS_ERR_NOT_SUPPORTED
    BY <1>14 DEF SyscallReturn, Goto, csrs, history, DispatchInv
  <2>4. Resumes(Frame.regs, Frame.pc)'
    BY <2>1, <2>2, <2>3 DEF Resumes
  <2>5. call.cause # "none" /\ pc' = "trap_exit"
    BY <1>14 DEF SyscallReturn, Goto, csrs, history, CauseInv
  <2> QED
    BY <2>1, <2>4, <2>5
<1>15. CASE IllegalSyscall
  <2>1. call' = call /\ Frame'.pc = call.upc
    BY <1>15, IllegalSyscallFrame DEF IllegalSyscall, Goto, csrs, history
  <2>2. /\ Frame'.regs = [call.regs EXCEPT !.a0 = XOS_ERR_BAD_SYSCALL]
        /\ Frame'.regs.a0 = XOS_ERR_BAD_SYSCALL
    BY <1>15, IllegalSyscallFrame, TypeFacts DEF Regs
  <2>3. call.regs.t0 >= SYSCALL_COUNT
    BY <1>15 DEF IllegalSyscall, Goto, csrs, history, DispatchInv
  <2>4. Resumes(Frame.regs, Frame.pc)'
    BY <2>1, <2>2, <2>3 DEF Resumes
  <2>5. call.cause # "none" /\ pc' = "trap_exit"
    BY <1>15 DEF IllegalSyscall, Goto, csrs, history, CauseInv
  <2> QED
    BY <2>1, <2>4, <2>5
<1>16. CASE TrapExit
  <2>1. Frame' = Frame /\ call' = call /\ pc' = "restore_pc" /\ reg.sp = KTop - 1
    BY <1>16 DEF TrapExit, Goto, csrs, history, StackInv, Frame
  <2>2. reg'.sav = Frame.regs.sav /\ reg'.tp = Frame.regs.tp
    BY <1>16, <2>1, TypeFacts DEF TrapExit, Goto, csrs, history, Frame, Regs
  <2>3. IF call.cause = "none" THEN Frame.pc = 0 ELSE Resumes(Frame.regs, Frame.pc)
    BY <1>16 DEF TrapExit, Goto, csrs, history
  <2> QED
    BY <2>1, <2>2, <2>3 DEF Resumes
<1>17. CASE RestorePc
  <2>1. Frame' = Frame /\ call' = call /\ pc' = "restore_caller" /\ reg.sp = KTop - 1
    BY <1>17 DEF RestorePc, Goto, csrs, history, StackInv, Frame
  <2>2. reg'.sav = reg.sav /\ reg'.tp = reg.tp
    BY <1>17, TypeFacts DEF RestorePc, Goto, csrs, history, Regs
  <2>3. sepc' = Frame.pc
    BY <1>17, <2>1 DEF RestorePc, Goto, csrs, history, Frame
  <2>4. /\ IF call.cause = "none" THEN Frame.pc = 0 ELSE Resumes(Frame.regs, Frame.pc)
        /\ reg.sav = Frame.regs.sav /\ reg.tp = Frame.regs.tp
    BY <1>17 DEF RestorePc, Goto, csrs, history
  <2> QED
    BY <2>1, <2>2, <2>3, <2>4 DEF Resumes
<1>18. CASE RestoreCaller
  <2>1. reg.sp = KTop - 1 /\ reg.sav = Frame.regs.sav /\ reg.tp = Frame.regs.tp
    BY <1>18 DEF RestoreCaller, Goto, csrs, history, StackInv
  <2>2. reg' = [reg EXCEPT !.t0 = Frame.regs.t0, !.a0 = Frame.regs.a0,
                           !.tmp = Frame.regs.tmp, !.sp = Frame.regs.sp]
    BY <1>18, <2>1 DEF RestoreCaller, Goto, csrs, history, Frame
  <2>3. reg' \in Regs
    BY <2>2, TypeFacts DEF Regs
  <2>4. reg' = Frame.regs
    BY <2>1, <2>2, <2>3, TypeFacts, RegsEqual DEF Regs
  <2>5. pc' = "sret" /\ call' = call /\ sepc' = sepc /\ sepc = Frame.pc
    BY <1>18 DEF RestoreCaller, Goto, csrs, history
  <2>6. IF call.cause = "none" THEN Frame.pc = 0 ELSE Resumes(Frame.regs, Frame.pc)
    BY <1>18 DEF RestoreCaller, Goto, csrs, history
  <2> QED
    BY <2>4, <2>5, <2>6 DEF Resumes
<1>19. CASE Sret
  <2>1. pc' = "user" /\ upc' = sepc /\ reg' = reg /\ call' = call
    BY <1>19 DEF Sret, Goto, csrs, history
  <2>2. IF call.cause = "none" THEN sepc = 0 ELSE Resumes(reg, sepc)
    BY <1>19 DEF Sret, Goto, csrs, history
  <2> QED
    BY <2>1, <2>2 DEF Resumes
<1>20. CASE UNCHANGED vars
  BY <1>20 DEF vars, csrs, history, Resumes, Frame
<1> QED
  BY <1>1, <1>2, <1>3, <1>4, <1>5, <1>6, <1>7, <1>8, <1>9, <1>10, <1>11, <1>12, <1>13,
     <1>14, <1>15, <1>16, <1>17, <1>18, <1>19, <1>20 DEF Next

\* The last call is exit, and a character is one.
LEMMA ProgramInvStep ==
  ASSUME IInv, [Next]_vars
  PROVE  ProgramInv'
<1> USE TrapsAssumption DEF IInv, ProgramInv, EXIT, XPUTC, THREAD_CREATE,
        SYSCALL_COUNT
<1>1. CASE StartUserProgram
  BY <1>1 DEF StartUserProgram, Goto, csrs, history
<1>2. CASE UserModeEntry
  BY <1>2 DEF UserModeEntry, Goto, csrs, history
<1>3. CASE UserCompute
  <2>1. PICK n \in IF upc = 2*MaxCalls - 2 THEN {EXIT} ELSE Numbers,
             a, t, s, p, h \in Words :
          reg' = [t0 |-> n, a0 |-> a, tmp |-> t, sav |-> s, sp |-> p, tp |-> h]
    BY <1>3 DEF UserCompute, csrs, history
  <2>2. reg'.t0 = n /\ reg'.a0 = a
    BY <2>1
  <2>3. upc \in Nat /\ upc % 2 = 0 /\ upc' = upc + 1 /\ upc < 2 * MaxCalls
    BY <1>3 DEF UserCompute, csrs, history, TypeOK, Code
  <2>4. upc' < 2 * MaxCalls
    BY <2>3
  <2>5. upc' = 2 * MaxCalls - 1 => n = EXIT
    BY <2>3
  <2> QED
    BY <1>3, <2>2, <2>4, <2>5 DEF UserCompute, csrs, history
<1>4. CASE Ecall
  BY <1>4 DEF Ecall, Trap, csrs, history
<1>5. CASE Fault
  BY <1>5 DEF Fault, Trap, csrs, history
<1>6. CASE SwapStack
  BY <1>6 DEF SwapStack, Goto, csrs, history
<1>7. CASE SaveCaller
  BY <1>7 DEF SaveCaller, Goto, csrs, history
<1>8. CASE SavePcSp
  BY <1>8 DEF SavePcSp, Goto, csrs, history
<1>9. CASE SaveCallee
  BY <1>9 DEF SaveCallee, csrs, history
<1>10. CASE SyscallEntry
  BY <1>10, Dispatch DEF SyscallEntry, csrs, history
<1>11. CASE SysXputc
  BY <1>11 DEF SysXputc, Goto, csrs, history
<1>12. CASE SysThreadCreate
  BY <1>12 DEF SysThreadCreate, Goto, csrs, history
<1>13. CASE Halt
  BY <1>13 DEF Halt, vars, csrs, history
<1>14. CASE SyscallReturn
  BY <1>14 DEF SyscallReturn, Goto, csrs, history
<1>15. CASE IllegalSyscall
  BY <1>15 DEF IllegalSyscall, Goto, csrs, history
<1>16. CASE TrapExit
  BY <1>16 DEF TrapExit, Goto, csrs, history
<1>17. CASE RestorePc
  BY <1>17 DEF RestorePc, Goto, csrs, history
<1>18. CASE RestoreCaller
  BY <1>18 DEF RestoreCaller, Goto, csrs, history
<1>19. CASE Sret
  <2>1. CASE call.cause = "none"
    BY <1>19, <2>1 DEF Sret, Goto, csrs, history, RestoreInv
  <2>2. CASE call.cause # "none"
    <3>1. Resumes(reg, sepc) /\ call.cause = "ECALL_UMODE"
      BY <1>19, <2>2 DEF Sret, Goto, csrs, history, RestoreInv, CauseInv, TypeOK
    <3>2. call.upc \in Code /\ call.upc % 2 = 1 /\ sepc \in Code
      BY <3>1 DEF CauseInv, TypeOK
    <3>3. reg.t0 = call.regs.t0
      BY <3>1, TypeFacts DEF Resumes, Regs
    <3>4. call.regs.t0 # EXIT
      BY <3>1 DEF Resumes
    <3>5. call.upc # 2 * MaxCalls - 1
      BY <3>1, <3>4
    <3>6. CASE sepc = call.upc + 1
      <4>1. sepc < 2 * MaxCalls /\ sepc % 2 = 0
        BY <3>2, <3>5, <3>6 DEF Code
      <4> QED
        BY <1>19, <4>1 DEF Sret, Goto, csrs, history
    <3>7. CASE sepc = call.upc /\ call.regs.t0 >= SYSCALL_COUNT
      <4>1. sepc < 2 * MaxCalls
        BY <3>2, <3>5, <3>7 DEF Code
      <4>2. reg.t0 # XPUTC
        BY <3>3, <3>7
      <4> QED
        BY <1>19, <3>5, <3>7, <4>1, <4>2 DEF Sret, Goto, csrs, history
    <3> QED
      BY <3>1, <3>6, <3>7 DEF Resumes
  <2> QED
    BY <2>1, <2>2
<1>20. CASE UNCHANGED vars
  BY <1>20 DEF vars, csrs, history
<1> QED
  BY <1>1, <1>2, <1>3, <1>4, <1>5, <1>6, <1>7, <1>8, <1>9, <1>10, <1>11, <1>12, <1>13,
     <1>14, <1>15, <1>16, <1>17, <1>18, <1>19, <1>20 DEF Next

\* At most the character of the call under way is missing.
LEMMA OutputInvStep ==
  ASSUME IInv, [Next]_vars
  PROVE  OutputInv'
<1> USE TrapsAssumption DEF IInv, OutputInv, Printing, SaveLabels, EXIT, XPUTC,
        THREAD_CREATE, SYSCALL_COUNT, XOS_ERR_NOT_SUPPORTED
<1>1. CASE StartUserProgram
  BY <1>1 DEF StartUserProgram, Goto, csrs, history
<1>2. CASE UserModeEntry
  BY <1>2 DEF UserModeEntry, Goto, csrs, history
<1>3. CASE UserCompute
  BY <1>3 DEF UserCompute, csrs, history
<1>4. CASE Ecall
  <2>1. /\ pc' = "trap_entry" /\ out' = out /\ sent = out
        /\ call'.regs = reg /\ call'.cause = "ECALL_UMODE"
    BY <1>4 DEF Ecall, Trap, csrs, history
  <2>2. sent' = IF reg.t0 = XPUTC THEN Append(sent, reg.a0) ELSE sent
    BY <1>4 DEF Ecall, Trap, csrs, history
  <2> QED
    BY <2>1, <2>2
<1>5. CASE Fault
  BY <1>5 DEF Fault, Trap, csrs, history
<1>6. CASE SwapStack
  BY <1>6 DEF SwapStack, Goto, csrs, history
<1>7. CASE SaveCaller
  BY <1>7 DEF SaveCaller, Goto, csrs, history
<1>8. CASE SavePcSp
  BY <1>8 DEF SavePcSp, Goto, csrs, history
<1>9. CASE SaveCallee
  BY <1>9 DEF SaveCallee, csrs, history, CauseInv
<1>10. CASE SyscallEntry
  <2>1. reg.t0 = call.regs.t0
    BY <1>10 DEF SyscallEntry, csrs, history, DispatchInv
  <2> QED
    BY <1>10, <2>1, Dispatch DEF SyscallEntry, csrs, history
<1>11. CASE SysXputc
  BY <1>11 DEF SysXputc, Goto, csrs, history, CauseInv, SysLabels, DispatchInv
<1>12. CASE SysThreadCreate
  BY <1>12 DEF SysThreadCreate, Goto, csrs, history
<1>13. CASE Halt
  BY <1>13 DEF Halt, vars, csrs, history
<1>14. CASE SyscallReturn
  BY <1>14 DEF SyscallReturn, Goto, csrs, history
<1>15. CASE IllegalSyscall
  BY <1>15 DEF IllegalSyscall, Goto, csrs, history
<1>16. CASE TrapExit
  BY <1>16 DEF TrapExit, Goto, csrs, history
<1>17. CASE RestorePc
  BY <1>17 DEF RestorePc, Goto, csrs, history
<1>18. CASE RestoreCaller
  BY <1>18 DEF RestoreCaller, Goto, csrs, history
<1>19. CASE Sret
  BY <1>19 DEF Sret, Goto, csrs, history
<1>20. CASE UNCHANGED vars
  BY <1>20 DEF vars, csrs, history
<1> QED
  BY <1>1, <1>2, <1>3, <1>4, <1>5, <1>6, <1>7, <1>8, <1>9, <1>10, <1>11, <1>12, <1>13,
     <1>14, <1>15, <1>16, <1>17, <1>18, <1>19, <1>20 DEF Next

-----------------------------------------------------------------------------
(* The theorems.                                                           *)

\* The initial states satisfy the inductive invariant.
LEMMA InitInv == Init => IInv
<1> SUFFICES ASSUME Init PROVE IInv
  OBVIOUS
<1>1. TypeOK
  BY TrapsAssumption, ValueFacts DEF Init, TypeOK, Zeroed, NoReg, Regs, Code
<1>2. StackInv /\ CauseInv /\ SaveInv /\ DispatchInv
  BY DEF Init, StackInv, CauseInv, SaveInv, DispatchInv, SaveLabels, SysLabels,
         ExitLabels, KernelLabels
<1>3. RestoreInv /\ ProgramInv
  BY TrapsAssumption DEF Init, RestoreInv, ProgramInv, ExitLabels
<1>4. OutputInv
  BY DEF Init, OutputInv, Printing, SaveLabels
<1> QED
  BY <1>1, <1>2, <1>3, <1>4 DEF IInv

\* Every step keeps it.
LEMMA NextInv == IInv /\ [Next]_vars => IInv'
BY TypeOKStep, StackInvStep, CauseInvStep, SaveInvStep, DispatchInvStep,
   RestoreInvStep, ProgramInvStep, OutputInvStep DEF IInv

\* IInv holds in every reachable state.
LEMMA Invariance == Spec => []IInv
BY InitInv, NextInv, PTL DEF Spec

(* Every register, CSR, frame and program counter keeps its type, for any  *)
(* stack, program and number of calls.                                     *)
THEOREM TypeCorrect == Spec => []TypeOK
<1>1. IInv => TypeOK
  BY DEF IInv
<1> QED
  BY <1>1, Invariance, PTL

(* trap_entry and trap_exit keep the kernel on its own stack and the       *)
(* program in user mode, whatever the program puts in sp and tp.           *)
THEOREM StackSafety == Spec => []KernelStackOwned
<1>1. IInv => KernelStackOwned
  BY DEF IInv, StackInv, KernelStackOwned
<1> QED
  BY <1>1, Invariance, PTL

(* A served system call gives the program back every register but a0, and  *)
(* the result in a0, whatever the registers held.                          *)
THEOREM RegisterSafety == Spec => []RegistersPreserved
<1>1. IInv => RegistersPreserved
  <2> SUFFICES ASSUME IInv PROVE RegistersPreserved
    OBVIOUS
  <2> USE DEF IInv
  <2>1. ASSUME pc = "user", call.cause = "ECALL_UMODE", upc % 2 = 0
        PROVE  \E r \in Value : reg = [call.regs EXCEPT !.a0 = r]
    <3>1. reg = [call.regs EXCEPT !.a0 = reg.a0]
      BY <2>1 DEF RestoreInv, Resumes
    <3>2. reg.a0 \in Value
      BY TypeFacts DEF Regs
    <3> QED
      BY <3>1, <3>2
  <2>2. ASSUME Returned(THREAD_CREATE) PROVE reg.a0 = XOS_ERR_NOT_SUPPORTED
    <3>1. /\ pc = "user" /\ call.cause = "ECALL_UMODE" /\ call.regs.t0 = THREAD_CREATE
          /\ upc = call.upc + 1 /\ call.upc % 2 = 1 /\ call.upc \in Nat
      BY <2>2 DEF Returned, CauseInv, TypeOK, Code
    <3>2. upc % 2 = 0
      BY <3>1
    <3>3. Resumes(reg, upc)
      BY <3>1, <3>2 DEF RestoreInv
    <3> QED
      BY <3>1, <3>3 DEF Resumes, THREAD_CREATE, SYSCALL_COUNT
  <2> QED
    BY <2>1, <2>2 DEF RegistersPreserved
<1> QED
  BY <1>1, Invariance, PTL

(* The serial port gets the characters of the xputc calls, each once and   *)
(* in order, for any number of calls.                                      *)
THEOREM OutputSafety == Spec => []OutputExact
<1>1. IInv => OutputExact
  <2> SUFFICES ASSUME IInv PROVE OutputExact
    OBVIOUS
  <2>1. CASE Printing
    <3>1. pc # "user" /\ call.regs.a0 \in Words
      BY <2>1 DEF IInv, Printing, ProgramInv, SaveLabels
    <3> QED
      BY <2>1, <3>1 DEF IInv, OutputInv, OutputExact
  <2>2. CASE ~Printing
    BY <2>2 DEF IInv, OutputInv, OutputExact
  <2> QED
    BY <2>1, <2>2
<1> QED
  BY <1>1, Invariance, PTL
===============================================================================
