------------------------------- MODULE XosTraps -------------------------------
(***************************************************************************)
(* System calls and exceptions of X/OS: trap_entry, syscall_entry,         *)
(* trap_exit and user_mode_entry of xos/src/entry.S, the handlers of       *)
(* xos/src/kernel.c and the call stubs of xos/lib/syscalls.S.              *)
(*                                                                         *)
(* One user program runs.  An address counts frames: KTop is the top of    *)
(* the kernel stack, where the thread_t is, and KTop-1 the eframe_t below  *)
(* it.  Registers are kept as t0 (call number), a0 (argument and result),  *)
(* tmp (the other caller-saved ones and ra), sav (gp and s0-s11), sp, tp.  *)
(* The kernel enables no interrupt source, so traps are ecalls and faults  *)
(* of the user program.                                                    *)
(***************************************************************************)
EXTENDS Integers, Sequences

CONSTANTS
  KTop,       \* address of the thread_t
  Words,      \* what a user program may put in a register
  Numbers,    \* call numbers a user program may use, legal or not
  MaxCalls    \* bound on the calls of a user program; the last one is exit

SYSCALL_COUNT == 3
EXIT == 0
XPUTC == 1
THREAD_CREATE == 2
XOS_ERR_NOT_SUPPORTED == 131
XOS_ERR_BAD_SYSCALL == 70

ASSUME TrapsAssumption ==
  /\ KTop \in Nat \ {0, 1} /\ MaxCalls \in Nat \ {0}
  /\ Words \subseteq 1..KTop /\ KTop \in Words /\ Numbers \subseteq Nat
  /\ {EXIT, XPUTC, THREAD_CREATE} \subseteq Numbers

VARIABLES
  pc,        \* next step of the kernel; "user" in user mode
  upc,       \* the program counter of the user program
  mode, spp, \* privilege mode, and sstatus.SPP
  sepc, scause, sscratch,
  reg,       \* the registers
  mem,       \* eframe_t at each address
  out,       \* characters sent to the serial port
  call,      \* history: the registers and upc at the last trap
  sent       \* history: characters of the xputc calls made

csrs    == <<mode, spp, sepc, scause, sscratch>>
history == <<call, sent>>
vars    == <<pc, upc, csrs, reg, mem, out, history>>

Junk  == 0          \* a register nobody relies on
Code  == 0..2*MaxCalls
NoReg == [t0 |-> Junk, a0 |-> Junk, tmp |-> Junk, sav |-> Junk, sp |-> Junk,
          tp |-> Junk]
Zeroed == [pc |-> 0, regs |-> NoReg]

UserStack == KTop        \* eframe.sp at the start, a user address

\* SPP and sscratch are whatever the boot loader left.
Init ==
  /\ pc = "start_user_program" /\ upc = 0
  /\ mode = "S" /\ spp \in {"S", "U"}
  /\ sepc = 0 /\ scause = "none" /\ sscratch \in Words
  /\ reg = NoReg
  /\ mem = [a \in 0..KTop |-> Zeroed]
  /\ out = <<>>
  /\ call = [regs |-> NoReg, upc |-> 0, cause |-> "none"] /\ sent = <<>>

Goto(from, to) == pc = from /\ pc' = to

-----------------------------------------------------------------------------
(* kernel.c: the tail of start_user_program().                             *)

StartUserProgram ==
  /\ Goto("start_user_program", "user_mode_entry")
  /\ mem' = [mem EXCEPT ![KTop - 1] =
               [pc |-> 0, regs |-> [NoReg EXCEPT !.sp = UserStack]]]
  /\ spp' = "U"
  /\ reg' = [reg EXCEPT !.a0 = KTop - 1]
  /\ UNCHANGED <<upc, mode, sepc, scause, sscratch, out, history>>

UserModeEntry ==
  /\ Goto("user_mode_entry", "trap_exit")
  /\ reg' = [reg EXCEPT !.sp = reg.a0, !.tp = reg.a0 + 1]
  /\ UNCHANGED <<upc, csrs, mem, out, history>>

-----------------------------------------------------------------------------
(* The user program: at an even upc it computes and puts anything in its   *)
(* registers, at an odd one it executes ecall (addi t0, x0, n; ecall).     *)

UserCompute ==
  /\ pc = "user" /\ upc % 2 = 0
  /\ upc' = upc + 1
  /\ \E n \in IF upc = 2*MaxCalls - 2 THEN {EXIT} ELSE Numbers,
        a, t, s, p, h \in Words :
       reg' = [t0 |-> n, a0 |-> a, tmp |-> t, sav |-> s, sp |-> p, tp |-> h]
  /\ UNCHANGED <<pc, csrs, mem, out, history>>

\* The hardware takes a trap from user mode.
Trap(cause) ==
  /\ pc = "user"
  /\ pc' = "trap_entry"
  /\ sepc' = upc /\ scause' = cause /\ spp' = mode /\ mode' = "S"
  /\ call' = [regs |-> reg, upc |-> upc, cause |-> cause]
  /\ UNCHANGED <<upc, sscratch, reg, mem, out>>

Ecall ==
  /\ upc % 2 = 1
  /\ Trap("ECALL_UMODE")
  /\ sent' = IF reg.t0 = XPUTC THEN Append(sent, reg.a0) ELSE sent

\* Any other exception of the user program.
Fault == upc % 2 = 0 /\ Trap("fault") /\ UNCHANGED sent

-----------------------------------------------------------------------------
(* entry.S: trap_entry.                                                    *)

\* csrrw sp, sscratch, sp; addi sp, sp, -128
SwapStack ==
  /\ Goto("trap_entry", "save_caller")
  /\ sscratch' = reg.sp
  /\ reg' = [reg EXCEPT !.sp = sscratch - 1]
  /\ UNCHANGED <<upc, mode, spp, sepc, scause, mem, out, history>>

SaveCaller ==
  /\ Goto("save_caller", "save_pc_sp")
  /\ mem' = [mem EXCEPT ![reg.sp].regs =
               [@ EXCEPT !.t0 = reg.t0, !.a0 = reg.a0, !.tmp = reg.tmp]]
  /\ UNCHANGED <<upc, csrs, reg, out, history>>

\* Mutant of SavePcSp: sp itself is saved, not the one in sscratch.
SavePcKernelSp ==
  /\ Goto("save_pc_sp", "save_callee")
  /\ mem' = [mem EXCEPT ![reg.sp].pc = sepc, ![reg.sp].regs.sp = reg.sp]
  /\ reg' = [reg EXCEPT !.tmp = Junk]
  /\ UNCHANGED <<upc, csrs, out, history>>

\* Mutant of SavePcSp: a0 is used as the temporary.
SavePcSpThroughA0 ==
  /\ Goto("save_pc_sp", "save_callee")
  /\ mem' = [mem EXCEPT ![reg.sp].pc = sepc, ![reg.sp].regs.sp = sscratch]
  /\ reg' = [reg EXCEPT !.a0 = sscratch]
  /\ UNCHANGED <<upc, csrs, out, history>>

\* Through t1 and t2; t0 is left alone, it holds the call number.
SavePcSp ==
  /\ Goto("save_pc_sp", "save_callee")
  /\ mem' = [mem EXCEPT ![reg.sp].pc = sepc, ![reg.sp].regs.sp = sscratch]
  /\ reg' = [reg EXCEPT !.tmp = Junk]
  /\ UNCHANGED <<upc, csrs, out, history>>

\* Then tp = sp + 128 and the branch on scause.
SaveCallee ==
  /\ pc = "save_callee"
  /\ mem' = [mem EXCEPT ![reg.sp].regs =
               [@ EXCEPT !.sav = reg.sav, !.tp = reg.tp]]
  /\ reg' = [reg EXCEPT !.tp = reg.sp + 1]
  /\ pc' = IF scause = "ECALL_UMODE" THEN "syscall_entry"
                                     ELSE "exception_handler"
  /\ UNCHANGED <<upc, csrs, out, history>>

-----------------------------------------------------------------------------
(* The table and the handlers.  A C function leaves anything in the        *)
(* caller-saved registers and keeps the others.                            *)

Handler(n) == CASE n = EXIT -> "sys_exit"
                [] n = XPUTC -> "sys_xputc"
                [] n = THREAD_CREATE -> "sys_thread_create"

\* t0 is spent on the address of the table's entry.
SyscallEntry ==
  /\ pc = "syscall_entry"
  /\ LET illegal == reg.t0 >= SYSCALL_COUNT
     IN  /\ pc' = IF illegal THEN "illegal_syscall" ELSE Handler(reg.t0)
         /\ reg' = [reg EXCEPT !.t0 = IF illegal THEN @ ELSE Junk, !.tmp = Junk]
  /\ UNCHANGED <<upc, csrs, mem, out, history>>

\* void: what a0 holds on return is not specified.
SysXputc ==
  /\ Goto("sys_xputc", "syscall_return")
  /\ out' = Append(out, reg.a0)
  /\ \E w \in Words : reg' = [reg EXCEPT !.t0 = w, !.a0 = w, !.tmp = w]
  /\ UNCHANGED <<upc, csrs, mem, history>>

SysThreadCreate ==
  /\ Goto("sys_thread_create", "syscall_return")
  /\ reg' = [reg EXCEPT !.a0 = XOS_ERR_NOT_SUPPORTED]
  /\ UNCHANGED <<upc, csrs, mem, out, history>>

\* for (;;) ; in sys_exit and exception_handler.
Halt ==
  /\ pc \in {"sys_exit", "exception_handler"}
  /\ UNCHANGED vars

\* Mutant of SyscallReturn: user.pc is not advanced.
SyscallReturnSamePc ==
  /\ Goto("syscall_return", "trap_exit")
  /\ mem' = [mem EXCEPT ![reg.sp].regs.a0 = reg.a0]
  /\ UNCHANGED <<upc, csrs, reg, out, history>>

\* a0 goes to user.a0, user.pc += 4.
SyscallReturn ==
  /\ Goto("syscall_return", "trap_exit")
  /\ mem' = [mem EXCEPT ![reg.sp].regs.a0 = reg.a0, ![reg.sp].pc = @ + 1]
  /\ UNCHANGED <<upc, csrs, reg, out, history>>

IllegalSyscall ==
  /\ Goto("illegal_syscall", "trap_exit")
  /\ mem' = [mem EXCEPT ![reg.sp].regs.a0 = XOS_ERR_BAD_SYSCALL]
  /\ UNCHANGED <<upc, csrs, reg, out, history>>

-----------------------------------------------------------------------------
(* entry.S: trap_exit.                                                     *)

\* Mutant of TrapExit: tp is reloaded before it goes to sscratch.
TrapExitTpFirst ==
  /\ Goto("trap_exit", "restore_pc")
  /\ sscratch' = mem[reg.sp].regs.tp
  /\ reg' = [reg EXCEPT !.sav = mem[reg.sp].regs.sav,
                        !.tp = mem[reg.sp].regs.tp]
  /\ UNCHANGED <<upc, mode, spp, sepc, scause, mem, out, history>>

\* csrw sscratch, tp comes before tp is reloaded.
TrapExit ==
  /\ Goto("trap_exit", "restore_pc")
  /\ sscratch' = reg.tp
  /\ reg' = [reg EXCEPT !.sav = mem[reg.sp].regs.sav,
                        !.tp = mem[reg.sp].regs.tp]
  /\ UNCHANGED <<upc, mode, spp, sepc, scause, mem, out, history>>

RestorePc ==
  /\ Goto("restore_pc", "restore_caller")
  /\ sepc' = mem[reg.sp].pc
  /\ reg' = [reg EXCEPT !.tmp = Junk]
  /\ UNCHANGED <<upc, mode, spp, scause, sscratch, mem, out, history>>

\* sp is the last register loaded through sp.
RestoreCaller ==
  /\ Goto("restore_caller", "sret")
  /\ LET f == mem[reg.sp].regs
     IN reg' = [reg EXCEPT !.t0 = f.t0, !.a0 = f.a0, !.tmp = f.tmp,
                           !.sp = f.sp]
  /\ UNCHANGED <<upc, csrs, mem, out, history>>

Sret ==
  /\ Goto("sret", "user")
  /\ upc' = sepc /\ mode' = spp /\ spp' = "U"
  /\ UNCHANGED <<sepc, scause, sscratch, reg, mem, out, history>>

-----------------------------------------------------------------------------
Next == StartUserProgram \/ UserModeEntry \/ UserCompute \/ Ecall \/ Fault \/
        SwapStack \/ SaveCaller \/ SavePcSp \/ SaveCallee \/ SyscallEntry \/
        SysXputc \/ SysThreadCreate \/ Halt \/ SyscallReturn \/
        IllegalSyscall \/ TrapExit \/ RestorePc \/ RestoreCaller \/ Sret

Spec == Init /\ [][Next]_vars

\* The hart keeps executing.
FairSpec == Spec /\ WF_vars(Next)

-----------------------------------------------------------------------------
(* Properties.                                                             *)

Value == Words \cup Numbers \cup
         {Junk, KTop - 1, XOS_ERR_NOT_SUPPORTED, XOS_ERR_BAD_SYSCALL}
Regs  == [t0 : Value, a0 : Value, tmp : Value, sav : Value, sp : Value,
          tp : Value]
KernelLabels == {"syscall_entry", "sys_exit", "sys_xputc", "sys_thread_create",
                 "exception_handler", "syscall_return", "illegal_syscall",
                 "trap_exit"}

TypeOK ==
  /\ pc \in KernelLabels \cup
            {"start_user_program", "user_mode_entry", "user", "trap_entry",
             "save_caller", "save_pc_sp", "save_callee", "restore_pc",
             "restore_caller", "sret"}
  /\ upc \in Code /\ sepc \in Code
  /\ mode \in {"S", "U"} /\ spp \in {"S", "U"}
  /\ scause \in {"none", "ECALL_UMODE", "fault"} /\ sscratch \in Value
  /\ reg \in Regs
  /\ mem \in [0..KTop -> [pc : Code, regs : Regs]]
  /\ out \in Seq(Words) /\ sent \in Seq(Words)
  /\ call \in [regs : Regs, upc : Code, cause : {"none", "ECALL_UMODE", "fault"}]

(* Whatever the program keeps in sp and tp, the kernel runs on its own     *)
(* stack with tp at the thread_t, user code runs in user mode with the     *)
(* kernel stack parked in sscratch, and the only frame the kernel writes   *)
(* is the one at the top of that stack.                                    *)
KernelStackOwned ==
  /\ pc \in KernelLabels => reg.sp = KTop - 1 /\ reg.tp = KTop
  /\ pc = "user" => mode = "U" /\ sscratch = KTop
  /\ \A a \in 0..KTop \ {KTop - 1} : mem[a] = Zeroed

\* The program has come back from the system call n it made last.
Returned(n) ==
  /\ pc = "user" /\ call.cause = "ECALL_UMODE" /\ call.regs.t0 = n
  /\ upc = call.upc + 1

(* A system call the kernel serves comes back at the next instruction with *)
(* every register but a0 as it was, and a0 the result.                     *)
RegistersPreserved ==
  /\ pc = "user" /\ call.cause = "ECALL_UMODE" /\ upc % 2 = 0 =>
       \E r \in Value : reg = [call.regs EXCEPT !.a0 = r]
  /\ Returned(THREAD_CREATE) => reg.a0 = XOS_ERR_NOT_SUPPORTED

(* Each character handed to xputc reaches the serial port once, in order.  *)
OutputExact ==
  /\ pc = "user" => out = sent
  /\ pc # "user" => out = sent \/ \E w \in Words : sent = Append(out, w)

(* Every served call comes back, and exit does not.                        *)
CallsReturn ==
  /\ \A n \in {XPUTC, THREAD_CREATE} :
       \A u \in Code :
         (pc = "trap_entry" /\ call.regs.t0 = n /\ call.upc = u /\
          call.cause = "ECALL_UMODE") ~> (Returned(n) /\ upc = u + 1)
  /\ (pc = "trap_entry" /\ call.regs.t0 = EXIT /\ call.cause = "ECALL_UMODE")
       ~> [](pc = "sys_exit")

(* status.h: XOS_ERR_BAD_SYSCALL, "Invalid System Call Number": the result *)
(* of a call outside the table, which a program gets to see.               *)
IllegalCallsReturn ==
  \A u \in Code :
    (pc = "illegal_syscall" /\ call.upc = u) ~>
      (pc = "user" /\ upc = u + 1 /\ reg.a0 = XOS_ERR_BAD_SYSCALL)
===============================================================================
