----------------------------- MODULE ExampleTraps -----------------------------
(***************************************************************************)
(* The two trap entries of hw/src, each under the examples that use it:    *)
(* trap-entry-single-stack.S, which saves on the stack of the interrupted  *)
(* S-mode program, under ex01-timer.c (interrupts) and ex20-mmu.c (page    *)
(* faults), and trap-entry-dual-stack.S, which swaps sp with sscratch,     *)
(* under ex25-kernel.c (system calls of a user program).                   *)
(*                                                                         *)
(* An address counts eframe_t's up to Top.  Registers are t0, a0, tmp (the *)
(* other caller-saved ones), sav (gp, tp, s0-s11) and sp.  A program       *)
(* counter counts instructions.                                            *)
(***************************************************************************)
EXTENDS Integers, Sequences

CONSTANTS
  Top,       \* top of the stack the frames go to
  Words,     \* what a program may put in a register
  Numbers,   \* system call numbers the user program may use, legal or not
  MaxCalls,  \* bound on the system calls of the user program
  MaxTicks   \* bound on the wraps of the timer

SYS_EXIT == 0
SYS_XPUTC == 1

ASSUME ExampleAssumption ==
  /\ Top \in Nat \ {0, 1} /\ MaxCalls \in Nat \ {0} /\ MaxTicks \in Nat
  /\ Words \subseteq 1..Top /\ {SYS_EXIT, SYS_XPUTC} \subseteq Numbers

VARIABLES
  prog,            \* the example: "ex01", "ex20" or "ex25"
  pc,              \* next step of the trap code; "program" outside of it
  upc,             \* program counter of the program
  csr,             \* mode, sstatus (spp, spie, sie), sepc, scause, stval, sscratch
  reg, mem,        \* registers; the eframe_t at each address
  timer,           \* ex01: the timer's event, and whether it may interrupt
  ticks, clock,    \* ex01: the counter, and the time last printed
  expect,          \* ex20: expect_cause and expect_addr
  out, sent,       \* ex25: characters printed; history: those handed to xputc
  call             \* history: registers and upc at the last trap

ex01 == <<timer, ticks, clock>>
io   == <<ex01, expect, out, sent>>
vars == <<prog, pc, upc, csr, reg, mem, io, call>>

Junk == 0
NoReg == [t0 |-> Junk, a0 |-> Junk, tmp |-> Junk, sav |-> Junk, sp |-> Junk]
Dual == prog = "ex25"

Init ==
  /\ prog \in {"ex01", "ex20", "ex25"}
  /\ pc = IF Dual THEN "start_user_program" ELSE "program"
  /\ upc = 0
  /\ csr = [mode |-> "S", spp |-> "S", spie |-> FALSE, sie |-> FALSE, sepc |-> 0,
            scause |-> "none", stval |-> 0, sscratch |-> Junk]
  /\ reg = [NoReg EXCEPT !.sp = Top]
  /\ mem = [a \in 0..Top |-> [pc |-> 0, regs |-> NoReg]]
  /\ timer \in [event : BOOLEAN, irq : {FALSE}] /\ ticks = 0 /\ clock = 0
  /\ expect = <<"none", 0>> /\ out = <<>> /\ sent = <<>>
  /\ call = [regs |-> NoReg, upc |-> 0, cause |-> "none"]

Goto(from, to) == pc = from /\ pc' = to /\ UNCHANGED <<prog, call>>

-----------------------------------------------------------------------------
(* The programs.  At(p, n): the hart is about to execute instruction n.    *)

At(p, n) == /\ prog = p /\ pc = "program" /\ upc = n
            /\ UNCHANGED <<prog, pc, mem, call>>

\* External: the hart takes a trap.
Trap(cause, val) ==
  /\ pc = "program" /\ pc' = "trap_entry"
  /\ csr' = [csr EXCEPT !.mode = "S", !.spp = csr.mode, !.spie = csr.sie, !.sie = FALSE,
                        !.sepc = upc, !.scause = cause, !.stval = val]
  /\ call' = [regs |-> reg, upc |-> upc, cause |-> cause]
  /\ UNCHANGED <<prog, upc, reg, mem>>

\* ex01: irq_enable() comes before timer_init().
TimerStart ==
  \/ /\ At("ex01", 0) /\ upc' = 1
     /\ csr' = [csr EXCEPT !.sie = TRUE] /\ UNCHANGED <<reg, io>>
  \/ /\ At("ex01", 1) /\ upc' = 2
     /\ timer' = [event |-> FALSE, irq |-> TRUE]
     /\ UNCHANGED <<csr, reg, ticks, clock, expect, out, sent>>

\* now = ticks, through tmp, and the line on the terminal.
ShowTime ==
  \/ /\ At("ex01", 2) /\ upc' = 3
     /\ reg' = [reg EXCEPT !.tmp = ticks] /\ UNCHANGED <<csr, io>>
  \/ /\ At("ex01", 3) /\ upc' = 4
     /\ reg' = [reg EXCEPT !.sav = reg.tmp] /\ UNCHANGED <<csr, io>>
  \/ /\ At("ex01", 4) /\ upc' = 5
     /\ clock' = reg.sav
     /\ \E w \in Words : reg' = [reg EXCEPT !.t0 = w, !.a0 = w, !.tmp = w]
     /\ UNCHANGED <<csr, timer, ticks, expect, out, sent>>

\* while (now == ticks) ;
WaitForTick ==
  \/ /\ At("ex01", 5) /\ upc' = 6
     /\ reg' = [reg EXCEPT !.tmp = ticks] /\ UNCHANGED <<csr, io>>
  \/ /\ At("ex01", 6) /\ upc' = IF reg.tmp = reg.sav THEN 5 ELSE 2
     /\ UNCHANGED <<csr, reg, io>>

\* External: the timer wraps.
Wrap ==
  /\ prog = "ex01" /\ upc > 1 /\ ~timer.event /\ ticks < MaxTicks
  /\ timer' = [timer EXCEPT !.event = TRUE]
  /\ UNCHANGED <<prog, pc, upc, csr, reg, mem, ticks, clock, expect, out, sent, call>>

Interrupt == /\ csr.sie /\ timer.event /\ timer.irq
             /\ Trap("interrupt", 0) /\ UNCHANGED io

\* ex20: what the program expects before each of its two faulting accesses.
Faults == << <<"store_page_fault", 0>>, <<"load_page_fault", 1>> >>
Expect == /\ \E n \in {0, 2} : At("ex20", n) /\ expect' = Faults[n \div 2 + 1]
          /\ upc' = upc + 1
          /\ \E w \in Words : reg' = [t0 |-> w, a0 |-> w, tmp |-> w, sav |-> w, sp |-> Top]
          /\ UNCHANGED <<csr, ex01, out, sent>>

\* The accesses at 1 and 3, and the jump to an unmapped page that follows.
PageFault ==
  /\ prog = "ex20" /\ upc \in {1, 3, 4}
  /\ IF upc = 4 THEN Trap("inst_page_fault", 2)
                ELSE LET f == Faults[upc \div 2 + 1] IN Trap(f[1], f[2])
  /\ UNCHANGED io

\* ex25: the user program computes at an even upc and makes a call at an odd
\* one (li t0, n; ecall), or faults.
UserCompute ==
  /\ \E n \in 0..MaxCalls - 1 : At("ex25", 2 * n)
  /\ upc' = upc + 1
  /\ \E n \in IF upc = 2 * MaxCalls - 2 THEN {SYS_EXIT} ELSE Numbers, a, t, s, p \in Words :
       reg' = [t0 |-> n, a0 |-> a, tmp |-> t, sav |-> s, sp |-> p]
  /\ UNCHANGED <<csr, io>>

Ecall ==
  /\ Dual /\ upc % 2 = 1
  /\ Trap("ecall", 0)
  /\ sent' = IF reg.t0 = SYS_XPUTC THEN Append(sent, reg.a0) ELSE sent
  /\ UNCHANGED <<ex01, expect, out>>

UserFault == Dual /\ upc % 2 = 0 /\ Trap("load_page_fault", 0) /\ UNCHANGED io

-----------------------------------------------------------------------------
(* trap_entry and exception_entry.                                         *)

TrapEntry ==
  /\ Goto("trap_entry", "save")
  /\ reg' = [reg EXCEPT !.sp = (IF Dual THEN csr.sscratch ELSE reg.sp) - 1]
  /\ csr' = [csr EXCEPT !.sscratch = IF Dual THEN reg.sp ELSE @]
  /\ UNCHANGED <<upc, mem, io>>

\* t0 and t1 are used once they are saved.
SaveCaller ==
  /\ Goto("save", IF csr.scause = "interrupt" THEN "interrupt_handler" ELSE "exception_entry")
  /\ LET f == mem[reg.sp].regs
     IN  mem' = [mem EXCEPT ![reg.sp] =
           [pc |-> csr.sepc,
            regs |-> [f EXCEPT !.t0 = reg.t0, !.a0 = reg.a0, !.tmp = reg.tmp,
                               !.sp = IF Dual THEN csr.sscratch ELSE f.sp]]]
  /\ reg' = [reg EXCEPT !.t0 = Junk, !.tmp = Junk]
  /\ UNCHANGED <<upc, csr, io>>

ExceptionEntry ==
  /\ Goto("exception_entry", "exception_handler")
  /\ LET f == mem[reg.sp].regs
     IN  mem' = [mem EXCEPT ![reg.sp].regs =
           [f EXCEPT !.sav = reg.sav, !.sp = IF Dual THEN f.sp ELSE reg.sp + 1]]
  /\ reg' = [reg EXCEPT !.a0 = reg.sp]
  /\ UNCHANGED <<upc, csr, io>>

-----------------------------------------------------------------------------
(* The handlers.  A C function leaves anything in t0, a0 and tmp.          *)

Clobbered == \E w \in Words : reg' = [reg EXCEPT !.t0 = w, !.a0 = w, !.tmp = w]

\* Mutant of TimerHandler: the event is not acknowledged.
TimerHandlerNoAck ==
  /\ Goto("interrupt_handler", "trap_exit")
  /\ ticks' = IF ticks < MaxTicks THEN ticks + 1 ELSE ticks
  /\ Clobbered
  /\ UNCHANGED <<upc, csr, mem, timer, clock, expect, out, sent>>

TimerHandler ==
  /\ Goto("interrupt_handler", "trap_exit")
  /\ IF timer.event THEN timer' = [timer EXCEPT !.event = FALSE] /\ ticks' = ticks + 1
                    ELSE UNCHANGED <<timer, ticks>>
  /\ Clobbered
  /\ UNCHANGED <<upc, csr, mem, clock, expect, out, sent>>

\* Mutant of MmuHandler: any fault is stepped over.
MmuHandlerAnyFault ==
  /\ prog = "ex20"
  /\ Goto("exception_handler", "exception_exit")
  /\ mem' = [mem EXCEPT ![reg.a0].pc = @ + 1]
  /\ Clobbered
  /\ UNCHANGED <<upc, csr, io>>

\* An expected fault is stepped over, any other one halts.
MmuHandler ==
  /\ prog = "ex20"
  /\ LET expected == expect = <<csr.scause, csr.stval>>
     IN  /\ Goto("exception_handler", IF expected THEN "exception_exit" ELSE "halt")
         /\ mem' = IF expected THEN [mem EXCEPT ![reg.a0].pc = @ + 1] ELSE mem
  /\ Clobbered
  /\ UNCHANGED <<upc, csr, io>>

\* xputc is served; exit, an invalid number and any other exception halt.
KernelHandler ==
  /\ Dual
  /\ LET served == csr.scause = "ecall" /\ mem[reg.a0].regs.t0 = SYS_XPUTC
     IN  /\ Goto("exception_handler", IF served THEN "exception_exit" ELSE "halt")
         /\ out' = IF served THEN Append(out, mem[reg.a0].regs.a0) ELSE out
         /\ mem' = IF served THEN [mem EXCEPT ![reg.a0].pc = @ + 1] ELSE mem
  /\ Clobbered
  /\ UNCHANGED <<upc, csr, ex01, expect, sent>>

Halt == pc = "halt" /\ UNCHANGED vars

-----------------------------------------------------------------------------
(* exception_exit, trap_exit and, in ex25, the way into user mode.         *)

\* ef is the eframe_t at the top of the kernel stack; SPP is cleared.
StartUserProgram ==
  /\ Goto("start_user_program", "exception_exit")
  /\ mem' = [mem EXCEPT ![Top - 1] = [pc |-> 0, regs |-> [NoReg EXCEPT !.sp = Top]]]
  /\ csr' = [csr EXCEPT !.spp = "U"]
  /\ reg' = [reg EXCEPT !.sp = Top - 1]                  \* user_mode_entry
  /\ UNCHANGED <<upc, io>>

ExceptionExit ==
  /\ Goto("exception_exit", "trap_exit")
  /\ reg' = [reg EXCEPT !.sav = mem[reg.sp].regs.sav]
  /\ UNCHANGED <<upc, csr, mem, io>>

\* Mutant of TrapExit: the saved sp goes back to sscratch.
TrapExitUserScratch ==
  /\ Goto("trap_exit", "restore")
  /\ csr' = [csr EXCEPT !.sepc = mem[reg.sp].pc,
                        !.sscratch = IF Dual THEN mem[reg.sp].regs.sp ELSE @]
  /\ reg' = [reg EXCEPT !.t0 = Junk]
  /\ UNCHANGED <<upc, mem, io>>

TrapExit ==
  /\ Goto("trap_exit", "restore")
  /\ csr' = [csr EXCEPT !.sepc = mem[reg.sp].pc,
                        !.sscratch = IF Dual THEN reg.sp + 1 ELSE @]
  /\ reg' = [reg EXCEPT !.t0 = Junk]
  /\ UNCHANGED <<upc, mem, io>>

\* sp comes last: from the frame, or by releasing the frame.
Restore ==
  /\ Goto("restore", "sret")
  /\ LET f == mem[reg.sp].regs
     IN  reg' = [f EXCEPT !.sav = reg.sav, !.sp = IF Dual THEN f.sp ELSE reg.sp + 1]
  /\ UNCHANGED <<upc, csr, mem, io>>

Sret ==
  /\ Goto("sret", "program")
  /\ upc' = csr.sepc
  /\ csr' = [csr EXCEPT !.mode = csr.spp, !.spp = "U", !.sie = csr.spie, !.spie = TRUE]
  /\ UNCHANGED <<reg, mem, io>>

-----------------------------------------------------------------------------
Hart == \/ TimerStart \/ ShowTime \/ WaitForTick \/ Expect \/ PageFault
        \/ UserCompute \/ Ecall \/ UserFault
        \/ TrapEntry \/ SaveCaller \/ ExceptionEntry
        \/ TimerHandler \/ MmuHandler \/ KernelHandler \/ Halt
        \/ StartUserProgram \/ ExceptionExit \/ TrapExit \/ Restore \/ Sret

Next == Hart \/ Wrap \/ Interrupt

Spec == Init /\ [][Next]_vars

\* The hart runs and takes the interrupts it is sent.
FairSpec == Spec /\ WF_vars(Hart) /\ WF_vars(Interrupt)

-----------------------------------------------------------------------------
(* Properties.                                                             *)

(* A program comes back from a trap with every register it had, whatever   *)
(* it keeps in sp: after an interrupt at the instruction it was about to   *)
(* execute, after a served exception at the next one; and the trap code    *)
(* finds the same stack the next time.                                     *)
ProgramUndisturbed ==
  /\ pc = "sret" /\ call.cause # "none" =>
       /\ reg = call.regs
       /\ csr.sepc = call.upc + IF call.cause = "interrupt" THEN 0 ELSE 1
  /\ pc = "program" =>
       IF Dual THEN csr.mode = "U" /\ csr.sscratch = Top ELSE csr.mode = "S" /\ reg.sp = Top

(* Each character handed to xputc is printed once and in order, nothing    *)
(* else is, and only exit, an invalid call or a fault halts the program.   *)
(* ex20 survives its two expected faults and never comes back from the     *)
(* third, the jump to its unmapped page, although the expectation of the   *)
(* second one still stands.                                                *)
StopsWhereItShould ==
  /\ Dual /\ pc = "program" => out = sent
  /\ Dual /\ pc = "halt" => ~(call.cause = "ecall" /\ call.regs.t0 = SYS_XPUTC)
  /\ Dual /\ pc = "sret" => call.cause = "none" \/ call.regs.t0 = SYS_XPUTC
  /\ prog = "ex20" /\ pc = "halt" => call.upc = 4
  /\ prog = "ex20" /\ pc = "sret" => call.upc # 4

(* Every event of the timer is counted, and the terminal comes to show it, *)
(* also when it falls between the read of ticks and the comparison.        *)
TicksShown ==
  \A k \in 0..MaxTicks - 1 :
    (prog = "ex01" /\ timer.event /\ timer.irq /\ ticks = k) ~> (ticks > k /\ clock > k)
=============================================================================
