------------------------------ MODULE BootMonitor ------------------------------
(***************************************************************************)
(* The boot loader's monitor: start() and mach_exception_handler() of      *)
(* boot/boot.c, mach_exception_entry of boot/entry.S, the trap-safe reads  *)
(* of boot/helpers.S and the commands of boot/console.c.                   *)
(*                                                                         *)
(* A supervisor program is interrupted by the serial port.  A key is an    *)
(* integer: the editing keys and command names below, or, from NUM on, an  *)
(* argument word by its value, so a key stands for a whole word with the   *)
(* blank that ends it (ConsoleLine has the words' characters).  Registers  *)
(* are sp, tmp (caller-saved, ra included) and sav (gp, tp, s0-s11); an    *)
(* address on the machine stack counts eframe_t's.                         *)
(***************************************************************************)
EXTENDS Integers, Sequences, SequencesExt

CONSTANTS
  Keys,      \* what may be typed, and what while another key is waiting
  Queued,
  Size,      \* sizeof(cmdbuf): 128
  MaxDump,   \* the most words do_dw shows: 1024
  Ram,       \* the words that can be read without a fault, by address / 4
  Half,      \* 2^31: an int is a word below Half, or negative
  Top,       \* SVC_ENTRY, the top of the exception stack
  FifoDepth, \* bound on the characters waiting in the serial port
  Values     \* what the supervisor program keeps in a register

NUL == 201
CR  == 202     \* \r or \n
BS  == 203     \* backspace or delete
CTL == 204     \* another control character, or one above 127
help == 210
regs == 211
dw   == 212
db   == 213
stop == 214
cont == 215
bad  == 216    \* a word that names no command
NUM  == 300    \* NUM + n is the word for the number n
CMDS == [k \in {help, regs, dw, db, stop, cont} |-> IF k \in {dw, db} THEN 2 ELSE 0]

ASSUME MonitorAssumption ==
  /\ Keys \subseteq {CR, BS, CTL, bad} \cup DOMAIN CMDS \cup NUM..NUM + 2*Half - 1
  /\ Queued \subseteq Keys
  /\ Size \in Nat \ {0, 1} /\ MaxDump \in Nat \ {0} /\ Half \in Nat \ {0}
  /\ Top \in Nat \ {0, 1} /\ FifoDepth \in Nat \ {0} /\ Values \subseteq Nat

VARIABLES
  pc,             \* next step; "super" in the supervisor program
  csr,            \* mode, and mstatus (mpp, mpie, mie), mtvec, mscratch, mepc, mcause
  reg, upc,       \* registers; the program counter when in "super"
  frame,          \* the eframe_t at Top - 1: *EF in the handler
  fifo, pending,  \* serial port: receive FIFO and event
  cmdbuf,         \* its first cmdlen words; the rest is never read
  STOP,
  ch, status,     \* locals of the handler and of console_char()
  job,            \* locals of do_dw() and do_db()
  shown,          \* words the current command has printed
  screen,         \* the terminal's last line, after the prompt
  shadow          \* history: what the supervisor program last computed

cpu   == <<csr, reg, upc, frame, shadow>>
uart  == <<fifo, pending>>
edit  == <<cmdbuf, screen>>
local == <<ch, status, job, shown>>
vars  == <<pc, cpu, uart, edit, STOP, local>>

Junk == 299
NoJob == [size |-> 1, addr |-> 0, count |-> 0]

Init ==
  /\ pc = "start" /\ STOP = FALSE
  /\ csr = [mode |-> "M", mpp |-> "M", mpie |-> FALSE, mie |-> FALSE,
            mtvec |-> "reset", mscratch |-> Junk, mepc |-> Junk, mcause |-> "none"]
  /\ reg = [sp |-> Junk, tmp |-> Junk, sav |-> Junk] /\ upc = 0
  /\ frame = [pc |-> Junk, regs |-> reg]
  /\ shadow = [pc |-> 0, regs |-> [reg EXCEPT !.sp = 0]]
  /\ fifo = <<>> /\ pending \in BOOLEAN
  /\ cmdbuf = <<>> /\ screen = <<>>
  /\ ch = NUL /\ status = [mpp |-> "M", mpie |-> FALSE, mie |-> FALSE]
  /\ job = NoJob /\ shown = <<>>

Goto(from, to) == pc = from /\ pc' = to

-----------------------------------------------------------------------------
(* External: the hart and the LiteX serial port.                           *)

Trap(cause, epc) ==
  /\ pc' = csr.mtvec
  /\ csr' = [csr EXCEPT !.mepc = epc, !.mcause = cause, !.mode = "M",
                        !.mpp = csr.mode, !.mpie = csr.mie, !.mie = FALSE]

Mret(c) ==
  /\ pc' = "super" /\ upc' = c.mepc
  /\ csr' = [c EXCEPT !.mode = c.mpp, !.mpp = "U", !.mie = c.mpie, !.mpie = TRUE]

\* The event is set by a character that finds the FIFO empty.
Receive ==
  /\ Len(fifo) < FifoDepth
  /\ \E k \in IF fifo = <<>> THEN Keys ELSE Queued : fifo' = Append(fifo, k)
  /\ pending' = (pending \/ fifo = <<>>)
  /\ UNCHANGED <<pc, cpu, edit, STOP, local>>

\* A write to EV_PENDING clears the event and takes the FIFO's first character.
Acknowledge ==
  /\ fifo' = IF fifo = <<>> THEN fifo ELSE Tail(fifo)
  /\ pending' = FALSE

\* The supervisor program computes: two program counters, any registers.
SuperStep ==
  /\ pc = "super"
  /\ upc' = 1 - upc
  /\ \E v \in Values : reg' = [sp |-> v, tmp |-> v + 10, sav |-> v + 20]
  /\ shadow' = [pc |-> upc', regs |-> reg']
  /\ UNCHANGED <<pc, csr, frame, uart, edit, STOP, local>>

Interrupt ==
  /\ pc = "super" /\ pending /\ (csr.mode # "M" \/ csr.mie)
  /\ Trap("uart", upc)
  /\ UNCHANGED <<reg, upc, frame, shadow, uart, edit, STOP, local>>

-----------------------------------------------------------------------------
(* boot.c: start(), and entry.S: exit_mode_m.                              *)

start ==
  /\ Goto("start", "exit_mode_m")
  /\ csr' = [csr EXCEPT !.mtvec = "mach_exception_entry", !.mscratch = Top,
                        !.mpp = "S", !.mpie = TRUE, !.mie = FALSE]
  /\ Acknowledge
  /\ UNCHANGED <<reg, upc, frame, shadow, edit, STOP, local>>

exit_mode_m ==
  /\ pc = "exit_mode_m"
  /\ Mret([csr EXCEPT !.mepc = 0])                       \* SVC_ENTRY
  /\ reg' = [reg EXCEPT !.sp = 0]
  /\ UNCHANGED <<frame, shadow, uart, edit, STOP, local>>

-----------------------------------------------------------------------------
(* entry.S: mach_exception_entry, and boot.c: mach_exception_handler().    *)

SwapStack ==
  /\ Goto("mach_exception_entry", "save")
  /\ csr' = [csr EXCEPT !.mscratch = reg.sp]
  /\ reg' = [reg EXCEPT !.sp = csr.mscratch - 1]
  /\ UNCHANGED <<upc, frame, shadow, uart, edit, STOP, local>>

\* t0 and t1 carry mepc and mscratch once they are saved.
SaveFrame ==
  /\ Goto("save", "handler")
  /\ frame' = [pc |-> csr.mepc, regs |-> [reg EXCEPT !.sp = csr.mscratch]]
  /\ reg' = [reg EXCEPT !.tmp = Junk]
  /\ UNCHANGED <<csr, upc, shadow, uart, edit, STOP, local>>

\* Any cause but the serial port's is reported, and the hart halts.
mach_exception_handler ==
  /\ Goto("handler", IF csr.mcause = "uart" THEN "rx_empty" ELSE "halt")
  /\ UNCHANGED <<cpu, uart, edit, STOP, local>>

\* Both loops: there is a character, or there is none and STOP is clear.
RxEmpty ==
  /\ fifo # <<>> \/ ~STOP
  /\ Goto("rx_empty", IF fifo # <<>> THEN "rx" ELSE "restore")
  /\ UNCHANGED <<cpu, uart, edit, STOP, local>>

ReadRx ==
  /\ Goto("rx", "ack")
  /\ ch' = Head(fifo)
  /\ UNCHANGED <<cpu, uart, edit, STOP, status, job, shown>>

AckRx ==
  /\ Goto("ack", "console_char")
  /\ Acknowledge
  /\ UNCHANGED <<cpu, edit, STOP, local>>

\* Mutant of RestoreCsrs: the event is acknowledged once more on the way out.
RestoreCsrsAck ==
  /\ Goto("restore", "mret")
  /\ csr' = [csr EXCEPT !.mscratch = reg.sp + 1, !.mepc = frame.pc]
  /\ Acknowledge
  /\ UNCHANGED <<reg, upc, frame, shadow, edit, STOP, local>>

RestoreCsrs ==
  /\ Goto("restore", "mret")
  /\ csr' = [csr EXCEPT !.mscratch = reg.sp + 1, !.mepc = frame.pc]
  /\ UNCHANGED <<reg, upc, frame, shadow, uart, edit, STOP, local>>

RestoreFrame ==
  /\ pc = "mret"
  /\ Mret(csr)
  /\ reg' = frame.regs
  /\ UNCHANGED <<frame, shadow, uart, edit, STOP, local>>

-----------------------------------------------------------------------------
(* boot.c: console_char(), one action for each of its returns.             *)

Enter ==
  /\ ch = CR /\ Goto("console_char", "console_line")
  /\ status' = [mpp |-> csr.mpp, mpie |-> csr.mpie, mie |-> csr.mie]
  /\ UNCHANGED <<cpu, uart, edit, STOP, ch, job, shown>>

Return == Goto("console_char", "rx_empty") /\ ch' = NUL

Erase ==
  /\ ch = BS /\ Return
  /\ IF cmdbuf # <<>> THEN cmdbuf' = Front(cmdbuf) /\ screen' = Front(screen)
                      ELSE UNCHANGED edit                        \* BEL
  /\ UNCHANGED <<cpu, uart, STOP, status, job, shown>>

Ignore ==
  /\ ch = CTL \/ (ch \notin {CR, BS} /\ Len(cmdbuf) = Size - 1)  \* BEL when full
  /\ Return
  /\ UNCHANGED <<cpu, uart, edit, STOP, status, job, shown>>

\* Mutant of Put: the character is echoed before the test for a full buffer.
PutEchoFirst ==
  /\ ch \notin {CR, BS, CTL} /\ Return
  /\ cmdbuf' = IF Len(cmdbuf) = Size - 1 THEN cmdbuf ELSE Append(cmdbuf, ch)
  /\ screen' = Append(screen, ch)
  /\ UNCHANGED <<cpu, uart, STOP, status, job, shown>>

Put ==
  /\ ch \notin {CR, BS, CTL} /\ Len(cmdbuf) # Size - 1
  /\ Return
  /\ cmdbuf' = Append(cmdbuf, ch) /\ screen' = Append(screen, ch)
  /\ UNCHANGED <<cpu, uart, STOP, status, job, shown>>

\* Mutant of Finish: mstatus keeps what a fault in rd32safe left in it.
FinishKeepsStatus ==
  /\ Goto("prompt", "rx_empty")
  /\ csr' = [csr EXCEPT !.mtvec = "mach_exception_entry"]
  /\ cmdbuf' = <<>> /\ screen' = <<>>
  /\ ch' = NUL /\ job' = NoJob /\ shown' = <<>>
  /\ UNCHANGED <<reg, upc, frame, shadow, uart, STOP, status>>

\* The prompt that ends console_line(), and what console_char() does after it.
Finish ==
  /\ Goto("prompt", "rx_empty")
  /\ csr' = [csr EXCEPT !.mpp = status.mpp, !.mpie = status.mpie, !.mie = status.mie,
                        !.mtvec = "mach_exception_entry"]
  /\ cmdbuf' = <<>> /\ screen' = <<>>
  /\ ch' = NUL /\ job' = NoJob /\ shown' = <<>>
  /\ UNCHANGED <<reg, upc, frame, shadow, uart, STOP, status>>

-----------------------------------------------------------------------------
(* console.c: console_line() picks a command, and the commands.            *)

\* Of the words typed the first is the command; argx(n) is its argument n.
argc == Len(cmdbuf) - 1
atox(w) == CASE w = dw -> 13 [] w = db -> 219 [] w = cont -> 12 [] w >= NUM -> w - NUM [] OTHER -> 0
argx(n) == IF n <= argc THEN atox(cmdbuf[n + 1]) % (2 * Half) ELSE 0

Line(c) == /\ pc = "console_line" /\ cmdbuf # <<>> /\ cmdbuf[1] = c /\ argc <= CMDS[c]
           /\ UNCHANGED <<cpu, uart, edit, ch, status>>

\* An empty line, an unknown command, too many arguments, or help: only text.
Text ==
  /\ Goto("console_line", "prompt")
  /\ IF cmdbuf = <<>> \/ cmdbuf[1] \notin DOMAIN CMDS THEN TRUE
     ELSE cmdbuf[1] = help \/ argc > CMDS[cmdbuf[1]]
  /\ UNCHANGED <<cpu, uart, edit, STOP, local>>

do_regs ==
  /\ Line(regs) /\ pc' = "prompt"
  /\ shown' = <<frame.pc, frame.regs.sp, frame.regs.tmp, frame.regs.sav>>
  /\ UNCHANGED <<STOP, job>>

do_stop == Line(stop) /\ pc' = "prompt" /\ STOP' = TRUE /\ UNCHANGED <<job, shown>>
do_cont == Line(cont) /\ pc' = "prompt" /\ STOP' = FALSE /\ UNCHANGED <<job, shown>>

\* Mutant of do_dw: the count argument is not clamped.
do_dw_unclamped ==
  /\ Line(dw) /\ pc' = "dump"
  /\ job' = [size |-> 4, addr |-> argx(1), count |-> IF argc < 2 THEN 1 ELSE argx(2)]
  /\ UNCHANGED <<STOP, shown>>

do_dw ==
  /\ Line(dw) /\ pc' = "dump"
  /\ job' = LET count == IF argc < 2 THEN 1 ELSE argx(2)
            IN  [size |-> 4, addr |-> argx(1),
                 count |-> IF count > MaxDump THEN MaxDump ELSE count]
  /\ UNCHANGED <<STOP, shown>>

\* A count that is negative as an int shows nothing.
do_db ==
  /\ Line(db) /\ pc' = "dump"
  /\ job' = [size |-> 1, addr |-> argx(1), count |-> IF argx(2) >= Half THEN 0 ELSE argx(2)]
  /\ UNCHANGED <<STOP, shown>>

\* Mutant of rd_safe: MTVEC is left alone.
rd_safe_unguarded ==
  /\ Goto("dump", IF Len(shown) < job.count THEN "lw" ELSE "prompt")
  /\ reg' = [reg EXCEPT !.tmp = IF Len(shown) < job.count THEN 0 ELSE @]
  /\ UNCHANGED <<csr, upc, frame, shadow, uart, edit, STOP, local>>

\* The loop test of do_dw and do_db, then rd32safe or rd8safe: a0 is cleared
\* (tmp) and MTVEC redirected past the load.
rd_safe ==
  /\ Goto("dump", IF Len(shown) < job.count THEN "lw" ELSE "prompt")
  /\ IF Len(shown) < job.count
     THEN csr' = [csr EXCEPT !.mtvec = "rd_fail"] /\ reg' = [reg EXCEPT !.tmp = 0]
     ELSE UNCHANGED <<csr, reg>>
  /\ UNCHANGED <<upc, frame, shadow, uart, edit, STOP, local>>

\* External: memory.  A word has a value of its own; a misaligned load faults.
Contents(a) == a + 1
Readable(a, size) == a % size = 0 /\ a \div 4 \in Ram

Load ==
  /\ pc = "lw"
  /\ IF Readable(job.addr, job.size)
     THEN pc' = "rd_fail" /\ reg' = [reg EXCEPT !.tmp = Contents(job.addr)] /\ UNCHANGED csr
     ELSE Trap("fault", Junk) /\ UNCHANGED reg
  /\ UNCHANGED <<upc, frame, shadow, uart, edit, STOP, local>>

\* rd32fail: ret, and the rest of the loop's body.
rd_fail ==
  /\ Goto("rd_fail", "dump")
  /\ shown' = Append(shown, reg.tmp)
  /\ job' = [job EXCEPT !.addr = (@ + job.size) % (2 * Half)]
  /\ reg' = [reg EXCEPT !.tmp = Junk]
  /\ UNCHANGED <<csr, upc, frame, shadow, uart, edit, STOP, ch, status>>

-----------------------------------------------------------------------------

Monitor ==
  \/ start \/ exit_mode_m
  \/ SwapStack \/ SaveFrame \/ mach_exception_handler \/ RxEmpty \/ ReadRx \/ AckRx
  \/ RestoreCsrs \/ RestoreFrame
  \/ Enter \/ Erase \/ Ignore \/ Put \/ Finish
  \/ Text \/ do_regs \/ do_stop \/ do_cont \/ do_dw \/ do_db \/ rd_safe \/ Load \/ rd_fail

Next == Receive \/ SuperStep \/ Interrupt \/ Monitor

Spec == Init /\ [][Next]_vars

\* The hart runs and takes a pending interrupt; nobody has to type.
FairSpec == Spec /\ WF_vars(Monitor) /\ WF_vars(Interrupt) /\ WF_vars(SuperStep)

-----------------------------------------------------------------------------
(* Properties.                                                             *)

(* Whatever is typed, the interrupted program goes on in S mode with its   *)
(* own program counter and registers, not at all between stop and cont,    *)
(* and the next interrupt finds its entry point and the whole exception    *)
(* stack: faults of a dump, which change mtvec, mstatus and mepc inside    *)
(* the handler, leave no trace.                                            *)
SupervisorUndisturbed ==
  pc = "super" =>
    /\ csr.mode = "S" /\ upc = shadow.pc /\ reg = shadow.regs /\ ~STOP
    /\ csr.mtvec = "mach_exception_entry" /\ csr.mscratch = Top

(* Between characters the terminal shows what cmdbuf holds, at an empty    *)
(* and at a full buffer too.                                               *)
ScreenShowsLine ==
  pc \in {"rx_empty", "console_line"} => screen = cmdbuf /\ Len(cmdbuf) < Size

(* What a dump asks for, from the words typed. *)
DumpCount == IF cmdbuf[1] = db THEN IF argx(2) < Half THEN argx(2) ELSE 0
             ELSE IF argc < 2 THEN 1 ELSE IF argx(2) < MaxDump THEN argx(2) ELSE MaxDump
DumpWord(i) == LET size == IF cmdbuf[1] = db THEN 1 ELSE 4
                   a == (argx(1) + (i - 1) * size) % (2 * Half)
               IN  IF Readable(a, size) THEN Contents(a) ELSE 0

(* The line is one of cmds, with no more arguments than it takes. *)
Accepted(cmds) == cmdbuf # <<>> /\ cmdbuf[1] \in cmds /\ argc <= CMDS[cmdbuf[1]]

(* A dump shows each word or byte asked for, no more and no fewer, 0 where *)
(* the read faults; regs shows the registers of the interrupted program;   *)
(* any other line shows none of either.                                    *)
ShownIsTrue ==
  pc = "prompt" =>
    /\ Accepted({regs}) =>
         shown = <<shadow.pc, shadow.regs.sp, shadow.regs.tmp, shadow.regs.sav>>
    /\ Accepted({dw, db}) =>
         Len(shown) = DumpCount /\ \A i \in 1..Len(shown) : shown[i] = DumpWord(i)
    /\ ~Accepted({regs, dw, db}) => shown = <<>>

(* When start() is done, a character that waits has its event.             *)
Heard == pc = "exit_mode_m" /\ fifo # <<>> => pending

(* A character that waits once start() is done is taken from the serial    *)
(* port, also when it arrives while the handler works on another one or is *)
(* about to leave.  There is one exception, and it is for ever: start()    *)
(* writes EV_PENDING once (boot.c:116), which takes one character and      *)
(* clears the event.  If two had come by then, the FIFO is not empty and   *)
(* has no event, no later character sets one, and the console never hears  *)
(* a key again.                                                            *)
EveryCharacterHandled ==
  /\ []Heard => (pc # "start" /\ fifo # <<>>) ~> (pc = "console_char")
  /\ <>(~Heard) => [](pc # "console_char")

(* When the typing ends the program runs again unless it is stopped: no    *)
(* load of a dump reaches the HALT of mach_exception_handler().            *)
ProgramResumes == <>[](fifo = <<>> /\ ~STOP) => []<>(pc = "super")
=============================================================================
