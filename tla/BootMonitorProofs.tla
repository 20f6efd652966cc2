-------------------------- MODULE BootMonitorProofs --------------------------
(***************************************************************************)
(* Proofs about BootMonitor, for any keys, any size of the line buffer and *)
(* of a dump, any readable memory and any supervisor program.              *)
(***************************************************************************)
EXTENDS BootMonitor, TLAPS

Regs   == [sp : Int, tmp : Int, sav : Int]
Frames == [pc : Int, regs : Regs]
Modes  == {"M", "S", "U"}
Status == [mpp : Modes, mpie : BOOLEAN, mie : BOOLEAN]
Csrs   == [mode : Modes, mpp : Modes, mpie : BOOLEAN, mie : BOOLEAN,
           mtvec : {"reset", "mach_exception_entry", "rd_fail"},
           mscratch : Int, mepc : Int, mcause : {"none", "uart", "fault"}]
Jobs   == [size : {1, 4}, addr : Nat, count : Nat]
Idle   == {"start", "exit_mode_m", "super", "mach_exception_entry", "save", "handler",
           "rx_empty", "rx", "ack", "console_char", "console_line", "restore", "mret"}
Dump   == {"dump", "lw", "rd_fail"}

TypeInv ==
  /\ pc \in Idle \cup Dump \cup {"prompt"}
  /\ csr \in Csrs /\ reg \in Regs /\ upc \in Int
  /\ frame \in Frames /\ shadow \in Frames
  /\ fifo \in Seq(Keys) /\ pending \in BOOLEAN /\ STOP \in BOOLEAN
  /\ cmdbuf \in Seq(Keys) /\ screen \in Seq(Keys)
  /\ ch \in Keys \cup {NUL} /\ (pc \in {"ack", "console_char"} => ch \in Keys)
  /\ status \in Status /\ job \in Jobs
  /\ shown \in Seq(Int)

(* The supervisor program before its first instruction, while it runs, and *)
(* in the hands of mach_exception_entry until its frame is written.        *)
EntryInv ==
  /\ pc \in {"start", "exit_mode_m"} =>
       ~STOP /\ shadow.pc = 0 /\ shadow.regs = [reg EXCEPT !.sp = 0]
  /\ pc = "exit_mode_m" =>
       csr.mpp = "S" /\ csr.mtvec = "mach_exception_entry" /\ csr.mscratch = Top
  /\ SupervisorUndisturbed
  /\ pc = "mach_exception_entry" => reg = shadow.regs /\ csr.mscratch = Top
  /\ pc = "save" => /\ reg.tmp = shadow.regs.tmp /\ reg.sav = shadow.regs.sav
                    /\ csr.mscratch = shadow.regs.sp /\ reg.sp = Top - 1
  /\ pc \in {"mach_exception_entry", "save"} => csr.mepc = shadow.pc
  /\ pc \in {"mach_exception_entry", "save", "handler"} => csr.mcause = "uart"

(* What the handler has to give back, whatever a dump does to the CSRs.    *)
Console == {"console_line", "prompt"} \cup Dump
Quiet   == {"handler", "rx_empty", "rx", "ack", "restore", "console_char", "mret"}

HandlerInv ==
  /\ pc \in Quiet \cup Console => frame = shadow /\ reg.sp = Top - 1
  /\ pc \in Quiet \cup {"mach_exception_entry", "save"} =>
       csr.mpp = "S" /\ csr.mtvec = "mach_exception_entry"
  /\ pc \in Console => status.mpp = "S"
  /\ pc = "lw" => csr.mtvec = "rd_fail"
  /\ pc \in {"restore", "mret"} => ~STOP
  /\ pc = "mret" => csr.mepc = frame.pc /\ csr.mscratch = Top

(* The line buffer and the terminal, at all times.                         *)
LineInv ==
  /\ screen = cmdbuf /\ Len(cmdbuf) < Size
  /\ pc \in {"rx", "ack"} => fifo # <<>>

(* How far a dump has come.                                                *)
DumpInv ==
  /\ pc \in Idle => shown = <<>>
  /\ pc \in Dump =>
       /\ cmdbuf # <<>> /\ cmdbuf[1] \in {dw, db} /\ Accepted({dw, db})
       /\ job.size = (IF cmdbuf[1] = db THEN 1 ELSE 4)
       /\ job.count = DumpCount /\ Len(shown) <= job.count
       /\ job.addr = (argx(1) + Len(shown) * job.size) % (2 * Half)
       /\ \A i \in 1..Len(shown) : shown[i] = DumpWord(i)
  /\ pc \in {"lw", "rd_fail"} => Len(shown) < job.count
  /\ pc = "lw" => reg.tmp = 0
  /\ pc = "rd_fail" => reg.tmp = DumpWord(Len(shown) + 1)
  /\ ShownIsTrue

IInv == TypeInv /\ EntryInv /\ HandlerInv /\ LineInv /\ DumpInv

-----------------------------------------------------------------------------
(* Sequences, remainders and the arguments of a command.                   *)

\* A prefix of a sequence.
LEMMA PrefixFacts ==
  ASSUME NEW S, NEW s \in Seq(S), NEW n \in 0..Len(s)
  PROVE  SubSeq(s, 1, n) \in Seq(S) /\ Len(SubSeq(s, 1, n)) = n
OBVIOUS

\* What is left when the last word of the line is erased.
LEMMA FrontFacts ==
  ASSUME NEW S, NEW s \in Seq(S), s # <<>>
  PROVE  Front(s) \in Seq(S) /\ Len(Front(s)) = Len(s) - 1
<1>1. Len(s) - 1 \in 0..Len(s)
  OBVIOUS
<1> QED
  BY <1>1, PrefixFacts, Zenon DEF Front

\* A remainder is determined by a quotient.
LEMMA ModUnique ==
  ASSUME NEW m \in Nat \ {0}, NEW q \in Nat, NEW r \in Nat, r < m
  PROVE  (m * q + r) % m = r
OBVIOUS

\* Whole turns do not change a remainder.
LEMMA ModDrop ==
  ASSUME NEW m \in Nat \ {0}, NEW q \in Nat, NEW y \in Nat
  PROVE  (m * q + y) % m = y % m
<1>1. y % m \in Nat /\ y % m < m /\ y \div m \in Nat /\ y = m * (y \div m) + (y % m)
  OBVIOUS
<1>2. m * q + y = m * (q + (y \div m)) + (y % m)
  BY <1>1
<1>3. q + (y \div m) \in Nat
  BY <1>1
<1>4. (m * (q + (y \div m)) + (y % m)) % m = y % m
  BY <1>1, <1>3, ModUnique, Zenon
<1> QED
  BY <1>2, <1>4, Zenon

\* An address that wraps at every step is the one that wraps once.
LEMMA ModAdd ==
  ASSUME NEW m \in Nat \ {0}, NEW x \in Nat, NEW s \in Nat
  PROVE  ((x % m) + s) % m = (x + s) % m
<1> DEFINE y == (x % m) + s
<1>1. x % m \in Nat /\ x \div m \in Nat /\ x = m * (x \div m) + (x % m)
  OBVIOUS
<1>2. x + s = m * (x \div m) + y /\ y \in Nat
  BY <1>1
<1> HIDE DEF y
<1>3. (m * (x \div m) + y) % m = y % m
  BY <1>1, <1>2, ModDrop
<1> QED
  BY <1>2, <1>3 DEF y

\* A word that has not wrapped.
LEMMA ModSmall ==
  ASSUME NEW m \in Nat, NEW x \in 0..m - 1
  PROVE  x % m = x
OBVIOUS

\* The next word of a dump is size bytes on.
LEMMA NextAddress ==
  ASSUME NEW a \in Nat, NEW n \in Nat, NEW s \in Nat
  PROVE  a + n * s \in Nat /\ a + n * s + s = a + (n + 1) * s
OBVIOUS

\* A key is a number.
LEMMA KeyFacts == Keys \subseteq Nat
BY MonitorAssumption DEF CR, BS, CTL, bad, CMDS, help, regs, dw, db, stop, cont, NUM

\* argx(n) is a word, also for a missing argument and for a name.
LEMMA ArgFacts ==
  ASSUME TypeInv, NEW n \in {1, 2}
  PROVE  argx(n) \in 0..2 * Half - 1
<1>1. CASE n <= argc
  <2>1. cmdbuf[n + 1] \in Nat
    <3>1. Len(cmdbuf) \in Nat /\ n + 1 \in 1..Len(cmdbuf)
      BY <1>1 DEF TypeInv, argc
    <3>2. cmdbuf[n + 1] \in Keys
      BY <3>1 DEF TypeInv
    <3> QED
      BY <3>2, KeyFacts
  <2>2. atox(cmdbuf[n + 1]) \in Nat
    BY <2>1 DEF atox, dw, db, cont, NUM
  <2> QED
    BY <1>1, <2>2, MonitorAssumption DEF argx
<1>2. CASE ~(n <= argc)
  BY <1>2, MonitorAssumption DEF argx
<1> QED
  BY <1>1, <1>2

\* What a dump asks for depends on the line alone.
LEMMA SameLine ==
  ASSUME cmdbuf' = cmdbuf
  PROVE  /\ DumpCount' = DumpCount /\ argx(1)' = argx(1)
         /\ \A i \in Nat : DumpWord(i)' = DumpWord(i)
         /\ \A c : Accepted(c)' = Accepted(c)
BY DEF DumpCount, DumpWord, argx, argc, Accepted

\* The command of a line, and the lines that only print text.
LineIs(c) == cmdbuf # <<>> /\ cmdbuf[1] = c /\ argc <= CMDS[c]

LEMMA AcceptedParts ==
  /\ Accepted({regs}) => Accepted({regs, dw, db}) /\ ~Accepted({dw, db})
  /\ Accepted({dw, db}) => Accepted({regs, dw, db}) /\ ~Accepted({regs})
<1>1. regs # dw /\ regs # db
  BY DEF regs, dw, db
<1> QED
  BY <1>1 DEF Accepted

LEMMA Chosen ==
  /\ LineIs(regs) => Accepted({regs, dw, db}) /\ ~Accepted({dw, db})
  /\ LineIs(dw) \/ LineIs(db) => Accepted({dw, db})
  /\ LineIs(stop) \/ LineIs(cont) => ~Accepted({regs, dw, db})
<1>1. /\ regs # dw /\ regs # db
      /\ \A c \in {stop, cont} : c \notin {regs, dw, db}
  BY DEF regs, dw, db, stop, cont
<1> QED
  BY <1>1 DEF Accepted, LineIs

LEMMA Refused ==
  ASSUME IF cmdbuf = <<>> \/ cmdbuf[1] \notin DOMAIN CMDS THEN TRUE
         ELSE cmdbuf[1] = help \/ argc > CMDS[cmdbuf[1]],
         cmdbuf \in Seq(Keys)
  PROVE  ~Accepted({regs, dw, db})
<1>1. help \notin {regs, dw, db} /\ {regs, dw, db} \subseteq DOMAIN CMDS
  BY DEF regs, dw, db, help, CMDS
<1>2. \A c \in DOMAIN CMDS : CMDS[c] \in Nat
  BY DEF CMDS
<1>3. argc \in Int
  BY DEF argc
<1> SUFFICES ASSUME Accepted({regs, dw, db}) PROVE FALSE
  OBVIOUS
<1>4. /\ cmdbuf # <<>> /\ cmdbuf[1] \in DOMAIN CMDS /\ cmdbuf[1] # help
      /\ argc <= CMDS[cmdbuf[1]]
  BY <1>1 DEF Accepted
<1>5. argc > CMDS[cmdbuf[1]] /\ CMDS[cmdbuf[1]] \in Nat
  BY <1>2, <1>4
<1> QED
  BY <1>3, <1>4, <1>5

\* A scratch register.
LEMMA ScratchType ==
  ASSUME NEW r \in Regs
  PROVE  [r EXCEPT !.tmp = Junk] \in Regs
BY DEF Regs, Junk

\* The program's first sp.
LEMMA EntrySpType ==
  ASSUME NEW r \in Regs
  PROVE  [r EXCEPT !.sp = 0] \in Regs
BY DEF Regs

\* The CSRs that start() leaves.
LEMMA StartType ==
  ASSUME csr \in Csrs, start
  PROVE  csr' \in Csrs
<1>1. Top \in Int
  BY MonitorAssumption
<1>2. csr' = [csr EXCEPT !.mtvec = "mach_exception_entry", !.mscratch = Top,
                        !.mpp = "S", !.mpie = TRUE, !.mie = FALSE]
  BY DEF start
<1> QED
  BY <1>1, <1>2 DEF Csrs, Modes

\* The entry point of the program.
LEMMA EntryPointType ==
  ASSUME NEW c \in Csrs
  PROVE  [c EXCEPT !.mepc = 0] \in Csrs /\ [c EXCEPT !.mepc = 0].mepc = 0
BY DEF Csrs

\* The CSRs after a trap.
LEMMA TrapType ==
  ASSUME csr \in Csrs, NEW cause \in {"uart", "fault"}, NEW epc \in Int, Trap(cause, epc)
  PROVE  csr' \in Csrs
BY DEF Trap, Csrs, Modes

\* The CSRs after mret.
LEMMA MretType ==
  ASSUME NEW c \in Csrs, Mret(c)
  PROVE  csr' \in Csrs
BY DEF Mret, Csrs, Modes

-----------------------------------------------------------------------------
(* The steps.                                                              *)

\* Every variable keeps its type, and "halt" is never reached.
LEMMA TypeInvStep ==
  ASSUME IInv, [Next]_vars
  PROVE  TypeInv'
<1> USE DEF IInv, TypeInv, Idle, Dump
<1>1. CASE Receive
  <2>1. fifo' \in Seq(Keys)
    BY <1>1, MonitorAssumption DEF Receive, cpu, uart, edit, local
  <2>2. pending' \in BOOLEAN
    BY <1>1 DEF Receive, cpu, uart, edit, local
  <2> QED
    BY <1>1, <2>1, <2>2 DEF Receive, cpu, uart, edit, local
<1>2. CASE SuperStep
  <2>1. reg' \in Regs
    BY <1>2, MonitorAssumption DEF SuperStep, cpu, uart, edit, local, Regs
  <2>2. shadow' \in Frames
    BY <1>2, <2>1 DEF SuperStep, cpu, uart, edit, local, Frames
  <2>3. upc' \in Int
    BY <1>2 DEF SuperStep, cpu, uart, edit, local
  <2> QED
    BY <1>2, <2>1, <2>2, <2>3 DEF SuperStep, cpu, uart, edit, local
<1>3. CASE Interrupt
  <2>1. csr' \in Csrs
    BY <1>3, TrapType DEF Interrupt
  <2>2. pc' = "mach_exception_entry"
    BY <1>3 DEF Interrupt, Trap, cpu, uart, edit, local, EntryInv,
       SupervisorUndisturbed
  <2> QED
    BY <1>3, <2>1, <2>2 DEF Interrupt, Trap, cpu, uart, edit, local
<1>4. CASE start
  <2>1. csr' \in Csrs
    BY <1>4, StartType
  <2>2. fifo' \in Seq(Keys)
    BY <1>4 DEF start, Goto, Acknowledge, cpu, uart, edit, local
  <2> QED
    BY <1>4, <2>1, <2>2 DEF start, Goto, Acknowledge, cpu, uart, edit, local
<1>5. CASE exit_mode_m
  <2>1. csr' \in Csrs
    BY <1>5, EntryPointType, MretType DEF exit_mode_m
  <2>2. upc' = 0
    BY <1>5, EntryPointType DEF exit_mode_m, Mret
  <2>3. reg' \in Regs
    BY <1>5, EntrySpType DEF exit_mode_m
  <2> QED
    BY <1>5, <2>1, <2>2, <2>3 DEF exit_mode_m, Mret, cpu, uart, edit, local
<1>6. CASE SwapStack
  <2>1. csr.mscratch - 1 \in Int /\ reg.sp \in Int
    BY DEF Csrs, Regs
  <2>2. csr' \in Csrs
    BY <1>6, <2>1 DEF SwapStack, Goto, cpu, uart, edit, local, Csrs
  <2>3. reg' \in Regs
    BY <1>6, <2>1 DEF SwapStack, Goto, cpu, uart, edit, local, Regs
  <2> QED
    BY <1>6, <2>1, <2>2, <2>3 DEF SwapStack, Goto, cpu, uart, edit, local
<1>7. CASE SaveFrame
  <2>1. frame' \in Frames
    BY <1>7 DEF SaveFrame, Goto, cpu, uart, edit, local, Frames, Regs, Csrs
  <2>2. reg' \in Regs
    BY <1>7, ScratchType DEF SaveFrame, Goto, cpu, uart, edit, local
  <2> QED
    BY <1>7, <2>1, <2>2 DEF SaveFrame, Goto, cpu, uart, edit, local
<1>8. CASE mach_exception_handler
  <2>1. csr.mcause = "uart"
    BY <1>8 DEF mach_exception_handler, Goto, cpu, uart, edit, local, EntryInv
  <2> QED
    BY <1>8, <2>1 DEF mach_exception_handler, Goto, cpu, uart, edit, local
<1>9. CASE RxEmpty
  BY <1>9 DEF RxEmpty, Goto, cpu, uart, edit, local
<1>10. CASE ReadRx
  <2>1. fifo # <<>>
    BY <1>10 DEF ReadRx, Goto, cpu, uart, edit, local, LineInv
  <2>2. ch' \in Keys
    BY <1>10, <2>1 DEF ReadRx, Goto, cpu, uart, edit, local
  <2> QED
    BY <1>10, <2>1, <2>2 DEF ReadRx, Goto, cpu, uart, edit, local
<1>11. CASE AckRx
  <2>1. fifo' \in Seq(Keys)
    BY <1>11 DEF AckRx, Goto, Acknowledge, cpu, uart, edit, local
  <2>2. ch \in Keys
    BY <1>11 DEF AckRx, Goto, Acknowledge, cpu, uart, edit, local
  <2> QED
    BY <1>11, <2>1, <2>2 DEF AckRx, Goto, Acknowledge, cpu, uart, edit, local
<1>12. CASE RestoreCsrs
  <2>1. reg.sp + 1 \in Int /\ frame.pc \in Int
    BY DEF Regs, Frames
  <2>2. csr' \in Csrs
    BY <1>12, <2>1 DEF RestoreCsrs, Goto, cpu, uart, edit, local, Csrs
  <2> QED
    BY <1>12, <2>1, <2>2 DEF RestoreCsrs, Goto, cpu, uart, edit, local
<1>13. CASE RestoreFrame
  <2>1. csr' \in Csrs
    BY <1>13, MretType DEF RestoreFrame
  <2>2. reg' \in Regs /\ csr.mepc \in Int
    BY <1>13 DEF RestoreFrame, Mret, cpu, uart, edit, local, Frames, Csrs
  <2> QED
    BY <1>13, <2>1, <2>2 DEF RestoreFrame, Mret, cpu, uart, edit, local
<1>14. CASE Enter
  <2>1. status' \in Status
    BY <1>14 DEF Enter, Goto, cpu, uart, edit, local, Status, Csrs
  <2> QED
    BY <1>14, <2>1 DEF Enter, Goto, cpu, uart, edit, local
<1>15. CASE Erase
  <2>1. cmdbuf' \in Seq(Keys) /\ screen' \in Seq(Keys)
    BY <1>15, FrontFacts DEF Erase, Return, Goto, cpu, uart, edit, local, LineInv
  <2> QED
    BY <1>15, <2>1 DEF Erase, Return, Goto, cpu, uart, edit, local
<1>16. CASE Ignore
  BY <1>16 DEF Ignore, Return, Goto, cpu, uart, edit, local
<1>17. CASE Put
  <2>1. ch \in Keys
    BY <1>17 DEF Put, Return, Goto, cpu, uart, edit, local
  <2>2. cmdbuf' \in Seq(Keys) /\ screen' \in Seq(Keys)
    BY <1>17, <2>1 DEF Put, Return, Goto, cpu, uart, edit, local
  <2> QED
    BY <1>17, <2>1, <2>2 DEF Put, Return, Goto, cpu, uart, edit, local
<1>18. CASE Finish
  <2>1. csr' \in Csrs
    BY <1>18 DEF Finish, Goto, cpu, uart, edit, local, Csrs, Status
  <2>2. job' \in Jobs
    BY <1>18 DEF Finish, Goto, cpu, uart, edit, local, Jobs, NoJob
  <2> QED
    BY <1>18, <2>1, <2>2 DEF Finish, Goto, cpu, uart, edit, local
<1>19. CASE Text
  BY <1>19 DEF Text, Goto, cpu, uart, edit, local
<1>20. CASE do_regs
  <2>1. shown' \in Seq(Int)
    BY <1>20 DEF do_regs, Line, cpu, uart, edit, local, Frames, Regs
  <2> QED
    BY <1>20, <2>1 DEF do_regs, Line, cpu, uart, edit, local
<1>21. CASE do_stop
  BY <1>21 DEF do_stop, Line, cpu, uart, edit, local
<1>22. CASE do_cont
  BY <1>22 DEF do_cont, Line, cpu, uart, edit, local
<1>23. CASE do_dw
  <2>1. job' \in Jobs
    BY <1>23, ArgFacts, MonitorAssumption DEF do_dw, Line, cpu, uart, edit, local,
       Jobs
  <2> QED
    BY <1>23, <2>1 DEF do_dw, Line, cpu, uart, edit, local
<1>24. CASE do_db
  <2>1. job' \in Jobs
    BY <1>24, ArgFacts, MonitorAssumption DEF do_db, Line, cpu, uart, edit, local,
       Jobs
  <2> QED
    BY <1>24, <2>1 DEF do_db, Line, cpu, uart, edit, local
<1>25. CASE rd_safe
  <2>1. csr' \in Csrs
    BY <1>25 DEF rd_safe, Goto, cpu, uart, edit, local, Csrs
  <2>2. reg' \in Regs
    BY <1>25 DEF rd_safe, Goto, cpu, uart, edit, local, Regs
  <2> QED
    BY <1>25, <2>1, <2>2 DEF rd_safe, Goto, cpu, uart, edit, local
<1>26. CASE Load
  <2>1. csr.mtvec = "rd_fail"
    BY <1>26 DEF Load, Trap, cpu, uart, edit, local, HandlerInv
  <2>2. csr' \in Csrs
    BY <1>26, TrapType DEF Load, Junk
  <2>3. Contents(job.addr) \in Int
    BY DEF Jobs, Contents
  <2>4. reg' \in Regs
    BY <1>26, <2>3 DEF Load, Regs
  <2>5. pc' = "rd_fail"
    BY <1>26, <2>1 DEF Load, Trap, cpu, uart, edit, local
  <2> QED
    BY <1>26, <2>1, <2>2, <2>3, <2>4, <2>5 DEF Load, Trap, cpu, uart, edit, local
<1>27. CASE rd_fail
  <2>1. shown' \in Seq(Int)
    BY <1>27 DEF rd_fail, Goto, cpu, uart, edit, local, Regs
  <2>2. job.addr + job.size \in Nat
    BY DEF Jobs
  <2>3. (job.addr + job.size) % (2 * Half) \in Nat
    BY <2>2, MonitorAssumption
  <2>4. job' \in Jobs
    BY <1>27, <2>3 DEF rd_fail, Goto, cpu, uart, edit, local, Jobs
  <2>5. reg' \in Regs
    BY <1>27, ScratchType DEF rd_fail, Goto, cpu, uart, edit, local
  <2> QED
    BY <1>27, <2>1, <2>2, <2>3, <2>4, <2>5 DEF rd_fail, Goto, cpu, uart, edit, local
<1>28. CASE UNCHANGED vars
  BY <1>28 DEF vars, cpu, uart, edit, local
<1> QED
  BY <1>1, <1>2, <1>3, <1>4, <1>5, <1>6, <1>7, <1>8, <1>9, <1>10, <1>11, <1>12,
     <1>13, <1>14, <1>15, <1>16, <1>17, <1>18, <1>19, <1>20, <1>21, <1>22, <1>23,
     <1>24, <1>25, <1>26, <1>27, <1>28 DEF Next, Monitor

\* The program is where the hart and the entry code left it.
LEMMA EntryInvStep ==
  ASSUME IInv, [Next]_vars
  PROVE  EntryInv'
<1> USE MonitorAssumption DEF IInv, TypeInv, EntryInv, SupervisorUndisturbed,
        HandlerInv, Modes, Regs, Frames, Csrs, Idle, Dump, Console, Quiet
<1>1. CASE Receive
  BY <1>1 DEF Receive, cpu, uart, edit, local
<1>2. CASE SuperStep
  BY <1>2 DEF SuperStep, cpu, uart, edit, local
<1>3. CASE Interrupt
  BY <1>3 DEF Interrupt, Trap, cpu, uart, edit, local
<1>4. CASE start
  BY <1>4 DEF start, Goto, Acknowledge, cpu, uart, edit, local
<1>5. CASE exit_mode_m
  BY <1>5 DEF exit_mode_m, Mret, cpu, uart, edit, local
<1>6. CASE SwapStack
  BY <1>6 DEF SwapStack, Goto, cpu, uart, edit, local
<1>7. CASE SaveFrame
  BY <1>7 DEF SaveFrame, Goto, cpu, uart, edit, local
<1>8. CASE mach_exception_handler
  BY <1>8 DEF mach_exception_handler, Goto, cpu, uart, edit, local
<1>9. CASE RxEmpty
  BY <1>9 DEF RxEmpty, Goto, cpu, uart, edit, local
<1>10. CASE ReadRx
  BY <1>10 DEF ReadRx, Goto, cpu, uart, edit, local
<1>11. CASE AckRx
  BY <1>11 DEF AckRx, Goto, Acknowledge, cpu, uart, edit, local
<1>12. CASE RestoreCsrs
  BY <1>12 DEF RestoreCsrs, Goto, cpu, uart, edit, local
<1>13. CASE RestoreFrame
  BY <1>13 DEF RestoreFrame, Mret, cpu, uart, edit, local
<1>14. CASE Enter
  BY <1>14 DEF Enter, Goto, cpu, uart, edit, local
<1>15. CASE Erase
  BY <1>15 DEF Erase, Return, Goto, cpu, uart, edit, local
<1>16. CASE Ignore
  BY <1>16 DEF Ignore, Return, Goto, cpu, uart, edit, local
<1>17. CASE Put
  BY <1>17 DEF Put, Return, Goto, cpu, uart, edit, local
<1>18. CASE Finish
  BY <1>18 DEF Finish, Goto, cpu, uart, edit, local
<1>19. CASE Text
  BY <1>19 DEF Text, Goto, cpu, uart, edit, local
<1>20. CASE do_regs
  BY <1>20 DEF do_regs, Line, cpu, uart, edit, local
<1>21. CASE do_stop
  BY <1>21 DEF do_stop, Line, cpu, uart, edit, local
<1>22. CASE do_cont
  BY <1>22 DEF do_cont, Line, cpu, uart, edit, local
<1>23. CASE do_dw
  BY <1>23 DEF do_dw, Line, cpu, uart, edit, local
<1>24. CASE do_db
  BY <1>24 DEF do_db, Line, cpu, uart, edit, local
<1>25. CASE rd_safe
  BY <1>25 DEF rd_safe, Goto, cpu, uart, edit, local
<1>26. CASE Load
  BY <1>26 DEF Load, Trap, cpu, uart, edit, local
<1>27. CASE rd_fail
  BY <1>27 DEF rd_fail, Goto, cpu, uart, edit, local
<1>28. CASE UNCHANGED vars
  BY <1>28 DEF vars, cpu, uart, edit, local
<1> QED
  BY <1>1, <1>2, <1>3, <1>4, <1>5, <1>6, <1>7, <1>8, <1>9, <1>10, <1>11, <1>12,
     <1>13, <1>14, <1>15, <1>16, <1>17, <1>18, <1>19, <1>20, <1>21, <1>22, <1>23,
     <1>24, <1>25, <1>26, <1>27, <1>28 DEF Next, Monitor

\* The handler keeps what it has to give back.
LEMMA HandlerInvStep ==
  ASSUME IInv, [Next]_vars
  PROVE  HandlerInv'
<1> USE MonitorAssumption DEF IInv, TypeInv, EntryInv, HandlerInv, Modes, Regs,
        Frames, Csrs, Idle, Dump, Console, Quiet
<1>1. CASE Receive
  BY <1>1 DEF Receive, cpu, uart, edit, local
<1>2. CASE SuperStep
  BY <1>2 DEF SuperStep, cpu, uart, edit, local
<1>3. CASE Interrupt
  <2>1. csr.mode = "S" /\ csr.mtvec = "mach_exception_entry"
    BY <1>3 DEF Interrupt, Trap, cpu, uart, edit, local, EntryInv,
       SupervisorUndisturbed
  <2> QED
    BY <1>3, <2>1 DEF Interrupt, Trap, cpu, uart, edit, local
<1>4. CASE start
  BY <1>4 DEF start, Goto, Acknowledge, cpu, uart, edit, local
<1>5. CASE exit_mode_m
  BY <1>5 DEF exit_mode_m, Mret, cpu, uart, edit, local
<1>6. CASE SwapStack
  BY <1>6 DEF SwapStack, Goto, cpu, uart, edit, local
<1>7. CASE SaveFrame
  <2>1. /\ csr.mepc = shadow.pc /\ csr.mscratch = shadow.regs.sp /\ reg.sp = Top - 1
        /\ reg.tmp = shadow.regs.tmp /\ reg.sav = shadow.regs.sav
    BY <1>7 DEF SaveFrame, Goto, cpu, uart, edit, local
  <2>2. [reg EXCEPT !.sp = csr.mscratch] = shadow.regs
    BY <2>1
  <2>3. frame' = shadow
    BY <1>7, <2>1, <2>2 DEF SaveFrame, Goto, cpu, uart, edit, local
  <2>4. reg'.sp = Top - 1
    BY <1>7, <2>1 DEF SaveFrame, Goto, cpu, uart, edit, local
  <2> QED
    BY <1>7, <2>1, <2>2, <2>3, <2>4 DEF SaveFrame, Goto, cpu, uart, edit, local
<1>8. CASE mach_exception_handler
  BY <1>8 DEF mach_exception_handler, Goto, cpu, uart, edit, local
<1>9. CASE RxEmpty
  BY <1>9 DEF RxEmpty, Goto, cpu, uart, edit, local
<1>10. CASE ReadRx
  BY <1>10 DEF ReadRx, Goto, cpu, uart, edit, local
<1>11. CASE AckRx
  BY <1>11 DEF AckRx, Goto, Acknowledge, cpu, uart, edit, local
<1>12. CASE RestoreCsrs
  BY <1>12 DEF RestoreCsrs, Goto, cpu, uart, edit, local
<1>13. CASE RestoreFrame
  BY <1>13 DEF RestoreFrame, Mret, cpu, uart, edit, local
<1>14. CASE Enter
  BY <1>14 DEF Enter, Goto, cpu, uart, edit, local
<1>15. CASE Erase
  BY <1>15 DEF Erase, Return, Goto, cpu, uart, edit, local
<1>16. CASE Ignore
  BY <1>16 DEF Ignore, Return, Goto, cpu, uart, edit, local
<1>17. CASE Put
  BY <1>17 DEF Put, Return, Goto, cpu, uart, edit, local
<1>18. CASE Finish
  BY <1>18 DEF Finish, Goto, cpu, uart, edit, local
<1>19. CASE Text
  BY <1>19 DEF Text, Goto, cpu, uart, edit, local
<1>20. CASE do_regs
  BY <1>20 DEF do_regs, Line, cpu, uart, edit, local
<1>21. CASE do_stop
  BY <1>21 DEF do_stop, Line, cpu, uart, edit, local
<1>22. CASE do_cont
  BY <1>22 DEF do_cont, Line, cpu, uart, edit, local
<1>23. CASE do_dw
  BY <1>23 DEF do_dw, Line, cpu, uart, edit, local
<1>24. CASE do_db
  BY <1>24 DEF do_db, Line, cpu, uart, edit, local
<1>25. CASE rd_safe
  <2>1. CASE Len(shown) < job.count
    BY <1>25, <2>1 DEF rd_safe, Goto, cpu, uart, edit, local
  <2>2. CASE ~(Len(shown) < job.count)
    BY <1>25, <2>2 DEF rd_safe, Goto, cpu, uart, edit, local
  <2> QED
    BY <2>1, <2>2
<1>26. CASE Load
  <2>1. reg'.sp = reg.sp /\ pc' = "rd_fail"
    BY <1>26 DEF Load, Trap, cpu, uart, edit, local
  <2> QED
    BY <1>26, <2>1 DEF Load, Trap, cpu, uart, edit, local
<1>27. CASE rd_fail
  BY <1>27 DEF rd_fail, Goto, cpu, uart, edit, local
<1>28. CASE UNCHANGED vars
  BY <1>28 DEF vars, cpu, uart, edit, local
<1> QED
  BY <1>1, <1>2, <1>3, <1>4, <1>5, <1>6, <1>7, <1>8, <1>9, <1>10, <1>11, <1>12,
     <1>13, <1>14, <1>15, <1>16, <1>17, <1>18, <1>19, <1>20, <1>21, <1>22, <1>23,
     <1>24, <1>25, <1>26, <1>27, <1>28 DEF Next, Monitor

\* The terminal follows the buffer.
LEMMA LineInvStep ==
  ASSUME IInv, [Next]_vars
  PROVE  LineInv'
<1> USE MonitorAssumption DEF IInv, TypeInv, LineInv
<1>1. CASE Receive
  <2>1. fifo' # <<>>
    BY <1>1 DEF Receive, cpu, uart, edit, local
  <2> QED
    BY <1>1, <2>1 DEF Receive, cpu, uart, edit, local
<1>2. CASE SuperStep
  BY <1>2 DEF SuperStep, cpu, uart, edit, local
<1>3. CASE Interrupt
  BY <1>3 DEF Interrupt, Trap, cpu, uart, edit, local, Csrs
<1>4. CASE start
  BY <1>4 DEF start, Goto, Acknowledge, cpu, uart, edit, local
<1>5. CASE exit_mode_m
  BY <1>5 DEF exit_mode_m, Mret, cpu, uart, edit, local
<1>6. CASE SwapStack
  BY <1>6 DEF SwapStack, Goto, cpu, uart, edit, local
<1>7. CASE SaveFrame
  BY <1>7 DEF SaveFrame, Goto, cpu, uart, edit, local
<1>8. CASE mach_exception_handler
  BY <1>8 DEF mach_exception_handler, Goto, cpu, uart, edit, local
<1>9. CASE RxEmpty
  BY <1>9 DEF RxEmpty, Goto, cpu, uart, edit, local
<1>10. CASE ReadRx
  BY <1>10 DEF ReadRx, Goto, cpu, uart, edit, local
<1>11. CASE AckRx
  BY <1>11 DEF AckRx, Goto, Acknowledge, cpu, uart, edit, local
<1>12. CASE RestoreCsrs
  BY <1>12 DEF RestoreCsrs, Goto, cpu, uart, edit, local
<1>13. CASE RestoreFrame
  BY <1>13 DEF RestoreFrame, Mret, cpu, uart, edit, local
<1>14. CASE Enter
  BY <1>14 DEF Enter, Goto, cpu, uart, edit, local
<1>15. CASE Erase
  BY <1>15, FrontFacts DEF Erase, Return, Goto, cpu, uart, edit, local
<1>16. CASE Ignore
  BY <1>16 DEF Ignore, Return, Goto, cpu, uart, edit, local
<1>17. CASE Put
  BY <1>17 DEF Put, Return, Goto, cpu, uart, edit, local
<1>18. CASE Finish
  BY <1>18 DEF Finish, Goto, cpu, uart, edit, local
<1>19. CASE Text
  BY <1>19 DEF Text, Goto, cpu, uart, edit, local
<1>20. CASE do_regs
  BY <1>20 DEF do_regs, Line, cpu, uart, edit, local
<1>21. CASE do_stop
  BY <1>21 DEF do_stop, Line, cpu, uart, edit, local
<1>22. CASE do_cont
  BY <1>22 DEF do_cont, Line, cpu, uart, edit, local
<1>23. CASE do_dw
  BY <1>23 DEF do_dw, Line, cpu, uart, edit, local
<1>24. CASE do_db
  BY <1>24 DEF do_db, Line, cpu, uart, edit, local
<1>25. CASE rd_safe
  BY <1>25 DEF rd_safe, Goto, cpu, uart, edit, local
<1>26. CASE Load
  BY <1>26 DEF Load, Trap, cpu, uart, edit, local, Csrs
<1>27. CASE rd_fail
  BY <1>27 DEF rd_fail, Goto, cpu, uart, edit, local
<1>28. CASE UNCHANGED vars
  BY <1>28 DEF vars, cpu, uart, edit, local
<1> QED
  BY <1>1, <1>2, <1>3, <1>4, <1>5, <1>6, <1>7, <1>8, <1>9, <1>10, <1>11, <1>12,
     <1>13, <1>14, <1>15, <1>16, <1>17, <1>18, <1>19, <1>20, <1>21, <1>22, <1>23,
     <1>24, <1>25, <1>26, <1>27, <1>28 DEF Next, Monitor

\* A dump has shown the first words of what was asked for.
LEMMA DumpInvStep ==
  ASSUME IInv, [Next]_vars
  PROVE  DumpInv'
<1> USE DEF IInv, TypeInv, DumpInv, ShownIsTrue, Idle, Dump
<1>1. CASE Receive
  <2>1. cmdbuf' = cmdbuf
    BY <1>1 DEF Receive, cpu, uart, edit, local
  <2> QED
    BY <1>1, <2>1, SameLine DEF Receive, cpu, uart, edit, local
<1>2. CASE SuperStep
  BY <1>2 DEF SuperStep, cpu, uart, edit, local
<1>3. CASE Interrupt
  BY <1>3 DEF Interrupt, Trap, cpu, uart, edit, local, EntryInv, SupervisorUndisturbed
<1>4. CASE start
  BY <1>4 DEF start, Goto, Acknowledge, cpu, uart, edit, local
<1>5. CASE exit_mode_m
  BY <1>5 DEF exit_mode_m, Mret, cpu, uart, edit, local
<1>6. CASE SwapStack
  BY <1>6 DEF SwapStack, Goto, cpu, uart, edit, local
<1>7. CASE SaveFrame
  BY <1>7 DEF SaveFrame, Goto, cpu, uart, edit, local
<1>8. CASE mach_exception_handler
  BY <1>8 DEF mach_exception_handler, Goto, cpu, uart, edit, local
<1>9. CASE RxEmpty
  BY <1>9 DEF RxEmpty, Goto, cpu, uart, edit, local
<1>10. CASE ReadRx
  BY <1>10 DEF ReadRx, Goto, cpu, uart, edit, local
<1>11. CASE AckRx
  BY <1>11 DEF AckRx, Goto, Acknowledge, cpu, uart, edit, local
<1>12. CASE RestoreCsrs
  BY <1>12 DEF RestoreCsrs, Goto, cpu, uart, edit, local
<1>13. CASE RestoreFrame
  BY <1>13 DEF RestoreFrame, Mret, cpu, uart, edit, local
<1>14. CASE Enter
  BY <1>14 DEF Enter, Goto, cpu, uart, edit, local
<1>15. CASE Erase
  BY <1>15 DEF Erase, Return, Goto, cpu, uart, edit, local
<1>16. CASE Ignore
  BY <1>16 DEF Ignore, Return, Goto, cpu, uart, edit, local
<1>17. CASE Put
  BY <1>17 DEF Put, Return, Goto, cpu, uart, edit, local
<1>18. CASE Finish
  BY <1>18 DEF Finish, Goto, cpu, uart, edit, local
<1>19. CASE Text
  <2>1. pc' = "prompt" /\ cmdbuf' = cmdbuf /\ shown' = <<>>
    BY <1>19 DEF Text, Goto, cpu, uart, edit, local
  <2>2. ~Accepted({regs, dw, db})
    BY <1>19, Refused DEF Text
  <2> QED
    BY <2>1, <2>2, SameLine, AcceptedParts
<1>20. CASE do_regs
  <2>1. pc' = "prompt" /\ cmdbuf' = cmdbuf /\ shadow' = shadow /\ LineIs(regs)
    BY <1>20 DEF do_regs, Line, LineIs, cpu, uart, edit, local
  <2>2. shown' = <<shadow.pc, shadow.regs.sp, shadow.regs.tmp, shadow.regs.sav>>
    BY <1>20 DEF do_regs, Line, cpu, uart, edit, local, HandlerInv, Console
  <2>3. ~Accepted({dw, db}) /\ Accepted({regs, dw, db})
    BY <2>1, Chosen
  <2> QED
    BY <2>1, <2>2, <2>3, SameLine
<1>21. CASE do_stop
  <2>1. pc' = "prompt" /\ cmdbuf' = cmdbuf /\ shown' = <<>> /\ LineIs(stop)
    BY <1>21 DEF do_stop, Line, LineIs, cpu, uart, edit, local
  <2>2. ~Accepted({regs, dw, db})
    BY <2>1, Chosen
  <2> QED
    BY <2>1, <2>2, SameLine, AcceptedParts
<1>22. CASE do_cont
  <2>1. pc' = "prompt" /\ cmdbuf' = cmdbuf /\ shown' = <<>> /\ LineIs(cont)
    BY <1>22 DEF do_cont, Line, LineIs, cpu, uart, edit, local
  <2>2. ~Accepted({regs, dw, db})
    BY <2>1, Chosen
  <2> QED
    BY <2>1, <2>2, SameLine, AcceptedParts
<1>23. CASE do_dw
  <2>1. /\ pc = "console_line" /\ pc' = "dump" /\ cmdbuf' = cmdbuf /\ shown' = shown
        /\ cmdbuf # <<>> /\ cmdbuf[1] = dw /\ LineIs(dw)
    BY <1>23 DEF do_dw, Line, LineIs, cpu, uart, edit, local
  <2>7. Accepted({dw, db})
    BY <2>1, Chosen
  <2>2. shown = <<>> /\ Len(shown) = 0
    BY <2>1
  <2>3. argx(1) \in 0..2 * Half - 1 /\ argx(2) \in 0..2 * Half - 1
    BY ArgFacts
  <2>4. job'.size = 4 /\ job'.addr = argx(1) /\ job'.count \in Nat
    BY <1>23, <2>3, MonitorAssumption DEF do_dw, Line, cpu, uart, edit, local
  <2>5. job'.count = DumpCount
    BY <1>23, <2>1, <2>3, MonitorAssumption DEF do_dw, Line, cpu, uart, edit,
       local, DumpCount, dw, db
  <2>6. argx(1) = (argx(1) + 0 * 4) % (2 * Half)
    <3>1. argx(1) + 0 * 4 = argx(1) /\ 2 * Half \in Nat
      BY <2>3, MonitorAssumption
    <3> QED
      BY <2>3, <3>1, ModSmall
  <2> QED
    BY <2>1, <2>2, <2>4, <2>5, <2>6, <2>7, SameLine DEF dw, db
<1>24. CASE do_db
  <2>1. /\ pc = "console_line" /\ pc' = "dump" /\ cmdbuf' = cmdbuf /\ shown' = shown
        /\ cmdbuf # <<>> /\ cmdbuf[1] = db /\ LineIs(db)
    BY <1>24 DEF do_db, Line, LineIs, cpu, uart, edit, local
  <2>7. Accepted({dw, db})
    BY <2>1, Chosen
  <2>2. shown = <<>> /\ Len(shown) = 0
    BY <2>1
  <2>3. argx(1) \in 0..2 * Half - 1 /\ argx(2) \in 0..2 * Half - 1
    BY ArgFacts
  <2>4. job'.size = 1 /\ job'.addr = argx(1) /\ job'.count \in Nat
    BY <1>24, <2>3, MonitorAssumption DEF do_db, Line, cpu, uart, edit, local
  <2>5. job'.count = DumpCount
    BY <1>24, <2>1, <2>3, MonitorAssumption DEF do_db, Line, cpu, uart, edit,
       local, DumpCount, dw, db
  <2>6. argx(1) = (argx(1) + 0 * 1) % (2 * Half)
    <3>1. argx(1) + 0 * 1 = argx(1) /\ 2 * Half \in Nat
      BY <2>3, MonitorAssumption
    <3> QED
      BY <2>3, <3>1, ModSmall
  <2> QED
    BY <2>1, <2>2, <2>4, <2>5, <2>6, <2>7, SameLine DEF dw, db
<1>25. CASE rd_safe
  <2>1. /\ cmdbuf' = cmdbuf /\ shown' = shown /\ job' = job
        /\ Len(shown) \in Nat /\ job.count \in Nat /\ Len(shown) <= job.count
    BY <1>25 DEF rd_safe, Goto, cpu, uart, edit, local, Jobs
  <2>2. CASE Len(shown) < job.count
    <3>1. pc' = "lw" /\ reg'.tmp = 0
      BY <1>25, <2>2 DEF rd_safe, Goto, cpu, uart, edit, local, Regs
    <3> QED
      BY <1>25, <2>1, <2>2, <3>1, SameLine DEF rd_safe, Goto, cpu, uart, edit, local
  <2>3. CASE ~(Len(shown) < job.count)
    <3>1. pc' = "prompt" /\ Len(shown) = job.count
      BY <1>25, <2>1, <2>3 DEF rd_safe, Goto, cpu, uart, edit, local
    <3>2. /\ cmdbuf[1] \in {dw, db} /\ job.count = DumpCount /\ Accepted({dw, db})
          /\ \A i \in 1..Len(shown) : shown[i] = DumpWord(i)
      BY <1>25 DEF rd_safe, Goto, cpu, uart, edit, local
    <3>3. ~Accepted({regs}) /\ Accepted({regs, dw, db})
      BY <3>2, AcceptedParts
    <3> QED
      BY <2>1, <3>1, <3>2, <3>3, SameLine
  <2> QED
    BY <2>2, <2>3
<1>26. CASE Load
  <2>1. /\ cmdbuf' = cmdbuf /\ shown' = shown /\ job' = job /\ pc' = "rd_fail"
        /\ Len(shown) \in Nat /\ argx(1) \in Nat /\ reg.tmp = 0
    BY <1>26, ArgFacts, MonitorAssumption DEF Load, Trap, cpu, uart, edit, local,
       HandlerInv
  <2>2. reg'.tmp = IF Readable(job.addr, job.size) THEN Contents(job.addr) ELSE 0
    BY <1>26, <2>1 DEF Load, Regs
  <2>3. /\ job.size = (IF cmdbuf[1] = db THEN 1 ELSE 4)
        /\ job.addr = (argx(1) + Len(shown) * job.size) % (2 * Half)
    BY <1>26 DEF Load, Trap, cpu, uart, edit, local
  <2>4. DumpWord(Len(shown) + 1) =
          IF Readable(job.addr, job.size) THEN Contents(job.addr) ELSE 0
    <3>1. Len(shown) + 1 - 1 = Len(shown)
      BY <2>1
    <3> QED
      BY <2>3, <3>1 DEF DumpWord
  <2>5. /\ cmdbuf # <<>> /\ cmdbuf[1] \in {dw, db} /\ Accepted({dw, db})
        /\ job.count = DumpCount /\ Len(shown) < job.count /\ Len(shown) <= job.count
        /\ \A i \in 1..Len(shown) : shown[i] = DumpWord(i)
    BY <1>26 DEF Load, Trap, cpu, uart, edit, local
  <2>6. /\ DumpCount' = DumpCount /\ argx(1)' = argx(1)
        /\ \A i \in Nat : DumpWord(i)' = DumpWord(i)
        /\ Accepted({dw, db})' = Accepted({dw, db})
    BY <2>1, SameLine
  <2> QED
    BY <2>1, <2>2, <2>3, <2>4, <2>5, <2>6
<1>27. CASE rd_fail
  <2> DEFINE n == Len(shown)
             m == 2 * Half
  <2>1. /\ cmdbuf' = cmdbuf /\ shown' = Append(shown, reg.tmp) /\ pc' = "dump"
        /\ n \in Nat /\ argx(1) \in Nat /\ job.count \in Nat /\ m \in Nat \ {0}
    <3>1. n \in Nat /\ m \in Nat \ {0} /\ job.count \in Nat
      BY MonitorAssumption DEF Jobs
    <3>2. argx(1) \in Nat
      BY ArgFacts, MonitorAssumption
    <3> QED
      BY <1>27, <3>1, <3>2 DEF rd_fail, Goto, cpu, uart, edit, local
  <2>2. /\ job'.addr = (job.addr + job.size) % m
        /\ job'.size = job.size /\ job'.count = job.count
    BY <1>27 DEF rd_fail, Goto, cpu, uart, edit, local, Jobs
  <2>3. /\ cmdbuf # <<>> /\ cmdbuf[1] \in {dw, db} /\ Accepted({dw, db})
        /\ job.size = (IF cmdbuf[1] = db THEN 1 ELSE 4)
        /\ job.count = DumpCount /\ n < job.count
        /\ job.addr = (argx(1) + n * job.size) % m
        /\ \A i \in 1..n : shown[i] = DumpWord(i)
        /\ reg.tmp = DumpWord(n + 1)
    BY <1>27 DEF rd_fail, Goto, cpu, uart, edit, local
  <2>4. job'.addr = (argx(1) + (n + 1) * job.size) % m
    <3>1. job.size \in Nat
      BY <2>3
    <3> HIDE DEF m
    <3>2. ASSUME NEW x \in Nat PROVE ((x % m) + job.size) % m = (x + job.size) % m
      BY <2>1, <3>1, ModAdd, Zenon
    <3>3. argx(1) + n * job.size \in Nat
      BY <2>1, <3>1, NextAddress, Zenon
    <3>4. argx(1) + n * job.size + job.size = argx(1) + (n + 1) * job.size
      <4>1. PICK a \in Nat, k \in Nat, z \in Nat : a = argx(1) /\ k = n /\ z = job.size
        BY <2>1, <3>1, Zenon
      <4>2. a + k * z + z = a + (k + 1) * z
        BY NextAddress
      <4> QED
        BY <4>1, <4>2, Zenon
    <3> QED
      BY <2>2, <2>3, <3>2, <3>3, <3>4
  <2>5. Len(shown') = n + 1 /\ \A i \in 1..n + 1 : shown'[i] = DumpWord(i)
    BY <2>1, <2>3
  <2> HIDE DEF m
  <2>6. Len(shown') <= job'.count
    BY <2>1, <2>2, <2>3, <2>5
  <2>7. /\ DumpCount' = DumpCount /\ argx(1)' = argx(1)
        /\ \A i \in Nat : DumpWord(i)' = DumpWord(i)
        /\ Accepted({dw, db})' = Accepted({dw, db})
    BY <2>1, SameLine
  <2>8. \A i \in 1..Len(shown') : shown'[i] = DumpWord(i)'
    BY <2>1, <2>5, <2>7
  <2> QED
    BY <2>1, <2>2, <2>3, <2>4, <2>5, <2>6, <2>7, <2>8 DEF m
<1>28. CASE UNCHANGED vars
  BY <1>28, SameLine DEF vars, cpu, uart, edit, local
<1> QED
  BY <1>1, <1>2, <1>3, <1>4, <1>5, <1>6, <1>7, <1>8, <1>9, <1>10, <1>11, <1>12,
     <1>13, <1>14, <1>15, <1>16, <1>17, <1>18, <1>19, <1>20, <1>21, <1>22, <1>23,
     <1>24, <1>25, <1>26, <1>27, <1>28 DEF Next, Monitor

-----------------------------------------------------------------------------
(* The theorems.                                                           *)

\* The initial states satisfy the inductive invariant.
LEMMA InitInv == Init => IInv
<1> SUFFICES ASSUME Init PROVE IInv
  OBVIOUS
<1>1. TypeInv
  <2>1. csr \in Csrs
    BY DEF Init, Csrs, Modes, Junk
  <2>2. reg \in Regs /\ [reg EXCEPT !.sp = 0] \in Regs
    BY EntrySpType DEF Init, Regs, Junk
  <2>3. frame \in Frames /\ shadow \in Frames
    BY <2>2 DEF Init, Frames, Junk
  <2>4. status \in Status /\ job \in Jobs
    BY DEF Init, Status, Modes, Jobs, NoJob
  <2>5. /\ fifo \in Seq(Keys) /\ cmdbuf \in Seq(Keys) /\ screen \in Seq(Keys)
        /\ shown \in Seq(Int)
    BY DEF Init
  <2>6. pending \in BOOLEAN /\ STOP \in BOOLEAN
    BY DEF Init
  <2>7. upc \in Int /\ ch \in Keys \cup {NUL} /\ pc = "start"
    BY DEF Init
  <2> QED
    BY <2>1, <2>2, <2>3, <2>4, <2>5, <2>6, <2>7 DEF TypeInv, Idle
<1>2. EntryInv
  BY DEF Init, EntryInv, SupervisorUndisturbed
<1>3. HandlerInv
  BY DEF Init, HandlerInv, Quiet, Console, Dump
<1>4. LineInv
  BY MonitorAssumption DEF Init, LineInv
<1>5. DumpInv
  BY DEF Init, DumpInv, ShownIsTrue, Dump
<1> QED
  BY <1>1, <1>2, <1>3, <1>4, <1>5 DEF IInv

\* Every step keeps it.
LEMMA NextInv == IInv /\ [Next]_vars => IInv'
BY TypeInvStep, EntryInvStep, HandlerInvStep, LineInvStep, DumpInvStep DEF IInv

\* IInv holds in every reachable state.
LEMMA Invariance == Spec => []IInv
BY InitInv, NextInv, PTL DEF Spec

(* mach_exception_entry, the handler and the commands give the supervisor  *)
(* program back as they found it, whatever is typed and whichever reads of *)
(* a dump fault.                                                           *)
THEOREM SupervisorSafety == Spec => []SupervisorUndisturbed
<1>1. IInv => SupervisorUndisturbed
  BY DEF IInv, EntryInv
<1> QED
  BY <1>1, Invariance, PTL

(* console_char() keeps the terminal and cmdbuf in step and never fills    *)
(* the last byte of cmdbuf, for any buffer size.                           *)
THEOREM LineSafety == Spec => []ScreenShowsLine
<1>1. IInv => ScreenShowsLine
  BY DEF IInv, LineInv, ScreenShowsLine
<1> QED
  BY <1>1, Invariance, PTL

(* do_dw(), do_db() and do_regs() show what was asked for, for any         *)
(* readable memory and any count, the address wrapping at 2^32 included.   *)
THEOREM DumpSafety == Spec => []ShownIsTrue
<1>1. IInv => ShownIsTrue
  BY DEF IInv, DumpInv
<1> QED
  BY <1>1, Invariance, PTL
=============================================================================
