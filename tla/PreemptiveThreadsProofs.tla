----------------------- MODULE PreemptiveThreadsProofs -----------------------
(***************************************************************************)
(* Proofs about PreemptiveThreads, for any number of workers and rows.     *)
(***************************************************************************)
EXTENDS PreemptiveThreads, TLAPS, WellFoundedInduction

BootLabels    == {"start", "thread_create", "timer_enable"} \cup CreateLabels
Interruptible == CodeLabels \cup {"thread_exit"}
HandlerLabels == {"interrupt_handler", "ih_switch", "ih_return", "trap_exit"}

(* Privilege and interrupt enable, now and as the next sret will set them. *)
StatusInv ==
  /\ mode = "S"
  /\ pc \in Interruptible \cup {"timer_enable"} => sstatus.SIE
  /\ pc = "thread_create" /\ nextId > 1 => sstatus.SIE
  /\ pc \in CreateLabels \cup ExitLabels \cup TrapLabels \cup
            {"start", "all_exited"} => ~sstatus.SIE
  /\ pc \in TrapLabels \cup (ExitLabels \ {"te_status"}) =>
       sstatus.SPP = "S" /\ sstatus.SPIE
  /\ timer.EV_ENABLE => pc \notin BootLabels

(* Where the code returns to: sret only into interruptible code, and the   *)
(* worker function only into thread_exit.                                  *)
ReturnInv ==
  /\ pc \in CodeLabels => reg.ra = "thread_exit"
  /\ pc \in {"trap_entry", "sret"} =>
       /\ sepc \in Interruptible
       /\ sepc \in CodeLabels => reg.ra = "thread_exit"

(* tp and sp belong to the same thread; boot code runs on thread 0.        *)
StackInv ==
  /\ pc = "start" => reg.sp = <<0, 0>>
  /\ pc # "start" =>
       /\ reg.tp \in Threads
       /\ reg.sp = <<reg.tp, IF pc \in HandlerLabels THEN 1 ELSE 0>>
  /\ pc \in BootLabels \ {"start"} => reg.tp = 0

FrameOK(t) ==
  /\ frame[t].pc \in Interruptible
  /\ frame[t].pc \in CodeLabels => frame[t].ra = "thread_exit"

Ready(t) ==
  /\ ctxt[t].pc \in {"trap_exit", "ih_return"}
  /\ ctxt[t].tp = t
  /\ ctxt[t].sp = <<t, 1>>
  /\ FrameOK(t)

(* What a switch or a trap_exit is going to load.                          *)
ContextInv ==
  /\ \A t \in Threads : Suspended(t) => Ready(t)
  /\ pc \in HandlerLabels => FrameOK(Current)

(* Which ids are in use.                                                   *)
IdInv ==
  /\ pc \in CreateLabels \ {"tc_alloc"} => nextId > 1
  /\ pc = "tc_alloc" => nextId <= N
  /\ \A t \in Threads : t >= nextId => next[t] = Null
  /\ pc = "start" => nextId = 1

(* The ring without t, whose neighbours are n and p, while one of the two  *)
(* pointers at t is set and the other is not.                              *)
RingOpen(t, n, p) ==
  /\ n \in Members \ {t} /\ p \in Members \ {t} /\ t \in Members
  /\ next[t] = n /\ prev[t] = p /\ next[p] = t /\ prev[n] = p
  /\ \A u \in Members \ {t, p} : next[u] \in Members \ {t} /\ prev[next[u]] = u
  /\ \A u \in Members \ {t, n} : prev[u] \in Members \ {t} /\ next[prev[u]] = u

RingInv ==
  /\ pc = "start" => RingOn(Members, next, prev) /\ 0 \in Members
  /\ pc = "tc_link_prev" =>
       /\ RingOn(Members \ {NewThread}, next, prev)
       /\ NewThread \in Members
       /\ Current \in Members \ {NewThread}
       /\ next[NewThread] = Current
       /\ prev[NewThread] = prev[Current]
  /\ pc = "tc_link_next" =>
       RingOpen(NewThread, Current, prev[NewThread])
  /\ pc = "te_unlink_prev" =>
       /\ local.next = next[Current] /\ local.prev = prev[Current]
       /\ local.next # Current
  /\ pc = "te_unlink_next" => RingOpen(Current, local.next, local.prev)
  /\ pc = "te_clear" =>
       /\ RingOn(Members \ {Current}, next, prev)
       /\ Current \in Members /\ local.next \in Members \ {Current}
  /\ pc = "te_switch" =>
       /\ RingOn(Members, next, prev)
       /\ Current \notin Members /\ local.next \in Members
  /\ pc \notin {"start", "tc_link_prev", "tc_link_next", "te_unlink_next",
                "te_clear", "te_switch"} =>
       RingOn(Members, next, prev) /\ Current \in Members

(* The running thread as it will be once the trap it may be in returns.    *)
LogicalPc == IF pc \in {"trap_entry", "sret"} THEN sepc
             ELSE IF pc \in HandlerLabels THEN frame[Current].pc ELSE pc

LogicalTmp == IF pc \in HandlerLabels THEN frame[Current].tmp ELSE reg.tmp

(* In the framebuffer f, worker w has drawn its first n rows.              *)
RowsDrawn(f, w, n) == \A r \in 0..n-1 : f[<<w, r>>] = <<w, r>>

(* How far thread t is and what its registers and its surface, of colour   *)
(* s, hold there.                                                          *)
WorkState(f, s, t, lpc, ltmp, lsav) ==
  /\ lpc = "fn" => t \in Workers /\ ltmp = <<t, 0>>
  /\ lpc \in CodeLabels \ {"fn"} =>
       /\ t \in Workers
       /\ lsav = <<t, lsav[2]>>
       /\ t \notin Endless => RowsDrawn(f, t, lsav[2])
       /\ t \in Endless => lsav[2] < Rows
  /\ lpc \in {"setcolor", "plot"} => lsav[2] < Rows
  /\ lpc = "setcolor" => ltmp = lsav
  /\ lpc = "plot" => s = lsav
  /\ lpc \notin CodeLabels /\ t \in Workers => RowsDrawn(f, t, Rows)

RunningState ==
  WorkState(fb, surf[Current], Current, LogicalPc, LogicalTmp, reg.sav)

WaitingState(t) ==
  WorkState(fb, surf[t], t, frame[t].pc, frame[t].tmp, ctxt[t].sav)

PictureInv ==
  /\ \A v \in Workers \X (0..Rows-1) : fb[v] \in {v, Blank}
  /\ pc # "start" => RunningState
  /\ \A t \in Threads : Suspended(t) => WaitingState(t)
  /\ \A w \in Workers : ctxt[w].pc = "zombie" => RowsDrawn(fb, w, Rows)

IInv == /\ TypeOK /\ NoZombie /\ StatusInv /\ ReturnInv /\ StackInv
        /\ ContextInv /\ IdInv /\ RingInv /\ PictureInv

-----------------------------------------------------------------------------
(* Facts about the constants that every step below rests on.               *)
LEMMA ConstantFacts ==
  /\ 0 \in Threads /\ Null \notin Threads /\ Threads \subseteq Pointer
  /\ Workers \subseteq Threads
  /\ Zero \in Value /\ Blank \in Value
  /\ \A t \in Threads : <<t, 0>> \in Value
  /\ \A t \in Threads : <<t, 0>> \in StackPtr /\ <<t, 1>> \in StackPtr
BY ThreadsAssumption
DEF Threads, Workers, Null, Pointer, Zero, Blank, Value, StackPtr

(* The thread thread_create works on is a worker.                          *)
LEMMA NewThreadType ==
  ASSUME IInv, pc \in CreateLabels \ {"tc_alloc"}
  PROVE  NewThread \in Workers /\ NewThread \in Threads
BY ThreadsAssumption
DEF IInv, TypeOK, IdInv, NewThread, Workers, Threads

(* The two places that switch load the context of a suspended thread (or,  *)
(* in the handler, of the only thread): it resumes at the end of a trap,   *)
(* on its own stack, above a frame that leads back into its own code.      *)
LEMMA InterruptSwitchEffect ==
  ASSUME IInv, InterruptSwitch
  PROVE  LET n == next[Current]
         IN /\ n \in Members
            /\ pc' \in {"trap_exit", "ih_return"}
            /\ reg'.tp = n /\ reg'.sp = <<n, 1>>
            /\ reg'.sav = IF n = Current THEN reg.sav ELSE ctxt[n].sav
            /\ reg'.tmp = reg.tmp
            /\ FrameOK(n)
            /\ n # Current => Suspended(n)
            /\ ctxt' = [ctxt EXCEPT ![Current] = SavedContext("ih_return")]
            /\ reg' \in [tp : Pointer, sp : StackPtr, ra : Labels,
                         tmp : Value, sav : Value]
<1> DEFINE n == next[Current]
<1>0. pc = "ih_switch"
  BY DEF InterruptSwitch
<1>1. RingOn(Members, next, prev) /\ Current \in Members
  BY <1>0 DEF IInv, RingInv
<1>2. n \in Members
  BY <1>1 DEF RingOn
<1>3. n \in Threads /\ Current \in Threads
  BY <1>1, <1>2 DEF Members
<1>4. ctxt' = [ctxt EXCEPT ![Current] = SavedContext("ih_return")]
  BY DEF InterruptSwitch, ContextSwitch
<1>5. /\ pc' = ctxt'[n].pc
      /\ reg' = [reg EXCEPT !.tp = ctxt'[n].tp, !.sp = ctxt'[n].sp,
                            !.sav = ctxt'[n].sav, !.ra = ctxt'[n].pc]
  BY <1>4 DEF InterruptSwitch, ContextSwitch
<1>6. ctxt \in [Threads -> CFrame]
      /\ reg \in [tp : Pointer, sp : StackPtr, ra : Labels, tmp : Value,
                  sav : Value]
  BY DEF IInv, TypeOK
<1>7. CASE n = Current
  <2>1. ctxt'[n] = SavedContext("ih_return")
    BY <1>3, <1>4, <1>6, <1>7
  <2>2. FrameOK(Current) /\ reg.sp = <<reg.tp, 1>>
    BY <1>0 DEF IInv, ContextInv, StackInv, HandlerLabels
  <2>3. SavedContext("ih_return") \in CFrame
    BY <1>3, <1>6 DEF SavedContext, CFrame, Current, Labels, TrapLabels
  <2>4. reg' \in [tp : Pointer, sp : StackPtr, ra : Labels, tmp : Value,
                  sav : Value]
    BY <1>5, <1>6, <2>1, <2>3, ConstantFacts DEF CFrame
  <2> QED
    BY <1>2, <1>4, <1>5, <1>6, <1>7, <2>1, <2>2, <2>4
    DEF SavedContext, Current
<1>8. CASE n # Current
  <2>1. ctxt'[n] = ctxt[n]
    BY <1>3, <1>4, <1>6, <1>8
  <2>2. Suspended(n)
    BY <1>0, <1>2, <1>8 DEF Suspended, HalfCreated
  <2>3. /\ ctxt[n].pc \in {"trap_exit", "ih_return"}
        /\ ctxt[n].tp = n /\ ctxt[n].sp = <<n, 1>>
        /\ FrameOK(n)
    BY <1>3, <2>2 DEF IInv, ContextInv, Ready
  <2>4. ctxt[n] \in CFrame
    BY <1>3, <1>6
  <2>5. reg' \in [tp : Pointer, sp : StackPtr, ra : Labels, tmp : Value,
                  sav : Value]
    BY <1>5, <1>6, <2>1, <2>4, ConstantFacts DEF CFrame
  <2> QED
    BY <1>2, <1>4, <1>5, <1>6, <1>8, <2>1, <2>2, <2>3, <2>5
<1> QED
  BY <1>7, <1>8

(* What thread_exit switches to: another thread of the ring, as above.     *)
LEMMA ExitSwitchEffect ==
  ASSUME IInv, ExitSwitch
  PROVE  LET n == local.next
         IN /\ n \in Members /\ n # Current /\ Suspended(n)
            /\ pc' \in {"trap_exit", "ih_return"}
            /\ reg'.tp = n /\ reg'.sp = <<n, 1>>
            /\ reg'.sav = ctxt[n].sav
            /\ reg'.tmp = reg.tmp
            /\ FrameOK(n)
            /\ ctxt' = [ctxt EXCEPT ![Current] = SavedContext("zombie")]
            /\ reg' \in [tp : Pointer, sp : StackPtr, ra : Labels,
                         tmp : Value, sav : Value]
<1> DEFINE n == local.next
<1>0. pc = "te_switch"
  BY DEF ExitSwitch
<1>1. Current \notin Members /\ n \in Members
  BY <1>0 DEF IInv, RingInv
<1>2. n \in Threads /\ n # Current /\ Current \in Threads
  BY <1>0, <1>1 DEF Members, IInv, StackInv, Current
<1>3. ctxt' = [ctxt EXCEPT ![Current] = SavedContext("zombie")]
  BY DEF ExitSwitch, ContextSwitch
<1>4. /\ pc' = ctxt'[n].pc
      /\ reg' = [reg EXCEPT !.tp = ctxt'[n].tp, !.sp = ctxt'[n].sp,
                            !.sav = ctxt'[n].sav, !.ra = ctxt'[n].pc]
  BY <1>3 DEF ExitSwitch, ContextSwitch
<1>5. ctxt \in [Threads -> CFrame]
      /\ reg \in [tp : Pointer, sp : StackPtr, ra : Labels, tmp : Value,
                  sav : Value]
  BY DEF IInv, TypeOK
<1>6. ctxt'[n] = ctxt[n]
  BY <1>2, <1>3, <1>5
<1>7. Suspended(n)
  BY <1>0, <1>1, <1>2 DEF Suspended, HalfCreated
<1>8. /\ ctxt[n].pc \in {"trap_exit", "ih_return"}
      /\ ctxt[n].tp = n /\ ctxt[n].sp = <<n, 1>>
      /\ FrameOK(n)
  BY <1>2, <1>7 DEF IInv, ContextInv, Ready
<1>9. ctxt[n] \in CFrame
  BY <1>2, <1>5
<1>10. reg' \in [tp : Pointer, sp : StackPtr, ra : Labels, tmp : Value,
                 sav : Value]
  BY <1>4, <1>5, <1>6, <1>9, ConstantFacts DEF CFrame
<1> QED
  BY <1>1, <1>2, <1>3, <1>4, <1>5, <1>6, <1>7, <1>8, <1>10

(* Privilege and interrupt enable are right after every step.              *)
LEMMA StatusStep == IInv /\ [Next]_vars => StatusInv'
<1> SUFFICES ASSUME IInv, [Next]_vars PROVE StatusInv'
  OBVIOUS
<1> USE DEF IInv, StatusInv, TypeOK, Goto, vars, csrs, ring, screen, Labels,
  CodeLabels, CreateLabels, ExitLabels, TrapLabels, BootLabels, Interruptible,
  HandlerLabels
<1>1. CASE ThreadInit \/ TimerEvEnable
  BY <1>1 DEF ThreadInit, TimerEvEnable, IdInv, ReturnInv
<1>2. CASE TimerInit
  BY <1>2, ThreadsAssumption DEF TimerInit
<1>3. CASE Creating
  BY <1>3 DEF Creating, CreateIrqDisable, CreateAlloc, CreateLinkPrev,
    CreateLinkNext, CreateFrame, CreateIrqEnable, IdInv, ReturnInv
<1>4. CASE ExitIrqDisable
  BY <1>4 DEF ExitIrqDisable, IdInv, ReturnInv
<1>5. CASE ExitStatus \/ ExitLoad \/ ExitUnlinkPrev \/ ExitUnlinkNext \/
      ExitClear
  BY <1>5 DEF ExitStatus, ExitLoad, ExitUnlinkPrev, ExitUnlinkNext, ExitClear,
    IdInv, ReturnInv
<1>6. CASE ExitSwitch
  BY <1>6, ExitSwitchEffect DEF ExitSwitch
<1>7. CASE Rendering
  BY <1>7 DEF Rendering, FnEntry, FnColor, FnReturn, FnSetColor, FnPlot,
    IdInv, ReturnInv
<1>8. CASE TrapEntry \/ InterruptHandler \/ InterruptReturn \/ TrapExit \/ Sret
  BY <1>8 DEF TrapEntry, InterruptHandler, InterruptReturn, TrapExit, Sret,
    IdInv, ReturnInv
<1>9. CASE InterruptSwitch
  BY <1>9, InterruptSwitchEffect DEF InterruptSwitch
<1>10. CASE Interrupt
  BY <1>10 DEF Interrupt, IdInv, ReturnInv
<1>11. CASE TimerTick
  BY <1>11 DEF TimerTick, IdInv, ReturnInv
<1>12. CASE Spin
  BY <1>12 DEF Spin, IdInv, ReturnInv
<1>13. CASE UNCHANGED vars
  BY <1>13 DEF IdInv, ReturnInv
<1> QED
  BY <1>1, <1>2, <1>3, <1>4, <1>5, <1>6, <1>7, <1>8, <1>9, <1>10, <1>11,
    <1>12, <1>13
  DEF Next, Instruction, Starting, Creating, Unlinking, Rendering, Trapping

(* No step leads to the zombie message.                                    *)
LEMMA NoZombieStep == IInv /\ [Next]_vars => NoZombie'
<1> SUFFICES ASSUME IInv, [Next]_vars PROVE NoZombie'
  OBVIOUS
<1> USE DEF IInv, NoZombie, ReturnInv, Goto, vars, csrs, ring, screen, Labels,
  CodeLabels, CreateLabels, ExitLabels, TrapLabels, BootLabels, Interruptible,
  HandlerLabels
<1>1. CASE Starting
  BY <1>1 DEF Starting, ThreadInit, TimerInit, TimerEvEnable
<1>2. CASE Creating
  BY <1>2 DEF Creating, CreateIrqDisable, CreateAlloc, CreateLinkPrev,
    CreateLinkNext, CreateFrame, CreateIrqEnable
<1>3. CASE ExitIrqDisable
  BY <1>3 DEF ExitIrqDisable
<1>4. CASE ExitStatus \/ ExitLoad \/ ExitUnlinkPrev \/ ExitUnlinkNext \/
      ExitClear
  BY <1>4 DEF ExitStatus, ExitLoad, ExitUnlinkPrev, ExitUnlinkNext, ExitClear
<1>5. CASE ExitSwitch
  BY <1>5, ExitSwitchEffect DEF ExitSwitch
<1>6. CASE Rendering
  BY <1>6 DEF Rendering, FnEntry, FnColor, FnReturn, FnSetColor, FnPlot
<1>7. CASE TrapEntry \/ InterruptHandler \/ InterruptReturn \/ TrapExit \/ Sret
  BY <1>7 DEF TrapEntry, InterruptHandler, InterruptReturn, TrapExit, Sret
<1>8. CASE InterruptSwitch
  BY <1>8, InterruptSwitchEffect DEF InterruptSwitch
<1>9. CASE Interrupt
  BY <1>9 DEF Interrupt
<1>10. CASE TimerTick
  BY <1>10 DEF TimerTick
<1>11. CASE Spin
  BY <1>11 DEF Spin
<1>12. CASE UNCHANGED vars
  BY <1>12 DEF vars
<1> QED
  BY <1>1, <1>2, <1>3, <1>4, <1>5, <1>6, <1>7, <1>8, <1>9, <1>10, <1>11, <1>12
  DEF Next, Instruction, Starting, Creating, Unlinking, Rendering, Trapping

(* Return addresses stay right.                                            *)
LEMMA ReturnStep == IInv /\ [Next]_vars => ReturnInv'
<1> SUFFICES ASSUME IInv, [Next]_vars PROVE ReturnInv'
  OBVIOUS
<1> USE DEF IInv, ReturnInv, TypeOK, Goto, vars, csrs, ring, screen, Labels,
  CodeLabels, CreateLabels, ExitLabels, TrapLabels, BootLabels, Interruptible,
  HandlerLabels
<1>1. CASE Starting
  BY <1>1 DEF Starting, ThreadInit, TimerInit, TimerEvEnable
<1>2. CASE Creating
  BY <1>2 DEF Creating, CreateIrqDisable, CreateAlloc, CreateLinkPrev,
    CreateLinkNext, CreateFrame, CreateIrqEnable
<1>3. CASE ExitIrqDisable
  BY <1>3 DEF ExitIrqDisable
<1>4. CASE ExitStatus \/ ExitLoad \/ ExitUnlinkPrev \/ ExitUnlinkNext \/
      ExitClear
  BY <1>4 DEF ExitStatus, ExitLoad, ExitUnlinkPrev, ExitUnlinkNext, ExitClear
<1>5. CASE ExitSwitch
  BY <1>5, ExitSwitchEffect DEF ExitSwitch
<1>6. CASE Rendering
  BY <1>6 DEF Rendering, FnEntry, FnColor, FnReturn, FnSetColor, FnPlot
<1>7. CASE TrapEntry \/ InterruptHandler \/ InterruptReturn \/ Sret
  BY <1>7 DEF TrapEntry, InterruptHandler, InterruptReturn, Sret
<1>8. CASE InterruptSwitch
  BY <1>8, InterruptSwitchEffect DEF InterruptSwitch
<1>9. CASE TrapExit
  BY <1>9 DEF TrapExit, ContextInv, FrameOK, StackInv, StatusInv, NoZombie,
    Current
<1>10. CASE Interrupt
  BY <1>10 DEF Interrupt, ContextInv, FrameOK, StackInv, StatusInv, NoZombie,
    Current
<1>11. CASE TimerTick
  BY <1>11 DEF TimerTick
<1>12. CASE Spin
  BY <1>12 DEF Spin
<1>13. CASE UNCHANGED vars
  BY <1>13 DEF vars
<1> QED
  BY <1>1, <1>2, <1>3, <1>4, <1>5, <1>6, <1>7, <1>8, <1>9, <1>10, <1>11,
    <1>12, <1>13
  DEF Next, Instruction, Starting, Creating, Unlinking, Rendering, Trapping

(* sp and tp stay together.                                                *)
LEMMA StackStep == IInv /\ [Next]_vars => StackInv'
<1> SUFFICES ASSUME IInv, [Next]_vars PROVE StackInv'
  OBVIOUS
<1> USE DEF IInv, StackInv, TypeOK, Goto, vars, csrs, ring, screen, Labels,
  CodeLabels, CreateLabels, ExitLabels, TrapLabels, BootLabels, Interruptible,
  HandlerLabels
<1>1. CASE TimerInit \/ TimerEvEnable
  BY <1>1 DEF TimerInit, TimerEvEnable, ReturnInv
<1>2. CASE ThreadInit
  BY <1>2, ThreadsAssumption DEF ThreadInit, Threads
<1>3. CASE Creating
  BY <1>3 DEF Creating, CreateIrqDisable, CreateAlloc, CreateLinkPrev,
    CreateLinkNext, CreateFrame, CreateIrqEnable, ReturnInv
<1>4. CASE ExitIrqDisable
  BY <1>4 DEF ExitIrqDisable, ReturnInv
<1>5. CASE ExitStatus \/ ExitLoad \/ ExitUnlinkPrev \/ ExitUnlinkNext \/
      ExitClear
  BY <1>5 DEF ExitStatus, ExitLoad, ExitUnlinkPrev, ExitUnlinkNext, ExitClear,
    ReturnInv
<1>6. CASE ExitSwitch
  BY <1>6, ExitSwitchEffect DEF ExitSwitch, Members
<1>7. CASE Rendering
  BY <1>7 DEF Rendering, FnEntry, FnColor, FnReturn, FnSetColor, FnPlot,
    ReturnInv
<1>8. CASE InterruptHandler \/ InterruptReturn \/ Sret
  BY <1>8 DEF InterruptHandler, InterruptReturn, Sret, ReturnInv
<1>9. CASE TrapEntry
  BY <1>9 DEF TrapEntry
<1>10. CASE InterruptSwitch
  BY <1>10, InterruptSwitchEffect DEF InterruptSwitch, Members
<1>11. CASE TrapExit
  BY <1>11 DEF TrapExit
<1>12. CASE Interrupt
  BY <1>12 DEF Interrupt, StatusInv
<1>13. CASE TimerTick
  BY <1>13 DEF TimerTick, ReturnInv
<1>14. CASE Spin
  BY <1>14 DEF Spin, ReturnInv
<1>15. CASE UNCHANGED vars
  BY <1>15 DEF ReturnInv
<1> QED
  BY <1>1, <1>2, <1>3, <1>4, <1>5, <1>6, <1>7, <1>8, <1>9, <1>10, <1>11,
    <1>12, <1>13, <1>14, <1>15
  DEF Next, Instruction, Starting, Creating, Unlinking, Rendering, Trapping

(* Thread ids stay fresh.                                                  *)
LEMMA IdStep == IInv /\ [Next]_vars => IdInv'
<1> SUFFICES ASSUME IInv, [Next]_vars PROVE IdInv'
  OBVIOUS
<1> USE DEF IInv, IdInv, TypeOK, ReturnInv, Goto, vars, csrs, ring, screen,
  Labels, CodeLabels, CreateLabels, ExitLabels, TrapLabels, BootLabels,
  Interruptible, HandlerLabels
<1>1. CASE TimerInit \/ TimerEvEnable
  BY <1>1 DEF TimerInit, TimerEvEnable
<1>2. CASE ThreadInit
  BY <1>2, ThreadsAssumption DEF ThreadInit
<1>3. CASE CreateIrqDisable \/ CreateFrame \/ CreateIrqEnable
  BY <1>3 DEF CreateIrqDisable, CreateFrame, CreateIrqEnable
<1>4. CASE CreateAlloc
  BY <1>4 DEF CreateAlloc, StackInv, Current, Threads, Pointer, Members,
    RingInv, RingOpen, RingOn, NewThread
<1>5. CASE CreateLinkPrev
  BY <1>5 DEF CreateLinkPrev, StackInv, Current, Threads, Pointer, Members,
    RingInv, RingOpen, RingOn, NewThread
<1>6. CASE CreateLinkNext
  BY <1>6 DEF CreateLinkNext, StackInv, Current, Threads, Pointer, Members,
    RingInv, RingOpen, RingOn, NewThread
<1>7. CASE ExitIrqDisable
  BY <1>7 DEF ExitIrqDisable
<1>8. CASE ExitStatus \/ ExitLoad
  BY <1>8 DEF ExitStatus, ExitLoad
<1>9. CASE ExitUnlinkPrev
  BY <1>9 DEF ExitUnlinkPrev, StackInv, Current, Threads, Pointer, Members,
    RingInv, RingOpen, RingOn, NewThread
<1>10. CASE ExitUnlinkNext
  BY <1>10 DEF ExitUnlinkNext, StackInv, Current, Threads, Pointer, Members,
    RingInv, RingOpen, RingOn, NewThread
<1>11. CASE ExitClear
  BY <1>11 DEF ExitClear, StackInv, Current, Threads, Pointer, Members,
    RingInv, RingOpen, RingOn, NewThread
<1>12. CASE ExitSwitch
  BY <1>12, ExitSwitchEffect DEF ExitSwitch
<1>13. CASE Rendering
  BY <1>13 DEF Rendering, FnEntry, FnColor, FnReturn, FnSetColor, FnPlot
<1>14. CASE TrapEntry \/ InterruptHandler \/ InterruptReturn \/ TrapExit \/
      Sret
  BY <1>14 DEF TrapEntry, InterruptHandler, InterruptReturn, TrapExit, Sret
<1>15. CASE InterruptSwitch
  BY <1>15, InterruptSwitchEffect DEF InterruptSwitch
<1>16. CASE Interrupt
  BY <1>16 DEF Interrupt
<1>17. CASE TimerTick
  BY <1>17 DEF TimerTick
<1>18. CASE Spin
  BY <1>18 DEF Spin
<1>19. CASE UNCHANGED vars
  BY <1>19 DEF vars
<1> QED
  BY <1>1, <1>2, <1>3, <1>4, <1>5, <1>6, <1>7, <1>8, <1>9, <1>10, <1>11,
    <1>12, <1>13, <1>14, <1>15, <1>16, <1>17, <1>18, <1>19
  DEF Next, Instruction, Starting, Creating, Unlinking, Rendering, Trapping

(* A step that leaves the pointers and tp alone leaves the ring alone.     *)
LEMMA RingUnchanged ==
  ASSUME RingOn(Members, next, prev), Current \in Members,
         UNCHANGED <<next, prev>>, reg'.tp = reg.tp
  PROVE  RingOn(Members, next, prev)' /\ (Current \in Members)'
<1>1. Members' = Members
  BY DEF Members, Threads
<1> QED
  BY <1>1 DEF RingOn, Current

(* The ring is repaired by every call that opens it.                       *)
LEMMA RingStep == IInv /\ [Next]_vars => RingInv'
<1> SUFFICES ASSUME IInv, [Next]_vars PROVE RingInv'
  OBVIOUS
<1> USE DEF IInv, RingInv, TypeOK, ReturnInv, Goto, vars, csrs, ring, screen,
  Labels, CodeLabels, CreateLabels, ExitLabels, TrapLabels, BootLabels,
  Interruptible, HandlerLabels
<1>1. CASE TimerInit \/ TimerEvEnable
  BY <1>1, RingUnchanged DEF TimerInit, TimerEvEnable
<1>2. CASE ThreadInit
  BY <1>2, ThreadsAssumption DEF ThreadInit, Members, Current, NewThread,
    Threads, Pointer, RingOn, RingOpen
<1>3. CASE CreateIrqDisable \/ CreateFrame \/ CreateIrqEnable
  BY <1>3, RingUnchanged DEF CreateIrqDisable, CreateFrame, CreateIrqEnable
<1>4. CASE CreateAlloc
  <2> DEFINE t == nextId
  <2>1. RingOn(Members, next, prev) /\ Current \in Members
    BY <1>4 DEF CreateAlloc
  <2>2. t \in Threads /\ t \notin Members /\ NewThread' = t
    BY <1>4 DEF CreateAlloc, IdInv, NewThread, Threads, Members
  <2>3. /\ next' = [next EXCEPT ![t] = Current]
        /\ prev' = [prev EXCEPT ![t] = prev[Current]]
        /\ Current' = Current /\ Current \in Threads
    BY <2>1, <1>4 DEF CreateAlloc, Current, Members
  <2>4. Members' = Members \cup {t}
    <3>1. Current # Null
      BY <2>3, ThreadsAssumption DEF Threads, Null
    <3> QED
      BY <2>2, <2>3, <3>1 DEF Members
  <2>5. (Members \ {NewThread})' = Members
    BY <2>2, <2>4
  <2>6. RingOn(Members, next', prev')
    BY <2>1, <2>2, <2>3 DEF RingOn, Members
  <2>7. t # Current
    BY <2>1, <2>2
  <2>8. next'[t] = Current /\ prev'[t] = prev[Current]
        /\ prev'[Current] = prev[Current]
    BY <2>2, <2>3, <2>7
  <2> QED
    BY <1>4, <2>1, <2>2, <2>3, <2>4, <2>5, <2>6, <2>7, <2>8 DEF CreateAlloc
<1>5. CASE CreateLinkPrev
  <2> DEFINE t == NewThread
             p == prev[t]
  <2>1. /\ RingOn(Members \ {t}, next, prev)
        /\ t \in Members /\ Current \in Members \ {t}
        /\ next[t] = Current /\ p = prev[Current]
    BY <1>5 DEF CreateLinkPrev
  <2>2. p \in Members \ {t} /\ next[p] = Current
    BY <2>1 DEF RingOn
  <2>3. /\ next' = [next EXCEPT ![p] = t]
        /\ prev' = prev /\ Current' = Current /\ NewThread' = t
    BY <1>5 DEF CreateLinkPrev, NewThread, Current
  <2>4. Members \subseteq Threads /\ Null \notin Threads
    BY ThreadsAssumption DEF Members, Threads, Null
  <2>5. Members' = Members
    BY <2>1, <2>2, <2>3, <2>4 DEF Members
  <2>6. next'[p] = t /\ \A u \in Members \ {p} : next'[u] = next[u]
    BY <2>2, <2>3, <2>4
  <2>7. \A u \in Members \ {t, p} :
          next[u] \in Members \ {t} /\ prev[next[u]] = u
    BY <2>1 DEF RingOn
  <2>8. \A u \in Members \ {t, Current} :
          prev[u] \in Members \ {t} /\ next'[prev[u]] = u
    BY <2>1, <2>2, <2>6 DEF RingOn
  <2>9. RingOpen(NewThread, Current, prev[NewThread])'
    BY <2>1, <2>2, <2>3, <2>5, <2>6, <2>7, <2>8 DEF RingOpen
  <2> QED
    BY <1>5, <2>9 DEF CreateLinkPrev
<1>6. CASE CreateLinkNext
  BY <1>6 DEF CreateLinkNext, Members, Current, NewThread, Threads, Pointer,
    RingOn, RingOpen, IdInv, StackInv
<1>7. CASE ExitIrqDisable
  BY <1>7, RingUnchanged DEF ExitIrqDisable
<1>8. CASE ExitStatus
  BY <1>8, RingUnchanged DEF ExitStatus
<1>9. CASE ExitLoad
  BY <1>9 DEF ExitLoad, Members, Current, NewThread, Threads, Pointer, RingOn,
    RingOpen, IdInv, StackInv
<1>10. CASE ExitUnlinkPrev
  <2> DEFINE t == Current
             n == local.next
             p == local.prev
  <2>1. /\ RingOn(Members, next, prev) /\ t \in Members
        /\ n = next[t] /\ p = prev[t] /\ n # t
    BY <1>10 DEF ExitUnlinkPrev
  <2>2. n \in Members \ {t} /\ p \in Members \ {t} /\ next[p] = t
    BY <2>1 DEF RingOn
  <2>3. /\ prev' = [prev EXCEPT ![n] = p] /\ next' = next
        /\ Current' = Current /\ local' = local
    BY <1>10 DEF ExitUnlinkPrev, Current
  <2>4. Members' = Members /\ Members \subseteq Threads
    BY <2>3 DEF Members, Threads
  <2>5. prev'[n] = p /\ \A u \in Members \ {n} : prev'[u] = prev[u]
    BY <2>2, <2>3, <2>4
  <2>6. \A u \in Members \ {t, p} :
          next[u] \in Members \ {t} /\ prev'[next[u]] = u
    BY <2>1, <2>5 DEF RingOn
  <2>7. \A u \in Members \ {t, n} :
          prev'[u] \in Members \ {t} /\ next[prev'[u]] = u
    BY <2>1, <2>5 DEF RingOn
  <2>8. RingOpen(Current, local.next, local.prev)'
    BY <2>1, <2>2, <2>3, <2>4, <2>5, <2>6, <2>7 DEF RingOpen
  <2> QED
    BY <1>10, <2>8 DEF ExitUnlinkPrev
<1>11. CASE ExitUnlinkNext
  BY <1>11 DEF ExitUnlinkNext, Members, Current, NewThread, Threads, Pointer,
    RingOn, RingOpen, IdInv, StackInv
<1>12. CASE ExitClear
  BY <1>12 DEF ExitClear, Members, Current, NewThread, Threads, Pointer,
    RingOn, RingOpen, IdInv, StackInv
<1>13. CASE ExitSwitch
  BY <1>13, ExitSwitchEffect DEF ExitSwitch, Members, Current, NewThread,
    Threads, Pointer, RingOn, RingOpen
<1>14. CASE Rendering
  BY <1>14, RingUnchanged DEF Rendering, FnEntry, FnColor, FnReturn,
    FnSetColor, FnPlot
<1>15. CASE TrapEntry \/ InterruptHandler \/ InterruptReturn \/ TrapExit \/
      Sret
  BY <1>15, RingUnchanged DEF TrapEntry, InterruptHandler, InterruptReturn,
    TrapExit, Sret
<1>16. CASE InterruptSwitch
  BY <1>16, InterruptSwitchEffect DEF InterruptSwitch, Members, Current,
    NewThread, Threads, Pointer, RingOn, RingOpen
<1>17. CASE Interrupt
  BY <1>17, RingUnchanged DEF Interrupt, StatusInv, NoZombie
<1>18. CASE TimerTick
  BY <1>18 DEF TimerTick, Members, Current, NewThread, Threads, Pointer,
    RingOn, RingOpen
<1>19. CASE Spin
  BY <1>19, RingUnchanged DEF Spin
<1>20. CASE UNCHANGED vars
  BY <1>20 DEF Members, RingOn, RingOpen, Current, NewThread, Threads
<1> QED
  BY <1>1, <1>2, <1>3, <1>4, <1>5, <1>6, <1>7, <1>8, <1>9, <1>10, <1>11,
    <1>12, <1>13, <1>14, <1>15, <1>16, <1>17, <1>18, <1>19, <1>20
  DEF Next, Instruction, Starting, Creating, Unlinking, Rendering, Trapping

(* Saved state changes only for the running thread and the one being       *)
(* created.                                                                *)
LEMMA UntouchedStep ==
  ASSUME IInv, [Next]_vars, NEW t \in Threads, Suspended(t)
  PROVE  ctxt'[t] = ctxt[t] /\ frame'[t] = frame[t]
<1> USE DEF IInv, TypeOK, Goto, vars, csrs, ring, screen, Labels, CodeLabels,
  CreateLabels, ExitLabels, TrapLabels, BootLabels, Interruptible,
  HandlerLabels
<1>1. CASE Starting
  BY <1>1 DEF Starting, ThreadInit, TimerInit, TimerEvEnable
<1>2. CASE CreateIrqDisable \/ CreateAlloc \/ CreateLinkPrev \/ CreateLinkNext
      \/ CreateIrqEnable
  BY <1>2 DEF CreateIrqDisable, CreateAlloc, CreateLinkPrev, CreateLinkNext,
    CreateIrqEnable
<1>3. CASE CreateFrame
  BY <1>3 DEF CreateFrame, Suspended, HalfCreated, Members, StackInv, Current,
    ContextSwitch
<1>4. CASE ExitIrqDisable
  BY <1>4 DEF ExitIrqDisable
<1>5. CASE ExitStatus \/ ExitLoad \/ ExitUnlinkPrev \/ ExitUnlinkNext \/
      ExitClear
  BY <1>5 DEF ExitStatus, ExitLoad, ExitUnlinkPrev, ExitUnlinkNext, ExitClear
<1>6. CASE ExitSwitch
  BY <1>6 DEF ExitSwitch, Suspended, HalfCreated, Members, StackInv, Current,
    ContextSwitch
<1>7. CASE Rendering
  BY <1>7 DEF Rendering, FnEntry, FnColor, FnReturn, FnSetColor, FnPlot
<1>8. CASE InterruptHandler \/ InterruptReturn \/ TrapExit \/ Sret
  BY <1>8 DEF InterruptHandler, InterruptReturn, TrapExit, Sret
<1>9. CASE TrapEntry
  BY <1>9 DEF TrapEntry, Suspended, HalfCreated, Members, StackInv, Current,
    ContextSwitch
<1>10. CASE InterruptSwitch
  BY <1>10 DEF InterruptSwitch, Suspended, HalfCreated, Members, StackInv,
    Current, ContextSwitch
<1>11. CASE Interrupt
  BY <1>11 DEF Interrupt
<1>12. CASE TimerTick
  BY <1>12 DEF TimerTick
<1>13. CASE Spin
  BY <1>13 DEF Spin
<1>14. CASE UNCHANGED vars
  BY <1>14 DEF vars
<1> QED
  BY <1>1, <1>2, <1>3, <1>4, <1>5, <1>6, <1>7, <1>8, <1>9, <1>10, <1>11,
    <1>12, <1>13, <1>14
  DEF Next, Instruction, Starting, Creating, Unlinking, Rendering, Trapping

(* A thread begins to wait when it has been created or is switched away    *)
(* from by the interrupt handler, and at no other time.                    *)
LEMMA SuspendStep ==
  ASSUME IInv, [Next]_vars, NEW t \in Threads, Suspended(t)'
  PROVE  \/ Suspended(t)
         \/ CreateFrame /\ t = NewThread
         \/ InterruptSwitch /\ t = Current
<1> USE DEF IInv, TypeOK, ReturnInv, Current, Goto, vars, csrs, ring, screen,
  Labels, CodeLabels, CreateLabels, ExitLabels, TrapLabels, BootLabels,
  Interruptible, HandlerLabels
<1>1. CASE TimerInit \/ TimerEvEnable
  BY <1>1 DEF TimerInit, TimerEvEnable, Suspended, HalfCreated, Members,
    NewThread
<1>2. CASE ThreadInit
  BY <1>2, ThreadsAssumption DEF ThreadInit, Suspended, HalfCreated, Members,
    IdInv, Threads
<1>3. CASE CreateIrqDisable \/ CreateIrqEnable
  BY <1>3 DEF CreateIrqDisable, CreateIrqEnable, Suspended, HalfCreated,
    Members, NewThread
<1>4. CASE CreateAlloc
  BY <1>4 DEF CreateAlloc, Suspended, HalfCreated, Members, IdInv, RingInv,
    StackInv, RingOn, RingOpen, NewThread, Current
<1>5. CASE CreateLinkPrev
  BY <1>5 DEF CreateLinkPrev, Suspended, HalfCreated, Members, IdInv, RingInv,
    StackInv, RingOn, RingOpen, NewThread, Current
<1>6. CASE CreateLinkNext
  BY <1>6 DEF CreateLinkNext, Suspended, HalfCreated, Members, IdInv, RingInv,
    StackInv, RingOn, RingOpen, NewThread, Current
<1>7. CASE CreateFrame
  BY <1>7 DEF CreateFrame, Suspended, HalfCreated, Members, NewThread, Current
<1>8. CASE ExitIrqDisable
  BY <1>8 DEF ExitIrqDisable, Suspended, HalfCreated, Members, NewThread
<1>9. CASE ExitStatus \/ ExitLoad \/ ExitUnlinkPrev
  BY <1>9 DEF ExitStatus, ExitLoad, ExitUnlinkPrev, Suspended, HalfCreated,
    Members, NewThread
<1>10. CASE ExitUnlinkNext
  BY <1>10 DEF ExitUnlinkNext, Suspended, HalfCreated, Members, IdInv,
    RingInv, StackInv, RingOn, RingOpen, NewThread, Current
<1>11. CASE ExitClear
  BY <1>11 DEF ExitClear, Suspended, HalfCreated, Members, IdInv, RingInv,
    StackInv, RingOn, RingOpen, NewThread, Current
<1>12. CASE ExitSwitch
  BY <1>12, ExitSwitchEffect DEF ExitSwitch, Suspended, HalfCreated, Members,
    RingInv
<1>13. CASE Rendering
  BY <1>13 DEF Rendering, FnEntry, FnColor, FnReturn, FnSetColor, FnPlot,
    Suspended, HalfCreated, Members, NewThread
<1>14. CASE TrapEntry \/ InterruptHandler \/ InterruptReturn \/ TrapExit \/
      Sret
  BY <1>14 DEF TrapEntry, InterruptHandler, InterruptReturn, TrapExit, Sret,
    Suspended, HalfCreated, Members, NewThread
<1>15. CASE InterruptSwitch
  BY <1>15, InterruptSwitchEffect DEF InterruptSwitch, Suspended, HalfCreated,
    Members, RingInv
<1>16. CASE Interrupt
  BY <1>16 DEF Interrupt, Suspended, HalfCreated, Members, StatusInv
<1>17. CASE TimerTick
  BY <1>17 DEF TimerTick, Suspended, HalfCreated, Members, NewThread
<1>18. CASE Spin
  BY <1>18 DEF Spin, Suspended, HalfCreated, Members, NewThread
<1>19. CASE UNCHANGED vars
  BY <1>19 DEF Suspended, HalfCreated, Members, NewThread
<1> QED
  BY <1>1, <1>2, <1>3, <1>4, <1>5, <1>6, <1>7, <1>8, <1>9, <1>10, <1>11,
    <1>12, <1>13, <1>14, <1>15, <1>16, <1>17, <1>18, <1>19
  DEF Next, Instruction, Starting, Creating, Unlinking, Rendering, Trapping

(* Contexts and frames of the threads that wait stay ready to be loaded.   *)
LEMMA ContextStep == IInv /\ [Next]_vars => ContextInv'
<1> SUFFICES ASSUME IInv, [Next]_vars PROVE ContextInv'
  OBVIOUS
<1>1. ASSUME NEW t \in Threads, Suspended(t)' PROVE Ready(t)'
  <2>1. CASE Suspended(t)
    BY <1>1, <2>1, UntouchedStep DEF IInv, ContextInv, Ready, FrameOK
  <2>2. CASE CreateFrame /\ t = NewThread
    BY <1>1, <2>2
    DEF CreateFrame, IInv, TypeOK, Ready, FrameOK, Interruptible, CodeLabels
  <2>3. CASE InterruptSwitch /\ t = Current
    <3>1. ctxt'[t] = SavedContext("ih_return") /\ frame' = frame
      BY <1>1, <2>3, InterruptSwitchEffect DEF InterruptSwitch, IInv, TypeOK
    <3>2. FrameOK(t) /\ reg.sp = <<reg.tp, 1>>
      BY <2>3 DEF InterruptSwitch, IInv, ContextInv, StackInv, HandlerLabels
    <3> QED
      BY <2>3, <3>1, <3>2 DEF Ready, FrameOK, SavedContext, Current
  <2> QED
    BY <1>1, <2>1, <2>2, <2>3, SuspendStep
<1>2. pc' \in HandlerLabels => FrameOK(Current)'
  <2> USE DEF IInv, TypeOK, ContextInv, Current, FrameOK, ReturnInv, Goto,
    vars, csrs, ring, screen,
    CodeLabels, CreateLabels, ExitLabels, TrapLabels, HandlerLabels,
    Interruptible
  <2>1. CASE Starting
    BY <2>1 DEF Starting, ThreadInit, TimerInit, TimerEvEnable
  <2>2. CASE Creating
    BY <2>2 DEF Creating, CreateIrqDisable, CreateAlloc, CreateLinkPrev,
      CreateLinkNext, CreateFrame, CreateIrqEnable
  <2>3. CASE ExitIrqDisable
    BY <2>3 DEF ExitIrqDisable
  <2>4. CASE ExitStatus \/ ExitLoad \/ ExitUnlinkPrev \/ ExitUnlinkNext \/
        ExitClear
    BY <2>4 DEF ExitStatus, ExitLoad, ExitUnlinkPrev, ExitUnlinkNext, ExitClear
  <2>5. CASE ExitSwitch
    BY <2>5, ExitSwitchEffect DEF ExitSwitch
  <2>6. CASE Rendering
    BY <2>6 DEF Rendering, FnEntry, FnColor, FnReturn, FnSetColor, FnPlot
  <2>7. CASE TrapEntry
    BY <2>7 DEF TrapEntry, StackInv
  <2>8. CASE InterruptHandler \/ InterruptReturn \/ TrapExit \/ Sret
    BY <2>8 DEF InterruptHandler, InterruptReturn, TrapExit, Sret
  <2>9. CASE InterruptSwitch
    BY <2>9, InterruptSwitchEffect DEF InterruptSwitch
  <2>10. CASE Interrupt
    BY <2>10 DEF Interrupt
  <2>11. CASE TimerTick
    BY <2>11 DEF TimerTick
  <2>12. CASE Spin
    BY <2>12 DEF Spin
  <2>13. CASE UNCHANGED vars
    BY <2>13 DEF vars
  <2> QED
    BY <2>1, <2>2, <2>3, <2>4, <2>5, <2>6, <2>7, <2>8, <2>9, <2>10, <2>11,
      <2>12, <2>13
    DEF Next, Instruction, Starting, Creating, Unlinking, Rendering, Trapping
<1> QED
  BY <1>1, <1>2 DEF ContextInv

(* Every step keeps the types.                                             *)
LEMMA TypeStep == IInv /\ [Next]_vars => TypeOK'
<1> SUFFICES ASSUME IInv, [Next]_vars PROVE TypeOK'
  OBVIOUS
<1>1. (pc \in Labels)'
  <2> USE DEF IInv, TypeOK, Goto, vars, csrs, ring, screen, Labels,
    CodeLabels, CreateLabels, ExitLabels, TrapLabels, BootLabels,
    Interruptible, HandlerLabels
  <2>1. CASE ExitSwitch
    BY <2>1, ExitSwitchEffect DEF ExitSwitch
  <2>2. CASE FnReturn
    BY <2>2 DEF FnReturn, ReturnInv
  <2>3. CASE InterruptSwitch
    BY <2>3, InterruptSwitchEffect DEF InterruptSwitch
  <2>4. CASE Sret
    BY <2>4 DEF Sret, ReturnInv
  <2>5. CASE Starting
    BY <2>5 DEF Starting, ThreadInit, TimerInit, TimerEvEnable
  <2>6. CASE Creating
    BY <2>6 DEF Creating, CreateIrqDisable, CreateAlloc, CreateLinkPrev,
      CreateLinkNext, CreateFrame, CreateIrqEnable
  <2>7. CASE ExitStatus \/ ExitLoad \/ ExitUnlinkPrev \/ ExitUnlinkNext \/
        ExitClear
    BY <2>7 DEF ExitStatus, ExitLoad, ExitUnlinkPrev, ExitUnlinkNext, ExitClear
  <2>8. CASE FnEntry \/ FnColor \/ FnSetColor \/ FnPlot
    BY <2>8 DEF FnEntry, FnColor, FnSetColor, FnPlot
  <2>9. CASE TrapEntry \/ InterruptHandler \/ InterruptReturn \/ TrapExit
    BY <2>9 DEF TrapEntry, InterruptHandler, InterruptReturn, TrapExit
  <2>10. CASE ExitIrqDisable \/ Interrupt \/ TimerTick \/ Spin \/ UNCHANGED
        vars
    BY <2>10 DEF ExitIrqDisable, Interrupt, TimerTick, Spin
  <2> QED
    BY <2>1, <2>2, <2>3, <2>4, <2>5, <2>6, <2>7, <2>8, <2>9, <2>10
    DEF Next, Instruction, Starting, Creating, Unlinking, Rendering, Trapping
<1>2. (mode \in {"S", "U"})'
  <2> USE DEF IInv, TypeOK, Goto, vars, csrs, ring, screen
  <2>1. CASE Sret
    BY <2>1 DEF Sret
  <2>2. CASE Interrupt
    BY <2>2 DEF Interrupt
  <2>3. CASE UNCHANGED mode
    BY <2>3
  <2> QED
    BY <2>1, <2>2, <2>3
    DEF Next, Instruction, Starting, Creating, Unlinking, Rendering, Trapping,
      ThreadInit, TimerInit, TimerEvEnable, CreateIrqDisable, CreateAlloc,
      CreateLinkPrev, CreateLinkNext, CreateFrame, CreateIrqEnable,
      ExitIrqDisable, ExitStatus, ExitLoad, ExitUnlinkPrev, ExitUnlinkNext,
      ExitClear, ExitSwitch, FnEntry, FnColor, FnReturn, FnSetColor, FnPlot,
      TrapEntry, InterruptHandler, InterruptSwitch, InterruptReturn, TrapExit,
      TimerTick, Spin
<1>3. (sstatus \in [SIE : BOOLEAN, SPIE : BOOLEAN, SPP : {"S", "U"}])'
  <2> USE DEF IInv, TypeOK, Goto, vars, csrs, ring, screen
  <2>1. CASE CreateIrqDisable
    BY <2>1 DEF CreateIrqDisable
  <2>2. CASE CreateIrqEnable
    BY <2>2 DEF CreateIrqEnable
  <2>3. CASE ExitIrqDisable
    BY <2>3 DEF ExitIrqDisable
  <2>4. CASE ExitStatus
    BY <2>4 DEF ExitStatus
  <2>5. CASE Sret
    BY <2>5 DEF Sret
  <2>6. CASE Interrupt
    BY <2>6 DEF Interrupt
  <2>7. CASE UNCHANGED sstatus
    BY <2>7
  <2> QED
    BY <2>1, <2>2, <2>3, <2>4, <2>5, <2>6, <2>7
    DEF Next, Instruction, Starting, Creating, Unlinking, Rendering, Trapping,
      ThreadInit, TimerInit, TimerEvEnable, CreateAlloc, CreateLinkPrev,
      CreateLinkNext, CreateFrame, ExitLoad, ExitUnlinkPrev, ExitUnlinkNext,
      ExitClear, ExitSwitch, FnEntry, FnColor, FnReturn, FnSetColor, FnPlot,
      TrapEntry, InterruptHandler, InterruptSwitch, InterruptReturn, TrapExit,
      TimerTick, Spin
<1>4. (sepc \in Labels)'
  <2> USE DEF IInv, TypeOK, Goto, vars, csrs, ring, screen
  <2>1. CASE TrapExit
    BY <2>1 DEF TrapExit, TFrame, StackInv, Current, Threads
  <2>2. CASE Interrupt
    BY <2>2 DEF Interrupt
  <2>3. CASE UNCHANGED sepc
    BY <2>3
  <2> QED
    BY <2>1, <2>2, <2>3
    DEF Next, Instruction, Starting, Creating, Unlinking, Rendering, Trapping,
      ThreadInit, TimerInit, TimerEvEnable, CreateIrqDisable, CreateAlloc,
      CreateLinkPrev, CreateLinkNext, CreateFrame, CreateIrqEnable,
      ExitIrqDisable, ExitStatus, ExitLoad, ExitUnlinkPrev, ExitUnlinkNext,
      ExitClear, ExitSwitch, FnEntry, FnColor, FnReturn, FnSetColor, FnPlot,
      TrapEntry, InterruptHandler, InterruptSwitch, InterruptReturn, Sret,
      TimerTick, Spin
<1>5. (reg \in [tp : Pointer, sp : StackPtr, ra : Labels, tmp : Value,
                 sav : Value])'
  <2> USE DEF IInv, TypeOK, Goto, vars, csrs, ring, screen
  <2>1. CASE ThreadInit
    BY <2>1, ConstantFacts DEF ThreadInit
  <2>2. CASE ExitSwitch
    BY <2>2, ExitSwitchEffect DEF ExitSwitch
  <2>3. CASE FnEntry
    BY <2>3 DEF FnEntry
  <2>4. CASE FnColor
    BY <2>4 DEF FnColor
  <2>5. CASE FnPlot
    <3>1. reg.sav[2] < Rows /\ reg.sav \in Value
      BY <2>5 DEF FnPlot, PictureInv, RunningState, WorkState, LogicalPc,
        HandlerLabels
    <3>2. NextRow(reg.sav) \in Value
      BY <3>1, ThreadsAssumption DEF NextRow, Value
    <3> QED
      BY <2>5, <3>2 DEF FnPlot
  <2>6. CASE TrapEntry
    <3>1. reg.sp = <<reg.tp, 0>> /\ reg.tp \in Threads
      BY <2>6 DEF TrapEntry, StackInv, HandlerLabels
    <3>2. <<reg.sp[1], reg.sp[2] + 1>> = <<reg.tp, 1>>
      BY <3>1
    <3> QED
      BY <2>6, <3>1, <3>2, ConstantFacts DEF TrapEntry, Labels, TrapLabels
  <2>7. CASE InterruptSwitch
    BY <2>7, InterruptSwitchEffect DEF InterruptSwitch
  <2>8. CASE TrapExit
    <3>1. reg.sp = <<reg.tp, 1>> /\ reg.tp \in Threads
      BY <2>8 DEF TrapExit, StackInv, HandlerLabels
    <3>2. <<reg.sp[1], reg.sp[2] - 1>> = <<reg.tp, 0>> /\ reg.sp[1] = reg.tp
      BY <3>1
    <3> QED
      BY <2>8, <3>1, <3>2, ConstantFacts DEF TrapExit, TFrame
  <2>9. CASE UNCHANGED reg
    BY <2>9
  <2> QED
    BY <2>1, <2>2, <2>3, <2>4, <2>5, <2>6, <2>7, <2>8, <2>9
    DEF Next, Instruction, Starting, Creating, Unlinking, Rendering, Trapping,
      TimerInit, TimerEvEnable, CreateIrqDisable, CreateAlloc, CreateLinkPrev,
      CreateLinkNext, CreateFrame, CreateIrqEnable, ExitIrqDisable,
      ExitStatus, ExitLoad, ExitUnlinkPrev, ExitUnlinkNext, ExitClear,
      FnReturn, FnSetColor, InterruptHandler, InterruptReturn, Sret,
      Interrupt, TimerTick, Spin
<1>6. (timer \in [EN : BOOLEAN, EV_ENABLE : BOOLEAN, EV_PENDING : BOOLEAN])'
  <2> USE DEF IInv, TypeOK, Goto, vars, csrs, ring, screen
  <2>1. CASE TimerInit
    BY <2>1 DEF TimerInit
  <2>2. CASE TimerEvEnable
    BY <2>2 DEF TimerEvEnable
  <2>3. CASE InterruptHandler
    BY <2>3 DEF InterruptHandler
  <2>4. CASE TimerTick
    BY <2>4 DEF TimerTick
  <2>5. CASE UNCHANGED timer
    BY <2>5
  <2> QED
    BY <2>1, <2>2, <2>3, <2>4, <2>5
    DEF Next, Instruction, Starting, Creating, Unlinking, Rendering, Trapping,
      ThreadInit, CreateIrqDisable, CreateAlloc, CreateLinkPrev,
      CreateLinkNext, CreateFrame, CreateIrqEnable, ExitIrqDisable,
      ExitStatus, ExitLoad, ExitUnlinkPrev, ExitUnlinkNext, ExitClear,
      ExitSwitch, FnEntry, FnColor, FnReturn, FnSetColor, FnPlot, TrapEntry,
      InterruptSwitch, InterruptReturn, TrapExit, Sret, Interrupt, Spin
<1>7. (next \in [Threads -> Pointer])'
  <2> USE DEF IInv, TypeOK, Goto, vars, csrs, ring, screen
  <2>1. CASE CreateAlloc
    BY <2>1 DEF CreateAlloc, IdInv, StackInv, Current, Threads
  <2>2. CASE CreateLinkPrev
    BY <2>2, NewThreadType, ConstantFacts DEF CreateLinkPrev, CreateLabels
  <2>3. CASE ExitUnlinkNext
    BY <2>3 DEF ExitUnlinkNext, RingInv, RingOpen, Members, Pointer
  <2>4. CASE ExitClear
    BY <2>4 DEF ExitClear, Pointer
  <2>5. CASE UNCHANGED next
    BY <2>5
  <2> QED
    BY <2>1, <2>2, <2>3, <2>4, <2>5
    DEF Next, Instruction, Starting, Creating, Unlinking, Rendering, Trapping,
      ThreadInit, TimerInit, TimerEvEnable, CreateIrqDisable, CreateLinkNext,
      CreateFrame, CreateIrqEnable, ExitIrqDisable, ExitStatus, ExitLoad,
      ExitUnlinkPrev, ExitSwitch, FnEntry, FnColor, FnReturn, FnSetColor,
      FnPlot, TrapEntry, InterruptHandler, InterruptSwitch, InterruptReturn,
      TrapExit, Sret, Interrupt, TimerTick, Spin
<1>8. (prev \in [Threads -> Pointer])'
  <2> USE DEF IInv, TypeOK, Goto, vars, csrs, ring, screen
  <2>1. CASE CreateAlloc
    BY <2>1 DEF CreateAlloc, RingInv, Members, CreateLabels, StackInv,
      Current, Threads
  <2>2. CASE CreateLinkNext
    BY <2>2, NewThreadType, ConstantFacts DEF CreateLinkNext, CreateLabels
  <2>3. CASE ExitUnlinkPrev
    BY <2>3 DEF ExitUnlinkPrev, RingInv, RingOn, Members, Pointer
  <2>4. CASE ExitClear
    BY <2>4 DEF ExitClear, Pointer
  <2>5. CASE UNCHANGED prev
    BY <2>5
  <2> QED
    BY <2>1, <2>2, <2>3, <2>4, <2>5
    DEF Next, Instruction, Starting, Creating, Unlinking, Rendering, Trapping,
      ThreadInit, TimerInit, TimerEvEnable, CreateIrqDisable, CreateLinkPrev,
      CreateFrame, CreateIrqEnable, ExitIrqDisable, ExitStatus, ExitLoad,
      ExitUnlinkNext, ExitSwitch, FnEntry, FnColor, FnReturn, FnSetColor,
      FnPlot, TrapEntry, InterruptHandler, InterruptSwitch, InterruptReturn,
      TrapExit, Sret, Interrupt, TimerTick, Spin
<1>9. (ctxt \in [Threads -> CFrame])'
  <2> USE DEF IInv, TypeOK, Goto, vars, csrs, ring, screen
  <2>1. CASE CreateFrame
    BY <2>1, NewThreadType, ConstantFacts DEF CreateFrame, CreateLabels,
      CFrame, Labels, TrapLabels
  <2>2. CASE ExitSwitch
    BY <2>2, ExitSwitchEffect DEF ExitSwitch, SavedContext, CFrame, Labels,
      StackInv, Current, Threads
  <2>3. CASE InterruptSwitch
    BY <2>3, InterruptSwitchEffect DEF InterruptSwitch, SavedContext, CFrame,
      Labels, TrapLabels, HandlerLabels, StackInv, Current, Threads
  <2>4. CASE UNCHANGED ctxt
    BY <2>4
  <2> QED
    BY <2>1, <2>2, <2>3, <2>4
    DEF Next, Instruction, Starting, Creating, Unlinking, Rendering, Trapping,
      ThreadInit, TimerInit, TimerEvEnable, CreateIrqDisable, CreateAlloc,
      CreateLinkPrev, CreateLinkNext, CreateIrqEnable, ExitIrqDisable,
      ExitStatus, ExitLoad, ExitUnlinkPrev, ExitUnlinkNext, ExitClear,
      FnEntry, FnColor, FnReturn, FnSetColor, FnPlot, TrapEntry,
      InterruptHandler, InterruptReturn, TrapExit, Sret, Interrupt, TimerTick,
      Spin
<1>10. (frame \in [Threads -> TFrame])'
  <2> USE DEF IInv, TypeOK, Goto, vars, csrs, ring, screen
  <2>1. CASE CreateFrame
    BY <2>1, NewThreadType, ConstantFacts DEF CreateFrame, CreateLabels,
      TFrame, Labels, CodeLabels
  <2>2. CASE TrapEntry
    BY <2>2 DEF TrapEntry, TFrame
  <2>3. CASE UNCHANGED frame
    BY <2>3
  <2> QED
    BY <2>1, <2>2, <2>3
    DEF Next, Instruction, Starting, Creating, Unlinking, Rendering, Trapping,
      ThreadInit, TimerInit, TimerEvEnable, CreateIrqDisable, CreateAlloc,
      CreateLinkPrev, CreateLinkNext, CreateIrqEnable, ExitIrqDisable,
      ExitStatus, ExitLoad, ExitUnlinkPrev, ExitUnlinkNext, ExitClear,
      ExitSwitch, FnEntry, FnColor, FnReturn, FnSetColor, FnPlot,
      InterruptHandler, InterruptSwitch, InterruptReturn, TrapExit, Sret,
      Interrupt, TimerTick, Spin
<1>11. (nextId \in 1..N+1)'
  <2> USE DEF IInv, TypeOK, Goto, vars, csrs, ring, screen
  <2>1. CASE CreateAlloc
    BY <2>1, ThreadsAssumption DEF CreateAlloc, IdInv
  <2>2. CASE UNCHANGED nextId
    BY <2>2
  <2> QED
    BY <2>1, <2>2
    DEF Next, Instruction, Starting, Creating, Unlinking, Rendering, Trapping,
      ThreadInit, TimerInit, TimerEvEnable, CreateIrqDisable, CreateLinkPrev,
      CreateLinkNext, CreateFrame, CreateIrqEnable, ExitIrqDisable,
      ExitStatus, ExitLoad, ExitUnlinkPrev, ExitUnlinkNext, ExitClear,
      ExitSwitch, FnEntry, FnColor, FnReturn, FnSetColor, FnPlot, TrapEntry,
      InterruptHandler, InterruptSwitch, InterruptReturn, TrapExit, Sret,
      Interrupt, TimerTick, Spin
<1>12. (local \in [next : Pointer, prev : Pointer])'
  <2> USE DEF IInv, TypeOK, Goto, vars, csrs, ring, screen
  <2>1. CASE ExitLoad
    BY <2>1 DEF ExitLoad, RingInv, RingOn, Members, Pointer
  <2>2. CASE UNCHANGED local
    BY <2>2
  <2> QED
    BY <2>1, <2>2
    DEF Next, Instruction, Starting, Creating, Unlinking, Rendering, Trapping,
      ThreadInit, TimerInit, TimerEvEnable, CreateIrqDisable, CreateAlloc,
      CreateLinkPrev, CreateLinkNext, CreateFrame, CreateIrqEnable,
      ExitIrqDisable, ExitStatus, ExitUnlinkPrev, ExitUnlinkNext, ExitClear,
      ExitSwitch, FnEntry, FnColor, FnReturn, FnSetColor, FnPlot, TrapEntry,
      InterruptHandler, InterruptSwitch, InterruptReturn, TrapExit, Sret,
      Interrupt, TimerTick, Spin
<1>13. (surf \in [Threads -> Value])'
  <2> USE DEF IInv, TypeOK, Goto, vars, csrs, ring, screen
  <2>1. CASE FnEntry
    BY <2>1, ConstantFacts DEF FnEntry
  <2>2. CASE FnSetColor
    BY <2>2 DEF FnSetColor
  <2>3. CASE UNCHANGED surf
    BY <2>3
  <2> QED
    BY <2>1, <2>2, <2>3
    DEF Next, Instruction, Starting, Creating, Unlinking, Rendering, Trapping,
      ThreadInit, TimerInit, TimerEvEnable, CreateIrqDisable, CreateAlloc,
      CreateLinkPrev, CreateLinkNext, CreateFrame, CreateIrqEnable,
      ExitIrqDisable, ExitStatus, ExitLoad, ExitUnlinkPrev, ExitUnlinkNext,
      ExitClear, ExitSwitch, FnColor, FnReturn, FnPlot, TrapEntry,
      InterruptHandler, InterruptSwitch, InterruptReturn, TrapExit, Sret,
      Interrupt, TimerTick, Spin
<1>14. (fb \in [Workers \X (0..Rows-1) -> Value])'
  <2> USE DEF IInv, TypeOK, Goto, vars, csrs, ring, screen
  <2>1. CASE FnPlot
    BY <2>1 DEF FnPlot, StackInv, Current, CodeLabels, HandlerLabels
  <2>2. CASE UNCHANGED fb
    BY <2>2
  <2> QED
    BY <2>1, <2>2
    DEF Next, Instruction, Starting, Creating, Unlinking, Rendering, Trapping,
      ThreadInit, TimerInit, TimerEvEnable, CreateIrqDisable, CreateAlloc,
      CreateLinkPrev, CreateLinkNext, CreateFrame, CreateIrqEnable,
      ExitIrqDisable, ExitStatus, ExitLoad, ExitUnlinkPrev, ExitUnlinkNext,
      ExitClear, ExitSwitch, FnEntry, FnColor, FnReturn, FnSetColor,
      TrapEntry, InterruptHandler, InterruptSwitch, InterruptReturn, TrapExit,
      Sret, Interrupt, TimerTick, Spin
<1> QED
  BY <1>1, <1>2, <1>3, <1>4, <1>5, <1>6, <1>7, <1>8, <1>9, <1>10, <1>11,
    <1>12, <1>13, <1>14 DEF TypeOK

(* Each worker draws its own rows in its own colour.                       *)
LEMMA PictureStep == IInv /\ [Next]_vars => PictureInv'
<1> SUFFICES ASSUME IInv, [Next]_vars PROVE PictureInv'
  OBVIOUS
<1>1. \A v \in Workers \X (0..Rows-1) : fb'[v] \in {fb[v], v}
  <2> USE DEF IInv, TypeOK, Goto, vars, csrs, ring, screen
  <2>1. CASE FnPlot
    <3>1. surf[Current] = reg.sav
      BY <2>1 DEF FnPlot, PictureInv, RunningState, WorkState, LogicalPc,
        HandlerLabels
    <3> QED
      BY <2>1, <3>1 DEF FnPlot
  <2>2. CASE Starting
    BY <2>2 DEF Starting, ThreadInit, TimerInit, TimerEvEnable
  <2>3. CASE Creating
    BY <2>3 DEF Creating, CreateIrqDisable, CreateAlloc, CreateLinkPrev,
      CreateLinkNext, CreateFrame, CreateIrqEnable
  <2>4. CASE Unlinking
    BY <2>4 DEF Unlinking, ExitStatus, ExitLoad, ExitUnlinkPrev,
      ExitUnlinkNext, ExitClear, ExitSwitch
  <2>5. CASE FnEntry \/ FnColor \/ FnReturn \/ FnSetColor
    BY <2>5 DEF FnEntry, FnColor, FnReturn, FnSetColor
  <2>6. CASE Trapping
    BY <2>6 DEF Trapping, TrapEntry, InterruptHandler, InterruptSwitch,
      InterruptReturn, TrapExit, Sret
  <2>7. CASE ExitIrqDisable \/ Interrupt \/ TimerTick \/ Spin \/ UNCHANGED vars
    BY <2>7 DEF ExitIrqDisable, Interrupt, TimerTick, Spin
  <2> QED
    BY <2>1, <2>2, <2>3, <2>4, <2>5, <2>6, <2>7
    DEF Next, Instruction, Starting, Creating, Unlinking, Rendering, Trapping
<1>2. \A v \in Workers \X (0..Rows-1) : fb'[v] \in {v, Blank}
  BY <1>1 DEF IInv, PictureInv
<1>3. ASSUME NEW w \in Workers, NEW n \in 0..Rows, RowsDrawn(fb, w, n)
      PROVE  RowsDrawn(fb', w, n)
  <2> SUFFICES ASSUME NEW r \in 0..n-1 PROVE fb'[<<w, r>>] = <<w, r>>
    BY DEF RowsDrawn
  <2>1. <<w, r>> \in Workers \X (0..Rows-1)
    BY ThreadsAssumption
  <2>2. fb[<<w, r>>] = <<w, r>>
    BY <1>3 DEF RowsDrawn
  <2> QED
    BY <1>1, <2>1, <2>2
<1>4. \A t \in Threads : t # Current => surf'[t] = surf[t]
  <2> USE DEF IInv, TypeOK, Goto, vars, csrs, ring, screen
  <2>1. CASE FnEntry
    BY <2>1 DEF FnEntry
  <2>2. CASE FnSetColor
    BY <2>2 DEF FnSetColor
  <2>3. CASE Starting
    BY <2>3 DEF Starting, ThreadInit, TimerInit, TimerEvEnable
  <2>4. CASE Creating
    BY <2>4 DEF Creating, CreateIrqDisable, CreateAlloc, CreateLinkPrev,
      CreateLinkNext, CreateFrame, CreateIrqEnable
  <2>5. CASE Unlinking
    BY <2>5 DEF Unlinking, ExitStatus, ExitLoad, ExitUnlinkPrev,
      ExitUnlinkNext, ExitClear, ExitSwitch
  <2>6. CASE FnColor \/ FnReturn \/ FnPlot
    BY <2>6 DEF FnColor, FnReturn, FnPlot
  <2>7. CASE Trapping
    BY <2>7 DEF Trapping, TrapEntry, InterruptHandler, InterruptSwitch,
      InterruptReturn, TrapExit, Sret
  <2>8. CASE ExitIrqDisable \/ Interrupt \/ TimerTick \/ Spin \/ UNCHANGED vars
    BY <2>8 DEF ExitIrqDisable, Interrupt, TimerTick, Spin
  <2> QED
    BY <2>1, <2>2, <2>3, <2>4, <2>5, <2>6, <2>7, <2>8
    DEF Next, Instruction, Starting, Creating, Unlinking, Rendering, Trapping
<1>5. ASSUME NEW t \in Threads, Suspended(t)'
      PROVE  WaitingState(t)'
  <2>1. CASE Suspended(t)
    <3>1. surf'[t] = surf[t]
      BY <1>4, <2>1 DEF Suspended
    <3>2. ctxt'[t] = ctxt[t] /\ frame'[t] = frame[t] /\ ctxt[t].sav \in Value
      BY <2>1, UntouchedStep DEF IInv, TypeOK, CFrame
    <3>3. WorkState(fb, surf[t], t, frame[t].pc, frame[t].tmp, ctxt[t].sav)
      BY <2>1 DEF IInv, PictureInv, WaitingState
    <3>4. WorkState(fb', surf'[t], t, frame[t].pc, frame[t].tmp, ctxt[t].sav)
      <4>1. ctxt[t].sav[2] \in 0..Rows /\ Rows \in 0..Rows
        BY <3>2, ThreadsAssumption DEF Value
      <4> QED
        BY <1>3, <3>1, <3>3, <4>1 DEF WorkState
    <3> QED
      BY <3>2, <3>4 DEF WaitingState
  <2>2. CASE CreateFrame /\ t = NewThread
    <3>1. frame'[t].pc = "fn" /\ frame'[t].tmp = <<t, 0>> /\ t \in Workers
      BY <2>2, NewThreadType DEF CreateFrame, Goto, CreateLabels, IInv, TypeOK
    <3> QED
      BY <3>1 DEF WaitingState, WorkState, CodeLabels
  <2>3. CASE InterruptSwitch /\ t = Current
    <3>1. WorkState(fb, surf[t], t, frame[t].pc, frame[t].tmp, reg.sav)
      BY <2>3 DEF InterruptSwitch, IInv, PictureInv, RunningState, LogicalPc,
        LogicalTmp, HandlerLabels
    <3>2. ctxt'[t].sav = reg.sav /\ frame' = frame /\ surf' = surf /\ fb' = fb
      BY <2>3, InterruptSwitchEffect
      DEF InterruptSwitch, SavedContext, screen, IInv, TypeOK
    <3> QED
      BY <3>1, <3>2 DEF WaitingState
  <2> QED
    BY <1>5, <2>1, <2>2, <2>3, SuspendStep
<1>6. ASSUME NEW w \in Workers, ctxt'[w].pc = "zombie"
      PROVE  RowsDrawn(fb', w, Rows)
  <2>1. w \in Threads /\ Rows \in 0..Rows
    BY ConstantFacts, ThreadsAssumption
  <2>2. CASE ctxt[w].pc = "zombie"
    BY <1>3, <2>1, <2>2 DEF IInv, PictureInv
  <2>3. CASE ctxt'[w] # ctxt[w]
    <3>1. ExitSwitch /\ w = Current
      <4> USE DEF IInv, TypeOK, Goto, vars, csrs, ring, screen
      <4>1. CASE CreateFrame
        BY <4>1, <1>6, <2>1, <2>3, NewThreadType, ConstantFacts DEF
          CreateFrame, CreateLabels
      <4>2. CASE ExitSwitch
        BY <4>2, <2>1, <2>3, ExitSwitchEffect DEF ExitSwitch
      <4>3. CASE InterruptSwitch
        BY <4>3, <1>6, <2>1, <2>3, InterruptSwitchEffect DEF InterruptSwitch,
          SavedContext
      <4>4. CASE Starting
        BY <4>4, <2>3 DEF Starting, ThreadInit, TimerInit, TimerEvEnable
      <4>5. CASE CreateIrqDisable \/ CreateAlloc \/ CreateLinkPrev \/
            CreateLinkNext \/ CreateIrqEnable
        BY <4>5, <2>3 DEF CreateIrqDisable, CreateAlloc, CreateLinkPrev,
          CreateLinkNext, CreateIrqEnable
      <4>6. CASE ExitStatus \/ ExitLoad \/ ExitUnlinkPrev \/ ExitUnlinkNext \/
            ExitClear
        BY <4>6, <2>3 DEF ExitStatus, ExitLoad, ExitUnlinkPrev,
          ExitUnlinkNext, ExitClear
      <4>7. CASE Rendering
        BY <4>7, <2>3 DEF Rendering, FnEntry, FnColor, FnReturn, FnSetColor,
          FnPlot
      <4>8. CASE TrapEntry \/ InterruptHandler \/ InterruptReturn \/ TrapExit
            \/ Sret
        BY <4>8, <2>3 DEF TrapEntry, InterruptHandler, InterruptReturn,
          TrapExit, Sret
      <4>9. CASE ExitIrqDisable \/ Interrupt \/ TimerTick \/ Spin \/ UNCHANGED
            vars
        BY <4>9, <2>3 DEF ExitIrqDisable, Interrupt, TimerTick, Spin
      <4> QED
        BY <4>1, <4>2, <4>3, <4>4, <4>5, <4>6, <4>7, <4>8, <4>9
        DEF Next, Instruction, Starting, Creating, Unlinking, Rendering,
          Trapping
    <3>2. RowsDrawn(fb, w, Rows)
      BY <3>1 DEF ExitSwitch, IInv, PictureInv, RunningState, WorkState,
        LogicalPc,
        HandlerLabels, CodeLabels
    <3> QED
      BY <1>3, <2>1, <3>2
  <2> QED
    BY <1>6, <2>2, <2>3
<1>7. ASSUME pc' # "start"
      PROVE  RunningState'
  <2> USE DEF IInv, TypeOK, Goto, vars, csrs, ring, screen
  <2>1. CASE ThreadInit
    BY <2>1 DEF ThreadInit, StackInv, BootLabels, CreateLabels, Workers,
      RunningState, WorkState, LogicalPc, LogicalTmp, HandlerLabels,
      CodeLabels, Current
  <2>2. CASE TimerInit
    BY <2>2 DEF TimerInit, StackInv, BootLabels, CreateLabels, Workers,
      RunningState, WorkState, LogicalPc, LogicalTmp, HandlerLabels,
      CodeLabels, Current
  <2>3. CASE TimerEvEnable
    BY <2>3 DEF TimerEvEnable, StackInv, BootLabels, CreateLabels, Workers,
      RunningState, WorkState, LogicalPc, LogicalTmp, HandlerLabels,
      CodeLabels, Current
  <2>4. CASE CreateIrqDisable
    BY <2>4 DEF CreateIrqDisable, StackInv, BootLabels, CreateLabels, Workers,
      RunningState, WorkState, LogicalPc, LogicalTmp, HandlerLabels,
      CodeLabels, Current
  <2>5. CASE CreateAlloc
    BY <2>5 DEF CreateAlloc, StackInv, BootLabels, CreateLabels, Workers,
      RunningState, WorkState, LogicalPc, LogicalTmp, HandlerLabels,
      CodeLabels, Current
  <2>6. CASE CreateLinkPrev
    BY <2>6 DEF CreateLinkPrev, StackInv, BootLabels, CreateLabels, Workers,
      RunningState, WorkState, LogicalPc, LogicalTmp, HandlerLabels,
      CodeLabels, Current
  <2>7. CASE CreateLinkNext
    BY <2>7 DEF CreateLinkNext, StackInv, BootLabels, CreateLabels, Workers,
      RunningState, WorkState, LogicalPc, LogicalTmp, HandlerLabels,
      CodeLabels, Current
  <2>8. CASE CreateFrame
    BY <2>8 DEF CreateFrame, StackInv, BootLabels, CreateLabels, Workers,
      RunningState, WorkState, LogicalPc, LogicalTmp, HandlerLabels,
      CodeLabels, Current
  <2>9. CASE CreateIrqEnable
    BY <2>9 DEF CreateIrqEnable, StackInv, BootLabels, CreateLabels, Workers,
      RunningState, WorkState, LogicalPc, LogicalTmp, HandlerLabels,
      CodeLabels, Current
  <2>10. CASE ExitIrqDisable
    BY <2>10 DEF ExitIrqDisable, PictureInv, StackInv, RunningState,
      WorkState, LogicalPc, LogicalTmp, HandlerLabels, CodeLabels, Current
  <2>11. CASE ExitStatus
    BY <2>11 DEF ExitStatus, PictureInv, StackInv, RunningState, WorkState,
      LogicalPc, LogicalTmp, HandlerLabels, CodeLabels, Current
  <2>12. CASE ExitLoad
    BY <2>12 DEF ExitLoad, PictureInv, StackInv, RunningState, WorkState,
      LogicalPc, LogicalTmp, HandlerLabels, CodeLabels, Current
  <2>13. CASE ExitUnlinkPrev
    BY <2>13 DEF ExitUnlinkPrev, PictureInv, StackInv, RunningState,
      WorkState, LogicalPc, LogicalTmp, HandlerLabels, CodeLabels, Current
  <2>14. CASE ExitUnlinkNext
    BY <2>14 DEF ExitUnlinkNext, PictureInv, StackInv, RunningState,
      WorkState, LogicalPc, LogicalTmp, HandlerLabels, CodeLabels, Current
  <2>15. CASE ExitClear
    BY <2>15 DEF ExitClear, PictureInv, StackInv, RunningState, WorkState,
      LogicalPc, LogicalTmp, HandlerLabels, CodeLabels, Current
  <2>16. CASE ExitSwitch
    <3> DEFINE n == local.next
               s == ctxt[n].sav
    <3>1. WorkState(fb, surf[n], n, frame[n].pc, frame[n].tmp, s)
      BY <2>16, ExitSwitchEffect DEF Members, PictureInv, RunningState,
        WaitingState,
        ExitSwitch, LogicalPc, LogicalTmp, HandlerLabels
    <3>2. Current' = n /\ reg'.sav = s /\ frame' = frame
      BY <2>16, ExitSwitchEffect DEF ExitSwitch, Current
    <3>3. LogicalPc' = frame[n].pc /\ LogicalTmp' = frame[n].tmp
      BY <2>16, <3>2, ExitSwitchEffect DEF LogicalPc, LogicalTmp, HandlerLabels
    <3>4. fb' = fb /\ surf' = surf
      BY <2>16 DEF ExitSwitch
    <3> QED
      BY <3>1, <3>2, <3>3, <3>4 DEF RunningState
  <2>17. CASE FnEntry
    <3>1. reg.tmp = <<Current, 0>> /\ Current \in Workers
      BY <2>17 DEF FnEntry, PictureInv, RunningState, WorkState, LogicalPc,
        LogicalTmp, HandlerLabels
    <3>2. /\ Current' = Current /\ LogicalPc' = "color"
          /\ reg'.sav = <<Current, 0>>
      BY <2>17, <3>1 DEF FnEntry, LogicalPc, HandlerLabels, Current
    <3> QED
      BY <3>1, <3>2, ThreadsAssumption
      DEF RunningState, WorkState, RowsDrawn, CodeLabels
  <2>18. CASE FnColor
    BY <2>18, ThreadsAssumption DEF FnColor, PictureInv, StackInv, ReturnInv,
      Value, RunningState, WorkState, LogicalPc, LogicalTmp, HandlerLabels,
      CodeLabels, Current
  <2>19. CASE FnReturn
    BY <2>19, ThreadsAssumption DEF FnReturn, PictureInv, StackInv, ReturnInv,
      Value, RunningState, WorkState, LogicalPc, LogicalTmp, HandlerLabels,
      CodeLabels, Current
  <2>20. CASE FnSetColor
    BY <2>20, ThreadsAssumption DEF FnSetColor, PictureInv, StackInv,
      ReturnInv, Value, RunningState, WorkState, LogicalPc, LogicalTmp,
      HandlerLabels, CodeLabels, Current
  <2>21. CASE FnPlot
    <3>1. /\ WorkState(fb, surf[Current], Current, "plot", reg.tmp, reg.sav)
          /\ reg.sav \in Value
      BY <2>21 DEF FnPlot, PictureInv, RunningState, LogicalPc, LogicalTmp,
        HandlerLabels
    <3>2. PICK r \in 0..Rows : reg.sav = <<Current, r>>
      BY <3>1 DEF WorkState, CodeLabels, Value
    <3>3. /\ Current \in Workers /\ r \in 0..Rows-1
          /\ surf[Current] = <<Current, r>>
          /\ Current \notin Endless => RowsDrawn(fb, Current, r)
      BY <3>1, <3>2, ThreadsAssumption DEF WorkState, CodeLabels
    <3>4. /\ Current' = Current /\ LogicalPc' = "color"
          /\ reg'.sav = NextRow(<<Current, r>>)
      BY <2>21, <3>2 DEF FnPlot, LogicalPc, HandlerLabels, Current
    <3>5. fb'[<<Current, r>>] = <<Current, r>>
      <4>1. <<Current, r>> \in Workers \X (0..Rows-1)
        BY <3>3
      <4> QED
        BY <2>21, <3>2, <3>3, <4>1 DEF FnPlot
    <3>6. ASSUME Current \notin Endless, NEW q \in 0..r
          PROVE  fb'[<<Current, q>>] = <<Current, q>>
      <4>1. CASE q = r
        BY <3>5, <4>1
      <4>2. CASE q # r
        <5>1. q \in 0..r-1 /\ <<Current, q>> \in Workers \X (0..Rows-1)
          BY <3>3, <4>2, ThreadsAssumption
        <5>2. fb[<<Current, q>>] = <<Current, q>>
          BY <3>3, <3>6, <5>1 DEF RowsDrawn
        <5> QED
          BY <1>1, <5>1, <5>2
      <4> QED
        BY <4>1, <4>2
    <3>7. Current \notin Endless => RowsDrawn(fb', Current, r + 1)
      BY <3>3, <3>6 DEF RowsDrawn
    <3>8. CASE Current \in Endless
      <4>1. reg'.sav = <<Current, reg'.sav[2]>> /\ reg'.sav[2] < Rows
        BY <3>3, <3>4, <3>8, ThreadsAssumption DEF NextRow
      <4> QED
        BY <3>3, <3>4, <3>8, <4>1 DEF RunningState, WorkState, CodeLabels
    <3>9. CASE Current \notin Endless
      <4>1. reg'.sav = <<Current, r + 1>>
        BY <3>4, <3>9 DEF NextRow
      <4> QED
        BY <3>3, <3>4, <3>7, <3>9, <4>1
        DEF RunningState, WorkState, CodeLabels
    <3> QED
      BY <3>8, <3>9
  <2>22. CASE TrapEntry
    <3>1. Current' = Current /\ reg'.sav = reg.sav /\ surf' = surf /\ fb' = fb
      BY <2>22 DEF TrapEntry, Current
    <3>2. LogicalPc' = LogicalPc /\ LogicalTmp' = LogicalTmp
      BY <2>22, <3>1 DEF TrapEntry, LogicalPc, LogicalTmp, HandlerLabels,
        TrapLabels,
        Current, StackInv
    <3> QED
      BY <2>22, <3>1, <3>2 DEF TrapEntry, PictureInv, RunningState
  <2>23. CASE InterruptHandler
    <3>1. Current' = Current /\ reg'.sav = reg.sav /\ surf' = surf /\ fb' = fb
      BY <2>23 DEF InterruptHandler, Current
    <3>2. LogicalPc' = LogicalPc /\ LogicalTmp' = LogicalTmp
      BY <2>23, <3>1 DEF InterruptHandler, LogicalPc, LogicalTmp,
        HandlerLabels, TrapLabels,
        Current, StackInv
    <3> QED
      BY <2>23, <3>1, <3>2 DEF InterruptHandler, PictureInv, RunningState
  <2>24. CASE InterruptSwitch
    <3> DEFINE n == next[Current]
               s == IF n = Current THEN reg.sav ELSE ctxt[n].sav
    <3>1. WorkState(fb, surf[n], n, frame[n].pc, frame[n].tmp, s)
      BY <2>24, InterruptSwitchEffect DEF Members, PictureInv, RunningState,
        WaitingState,
        InterruptSwitch, LogicalPc, LogicalTmp, HandlerLabels
    <3>2. Current' = n /\ reg'.sav = s /\ frame' = frame
      BY <2>24, InterruptSwitchEffect DEF InterruptSwitch, Current
    <3>3. LogicalPc' = frame[n].pc /\ LogicalTmp' = frame[n].tmp
      BY <2>24, <3>2, InterruptSwitchEffect DEF LogicalPc, LogicalTmp,
        HandlerLabels
    <3>4. fb' = fb /\ surf' = surf
      BY <2>24 DEF InterruptSwitch
    <3> QED
      BY <3>1, <3>2, <3>3, <3>4 DEF RunningState
  <2>25. CASE InterruptReturn
    <3>1. Current' = Current /\ reg'.sav = reg.sav /\ surf' = surf /\ fb' = fb
      BY <2>25 DEF InterruptReturn, Current
    <3>2. LogicalPc' = LogicalPc /\ LogicalTmp' = LogicalTmp
      BY <2>25, <3>1 DEF InterruptReturn, LogicalPc, LogicalTmp,
        HandlerLabels, TrapLabels,
        Current, StackInv
    <3> QED
      BY <2>25, <3>1, <3>2 DEF InterruptReturn, PictureInv, RunningState
  <2>26. CASE TrapExit
    <3>1. Current' = Current /\ reg'.sav = reg.sav /\ surf' = surf /\ fb' = fb
      BY <2>26 DEF TrapExit, Current
    <3>2. LogicalPc' = LogicalPc /\ LogicalTmp' = LogicalTmp
      BY <2>26, <3>1 DEF TrapExit, LogicalPc, LogicalTmp, HandlerLabels,
        TrapLabels,
        Current, StackInv
    <3> QED
      BY <2>26, <3>1, <3>2 DEF TrapExit, PictureInv, RunningState
  <2>27. CASE Sret
    <3>1. Current' = Current /\ reg'.sav = reg.sav /\ surf' = surf /\ fb' = fb
      BY <2>27 DEF Sret, Current
    <3>2. LogicalPc' = LogicalPc /\ LogicalTmp' = LogicalTmp
      BY <2>27, <3>1 DEF Sret, LogicalPc, LogicalTmp, HandlerLabels,
        TrapLabels,
        Current, StackInv, ReturnInv, Interruptible, CodeLabels
    <3> QED
      BY <2>27, <3>1, <3>2 DEF Sret, PictureInv, RunningState
  <2>28. CASE Interrupt
    <3>1. Current' = Current /\ reg'.sav = reg.sav /\ surf' = surf /\ fb' = fb
      BY <2>28 DEF Interrupt, Current
    <3>2. LogicalPc' = LogicalPc /\ LogicalTmp' = LogicalTmp
      BY <2>28, <3>1 DEF Interrupt, LogicalPc, LogicalTmp, HandlerLabels,
        TrapLabels,
        Current, StackInv, StatusInv, NoZombie, Labels, CreateLabels,
        ExitLabels, Interruptible
    <3> QED
      BY <2>28, <3>1, <3>2 DEF Interrupt, PictureInv, RunningState, StatusInv
  <2>29. CASE TimerTick
    BY <2>29, <1>7 DEF TimerTick, PictureInv, RunningState, WorkState,
      LogicalPc, LogicalTmp, HandlerLabels, CodeLabels, Current
  <2>30. CASE Spin
    BY <2>30, <1>7 DEF Spin, PictureInv, RunningState, WorkState, LogicalPc,
      LogicalTmp, HandlerLabels, CodeLabels, Current
  <2>31. CASE UNCHANGED vars
    BY <1>7, <2>31 DEF PictureInv, RunningState, LogicalPc,
      LogicalTmp, HandlerLabels, Current
  <2> QED
    BY <2>1, <2>2, <2>3, <2>4, <2>5, <2>6, <2>7, <2>8, <2>9, <2>10, <2>11,
      <2>12, <2>13, <2>14, <2>15, <2>16, <2>17, <2>18, <2>19, <2>20, <2>21,
      <2>22, <2>23, <2>24, <2>25, <2>26, <2>27, <2>28, <2>29, <2>30, <2>31
    DEF Next, Instruction, Starting, Creating, Unlinking, Rendering, Trapping
<1> QED
  BY <1>2, <1>5, <1>6, <1>7 DEF PictureInv

(* The initial state satisfies the inductive invariant.                    *)
LEMMA InitInv == Init => IInv
<1> SUFFICES ASSUME Init PROVE IInv
  OBVIOUS
<1>1. TypeOK
  BY ConstantFacts, ThreadsAssumption
  DEF Init, TypeOK, NoContext, NoFrame, CFrame, TFrame, Labels, Pointer, Null,
    StackPtr
<1>2. NoZombie /\ StatusInv /\ ReturnInv
  BY DEF Init, NoZombie, StatusInv, ReturnInv, Interruptible, CodeLabels,
    CreateLabels, ExitLabels, TrapLabels
<1>3. StackInv /\ IdInv
  BY ThreadsAssumption
  DEF Init, StackInv, IdInv, BootLabels, CreateLabels, Threads
<1>4. ContextInv
  BY DEF Init, ContextInv, Suspended, HandlerLabels
<1>5. Members = {0}
  BY ConstantFacts DEF Init, Members
<1>6. RingInv
  BY <1>5, ConstantFacts DEF Init, RingInv, RingOn
<1>7. PictureInv
  BY ConstantFacts DEF Init, PictureInv, Suspended, NoContext
<1> QED
  BY <1>1, <1>2, <1>3, <1>4, <1>6, <1>7 DEF IInv

(* The inductive invariant holds in every reachable state.                 *)
THEOREM Invariance == Spec => []IInv
<1>1. IInv /\ [Next]_vars => IInv'
  BY TypeStep, NoZombieStep, StatusStep, ReturnStep, StackStep, ContextStep,
    IdStep, RingStep, PictureStep DEF IInv
<1> QED
  BY InitInv, <1>1, PTL DEF Spec

(* Type correctness.                                                       *)
THEOREM TypeCorrect == Spec => []TypeOK
<1>1. IInv => TypeOK
  BY DEF IInv
<1> QED
  BY Invariance, <1>1, PTL

(* Neither a tick between two instructions nor an exit ever finds the run  *)
(* list half updated, whatever the number of threads.                      *)
THEOREM RingSafety == Spec => []RingConsistent
<1>1. IInv => RingConsistent
  BY DEF IInv, RingConsistent, RingInv, StatusInv, TypeOK, Labels,
    CreateLabels, ExitLabels
<1> QED
  BY Invariance, <1>1, PTL

(* thread_exit never returns: no thread is switched to after it has left.  *)
THEOREM NoZombieRuns == Spec => []NoZombie
<1>1. IInv => NoZombie
  BY DEF IInv
<1> QED
  BY Invariance, <1>1, PTL

(* Threads run privileged, interruptible and on their own stacks.          *)
THEOREM ThreadEnvironment == Spec => [](ThreadsPreemptible /\ OwnStack)
<1>1. IInv => ThreadsPreemptible /\ OwnStack
  BY DEF IInv, ThreadsPreemptible, OwnStack, StatusInv, StackInv, Current,
    Interruptible, HandlerLabels, TrapLabels, TypeOK
<1> QED
  BY Invariance, <1>1, PTL

(* However often and wherever the workers are preempted, the picture is    *)
(* the one they would have drawn alone.                                    *)
THEOREM PictureSafety == Spec => []PictureCorrect
<1>1. ASSUME IInv PROVE PictureCorrect
  <2>1. \A v \in DOMAIN fb : fb[v] \in {v, Blank}
    BY <1>1 DEF IInv, TypeOK, PictureInv
  <2>2. ASSUME NEW w \in Workers, Exited(w) PROVE RowsDrawn(fb, w, Rows)
    <3>1. CASE ctxt[w].pc = "zombie"
      BY <1>1, <3>1 DEF IInv, PictureInv
    <3>2. CASE pc = "all_exited" /\ Current = w
      BY <1>1, <3>2 DEF IInv, PictureInv, RunningState, WorkState, LogicalPc,
        HandlerLabels, CodeLabels
    <3> QED
      BY <2>2, <3>1, <3>2 DEF Exited
  <2> QED
    BY <2>1, <2>2 DEF PictureCorrect, RowsDrawn
<1> QED
  BY Invariance, <1>1, PTL

(* No step writes the saved state of a thread that waits.                  *)
THEOREM SavedStateSafety == Spec => SuspendedUntouched
<1>1. IInv /\ [Next]_vars =>
        [\A t \in Threads : Suspended(t) =>
           ctxt'[t] = ctxt[t] /\ frame'[t] = frame[t]]_vars
  BY UntouchedStep
<1> QED
  BY Invariance, <1>1, PTL DEF Spec, SuspendedUntouched

-----------------------------------------------------------------------------

(* Every set of natural numbers has a least element.                       *)
LEMMA LeastNat ==
  ASSUME NEW T \in SUBSET Nat, T # {}
  PROVE \E n \in T : \A m \in T : n <= m
<1> DEFINE R == OpToRel(<, Nat)
<1>1. IsWellFoundedOn(R, Nat)
  BY NatLessThanWellFounded
<1>2. \A x, y \in Nat : y < x => <<y, x>> \in R
  BY DEF OpToRel
<1> HIDE DEF R
<1>3. PICK n \in T : \A m \in T : ~ (<<m, n>> \in R)
  BY <1>1, WFMin
<1>4. \A m \in T : ~(m < n)
  BY <1>2, <1>3
<1> QED
  BY <1>4

(* Induction over the natural numbers, for a set.                          *)
LEMMA SetInduction ==
  ASSUME NEW S \in SUBSET Nat, 0 \in S, \A n \in S : n+1 \in S
  PROVE  S = Nat
<1> DEFINE T == Nat \ S
<1> SUFFICES ASSUME T # {} PROVE FALSE
  OBVIOUS
<1> PICK n \in T : \A m \in T : n <= m
  BY LeastNat
<1>1. n # 0
  OBVIOUS
<1>2. n-1 \in Nat /\ n-1 \notin T
  BY <1>1
<1> QED
  BY <1>2

LEMMA WalkExists ==
  ASSUME NEW head, NEW nxt, NEW null
  PROVE  \A b \in Nat : \E w : IsWalk(w, head, nxt, null, b)
<1> DEFINE S == {b \in Nat : \E w : IsWalk(w, head, nxt, null, b)}
<1>1. 0 \in S
  <2> DEFINE w == [i \in 0..0 |-> head]
  <2>1. IsWalk(w, head, nxt, null, 0)
    BY DEF IsWalk
  <2> QED
    BY <2>1
<1>2. ASSUME NEW b \in S PROVE b+1 \in S
  <2>1. PICK w : IsWalk(w, head, nxt, null, b)
    OBVIOUS
  <2> DEFINE v == [i \in 0..b+1 |-> IF i = b+1
                     THEN (IF w[b] = null THEN null ELSE nxt[w[b]]) ELSE w[i]]
  <2>2. \A i \in 0..b : w[i] = IF i = 0 THEN head
         ELSE IF w[i-1] = null THEN null ELSE nxt[w[i-1]]
    BY <2>1 DEF IsWalk
  <2>3. \A i \in 0..b+1 : v[i] = IF i = 0 THEN head
         ELSE IF v[i-1] = null THEN null ELSE nxt[v[i-1]]
    BY <2>2
  <2>4. DOMAIN v = 0..b+1 /\ v = [i \in 0..b+1 |-> v[i]]
    OBVIOUS
  <2> HIDE DEF v
  <2>5. IsWalk(v, head, nxt, null, b+1)
    BY <2>3, <2>4 DEF IsWalk
  <2> QED
    BY <2>5
<1> HIDE DEF S
<1>3. S = Nat
  <2>1. S \in SUBSET Nat BY DEF S
  <2> QED BY <1>1, <1>2, <2>1, SetInduction
<1> QED
  BY <1>3 DEF S

(* What RingQueue computes from a ring of at most bound threads.           *)
LEMMA RingQueueIs ==
  ASSUME NEW head, NEW nxt, NEW null, NEW bound \in Nat, NEW S, null \notin S,
         NEW q, IsQueue(q, head, nxt, S), Len(q) <= bound
  PROVE  RingQueue(head, nxt, null, bound) = q
<1> DEFINE at == CHOOSE w : w = [i \in 0..bound |-> IF i = 0 THEN head
                      ELSE IF w[i-1] = null THEN null ELSE nxt[w[i-1]]]
           Good(k) == /\ k = bound \/ at[k] = head
                      /\ \A j \in 1..k-1 : at[j] # head
           len == CHOOSE k \in 1..bound : Good(k)
           n == Len(q)
<1>1. RingQueue(head, nxt, null, bound) = [i \in 1..len |-> at[i-1]]
  BY Zenon DEF RingQueue
<1>2. IsWalk(at, head, nxt, null, bound)
  <2> DEFINE Is(w) == w = [i \in 0..bound |-> IF i = 0 THEN head
                      ELSE IF w[i-1] = null THEN null ELSE nxt[w[i-1]]]
  <2>0. \E w : IsWalk(w, head, nxt, null, bound)
    BY WalkExists
  <2>1. PICK w : Is(w)
    BY <2>0, Zenon DEF IsWalk
  <2>2. at = CHOOSE v : Is(v)
    BY Zenon
  <2>3. Is(w) => Is(CHOOSE v : Is(v))
    <3> HIDE DEF Is
    <3> QED BY Zenon
  <2>4. Is(at)
    <3> HIDE DEF Is
    <3> QED BY <2>1, <2>2, <2>3, Zenon
  <2> QED
    BY <2>4, Zenon DEF IsWalk
<1> HIDE DEF at
<1>3. /\ \A i \in 0..bound : at[i] = IF i = 0 THEN head
         ELSE IF at[i-1] = null THEN null ELSE nxt[at[i-1]]
  BY <1>2 DEF IsWalk
<1>4. n \in Nat /\ n >= 1 /\ q = [i \in 1..n |-> q[i]] /\ \A i \in 1..n : q[i] \in S
  BY DEF IsQueue
<1>5. \A i \in 0..n-1 : at[i] = q[i+1]
  <2> DEFINE T == {i \in 0..n-1 : at[i] # q[i+1]}
  <2> SUFFICES ASSUME T # {} PROVE FALSE
    OBVIOUS
  <2>0. T \in SUBSET Nat
    BY <1>4
  <2>1. PICK i \in T : \A m \in T : i <= m
    <3> HIDE DEF T
    <3> QED BY <2>0, LeastNat
  <2>2. i # 0
    BY <1>3, <1>4 DEF IsQueue
  <2>3. i-1 \in 0..n-1 /\ i-1 \notin T
    BY <1>4, <2>1, <2>2
  <2>4. at[i-1] = q[i] /\ q[i] # null
    BY <1>4, <2>3
  <2>5. at[i] = nxt[q[i]]
    BY <1>3, <1>4, <2>2, <2>4
  <2> QED
    BY <1>4, <2>2, <2>5 DEF IsQueue
<1>6. n <= bound => at[n] = head
  BY <1>3, <1>4, <1>5 DEF IsQueue
<1>7. \A j \in 1..n-1 : at[j] # head
  BY <1>4, <1>5 DEF IsQueue
<1>8. Good(n) /\ n \in 1..bound
  BY <1>4, <1>6, <1>7
<1>9. \A k \in 1..bound : Good(k) => k = n
  BY <1>4, <1>6, <1>7
<1>10. len = n
  <2> HIDE DEF Good
  <2> QED BY <1>8, <1>9
<1> HIDE DEF len
<1>11. [i \in 1..n |-> at[i-1]] = [i \in 1..n |-> q[i]]
  BY <1>4, <1>5
<1> QED
  BY <1>1, <1>4, <1>10, <1>11

(* The ends of the queue.                                                  *)
LEMMA QueueEnds ==
  ASSUME NEW S, NEW nxt, NEW head, NEW q, IsQueue(q, head, nxt, S)
  PROVE  EndsOf(q, head, nxt, S)
<1>1. q \in Seq(S) /\ Len(q) \in Nat /\ Len(q) >= 1 /\ q[1] = head
      /\ nxt[q[Len(q)]] = head
  BY DEF IsQueue
<1>2. 1 \in 1..Len(q) /\ Len(q) \in 1..Len(q)
  BY <1>1
<1>3. q[Len(q)] = q[1] => Len(q) = 1
  BY <1>2 DEF IsQueue
<1> QED
  BY <1>1, <1>2, <1>3 DEF EndsOf

(* Pointers of other threads may change.                                   *)
LEMMA QueueSameElements ==
  ASSUME NEW S, NEW nxt, NEW nxt1, NEW head, NEW q,
         IsQueue(q, head, nxt, S), \A i \in 1..Len(q) : nxt1[q[i]] = nxt[q[i]]
  PROVE  IsQueue(q, head, nxt1, S)
<1>1. Len(q) \in Nat
  BY DEF IsQueue
<1> QED
  BY <1>1 DEF IsQueue

LEMMA QueueSame ==
  ASSUME NEW S, NEW nxt, NEW nxt1, NEW head, NEW q,
         IsQueue(q, head, nxt, S), \A s \in S : nxt1[s] = nxt[s]
  PROVE  IsQueue(q, head, nxt1, S)
<1>1. \A i \in 1..Len(q) : q[i] \in S
  BY DEF IsQueue
<1> QED
  BY <1>1, QueueSameElements

(* A new last thread.                                                      *)
LEMMA QueueAppend ==
  ASSUME NEW S, NEW nxt, NEW nxt1, NEW head, NEW q, NEW t,
         IsQueue(q, head, nxt, S), t \notin S, nxt1[t] = head,
         nxt1[q[Len(q)]] = t, SameBut(nxt1, nxt, S, {q[Len(q)]}),
         NEW U, U = S \cup {t}
  PROVE  IsQueue(Append(q, t), head, nxt1, U)
<1> DEFINE r == Append(q, t)
           n == Len(q)
<1>1. q \in Seq(S) /\ n \in Nat /\ n >= 1 /\ \A i \in 1..n : q[i] \in S
  BY DEF IsQueue
<1>2. r \in Seq(U) /\ Len(r) = n+1 /\ r[n+1] = t
      /\ \A i \in 1..n : r[i] = q[i]
  BY <1>1
<1> HIDE DEF r
<1>3. \A i \in 1..n : nxt1[r[i]] = r[i+1]
  BY <1>1, <1>2 DEF IsQueue, SameBut
<1>4. \A i, j \in 1..n+1 : r[i] = r[j] => i = j
  BY <1>1, <1>2 DEF IsQueue
<1>5. r[1] = head /\ nxt1[r[n+1]] = head
  BY <1>1, <1>2 DEF IsQueue
<1> QED
  BY <1>1, <1>2, <1>3, <1>4, <1>5 DEF IsQueue

(* The head goes to the end.                                               *)
LEMMA QueueRotate ==
  ASSUME NEW S, NEW nxt, NEW head, NEW q, IsQueue(q, head, nxt, S)
  PROVE  /\ IsQueue(Append(Tail(q), Head(q)), nxt[head], nxt, S)
         /\ Len(Append(Tail(q), Head(q))) = Len(q)
<1> DEFINE r == Append(Tail(q), Head(q))
           n == Len(q)
<1>1. q \in Seq(S) /\ n \in Nat /\ n >= 1 /\ q[1] = head /\ q # <<>>
      /\ nxt[q[n]] = head
  BY DEF IsQueue
<1>2. Tail(q) \in Seq(S) /\ Len(Tail(q)) = n-1 /\ Head(q) = q[1] /\ Head(q) \in S
      /\ \A i \in 1..n-1 : Tail(q)[i] = q[i+1]
  BY <1>1
<1>3. r \in Seq(S) /\ Len(r) = n /\ r[n] = q[1]
      /\ \A i \in 1..n-1 : r[i] = q[i+1]
  BY <1>1, <1>2
<1> HIDE DEF r
<1>4. r[1] = nxt[head] /\ nxt[r[n]] = nxt[head]
  BY <1>1, <1>3 DEF IsQueue
<1>5. \A i \in 1..n-1 : nxt[r[i]] = r[i+1]
  BY <1>1, <1>3 DEF IsQueue
<1>6. \A i, j \in 1..n : r[i] = r[j] => i = j
  BY <1>1, <1>3 DEF IsQueue
<1> QED
  BY <1>1, <1>3, <1>4, <1>5, <1>6 DEF IsQueue

(* The head leaves.                                                        *)
LEMMA QueueTail ==
  ASSUME NEW S, NEW nxt, NEW nxt1, NEW head, NEW q,
         IsQueue(q, head, nxt, S), Len(q) > 1,
         nxt1[q[Len(q)]] = nxt[head],
         SameBut(nxt1, nxt, S, {q[Len(q)], head})
  PROVE  /\ IsQueue(Tail(q), nxt[head], nxt1, S)
         /\ Len(Tail(q)) = Len(q) - 1
         /\ \A i \in 1..Len(Tail(q)) : Tail(q)[i] # head
<1> DEFINE r == Tail(q)
           n == Len(q)
<1>1. q \in Seq(S) /\ n \in Nat /\ n >= 2 /\ q[1] = head /\ q # <<>>
      /\ \A i \in 1..n : q[i] \in S
  BY DEF IsQueue
<1>2. r \in Seq(S) /\ Len(r) = n-1
      /\ \A i \in 1..n-1 : r[i] = q[i+1]
  BY <1>1
<1> HIDE DEF r
<1>3. r[1] = nxt[head] /\ nxt1[r[n-1]] = nxt[head]
  BY <1>1, <1>2 DEF IsQueue
<1>4. \A i \in 1..n-2 : nxt1[r[i]] = r[i+1]
  <2> TAKE i \in 1..n-2
  <2>1. r[i] = q[i+1] /\ r[i+1] = q[i+2] /\ i+1 \in 1..n-1 /\ i+1 \in 1..n /\ n \in 1..n /\ 1 \in 1..n
        /\ i+2 = (i+1)+1
    BY <1>1, <1>2
  <2>2. q[i+1] # q[n] /\ q[i+1] # q[1] /\ q[i+1] \in S
    BY <1>1, <2>1 DEF IsQueue
  <2>3. nxt[q[i+1]] = q[i+2]
    BY <1>1, <2>1 DEF IsQueue
  <2> QED
    BY <1>1, <2>1, <2>2, <2>3 DEF SameBut
<1>5. \A i, j \in 1..n-1 : r[i] = r[j] => i = j
  BY <1>1, <1>2 DEF IsQueue
<1>6. \A i \in 1..n-1 : r[i] # head
  BY <1>1, <1>2 DEF IsQueue
<1> QED
  BY <1>1, <1>2, <1>3, <1>4, <1>5, <1>6 DEF IsQueue
-----------------------------------------------------------------------------
(* The ring is one cycle through the thread the hart runs (or is about to  *)
(* switch to), and it holds only threads that thread_create has linked.    *)
QueueInv ==
  \E q : /\ RunsAs(q, QueueHead, next, Spawned)
         /\ pc = "te_clear" => \A i \in 1..Len(q) : q[i] # Current

LEMMA SpawnedType ==
  ASSUME IInv
  PROVE  Spawned \in 0..N /\ (pc = "tc_link_prev" => Spawned + 1 \in 0..N)
<1>1. nextId \in 1..N+1 /\ N \in Nat
  BY ThreadsAssumption DEF IInv, TypeOK
<1>2. pc = "tc_link_prev" => nextId > 1
  BY DEF IInv, IdInv, CreateLabels
<1> QED
  BY <1>1, <1>2 DEF Spawned

(* RunQueue is that sequence.                                              *)
LEMMA RunQueueIs ==
  ASSUME NEW head, NEW nxt, NEW k \in 0..N, NEW q, RunsAs(q, head, nxt, k)
  PROVE  RingQueue(head, nxt, Null, N + 1) = q
<1>1. N \in Nat /\ N + 1 \in Nat /\ Null \notin 0..k
  BY ThreadsAssumption DEF Null
<1>2. Len(q) <= N + 1 /\ IsQueue(q, head, nxt, 0..k)
  <2>1. Len(q) \in Nat
    BY DEF RunsAs, IsQueue
  <2> QED
    BY <1>1, <2>1 DEF RunsAs
<1> QED
  BY <1>1, <1>2, RingQueueIs

(* A step that leaves the ring, its head and the number of threads alone.  *)
LEMMA QueueFrame ==
  ASSUME QueueInv, QueueHead' = QueueHead, next' = next, Spawned' = Spawned,
         pc' # "te_clear"
  PROVE  QueueInv' /\ UNCHANGED RR!rrvars
<1>1. PICK q : RunsAs(q, QueueHead, next, Spawned)
  BY DEF QueueInv
<1>2. RunsAs(q, QueueHead', next', Spawned')
  BY <1>1
<1>3. QueueInv'
  BY <1>2 DEF QueueInv
<1>4. RunQueue' = RunQueue
  BY DEF RunQueue
<1> QED
  BY <1>3, <1>4 DEF RR!rrvars


(* alloc() takes an id that is not on the ring yet.                        *)
LEMMA QueueCreateAlloc ==
  ASSUME IInv, QueueInv, CreateAlloc
  PROVE  QueueInv' /\ UNCHANGED RR!rrvars
<1>1. /\ pc = "tc_alloc" /\ pc' = "tc_link_prev"
      /\ nextId' = nextId + 1
      /\ next' = [next EXCEPT ![nextId] = Current]
      /\ reg' = reg
  BY DEF CreateAlloc, Goto
<1>2. nextId \in 1..N+1 /\ next \in [Threads -> Pointer]
  BY DEF IInv, TypeOK
<1>3. Spawned = nextId - 1 /\ Spawned' = nextId - 1 /\ QueueHead' = QueueHead
  BY <1>1, <1>2 DEF Spawned, QueueHead, Current
<1>4. Spawned \in 0..N
  BY SpawnedType
<1>5. PICK q : RunsAs(q, QueueHead, next, Spawned)
  BY DEF QueueInv
<1>6. \A s \in 0..Spawned : next'[s] = next[s]
  BY <1>1, <1>2, <1>3, <1>4, ThreadsAssumption DEF Threads
<1>7. RunsAs(q, QueueHead', next', Spawned')
  <2>1. IsQueue(q, QueueHead, next', 0..Spawned)
    BY <1>5, <1>6, QueueSame DEF RunsAs
  <2> QED
    BY <1>3, <1>5, <2>1 DEF RunsAs
<1>8. QueueInv'
  BY <1>1, <1>7 DEF QueueInv
<1>9. RunQueue = q /\ RunQueue' = q
  <2>1. RingQueue(QueueHead, next, Null, N + 1) = q
    BY <1>4, <1>5, RunQueueIs
  <2>2. RingQueue(QueueHead', next', Null, N + 1) = q
    BY <1>3, <1>4, <1>7, RunQueueIs
  <2> QED
    BY <2>1, <2>2 DEF RunQueue
<1> QED
  BY <1>3, <1>8, <1>9 DEF RR!rrvars

(* t->prev->next = t makes the new thread the last of the queue.           *)
LEMMA QueueCreateLinkPrev ==
  ASSUME IInv, QueueInv, CreateLinkPrev
  PROVE  QueueInv' /\ RR!Spawn
<1> DEFINE k == Spawned
           t == NewThread
           p == prev[NewThread]
<1>1. /\ pc = "tc_link_prev" /\ pc' = "tc_link_next"
      /\ nextId' = nextId
      /\ next' = [next EXCEPT ![p] = t]
      /\ reg' = reg
  BY DEF CreateLinkPrev, Goto
<1>2. nextId \in 1..N+1 /\ next \in [Threads -> Pointer] /\ nextId > 1
  BY <1>1 DEF IInv, TypeOK, IdInv, CreateLabels
<1>3. k = nextId - 2 /\ t = k + 1 /\ Spawned' = k + 1
  BY <1>1, <1>2 DEF Spawned, NewThread
<1>4. k \in 0..N /\ k + 1 \in 0..N /\ N \in Nat
  BY <1>1, SpawnedType, ThreadsAssumption
<1>5. QueueHead = Current /\ QueueHead' = Current /\ Current = 0
  BY <1>1 DEF QueueHead, Current, IInv, StackInv, BootLabels, CreateLabels
<1>6. PICK q : RunsAs(q, Current, next, k)
  BY <1>5 DEF QueueInv
<1> DEFINE z == q[Len(q)]
<1>7. /\ IsQueue(q, Current, next, 0..k) /\ Len(q) <= k + 1
      /\ Len(q) \in Nat /\ z \in 0..k /\ next[z] = Current
  <2>1. IsQueue(q, Current, next, 0..k) /\ Len(q) <= k + 1
    BY <1>6 DEF RunsAs
  <2>2. EndsOf(q, Current, next, 0..k)
    BY <2>1, QueueEnds
  <2> QED
    BY <2>1, <2>2 DEF EndsOf
<1>8. /\ RingOn(Members \ {t}, next, prev)
      /\ Current \in Members \ {t}
      /\ next[t] = Current /\ p = prev[Current]
  BY <1>1 DEF IInv, RingInv
<1>9. z \in Threads /\ t \in Threads /\ z # t
  BY <1>3, <1>4, <1>7 DEF Threads
<1>10. z = p
  <2>1. Current # Null
    BY <1>8, ConstantFacts DEF Members
  <2>2. z \in Members \ {t}
    BY <1>7, <1>9, <2>1 DEF Members
  <2> QED
    BY <1>7, <1>8, <2>2 DEF RingOn
<1>11. /\ next'[t] = Current /\ next'[z] = t
       /\ SameBut(next', next, 0..k, {z})
  BY <1>1, <1>2, <1>4, <1>8, <1>9, <1>10 DEF Threads, SameBut
<1>12. t \notin 0..k /\ (0..k) \cup {t} = 0..(k + 1)
  BY <1>3, <1>4
<1> HIDE DEF t, p, k
<1>13. IsQueue(Append(q, t), Current, next', 0..(k + 1))
  BY <1>7, <1>11, <1>12, QueueAppend
<1>14. RunsAs(Append(q, t), QueueHead', next', Spawned')
  <2>1. Len(Append(q, t)) = Len(q) + 1
    BY <1>7 DEF IsQueue
  <2> QED
    BY <1>3, <1>4, <1>5, <1>7, <1>13, <2>1 DEF RunsAs
<1>15. QueueInv'
  BY <1>1, <1>14 DEF QueueInv
<1>16. RunQueue = q
  BY <1>4, <1>5, <1>6, RunQueueIs DEF RunQueue
<1>17. RunQueue' = Append(q, t)
  <2>1. RingQueue(QueueHead', next', Null, N + 1) = Append(q, t)
    BY <1>3, <1>4, <1>14, RunQueueIs
  <2> QED
    BY <2>1 DEF RunQueue
<1>18. Head(q) = 0
  BY <1>5, <1>7 DEF IsQueue
<1> QED
  BY <1>3, <1>4, <1>15, <1>16, <1>17, <1>18 DEF RR!Spawn, k

(* The switch in the timer interrupt sends the head to the end.            *)
LEMMA QueueInterruptSwitch ==
  ASSUME IInv, QueueInv, InterruptSwitch
  PROVE  QueueInv' /\ RR!Switch
<1>1. /\ pc = "ih_switch" /\ pc' \in {"trap_exit", "ih_return"}
      /\ nextId' = nextId /\ next' = next
      /\ reg'.tp = next[Current]
  BY InterruptSwitchEffect DEF InterruptSwitch, ring
<1>2. /\ QueueHead = Current /\ QueueHead' = next[Current]
      /\ Spawned' = Spawned
  BY <1>1 DEF QueueHead, Current, Spawned
<1>3. Spawned \in 0..N
  BY SpawnedType
<1>4. PICK q : RunsAs(q, Current, next, Spawned)
  BY <1>2 DEF QueueInv
<1> DEFINE r == Append(Tail(q), Head(q))
<1>5. IsQueue(r, next[Current], next, 0..Spawned) /\ Len(r) = Len(q)
  BY <1>4, QueueRotate DEF RunsAs
<1>6. RunsAs(r, QueueHead', next', Spawned')
  BY <1>1, <1>2, <1>4, <1>5 DEF RunsAs
<1>7. QueueInv'
  BY <1>1, <1>6 DEF QueueInv
<1>8. RunQueue = q
  BY <1>2, <1>3, <1>4, RunQueueIs DEF RunQueue
<1>9. RunQueue' = r
  <2>1. RingQueue(QueueHead', next', Null, N + 1) = r
    BY <1>2, <1>3, <1>6, RunQueueIs
  <2> QED
    BY <2>1 DEF RunQueue
<1> QED
  BY <1>2, <1>7, <1>8, <1>9 DEF RR!Switch

(* prev->next = next takes the exiting thread off the queue.               *)
LEMMA QueueExitUnlinkNext ==
  ASSUME IInv, QueueInv, ExitUnlinkNext
  PROVE  QueueInv' /\ RR!Leave
<1> DEFINE n == local.next
           p == local.prev
<1>1. /\ pc = "te_unlink_next" /\ pc' = "te_clear"
      /\ nextId' = nextId /\ local' = local
      /\ next' = [next EXCEPT ![p] = n]
      /\ reg' = reg
  BY DEF ExitUnlinkNext, Goto
<1>2. next \in [Threads -> Pointer]
  BY DEF IInv, TypeOK
<1>3. /\ QueueHead = Current /\ QueueHead' = n
      /\ Spawned' = Spawned /\ Current' = Current
  BY <1>1 DEF QueueHead, Current, Spawned
<1>4. Spawned \in 0..N /\ N \in Nat
  BY SpawnedType, ThreadsAssumption
<1>5. PICK q : RunsAs(q, Current, next, Spawned)
  BY <1>3 DEF QueueInv
<1> DEFINE z == q[Len(q)]
<1>6. /\ IsQueue(q, Current, next, 0..Spawned) /\ Len(q) <= Spawned + 1
      /\ Len(q) \in Nat /\ Len(q) >= 1 /\ z \in 0..Spawned
      /\ next[z] = Current /\ q[1] = Current
      /\ Len(q) > 1 <=> z # Current
  <2>1. IsQueue(q, Current, next, 0..Spawned) /\ Len(q) <= Spawned + 1
    BY <1>5 DEF RunsAs
  <2>2. EndsOf(q, Current, next, 0..Spawned)
    BY <2>1, QueueEnds
  <2> QED
    BY <2>1, <2>2 DEF EndsOf
<1>7. /\ n \in Members \ {Current} /\ p \in Members \ {Current}
      /\ Current \in Members /\ next[Current] = n /\ next[p] = Current
      /\ \A u \in Members \ {Current, p} : next[u] \in Members \ {Current}
  BY <1>1 DEF IInv, RingInv, RingOpen
<1>8. Len(q) > 1 /\ z # Current
  BY <1>6, <1>7
<1>9. z = p /\ z \in Threads
  <2>1. Current # Null /\ z \in Threads
    BY <1>4, <1>6, <1>7, ConstantFacts DEF Members, Threads
  <2>2. z \in Members
    BY <1>6, <2>1 DEF Members
  <2> QED
    BY <1>6, <1>7, <1>8, <2>1, <2>2
<1>10. next'[z] = next[Current]
       /\ SameBut(next', next, 0..Spawned, {z, Current})
  BY <1>1, <1>2, <1>4, <1>7, <1>9 DEF Threads, SameBut
<1>11. /\ IsQueue(Tail(q), n, next', 0..Spawned)
       /\ Len(Tail(q)) = Len(q) - 1
       /\ \A i \in 1..Len(Tail(q)) : Tail(q)[i] # Current
  BY <1>6, <1>7, <1>8, <1>10, QueueTail
<1>12. RunsAs(Tail(q), QueueHead', next', Spawned')
  BY <1>3, <1>4, <1>6, <1>11 DEF RunsAs
<1>13. QueueInv'
  BY <1>3, <1>11, <1>12 DEF QueueInv
<1>14. RunQueue = q
  BY <1>3, <1>4, <1>5, RunQueueIs DEF RunQueue
<1>15. RunQueue' = Tail(q)
  <2>1. RingQueue(QueueHead', next', Null, N + 1) = Tail(q)
    BY <1>3, <1>4, <1>12, RunQueueIs
  <2> QED
    BY <2>1 DEF RunQueue
<1> QED
  BY <1>3, <1>8, <1>13, <1>14, <1>15 DEF RR!Leave

(* Clearing the pointers of the thread that has left changes no queue.     *)
LEMMA QueueExitClear ==
  ASSUME IInv, QueueInv, ExitClear
  PROVE  QueueInv' /\ UNCHANGED RR!rrvars
<1>1. /\ pc = "te_clear" /\ pc' = "te_switch"
      /\ nextId' = nextId /\ local' = local
      /\ next' = [next EXCEPT ![Current] = Null]
  BY DEF ExitClear, Goto
<1>2. next \in [Threads -> Pointer]
  BY DEF IInv, TypeOK
<1>3. QueueHead' = QueueHead /\ Spawned' = Spawned
  BY <1>1 DEF QueueHead, Spawned
<1>4. Spawned \in 0..N /\ N \in Nat
  BY SpawnedType, ThreadsAssumption
<1>5. PICK q : /\ RunsAs(q, QueueHead, next, Spawned)
               /\ \A i \in 1..Len(q) : q[i] # Current
  BY <1>1 DEF QueueInv
<1>6. \A i \in 1..Len(q) : next'[q[i]] = next[q[i]]
  <2>1. \A i \in 1..Len(q) : q[i] \in Threads
    BY <1>4, <1>5 DEF RunsAs, IsQueue, Threads
  <2> QED
    BY <1>1, <1>2, <1>5, <2>1
<1>7. RunsAs(q, QueueHead', next', Spawned')
  <2>1. IsQueue(q, QueueHead, next', 0..Spawned)
    BY <1>5, <1>6, QueueSameElements DEF RunsAs
  <2> QED
    BY <1>3, <1>5, <2>1 DEF RunsAs
<1>8. QueueInv'
  BY <1>1, <1>7 DEF QueueInv
<1>9. RunQueue = q /\ RunQueue' = q
  <2>1. RingQueue(QueueHead, next, Null, N + 1) = q
    BY <1>4, <1>5, RunQueueIs
  <2>2. RingQueue(QueueHead', next', Null, N + 1) = q
    BY <1>3, <1>4, <1>7, RunQueueIs
  <2> QED
    BY <2>1, <2>2 DEF RunQueue
<1> QED
  BY <1>3, <1>8, <1>9 DEF RR!rrvars


(* Every step of the machine is a step of the queue or leaves it alone.    *)
LEMMA QueueStep ==
  ASSUME IInv, QueueInv, [Next]_vars
  PROVE  QueueInv' /\ [RR!RRNext]_RR!rrvars
<1> DEFINE Same == /\ QueueHead' = QueueHead /\ next' = next
                   /\ Spawned' = Spawned /\ pc' # "te_clear"
<1> USE DEF Goto, vars, csrs, ring, screen, QueueHead, Spawned, Current
<1>1. CASE ThreadInit \/ TimerInit \/ TimerEvEnable
  <2>1. Same
    BY <1>1 DEF ThreadInit, TimerInit, TimerEvEnable, IInv, TypeOK
  <2> QED
    BY <2>1, QueueFrame
<1>2. CASE CreateIrqDisable \/ CreateLinkNext \/ CreateFrame \/
           CreateIrqEnable
  <2>1. Same
    BY <1>2 DEF CreateIrqDisable, CreateLinkNext, CreateFrame, CreateIrqEnable
  <2> QED
    BY <2>1, QueueFrame
<1>3. CASE CreateAlloc
  BY <1>3, QueueCreateAlloc
<1>4. CASE CreateLinkPrev
  BY <1>4, QueueCreateLinkPrev DEF RR!RRNext
<1>5. CASE ExitIrqDisable \/ ExitStatus \/ ExitLoad \/ ExitUnlinkPrev
  <2>1. Same
    BY <1>5 DEF ExitIrqDisable, ExitStatus, ExitLoad, ExitUnlinkPrev
  <2> QED
    BY <2>1, QueueFrame
<1>6. CASE ExitUnlinkNext
  BY <1>6, QueueExitUnlinkNext DEF RR!RRNext
<1>7. CASE ExitClear
  BY <1>7, QueueExitClear
<1>8. CASE ExitSwitch
  <2>1. Same
    BY <1>8, ExitSwitchEffect DEF ExitSwitch
  <2> QED
    BY <2>1, QueueFrame
<1>9. CASE Rendering
  <2>1. Same
    BY <1>9 DEF Rendering, FnEntry, FnColor, FnReturn, FnSetColor, FnPlot,
      IInv, TypeOK, ReturnInv, CodeLabels
  <2> QED
    BY <2>1, QueueFrame
<1>10. CASE TrapEntry \/ InterruptHandler \/ InterruptReturn \/ TrapExit
  <2>1. Same
    BY <1>10 DEF TrapEntry, InterruptHandler, InterruptReturn, TrapExit, IInv,
      TypeOK
  <2> QED
    BY <2>1, QueueFrame
<1>11. CASE InterruptSwitch
  BY <1>11, QueueInterruptSwitch DEF RR!RRNext
<1>12. CASE Sret
  <2>1. Same
    BY <1>12 DEF Sret, IInv, ReturnInv, Interruptible, CodeLabels
  <2> QED
    BY <2>1, QueueFrame
<1>13. CASE Interrupt
  <2>1. pc \notin CreateLabels \cup ExitLabels \cup {"start"}
    BY <1>13 DEF Interrupt, IInv, StatusInv
  <2>2. Same
    BY <1>13, <2>1 DEF Interrupt, CreateLabels, ExitLabels
  <2> QED
    BY <2>2, QueueFrame
<1>14. CASE TimerTick \/ Spin \/ UNCHANGED vars
  <2>1. /\ QueueHead' = QueueHead /\ next' = next /\ Spawned' = Spawned
        /\ pc' = pc /\ reg' = reg
    BY <1>14 DEF TimerTick, Spin
  <2>2. QueueInv'
    BY <2>1 DEF QueueInv
  <2>3. UNCHANGED RR!rrvars
    BY <2>1 DEF RR!rrvars, RunQueue
  <2> QED
    BY <2>2, <2>3
<1> QED
  BY <1>1, <1>2, <1>3, <1>4, <1>5, <1>6, <1>7, <1>8, <1>9, <1>10, <1>11,
    <1>12, <1>13, <1>14
  DEF Next, Instruction, Starting, Creating, Unlinking, Rendering, Trapping

(* At boot the queue holds thread 0.                                       *)
LEMMA QueueInit ==
  ASSUME Init
  PROVE  QueueInv /\ RR!RRInit
<1>1. /\ QueueHead = 0 /\ Spawned = 0 /\ next[0] = 0 /\ pc = "start"
  BY ConstantFacts DEF Init, QueueHead, Spawned
<1>2. <<0>> \in Seq(0..0) /\ Len(<<0>>) = 1 /\ <<0>>[1] = 0
  OBVIOUS
<1>3. RunsAs(<<0>>, 0, next, 0)
  BY <1>1, <1>2 DEF RunsAs, IsQueue
<1>4. QueueInv
  BY <1>1, <1>3 DEF QueueInv
<1>5. RunQueue = <<0>>
  <2>1. 0 \in 0..N
    BY ThreadsAssumption
  <2> QED
    BY <1>1, <1>3, <2>1, RunQueueIs DEF RunQueue
<1> QED
  BY <1>1, <1>4, <1>5 DEF RR!RRInit

(* The ring of next pointers, read from the thread that runs, is the FIFO  *)
(* of RoundRobin: whatever the timer interrupts, a switch sends the        *)
(* running thread to the end, thread_create appends, thread_exit removes   *)
(* the head, and no other step changes the order.                          *)
THEOREM RoundRobinRefinement == Spec => ImplementsRoundRobin
<1>1. Init => QueueInv /\ RR!RRInit
  BY QueueInit
<1>2. IInv /\ QueueInv /\ [Next]_vars => QueueInv' /\ [RR!RRNext]_RR!rrvars
  BY QueueStep
<1> QED
  BY <1>1, <1>2, Invariance, PTL DEF Spec, ImplementsRoundRobin, RR!RRSpec

===============================================================================
