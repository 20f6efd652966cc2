-------------------------- MODULE PreemptiveThreads --------------------------
(***************************************************************************)
(* The preemptive thread library of example/ex11-threads-preemptive.c with *)
(* the assembly it stands on: context_switch (hw/src/context-switch.S) and *)
(* trap_entry / trap_exit (hw/src/trap-entry-single-stack.S).              *)
(*                                                                         *)
(* One hart runs N worker threads and thread 0, the thread of start().     *)
(* The run list is a ring of next / prev pointers.  A timer interrupt may  *)
(* arrive between any two instructions executed while sstatus.SIE is set;  *)
(* it pushes a trap frame on the stack of the interrupted thread and       *)
(* switches to the next thread of the ring.                                *)
(*                                                                         *)
(* Registers are kept as the groups the two save areas tell apart:         *)
(*   tmp  the caller-saved registers (tframe_t: t0-t6, a0-a7)              *)
(*   ra   the return address, caller-saved too, since a label is in it     *)
(*   sav  the callee-saved registers (cframe_t: s0-s11)                    *)
(* A data register holds <<quadrant, row>>: the part of the display a      *)
(* worker renders and the row it is at.  A lost register therefore shows   *)
(* as a wrong pixel.                                                       *)
(***************************************************************************)
EXTENDS Naturals, Sequences, ThreadRing

CONSTANTS
  N,        \* number of worker threads start() creates (4 in the code)
  Rows,     \* rows a worker renders (240 in the code)
  Endless   \* workers whose function never returns: thread_create takes any fn

ASSUME ThreadsAssumption ==
  /\ N \in Nat \ {0}
  /\ Rows \in Nat \ {0}
  /\ Endless \subseteq 1..N

VARIABLES
  pc,       \* the next instruction (or C statement) of the hart
  mode,     \* privilege the hart runs at: "S" or "U"
  sstatus,  \* the fields SIE, SPIE and SPP of the CSR
  sepc,     \* pc the hardware saved when it took the last trap
  reg,      \* the register groups of the hart, and sp and tp
  timer,    \* EN, EV_ENABLE and EV_PENDING of timer 0
  next,     \* thread_t.next, Null is the null pointer
  prev,     \* thread_t.prev
  ctxt,     \* thread_t.ctxt, a cframe_t
  frame,    \* the trap frame (tframe_t) below each thread's own stack data
  nextId,   \* next_thread_id
  local,    \* the locals of thread_exit: next and prev
  surf,     \* fgcolor of each thread's gfx_surface_t; surf[0] is shared
  fb        \* the framebuffer

csrs   == <<mode, sstatus, sepc>>
ring   == <<next, prev>>
screen == <<surf, fb>>
vars   == <<pc, mode, sstatus, sepc, reg, timer, next, prev, ctxt, frame,
            nextId, local, surf, fb>>

Workers == 1..N
Threads == 0..N
Null    == N + 1
Pointer == Threads \cup {Null}

\* Contents of a data register: a quadrant and a row.
Value == Threads \X (0..Rows)
Zero  == <<0, 0>>      \* what memset(.., 0, ..) leaves
Blank == <<0, Rows>>   \* a pixel nobody has drawn; also a clobbered register

\* A stack pointer: whose stack, and how many trap frames are on it.
StackPtr == Threads \X (0..2)

CodeLabels   == {"fn", "color", "setcolor", "plot"}
CreateLabels == {"tc_alloc", "tc_link_prev", "tc_link_next", "tc_frame",
                 "tc_enable"}
ExitLabels   == {"te_status", "te_load", "te_unlink_prev", "te_unlink_next",
                 "te_clear", "te_switch"}
TrapLabels   == {"trap_entry", "interrupt_handler", "ih_switch", "ih_return",
                 "trap_exit", "sret"}
Labels == CodeLabels \cup CreateLabels \cup ExitLabels \cup TrapLabels \cup
          {"start", "thread_create", "timer_enable", "thread_exit",
           "all_exited", "zombie"}

CFrame == [pc : Labels, sp : StackPtr, tp : Threads, sav : Value]
TFrame == [pc : Labels, ra : Labels, tmp : Value]

Goto(from, to) == pc = from /\ pc' = to

Current == reg.tp          \* threadptr_get()

-----------------------------------------------------------------------------
(* The initial state: start() has been entered on the boot stack in        *)
(* supervisor mode with interrupts off; thread0 is statically a ring of    *)
(* its own and tp has not been set.                                        *)

NoContext == [pc |-> "start", sp |-> <<0, 0>>, tp |-> 0, sav |-> Zero]
NoFrame   == [pc |-> "start", ra |-> "start", tmp |-> Zero]

Init ==
  /\ pc = "start"
  /\ mode = "S"
  /\ sstatus = [SIE |-> FALSE, SPIE |-> FALSE, SPP |-> "U"]
  /\ sepc = "start"
  /\ reg = [tp |-> Null, sp |-> <<0, 0>>, ra |-> "start",
            tmp |-> Zero, sav |-> Zero]
  /\ timer = [EN |-> FALSE, EV_ENABLE |-> FALSE, EV_PENDING |-> FALSE]
  /\ next = [t \in Threads |-> IF t = 0 THEN 0 ELSE Null]
  /\ prev = [t \in Threads |-> IF t = 0 THEN 0 ELSE Null]
  /\ ctxt = [t \in Threads |-> NoContext]
  /\ frame = [t \in Threads |-> NoFrame]
  /\ nextId = 1
  /\ local = [next |-> Null, prev |-> Null]
  /\ surf = [t \in Threads |-> Blank]
  /\ fb = [v \in Workers \X (0..Rows-1) |-> Blank]

-----------------------------------------------------------------------------
(* hw/src/context-switch.S: save the callee-saved registers, sp, tp and    *)
(* the return address in from, load them from to, return to what was       *)
(* loaded.  With from = to the values just saved are loaded again.         *)

\* Mutant of SavedContext: the s registers are not stored.
SavedContextNoSav(ret) ==
  [pc |-> ret, sp |-> reg.sp, tp |-> reg.tp, sav |-> ctxt[reg.tp].sav]

SavedContext(ret) ==
  [pc |-> ret, sp |-> reg.sp, tp |-> reg.tp, sav |-> reg.sav]

\* Mutant of ContextSwitch: the registers are stored through a1, not a0.
ContextSwitchWrongSlot(from, to, ret) ==
  /\ ctxt' = [ctxt EXCEPT ![to] = SavedContext(ret)]
  /\ reg' = [reg EXCEPT !.ra = ret]
  /\ pc' = ret

ContextSwitch(from, to, ret) ==
  LET saved  == [ctxt EXCEPT ![from] = SavedContext(ret)]
      loaded == saved[to]
  IN /\ ctxt' = saved
     /\ reg' = [reg EXCEPT !.tp = loaded.tp, !.sp = loaded.sp,
                           !.sav = loaded.sav, !.ra = loaded.pc]
     /\ pc' = loaded.pc

-----------------------------------------------------------------------------
(* start() and thread_create(), run by thread 0.                           *)

ThreadInit ==
  /\ Goto("start", "thread_create")
  /\ reg' = [reg EXCEPT !.tp = 0]
  /\ UNCHANGED <<csrs, timer, ring, ctxt, frame, nextId, local, screen>>

\* Mutant of CreateIrqDisable: one thread more than start() has room for.
CreateOneTooMany ==
  /\ Goto("thread_create", "tc_alloc")
  /\ nextId <= N + 1
  /\ sstatus' = [sstatus EXCEPT !.SIE = FALSE]
  /\ UNCHANGED <<mode, sepc, reg, timer, ring, ctxt, frame, nextId, local,
                 screen>>

\* irq_disable() at the head of thread_create.
CreateIrqDisable ==
  /\ Goto("thread_create", "tc_alloc")
  /\ nextId <= N
  /\ sstatus' = [sstatus EXCEPT !.SIE = FALSE]
  /\ UNCHANGED <<mode, sepc, reg, timer, ring, ctxt, frame, nextId, local,
                 screen>>

\* alloc() clears the new thread_t; its own two pointers are set first.
CreateAlloc ==
  /\ Goto("tc_alloc", "tc_link_prev")
  /\ nextId' = nextId + 1
  /\ next' = [next EXCEPT ![nextId] = Current]
  /\ prev' = [prev EXCEPT ![nextId] = prev[Current]]
  /\ UNCHANGED <<csrs, reg, timer, ctxt, frame, local, screen>>

NewThread == nextId - 1    \* the local t of thread_create

\* Mutant of CreateLinkPrev: t->prev->next = t is missing.
CreateNoLinkPrev ==
  /\ Goto("tc_link_prev", "tc_link_next")
  /\ UNCHANGED <<csrs, reg, timer, ring, ctxt, frame, nextId, local, screen>>

\* t->prev->next = t
CreateLinkPrev ==
  /\ Goto("tc_link_prev", "tc_link_next")
  /\ next' = [next EXCEPT ![prev[NewThread]] = NewThread]
  /\ UNCHANGED <<csrs, reg, timer, prev, ctxt, frame, nextId, local, screen>>

\* t->next->prev = t
CreateLinkNext ==
  /\ Goto("tc_link_next", "tc_frame")
  /\ prev' = [prev EXCEPT ![next[NewThread]] = NewThread]
  /\ UNCHANGED <<csrs, reg, timer, next, ctxt, frame, nextId, local, screen>>

(* The first switch to t "returns" through trap_exit into fn(arg), with    *)
(* thread_exit as the return address; a0 carries the argument.             *)
CreateFrame ==
  /\ Goto("tc_frame", "tc_enable")
  /\ ctxt' = [ctxt EXCEPT ![NewThread] =
                [pc |-> "trap_exit", sp |-> <<NewThread, 1>>,
                 tp |-> NewThread, sav |-> Zero]]
  /\ frame' = [frame EXCEPT ![NewThread] =
                [pc |-> "fn", ra |-> "thread_exit",
                 tmp |-> <<NewThread, 0>>]]
  /\ UNCHANGED <<csrs, reg, timer, ring, nextId, local, screen>>

\* irq_enable() is unconditional: thread 0 goes on with interrupts on.
CreateIrqEnable ==
  /\ Goto("tc_enable", "thread_create")
  /\ sstatus' = [sstatus EXCEPT !.SIE = TRUE]
  /\ UNCHANGED <<mode, sepc, reg, timer, ring, ctxt, frame, nextId, local,
                 screen>>

\* timer_init(): enable the interrupt sources, clear EV_PENDING, start.
TimerInit ==
  /\ Goto("thread_create", "timer_enable")
  /\ nextId > N
  /\ timer' = [timer EXCEPT !.EN = TRUE, !.EV_PENDING = FALSE]
  /\ UNCHANGED <<csrs, reg, ring, ctxt, frame, nextId, local, screen>>

\* Mutant of TimerEvEnable: the event is not enabled.
TimerNoEvEnable ==
  /\ Goto("timer_enable", "thread_exit")
  /\ UNCHANGED <<csrs, reg, timer, ring, ctxt, frame, nextId, local, screen>>

TimerEvEnable ==
  /\ Goto("timer_enable", "thread_exit")
  /\ timer' = [timer EXCEPT !.EV_ENABLE = TRUE]
  /\ UNCHANGED <<csrs, reg, ring, ctxt, frame, nextId, local, screen>>

-----------------------------------------------------------------------------
(* thread_exit().                                                          *)

ExitIrqDisable ==
  /\ Goto("thread_exit", "te_status")
  /\ sstatus' = [sstatus EXCEPT !.SIE = FALSE]
  /\ UNCHANGED <<mode, sepc, reg, timer, ring, ctxt, frame, nextId, local,
                 screen>>

\* Prepare the sret that the next thread will execute.
ExitStatus ==
  /\ Goto("te_status", "te_load")
  /\ sstatus' = [sstatus EXCEPT !.SPP = "S", !.SPIE = TRUE]
  /\ UNCHANGED <<mode, sepc, reg, timer, ring, ctxt, frame, nextId, local,
                 screen>>

ExitLoad ==
  /\ pc = "te_load"
  /\ local' = [next |-> next[Current], prev |-> prev[Current]]
  /\ pc' = IF next[Current] = Current THEN "all_exited" ELSE "te_unlink_prev"
  /\ UNCHANGED <<csrs, reg, timer, ring, ctxt, frame, nextId, screen>>

ExitUnlinkPrev ==
  /\ Goto("te_unlink_prev", "te_unlink_next")
  /\ prev' = [prev EXCEPT ![local.next] = local.prev]
  /\ UNCHANGED <<csrs, reg, timer, next, ctxt, frame, nextId, local, screen>>

\* Mutant of ExitUnlinkNext: prev->next = next is missing.
ExitNoUnlinkNext ==
  /\ Goto("te_unlink_next", "te_clear")
  /\ UNCHANGED <<csrs, reg, timer, ring, ctxt, frame, nextId, local, screen>>

ExitUnlinkNext ==
  /\ Goto("te_unlink_next", "te_clear")
  /\ next' = [next EXCEPT ![local.prev] = local.next]
  /\ UNCHANGED <<csrs, reg, timer, prev, ctxt, frame, nextId, local, screen>>

ExitClear ==
  /\ Goto("te_clear", "te_switch")
  /\ prev' = [prev EXCEPT ![Current] = Null]
  /\ next' = [next EXCEPT ![Current] = Null]
  /\ UNCHANGED <<csrs, reg, timer, ctxt, frame, nextId, local, screen>>

\* Mutant of ExitSwitch: the thread switches to its own context.
ExitSwitchToSelf ==
  /\ pc = "te_switch"
  /\ ContextSwitch(Current, Current, "zombie")
  /\ UNCHANGED <<csrs, timer, ring, frame, nextId, local, screen>>

\* Whoever switches back to this context prints "error: zombie thread".
ExitSwitch ==
  /\ pc = "te_switch"
  /\ ContextSwitch(Current, local.next, "zombie")
  /\ UNCHANGED <<csrs, timer, ring, frame, nextId, local, screen>>

\* for (;;) ; after "all threads have exited" and after "zombie thread".
Spin == pc \in {"all_exited", "zombie"} /\ UNCHANGED vars

-----------------------------------------------------------------------------
(* The worker function: tN() and render().  Each worker plots with its own *)
(* copy of the surface, made on entry.                                     *)

\* Arguments go to callee-saved registers, the surface to the stack.
FnEntry ==
  /\ Goto("fn", "color")
  /\ reg' = [reg EXCEPT !.sav = reg.tmp]
  /\ surf' = [surf EXCEPT ![Current] = surf[0]]
  /\ UNCHANGED <<csrs, timer, ring, ctxt, frame, nextId, local, fb>>

\* Compute the colour of the row in a temporary, or return when done.
FnColor ==
  /\ Goto("color", "setcolor")
  /\ reg.sav[2] < Rows
  /\ reg' = [reg EXCEPT !.tmp = reg.sav]
  /\ UNCHANGED <<csrs, timer, ring, ctxt, frame, nextId, local, screen>>

FnReturn ==
  /\ Goto("color", reg.ra)
  /\ reg.sav[2] = Rows
  /\ UNCHANGED <<csrs, reg, timer, ring, ctxt, frame, nextId, local, screen>>

\* gs.fgcolor = ...
FnSetColor ==
  /\ Goto("setcolor", "plot")
  /\ surf' = [surf EXCEPT ![Current] = reg.tmp]
  /\ UNCHANGED <<csrs, reg, timer, ring, ctxt, frame, nextId, local, fb>>

NextRow(v) == IF v[1] \in Endless /\ v[2] + 1 = Rows
              THEN <<v[1], 0>>
              ELSE <<v[1], v[2] + 1>>

\* gfx_plot(&gs, px, py); py++
FnPlot ==
  /\ Goto("plot", "color")
  /\ fb' = [fb EXCEPT ![reg.sav] = surf[Current]]
  /\ reg' = [reg EXCEPT !.sav = NextRow(reg.sav)]
  /\ UNCHANGED <<csrs, timer, ring, ctxt, frame, nextId, local, surf>>

-----------------------------------------------------------------------------
(* Interrupts.                                                             *)

TimerTick ==
  /\ timer.EN /\ ~timer.EV_PENDING
  /\ timer' = [timer EXCEPT !.EV_PENDING = TRUE]
  /\ UNCHANGED <<pc, csrs, reg, ring, ctxt, frame, nextId, local, screen>>

\* The hart takes a supervisor external interrupt.
Interrupt ==
  /\ timer.EV_PENDING /\ timer.EV_ENABLE
  /\ sstatus.SIE \/ mode = "U"
  /\ sepc' = pc
  /\ pc' = "trap_entry"
  /\ sstatus' = [SIE |-> FALSE, SPIE |-> sstatus.SIE, SPP |-> mode]
  /\ mode' = "S"
  /\ UNCHANGED <<reg, timer, ring, ctxt, frame, nextId, local, screen>>

(* Push a frame with the caller-saved registers and sepc on the stack sp   *)
(* points at, then jal interrupt_handler, which is free to use them.       *)
TrapEntry ==
  /\ Goto("trap_entry", "interrupt_handler")
  /\ frame' = [frame EXCEPT ![reg.sp[1]] =
                 [pc |-> sepc, ra |-> reg.ra, tmp |-> reg.tmp]]
  /\ reg' = [reg EXCEPT !.sp = <<reg.sp[1], reg.sp[2] + 1>>,
                        !.ra = "trap_exit", !.tmp = Blank]
  /\ UNCHANGED <<csrs, timer, ring, ctxt, nextId, local, screen>>

InterruptHandler ==
  /\ pc = "interrupt_handler"
  /\ pc' = IF timer.EV_PENDING THEN "ih_switch" ELSE "ih_return"
  /\ timer' = [timer EXCEPT !.EV_PENDING = FALSE]
  /\ UNCHANGED <<csrs, reg, ring, ctxt, frame, nextId, local, screen>>

\* Mutant of InterruptSwitch: the ring is walked backwards.
InterruptSwitchBack ==
  /\ pc = "ih_switch"
  /\ ContextSwitch(Current, prev[Current], "ih_return")
  /\ UNCHANGED <<csrs, timer, ring, frame, nextId, local, screen>>

InterruptSwitch ==
  /\ pc = "ih_switch"
  /\ ContextSwitch(Current, next[Current], "ih_return")
  /\ UNCHANGED <<csrs, timer, ring, frame, nextId, local, screen>>

InterruptReturn ==
  /\ Goto("ih_return", "trap_exit")
  /\ UNCHANGED <<csrs, reg, timer, ring, ctxt, frame, nextId, local, screen>>

\* Mutant of TrapExit: the frame is not popped.
TrapExitNoPop ==
  /\ Goto("trap_exit", "sret")
  /\ LET f == frame[reg.sp[1]]
     IN /\ sepc' = f.pc
        /\ reg' = [reg EXCEPT !.ra = f.ra, !.tmp = f.tmp]
  /\ UNCHANGED <<mode, sstatus, timer, ring, ctxt, frame, nextId, local,
                 screen>>

\* Reload sepc and the caller-saved registers from the frame and pop it.
TrapExit ==
  /\ Goto("trap_exit", "sret")
  /\ LET f == frame[reg.sp[1]]
     IN /\ sepc' = f.pc
        /\ reg' = [reg EXCEPT !.ra = f.ra, !.tmp = f.tmp,
                              !.sp = <<reg.sp[1], reg.sp[2] - 1>>]
  /\ UNCHANGED <<mode, sstatus, timer, ring, ctxt, frame, nextId, local,
                 screen>>

Sret ==
  /\ Goto("sret", sepc)
  /\ mode' = sstatus.SPP
  /\ sstatus' = [SIE |-> sstatus.SPIE, SPIE |-> TRUE, SPP |-> "U"]
  /\ UNCHANGED <<sepc, reg, timer, ring, ctxt, frame, nextId, local, screen>>

-----------------------------------------------------------------------------
Creating == CreateIrqDisable \/ CreateAlloc \/ CreateLinkPrev \/
            CreateLinkNext \/ CreateFrame \/ CreateIrqEnable

Starting == ThreadInit \/ TimerInit \/ TimerEvEnable

Unlinking == ExitStatus \/ ExitLoad \/ ExitUnlinkPrev \/ ExitUnlinkNext \/
             ExitClear \/ ExitSwitch

Rendering == FnEntry \/ FnColor \/ FnReturn \/ FnSetColor \/ FnPlot

Trapping == TrapEntry \/ InterruptHandler \/ InterruptSwitch \/
            InterruptReturn \/ TrapExit \/ Sret

Instruction == Starting \/ Creating \/ ExitIrqDisable \/ Unlinking \/
               Rendering \/ Trapping

Next == Instruction \/ Interrupt \/ TimerTick \/ Spin

Spec == Init /\ [][Next]_vars

(* The hart keeps executing, takes an interrupt that stays pending and     *)
(* enabled, and the timer keeps ticking.  A thread that is given the       *)
(* processor again and again gets an instruction in before the next tick:  *)
(* the period is 500000 cycles, the trap path about a hundred.             *)
ThreadStep(t) == Current = t /\ (Rendering \/ ExitIrqDisable)

Fairness ==
  /\ WF_vars(Instruction)
  /\ WF_vars(Interrupt)
  /\ WF_vars(TimerTick)
  /\ \A t \in Threads : SF_vars(ThreadStep(t))

FairSpec == Spec /\ Fairness

-----------------------------------------------------------------------------
(* Properties.                                                             *)

TypeOK ==
  /\ pc \in Labels
  /\ mode \in {"S", "U"}
  /\ sstatus \in [SIE : BOOLEAN, SPIE : BOOLEAN, SPP : {"S", "U"}]
  /\ sepc \in Labels
  /\ reg \in [tp : Pointer, sp : StackPtr, ra : Labels, tmp : Value,
              sav : Value]
  /\ timer \in [EN : BOOLEAN, EV_ENABLE : BOOLEAN, EV_PENDING : BOOLEAN]
  /\ next \in [Threads -> Pointer]
  /\ prev \in [Threads -> Pointer]
  /\ ctxt \in [Threads -> CFrame]
  /\ frame \in [Threads -> TFrame]
  /\ nextId \in 1..N+1
  /\ local \in [next : Pointer, prev : Pointer]
  /\ surf \in [Threads -> Value]
  /\ fb \in [Workers \X (0..Rows-1) -> Value]

\* t has left through thread_exit.
Exited(t) == ctxt[t].pc = "zombie" \/ (pc = "all_exited" /\ Current = t)

\* The threads on the run list.
Members == {t \in Threads : next[t] # Null}

\* thread_create has linked t but not yet given it a context.
HalfCreated(t) ==
  pc \in {"tc_link_prev", "tc_link_next", "tc_frame"} /\ t = NewThread

\* t waits for its turn: it is on the ring and another thread runs.
Suspended(t) ==
  t \in Members /\ t # Current /\ pc # "start" /\ ~HalfCreated(t)

(* Whenever an interrupt may arrive, and whenever a switch reads the ring, *)
(* the two pointers of every linked thread agree with its neighbours: no   *)
(* interrupt can observe thread_create or thread_exit half done.           *)
RingConsistent ==
  sstatus.SIE \/ pc \in {"ih_switch", "te_switch"} =>
    RingOn(Members, next, prev)

(* A thread that has exited is never switched to again: the message        *)
(* "error: zombie thread" of thread_exit is unreachable.                   *)
NoZombie == pc # "zombie"

(* Thread code, however it was reached (first entry through the frame      *)
(* thread_create forged, return from an interrupt, hand-over by a thread   *)
(* that exits), runs in supervisor mode with interrupts on.                *)
ThreadsPreemptible ==
  /\ mode = "S"
  /\ pc \in CodeLabels => sstatus.SIE

(* Whatever the interleaving of ticks and exits, each thread runs on its   *)
(* own stack with no stale trap frame left on it, and handlers run on the  *)
(* stack of the thread they interrupted: traps do not nest.                *)
OwnStack ==
  pc # "start" =>
    reg.sp = <<Current, IF pc \in TrapLabels \ {"trap_entry", "sret"}
                        THEN 1 ELSE 0>>

(* No pixel is ever drawn in another row's or another worker's colour, and *)
(* a worker that has exited has drawn all of its rows: neither the         *)
(* registers in the two save areas nor the surface leak between threads.   *)
PictureCorrect ==
  /\ \A v \in DOMAIN fb : fb[v] \in {v, Blank}
  /\ \A w \in Workers : Exited(w) =>
       \A r \in 0..Rows-1 : fb[<<w, r>>] = <<w, r>>

(* The saved context and the trap frame of a thread that waits are not     *)
(* touched by anyone before it is switched to again.                       *)
SuspendedUntouched ==
  [][\A t \in Threads : Suspended(t) =>
       ctxt'[t] = ctxt[t] /\ frame'[t] = frame[t]]_vars

(* Every worker whose function returns gets to finish and exits, even when *)
(* other workers never give the processor up.                              *)
WorkersFinish == \A w \in Workers \ Endless : <>Exited(w)

(* Every worker that never returns keeps getting the processor.            *)
NoStarvation ==
  \A w \in Endless : []<>(Current = w /\ pc = "plot")

-----------------------------------------------------------------------------
(* Refinement: the ring, read from the running thread along next, is the   *)
(* queue of RoundRobin.  thread_create takes effect when the new thread    *)
(* becomes reachable (t->prev->next = t), thread_exit when the exiting one *)
(* stops being so (prev->next = next); from there on the head is the       *)
(* thread the exiting one is about to switch to.                           *)

QueueHead == CASE pc = "start" -> 0
               [] pc \in {"te_clear", "te_switch"} -> local.next
               [] OTHER -> Current

RunQueue == RingQueue(QueueHead, next, Null, N + 1)

Spawned == IF pc = "tc_link_prev" THEN nextId - 2 ELSE nextId - 1

RR == INSTANCE RoundRobin WITH queue <- RunQueue, spawned <- Spawned

(* The pointer manipulation implements a FIFO round robin.                 *)
ImplementsRoundRobin == RR!RRSpec
===============================================================================
