-------------------------- MODULE CooperativeThreads --------------------------
(***************************************************************************)
(* The cooperative thread library of example/ex10-threads-cooperative.c on *)
(* context_switch and context_entry (hw/src/context-switch.S).  Interrupts *)
(* stay off, so thread_create, thread_exit and yield are atomic, and the   *)
(* only save area is the cframe_t of the thread: a caller-saved register   *)
(* does not survive yield(), a callee-saved one must.                      *)
(*                                                                         *)
(* A worker renders height[w] rows and yields after each one.              *)
(***************************************************************************)
EXTENDS Naturals, Sequences, FiniteSets, ThreadRing

CONSTANTS
  N,        \* number of worker threads start() creates (4 in the code)
  MaxRows   \* bound on the rows of a region handed to render()

ASSUME CoopAssumption == N \in Nat \ {0} /\ MaxRows \in Nat \ {0}

VARIABLES
  pc,       \* where the hart executes
  tp,       \* the thread pointer
  sp,       \* whose stack the stack pointer points into
  sav,      \* s0-s11: s0 is the argument, later the row; s2 is the function
  next, prev, ctxt,   \* the fields of thread_t
  nextId,   \* next_thread_id
  height,   \* rows of the region of each worker
  drawn     \* rows each worker has on the screen

regs == <<tp, sp, sav>>
vars == <<pc, tp, sp, sav, next, prev, ctxt, nextId, height, drawn>>

Workers == 1..N
Threads == 0..N
Null    == N + 1
Pointer == Threads \cup {Null}

Labels == {"start", "context_entry", "render", "yield", "yielded",
           "thread_exit", "zombie", "all_exited"}

(* s0 and s2 of a cframe_t: the function, which tells the region, and the  *)
(* argument, which render() turns into the current row.                    *)
Saved  == [fn : Threads, row : 0..MaxRows]
CFrame == [pc : Labels, sp : Threads, tp : Threads, sav : Saved]

NoContext == [pc |-> "start", sp |-> 0, tp |-> 0,
              sav |-> [fn |-> 0, row |-> 0]]

\* thread0 is a ring of its own; thread_init() has set tp.
Init ==
  /\ pc = "start" /\ tp = 0 /\ sp = 0
  /\ sav = [fn |-> 0, row |-> 0]
  /\ next = [t \in Threads |-> IF t = 0 THEN 0 ELSE Null]
  /\ prev = [t \in Threads |-> IF t = 0 THEN 0 ELSE Null]
  /\ ctxt = [t \in Threads |-> NoContext]
  /\ nextId = 1
  /\ height \in [Workers -> 1..MaxRows]
  /\ drawn = [w \in Workers |-> {}]

\* context_switch(from, to), called with return address ret.
ContextSwitch(from, to, ret) ==
  LET saved  == [ctxt EXCEPT ![from] =
                   [pc |-> ret, sp |-> sp, tp |-> tp, sav |-> sav]]
      loaded == saved[to]
  IN /\ ctxt' = saved
     /\ pc' = loaded.pc /\ sp' = loaded.sp /\ tp' = loaded.tp
     /\ sav' = loaded.sav

-----------------------------------------------------------------------------
\* thread_create(): link the new thread before the current one.
ThreadCreate ==
  LET t     == nextId
      next1 == [next EXCEPT ![t] = tp]
      prev1 == [prev EXCEPT ![t] = prev[tp]]
      next2 == [next1 EXCEPT ![prev1[t]] = t]
  IN /\ pc = "start" /\ t <= N
     /\ nextId' = t + 1
     /\ next' = next2
     /\ prev' = [prev1 EXCEPT ![next2[t]] = t]
     /\ ctxt' = [ctxt EXCEPT ![t] =
                   [pc |-> "context_entry", sp |-> t, tp |-> t,
                    sav |-> [fn |-> t, row |-> 0]]]
     /\ UNCHANGED <<pc, regs, height, drawn>>

\* Mutant of StartExit: start() spins instead of calling thread_exit.
StartNoExit ==
  /\ pc = "start" /\ nextId > N
  /\ pc' = "all_exited"
  /\ UNCHANGED <<regs, next, prev, ctxt, nextId, height, drawn>>

\* start() leaves through thread_exit once the workers are created.
StartExit ==
  /\ pc = "start" /\ nextId > N
  /\ pc' = "thread_exit"
  /\ UNCHANGED <<regs, next, prev, ctxt, nextId, height, drawn>>

\* context_entry calls the function in s2; render() starts at its first row.
ContextEntry ==
  /\ pc = "context_entry"
  /\ pc' = "render"
  /\ UNCHANGED <<regs, next, prev, ctxt, nextId, height, drawn>>

\* One pass of the py loop of render(), up to the call of yield().
RenderRow ==
  /\ pc = "render" /\ sav.row < height[sav.fn]
  /\ drawn' = [drawn EXCEPT ![sav.fn] = @ \cup {sav.row}]
  /\ pc' = "yield"
  /\ UNCHANGED <<regs, next, prev, ctxt, nextId, height>>

Yield ==
  /\ pc = "yield"
  /\ ContextSwitch(tp, next[tp], "yielded")
  /\ UNCHANGED <<next, prev, nextId, height, drawn>>

\* py++ after yield() has returned.
Yielded ==
  /\ pc = "yielded"
  /\ sav' = [sav EXCEPT !.row = @ + 1]
  /\ pc' = "render"
  /\ UNCHANGED <<tp, sp, next, prev, ctxt, nextId, height, drawn>>

\* render() returns into context_entry, which jumps to thread_exit.
RenderReturn ==
  /\ pc = "render" /\ sav.row = height[sav.fn]
  /\ pc' = "thread_exit"
  /\ UNCHANGED <<regs, next, prev, ctxt, nextId, height, drawn>>

LastExit ==
  /\ pc = "thread_exit" /\ next[tp] = tp
  /\ pc' = "all_exited"
  /\ UNCHANGED <<regs, next, prev, ctxt, nextId, height, drawn>>

\* Mutant of ThreadExit: control goes to the previous thread.
ThreadExitToPrev ==
  LET n == next[tp]
      p == prev[tp]
  IN /\ pc = "thread_exit" /\ n # tp
     /\ prev' = [[prev EXCEPT ![n] = p] EXCEPT ![tp] = Null]
     /\ next' = [[next EXCEPT ![p] = n] EXCEPT ![tp] = Null]
     /\ ContextSwitch(tp, p, "zombie")
     /\ UNCHANGED <<nextId, height, drawn>>

\* Unlink the current thread, clear its pointers, switch to the next one.
ThreadExit ==
  LET n == next[tp]
      p == prev[tp]
  IN /\ pc = "thread_exit" /\ n # tp
     /\ prev' = [[prev EXCEPT ![n] = p] EXCEPT ![tp] = Null]
     /\ next' = [[next EXCEPT ![p] = n] EXCEPT ![tp] = Null]
     /\ ContextSwitch(tp, n, "zombie")
     /\ UNCHANGED <<nextId, height, drawn>>

\* The for (;;) ; loops at the end of thread_exit.
Spin == pc \in {"all_exited", "zombie"} /\ UNCHANGED vars

Next == ThreadCreate \/ StartExit \/ ContextEntry \/ RenderRow \/ Yield \/
        Yielded \/ RenderReturn \/ LastExit \/ ThreadExit \/ Spin

Spec == Init /\ [][Next]_vars

\* The hart keeps executing.
FairSpec == Spec /\ WF_vars(Next)

-----------------------------------------------------------------------------
(* Properties.                                                             *)

TypeOK ==
  /\ pc \in Labels /\ tp \in Threads /\ sp \in Threads /\ sav \in Saved
  /\ next \in [Threads -> Pointer] /\ prev \in [Threads -> Pointer]
  /\ ctxt \in [Threads -> CFrame]
  /\ nextId \in 1..N+1
  /\ height \in [Workers -> 1..MaxRows]
  /\ drawn \in [Workers -> SUBSET (0..MaxRows-1)]

(* Every worker finishes its region and the system comes to rest in        *)
(* "all threads have exited".                                              *)
AllFinish == <>(/\ pc = "all_exited"
                /\ \A w \in Workers : drawn[w] = 0..height[w]-1)

-----------------------------------------------------------------------------
(* Refinement: the queue is the ring read from the running thread.         *)

RunQueue == RingQueue(tp, next, Null, N + 1)

RR == INSTANCE RoundRobin WITH queue <- RunQueue, spawned <- nextId - 1

(* yield() and thread_exit() hand the processor around a FIFO.             *)
ImplementsRoundRobin == RR!RRSpec
===============================================================================
