------------------------------ MODULE RoundRobin ------------------------------
(***************************************************************************)
(* What both thread libraries of the workshop promise (the cooperative one *)
(* of example/ex10 and the preemptive one of example/ex11): one processor  *)
(* is handed around a FIFO of threads.  The head of the queue owns the     *)
(* processor; a switch sends it to the tail; a thread that exits leaves    *)
(* the queue for good and hands the processor to its successor; a new      *)
(* thread is the last one to get its turn.  How the queue is linked in     *)
(* memory, and what is saved where, is not visible here.                   *)
(***************************************************************************)
EXTENDS Naturals, Sequences

CONSTANT N          \* number of worker threads that start() creates

VARIABLES
  queue,            \* threads in scheduling order, Head(queue) is running
  spawned           \* how many workers have been created

rrvars == <<queue, spawned>>

\* Thread 0 is the thread start() runs on.
RRInit == queue = <<0>> /\ spawned = 0

Spawn == /\ spawned < N
         /\ Head(queue) = 0
         /\ spawned' = spawned + 1
         /\ queue' = Append(queue, spawned + 1)

Switch == /\ queue' = Append(Tail(queue), Head(queue))
          /\ UNCHANGED spawned

Leave == /\ Len(queue) > 1
         /\ queue' = Tail(queue)
         /\ UNCHANGED spawned

RRNext == Spawn \/ Switch \/ Leave

RRSpec == RRInit /\ [][RRNext]_rrvars
===============================================================================
