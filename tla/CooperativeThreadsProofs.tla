----------------------- MODULE CooperativeThreadsProofs -----------------------
(***************************************************************************)
(* Proofs about CooperativeThreads, for any number of workers and rows.    *)
(***************************************************************************)
EXTENDS CooperativeThreads, TLAPS, WellFoundedInduction

\* The threads on the run list.
Members == {t \in Threads : next[t] # Null}

\* Worker w has all rows of its region on the screen.
Complete(w) == drawn[w] = 0..height[w]-1

(* How far thread t is when it is at label l with s in its s registers.    *)
Progress(t, l, s) ==
  /\ l \in {"context_entry", "render", "yield", "yielded"} =>
       t \in Workers /\ s.fn = t
  /\ l \in {"context_entry", "render"} =>
       s.row <= height[t] /\ drawn[t] = 0..s.row-1
  /\ l \in {"yield", "yielded"} =>
       s.row < height[t] /\ drawn[t] = 0..s.row
  /\ l \in {"thread_exit", "all_exited"} /\ t \in Workers => Complete(t)

\* The thread that runs.
RunningInv ==
  /\ sp = tp /\ pc # "zombie"
  /\ pc = "start" => tp = 0
  /\ Progress(tp, pc, sav)

\* A thread of the ring that does not run: what a switch to it will load.
Waits(t) ==
  /\ ctxt[t].pc \in {"context_entry", "yielded"}
  /\ ctxt[t].tp = t /\ ctxt[t].sp = t
  /\ Progress(t, ctxt[t].pc, ctxt[t].sav)

WaitingInv == \A t \in Members \ {tp} : Waits(t)

RingInv == RingOn(Members, next, prev) /\ tp \in Members

\* Which threads have been created, and which have left.
IdInv ==
  /\ pc # "start" => nextId = N + 1
  /\ \A t \in Threads : t >= nextId => next[t] = Null
  /\ \A w \in Workers : w >= nextId => drawn[w] = {}
  /\ \A w \in Workers : w < nextId /\ next[w] = Null => Complete(w)

\* Only the thread that is about to spin is left.
RestInv == pc = "all_exited" => next[tp] = tp

\* The ring is one cycle through the running thread, and nobody else waits.
QueueInv ==
  \E q : /\ RunsAs(q, tp, next, nextId - 1)
         /\ Members = {q[i] : i \in 1..Len(q)}

IInv == TypeOK /\ RunningInv /\ WaitingInv /\ RingInv /\ IdInv /\ RestInv

-----------------------------------------------------------------------------
(* Facts about the constants.                                              *)
LEMMA ConstantFacts ==
  /\ N \in Nat /\ 0 \in Threads /\ Null \notin Threads
  /\ Threads \subseteq Pointer /\ Null \in Pointer
  /\ Workers \subseteq Threads
BY CoopAssumption DEF Threads, Workers, Null, Pointer

(* What thread_create does to the two pointer fields.                      *)
LEMMA CreateEffect ==
  ASSUME IInv, ThreadCreate
  PROVE  LET t == nextId
             z == prev[tp]
         IN /\ t \in Workers /\ t \in Threads /\ t \notin Members
            /\ z \in Members /\ z \in Threads /\ next[z] = tp
            /\ tp \in Members
            /\ next' = [s \in Threads |-> IF s = t THEN tp
                          ELSE IF s = z THEN t ELSE next[s]]
            /\ prev' = [s \in Threads |-> IF s = tp THEN t
                          ELSE IF s = t THEN z ELSE prev[s]]
            /\ Members' = Members \cup {t}
<1> DEFINE t == nextId
           z == prev[tp]
           next1 == [next EXCEPT ![t] = tp]
           prev1 == [prev EXCEPT ![t] = z]
           next2 == [next1 EXCEPT ![prev1[t]] = t]
<1>1. /\ t \in 1..N+1 /\ t <= N /\ tp \in Threads
      /\ next \in [Threads -> Pointer] /\ prev \in [Threads -> Pointer]
  BY DEF IInv, TypeOK, ThreadCreate
<1>2. t \in Workers /\ t \in Threads
  BY <1>1, ConstantFacts DEF Workers, Threads
<1>3. next[t] = Null /\ t \notin Members
  BY <1>1, <1>2 DEF IInv, IdInv, Members
<1>4. z \in Members /\ next[z] = tp /\ tp \in Members /\ z \in Threads
  BY DEF IInv, RingInv, RingOn, Members
<1>5. z # t /\ tp # t
  BY <1>3, <1>4
<1>6. prev1[t] = z
  BY <1>1, <1>2
<1>7. next2 = [s \in Threads |-> IF s = t THEN tp
                 ELSE IF s = z THEN t ELSE next[s]]
  BY <1>1, <1>2, <1>4, <1>5, <1>6
<1>8. next2[t] = tp
  BY <1>2, <1>7
<1>9. next' = next2 /\ prev' = [prev1 EXCEPT ![next2[t]] = t]
  BY DEF ThreadCreate
<1>10. prev' = [s \in Threads |-> IF s = tp THEN t
                  ELSE IF s = t THEN z ELSE prev[s]]
  <2> HIDE DEF next2
  <2>1. prev' = [prev1 EXCEPT ![tp] = t]
    BY <1>8, <1>9
  <2> QED
    BY <1>1, <1>2, <1>4, <1>5, <2>1
<1>11. Members' = Members \cup {t}
  <2> HIDE DEF next2, t, z
  <2>1. \A s \in Threads : next'[s] = IF s = t THEN tp
                 ELSE IF s = z THEN t ELSE next[s]
    BY <1>7, <1>9
  <2>2. tp # Null /\ t # Null
    BY <1>1, <1>2, ConstantFacts
  <2>3. \A s \in Threads : next'[s] # Null <=> s \in Members \/ s = t
    BY <1>4, <2>1, <2>2 DEF Members
  <2> QED
    BY <1>2, <2>3 DEF Members
<1> QED
  BY <1>2, <1>3, <1>4, <1>7, <1>9, <1>10, <1>11

(* What thread_exit does: the thread is gone from the ring and its         *)
(* successor, which waited, is running.                                    *)
LEMMA ExitEffect ==
  ASSUME IInv, ThreadExit
  PROVE  LET n == next[tp]
             p == prev[tp]
         IN /\ n \in Members /\ p \in Members /\ tp \in Members
            /\ n # tp /\ p # tp /\ next[p] = tp /\ prev[n] = tp
            /\ n \in Threads /\ p \in Threads
            /\ next' = [s \in Threads |-> IF s = tp THEN Null
                          ELSE IF s = p THEN n ELSE next[s]]
            /\ prev' = [s \in Threads |-> IF s = tp THEN Null
                          ELSE IF s = n THEN p ELSE prev[s]]
            /\ Members' = Members \ {tp}
            /\ Waits(n)
            /\ pc' = ctxt[n].pc /\ tp' = n /\ sp' = n /\ sav' = ctxt[n].sav
            /\ ctxt' = [ctxt EXCEPT ![tp] =
                          [pc |-> "zombie", sp |-> sp, tp |-> tp, sav |-> sav]]
            /\ nextId' = nextId /\ height' = height /\ drawn' = drawn
            /\ pc = "thread_exit"
<1> DEFINE n == next[tp]
           p == prev[tp]
           saved == [ctxt EXCEPT ![tp] =
                       [pc |-> "zombie", sp |-> sp, tp |-> tp, sav |-> sav]]
<1>1. /\ pc = "thread_exit" /\ n # tp
      /\ next' = [[next EXCEPT ![p] = n] EXCEPT ![tp] = Null]
      /\ prev' = [[prev EXCEPT ![n] = p] EXCEPT ![tp] = Null]
      /\ nextId' = nextId /\ height' = height /\ drawn' = drawn
      /\ ctxt' = saved /\ pc' = saved[n].pc /\ tp' = saved[n].tp
      /\ sp' = saved[n].sp /\ sav' = saved[n].sav
  BY DEF ThreadExit, ContextSwitch
<1>2. /\ tp \in Threads /\ ctxt \in [Threads -> CFrame]
      /\ next \in [Threads -> Pointer] /\ prev \in [Threads -> Pointer]
  BY DEF IInv, TypeOK
<1>3. /\ n \in Members /\ p \in Members /\ tp \in Members
      /\ next[p] = tp /\ prev[n] = tp
  BY DEF IInv, RingInv, RingOn
<1>4. n \in Threads /\ p \in Threads /\ p # tp
  BY <1>1, <1>3 DEF Members
<1>5. saved[n] = ctxt[n]
  BY <1>1, <1>2, <1>4
<1>6. Waits(n)
  BY <1>1, <1>3 DEF IInv, WaitingInv
<1>7. next' = [s \in Threads |-> IF s = tp THEN Null
                 ELSE IF s = p THEN n ELSE next[s]]
  BY <1>1, <1>2, <1>4
<1>8. prev' = [s \in Threads |-> IF s = tp THEN Null
                 ELSE IF s = n THEN p ELSE prev[s]]
  BY <1>1, <1>2, <1>4
<1>9. Members' = Members \ {tp}
  <2> HIDE DEF n, p
  <2>1. \A s \in Threads : next'[s] = IF s = tp THEN Null
                 ELSE IF s = p THEN n ELSE next[s]
    BY <1>7
  <2>2. n # Null
    BY <1>4, ConstantFacts
  <2>3. \A s \in Threads : next'[s] # Null <=> s \in Members /\ s # tp
    BY <1>3, <2>1, <2>2 DEF Members
  <2> QED
    BY <2>3 DEF Members
<1>10. pc' = ctxt[n].pc /\ tp' = n /\ sp' = n /\ sav' = ctxt[n].sav
  BY <1>1, <1>5, <1>6 DEF Waits
<1> HIDE DEF saved
<1>11. ctxt' = [ctxt EXCEPT ![tp] =
                  [pc |-> "zombie", sp |-> sp, tp |-> tp, sav |-> sav]]
  BY <1>1 DEF saved
<1> QED
  BY <1>1, <1>3, <1>4, <1>6, <1>7, <1>8, <1>9, <1>10, <1>11

(* What yield does: the successor runs, or the caller again when it is     *)
(* alone.                                                                  *)
LEMMA YieldEffect ==
  ASSUME IInv, Yield
  PROVE  LET n == next[tp]
             saved == [pc |-> "yielded", sp |-> sp, tp |-> tp, sav |-> sav]
         IN /\ n \in Members /\ n \in Threads /\ tp \in Members
            /\ pc = "yield"
            /\ ctxt' = [ctxt EXCEPT ![tp] = saved]
            /\ tp' = n /\ sp' = n
            /\ n = tp => pc' = "yielded" /\ sav' = sav
            /\ n # tp => Waits(n) /\ pc' = ctxt[n].pc /\ sav' = ctxt[n].sav
            /\ next' = next /\ prev' = prev
            /\ nextId' = nextId /\ height' = height /\ drawn' = drawn
<1> DEFINE n == next[tp]
           s == [pc |-> "yielded", sp |-> sp, tp |-> tp, sav |-> sav]
           saved == [ctxt EXCEPT ![tp] = s]
<1>1. /\ pc = "yield" /\ next' = next /\ prev' = prev
      /\ nextId' = nextId /\ height' = height /\ drawn' = drawn
      /\ ctxt' = saved /\ pc' = saved[n].pc /\ tp' = saved[n].tp
      /\ sp' = saved[n].sp /\ sav' = saved[n].sav
  BY DEF Yield, ContextSwitch
<1>2. /\ tp \in Threads /\ ctxt \in [Threads -> CFrame] /\ sp = tp
  BY DEF IInv, TypeOK, RunningInv
<1>3. n \in Members /\ tp \in Members /\ n \in Threads
  BY DEF IInv, RingInv, RingOn, Members
<1>4. CASE n = tp
  <2>1. saved[n] = s
    BY <1>2, <1>4
  <2> QED
    BY <1>1, <1>2, <1>3, <1>4, <2>1
<1>5. CASE n # tp
  <2>1. saved[n] = ctxt[n]
    BY <1>2, <1>3, <1>5
  <2>2. Waits(n)
    BY <1>3, <1>5 DEF IInv, WaitingInv
  <2>3. ctxt[n].tp = n /\ ctxt[n].sp = n
    BY <2>2 DEF Waits
  <2> QED
    BY <1>1, <1>3, <1>5, <2>1, <2>2, <2>3
<1> QED
  BY <1>4, <1>5


-----------------------------------------------------------------------------
(* The invariant, one lemma per group of operations.                       *)

(* thread_create.                                                          *)
LEMMA CreateStep ==
  ASSUME IInv, ThreadCreate
  PROVE  IInv'
<1> DEFINE t == nextId
           z == prev[tp]
           new == [pc |-> "context_entry", sp |-> t, tp |-> t,
                   sav |-> [fn |-> t, row |-> 0]]
<1>1. /\ pc = "start" /\ t <= N /\ nextId' = t + 1
      /\ ctxt' = [ctxt EXCEPT ![t] = new]
      /\ pc' = pc /\ tp' = tp /\ sp' = sp /\ sav' = sav
      /\ height' = height /\ drawn' = drawn
  BY DEF ThreadCreate, regs
<1>2. /\ t \in Workers /\ t \in Threads /\ t \notin Members
      /\ z \in Members /\ z \in Threads /\ next[z] = tp /\ tp \in Members
      /\ next' = [s \in Threads |-> IF s = t THEN tp
                    ELSE IF s = z THEN t ELSE next[s]]
      /\ prev' = [s \in Threads |-> IF s = tp THEN t
                    ELSE IF s = t THEN z ELSE prev[s]]
      /\ Members' = Members \cup {t}
  BY CreateEffect
<1>3. /\ tp \in Threads /\ ctxt \in [Threads -> CFrame] /\ nextId \in 1..N+1
      /\ next \in [Threads -> Pointer] /\ prev \in [Threads -> Pointer]
      /\ height \in [Workers -> 1..MaxRows]
  BY DEF IInv, TypeOK
<1>4. TypeOK'
  <2>1. new \in CFrame
    BY <1>2, CoopAssumption DEF CFrame, Saved, Labels
  <2>2. ctxt' \in [Threads -> CFrame]
    BY <1>1, <1>2, <1>3, <2>1
  <2>3. next' \in [Threads -> Pointer] /\ prev' \in [Threads -> Pointer]
    BY <1>2, <1>3, ConstantFacts
  <2>4. nextId' \in 1..N+1
    BY <1>1, <1>3, ConstantFacts
  <2> QED
    BY <1>1, <2>2, <2>3, <2>4 DEF IInv, TypeOK
<1>5. RunningInv'
  BY <1>1 DEF IInv, RunningInv, Progress, Complete
<1>6. WaitingInv'
  <2> SUFFICES ASSUME NEW s \in Members', s # tp PROVE Waits(s)'
    BY <1>1 DEF WaitingInv
  <2>1. CASE s = t
    <3>1. ctxt'[t] = new /\ drawn[t] = {} /\ height[t] \in Nat
      BY <1>1, <1>2, <1>3 DEF IInv, IdInv
    <3>2. /\ new.pc = "context_entry" /\ new.tp = t
          /\ new.sp = t /\ new.sav.fn = t /\ new.sav.row = 0
      OBVIOUS
    <3>3. 0..0-1 = {}
      OBVIOUS
    <3> HIDE DEF new
    <3> QED
      BY <1>1, <1>2, <2>1, <3>1, <3>2, <3>3 DEF Waits, Progress
  <2>2. CASE s # t
    <3>1. s \in Members /\ s \in Threads /\ Waits(s)
      BY <1>2, <2>2 DEF IInv, WaitingInv, Members
    <3>2. ctxt'[s] = ctxt[s]
      BY <1>1, <1>2, <1>3, <2>2, <3>1
    <3> QED
      BY <1>1, <3>1, <3>2 DEF Waits, Progress, Complete
  <2> QED
    BY <2>1, <2>2
<1>7. RingInv'
  <2>1. RingOn(Members, next, prev)
    BY DEF IInv, RingInv
  <2>2. Members \subseteq Threads
    BY DEF Members
  <2> HIDE DEF t, z
  <2>3. ASSUME NEW s \in Members \cup {t}
        PROVE  /\ next'[s] \in Members \cup {t} /\ prev'[next'[s]] = s
               /\ prev'[s] \in Members \cup {t} /\ next'[prev'[s]] = s
    <3>1. CASE s = t
      BY <1>2, <1>3, <2>1, <2>2, <3>1 DEF RingOn
    <3>2. CASE s # t
      BY <1>2, <1>3, <2>1, <2>2, <3>2 DEF RingOn, z
    <3> QED
      BY <3>1, <3>2
  <2>4. RingOn(Members', next', prev')
    BY <1>2, <2>3 DEF RingOn
  <2> QED
    BY <1>1, <1>2, <2>4 DEF RingInv
<1>8. IdInv'
  <2>1. pc' = "start"
    BY <1>1
  <2>2. ASSUME NEW s \in Threads, s >= nextId' PROVE next'[s] = Null
    <3>1. s # t /\ s >= nextId
      BY <1>1, <1>3, <2>2, ConstantFacts DEF Threads
    <3>2. next[s] = Null
      BY <3>1 DEF IInv, IdInv
    <3>3. s # z
      BY <1>2, <3>2 DEF Members
    <3> QED
      BY <1>2, <3>1, <3>2, <3>3
  <2>3. ASSUME NEW w \in Workers, w >= nextId' PROVE drawn'[w] = {}
    BY <1>1, <1>3, <2>3, ConstantFacts DEF IInv, IdInv, Workers
  <2>4. ASSUME NEW w \in Workers, w < nextId', next'[w] = Null
        PROVE  Complete(w)'
    <3>1. w \in Threads /\ w # t /\ w # z
      BY <1>2, <2>4, ConstantFacts, <1>3
    <3>2. next[w] = Null /\ w < nextId
      BY <1>1, <1>2, <1>3, <2>4, <3>1, ConstantFacts DEF Workers
    <3>3. Complete(w)
      BY <3>2 DEF IInv, IdInv
    <3> QED
      BY <1>1, <3>3 DEF Complete
  <2> QED
    BY <2>1, <2>2, <2>3, <2>4 DEF IdInv
<1>9. RestInv'
  BY <1>1 DEF RestInv
<1> QED
  BY <1>4, <1>5, <1>6, <1>7, <1>8, <1>9 DEF IInv

(* yield.                                                                  *)
LEMMA YieldStep ==
  ASSUME IInv, Yield
  PROVE  IInv'
<1> DEFINE n == next[tp]
           s == [pc |-> "yielded", sp |-> sp, tp |-> tp, sav |-> sav]
<1>1. /\ n \in Members /\ n \in Threads /\ tp \in Members
      /\ pc = "yield"
      /\ ctxt' = [ctxt EXCEPT ![tp] = s]
      /\ tp' = n /\ sp' = n
      /\ n = tp => pc' = "yielded" /\ sav' = sav
      /\ n # tp => Waits(n) /\ pc' = ctxt[n].pc /\ sav' = ctxt[n].sav
      /\ next' = next /\ prev' = prev
      /\ nextId' = nextId /\ height' = height /\ drawn' = drawn
  BY YieldEffect
<1>2. /\ tp \in Threads /\ ctxt \in [Threads -> CFrame] /\ sp = tp
      /\ sav \in Saved /\ Progress(tp, "yield", sav)
  BY <1>1 DEF IInv, TypeOK, RunningInv
<1>3. ctxt'[tp] = s /\ \A u \in Threads : u # tp => ctxt'[u] = ctxt[u]
  BY <1>1, <1>2
<1>4. TypeOK'
  <2>1. s \in CFrame
    BY <1>2 DEF CFrame, Labels
  <2>2. ctxt' \in [Threads -> CFrame]
    BY <1>1, <1>2, <2>1
  <2>3. ctxt[n].pc \in Labels /\ ctxt[n].sav \in Saved
    BY <1>1, <1>2 DEF CFrame
  <2>4. pc' \in Labels /\ sav' \in Saved
    BY <1>1, <1>2, <2>3 DEF Labels
  <2> QED
    BY <1>1, <2>2, <2>4 DEF IInv, TypeOK
<1>5. Members' = Members
  BY <1>1 DEF Members
<1>6. RunningInv'
  <2>1. CASE n = tp
    BY <1>1, <1>2, <2>1 DEF RunningInv, Progress, Complete
  <2>2. CASE n # tp
    BY <1>1, <2>2 DEF RunningInv, Waits, Progress, Complete
  <2> QED
    BY <2>1, <2>2
<1>7. WaitingInv'
  <2> SUFFICES ASSUME NEW u \in Members, u # n PROVE Waits(u)'
    BY <1>1, <1>5 DEF WaitingInv
  <2>0. u \in Threads
    BY DEF Members
  <2>1. CASE u = tp
    BY <1>1, <1>2, <1>3, <2>1 DEF Waits, Progress, Complete
  <2>2. CASE u # tp
    <3>1. Waits(u) /\ ctxt'[u] = ctxt[u]
      BY <1>3, <2>0, <2>2 DEF IInv, WaitingInv
    <3> QED
      BY <1>1, <3>1 DEF Waits, Progress, Complete
  <2> QED
    BY <2>1, <2>2
<1>8. RingInv'
  BY <1>1, <1>5 DEF IInv, RingInv, RingOn
<1>9. IdInv'
  BY <1>1 DEF IInv, IdInv, Complete
<1>10. RestInv'
  BY <1>1 DEF RestInv, Waits
<1> QED
  BY <1>4, <1>6, <1>7, <1>8, <1>9, <1>10 DEF IInv

(* thread_exit of a thread that is not alone.                              *)
LEMMA ExitStep ==
  ASSUME IInv, ThreadExit
  PROVE  IInv'
<1> DEFINE n == next[tp]
           p == prev[tp]
           s == [pc |-> "zombie", sp |-> sp, tp |-> tp, sav |-> sav]
<1>1. /\ n \in Members /\ p \in Members /\ tp \in Members
      /\ n # tp /\ p # tp /\ next[p] = tp /\ prev[n] = tp
      /\ n \in Threads /\ p \in Threads
      /\ next' = [u \in Threads |-> IF u = tp THEN Null
                    ELSE IF u = p THEN n ELSE next[u]]
      /\ prev' = [u \in Threads |-> IF u = tp THEN Null
                    ELSE IF u = n THEN p ELSE prev[u]]
      /\ Members' = Members \ {tp}
  BY ExitEffect
<1>2. /\ Waits(n)
      /\ pc' = ctxt[n].pc /\ tp' = n /\ sp' = n /\ sav' = ctxt[n].sav
      /\ ctxt' = [ctxt EXCEPT ![tp] = s]
      /\ nextId' = nextId /\ height' = height /\ drawn' = drawn
      /\ pc = "thread_exit"
  BY ExitEffect
<1>3. /\ tp \in Threads /\ ctxt \in [Threads -> CFrame] /\ sp = tp
      /\ sav \in Saved /\ Progress(tp, "thread_exit", sav)
      /\ next \in [Threads -> Pointer] /\ prev \in [Threads -> Pointer]
  BY <1>2 DEF IInv, TypeOK, RunningInv
<1>4. \A u \in Threads : u # tp => ctxt'[u] = ctxt[u]
  BY <1>2, <1>3
<1>5. TypeOK'
  <2>1. s \in CFrame
    BY <1>3 DEF CFrame, Labels
  <2>2. ctxt' \in [Threads -> CFrame]
    BY <1>2, <1>3, <2>1
  <2>3. ctxt[n].pc \in Labels /\ ctxt[n].sav \in Saved
    BY <1>1, <1>3 DEF CFrame
  <2>4. next' \in [Threads -> Pointer] /\ prev' \in [Threads -> Pointer]
    BY <1>1, <1>3, ConstantFacts
  <2> QED
    BY <1>1, <1>2, <2>2, <2>3, <2>4 DEF IInv, TypeOK
<1>6. RunningInv'
  BY <1>2 DEF RunningInv, Waits, Progress, Complete
<1>7. WaitingInv'
  <2> SUFFICES ASSUME NEW u \in Members, u # tp, u # n PROVE Waits(u)'
    BY <1>1, <1>2 DEF WaitingInv
  <2>1. Waits(u) /\ ctxt'[u] = ctxt[u]
    BY <1>4 DEF IInv, WaitingInv, Members
  <2> QED
    BY <1>2, <2>1 DEF Waits, Progress, Complete
<1>8. RingInv'
  <2>1. RingOn(Members, next, prev) /\ Members \subseteq Threads
    BY DEF IInv, RingInv, Members
  <2>2. PICK M : M = Members \ {tp}
    OBVIOUS
  <2>3. ASSUME NEW u \in M
        PROVE  /\ next'[u] \in M /\ prev'[next'[u]] = u
               /\ prev'[u] \in M /\ next'[prev'[u]] = u
    BY <1>1, <1>3, <2>1, <2>2 DEF RingOn
  <2>4. RingOn(M, next', prev')
    BY <2>3 DEF RingOn
  <2> QED
    BY <1>1, <1>2, <2>2, <2>4 DEF RingInv
<1>9. IdInv'
  <2>1. nextId = N + 1
    BY <1>2 DEF IInv, IdInv
  <2>2. \A t \in Threads : t >= nextId => FALSE
    BY <2>1, ConstantFacts DEF Threads
  <2>3. \A w \in Workers : w \in Threads
    BY ConstantFacts
  <2>4. ASSUME NEW w \in Workers, w < nextId, next'[w] = Null
        PROVE  Complete(w)'
    <3>1. CASE w = tp
      BY <1>2, <1>3, <3>1 DEF Progress, Complete
    <3>2. CASE w # tp
      <4>1. next[w] = Null
        BY <1>1, <2>3, <2>4, <3>2, ConstantFacts
      <4>2. Complete(w)
        BY <2>4, <4>1 DEF IInv, IdInv
      <4> QED
        BY <1>2, <4>2 DEF Complete
    <3> QED
      BY <3>1, <3>2
  <2> QED
    BY <1>2, <2>1, <2>2, <2>3, <2>4 DEF IdInv
<1>10. RestInv'
  BY <1>2 DEF RestInv, Waits
<1> QED
  BY <1>5, <1>6, <1>7, <1>8, <1>9, <1>10 DEF IInv


(* A step of the running thread that touches no other thread and no        *)
(* pointer.                                                                *)
LEMMA LocalStep ==
  ASSUME IInv,
         StartExit \/ ContextEntry \/ RenderRow \/ Yielded \/ RenderReturn \/
           LastExit
  PROVE  IInv'
<1>1. /\ tp' = tp /\ sp' = sp /\ next' = next /\ prev' = prev
      /\ ctxt' = ctxt /\ nextId' = nextId /\ height' = height
      /\ \A w \in Workers : w # tp => drawn'[w] = drawn[w]
  BY DEF StartExit, ContextEntry, RenderRow, Yielded, RenderReturn, LastExit,
    regs, IInv, TypeOK, RunningInv, Progress
<1>2. /\ tp \in Threads /\ sav \in Saved /\ MaxRows \in Nat
      /\ drawn \in [Workers -> SUBSET (0..MaxRows-1)]
      /\ height \in [Workers -> 1..MaxRows]
      /\ sav.row \in Nat /\ nextId \in Nat
  BY CoopAssumption DEF IInv, TypeOK, Saved
<1>3. \A w \in Workers : height[w] \in Nat /\ height[w] <= MaxRows
  BY <1>2
<1>4. TypeOK' /\ Progress(tp, pc, sav)'
  <2>1. CASE StartExit
    <3>1. TypeOK'
      BY <1>1, <2>1 DEF StartExit, regs, IInv, TypeOK, Labels
    <3>2. tp = 0 /\ 0 \notin Workers /\ pc' = "thread_exit"
      BY <2>1 DEF StartExit, IInv, RunningInv, Workers
    <3> QED
      BY <1>1, <3>1, <3>2 DEF Progress
  <2>2. CASE ContextEntry
    BY <1>1, <2>2 DEF ContextEntry, regs, IInv, TypeOK, Labels, RunningInv,
      Progress
  <2>3. CASE RenderRow
    <3>1. /\ pc = "render" /\ pc' = "yield" /\ sav' = sav
          /\ sav.row < height[sav.fn]
          /\ drawn' = [drawn EXCEPT ![sav.fn] = @ \cup {sav.row}]
      BY <2>3 DEF RenderRow, regs
    <3>2. tp \in Workers /\ sav.fn = tp /\ drawn[tp] = 0..sav.row-1
      BY <3>1 DEF IInv, RunningInv, Progress
    <3>3. drawn'[tp] = (0..sav.row-1) \cup {sav.row}
      BY <1>2, <3>1, <3>2
    <3>4. drawn'[tp] = 0..sav.row
      BY <1>2, <3>3
    <3>5. sav.row \in 0..MaxRows-1
      BY <1>2, <1>3, <3>1, <3>2
    <3>6. drawn' \in [Workers -> SUBSET (0..MaxRows-1)]
      BY <1>2, <3>1, <3>2, <3>5
    <3>7. TypeOK'
      BY <1>1, <3>1, <3>6 DEF IInv, TypeOK, Labels
    <3> QED
      BY <1>1, <3>1, <3>2, <3>4, <3>7 DEF Progress
  <2>4. CASE Yielded
    <3>1. /\ pc = "yielded" /\ pc' = "render" /\ drawn' = drawn
          /\ sav' = [sav EXCEPT !.row = @ + 1]
      BY <2>4 DEF Yielded
    <3>2. tp \in Workers /\ sav.fn = tp /\ drawn[tp] = 0..sav.row
          /\ sav.row < height[tp]
      BY <3>1 DEF IInv, RunningInv, Progress
    <3>3. sav'.fn = tp /\ sav'.row = sav.row + 1
      BY <1>2, <3>1, <3>2 DEF Saved
    <3>4. sav' \in Saved
      BY <1>2, <1>3, <3>1, <3>2 DEF Saved
    <3>5. 0..sav.row = 0..(sav.row+1)-1
      BY <1>2
    <3>6. TypeOK'
      BY <1>1, <3>1, <3>4 DEF IInv, TypeOK, Labels
    <3> QED
      BY <1>1, <1>2, <1>3, <3>1, <3>2, <3>3, <3>5, <3>6 DEF Progress
  <2>5. CASE RenderReturn
    BY <1>1, <2>5 DEF RenderReturn, regs, IInv, TypeOK, Labels, RunningInv,
      Progress, Complete
  <2>6. CASE LastExit
    BY <1>1, <2>6 DEF LastExit, regs, IInv, TypeOK, Labels, RunningInv,
      Progress, Complete
  <2> QED
    BY <2>1, <2>2, <2>3, <2>4, <2>5, <2>6
<1>5. pc' \notin {"start", "zombie"}
  BY DEF StartExit, ContextEntry, RenderRow, Yielded, RenderReturn, LastExit
<1>6. RunningInv'
  BY <1>1, <1>4, <1>5 DEF IInv, RunningInv
<1>7. WaitingInv'
  <2> SUFFICES ASSUME NEW t \in Members, t # tp PROVE Waits(t)'
    BY <1>1 DEF WaitingInv, Members
  <2>1. Waits(t)
    BY DEF IInv, WaitingInv
  <2>2. t \in Workers
    BY <2>1 DEF Waits, Progress
  <2> QED
    BY <1>1, <2>1, <2>2 DEF Waits, Progress, Complete
<1>8. RingInv'
  BY <1>1 DEF IInv, RingInv, RingOn, Members
<1>9. IdInv'
  <2>1. nextId = N + 1
    <3>1. CASE pc = "start"
      <4>1. nextId > N /\ nextId \in 1..N+1
        BY <3>1 DEF StartExit, ContextEntry, RenderRow, Yielded,
          RenderReturn, LastExit, IInv, TypeOK
      <4> QED
        BY <4>1, ConstantFacts
    <3>2. CASE pc # "start"
      BY <3>2 DEF IInv, IdInv
    <3> QED
      BY <3>1, <3>2
  <2>2. tp \in Members
    BY DEF IInv, RingInv
  <2>3. \A w \in Workers : ~(w >= nextId)
    BY <2>1, ConstantFacts DEF Workers
  <2>4. ASSUME NEW w \in Workers, w < nextId', next'[w] = Null
        PROVE  Complete(w)'
    <3>1. w # tp /\ Complete(w)
      BY <1>1, <2>2, <2>4 DEF IInv, IdInv, Members
    <3> QED
      BY <1>1, <3>1 DEF Complete
  <2> QED
    BY <1>1, <2>1, <2>3, <2>4 DEF IInv, IdInv
<1>10. RestInv'
  BY <1>1 DEF StartExit, ContextEntry, RenderRow, Yielded, RenderReturn,
    LastExit, RestInv
<1> QED
  BY <1>4, <1>6, <1>7, <1>8, <1>9, <1>10 DEF IInv

(* The invariant holds at boot.                                            *)
LEMMA InitInv == Init => IInv
<1> SUFFICES ASSUME Init PROVE IInv
  OBVIOUS
<1>1. Members = {0} /\ next[0] = 0 /\ prev[0] = 0
  BY ConstantFacts DEF Init, Members
<1>2. TypeOK
  <2>1. NoContext \in CFrame /\ [fn |-> 0, row |-> 0] \in Saved
    BY ConstantFacts, CoopAssumption DEF NoContext, CFrame, Saved, Labels
  <2>2. /\ next \in [Threads -> Pointer] /\ prev \in [Threads -> Pointer]
        /\ ctxt \in [Threads -> CFrame]
    BY <2>1, ConstantFacts DEF Init
  <2>3. drawn \in [Workers -> SUBSET (0..MaxRows-1)] /\ nextId \in 1..N+1
    BY ConstantFacts DEF Init
  <2>4. pc \in Labels /\ tp \in Threads /\ sp \in Threads /\ sav \in Saved
        /\ height \in [Workers -> 1..MaxRows]
    BY <2>1, ConstantFacts DEF Init, Labels
  <2> QED
    BY <2>2, <2>3, <2>4 DEF TypeOK
<1>3. RunningInv
  BY DEF Init, RunningInv, Progress
<1>4. WaitingInv
  BY <1>1 DEF Init, WaitingInv
<1>5. RingInv
  BY <1>1 DEF Init, RingInv, RingOn
<1>6. IdInv
  <2>1. \A t \in Threads : t >= 1 => t # 0
    OBVIOUS
  <2>2. \A w \in Workers : ~(w < 1)
    BY DEF Workers
  <2> QED
    BY <2>1, <2>2 DEF Init, IdInv
<1>7. RestInv
  BY DEF Init, RestInv
<1> QED
  BY <1>2, <1>3, <1>4, <1>5, <1>6, <1>7 DEF IInv

(* The inductive invariant of the cooperative threads: the ring is well    *)
(* linked, every thread on it but the running one has a context that leads *)
(* back into its own code on its own stack, and its s registers agree with *)
(* the rows it has drawn.                                                  *)
THEOREM Invariance == Spec => []IInv
<1>1. IInv /\ [Next]_vars => IInv'
  <2> SUFFICES ASSUME IInv, [Next]_vars PROVE IInv'
    OBVIOUS
  <2>1. CASE Spin \/ UNCHANGED vars
    BY <2>1 DEF Spin, vars, IInv, TypeOK, RunningInv, WaitingInv, RingInv,
      RingOn, Members, IdInv, RestInv, Waits, Progress, Complete
  <2> QED
    BY <2>1, CreateStep, YieldStep, ExitStep, LocalStep DEF Next
<1> QED
  BY <1>1, InitInv, PTL DEF Spec

(* Every variable keeps its type: rows, pointers and saved contexts.       *)
THEOREM TypeCorrect == Spec => []TypeOK
<1>1. IInv => TypeOK
  BY DEF IInv
<1> QED
  BY <1>1, Invariance, PTL


-----------------------------------------------------------------------------
(* What RingQueue computes, by induction along the ring: a set of natural  *)
(* numbers that has a member has a least one.                              *)

(* Every set of natural numbers has a least element.                       *)
LEMMA LeastNat ==
  ASSUME NEW T \in SUBSET Nat, T # {}
  PROVE \E n \in T : \A m \in T : n <= m
<1> DEFINE R == OpToRel(<, Nat)
<1>1. IsWellFoundedOn(R, Nat)
  BY NatLessThanWellFounded
<1>2. \A x, y \in Nat : y < x => <<y, x>> \in R
  BY DEF OpToRel
<1> HIDE DEF R
<1>3. PICK n \in T : \A m \in T : ~ (<<m, n>> \in R)
  BY <1>1, WFMin
<1>4. \A m \in T : ~(m < n)
  BY <1>2, <1>3
<1> QED
  BY <1>4

(* Induction over the natural numbers, for a set.                          *)
LEMMA SetInduction ==
  ASSUME NEW S \in SUBSET Nat, 0 \in S, \A n \in S : n+1 \in S
  PROVE  S = Nat
<1> DEFINE T == Nat \ S
<1> SUFFICES ASSUME T # {} PROVE FALSE
  OBVIOUS
<1> PICK n \in T : \A m \in T : n <= m
  BY LeastNat
<1>1. n # 0
  OBVIOUS
<1>2. n-1 \in Nat /\ n-1 \notin T
  BY <1>1
<1> QED
  BY <1>2

LEMMA WalkExists ==
  ASSUME NEW head, NEW nxt, NEW null
  PROVE  \A b \in Nat : \E w : IsWalk(w, head, nxt, null, b)
<1> DEFINE S == {b \in Nat : \E w : IsWalk(w, head, nxt, null, b)}
<1>1. 0 \in S
  <2> DEFINE w == [i \in 0..0 |-> head]
  <2>1. IsWalk(w, head, nxt, null, 0)
    BY DEF IsWalk
  <2> QED
    BY <2>1
<1>2. ASSUME NEW b \in S PROVE b+1 \in S
  <2>1. PICK w : IsWalk(w, head, nxt, null, b)
    OBVIOUS
  <2> DEFINE v == [i \in 0..b+1 |-> IF i = b+1
                     THEN (IF w[b] = null THEN null ELSE nxt[w[b]]) ELSE w[i]]
  <2>2. \A i \in 0..b : w[i] = IF i = 0 THEN head
         ELSE IF w[i-1] = null THEN null ELSE nxt[w[i-1]]
    BY <2>1 DEF IsWalk
  <2>3. \A i \in 0..b+1 : v[i] = IF i = 0 THEN head
         ELSE IF v[i-1] = null THEN null ELSE nxt[v[i-1]]
    BY <2>2
  <2>4. DOMAIN v = 0..b+1 /\ v = [i \in 0..b+1 |-> v[i]]
    OBVIOUS
  <2> HIDE DEF v
  <2>5. IsWalk(v, head, nxt, null, b+1)
    BY <2>3, <2>4 DEF IsWalk
  <2> QED
    BY <2>5
<1> HIDE DEF S
<1>3. S = Nat
  <2>1. S \in SUBSET Nat BY DEF S
  <2> QED BY <1>1, <1>2, <2>1, SetInduction
<1> QED
  BY <1>3 DEF S

(* What RingQueue computes from a ring of at most bound threads.           *)
LEMMA RingQueueIs ==
  ASSUME NEW head, NEW nxt, NEW null, NEW bound \in Nat, NEW S, null \notin S,
         NEW q, IsQueue(q, head, nxt, S), Len(q) <= bound
  PROVE  RingQueue(head, nxt, null, bound) = q
<1> DEFINE at == CHOOSE w : w = [i \in 0..bound |-> IF i = 0 THEN head
                      ELSE IF w[i-1] = null THEN null ELSE nxt[w[i-1]]]
           Good(k) == /\ k = bound \/ at[k] = head
                      /\ \A j \in 1..k-1 : at[j] # head
           len == CHOOSE k \in 1..bound : Good(k)
           n == Len(q)
<1>1. RingQueue(head, nxt, null, bound) = [i \in 1..len |-> at[i-1]]
  BY Zenon DEF RingQueue
<1>2. IsWalk(at, head, nxt, null, bound)
  <2> DEFINE Is(w) == w = [i \in 0..bound |-> IF i = 0 THEN head
                      ELSE IF w[i-1] = null THEN null ELSE nxt[w[i-1]]]
  <2>0. \E w : IsWalk(w, head, nxt, null, bound)
    BY WalkExists
  <2>1. PICK w : Is(w)
    BY <2>0, Zenon DEF IsWalk
  <2>2. at = CHOOSE v : Is(v)
    BY Zenon
  <2>3. Is(w) => Is(CHOOSE v : Is(v))
    <3> HIDE DEF Is
    <3> QED BY Zenon
  <2>4. Is(at)
    <3> HIDE DEF Is
    <3> QED BY <2>1, <2>2, <2>3, Zenon
  <2> QED
    BY <2>4, Zenon DEF IsWalk
<1> HIDE DEF at
<1>3. /\ \A i \in 0..bound : at[i] = IF i = 0 THEN head
         ELSE IF at[i-1] = null THEN null ELSE nxt[at[i-1]]
  BY <1>2 DEF IsWalk
<1>4. n \in Nat /\ n >= 1 /\ q = [i \in 1..n |-> q[i]] /\ \A i \in 1..n : q[i] \in S
  BY DEF IsQueue
<1>5. \A i \in 0..n-1 : at[i] = q[i+1]
  <2> DEFINE T == {i \in 0..n-1 : at[i] # q[i+1]}
  <2> SUFFICES ASSUME T # {} PROVE FALSE
    OBVIOUS
  <2>0. T \in SUBSET Nat
    BY <1>4
  <2>1. PICK i \in T : \A m \in T : i <= m
    <3> HIDE DEF T
    <3> QED BY <2>0, LeastNat
  <2>2. i # 0
    BY <1>3, <1>4 DEF IsQueue
  <2>3. i-1 \in 0..n-1 /\ i-1 \notin T
    BY <1>4, <2>1, <2>2
  <2>4. at[i-1] = q[i] /\ q[i] # null
    BY <1>4, <2>3
  <2>5. at[i] = nxt[q[i]]
    BY <1>3, <1>4, <2>2, <2>4
  <2> QED
    BY <1>4, <2>2, <2>5 DEF IsQueue
<1>6. n <= bound => at[n] = head
  BY <1>3, <1>4, <1>5 DEF IsQueue
<1>7. \A j \in 1..n-1 : at[j] # head
  BY <1>4, <1>5 DEF IsQueue
<1>8. Good(n) /\ n \in 1..bound
  BY <1>4, <1>6, <1>7
<1>9. \A k \in 1..bound : Good(k) => k = n
  BY <1>4, <1>6, <1>7
<1>10. len = n
  <2> HIDE DEF Good
  <2> QED BY <1>8, <1>9
<1> HIDE DEF len
<1>11. [i \in 1..n |-> at[i-1]] = [i \in 1..n |-> q[i]]
  BY <1>4, <1>5
<1> QED
  BY <1>1, <1>4, <1>10, <1>11

(* The ends of the queue.                                                  *)
LEMMA QueueEnds ==
  ASSUME NEW S, NEW nxt, NEW head, NEW q, IsQueue(q, head, nxt, S)
  PROVE  EndsOf(q, head, nxt, S)
<1>1. q \in Seq(S) /\ Len(q) \in Nat /\ Len(q) >= 1 /\ q[1] = head
      /\ nxt[q[Len(q)]] = head
  BY DEF IsQueue
<1>2. 1 \in 1..Len(q) /\ Len(q) \in 1..Len(q)
  BY <1>1
<1>3. q[Len(q)] = q[1] => Len(q) = 1
  BY <1>2 DEF IsQueue
<1> QED
  BY <1>1, <1>2, <1>3 DEF EndsOf

(* A new last thread.                                                      *)
LEMMA QueueAppend ==
  ASSUME NEW S, NEW nxt, NEW nxt1, NEW head, NEW q, NEW t,
         IsQueue(q, head, nxt, S), t \notin S, nxt1[t] = head,
         nxt1[q[Len(q)]] = t, SameBut(nxt1, nxt, S, {q[Len(q)]}),
         NEW U, U = S \cup {t}
  PROVE  IsQueue(Append(q, t), head, nxt1, U)
<1> DEFINE r == Append(q, t)
           n == Len(q)
<1>1. q \in Seq(S) /\ n \in Nat /\ n >= 1 /\ \A i \in 1..n : q[i] \in S
  BY DEF IsQueue
<1>2. r \in Seq(U) /\ Len(r) = n+1 /\ r[n+1] = t
      /\ \A i \in 1..n : r[i] = q[i]
  BY <1>1
<1> HIDE DEF r
<1>3. \A i \in 1..n : nxt1[r[i]] = r[i+1]
  BY <1>1, <1>2 DEF IsQueue, SameBut
<1>4. \A i, j \in 1..n+1 : r[i] = r[j] => i = j
  BY <1>1, <1>2 DEF IsQueue
<1>5. r[1] = head /\ nxt1[r[n+1]] = head
  BY <1>1, <1>2 DEF IsQueue
<1> QED
  BY <1>1, <1>2, <1>3, <1>4, <1>5 DEF IsQueue

(* The head goes to the end.                                               *)
LEMMA QueueRotate ==
  ASSUME NEW S, NEW nxt, NEW head, NEW q, IsQueue(q, head, nxt, S)
  PROVE  /\ IsQueue(Append(Tail(q), Head(q)), nxt[head], nxt, S)
         /\ Len(Append(Tail(q), Head(q))) = Len(q)
<1> DEFINE r == Append(Tail(q), Head(q))
           n == Len(q)
<1>1. q \in Seq(S) /\ n \in Nat /\ n >= 1 /\ q[1] = head /\ q # <<>>
      /\ nxt[q[n]] = head
  BY DEF IsQueue
<1>2. Tail(q) \in Seq(S) /\ Len(Tail(q)) = n-1 /\ Head(q) = q[1] /\ Head(q) \in S
      /\ \A i \in 1..n-1 : Tail(q)[i] = q[i+1]
  BY <1>1
<1>3. r \in Seq(S) /\ Len(r) = n /\ r[n] = q[1]
      /\ \A i \in 1..n-1 : r[i] = q[i+1]
  BY <1>1, <1>2
<1> HIDE DEF r
<1>4. r[1] = nxt[head] /\ nxt[r[n]] = nxt[head]
  BY <1>1, <1>3 DEF IsQueue
<1>5. \A i \in 1..n-1 : nxt[r[i]] = r[i+1]
  BY <1>1, <1>3 DEF IsQueue
<1>6. \A i, j \in 1..n : r[i] = r[j] => i = j
  BY <1>1, <1>3 DEF IsQueue
<1> QED
  BY <1>1, <1>3, <1>4, <1>5, <1>6 DEF IsQueue

(* The head leaves.                                                        *)
LEMMA QueueTail ==
  ASSUME NEW S, NEW nxt, NEW nxt1, NEW head, NEW q,
         IsQueue(q, head, nxt, S), Len(q) > 1,
         nxt1[q[Len(q)]] = nxt[head],
         SameBut(nxt1, nxt, S, {q[Len(q)], head})
  PROVE  /\ IsQueue(Tail(q), nxt[head], nxt1, S)
         /\ Len(Tail(q)) = Len(q) - 1
         /\ \A i \in 1..Len(Tail(q)) : Tail(q)[i] # head
<1> DEFINE r == Tail(q)
           n == Len(q)
<1>1. q \in Seq(S) /\ n \in Nat /\ n >= 2 /\ q[1] = head /\ q # <<>>
      /\ \A i \in 1..n : q[i] \in S
  BY DEF IsQueue
<1>2. r \in Seq(S) /\ Len(r) = n-1
      /\ \A i \in 1..n-1 : r[i] = q[i+1]
  BY <1>1
<1> HIDE DEF r
<1>3. r[1] = nxt[head] /\ nxt1[r[n-1]] = nxt[head]
  BY <1>1, <1>2 DEF IsQueue
<1>4. \A i \in 1..n-2 : nxt1[r[i]] = r[i+1]
  <2> TAKE i \in 1..n-2
  <2>1. r[i] = q[i+1] /\ r[i+1] = q[i+2] /\ i+1 \in 1..n-1 /\ i+1 \in 1..n /\ n \in 1..n /\ 1 \in 1..n
        /\ i+2 = (i+1)+1
    BY <1>1, <1>2
  <2>2. q[i+1] # q[n] /\ q[i+1] # q[1] /\ q[i+1] \in S
    BY <1>1, <2>1 DEF IsQueue
  <2>3. nxt[q[i+1]] = q[i+2]
    BY <1>1, <2>1 DEF IsQueue
  <2> QED
    BY <1>1, <2>1, <2>2, <2>3 DEF SameBut
<1>5. \A i, j \in 1..n-1 : r[i] = r[j] => i = j
  BY <1>1, <1>2 DEF IsQueue
<1>6. \A i \in 1..n-1 : r[i] # head
  BY <1>1, <1>2 DEF IsQueue
<1> QED
  BY <1>1, <1>2, <1>3, <1>4, <1>5, <1>6 DEF IsQueue

-----------------------------------------------------------------------------
(* The run queue.                                                          *)

(* RunQueue is the sequence the ring runs as.                              *)
LEMMA RunQueueIs ==
  ASSUME NEW head, NEW nxt, NEW k \in 0..N, NEW q, RunsAs(q, head, nxt, k)
  PROVE  RingQueue(head, nxt, Null, N + 1) = q
<1>1. N \in Nat /\ N + 1 \in Nat /\ Null \notin 0..k
  BY ConstantFacts DEF Null
<1>2. Len(q) <= N + 1 /\ IsQueue(q, head, nxt, 0..k)
  <2>1. Len(q) \in Nat
    BY DEF RunsAs, IsQueue
  <2> QED
    BY <1>1, <2>1 DEF RunsAs
<1> QED
  BY <1>1, <1>2, RingQueueIs

(* Which threads a new, a rotated and a shortened queue hold.              *)
Elements(q) == {q[i] : i \in 1..Len(q)}

LEMMA ElementsAppend ==
  ASSUME NEW S, NEW q \in Seq(S), NEW t
  PROVE  Elements(Append(q, t)) = Elements(q) \cup {t}
<1>1. Len(q) \in Nat /\ Len(Append(q, t)) = Len(q) + 1
      /\ Append(q, t)[Len(q)+1] = t
      /\ \A i \in 1..Len(q) : Append(q, t)[i] = q[i]
  OBVIOUS
<1>2. PICK r : r = Append(q, t)
  OBVIOUS
<1>3. \A i \in 1..Len(q)+1 : i \in 1..Len(q) \/ i = Len(q)+1
  BY <1>1
<1>4. Len(q)+1 \in 1..Len(q)+1 /\ 1..Len(q) \subseteq 1..Len(q)+1
  BY <1>1
<1> QED
  BY <1>1, <1>2, <1>3, <1>4 DEF Elements

LEMMA ElementsTail ==
  ASSUME NEW S, NEW nxt, NEW head, NEW q, IsQueue(q, head, nxt, S)
  PROVE  Elements(Tail(q)) = Elements(q) \ {head}
<1> DEFINE n == Len(q)
<1>1. q \in Seq(S) /\ n \in Nat /\ n >= 1 /\ q[1] = head /\ q # <<>>
      /\ \A i, j \in 1..n : q[i] = q[j] => i = j
  BY DEF IsQueue
<1>2. Len(Tail(q)) = n-1 /\ \A i \in 1..n-1 : Tail(q)[i] = q[i+1]
  BY <1>1
<1>3. PICK r : r = Tail(q)
  OBVIOUS
<1>4. \A i \in 1..n-1 : i+1 \in 1..n /\ q[i+1] # head
  BY <1>1
<1>5. \A i \in 1..n : q[i] # head => i-1 \in 1..n-1 /\ (i-1)+1 = i
  BY <1>1
<1>6. \A x \in Elements(r) : x \in Elements(q) \ {head}
  BY <1>2, <1>3, <1>4 DEF Elements
<1>7. \A x \in Elements(q) \ {head} : x \in Elements(r)
  <2> TAKE x \in Elements(q) \ {head}
  <2>1. PICK i \in 1..n : x = q[i]
    BY DEF Elements
  <2>2. i-1 \in 1..n-1 /\ (i-1)+1 = i
    BY <1>5, <2>1
  <2>3. r[i-1] = x
    BY <1>2, <1>3, <2>1, <2>2
  <2> QED
    BY <1>2, <1>3, <2>2, <2>3 DEF Elements
<1> QED
  BY <1>3, <1>6, <1>7

(* The queue at boot.                                                      *)
LEMMA QueueInit ==
  ASSUME Init
  PROVE  QueueInv /\ RR!RRInit
<1>1. tp = 0 /\ nextId - 1 = 0 /\ next[0] = 0 /\ Members = {0}
  BY ConstantFacts DEF Init, Members
<1>2. <<0>> \in Seq(0..0) /\ Len(<<0>>) = 1 /\ <<0>>[1] = 0
  OBVIOUS
<1>3. RunsAs(<<0>>, 0, next, 0)
  BY <1>1, <1>2 DEF RunsAs, IsQueue
<1>4. Elements(<<0>>) = {0}
  BY <1>2 DEF Elements
<1>5. QueueInv
  BY <1>1, <1>3, <1>4 DEF QueueInv, Elements
<1>6. RunQueue = <<0>>
  <2>1. 0 \in 0..N
    BY ConstantFacts
  <2> QED
    BY <1>1, <1>3, <2>1, RunQueueIs DEF RunQueue
<1> QED
  BY <1>1, <1>5, <1>6 DEF RR!RRInit

(* thread_create appends.                                                  *)
LEMMA QueueCreate ==
  ASSUME IInv, QueueInv, ThreadCreate
  PROVE  QueueInv' /\ RR!Spawn
<1> DEFINE t == nextId
           k == nextId - 1
           z == prev[tp]
<1>1. /\ pc = "start" /\ t <= N /\ nextId' = t + 1 /\ tp' = tp /\ tp = 0
  BY DEF ThreadCreate, regs, IInv, RunningInv
<1>2. /\ t \in Threads /\ t \notin Members
      /\ z \in Members /\ next[z] = tp
      /\ next' = [s \in Threads |-> IF s = t THEN tp
                    ELSE IF s = z THEN t ELSE next[s]]
      /\ Members' = Members \cup {t}
  BY CreateEffect
<1>3. N \in Nat /\ k \in 0..N /\ t \in 0..N /\ t \in Nat /\ k + 1 = t
  BY <1>1, ConstantFacts DEF IInv, TypeOK
<1>4. PICK q : RunsAs(q, tp, next, k) /\ Members = Elements(q)
  BY DEF QueueInv, Elements
<1>5. /\ IsQueue(q, tp, next, 0..k) /\ Len(q) <= k + 1 /\ q \in Seq(0..k)
  BY <1>4 DEF RunsAs, IsQueue
<1>6. /\ Len(q) \in Nat /\ q[Len(q)] \in 0..k /\ next[q[Len(q)]] = tp
      /\ Len(q) >= 1
  <2>1. EndsOf(q, tp, next, 0..k)
    BY <1>5, QueueEnds
  <2> QED
    BY <2>1 DEF EndsOf
<1>7. q[Len(q)] = z
  <2>1. q[Len(q)] \in Members
    BY <1>4, <1>6 DEF Elements
  <2> QED
    BY <1>6, <2>1 DEF IInv, RingInv, RingOn
<1>8. 0..k \subseteq Threads /\ t \notin 0..k /\ (0..k) \cup {t} = 0..t
  BY <1>3 DEF Threads
<1> HIDE DEF k, t, z
<1>9. next'[t] = tp /\ next'[q[Len(q)]] = t
      /\ SameBut(next', next, 0..k, {q[Len(q)]})
  BY <1>2, <1>6, <1>7, <1>8 DEF SameBut
<1>10. IsQueue(Append(q, t), tp, next', 0..t)
  BY <1>5, <1>8, <1>9, QueueAppend
<1>11. RunsAs(Append(q, t), tp', next', nextId' - 1)
  <2>1. Len(Append(q, t)) = Len(q) + 1 /\ nextId' - 1 = t
    BY <1>1, <1>3, <1>5
  <2> QED
    BY <1>1, <1>3, <1>5, <1>6, <1>10, <2>1 DEF RunsAs
<1>12. Members' = Elements(Append(q, t))
  BY <1>2, <1>4, <1>5, ElementsAppend
<1>13. QueueInv'
  BY <1>11, <1>12 DEF QueueInv, Elements
<1>14. RunQueue = q
  BY <1>3, <1>4, RunQueueIs DEF RunQueue
<1>15. RunQueue' = Append(q, t)
  <2>1. nextId' - 1 \in 0..N
    BY <1>1, <1>3
  <2>2. RingQueue(tp', next', Null, N + 1) = Append(q, t)
    BY <1>11, <2>1, RunQueueIs
  <2> QED
    BY <2>2 DEF RunQueue
<1>16. Head(q) = 0
  BY <1>1, <1>5 DEF IsQueue
<1>17. /\ k < N /\ t = k + 1 /\ nextId' - 1 = k + 1
  BY <1>1, <1>3
<1> QED
  BY <1>13, <1>14, <1>15, <1>16, <1>17 DEF RR!Spawn, k

(* yield rotates.                                                          *)
LEMMA QueueYield ==
  ASSUME IInv, QueueInv, Yield
  PROVE  QueueInv' /\ RR!Switch
<1>1. next' = next /\ nextId' = nextId /\ tp' = next[tp] /\ Members' = Members
  BY YieldEffect DEF Members
<1>2. nextId - 1 \in 0..N /\ N \in Nat
  BY ConstantFacts DEF IInv, TypeOK
<1>3. PICK q : RunsAs(q, tp, next, nextId - 1) /\ Members = Elements(q)
  BY DEF QueueInv, Elements
<1> DEFINE r == Append(Tail(q), Head(q))
<1>4. IsQueue(q, tp, next, 0..(nextId - 1))
  BY <1>3 DEF RunsAs
<1>5. IsQueue(r, next[tp], next, 0..(nextId - 1)) /\ Len(r) = Len(q)
  BY <1>4, QueueRotate
<1>6. RunsAs(r, tp', next', nextId' - 1)
  BY <1>1, <1>3, <1>5 DEF RunsAs
<1>7. Members' = Elements(r)
  <2>1. /\ q \in Seq(0..(nextId - 1)) /\ q # <<>> /\ Head(q) = tp
        /\ Tail(q) \in Seq(0..(nextId - 1))
    BY <1>4 DEF IsQueue
  <2>2. Elements(Tail(q)) = Elements(q) \ {tp}
    BY <1>4, ElementsTail
  <2>3. Elements(r) = Elements(Tail(q)) \cup {tp}
    BY <2>1, ElementsAppend
  <2>4. tp \in Elements(q)
    BY <1>3 DEF IInv, RingInv
  <2> QED
    BY <1>1, <1>3, <2>2, <2>3, <2>4
<1>8. QueueInv'
  BY <1>6, <1>7 DEF QueueInv, Elements
<1>9. RunQueue = q
  BY <1>2, <1>3, RunQueueIs DEF RunQueue
<1>10. RunQueue' = r
  <2>1. RingQueue(tp', next', Null, N + 1) = r
    BY <1>1, <1>2, <1>6, RunQueueIs
  <2> QED
    BY <2>1 DEF RunQueue
<1> QED
  BY <1>1, <1>8, <1>9, <1>10 DEF RR!Switch

(* thread_exit removes the head.                                           *)
LEMMA QueueExit ==
  ASSUME IInv, QueueInv, ThreadExit
  PROVE  QueueInv' /\ RR!Leave
<1> DEFINE n == next[tp]
           p == prev[tp]
           k == nextId - 1
<1>1. /\ n \in Members /\ p \in Members /\ n # tp /\ p # tp
      /\ next[p] = tp /\ tp \in Members
      /\ next' = [u \in Threads |-> IF u = tp THEN Null
                    ELSE IF u = p THEN n ELSE next[u]]
      /\ Members' = Members \ {tp} /\ tp' = n /\ nextId' = nextId
      /\ p \in Threads
  BY ExitEffect
<1>2. N \in Nat /\ k \in 0..N
  BY ConstantFacts DEF IInv, TypeOK
<1>3. PICK q : RunsAs(q, tp, next, k) /\ Members = Elements(q)
  BY DEF QueueInv, Elements
<1>4. IsQueue(q, tp, next, 0..k) /\ Len(q) <= k + 1
  BY <1>3 DEF RunsAs
<1>5. /\ Len(q) \in Nat /\ q[Len(q)] \in 0..k /\ next[q[Len(q)]] = tp
      /\ Len(q) >= 1
      /\ Len(q) > 1 <=> q[Len(q)] # tp
  <2>1. EndsOf(q, tp, next, 0..k)
    BY <1>4, QueueEnds
  <2> QED
    BY <2>1 DEF EndsOf
<1>6. q[Len(q)] = p
  <2>1. q[Len(q)] \in Members
    BY <1>3, <1>5 DEF Elements
  <2> QED
    BY <1>5, <2>1 DEF IInv, RingInv, RingOn
<1>7. 0..k \subseteq Threads
  BY <1>2 DEF Threads
<1> HIDE DEF n, p, k
<1>8. next'[q[Len(q)]] = n /\ SameBut(next', next, 0..k, {q[Len(q)], tp})
  BY <1>1, <1>6, <1>7 DEF SameBut
<1>9. /\ IsQueue(Tail(q), n, next', 0..k)
      /\ Len(Tail(q)) = Len(q) - 1
  BY <1>1, <1>4, <1>5, <1>6, <1>8, QueueTail DEF n
<1>10. RunsAs(Tail(q), tp', next', nextId' - 1)
  BY <1>1, <1>2, <1>4, <1>5, <1>9 DEF RunsAs, k
<1>11. Members' = Elements(Tail(q))
  BY <1>1, <1>3, <1>4, ElementsTail
<1>12. QueueInv'
  BY <1>10, <1>11 DEF QueueInv, Elements
<1>13. RunQueue = q
  BY <1>2, <1>3, RunQueueIs DEF RunQueue
<1>14. RunQueue' = Tail(q)
  <2>1. nextId' - 1 \in 0..N
    BY <1>1, <1>2 DEF k
  <2>2. RingQueue(tp', next', Null, N + 1) = Tail(q)
    BY <1>10, <2>1, RunQueueIs
  <2> QED
    BY <2>2 DEF RunQueue
<1> QED
  BY <1>1, <1>5, <1>6, <1>12, <1>13, <1>14 DEF RR!Leave

(* Every step of the machine is a step of the queue or leaves it alone.    *)
LEMMA QueueStep ==
  ASSUME IInv, QueueInv, [Next]_vars
  PROVE  QueueInv' /\ [RR!RRNext]_RR!rrvars
<1>1. CASE ThreadCreate
  BY <1>1, QueueCreate DEF RR!RRNext
<1>2. CASE Yield
  BY <1>2, QueueYield DEF RR!RRNext
<1>3. CASE ThreadExit
  BY <1>3, QueueExit DEF RR!RRNext
<1>4. CASE StartExit \/ ContextEntry \/ RenderRow \/ Yielded \/ RenderReturn
           \/ LastExit \/ Spin \/ UNCHANGED vars
  <2>1. tp' = tp /\ next' = next /\ nextId' = nextId
    BY <1>4 DEF StartExit, ContextEntry, RenderRow, Yielded, RenderReturn,
      LastExit, Spin, vars, regs
  <2>2. QueueInv'
    BY <2>1 DEF QueueInv, Members
  <2>3. UNCHANGED RR!rrvars
    BY <2>1 DEF RR!rrvars, RunQueue
  <2> QED
    BY <2>2, <2>3
<1> QED
  BY <1>1, <1>2, <1>3, <1>4 DEF Next

(* The ring of next pointers, read from the thread that runs, is the FIFO  *)
(* of RoundRobin: thread_create appends, yield sends the caller to the     *)
(* end, thread_exit removes the head, and no other step changes the order. *)
THEOREM RoundRobinRefinement == Spec => ImplementsRoundRobin
<1>1. Init => QueueInv /\ RR!RRInit
  BY QueueInit
<1>2. IInv /\ QueueInv /\ [Next]_vars => QueueInv' /\ [RR!RRNext]_RR!rrvars
  BY QueueStep
<1> QED
  BY <1>1, <1>2, Invariance, PTL DEF Spec, ImplementsRoundRobin, RR!RRSpec

\* When the last thread spins, the whole picture is on the screen.
RestIsComplete == pc = "all_exited" => \A w \in Workers : Complete(w)

(* When thread_exit finds no other thread, prints "all threads have        *)
(* exited" and spins, every worker has left and has drawn all its rows:    *)
(* the safety half of AllFinish.                                           *)
THEOREM PictureAtRest == Spec => []RestIsComplete
<1>1. Init => QueueInv
  BY QueueInit
<1>2. IInv /\ QueueInv /\ [Next]_vars => QueueInv'
  BY QueueStep
<1>3. IInv /\ QueueInv => RestIsComplete
  <2> SUFFICES ASSUME IInv, QueueInv, pc = "all_exited", NEW w \in Workers
               PROVE  Complete(w)
    BY DEF RestIsComplete
  <2>1. PICK q : RunsAs(q, tp, next, nextId - 1) /\ Members = Elements(q)
    BY DEF QueueInv, Elements
  <2>2. IsQueue(q, tp, next, 0..(nextId - 1))
    BY <2>1 DEF RunsAs
  <2>3. next[tp] = tp /\ nextId = N + 1
    BY DEF IInv, RestInv, IdInv
  <2>4. Len(q) \in Nat /\ Len(q) >= 1 /\ q[1] = tp
    BY <2>2 DEF IsQueue
  <2>5. Len(q) = 1
    <3> SUFFICES ASSUME Len(q) # 1 PROVE FALSE
      OBVIOUS
    <3>1. 1 \in 1..Len(q)-1 /\ 1 \in 1..Len(q) /\ 2 \in 1..Len(q) /\ 1+1 = 2
      BY <2>4
    <3>2. q[2] = tp
      BY <2>2, <2>3, <2>4, <3>1 DEF IsQueue
    <3> QED
      BY <2>2, <2>4, <3>1, <3>2 DEF IsQueue
  <2>6. Members = {tp}
    BY <2>1, <2>4, <2>5 DEF Elements
  <2>7. CASE w = tp
    BY <2>7 DEF IInv, RunningInv, Progress
  <2>8. CASE w # tp
    BY <2>3, <2>6, <2>8, ConstantFacts DEF IInv, IdInv, Members, Workers
  <2> QED
    BY <2>7, <2>8
<1> QED
  BY <1>1, <1>2, <1>3, Invariance, PTL DEF Spec

===============================================================================
