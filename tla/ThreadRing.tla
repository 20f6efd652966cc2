------------------------------ MODULE ThreadRing ------------------------------
(***************************************************************************)
(* The run list both thread libraries keep: thread_t records linked in a   *)
(* ring by their fields next and prev.  The operators take the two fields  *)
(* as functions from threads to threads or null.                           *)
(***************************************************************************)
EXTENDS Naturals, Sequences

\* The threads in S form rings: their pointers stay in S and are inverses.
RingOn(S, nxt, prv) ==
  \A t \in S : /\ nxt[t] \in S /\ prv[nxt[t]] = t
               /\ prv[t] \in S /\ nxt[prv[t]] = t

(* The ring as a queue: the threads met from head along next until head    *)
(* comes up again, at most bound of them.                                  *)
RingQueue(head, nxt, null, bound) ==
  LET at[i \in 0..bound] ==
        IF i = 0 THEN head
        ELSE IF at[i-1] = null THEN null ELSE nxt[at[i-1]]
      len == CHOOSE k \in 1..bound :
               /\ k = bound \/ at[k] = head
               /\ \A j \in 1..k-1 : at[j] # head
  IN [i \in 1..len |-> at[i-1]]
-----------------------------------------------------------------------------
(* The vocabulary of the refinement proofs.                                *)

\* The walk RingQueue makes: head, its successor, and so on.
IsWalk(w, head, nxt, null, bound) ==
  w = [i \in 0..bound |->
         IF i = 0 THEN head
         ELSE IF w[i-1] = null THEN null ELSE nxt[w[i-1]]]

(* The sequence q over S, without repetition, is the ring from head on.    *)
IsQueue(q, head, nxt, S) ==
  /\ q \in Seq(S) /\ Len(q) >= 1
  /\ q[1] = head /\ nxt[q[Len(q)]] = head
  /\ \A i \in 1..Len(q)-1 : nxt[q[i]] = q[i+1]
  /\ \A i, j \in 1..Len(q) : q[i] = q[j] => i = j

\* It holds at most the threads 0..k.
RunsAs(q, head, nxt, k) ==
  IsQueue(q, head, nxt, 0..k) /\ Len(q) <= k + 1

\* The ends of such a sequence.
EndsOf(q, head, nxt, S) ==
  /\ Len(q) \in Nat /\ Len(q) >= 1
  /\ q[1] = head /\ q[Len(q)] \in S /\ nxt[q[Len(q)]] = head
  /\ Len(q) > 1 <=> q[Len(q)] # head

\* The two pointer fields agree on S, except on X.
SameBut(nxt1, nxt, S, X) == \A s \in S \ X : nxt1[s] = nxt[s]
===============================================================================
