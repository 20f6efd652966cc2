---------------------------- MODULE NetbootProofs -----------------------------
(***************************************************************************)
(* Proofs about Netboot, for any images, any number of retries and of      *)
(* faults, and sequence numbers that wrap.                                 *)
(***************************************************************************)
EXTENDS Netboot, TLAPS

(* The packets on their way, oldest first: the replies in the socket, the  *)
(* replies on the link, the requests.                                      *)
Count == Len(inbox) + Len(toHost) + Len(toTarget)

InFlight(k) ==
  IF k <= Len(inbox) THEN inbox[k].seq
  ELSE IF k <= Len(inbox) + Len(toHost) THEN toHost[k - Len(inbox)].seq
  ELSE toTarget[k - Len(inbox) - Len(toHost)].seq

\* How many numbers the host has used since s.
Gap(s) == IF s <= seq THEN seq - s ELSE seq - s + SeqWrap

\* The host is about to use the next number.
Due == IF hpc = "send" THEN 1 ELSE 0

(* The numbers of the packets on their way are in order, and each is at    *)
(* most as old as the faults so far allow.                                 *)
FlightInv ==
  /\ \A j, k \in 1..Count : j < k => Gap(InFlight(j)) > Gap(InFlight(k))
  /\ \A k \in 1..Count : Gap(InFlight(k)) + k - 1 + Due <= faults

SessionCmd == IF blk = ExecBlk THEN "EXEC" ELSE "WRITE"

(* Requests of the session that is under way, and of earlier ones.         *)
SessionInv ==
  /\ \A i \in 1..Len(toTarget) :
       /\ toTarget[i].sock <= sock
       /\ toTarget[i].cmd = "WRITE" => toTarget[i].blk \in 1..Len(Blocks)
       /\ hpc \in {"send", "wait"} =>
            toTarget[i].sock = sock /\ toTarget[i].blk = blk /\ toTarget[i].cmd = SessionCmd
       /\ hpc = "open" /\ toTarget[i].cmd # "QUERY" => toTarget[i].sock # sock
  /\ \A i \in 1..Len(toHost) : toHost[i].sock <= sock

(* A target that executes an image has not answered the latest query.      *)
RunInv ==
  mode = "run" /\ hpc = "open" =>
    /\ \A i \in 1..Len(inbox) : inbox[i].seq # seq
    /\ \A i \in 1..Len(toHost) : toHost[i].sock = sock => toHost[i].seq # seq

(* A reply on its way means that the block has been written.               *)
WriteInv ==
  hpc \in {"send", "wait"} /\ clean /\ blk < ExecBlk /\ (inbox # <<>> \/ toHost # <<>>) =>
    mem[Blocks[blk].addr] = Blocks[blk].data

(* EXEC is sent when all blocks have been written, and nothing that would  *)
(* overwrite them is on its way.                                           *)
ExecInv ==
  \A i \in 1..Len(toTarget) : toTarget[i].cmd = "EXEC" =>
    /\ clean => Complete
    /\ \A j \in 1..Len(toTarget) : toTarget[j].cmd # "WRITE"

IInv == /\ TypeOK /\ FlightInv /\ SessionInv /\ RunInv /\ WriteInv /\ ExecInv
        /\ AckedIsWritten /\ ExecIsComplete

-----------------------------------------------------------------------------
(* The operators.                                                          *)

LEMMA IncFacts ==
  ASSUME NEW n \in 0..SeqWrap-1
  PROVE  Inc(n) = (IF n + 1 = SeqWrap THEN 0 ELSE n + 1) /\ Inc(n) \in 0..SeqWrap-1
<1>1. SeqWrap \in Nat \ {0, 1}
  BY NetbootAssumption
<1>2. CASE n + 1 = SeqWrap
  <2>1. SeqWrap % SeqWrap = 0
    BY <1>1
  <2> QED
    BY <1>1, <1>2, <2>1 DEF Inc
<1>3. CASE n + 1 # SeqWrap
  <2>1. (n + 1) % SeqWrap = n + 1
    BY <1>1, <1>3
  <2> QED
    BY <1>1, <1>3, <2>1 DEF Inc
<1> QED
  BY <1>2, <1>3

LEMMA Concat == ASSUME NEW S, NEW p \in Seq(S), NEW q \in Seq(S)
                PROVE  p \o q \in Seq(S) /\ Len(p \o q) = Len(p) + Len(q)
OBVIOUS

LEMMA RemoveFacts ==
  ASSUME NEW S, NEW s \in Seq(S), NEW i \in 1..Len(s)
  PROVE  /\ RemoveAt(s, i) \in Seq(S) /\ Len(RemoveAt(s, i)) = Len(s) - 1
         /\ \A k \in 1..Len(s) - 1 : RemoveAt(s, i)[k] = s[IF k < i THEN k ELSE k + 1]
<1> DEFINE p == SubSeq(s, 1, i - 1)
           q == SubSeq(s, i + 1, Len(s))
<1>1. p \in Seq(S) /\ Len(p) = i - 1 /\ \A k \in 1..i-1 : p[k] = s[k]
  OBVIOUS
<1>2. q \in Seq(S) /\ Len(q) = Len(s) - i /\ \A k \in 1..Len(s)-i : q[k] = s[k + i]
  OBVIOUS
<1> HIDE DEF p, q
<1>3. p \o q \in Seq(S) /\ Len(p \o q) = Len(s) - 1
  <2>1. p \o q \in Seq(S) /\ Len(p \o q) = Len(p) + Len(q)
    BY <1>1, <1>2, Concat
  <2> QED
    BY <1>1, <1>2, <2>1
<1>4. \A k \in 1..Len(s) - 1 : (p \o q)[k] = s[IF k < i THEN k ELSE k + 1]
  <2> TAKE k \in 1..Len(s) - 1
  <2>1. CASE k < i
    BY <1>1, <1>2, <2>1
  <2>2. CASE ~(k < i)
    <3>1. (p \o q)[k] = q[k - (i - 1)] /\ k - (i - 1) \in 1..Len(s) - i
      BY <1>1, <1>2, <2>2
    <3>2. k - (i - 1) + i = k + 1
      OBVIOUS
    <3> QED
      BY <1>2, <2>2, <3>1, <3>2
  <2> QED
    BY <2>1, <2>2
<1> QED
  BY <1>3, <1>4 DEF RemoveAt, p, q

LEMMA Allowed ==
  ASSUME NEW g \in Nat, NEW m \in Nat, NEW k \in Nat, NEW u \in Nat, NEW v \in Nat,
         NEW f \in Nat, NEW h \in Nat, g + m - 1 + u <= f, m >= k, h >= f,
         v <= u + 1, v <= u \/ h > f \/ m > k
  PROVE  g + k - 1 + v <= h
OBVIOUS

LEMMA GapFacts ==
  ASSUME seq \in 0..SeqWrap-1, NEW s \in 0..SeqWrap-1
  PROVE  Gap(s) \in 0..SeqWrap-1 /\ (Gap(s) = 0 <=> s = seq)
BY NetbootAssumption DEF Gap

LEMMA FlightType ==
  ASSUME TypeOK
  PROVE  /\ Len(inbox) \in Nat /\ Len(toHost) \in Nat /\ Len(toTarget) \in Nat
         /\ Count \in Nat /\ \A k \in 1..Count : InFlight(k) \in 0..SeqWrap-1
<1>1. inbox \in Seq(Status) /\ toHost \in Seq(Status) /\ toTarget \in Seq(Request)
  BY DEF TypeOK
<1>2. Len(inbox) \in Nat /\ Len(toHost) \in Nat /\ Len(toTarget) \in Nat
  BY <1>1
<1>3. /\ \A k \in 1..Len(inbox) : inbox[k].seq \in 0..SeqWrap-1
      /\ \A k \in 1..Len(toHost) : toHost[k].seq \in 0..SeqWrap-1
      /\ \A k \in 1..Len(toTarget) : toTarget[k].seq \in 0..SeqWrap-1
  <2>1. /\ \A k \in 1..Len(inbox) : inbox[k] \in Status
        /\ \A k \in 1..Len(toHost) : toHost[k] \in Status
        /\ \A k \in 1..Len(toTarget) : toTarget[k] \in Request
    BY <1>1
  <2>2. /\ \A x \in Status : x.seq \in 0..SeqWrap-1
        /\ \A x \in Request : x.seq \in 0..SeqWrap-1
    BY DEF Status, Request
  <2> QED
    BY <2>1, <2>2
<1> QED
  BY <1>2, <1>3 DEF Count, InFlight

\* Packets are taken, lost or moved on, but none is sent: w of them are gone
\* from position d on.
LEMMA Cut ==
  ASSUME TypeOK, TypeOK', FlightInv, seq' = seq, NEW d \in Nat \ {0}, NEW w \in Nat,
         Count' = Count - w,
         \A k \in 1..Count' : InFlight(k)' = InFlight(IF k < d THEN k ELSE k + w),
         faults' >= faults,
         Due' <= Due \/ faults' > faults \/ (d = 1 /\ w > 0) \/ Count' = 0
  PROVE  FlightInv'
<1> DEFINE e(k) == IF k < d THEN k ELSE k + w
<1>1. /\ Count \in Nat /\ Count' \in Nat /\ faults \in Nat /\ faults' \in Nat
      /\ Due \in {0, 1} /\ Due' \in {0, 1} /\ seq \in 0..SeqWrap-1
  BY FlightType DEF TypeOK, Due, Count
<1>2. \A k \in 1..Count' : e(k) \in 1..Count /\ e(k) >= k
  BY <1>1
<1>3. \A s \in 0..SeqWrap-1 : Gap(s)' = Gap(s) /\ Gap(s) \in 0..SeqWrap-1
  BY <1>1, GapFacts DEF Gap
<1>4. \A k \in 1..Count' : /\ Gap(InFlight(k))' = Gap(InFlight(e(k)))
                           /\ Gap(InFlight(e(k))) \in Nat
  <2> TAKE k \in 1..Count'
  <2>1. e(k) \in 1..Count
    BY <1>2
  <2>2. InFlight(e(k)) \in 0..SeqWrap-1
    BY <2>1, FlightType
  <2>3. InFlight(k)' = InFlight(e(k))
    OBVIOUS
  <2>4. PICK x \in 0..SeqWrap-1 : x = InFlight(e(k))
    BY <2>2
  <2>5. Gap(InFlight(k))' = Gap(x)'
    BY <2>3, <2>4 DEF Gap
  <2>6. Gap(InFlight(e(k))) = Gap(x) /\ Gap(x)' = Gap(x) /\ Gap(x) \in 0..SeqWrap-1
    BY <1>3, <2>4
  <2> QED
    BY <2>5, <2>6, NetbootAssumption
<1>5. ASSUME NEW j \in 1..Count', NEW k \in 1..Count', j < k
      PROVE  Gap(InFlight(j))' > Gap(InFlight(k))'
  <2>1. e(j) < e(k) /\ e(j) \in 1..Count /\ e(k) \in 1..Count
    BY <1>1, <1>2, <1>5
  <2> QED
    BY <1>4, <2>1 DEF FlightInv
<1>6. ASSUME NEW k \in 1..Count'
      PROVE  Gap(InFlight(k))' + k - 1 + Due' <= faults'
  <2>1. Gap(InFlight(e(k))) + e(k) - 1 + Due <= faults
    BY <1>2 DEF FlightInv
  <2>2. PICK g \in Nat : g = Gap(InFlight(e(k)))
    BY <1>4
  <2>3. PICK m \in Nat : m = e(k) /\ m >= k /\ (d = 1 /\ w > 0 => m > k)
    BY <1>1, <1>2
  <2>4. g + m - 1 + Due <= faults
    BY <2>1, <2>2, <2>3
  <2>5. Due' <= Due \/ faults' > faults \/ m > k
    BY <1>1, <2>3
  <2>6. g + k - 1 + Due' <= faults'
    <3>1. k \in Nat /\ m \in Nat /\ g \in Nat /\ m >= k
      BY <2>3
    <3>2. PICK u \in Nat, v \in Nat, f \in Nat, h \in Nat :
             v <= u + 1 /\ u = Due /\ v = Due' /\ f = faults /\ h = faults'
      BY <1>1
    <3>3. g + m - 1 + u <= f /\ h >= f /\ (v <= u \/ h > f \/ m > k)
      BY <2>4, <2>5, <3>2
    <3>4. g + k - 1 + v <= h
      <4>1. v <= u + 1
        BY <3>2
      <4> QED
        BY <3>1, <3>3, <4>1, Allowed, Zenon
    <3> QED
      BY <3>2, <3>4
  <2> QED
    BY <1>4, <2>2, <2>6
<1> QED
  BY <1>5, <1>6 DEF FlightInv

\* A request is sent under the next number.
LEMMA Grow ==
  ASSUME TypeOK, TypeOK', FlightInv, seq' = Inc(seq), NEW n, n = Count + 1, Count' = n,
         \A k \in 1..Count : InFlight(k)' = InFlight(k), InFlight(n)' = seq',
         faults' >= faults, Due' = 0, Count = 0 \/ Due = 1 \/ faults' > faults
  PROVE  FlightInv'
<1>1. /\ Count \in Nat /\ faults \in Nat /\ faults' \in Nat /\ Due \in {0, 1}
      /\ seq \in 0..SeqWrap-1 /\ faults' <= MaxFaults
  <2>1. faults \in Nat /\ faults' \in Nat /\ faults' <= MaxFaults
    BY NetbootAssumption DEF TypeOK
  <2>2. Count \in Nat /\ Due \in {0, 1} /\ seq \in 0..SeqWrap-1
    BY FlightType DEF TypeOK, Due
  <2> QED
    BY <2>1, <2>2
<1>2. MaxFaults \in Nat /\ SeqWrap \in Nat /\ MaxFaults < SeqWrap
  BY NetbootAssumption
<1>3. seq' = (IF seq + 1 = SeqWrap THEN 0 ELSE seq + 1)
  BY <1>1, IncFacts
<1>4. \A k \in 1..Count :
        /\ Gap(InFlight(k)) \in Nat /\ Gap(InFlight(k)) + k - 1 + Due <= faults
        /\ Gap(InFlight(k))' = Gap(InFlight(k)) + 1
  <2> TAKE k \in 1..Count
  <2>1. PICK x \in 0..SeqWrap-1 : x = InFlight(k)
    BY FlightType
  <2>2. Gap(InFlight(k)) = Gap(x) /\ Gap(InFlight(k))' = Gap(x)'
    BY <2>1 DEF Gap
  <2>3. Gap(x) \in Nat
    BY <1>1, <1>2, GapFacts
  <2>4. Gap(x) + k - 1 + Due <= faults
    BY <2>2 DEF FlightInv
  <2>5. Gap(x) + 1 < SeqWrap
    BY <1>1, <1>2, <2>3, <2>4
  <2>6. Gap(x)' = Gap(x) + 1
    BY <1>1, <1>2, <1>3, <2>5 DEF Gap
  <2> QED
    BY <2>2, <2>3, <2>4, <2>6
<1>5. Gap(InFlight(n))' = 0
  <2>1. seq' \in Nat
    BY <1>1, <1>2, <1>3
  <2> QED
    BY <2>1 DEF Gap
<1>6. ASSUME NEW j \in 1..Count', NEW k \in 1..Count', j < k
      PROVE  Gap(InFlight(j))' > Gap(InFlight(k))'
  <2>1. j \in 1..Count
    BY <1>1, <1>6
  <2>2. CASE k \in 1..Count
    <3>1. Gap(InFlight(j)) > Gap(InFlight(k))
      BY <1>6, <2>1, <2>2 DEF FlightInv
    <3> QED
      BY <1>4, <2>1, <2>2, <3>1
  <2>3. CASE k = n
    <3>1. Gap(InFlight(k))' = 0
      BY <1>5, <2>3
    <3>2. Gap(InFlight(j))' \in Nat /\ Gap(InFlight(j))' > 0
      BY <1>4, <2>1
    <3> QED
      BY <3>1, <3>2
  <2> QED
    BY <1>1, <2>2, <2>3
<1>7. ASSUME NEW k \in 1..Count'
      PROVE  Gap(InFlight(k))' + k - 1 + Due' <= faults'
  <2>1. CASE k \in 1..Count
    BY <1>1, <1>4, <2>1
  <2>2. CASE k = n
    <3>0. Gap(InFlight(k))' = 0
      BY <1>5, <2>2
    <3>1. CASE Count = 0
      BY <1>1, <2>2, <3>0, <3>1
    <3>2. CASE Count # 0
      <4>1. Count \in 1..Count
        BY <1>1, <3>2
      <4>2. PICK g \in Nat : g + Count - 1 + Due <= faults
        BY <1>4, <4>1
      <4>3. Count <= faults'
        BY <1>1, <3>2, <4>2
      <4> QED
        BY <1>1, <2>2, <3>0, <4>3
    <3> QED
      BY <3>1, <3>2
  <2> QED
    BY <1>1, <2>1, <2>2
<1> QED
  BY <1>6, <1>7 DEF FlightInv

\* A number is used up and nothing is sent: the oldest w packets may be gone.
LEMMA Skip ==
  ASSUME TypeOK, TypeOK', FlightInv, seq' = Inc(seq), NEW w \in Nat, Count' = Count - w,
         \A k \in 1..Count' : InFlight(k)' = InFlight(k + w),
         faults' > faults, Due' = 0
  PROVE  FlightInv'
<1>1. /\ Count \in Nat /\ Count' \in Nat /\ faults \in Nat /\ faults' \in Nat
      /\ Due \in {0, 1} /\ seq \in 0..SeqWrap-1 /\ faults' <= MaxFaults
  <2>1. faults \in Nat /\ faults' \in Nat /\ faults' <= MaxFaults
    BY NetbootAssumption DEF TypeOK
  <2>2. Count \in Nat /\ Due \in {0, 1} /\ seq \in 0..SeqWrap-1
    BY FlightType DEF TypeOK, Due
  <2>3. Count' \in Nat
    <3>1. /\ inbox' \in Seq(Status) /\ toHost' \in Seq(Status)
          /\ toTarget' \in Seq(Request)
      BY DEF TypeOK
    <3>2. Len(inbox') \in Nat /\ Len(toHost') \in Nat /\ Len(toTarget') \in Nat
      BY <3>1
    <3> QED
      BY <3>2 DEF Count
  <2> QED
    BY <2>1, <2>2, <2>3
<1>2. MaxFaults \in Nat /\ SeqWrap \in Nat /\ MaxFaults < SeqWrap
  BY NetbootAssumption
<1>3. seq' = (IF seq + 1 = SeqWrap THEN 0 ELSE seq + 1)
  BY <1>1, IncFacts
<1>4. \A k \in 1..Count' : k + w \in 1..Count
  BY <1>1
<1>5. \A k \in 1..Count' :
        /\ Gap(InFlight(k + w)) \in Nat /\ Gap(InFlight(k + w)) + (k + w) - 1 + Due <= faults
        /\ Gap(InFlight(k))' = Gap(InFlight(k + w)) + 1
  <2> TAKE k \in 1..Count'
  <2>0. PICK m \in 1..Count : m = k + w /\ m >= k /\ m \in Nat
    BY <1>1, <1>4
  <2>1. PICK x \in 0..SeqWrap-1 : x = InFlight(m)
    BY FlightType
  <2>2. Gap(InFlight(m)) = Gap(x) /\ Gap(InFlight(k))' = Gap(x)'
    BY <2>0, <2>1 DEF Gap
  <2>3. Gap(x) \in Nat
    BY <1>1, <1>2, GapFacts
  <2>4. Gap(x) + m - 1 + Due <= faults
    BY <2>2 DEF FlightInv
  <2>5. Gap(x) + 1 < SeqWrap
    BY <1>1, <1>2, <2>3, <2>4
  <2>6. Gap(x)' = Gap(x) + 1
    BY <1>1, <1>2, <1>3, <2>5 DEF Gap
  <2> QED
    BY <2>0, <2>2, <2>3, <2>4, <2>6
<1>6. ASSUME NEW j \in 1..Count', NEW k \in 1..Count', j < k
      PROVE  Gap(InFlight(j))' > Gap(InFlight(k))'
  <2>1. j + w < k + w /\ j + w \in 1..Count /\ k + w \in 1..Count
    BY <1>1, <1>4, <1>6
  <2>2. Gap(InFlight(j + w)) > Gap(InFlight(k + w))
    BY <2>1 DEF FlightInv
  <2> QED
    BY <1>5, <2>2
<1>7. ASSUME NEW k \in 1..Count'
      PROVE  Gap(InFlight(k))' + k - 1 + Due' <= faults'
  <2>1. PICK g \in Nat : g = Gap(InFlight(k + w)) /\ Gap(InFlight(k))' = g + 1
    BY <1>5
  <2>2. g + (k + w) - 1 + Due <= faults
    BY <1>5, <2>1
  <2>3. g + 1 + k - 1 <= faults'
    BY <1>1, <2>2
  <2> QED
    BY <2>1, <2>3
<1> QED
  BY <1>6, <1>7 DEF FlightInv

\* The reply to the latest request is the only packet on its way.
LEMMA Latest ==
  ASSUME TypeOK, FlightInv, inbox # <<>>, Head(inbox).seq = seq
  PROVE  Len(inbox) = 1 /\ toHost = <<>> /\ toTarget = <<>> /\ Count = 1
<1>1. /\ Len(inbox) \in Nat /\ Len(toHost) \in Nat /\ Len(toTarget) \in Nat
      /\ Count \in Nat /\ seq \in 0..SeqWrap-1
  BY FlightType DEF TypeOK
<1>2. Len(inbox) >= 1 /\ Head(inbox) = inbox[1]
  BY DEF TypeOK
<1>3. InFlight(1) = seq /\ Count >= 1
  BY <1>1, <1>2 DEF InFlight, Count
<1>4. Gap(InFlight(1)) = 0
  BY <1>1, <1>3, GapFacts
<1>5. Count < 2
  <2> SUFFICES ASSUME Count >= 2 PROVE FALSE
    BY <1>1
  <2>1. 1 \in 1..Count /\ 2 \in 1..Count
    BY <1>1
  <2>2. Gap(InFlight(1)) > Gap(InFlight(2))
    BY <2>1 DEF FlightInv
  <2>3. Gap(InFlight(2)) \in Nat
    BY <1>1, <2>1, FlightType, GapFacts, NetbootAssumption
  <2> QED
    BY <1>4, <2>2, <2>3
<1>6. Len(inbox) = 1 /\ Len(toHost) = 0 /\ Len(toTarget) = 0 /\ Count = 1
  <2>1. Count = 1
    BY <1>1, <1>3, <1>5
  <2>2. Len(inbox) + Len(toHost) + Len(toTarget) = 1
    BY <2>1 DEF Count
  <2> QED
    BY <1>1, <1>2, <2>1, <2>2
<1> QED
  BY <1>6 DEF TypeOK

LEMMA TakeFacts ==
  ASSUME NEW S, NEW s \in Seq(S), s # <<>>
  PROVE  /\ Len(s) \in Nat \ {0} /\ Head(s) = s[1] /\ Head(s) \in S
         /\ Tail(s) \in Seq(S) /\ Len(Tail(s)) = Len(s) - 1
         /\ \A k \in 1..Len(s) - 1 : Tail(s)[k] = s[k + 1]
OBVIOUS

LEMMA PutFacts ==
  ASSUME NEW S, NEW s \in Seq(S), NEW e \in S
  PROVE  /\ Append(s, e) \in Seq(S) /\ Len(Append(s, e)) = Len(s) + 1
         /\ Append(s, e)[Len(s) + 1] = e
         /\ \A k \in 1..Len(s) : Append(s, e)[k] = s[k]
OBVIOUS

-----------------------------------------------------------------------------
(* Type correctness.                                                       *)

LEMMA TypeStep == ASSUME TypeOK, SessionInv, [Next]_vars PROVE TypeOK'
<1>1. /\ inbox \in Seq(Status) /\ toHost \in Seq(Status) /\ toTarget \in Seq(Request)
      /\ seq \in 0..SeqWrap-1 /\ retry \in 0..Retries-1 /\ blk \in 1..ExecBlk
      /\ sock \in Nat /\ faults \in 0..MaxFaults /\ mem \in [Addrs -> Datas \cup {Empty}]
  BY DEF TypeOK
<1>2. /\ Retries \in Nat \ {0} /\ MaxFaults \in Nat /\ Len(Blocks) \in Nat \ {0}
      /\ DOMAIN Blocks = 1..Len(Blocks)
  BY NetbootAssumption
<1>3. Inc(seq) \in 0..SeqWrap-1
  BY <1>1, IncFacts
<1>4. <<>> \in Seq(Status)
  OBVIOUS
<1>5. Fault => faults' \in 0..MaxFaults
  BY <1>1, <1>2 DEF Fault
<1>6. TimerFires => faults' \in 0..MaxFaults
  BY <1>1, <1>5 DEF TimerFires
<1>7. SendFails => /\ retry' = retry /\ blk' = blk /\ sock' \in Nat
                   /\ inbox' \in Seq(Status) /\ hpc' \in {"open", "exited"}
  BY <1>1, <1>4 DEF SendFails, CloseSocket
<1>8. ASSUME NEW r \in Seq(Status), TryAgain(r)
      PROVE  /\ seq' = seq /\ retry' \in 0..Retries-1 /\ blk' = blk /\ sock' \in Nat
             /\ inbox' \in Seq(Status) /\ hpc' \in {"send", "open", "exited"}
  <2>1. CASE retry + 1 < Retries
    BY <1>1, <1>2, <1>8, <2>1 DEF TryAgain
  <2>2. CASE ~(retry + 1 < Retries)
    BY <1>1, <1>7, <1>8, <2>2 DEF TryAgain
  <2> QED
    BY <2>1, <2>2
<1>9. toTarget # <<>> =>
        /\ Tail(toTarget) \in Seq(Request)
        /\ [seq |-> Head(toTarget).seq, sock |-> Head(toTarget).sock] \in Status
  <2> SUFFICES ASSUME toTarget # <<>>
               PROVE  /\ Tail(toTarget) \in Seq(Request)
                      /\ [seq |-> Head(toTarget).seq, sock |-> Head(toTarget).sock] \in Status
    OBVIOUS
  <2>1. Head(toTarget) \in Request /\ Tail(toTarget) \in Seq(Request)
    BY <1>1, TakeFacts
  <2> QED
    BY <2>1 DEF Request, Status
<1>10. toTarget # <<>> /\ Reply(Head(toTarget)) => toHost' \in Seq(Status)
  BY <1>1, <1>9, PutFacts DEF Reply
<1>11. CASE HostStep
  <2>1. CASE Query
    <3>1. [cmd |-> "QUERY", seq |-> Inc(seq), blk |-> 0, name |-> QueryName, sock |-> sock]
            \in Request
      BY <1>1, <1>2, <1>3 DEF Request, ExecBlk
    <3>2. toTarget' \in Seq(Request)
      BY <1>1, <2>1, <3>1, PutFacts DEF Query
    <3> QED
      BY <1>3, <1>6, <2>1, <3>2 DEF TypeOK, Query, target
  <2>2. CASE Located
    BY <1>1, <1>2, <1>4, <2>2 DEF TypeOK, Located, target, ExecBlk
  <2>3. CASE SkipReply
    <3>1. Tail(inbox) \in Seq(Status)
      BY <1>1, <2>3, TakeFacts DEF SkipReply
    <3> QED
      BY <2>3, <3>1 DEF TypeOK, SkipReply, target
  <2>4. CASE SendMsg
    <3> DEFINE m == [cmd |-> IF blk = ExecBlk THEN "EXEC" ELSE "WRITE", seq |-> Inc(seq),
                     blk |-> blk, name |-> "none", sock |-> sock]
    <3>1. m \in Request
      BY <1>1, <1>2, <1>3 DEF Request, ExecBlk
    <3>2. toTarget' \in Seq(Request)
      BY <1>1, <2>4, <3>1, PutFacts DEF SendMsg
    <3> QED
      BY <1>3, <2>4, <3>2 DEF TypeOK, SendMsg, target
  <2>5. CASE WaitTimeout
    BY <1>1, <1>6, <1>8, <2>5 DEF TypeOK, WaitTimeout, target
  <2>6. CASE StaleReply
    <3>1. Tail(inbox) \in Seq(Status)
      BY <1>1, <2>6, TakeFacts DEF StaleReply
    <3> QED
      BY <1>1, <1>8, <2>6, <3>1 DEF TypeOK, StaleReply, target
  <2>7. CASE WriteAcked
    <3>1. Tail(inbox) \in Seq(Status)
      BY <1>1, <2>7, TakeFacts DEF WriteAcked
    <3>2. blk' \in 1..ExecBlk /\ retry' \in 0..Retries-1
      BY <1>1, <1>2, <2>7 DEF WriteAcked, ExecBlk
    <3> QED
      BY <1>1, <1>3, <2>7, <3>1, <3>2 DEF TypeOK, WriteAcked, target
  <2>8. CASE ExecAcked
    BY <1>1, <1>4, <2>8 DEF TypeOK, ExecAcked, CloseSocket, target
  <2> QED
    BY <1>11, <2>1, <2>2, <2>3, <2>4, <2>5, <2>6, <2>7, <2>8 DEF HostStep
<1>12. CASE TargetStep
  <2>1. CASE RxQuery
    BY <1>9, <1>10, <2>1 DEF TypeOK, RxQuery, Take, host, target
  <2>2. CASE RxWrite
    <3>1. toTarget # <<>> /\ Head(toTarget).cmd = "WRITE"
      BY <2>2 DEF RxWrite, Take
    <3>2. Head(toTarget).blk \in DOMAIN Blocks
      BY <1>1, <1>2, <3>1, TakeFacts DEF SessionInv
    <3>3. mem' \in [Addrs -> Datas \cup {Empty}]
      BY <1>1, <2>2, <3>2 DEF RxWrite, Datas
    <3> QED
      BY <1>9, <1>10, <2>2, <3>1, <3>3 DEF TypeOK, RxWrite, Take, host
  <2>3. CASE RxExec
    BY <1>9, <1>10, <2>3 DEF TypeOK, RxExec, Take, host
  <2>4. CASE Ignore
    BY <1>9, <2>4 DEF TypeOK, Ignore, host, target
  <2> QED
    BY <1>12, <2>1, <2>2, <2>3, <2>4 DEF TargetStep
<1>13. CASE Deliver
  <2>1. Head(toHost) \in Status /\ Tail(toHost) \in Seq(Status)
    BY <1>1, <1>13, TakeFacts DEF Deliver
  <2>2. inbox' \in Seq(Status)
    BY <1>1, <1>13, <2>1, PutFacts DEF Deliver
  <2> QED
    BY <1>13, <2>1, <2>2 DEF TypeOK, Deliver, target
<1>14. CASE Faults
  <2>1. CASE QueryError
    BY <1>3, <1>5, <2>1 DEF TypeOK, QueryError, target
  <2>2. CASE WriteError
    BY <1>1, <1>3, <1>5, <1>7, <2>2 DEF TypeOK, WriteError, target
  <2>6. CASE ReadError
    BY <1>1, <1>4, <1>5, <2>6 DEF TypeOK, ReadError, CloseSocket, target
  <2>7. CASE LocateError
    <3>1. inbox' \in Seq(Status)
      BY <1>1, <2>7, TakeFacts DEF LocateError
    <3> QED
      BY <1>5, <2>7, <3>1 DEF TypeOK, LocateError, target
  <2>3. CASE Reset
    BY <1>5, <2>3 DEF TypeOK, Reset, host
  <2>4. CASE LoseRequest
    <3>1. PICK i \in DOMAIN toTarget : toTarget' = RemoveAt(toTarget, i)
      BY <2>4 DEF LoseRequest
    <3>2. i \in 1..Len(toTarget)
      BY <1>1
    <3>3. toTarget' \in Seq(Request)
      BY <1>1, <3>1, <3>2, RemoveFacts
    <3> QED
      BY <1>5, <2>4, <3>3 DEF TypeOK, LoseRequest, host, target
  <2>5. CASE LoseReply
    <3>1. PICK i \in DOMAIN toHost : toHost' = RemoveAt(toHost, i)
      BY <2>5 DEF LoseReply
    <3>2. i \in 1..Len(toHost)
      BY <1>1
    <3>3. toHost' \in Seq(Status)
      BY <1>1, <3>1, <3>2, RemoveFacts
    <3> QED
      BY <1>5, <2>5, <3>3 DEF TypeOK, LoseReply, host, target
  <2> QED
    BY <1>14, <2>1, <2>2, <2>3, <2>4, <2>5, <2>6, <2>7 DEF Faults
<1>15. CASE UNCHANGED vars
  BY <1>15 DEF TypeOK, vars, host, target
<1> QED
  BY <1>11, <1>12, <1>13, <1>14, <1>15 DEF Next, HostStopped

-----------------------------------------------------------------------------
(* The order and the age of the packets.                                   *)

LEMMA Unmoved ==
  ASSUME TypeOK, TypeOK', FlightInv, seq' = seq, faults' >= faults,
         UNCHANGED <<inbox, toHost, toTarget>>,
         Due' <= Due \/ faults' > faults \/ Count = 0
  PROVE  FlightInv'
<1>1. Count \in Nat /\ Count' = Count /\ Count' = Count - 0
  BY FlightType DEF Count
<1>2. \A k \in 1..Count' : InFlight(k)' = InFlight(k)
  BY DEF InFlight
<1>3. \A k \in 1..Count' : InFlight(k)' = InFlight(IF k < 1 THEN k ELSE k + 0)
  <2> TAKE k \in 1..Count'
  <2>1. (IF k < 1 THEN k ELSE k + 0) = k
    BY <1>1
  <2> QED
    BY <1>2, <2>1
<1>4. 1 \in Nat \ {0} /\ 0 \in Nat
  OBVIOUS
<1> QED
  BY <1>1, <1>3, <1>4, Cut

LEMMA InboxMove ==
  ASSUME TypeOK, TypeOK', UNCHANGED <<toHost, toTarget>>, NEW w \in Nat, w <= Len(inbox),
         Len(inbox') = Len(inbox) - w,
         \A k \in 1..Len(inbox') : inbox'[k] = inbox[k + w]
  PROVE  Count' = Count - w /\ \A k \in 1..Count' : InFlight(k)' = InFlight(k + w)
<1>1. /\ Len(inbox) \in Nat /\ Len(toHost) \in Nat /\ Len(toTarget) \in Nat
      /\ Len(inbox') \in Nat /\ Count \in Nat
  <2>1. Len(inbox) \in Nat /\ Len(toHost) \in Nat /\ Len(toTarget) \in Nat /\ Count \in Nat
    BY FlightType
  <2>2. inbox' \in Seq(Status)
    BY DEF TypeOK
  <2> QED
    BY <2>1, <2>2
<1>2. Count' = Count - w
  BY <1>1 DEF Count
<1>3. ASSUME NEW k \in 1..Count' PROVE InFlight(k)' = InFlight(k + w)
  <2>1. k \in Nat \ {0}
    BY <1>1, <1>2
  <2>2. CASE k <= Len(inbox')
    BY <1>1, <2>1, <2>2 DEF InFlight
  <2>3. CASE ~(k <= Len(inbox'))
    <3>1. k - Len(inbox') = k + w - Len(inbox)
      BY <1>1, <2>1
    <3>2. ~(k + w <= Len(inbox))
      BY <1>1, <2>1, <2>3
    <3>3. (k <= Len(inbox') + Len(toHost)) <=> (k + w <= Len(inbox) + Len(toHost))
      BY <1>1, <2>1
    <3> QED
      BY <2>3, <3>1, <3>2, <3>3 DEF InFlight
  <2> QED
    BY <2>2, <2>3
<1> QED
  BY <1>2, <1>3

LEMMA InboxCut ==
  ASSUME TypeOK, TypeOK', FlightInv, seq' = seq, faults' >= faults,
         UNCHANGED <<toHost, toTarget>>, NEW w \in Nat, w <= Len(inbox),
         Len(inbox') = Len(inbox) - w,
         \A k \in 1..Len(inbox') : inbox'[k] = inbox[k + w],
         Due' <= Due \/ w > 0
  PROVE  FlightInv'
<1>1. Count' = Count - w /\ \A k \in 1..Count' : InFlight(k)' = InFlight(k + w)
  BY InboxMove
<1>2. PICK d \in Nat \ {0} : d = 1
  OBVIOUS
<1>3. ASSUME NEW k \in 1..Count' PROVE InFlight(k)' = InFlight(IF k < d THEN k ELSE k + w)
  <2>1. (IF k < d THEN k ELSE k + w) = k + w
    BY <1>2
  <2> QED
    BY <1>1, <2>1
<1>4. Due' <= Due \/ (d = 1 /\ w > 0)
  BY <1>2
<1> QED
  BY <1>1, <1>3, <1>4, Cut

\* The socket is closed, or nothing is read, after a number was used up.
LEMMA InboxSkip ==
  ASSUME TypeOK, TypeOK', FlightInv, seq' = Inc(seq), faults' > faults,
         UNCHANGED <<toHost, toTarget>>, inbox' = inbox \/ inbox' = <<>>, Due' = 0
  PROVE  FlightInv'
<1>1. Len(inbox) \in Nat /\ Len(<<>>) = 0
  BY FlightType
<1>2. PICK w \in Nat : /\ w <= Len(inbox) /\ Len(inbox') = Len(inbox) - w
                       /\ \A k \in 1..Len(inbox') : inbox'[k] = inbox[k + w]
  <2>1. CASE inbox' = inbox
    <3>1. PICK w \in Nat : w = 0
      OBVIOUS
    <3>2. w <= Len(inbox) /\ Len(inbox') = Len(inbox) - w
      BY <1>1, <2>1, <3>1
    <3>3. \A k \in 1..Len(inbox') : inbox'[k] = inbox[k + w]
      BY <1>1, <2>1, <3>1
    <3> QED
      BY <3>2, <3>3
  <2>2. CASE inbox' = <<>>
    BY <1>1, <2>2
  <2> QED
    BY <2>1, <2>2
<1>3. Count' = Count - w /\ \A k \in 1..Count' : InFlight(k)' = InFlight(k + w)
  BY <1>2, InboxMove
<1> QED
  BY <1>3, Skip

LEMMA ReplyCut ==
  ASSUME TypeOK, TypeOK', FlightInv, seq' = seq, faults' >= faults, Due' <= Due,
         UNCHANGED <<inbox, toTarget>>, NEW i \in 1..Len(toHost),
         Len(toHost') = Len(toHost) - 1,
         \A k \in 1..Len(toHost) - 1 : toHost'[k] = toHost[IF k < i THEN k ELSE k + 1]
  PROVE  FlightInv'
<1>1. /\ Len(inbox) \in Nat /\ Len(toHost) \in Nat /\ Len(toTarget) \in Nat
      /\ Len(toHost') \in Nat /\ Count \in Nat
  BY FlightType DEF TypeOK
<1>2. Count' = Count - 1
  BY <1>1 DEF Count
<1>3. PICK d \in Nat \ {0} : d = Len(inbox) + i
  BY <1>1
<1>4. ASSUME NEW k \in 1..Count' PROVE InFlight(k)' = InFlight(IF k < d THEN k ELSE k + 1)
  <2>1. CASE k < d
    <3>1. k <= Len(inbox) + Len(toHost) - 1 /\ k <= Len(inbox) + Len(toHost)
      BY <1>1, <1>2, <1>3, <2>1
    <3>2. ~(k <= Len(inbox)) => k - Len(inbox) \in 1..Len(toHost) - 1 /\ k - Len(inbox) < i
      BY <1>1, <1>2, <1>3, <2>1, <3>1
    <3> QED
      BY <1>1, <2>1, <3>1, <3>2 DEF InFlight
  <2>2. CASE ~(k < d) /\ k <= Len(inbox) + Len(toHost')
    <3>1. /\ ~(k <= Len(inbox)) /\ ~(k + 1 <= Len(inbox))
          /\ k + 1 <= Len(inbox) + Len(toHost) /\ k \in Nat
      BY <1>1, <1>2, <1>3, <2>2
    <3>2. k - Len(inbox) \in 1..Len(toHost) - 1 /\ ~(k - Len(inbox) < i)
      BY <1>1, <1>2, <1>3, <2>2, <3>1
    <3>3. (k - Len(inbox)) + 1 = k + 1 - Len(inbox)
      BY <1>1, <3>1
    <3>4. toHost'[k - Len(inbox)] = toHost[k + 1 - Len(inbox)]
      BY <3>2, <3>3
    <3>5. InFlight(k)' = toHost'[k - Len(inbox)].seq
      BY <2>2, <3>1 DEF InFlight
    <3>6. InFlight(k + 1) = toHost[k + 1 - Len(inbox)].seq
      BY <3>1 DEF InFlight
    <3> QED
      BY <2>2, <3>4, <3>5, <3>6
  <2>3. CASE ~(k < d) /\ ~(k <= Len(inbox) + Len(toHost'))
    <3>1. /\ ~(k <= Len(inbox)) /\ ~(k + 1 <= Len(inbox))
          /\ ~(k + 1 <= Len(inbox) + Len(toHost)) /\ k \in Nat
      BY <1>1, <1>2, <1>3, <2>3
    <3>2. k - Len(inbox) - Len(toHost') = k + 1 - Len(inbox) - Len(toHost)
      BY <1>1, <3>1
    <3> QED
      BY <2>3, <3>1, <3>2 DEF InFlight
  <2> QED
    BY <2>1, <2>2, <2>3
<1>5. 1 \in Nat
  OBVIOUS
<1> QED
  BY <1>2, <1>4, <1>5, Cut

LEMMA RequestCut ==
  ASSUME TypeOK, TypeOK', FlightInv, seq' = seq, faults' >= faults, Due' <= Due,
         UNCHANGED <<inbox, toHost>>, NEW i \in 1..Len(toTarget),
         Len(toTarget') = Len(toTarget) - 1,
         \A k \in 1..Len(toTarget) - 1 : toTarget'[k] = toTarget[IF k < i THEN k ELSE k + 1]
  PROVE  FlightInv'
<1>1. /\ Len(inbox) \in Nat /\ Len(toHost) \in Nat /\ Len(toTarget) \in Nat
      /\ Len(toTarget') \in Nat /\ Count \in Nat
  BY FlightType DEF TypeOK
<1>2. Count' = Count - 1
  BY <1>1 DEF Count
<1>3. PICK d \in Nat \ {0} : d = Len(inbox) + Len(toHost) + i
  BY <1>1
<1>4. ASSUME NEW k \in 1..Count' PROVE InFlight(k)' = InFlight(IF k < d THEN k ELSE k + 1)
  <2>1. CASE k <= Len(inbox) + Len(toHost)
    <3>1. k < d
      BY <1>1, <1>3, <2>1
    <3> QED
      BY <1>1, <2>1, <3>1 DEF InFlight
  <2>2. CASE ~(k <= Len(inbox) + Len(toHost))
    <3>1. /\ ~(k <= Len(inbox)) /\ ~(k + 1 <= Len(inbox))
          /\ ~(k + 1 <= Len(inbox) + Len(toHost)) /\ k \in Nat
      BY <1>1, <1>2, <2>2
    <3>2. k - Len(inbox) - Len(toHost) \in 1..Len(toTarget) - 1
      <4>1. k <= Len(inbox) + Len(toHost) + Len(toTarget) - 1
        BY <1>1, <1>2 DEF Count
      <4> QED
        BY <1>1, <2>2, <3>1, <4>1
    <3>3. k - Len(inbox) - Len(toHost) < i <=> k < d
      BY <1>1, <1>3, <3>1
    <3>4. (k - Len(inbox) - Len(toHost)) + 1 = k + 1 - Len(inbox) - Len(toHost)
      BY <1>1, <3>1
    <3>5. InFlight(k)' = toTarget'[k - Len(inbox) - Len(toHost)].seq
      BY <2>2, <3>1 DEF InFlight
    <3>6. CASE k < d
      BY <2>2, <3>1, <3>2, <3>3, <3>5, <3>6 DEF InFlight
    <3>7. CASE ~(k < d)
      BY <2>2, <3>1, <3>2, <3>3, <3>4, <3>5, <3>7 DEF InFlight
    <3> QED
      BY <3>6, <3>7
  <2> QED
    BY <2>1, <2>2
<1>5. 1 \in Nat
  OBVIOUS
<1> QED
  BY <1>2, <1>4, <1>5, Cut

\* The target answers a request, or the reply reaches the socket.
LEMMA Answered ==
  ASSUME TypeOK, TypeOK', FlightInv, UNCHANGED <<hpc, seq, faults, inbox>>,
         toTarget # <<>>, toTarget' = Tail(toTarget), Reply(Head(toTarget))
  PROVE  FlightInv'
<1>1. /\ Len(inbox) \in Nat /\ Len(toHost) \in Nat /\ Len(toTarget) \in Nat
      /\ Count \in Nat /\ inbox' = inbox
      /\ toHost \in Seq(Status) /\ toTarget \in Seq(Request)
  BY FlightType DEF TypeOK
<1> DEFINE e == [seq |-> Head(toTarget).seq, sock |-> Head(toTarget).sock]
<1>2. /\ Len(toTarget) \in Nat \ {0} /\ Head(toTarget) = toTarget[1]
      /\ Len(toTarget') = Len(toTarget) - 1 /\ Head(toTarget) \in Request
      /\ \A k \in 1..Len(toTarget) - 1 : toTarget'[k] = toTarget[k + 1]
  BY <1>1, TakeFacts
<1>3. e \in Status
  BY <1>2 DEF Request, Status
<1>4. /\ Len(toHost') = Len(toHost) + 1 /\ toHost'[Len(toHost) + 1].seq = toTarget[1].seq
      /\ \A k \in 1..Len(toHost) : toHost'[k] = toHost[k]
  BY <1>1, <1>2, <1>3, PutFacts DEF Reply
<1>5. Count' = Count - 0 /\ Count' = Count
  BY <1>1, <1>2, <1>4 DEF Count
<1>6. PICK d \in Nat \ {0}, w \in Nat : d = 1 /\ w = 0
  OBVIOUS
<1>7. ASSUME NEW k \in 1..Count' PROVE InFlight(k)' = InFlight(IF k < d THEN k ELSE k + w)
  <2>0. k \in Nat \ {0} /\ (IF k < d THEN k ELSE k + w) = k
    BY <1>1, <1>5, <1>6
  <2>1. CASE k <= Len(inbox)
    BY <1>1, <2>0, <2>1 DEF InFlight
  <2>2. CASE ~(k <= Len(inbox)) /\ k <= Len(inbox) + Len(toHost)
    <3>1. k - Len(inbox) \in 1..Len(toHost) /\ k <= Len(inbox) + Len(toHost')
      BY <1>1, <1>4, <2>0, <2>2
    <3> QED
      BY <1>1, <1>4, <2>0, <2>2, <3>1 DEF InFlight
  <2>3. CASE k = Len(inbox) + Len(toHost) + 1
    <3>1. /\ ~(k <= Len(inbox)) /\ ~(k <= Len(inbox) + Len(toHost))
          /\ k <= Len(inbox) + Len(toHost') /\ k - Len(inbox) = Len(toHost) + 1
          /\ k - Len(inbox) - Len(toHost) = 1
      BY <1>1, <1>4, <2>3
    <3>2. InFlight(k)' = toHost'[k - Len(inbox)].seq
      BY <1>1, <3>1 DEF InFlight
    <3>3. InFlight(k) = toTarget[k - Len(inbox) - Len(toHost)].seq
      BY <3>1 DEF InFlight
    <3> QED
      BY <1>4, <2>0, <3>1, <3>2, <3>3
  <2>4. CASE ~(k <= Len(inbox) + Len(toHost) + 1)
    <3>1. /\ ~(k <= Len(inbox)) /\ ~(k <= Len(inbox) + Len(toHost))
          /\ ~(k <= Len(inbox) + Len(toHost'))
          /\ k - Len(inbox) - Len(toHost) = (k - Len(inbox) - Len(toHost')) + 1
      BY <1>1, <1>4, <2>0, <2>4
    <3>2. k <= Len(inbox) + Len(toHost) + Len(toTarget)
      BY <1>5 DEF Count
    <3>3. k - Len(inbox) - Len(toHost') \in 1..Len(toTarget) - 1
      BY <1>1, <1>2, <1>4, <2>0, <2>4, <3>2
    <3>4. InFlight(k)' = toTarget'[k - Len(inbox) - Len(toHost')].seq
      BY <1>1, <3>1 DEF InFlight
    <3>5. InFlight(k) = toTarget[k - Len(inbox) - Len(toHost)].seq
      BY <3>1 DEF InFlight
    <3> QED
      BY <1>2, <2>0, <3>1, <3>3, <3>4, <3>5
  <2> QED
    BY <1>1, <2>0, <2>1, <2>2, <2>3, <2>4
<1>8. faults' >= faults /\ Due' <= Due /\ Count' = Count - w
  BY <1>5, <1>6 DEF TypeOK, Due
<1> QED
  BY <1>7, <1>8, Cut

LEMMA Delivered ==
  ASSUME TypeOK, TypeOK', FlightInv, UNCHANGED <<hpc, seq, faults, toTarget>>,
         toHost # <<>>, toHost' = Tail(toHost), inbox' = Append(inbox, Head(toHost))
  PROVE  FlightInv'
<1>1. /\ Len(inbox) \in Nat /\ Len(toHost) \in Nat /\ Len(toTarget) \in Nat
      /\ Count \in Nat /\ toTarget' = toTarget
      /\ toHost \in Seq(Status) /\ inbox \in Seq(Status)
  BY FlightType DEF TypeOK
<1>2. /\ Len(toHost) \in Nat \ {0} /\ Head(toHost) = toHost[1] /\ Head(toHost) \in Status
      /\ Len(toHost') = Len(toHost) - 1
      /\ \A k \in 1..Len(toHost) - 1 : toHost'[k] = toHost[k + 1]
  BY <1>1, TakeFacts
<1>3. /\ Len(inbox') = Len(inbox) + 1 /\ inbox'[Len(inbox) + 1] = toHost[1]
      /\ \A k \in 1..Len(inbox) : inbox'[k] = inbox[k]
  BY <1>1, <1>2, PutFacts
<1>4. Len(inbox') + Len(toHost') = Len(inbox) + Len(toHost) /\ Count' = Count
  BY <1>1, <1>2, <1>3 DEF Count
<1>5. PICK d \in Nat \ {0}, w \in Nat : d = 1 /\ w = 0
  OBVIOUS
<1>6. ASSUME NEW k \in 1..Count' PROVE InFlight(k)' = InFlight(IF k < d THEN k ELSE k + w)
  <2>0. k \in Nat \ {0} /\ (IF k < d THEN k ELSE k + w) = k
    BY <1>1, <1>4, <1>5
  <2>1. CASE k <= Len(inbox)
    <3>1. k <= Len(inbox') /\ inbox'[k] = inbox[k]
      BY <1>1, <1>3, <2>0, <2>1
    <3> QED
      BY <2>0, <2>1, <3>1 DEF InFlight
  <2>2. CASE k = Len(inbox) + 1
    <3>1. /\ k <= Len(inbox') /\ ~(k <= Len(inbox)) /\ k <= Len(inbox) + Len(toHost)
          /\ k - Len(inbox) = 1
      BY <1>1, <1>2, <1>3, <2>2
    <3> QED
      BY <1>3, <2>0, <2>2, <3>1 DEF InFlight
  <2>3. CASE ~(k <= Len(inbox) + 1) /\ k <= Len(inbox) + Len(toHost)
    <3>1. /\ ~(k <= Len(inbox')) /\ ~(k <= Len(inbox)) /\ k <= Len(inbox') + Len(toHost')
          /\ k - Len(inbox) = (k - Len(inbox')) + 1
          /\ k - Len(inbox') \in 1..Len(toHost) - 1
      BY <1>1, <1>2, <1>3, <2>0, <2>3
    <3>2. InFlight(k)' = toHost'[k - Len(inbox')].seq
      BY <3>1 DEF InFlight
    <3>3. InFlight(k) = toHost[k - Len(inbox)].seq
      BY <2>3, <3>1 DEF InFlight
    <3> QED
      BY <1>2, <2>0, <3>1, <3>2, <3>3
  <2>4. CASE ~(k <= Len(inbox) + Len(toHost))
    <3>1. /\ ~(k <= Len(inbox')) /\ ~(k <= Len(inbox)) /\ ~(k <= Len(inbox') + Len(toHost'))
          /\ k - Len(inbox') - Len(toHost') = k - Len(inbox) - Len(toHost)
      BY <1>1, <1>2, <1>3, <2>0, <2>4
    <3> QED
      BY <1>1, <2>0, <2>4, <3>1 DEF InFlight
  <2> QED
    BY <1>1, <2>0, <2>1, <2>2, <2>3, <2>4
<1>7. faults' >= faults /\ Due' <= Due /\ Count' = Count - w
  BY <1>1, <1>4, <1>5 DEF TypeOK, Due
<1> QED
  BY <1>6, <1>7, Cut

LEMMA Sent ==
  ASSUME TypeOK, TypeOK', FlightInv, seq' = Inc(seq), UNCHANGED <<inbox, toHost>>,
         NEW m \in Request, m.seq = Inc(seq), toTarget' = Append(toTarget, m),
         faults' >= faults, Due' = 0, Count = 0 \/ Due = 1 \/ faults' > faults
  PROVE  FlightInv'
<1>1. /\ Len(inbox) \in Nat /\ Len(toHost) \in Nat /\ Len(toTarget) \in Nat
      /\ Count \in Nat /\ toTarget \in Seq(Request) /\ inbox' = inbox /\ toHost' = toHost
  BY FlightType DEF TypeOK
<1>2. /\ Len(toTarget') = Len(toTarget) + 1 /\ toTarget'[Len(toTarget) + 1] = m
      /\ \A k \in 1..Len(toTarget) : toTarget'[k] = toTarget[k]
  BY <1>1, PutFacts
<1>3. PICK n : n = Count + 1
  OBVIOUS
<1>4. Count' = n
  BY <1>1, <1>2, <1>3 DEF Count
<1>5. ASSUME NEW k \in 1..Count PROVE InFlight(k)' = InFlight(k)
  <2>1. CASE k <= Len(inbox) + Len(toHost)
    BY <1>1, <2>1 DEF InFlight
  <2>2. CASE ~(k <= Len(inbox) + Len(toHost))
    <3>1. ~(k <= Len(inbox)) /\ k \in Nat
      BY <1>1, <2>2
    <3>2. k - Len(inbox) - Len(toHost) \in 1..Len(toTarget)
      <4>1. k <= Len(inbox) + Len(toHost) + Len(toTarget)
        BY DEF Count
      <4> QED
        BY <1>1, <2>2, <3>1, <4>1
    <3> QED
      BY <1>1, <1>2, <2>2, <3>1, <3>2 DEF InFlight
  <2> QED
    BY <2>1, <2>2
<1>6. InFlight(n)' = seq'
  <2>1. /\ ~(n <= Len(inbox)) /\ ~(n <= Len(inbox) + Len(toHost))
        /\ n - Len(inbox) - Len(toHost) = Len(toTarget) + 1
    <3>1. n = Len(inbox) + Len(toHost) + Len(toTarget) + 1
      BY <1>3 DEF Count
    <3> QED
      BY <1>1, <3>1
  <2>2. InFlight(n)' = toTarget'[n - Len(inbox) - Len(toHost)].seq
    BY <1>1, <2>1 DEF InFlight
  <2> QED
    BY <1>2, <2>1, <2>2
<1> QED
  BY <1>3, <1>4, <1>5, <1>6, Grow

LEMMA Quiet == ASSUME Count' = 0 PROVE FlightInv'
<1>1. 1..Count' = {}
  OBVIOUS
<1> QED
  BY <1>1 DEF FlightInv

LEMMA FlightStep == ASSUME TypeOK, TypeOK', FlightInv, [Next]_vars PROVE FlightInv'
<1>1. /\ inbox \in Seq(Status) /\ toHost \in Seq(Status) /\ toTarget \in Seq(Request)
      /\ faults \in Nat /\ seq \in 0..SeqWrap-1 /\ sock \in Nat /\ blk \in 1..ExecBlk
  BY DEF TypeOK
<1>2. /\ Len(inbox) \in Nat /\ Len(toHost) \in Nat /\ Len(toTarget) \in Nat
  BY FlightType
<1>3. Fault => faults' > faults /\ faults' >= faults
  BY <1>1 DEF Fault
<1>4. (inbox = <<>> => Len(inbox) = 0) /\ Len(<<>>) = 0
  OBVIOUS
<1>5. ~Late => Count = 0
  BY <1>4 DEF Late, Count
<1>6. TimerFires => faults' >= faults /\ (faults' > faults \/ Count = 0)
  BY <1>1, <1>3, <1>5 DEF TimerFires
<1>7. Len(Blocks) \in Nat \ {0}
  BY NetbootAssumption
<1>8. inbox # <<>> => /\ Len(inbox) \in Nat \ {0} /\ Len(Tail(inbox)) = Len(inbox) - 1
                      /\ \A k \in 1..Len(inbox) - 1 : Tail(inbox)[k] = inbox[k + 1]
  BY <1>1, TakeFacts
\* The socket is closed.
<1>9. ASSUME inbox' = <<>>, UNCHANGED <<seq, toHost, toTarget>>, faults' >= faults,
             hpc' # "send"
      PROVE  FlightInv'
  <2>1. PICK w \in Nat : w = Len(inbox)
    BY <1>2
  <2>2. Len(inbox') = Len(inbox) - w /\ w <= Len(inbox)
    BY <1>2, <1>4, <1>9, <2>1
  <2>3. \A k \in 1..Len(inbox') : inbox'[k] = inbox[k + w]
    BY <1>4, <1>9
  <2>4. Due' <= Due
    BY <1>9 DEF Due
  <2> QED
    BY <1>9, <2>2, <2>3, <2>4, InboxCut
\* A reply is consumed.
<1>10. ASSUME inbox # <<>>, inbox' = Tail(inbox), UNCHANGED <<seq, toHost, toTarget>>,
              faults' >= faults
       PROVE  FlightInv'
  <2>1. PICK w \in Nat : w = 1
    OBVIOUS
  <2>2. Len(inbox') = Len(inbox) - w /\ w <= Len(inbox) /\ w > 0
    BY <1>8, <1>10, <2>1
  <2>3. \A k \in 1..Len(inbox') : inbox'[k] = inbox[k + w]
    BY <1>8, <1>10, <2>1
  <2> QED
    BY <1>10, <2>2, <2>3, InboxCut
\* A request is dropped.
<1>11. ASSUME toTarget # <<>>, toTarget' = Tail(toTarget),
              UNCHANGED <<hpc, seq, inbox, toHost, faults>>
       PROVE  FlightInv'
  <2>1. PICK i \in 1..Len(toTarget) : i = 1
    BY <1>1, <1>11, TakeFacts
  <2>2. /\ Len(toTarget') = Len(toTarget) - 1
        /\ \A k \in 1..Len(toTarget) - 1 : toTarget'[k] = toTarget[k + 1]
    BY <1>1, <1>11, TakeFacts
  <2>3. \A k \in 1..Len(toTarget) - 1 : toTarget'[k] = toTarget[IF k < i THEN k ELSE k + 1]
    BY <1>2, <2>1, <2>2
  <2>4. faults' >= faults /\ Due' <= Due
    BY <1>1, <1>11 DEF Due
  <2> QED
    BY <1>11, <2>2, <2>3, <2>4, RequestCut
<1>12. CASE HostStep
  <2>1. CASE Query
    <3> DEFINE m == [cmd |-> "QUERY", seq |-> Inc(seq), blk |-> 0, name |-> QueryName,
                     sock |-> sock]
    <3>1. m \in Request /\ m.seq = Inc(seq)
      BY <1>1, <1>7, IncFacts DEF Request, ExecBlk
    <3>2. toTarget' = Append(toTarget, m)
      BY <2>1 DEF Query
    <3> HIDE DEF m
    <3>3. Due' = 0 /\ seq' = Inc(seq) /\ UNCHANGED <<inbox, toHost>> /\ TimerFires
      BY <2>1 DEF Query, Due
    <3> QED
      BY <1>6, <3>1, <3>2, <3>3, Sent
  <2>2. CASE Located
    <3>1. inbox' = <<>> /\ toHost' = <<>> /\ toTarget' = <<>>
      BY <2>2, Latest DEF Located
    <3> QED
      BY <1>4, <3>1, Quiet DEF Count
  <2>3. CASE SkipReply
    <3>1. faults' >= faults
      BY <1>1, <2>3 DEF SkipReply
    <3> QED
      BY <1>10, <2>3, <3>1 DEF SkipReply
  <2>4. CASE SendMsg
    <3> DEFINE m == [cmd |-> IF blk = ExecBlk THEN "EXEC" ELSE "WRITE", seq |-> Inc(seq),
                     blk |-> blk, name |-> "none", sock |-> sock]
    <3>1. m \in Request /\ m.seq = Inc(seq)
      BY <1>1, <1>7, IncFacts DEF Request, ExecBlk
    <3>2. toTarget' = Append(toTarget, m)
      BY <2>4 DEF SendMsg
    <3> HIDE DEF m
    <3>3. /\ Due' = 0 /\ Due = 1 /\ seq' = Inc(seq) /\ UNCHANGED <<inbox, toHost>>
          /\ faults' >= faults
      BY <1>1, <2>4 DEF SendMsg, Due
    <3> QED
      BY <3>1, <3>2, <3>3, Sent
  <2>5. CASE WaitTimeout
    <3>1. /\ UNCHANGED <<toHost, toTarget>> /\ inbox = <<>>
          /\ faults' >= faults /\ (faults' > faults \/ Count = 0) /\ TryAgain(inbox)
      BY <1>6, <2>5 DEF WaitTimeout
    <3>2. inbox' = inbox /\ seq' = seq
      BY <3>1 DEF TryAgain, SendFails, CloseSocket
    <3> QED
      BY <3>1, <3>2, Unmoved
  <2>6. CASE StaleReply
    <3>1. inbox # <<>> /\ TryAgain(Tail(inbox)) /\ UNCHANGED <<toHost, toTarget, faults>>
      BY <2>6 DEF StaleReply
    <3>4. faults' >= faults
      BY <1>1, <3>1
    <3>2. CASE retry + 1 < Retries
      BY <1>10, <3>1, <3>2, <3>4 DEF TryAgain
    <3>3. CASE ~(retry + 1 < Retries)
      <4>1. inbox' = <<>> /\ seq' = seq /\ hpc' # "send" /\ faults' >= faults
        BY <1>1, <3>1, <3>3 DEF TryAgain, SendFails, CloseSocket
      <4> QED
        BY <1>9, <3>1, <4>1
    <3> QED
      BY <3>2, <3>3
  <2>7. CASE WriteAcked
    <3>1. Len(inbox) = 1 /\ toHost' = <<>> /\ toTarget' = <<>>
      BY <2>7, Latest DEF WriteAcked
    <3>2. Len(inbox') = 0
      BY <1>8, <2>7, <3>1 DEF WriteAcked
    <3> QED
      BY <1>4, <3>1, <3>2, Quiet DEF Count
  <2>8. CASE ExecAcked
    <3>1. inbox' = <<>> /\ toHost' = <<>> /\ toTarget' = <<>>
      BY <2>8, Latest DEF ExecAcked, CloseSocket
    <3> QED
      BY <1>4, <3>1, Quiet DEF Count
  <2> QED
    BY <1>12, <2>1, <2>2, <2>3, <2>4, <2>5, <2>6, <2>7, <2>8 DEF HostStep
<1>13. CASE TargetStep
  <2>1. CASE RxQuery
    <3>1. toTarget # <<>> /\ toTarget' = Tail(toTarget) /\ UNCHANGED <<hpc, seq, inbox, faults>>
      BY <2>1 DEF RxQuery, Take, host
    <3>2. CASE Head(toTarget).name = TargetName
      BY <2>1, <3>1, <3>2, Answered DEF RxQuery
    <3>3. CASE ~(Head(toTarget).name = TargetName)
      BY <1>11, <2>1, <3>1, <3>3 DEF RxQuery
    <3> QED
      BY <3>2, <3>3
  <2>2. CASE RxWrite
    BY <2>2, Answered DEF RxWrite, Take, host
  <2>3. CASE RxExec
    BY <2>3, Answered DEF RxExec, Take, host
  <2>4. CASE Ignore
    BY <1>11, <2>4 DEF Ignore, host
  <2> QED
    BY <1>13, <2>1, <2>2, <2>3, <2>4 DEF TargetStep
<1>14. CASE Deliver
  <2>1. toHost # <<>> /\ toHost' = Tail(toHost) /\ UNCHANGED <<hpc, seq, faults, toTarget>>
    BY <1>14 DEF Deliver
  <2>2. CASE inbox' = Append(inbox, Head(toHost))
    BY <2>1, <2>2, Delivered
  <2>3. CASE inbox' = inbox
    <3>1. PICK i \in 1..Len(toHost) : i = 1
      BY <1>1, <2>1, TakeFacts
    <3>2. /\ Len(toHost') = Len(toHost) - 1
          /\ \A k \in 1..Len(toHost) - 1 : toHost'[k] = toHost[k + 1]
      BY <1>1, <2>1, TakeFacts
    <3>3. \A k \in 1..Len(toHost) - 1 : toHost'[k] = toHost[IF k < i THEN k ELSE k + 1]
      BY <1>2, <3>1, <3>2
    <3>4. faults' >= faults /\ Due' <= Due
      BY <1>1, <2>1 DEF Due
    <3> QED
      BY <2>1, <2>3, <3>2, <3>3, <3>4, ReplyCut
  <2> QED
    BY <1>14, <2>2, <2>3 DEF Deliver
<1>15. CASE Faults
  <2>1. CASE QueryError
    <3>1. /\ UNCHANGED <<inbox, toHost, toTarget>> /\ faults' > faults /\ faults' >= faults
          /\ Due' = 0 /\ Due' <= Due
      BY <1>3, <2>1 DEF QueryError, Due
    <3>2. CASE seq' = seq
      BY <3>1, <3>2, Unmoved
    <3>3. CASE seq' = Inc(seq)
      BY <3>1, <3>3, InboxSkip
    <3> QED
      BY <2>1, <3>2, <3>3 DEF QueryError
  <2>2. CASE WriteError
    <3>1. /\ inbox' = <<>> /\ UNCHANGED <<toHost, toTarget>> /\ faults' > faults
          /\ seq' = Inc(seq) /\ Due' = 0
      BY <1>3, <2>2 DEF WriteError, SendFails, CloseSocket, Due
    <3> QED
      BY <3>1, InboxSkip
  <2>6. CASE ReadError
    <3>1. /\ inbox' = <<>> /\ UNCHANGED <<seq, toHost, toTarget>> /\ faults' >= faults
          /\ hpc' # "send"
      BY <1>3, <2>6 DEF ReadError, CloseSocket
    <3> QED
      BY <1>9, <3>1
  <2>7. CASE LocateError
    <3>1. /\ inbox # <<>> /\ inbox' = Tail(inbox) /\ UNCHANGED <<seq, toHost, toTarget>>
          /\ faults' >= faults
      BY <1>3, <2>7 DEF LocateError
    <3> QED
      BY <1>10, <3>1
  <2>3. CASE Reset
    <3>1. UNCHANGED <<hpc, seq, inbox, toHost, toTarget>> /\ faults' >= faults /\ Due' <= Due
      BY <1>3, <2>3 DEF Reset, host, Due
    <3> QED
      BY <3>1, Unmoved
  <2>4. CASE LoseRequest
    <3>1. PICK i \in DOMAIN toTarget : toTarget' = RemoveAt(toTarget, i)
      BY <2>4 DEF LoseRequest
    <3>2. i \in 1..Len(toTarget)
      BY <1>1
    <3>3. /\ Len(toTarget') = Len(toTarget) - 1
          /\ \A k \in 1..Len(toTarget) - 1 : toTarget'[k] = toTarget[IF k < i THEN k ELSE k + 1]
      BY <1>1, <3>1, <3>2, RemoveFacts
    <3>4. UNCHANGED <<seq, inbox, toHost>> /\ faults' >= faults /\ Due' <= Due
      BY <1>3, <2>4 DEF LoseRequest, host, Due
    <3> QED
      BY <3>2, <3>3, <3>4, RequestCut
  <2>5. CASE LoseReply
    <3>1. PICK i \in DOMAIN toHost : toHost' = RemoveAt(toHost, i)
      BY <2>5 DEF LoseReply
    <3>2. i \in 1..Len(toHost)
      BY <1>1
    <3>3. /\ Len(toHost') = Len(toHost) - 1
          /\ \A k \in 1..Len(toHost) - 1 : toHost'[k] = toHost[IF k < i THEN k ELSE k + 1]
      BY <1>1, <3>1, <3>2, RemoveFacts
    <3>4. UNCHANGED <<seq, inbox, toTarget>> /\ faults' >= faults /\ Due' <= Due
      BY <1>3, <2>5 DEF LoseReply, host, Due
    <3> QED
      BY <3>2, <3>3, <3>4, ReplyCut
  <2> QED
    BY <1>15, <2>1, <2>2, <2>3, <2>4, <2>5, <2>6, <2>7 DEF Faults
<1>16. CASE UNCHANGED vars
  <2>1. UNCHANGED <<hpc, seq, inbox, toHost, toTarget>> /\ faults' >= faults /\ Due' <= Due
    BY <1>1, <1>16 DEF vars, host, Due
  <2> QED
    BY <2>1, Unmoved
<1> QED
  BY <1>12, <1>13, <1>14, <1>15, <1>16 DEF Next, HostStopped

-----------------------------------------------------------------------------
(* Sessions.                                                               *)

LEMMA SessionStep == ASSUME TypeOK, FlightInv, SessionInv, [Next]_vars PROVE SessionInv'
<1>1. /\ inbox \in Seq(Status) /\ toHost \in Seq(Status) /\ toTarget \in Seq(Request)
      /\ seq \in 0..SeqWrap-1 /\ sock \in Nat /\ blk \in 1..ExecBlk
      /\ Len(toHost) \in Nat /\ Len(toTarget) \in Nat /\ Len(inbox) \in Nat
  BY DEF TypeOK
<1>2. Len(Blocks) \in Nat \ {0} /\ Inc(seq) \in 0..SeqWrap-1
  BY <1>1, NetbootAssumption, IncFacts
<1>3. /\ \A i \in 1..Len(toTarget) : toTarget[i] \in Request /\ toTarget[i].sock \in Nat
      /\ \A i \in 1..Len(toHost) : toHost[i] \in Status /\ toHost[i].sock \in Nat
  <2>1. /\ \A i \in 1..Len(toTarget) : toTarget[i] \in Request
        /\ \A i \in 1..Len(toHost) : toHost[i] \in Status
    BY <1>1
  <2> QED
    BY <2>1 DEF Request, Status
\* Packets leave or are answered.
<1>4. ASSUME UNCHANGED <<hpc, sock, blk>>,
             \A i \in 1..Len(toTarget') : \E j \in 1..Len(toTarget) : toTarget'[i] = toTarget[j],
             \A i \in 1..Len(toHost') : toHost'[i].sock <= sock
      PROVE  SessionInv'
  BY <1>4 DEF SessionInv, SessionCmd
\* The socket is closed.
<1>5. ASSUME sock' = sock + 1, hpc' \notin {"send", "wait"}, UNCHANGED <<toTarget, toHost>>
      PROVE  SessionInv'
  <2>1. ASSUME NEW i \in 1..Len(toTarget)
        PROVE  /\ toTarget[i].sock <= sock + 1 /\ toTarget[i].sock # sock + 1
               /\ toTarget[i].cmd = "WRITE" => toTarget[i].blk \in 1..Len(Blocks)
    BY <1>1, <1>3 DEF SessionInv
  <2>2. ASSUME NEW i \in 1..Len(toHost) PROVE toHost[i].sock <= sock + 1
    BY <1>1, <1>3 DEF SessionInv
  <2> QED
    BY <1>5, <2>1, <2>2 DEF SessionInv
\* Nothing is on its way.
<1>6. ASSUME toTarget' = <<>>, toHost' = <<>> PROVE SessionInv'
  BY <1>6 DEF SessionInv
\* The same packets, in a state of the host about which nothing more is said.
<1>7. ASSUME UNCHANGED <<sock, blk, toTarget, toHost>>,
             hpc' \in {"send", "wait"} => hpc \in {"send", "wait"}, hpc' = "open" => hpc = "open"
      PROVE  SessionInv'
  BY <1>7 DEF SessionInv, SessionCmd
\* A request is sent.
<1>8. ASSUME NEW m \in Request, toTarget' = Append(toTarget, m), m.sock = sock,
             UNCHANGED <<sock, blk, toHost>>, m.cmd = "WRITE" => m.blk \in 1..Len(Blocks),
             \/ hpc = "open" /\ hpc' = "open" /\ m.cmd = "QUERY"
             \/ hpc = "send" /\ hpc' = "wait" /\ m.blk = blk /\ m.cmd = SessionCmd
      PROVE  SessionInv'
  <2>1. /\ Len(toTarget') = Len(toTarget) + 1 /\ toTarget'[Len(toTarget) + 1] = m
        /\ \A k \in 1..Len(toTarget) : toTarget'[k] = toTarget[k]
    BY <1>1, <1>8, PutFacts
  <2>2. \A i \in 1..Len(toTarget') : toTarget'[i] = m \/ i \in 1..Len(toTarget)
    BY <1>1, <2>1
  <2>3. m.sock <= sock
    BY <1>1, <1>8
  <2> QED
    BY <1>8, <2>1, <2>2, <2>3 DEF SessionInv, SessionCmd
<1>9. SendFails => sock' = sock + 1 /\ hpc' \notin {"send", "wait"}
  BY DEF SendFails, CloseSocket
<1>10. ASSUME NEW r, TryAgain(r), UNCHANGED <<toTarget, toHost>>, hpc = "wait"
       PROVE  SessionInv'
  <2>1. CASE retry + 1 < Retries
    BY <1>7, <1>10, <2>1 DEF TryAgain
  <2>2. CASE ~(retry + 1 < Retries)
    BY <1>5, <1>9, <1>10, <2>2 DEF TryAgain
  <2> QED
    BY <2>1, <2>2
<1>11. CASE HostStep
  <2>1. CASE Query
    <3> DEFINE m == [cmd |-> "QUERY", seq |-> Inc(seq), blk |-> 0, name |-> QueryName,
                     sock |-> sock]
    <3>1. m \in Request /\ m.sock = sock /\ m.cmd = "QUERY"
      BY <1>1, <1>2 DEF Request, ExecBlk
    <3>2. toTarget' = Append(toTarget, m)
      BY <2>1 DEF Query
    <3> HIDE DEF m
    <3> QED
      BY <1>8, <2>1, <3>1, <3>2 DEF Query
  <2>2. CASE Located
    BY <1>6, <2>2, Latest DEF Located
  <2>3. CASE SkipReply
    BY <1>7, <2>3 DEF SkipReply
  <2>4. CASE SendMsg
    <3> DEFINE m == [cmd |-> IF blk = ExecBlk THEN "EXEC" ELSE "WRITE", seq |-> Inc(seq),
                     blk |-> blk, name |-> "none", sock |-> sock]
    <3>1. /\ m \in Request /\ m.sock = sock /\ m.blk = blk /\ m.cmd = SessionCmd
          /\ m.cmd = "WRITE" => m.blk \in 1..Len(Blocks)
      BY <1>1, <1>2 DEF Request, ExecBlk, SessionCmd
    <3>2. toTarget' = Append(toTarget, m)
      BY <2>4 DEF SendMsg
    <3> HIDE DEF m
    <3> QED
      BY <1>8, <2>4, <3>1, <3>2 DEF SendMsg
  <2>5. CASE WaitTimeout
    BY <1>10, <2>5 DEF WaitTimeout
  <2>6. CASE StaleReply
    BY <1>10, <2>6 DEF StaleReply
  <2>7. CASE WriteAcked
    BY <1>6, <2>7, Latest DEF WriteAcked
  <2>8. CASE ExecAcked
    BY <1>6, <2>8, Latest DEF ExecAcked
  <2> QED
    BY <1>11, <2>1, <2>2, <2>3, <2>4, <2>5, <2>6, <2>7, <2>8 DEF HostStep
<1>12. toTarget # <<>> =>
         /\ 1 \in 1..Len(toTarget) /\ Head(toTarget) = toTarget[1]
         /\ \A i \in 1..Len(Tail(toTarget)) :
              \E j \in 1..Len(toTarget) : Tail(toTarget)[i] = toTarget[j]
  <2> SUFFICES ASSUME toTarget # <<>>
               PROVE  /\ 1 \in 1..Len(toTarget) /\ Head(toTarget) = toTarget[1]
                      /\ \A i \in 1..Len(Tail(toTarget)) :
                           \E j \in 1..Len(toTarget) : Tail(toTarget)[i] = toTarget[j]
    OBVIOUS
  <2>1. /\ Len(toTarget) \in Nat \ {0} /\ Len(Tail(toTarget)) = Len(toTarget) - 1
        /\ Head(toTarget) = toTarget[1]
        /\ \A k \in 1..Len(toTarget) - 1 : Tail(toTarget)[k] = toTarget[k + 1]
    BY <1>1, TakeFacts
  <2> QED
    BY <2>1
<1>13. ASSUME toTarget # <<>>, Reply(Head(toTarget))
       PROVE  \A i \in 1..Len(toHost') : toHost'[i].sock <= sock
  <2> DEFINE e == [seq |-> Head(toTarget).seq, sock |-> Head(toTarget).sock]
  <2>1. Head(toTarget) \in Request /\ e.sock <= sock
    BY <1>1, <1>12, <1>13, TakeFacts DEF SessionInv
  <2>2. e \in Status
    BY <2>1 DEF Request, Status
  <2>3. toHost' = Append(toHost, e)
    BY <1>13 DEF Reply
  <2> HIDE DEF e
  <2>4. /\ Len(toHost') = Len(toHost) + 1 /\ toHost'[Len(toHost) + 1] = e
        /\ \A k \in 1..Len(toHost) : toHost'[k] = toHost[k]
    BY <1>1, <2>2, <2>3, PutFacts
  <2>5. \A i \in 1..Len(toHost') : toHost'[i] = e \/ i \in 1..Len(toHost)
    BY <1>1, <2>4
  <2> QED
    BY <2>1, <2>4, <2>5 DEF SessionInv
<1>14. \A i \in 1..Len(toHost) : toHost[i].sock <= sock
  BY DEF SessionInv
<1>15. CASE TargetStep
  <2>1. CASE RxQuery
    BY <1>4, <1>12, <1>13, <1>14, <2>1 DEF RxQuery, Take, host
  <2>2. CASE RxWrite
    BY <1>4, <1>12, <1>13, <2>2 DEF RxWrite, Take, host
  <2>3. CASE RxExec
    BY <1>4, <1>12, <1>13, <2>3 DEF RxExec, Take, host
  <2>4. CASE Ignore
    BY <1>4, <1>12, <1>14, <2>4 DEF Ignore, host
  <2> QED
    BY <1>15, <2>1, <2>2, <2>3, <2>4 DEF TargetStep
<1>16. CASE Deliver
  <2>1. UNCHANGED <<hpc, sock, blk, toTarget>> /\ toHost # <<>> /\ toHost' = Tail(toHost)
    BY <1>16 DEF Deliver
  <2>2. /\ Len(toHost) \in Nat \ {0} /\ Len(toHost') = Len(toHost) - 1
        /\ \A k \in 1..Len(toHost) - 1 : toHost'[k] = toHost[k + 1]
    BY <1>1, <2>1, TakeFacts
  <2>3. \A i \in 1..Len(toHost') : toHost'[i].sock <= sock
    BY <1>14, <2>2
  <2> QED
    BY <1>4, <2>1, <2>3
<1>17. CASE Faults
  <2>1. CASE QueryError
    BY <1>7, <2>1 DEF QueryError
  <2>2. CASE WriteError
    BY <1>5, <1>9, <2>2 DEF WriteError
  <2>6. CASE ReadError
    BY <1>5, <2>6 DEF ReadError, CloseSocket
  <2>7. CASE LocateError
    BY <1>7, <2>7 DEF LocateError
  <2>3. CASE Reset
    BY <1>7, <2>3 DEF Reset, host
  <2>4. CASE LoseRequest
    <3>1. PICK i \in DOMAIN toTarget : toTarget' = RemoveAt(toTarget, i)
      BY <2>4 DEF LoseRequest
    <3>2. i \in 1..Len(toTarget)
      BY <1>1
    <3>3. /\ Len(toTarget') = Len(toTarget) - 1
          /\ \A k \in 1..Len(toTarget) - 1 : toTarget'[k] = toTarget[IF k < i THEN k ELSE k + 1]
      BY <1>1, <3>1, <3>2, RemoveFacts
    <3>4. \A k \in 1..Len(toTarget') : \E j \in 1..Len(toTarget) : toTarget'[k] = toTarget[j]
      <4> TAKE k \in 1..Len(toTarget')
      <4>1. (IF k < i THEN k ELSE k + 1) \in 1..Len(toTarget)
        BY <1>1, <3>2, <3>3
      <4> QED
        BY <3>3, <4>1
    <3> QED
      BY <1>4, <1>14, <2>4, <3>4 DEF LoseRequest, host
  <2>5. CASE LoseReply
    <3>1. PICK i \in DOMAIN toHost : toHost' = RemoveAt(toHost, i)
      BY <2>5 DEF LoseReply
    <3>2. i \in 1..Len(toHost)
      BY <1>1
    <3>3. /\ Len(toHost') = Len(toHost) - 1
          /\ \A k \in 1..Len(toHost) - 1 : toHost'[k] = toHost[IF k < i THEN k ELSE k + 1]
      BY <1>1, <3>1, <3>2, RemoveFacts
    <3>4. \A k \in 1..Len(toHost') : toHost'[k].sock <= sock
      <4> TAKE k \in 1..Len(toHost')
      <4>1. (IF k < i THEN k ELSE k + 1) \in 1..Len(toHost)
        BY <1>1, <3>2, <3>3
      <4> QED
        BY <1>14, <3>3, <4>1
    <3> QED
      BY <1>4, <2>5, <3>4 DEF LoseReply, host
  <2> QED
    BY <1>17, <2>1, <2>2, <2>3, <2>4, <2>5, <2>6, <2>7 DEF Faults
<1>18. CASE UNCHANGED vars
  BY <1>7, <1>18 DEF vars, host
<1> QED
  BY <1>11, <1>15, <1>16, <1>17, <1>18 DEF Next, HostStopped

-----------------------------------------------------------------------------
(* What the host learns from a reply.                                      *)

\* With a request behind them, no reply on its way is the latest one.
NoneLatest == /\ \A i \in 1..Len(inbox) : inbox[i].seq # seq
              /\ \A i \in 1..Len(toHost) : toHost[i].seq # seq

LEMMA Behind == TypeOK /\ FlightInv /\ toTarget # <<>> => NoneLatest
<1> SUFFICES ASSUME TypeOK, FlightInv, toTarget # <<>> PROVE NoneLatest
  OBVIOUS
<1>1. /\ Len(inbox) \in Nat /\ Len(toHost) \in Nat /\ Len(toTarget) \in Nat
      /\ Count \in Nat /\ seq \in 0..SeqWrap-1 /\ toTarget \in Seq(Request)
  BY FlightType DEF TypeOK
<1>2. Len(toTarget) \in Nat \ {0}
  BY <1>1, TakeFacts
<1>3. Count = Len(inbox) + Len(toHost) + Len(toTarget) /\ Count \in 1..Count
  BY <1>1, <1>2 DEF Count
<1>4. ASSUME NEW k \in 1..Len(inbox) + Len(toHost) PROVE InFlight(k) # seq
  <2>1. k \in 1..Count /\ k < Count
    BY <1>1, <1>2, <1>3
  <2>2. Gap(InFlight(k)) > Gap(InFlight(Count))
    BY <1>3, <2>1 DEF FlightInv
  <2>3. InFlight(k) \in 0..SeqWrap-1 /\ InFlight(Count) \in 0..SeqWrap-1
    BY <1>3, <2>1, FlightType
  <2>4. Gap(InFlight(Count)) \in 0..SeqWrap-1 /\ Gap(InFlight(k)) \in 0..SeqWrap-1
    BY <1>1, <2>3, GapFacts
  <2>5. Gap(InFlight(k)) # 0
    BY <2>2, <2>4, NetbootAssumption
  <2> QED
    BY <1>1, <2>3, <2>5, GapFacts
<1>5. ASSUME NEW i \in 1..Len(inbox) PROVE inbox[i].seq # seq
  <2>1. i \in 1..Len(inbox) + Len(toHost) /\ i <= Len(inbox)
    BY <1>1
  <2> QED
    BY <1>4, <2>1 DEF InFlight
<1>6. ASSUME NEW i \in 1..Len(toHost) PROVE toHost[i].seq # seq
  <2>1. PICK k \in 1..Len(inbox) + Len(toHost) : k = Len(inbox) + i
    BY <1>1
  <2>2. ~(k <= Len(inbox)) /\ k <= Len(inbox) + Len(toHost) /\ k - Len(inbox) = i
    BY <1>1, <2>1
  <2> QED
    BY <1>4, <2>2 DEF InFlight
<1> QED
  BY <1>5, <1>6 DEF NoneLatest

LEMMA RunStep ==
  ASSUME TypeOK, TypeOK', FlightInv, FlightInv', SessionInv, RunInv, [Next]_vars
  PROVE  RunInv'
<1>1. /\ inbox \in Seq(Status) /\ toHost \in Seq(Status) /\ toTarget \in Seq(Request)
      /\ sock \in Nat
      /\ Len(toHost) \in Nat /\ Len(toTarget) \in Nat /\ Len(inbox) \in Nat
  BY DEF TypeOK
\* The same replies, or fewer.
<1>2. ASSUME mode' = "run" => mode = "run", hpc' = "open" => hpc = "open",
             UNCHANGED <<seq, sock>>,
             \A i \in 1..Len(inbox') : \E j \in 1..Len(inbox) : inbox'[i] = inbox[j],
             \A i \in 1..Len(toHost') : \E j \in 1..Len(toHost) : toHost'[i] = toHost[j]
      PROVE  RunInv'
  BY <1>2 DEF RunInv
\* The socket is closed.
<1>3. ASSUME sock' = sock + 1, inbox' = <<>>, toHost' = toHost PROVE RunInv'
  <2>1. ASSUME NEW i \in 1..Len(toHost) PROVE toHost[i].sock # sock + 1
    <3>1. toHost[i].sock <= sock
      BY DEF SessionInv
    <3>2. toHost[i] \in Status
      BY <1>1
    <3>3. toHost[i].sock \in Nat
      BY <3>2 DEF Status
    <3> QED
      BY <1>1, <3>1, <3>3
  <2> QED
    BY <1>3, <2>1 DEF RunInv
<1>4. SendFails => sock' = sock + 1 /\ inbox' = <<>>
  BY DEF SendFails, CloseSocket
<1>5. ASSUME NEW r, TryAgain(r), toHost' = toHost PROVE RunInv'
  <2>1. CASE retry + 1 < Retries
    BY <1>5, <2>1 DEF TryAgain, RunInv
  <2>2. CASE ~(retry + 1 < Retries)
    BY <1>3, <1>4, <1>5, <2>2 DEF TryAgain
  <2> QED
    BY <2>1, <2>2
<1>6. inbox # <<>> => \A i \in 1..Len(Tail(inbox)) :
                        \E j \in 1..Len(inbox) : Tail(inbox)[i] = inbox[j]
  <2> SUFFICES ASSUME inbox # <<>>
               PROVE  \A i \in 1..Len(Tail(inbox)) :
                        \E j \in 1..Len(inbox) : Tail(inbox)[i] = inbox[j]
    OBVIOUS
  <2>1. /\ Len(inbox) \in Nat \ {0} /\ Len(Tail(inbox)) = Len(inbox) - 1
        /\ \A k \in 1..Len(inbox) - 1 : Tail(inbox)[k] = inbox[k + 1]
    BY <1>1, TakeFacts
  <2> QED
    BY <2>1
<1>7. toHost' = toHost => \A i \in 1..Len(toHost') :
                            \E j \in 1..Len(toHost) : toHost'[i] = toHost[j]
  OBVIOUS
<1>8. inbox' = inbox => \A i \in 1..Len(inbox') : \E j \in 1..Len(inbox) : inbox'[i] = inbox[j]
  OBVIOUS
<1>9. CASE HostStep
  <2>1. CASE Query
    <3>1. (toTarget # <<>>)'
      BY <1>1, <2>1 DEF Query
    <3>2. NoneLatest'
      BY <3>1, Behind, PTL
    <3> QED
      BY <3>2 DEF RunInv, NoneLatest
  <2>2. CASE Located
    BY <2>2 DEF Located, RunInv
  <2>3. CASE SkipReply
    BY <1>2, <1>6, <1>7, <2>3 DEF SkipReply, target
  <2>4. CASE SendMsg
    BY <2>4 DEF SendMsg, RunInv
  <2>5. CASE WaitTimeout
    BY <1>5, <2>5 DEF WaitTimeout
  <2>6. CASE StaleReply
    BY <1>5, <2>6 DEF StaleReply
  <2>7. CASE WriteAcked
    BY <2>7 DEF WriteAcked, RunInv
  <2>8. CASE ExecAcked
    BY <1>3, <2>8 DEF ExecAcked, CloseSocket
  <2> QED
    BY <1>9, <2>1, <2>2, <2>3, <2>4, <2>5, <2>6, <2>7, <2>8 DEF HostStep
<1>10. CASE TargetStep
  <2>1. CASE RxQuery
    BY <2>1 DEF RxQuery, Take, target, RunInv
  <2>2. CASE RxWrite
    BY <2>2 DEF RxWrite, Take, RunInv
  <2>3. CASE RxExec
    <3> DEFINE e == [seq |-> Head(toTarget).seq, sock |-> Head(toTarget).sock]
    <3>1. /\ toTarget # <<>> /\ Head(toTarget).cmd = "EXEC" /\ toHost' = Append(toHost, e)
          /\ UNCHANGED <<hpc, seq, sock, inbox>>
      BY <2>3 DEF RxExec, Take, Reply, host
    <3>2. Head(toTarget) = toTarget[1] /\ 1 \in 1..Len(toTarget) /\ Head(toTarget) \in Request
      BY <1>1, <3>1, TakeFacts
    <3>3. hpc = "open" => e.sock # sock
      BY <3>1, <3>2 DEF SessionInv
    <3>4. e \in Status
      BY <3>2 DEF Request, Status
    <3> HIDE DEF e
    <3>5. /\ Len(toHost') = Len(toHost) + 1 /\ toHost'[Len(toHost) + 1] = e
          /\ \A k \in 1..Len(toHost) : toHost'[k] = toHost[k]
      BY <1>1, <3>1, <3>4, PutFacts
    <3>6. \A i \in 1..Len(toHost') : toHost'[i] = e \/ i \in 1..Len(toHost)
      BY <1>1, <3>5
    <3>7. /\ \A i \in 1..Len(inbox) : inbox[i].seq # seq
          /\ \A i \in 1..Len(toHost) : toHost[i].seq # seq
      BY <3>1, Behind DEF NoneLatest
    <3>8. ASSUME hpc = "open", NEW i \in 1..Len(toHost'), toHost'[i].sock = sock
          PROVE  toHost'[i].seq # seq
      <4>1. toHost'[i] # e /\ i \in 1..Len(toHost)
        BY <3>3, <3>6, <3>8
      <4> QED
        BY <3>5, <3>7, <4>1
    <3> QED
      BY <3>1, <3>7, <3>8 DEF RunInv
  <2>4. CASE Ignore
    BY <1>2, <1>7, <1>8, <2>4 DEF Ignore, host, target
  <2> QED
    BY <1>10, <2>1, <2>2, <2>3, <2>4 DEF TargetStep
<1>11. CASE Deliver
  <2>1. UNCHANGED <<hpc, seq, sock, mode>> /\ toHost # <<>> /\ toHost' = Tail(toHost)
    BY <1>11 DEF Deliver, target
  <2>2. /\ Len(toHost) \in Nat \ {0} /\ Len(toHost') = Len(toHost) - 1
        /\ Head(toHost) = toHost[1] /\ Head(toHost) \in Status
        /\ \A k \in 1..Len(toHost) - 1 : toHost'[k] = toHost[k + 1]
    BY <1>1, <2>1, TakeFacts
  <2>3. \A i \in 1..Len(toHost') : \E j \in 1..Len(toHost) : toHost'[i] = toHost[j]
    BY <2>2
  <2>4. CASE inbox' = inbox
    BY <1>2, <1>8, <2>1, <2>3, <2>4
  <2>5. CASE inbox' = Append(inbox, Head(toHost)) /\ Head(toHost).sock = sock
    <3>1. /\ Len(inbox') = Len(inbox) + 1 /\ inbox'[Len(inbox) + 1] = toHost[1]
          /\ \A k \in 1..Len(inbox) : inbox'[k] = inbox[k]
      BY <1>1, <2>2, <2>5, PutFacts
    <3>2. \A i \in 1..Len(inbox') : inbox'[i] = toHost[1] \/ i \in 1..Len(inbox)
      BY <1>1, <3>1
    <3>3. 1 \in 1..Len(toHost) /\ toHost[1].sock = sock
      BY <2>2, <2>5
    <3> SUFFICES ASSUME mode = "run", hpc = "open"
                 PROVE  /\ \A i \in 1..Len(inbox') : inbox'[i].seq # seq
                        /\ \A i \in 1..Len(toHost') : toHost'[i].sock = sock => toHost'[i].seq # seq
      BY <2>1 DEF RunInv
    <3>4. \A i \in 1..Len(inbox) : inbox[i].seq # seq
      BY DEF RunInv
    <3>5. \A i \in 1..Len(toHost) : toHost[i].sock = sock => toHost[i].seq # seq
      BY DEF RunInv
    <3>6. \A i \in 1..Len(inbox') : inbox'[i].seq # seq
      BY <3>1, <3>2, <3>3, <3>4, <3>5
    <3> QED
      BY <2>3, <3>5, <3>6
  <2> QED
    BY <1>11, <2>4, <2>5 DEF Deliver
<1>12. CASE Faults
  <2>1. CASE QueryError
    BY <2>1 DEF QueryError, RunInv
  <2>2. CASE WriteError
    BY <1>3, <1>4, <2>2 DEF WriteError
  <2>6. CASE ReadError
    BY <1>3, <2>6 DEF ReadError, CloseSocket
  <2>7. CASE LocateError
    BY <1>2, <1>6, <1>8, <2>7 DEF LocateError, target
  <2>3. CASE Reset
    BY <2>3 DEF Reset, RunInv
  <2>4. CASE LoseRequest
    BY <1>2, <1>7, <1>8, <2>4 DEF LoseRequest, host, target
  <2>5. CASE LoseReply
    <3>1. PICK i \in DOMAIN toHost : toHost' = RemoveAt(toHost, i)
      BY <2>5 DEF LoseReply
    <3>2. i \in 1..Len(toHost)
      BY <1>1
    <3>3. /\ Len(toHost') = Len(toHost) - 1
          /\ \A k \in 1..Len(toHost) - 1 : toHost'[k] = toHost[IF k < i THEN k ELSE k + 1]
      BY <1>1, <3>1, <3>2, RemoveFacts
    <3>4. \A k \in 1..Len(toHost') : \E j \in 1..Len(toHost) : toHost'[k] = toHost[j]
      <4> TAKE k \in 1..Len(toHost')
      <4>1. (IF k < i THEN k ELSE k + 1) \in 1..Len(toHost)
        BY <1>1, <3>2, <3>3
      <4> QED
        BY <3>3, <4>1
    <3> QED
      BY <1>2, <1>8, <2>5, <3>4 DEF LoseReply, host, target
  <2> QED
    BY <1>12, <2>1, <2>2, <2>3, <2>4, <2>5, <2>6, <2>7 DEF Faults
<1>13. CASE UNCHANGED vars
  BY <1>2, <1>7, <1>8, <1>13 DEF vars, host, target
<1> QED
  BY <1>9, <1>10, <1>11, <1>12, <1>13 DEF Next, HostStopped

-----------------------------------------------------------------------------
(* The memory of the target.                                               *)

\* The requests after the step were there before it.
Fewer == \A i \in 1..Len(toTarget') : \E j \in 1..Len(toTarget) : toTarget'[i] = toTarget[j]

LEMMA FewerTail ==
  ASSUME toTarget \in Seq(Request), toTarget # <<>>, toTarget' = Tail(toTarget) PROVE Fewer
<1>1. /\ Len(toTarget) \in Nat \ {0} /\ Len(Tail(toTarget)) = Len(toTarget) - 1
      /\ \A k \in 1..Len(toTarget) - 1 : Tail(toTarget)[k] = toTarget[k + 1]
  BY TakeFacts
<1> QED
  BY <1>1 DEF Fewer

LEMMA FewerLost ==
  ASSUME toTarget \in Seq(Request), \E i \in DOMAIN toTarget : toTarget' = RemoveAt(toTarget, i)
  PROVE  Fewer
<1>1. PICK i \in 1..Len(toTarget) : toTarget' = RemoveAt(toTarget, i)
  OBVIOUS
<1>2. /\ Len(toTarget') = Len(toTarget) - 1
      /\ \A k \in 1..Len(toTarget) - 1 : toTarget'[k] = toTarget[IF k < i THEN k ELSE k + 1]
  BY <1>1, RemoveFacts
<1>3. ASSUME NEW k \in 1..Len(toTarget')
      PROVE  \E j \in 1..Len(toTarget) : toTarget'[k] = toTarget[j]
  <2>1. (IF k < i THEN k ELSE k + 1) \in 1..Len(toTarget)
    BY <1>1, <1>2
  <2> QED
    BY <1>2, <2>1
<1> QED
  BY <1>3 DEF Fewer

\* A request that is received: while images are sent it is of this session.
LEMMA Received ==
  ASSUME TypeOK, SessionInv, toTarget # <<>>
  PROVE  /\ Head(toTarget) = toTarget[1] /\ 1 \in 1..Len(toTarget)
         /\ Head(toTarget).cmd = "WRITE" => Head(toTarget).blk \in 1..Len(Blocks)
         /\ hpc \in {"send", "wait"} =>
              Head(toTarget).blk = blk /\ Head(toTarget).cmd = SessionCmd
<1>1. Head(toTarget) = toTarget[1] /\ Len(toTarget) \in Nat \ {0}
  BY TakeFacts DEF TypeOK
<1>2. 1 \in 1..Len(toTarget)
  BY <1>1
<1> QED
  BY <1>1, <1>2 DEF SessionInv

LEMMA WriteStep ==
  ASSUME TypeOK, FlightInv, SessionInv, WriteInv, [Next]_vars PROVE WriteInv'
<1>1. /\ inbox \in Seq(Status) /\ toHost \in Seq(Status) /\ toTarget \in Seq(Request)
      /\ blk \in 1..ExecBlk /\ mem \in [Addrs -> Datas \cup {Empty}]
  BY DEF TypeOK
<1>2. Len(Blocks) \in Nat \ {0} /\ DOMAIN Blocks = 1..Len(Blocks)
  BY NetbootAssumption
\* The same block, the same memory, no new reply.
<1>3. ASSUME UNCHANGED <<blk, mem, clean>>,
             hpc' \in {"send", "wait"} => hpc \in {"send", "wait"},
             inbox' # <<>> \/ toHost' # <<>> => inbox # <<>> \/ toHost # <<>>
      PROVE  WriteInv'
  BY <1>3 DEF WriteInv
<1>4. ASSUME NEW r, TryAgain(r), UNCHANGED <<mem, clean, toHost>>, hpc = "wait",
             r # <<>> => inbox # <<>>
      PROVE  WriteInv'
  <2>1. CASE retry + 1 < Retries
    BY <1>3, <1>4, <2>1 DEF TryAgain
  <2>2. CASE ~(retry + 1 < Retries)
    BY <1>4, <2>2 DEF TryAgain, SendFails, WriteInv
  <2> QED
    BY <2>1, <2>2
<1>5. CASE HostStep
  <2>1. CASE Query
    BY <2>1 DEF Query, WriteInv
  <2>2. CASE Located
    BY <2>2, Latest DEF Located, WriteInv
  <2>3. CASE SkipReply
    BY <2>3 DEF SkipReply, WriteInv
  <2>4. CASE SendMsg
    BY <1>3, <2>4 DEF SendMsg, target
  <2>5. CASE WaitTimeout
    BY <1>4, <2>5 DEF WaitTimeout, target
  <2>6. CASE StaleReply
    BY <1>4, <2>6 DEF StaleReply, target
  <2>7. CASE WriteAcked
    <3>1. toHost' = <<>> /\ Len(inbox) = 1
      BY <2>7, Latest DEF WriteAcked
    <3>2. inbox' = <<>>
      BY <1>1, <2>7, <3>1 DEF WriteAcked
    <3> QED
      BY <3>1, <3>2 DEF WriteInv
  <2>8. CASE ExecAcked
    BY <2>8 DEF ExecAcked, WriteInv
  <2> QED
    BY <1>5, <2>1, <2>2, <2>3, <2>4, <2>5, <2>6, <2>7, <2>8 DEF HostStep
<1>6. CASE TargetStep
  <2>1. CASE RxQuery
    <3>1. hpc' \notin {"send", "wait"}
      BY <2>1, Received DEF RxQuery, Take, SessionCmd, host
    <3> QED
      BY <3>1 DEF WriteInv
  <2>2. CASE RxWrite
    <3>1. toTarget # <<>> /\ Head(toTarget).cmd = "WRITE" /\ UNCHANGED <<hpc, blk>>
      BY <2>2 DEF RxWrite, Take, host
    <3>2. Head(toTarget).blk \in DOMAIN Blocks
      BY <1>2, <3>1, Received
    <3>3. hpc \in {"send", "wait"} => Head(toTarget).blk = blk
      BY <3>1, Received
    <3>4. Blocks[Head(toTarget).blk].addr \in Addrs
      BY <3>2 DEF Addrs
    <3>5. mem'[Blocks[Head(toTarget).blk].addr] = Blocks[Head(toTarget).blk].data
      BY <1>1, <2>2, <3>4 DEF RxWrite
    <3> QED
      BY <3>1, <3>3, <3>5 DEF WriteInv
  <2>3. CASE RxExec
    <3>1. hpc' \in {"send", "wait"} => blk' = ExecBlk
      BY <2>3, Received DEF RxExec, Take, SessionCmd, host
    <3>2. ~(ExecBlk < ExecBlk)
      BY <1>2 DEF ExecBlk
    <3> QED
      BY <3>1, <3>2 DEF WriteInv
  <2>4. CASE Ignore
    BY <1>3, <2>4 DEF Ignore, host, target
  <2> QED
    BY <1>6, <2>1, <2>2, <2>3, <2>4 DEF TargetStep
<1>7. CASE Deliver
  BY <1>3, <1>7 DEF Deliver, target
<1>8. CASE Faults
  <2>1. CASE QueryError
    BY <2>1 DEF QueryError, WriteInv
  <2>2. CASE WriteError
    BY <2>2 DEF WriteError, SendFails, WriteInv
  <2>6. CASE ReadError
    BY <2>6 DEF ReadError, WriteInv
  <2>7. CASE LocateError
    BY <2>7 DEF LocateError, WriteInv
  <2>3. CASE Reset
    BY <2>3 DEF Reset, WriteInv
  <2>4. CASE LoseRequest
    BY <1>3, <2>4 DEF LoseRequest, host, target
  <2>5. CASE LoseReply
    <3>1. toHost # <<>>
      BY <1>1, <2>5 DEF LoseReply
    <3> QED
      BY <1>3, <2>5, <3>1 DEF LoseReply, host, target
  <2> QED
    BY <1>8, <2>1, <2>2, <2>3, <2>4, <2>5, <2>6, <2>7 DEF Faults
<1>9. CASE UNCHANGED vars
  BY <1>3, <1>9 DEF vars, host, target
<1> QED
  BY <1>5, <1>6, <1>7, <1>8, <1>9 DEF Next, HostStopped

LEMMA AckedStep ==
  ASSUME TypeOK, FlightInv, SessionInv, WriteInv, AckedIsWritten, [Next]_vars
  PROVE  AckedIsWritten'
<1>1. /\ blk \in 1..ExecBlk /\ mem \in [Addrs -> Datas \cup {Empty}]
      /\ Len(Blocks) \in Nat \ {0} /\ DOMAIN Blocks = 1..Len(Blocks)
  BY NetbootAssumption DEF TypeOK
<1>2. ASSUME UNCHANGED <<blk, mem, clean>>,
             hpc' \in {"send", "wait"} => hpc \in {"send", "wait"}
      PROVE  AckedIsWritten'
  BY <1>2 DEF AckedIsWritten, Final
<1>3. ASSUME NEW r, TryAgain(r), UNCHANGED <<mem, clean>>, hpc = "wait" PROVE AckedIsWritten'
  BY <1>2, <1>3 DEF TryAgain, SendFails
<1>4. CASE HostStep
  <2>1. CASE Located
    <3>1. 1..blk'-1 = {}
      BY <2>1 DEF Located
    <3> QED
      BY <3>1 DEF AckedIsWritten
  <2>2. CASE WriteAcked
    <3>1. /\ blk' = blk + 1 /\ blk < ExecBlk /\ mem' = mem /\ clean' = clean
          /\ hpc = "wait" /\ inbox # <<>>
      BY <2>2 DEF WriteAcked, target
    <3>2. SUFFICES ASSUME clean, NEW i \in 1..blk, Final(i, blk)
                   PROVE  mem[Blocks[i].addr] = Blocks[i].data
      <4>1. blk' - 1 = blk
        BY <1>1, <3>1
      <4>2. (clean' => \A i \in 1..blk'-1 :
                Final(i, blk' - 1) => mem'[Blocks[i].addr] = Blocks[i].data) => AckedIsWritten'
        BY DEF AckedIsWritten, Final
      <4> QED
        BY <3>1, <4>1, <4>2
    <3>3. mem[Blocks[blk].addr] = Blocks[blk].data
      BY <3>1, <3>2 DEF WriteInv
    <3>4. CASE i = blk
      BY <3>3, <3>4
    <3>5. CASE i # blk
      <4>1. i \in 1..blk-1 /\ blk \in i+1..blk
        BY <1>1, <3>5
      <4>2. Blocks[i].addr # Blocks[blk].addr
        BY <3>2, <4>1 DEF Final
      <4>3. Final(i, blk - 1)
        <5>1. i+1..blk-1 \subseteq i+1..blk
          BY <1>1
        <5> QED
          BY <3>2, <5>1 DEF Final
      <4> QED
        BY <3>1, <3>2, <4>1, <4>2, <4>3 DEF AckedIsWritten
    <3> QED
      BY <3>4, <3>5
  <2>3. CASE Query
    BY <1>2, <2>3 DEF Query, target
  <2>4. CASE SkipReply
    BY <1>2, <2>4 DEF SkipReply, target
  <2>5. CASE SendMsg
    BY <1>2, <2>5 DEF SendMsg, target
  <2>6. CASE WaitTimeout
    BY <1>3, <2>6 DEF WaitTimeout, target
  <2>7. CASE StaleReply
    BY <1>3, <2>7 DEF StaleReply, target
  <2>8. CASE ExecAcked
    BY <1>2, <2>8 DEF ExecAcked, target
  <2> QED
    BY <1>4, <2>1, <2>2, <2>3, <2>4, <2>5, <2>6, <2>7, <2>8 DEF HostStep
<1>5. CASE TargetStep
  <2>1. CASE RxWrite
    <3>1. /\ toTarget # <<>> /\ Head(toTarget).cmd = "WRITE" /\ UNCHANGED <<hpc, blk, clean>>
          /\ mem' = [mem EXCEPT ![Blocks[Head(toTarget).blk].addr] = Blocks[Head(toTarget).blk].data]
      BY <2>1 DEF RxWrite, Take, host
    <3>2. SUFFICES ASSUME hpc \in {"send", "wait"}, clean, NEW i \in 1..blk-1, Final(i, blk - 1)
                   PROVE  \/ mem'[Blocks[i].addr] = Blocks[i].data
                          \/ /\ blk < ExecBlk /\ Blocks[i].addr = Blocks[blk].addr
                             /\ mem'[Blocks[i].addr] = Blocks[blk].data
      BY <3>1 DEF AckedIsWritten, Final
    <3>3. Head(toTarget).blk = blk /\ blk \in 1..Len(Blocks) /\ blk < ExecBlk
      BY <1>1, <3>1, <3>2, Received DEF ExecBlk
    <3>4. i \in DOMAIN Blocks
      BY <1>1, <3>3
    <3>5. Blocks[i].addr \in Addrs
      BY <3>4 DEF Addrs
    <3>6. CASE Blocks[i].addr = Blocks[blk].addr
      BY <1>1, <3>1, <3>3, <3>5, <3>6
    <3>7. CASE Blocks[i].addr # Blocks[blk].addr
      <4>1. mem'[Blocks[i].addr] = mem[Blocks[i].addr]
        BY <1>1, <3>1, <3>3, <3>5, <3>7
      <4> QED
        BY <3>2, <3>7, <4>1 DEF AckedIsWritten
    <3> QED
      BY <3>6, <3>7
  <2>2. CASE RxQuery
    BY <1>2, <2>2 DEF RxQuery, host, target
  <2>3. CASE RxExec
    BY <1>2, <2>3 DEF RxExec, host
  <2>4. CASE Ignore
    BY <1>2, <2>4 DEF Ignore, host, target
  <2> QED
    BY <1>5, <2>1, <2>2, <2>3, <2>4 DEF TargetStep
<1>6. CASE Deliver
  BY <1>2, <1>6 DEF Deliver, target
<1>7. CASE Faults
  <2>1. CASE Reset
    BY <2>1 DEF Reset, AckedIsWritten
  <2>2. CASE QueryError
    BY <1>2, <2>2 DEF QueryError, target
  <2>3. CASE WriteError
    BY <2>3 DEF WriteError, SendFails, AckedIsWritten
  <2>6. CASE ReadError
    BY <2>6 DEF ReadError, AckedIsWritten
  <2>7. CASE LocateError
    BY <1>2, <2>7 DEF LocateError, target
  <2>4. CASE LoseRequest
    BY <1>2, <2>4 DEF LoseRequest, host, target
  <2>5. CASE LoseReply
    BY <1>2, <2>5 DEF LoseReply, host, target
  <2> QED
    BY <1>7, <2>1, <2>2, <2>3, <2>4, <2>5, <2>6, <2>7 DEF Faults
<1>8. CASE UNCHANGED vars
  BY <1>2, <1>8 DEF vars, host, target
<1> QED
  BY <1>4, <1>5, <1>6, <1>7, <1>8 DEF Next, HostStopped

LEMMA ExecStep ==
  ASSUME TypeOK, FlightInv, SessionInv, AckedIsWritten, ExecInv, [Next]_vars PROVE ExecInv'
<1>1. /\ toTarget \in Seq(Request) /\ Len(toTarget) \in Nat /\ sock \in Nat
      /\ seq \in 0..SeqWrap-1 /\ blk \in 1..ExecBlk
      /\ Len(Blocks) \in Nat \ {0} /\ DOMAIN Blocks = 1..Len(Blocks)
      /\ Inc(seq) \in 0..SeqWrap-1
  BY NetbootAssumption, IncFacts DEF TypeOK
<1>2. ASSUME UNCHANGED <<mem, clean>>, Fewer PROVE ExecInv'
  BY <1>2 DEF ExecInv, Fewer, Complete, Final
<1>3. toTarget' = toTarget => Fewer
  BY DEF Fewer
<1>4. ASSUME toTarget' = <<>> PROVE ExecInv'
  BY <1>4 DEF ExecInv
<1>5. CASE HostStep
  <2>1. CASE Query
    <3> DEFINE m == [cmd |-> "QUERY", seq |-> Inc(seq), blk |-> 0, name |-> QueryName,
                     sock |-> sock]
    <3>1. m \in Request /\ m.cmd = "QUERY"
      BY <1>1 DEF Request, ExecBlk
    <3>2. toTarget' = Append(toTarget, m) /\ UNCHANGED <<mem, clean>>
      BY <2>1 DEF Query, target
    <3> HIDE DEF m
    <3>3. /\ Len(toTarget') = Len(toTarget) + 1 /\ toTarget'[Len(toTarget) + 1] = m
          /\ \A k \in 1..Len(toTarget) : toTarget'[k] = toTarget[k]
      BY <1>1, <3>1, <3>2, PutFacts
    <3>4. \A i \in 1..Len(toTarget') : toTarget'[i] = m \/ i \in 1..Len(toTarget)
      BY <1>1, <3>3
    <3> QED
      BY <3>1, <3>2, <3>3, <3>4 DEF ExecInv, Complete, Final
  <2>2. CASE Located
    BY <1>4, <2>2, Latest DEF Located
  <2>3. CASE SkipReply
    BY <1>2, <1>3, <2>3 DEF SkipReply, target
  <2>4. CASE SendMsg
    <3> DEFINE m == [cmd |-> IF blk = ExecBlk THEN "EXEC" ELSE "WRITE", seq |-> Inc(seq),
                     blk |-> blk, name |-> "none", sock |-> sock]
    <3>1. m \in Request /\ m.cmd = SessionCmd
      BY <1>1 DEF Request, SessionCmd
    <3>2. toTarget' = Append(toTarget, m) /\ UNCHANGED <<mem, clean>> /\ hpc = "send"
      BY <2>4 DEF SendMsg, target
    <3> HIDE DEF m
    <3>3. /\ Len(toTarget') = Len(toTarget) + 1 /\ toTarget'[Len(toTarget) + 1] = m
          /\ \A k \in 1..Len(toTarget) : toTarget'[k] = toTarget[k]
      BY <1>1, <3>1, <3>2, PutFacts
    <3>4. \A i \in 1..Len(toTarget') : toTarget'[i] = m \/ i \in 1..Len(toTarget)
      BY <1>1, <3>3
    <3>5. \A i \in 1..Len(toTarget') : toTarget'[i].cmd = SessionCmd
      BY <3>1, <3>2, <3>3, <3>4 DEF SessionInv
    <3>6. blk = ExecBlk /\ clean => Complete
      <4> SUFFICES ASSUME blk = ExecBlk, clean PROVE Complete
        OBVIOUS
      <4>1. blk - 1 = Len(Blocks) /\ ~(blk < ExecBlk)
        BY <1>1 DEF ExecBlk
      <4> QED
        BY <3>2, <4>1 DEF AckedIsWritten, Complete
    <3> QED
      BY <3>2, <3>5, <3>6 DEF ExecInv, SessionCmd, Complete, Final
  <2>5. CASE WaitTimeout
    BY <1>2, <1>3, <2>5 DEF WaitTimeout, target
  <2>6. CASE StaleReply
    BY <1>2, <1>3, <2>6 DEF StaleReply, target
  <2>7. CASE WriteAcked
    BY <1>4, <2>7, Latest DEF WriteAcked
  <2>8. CASE ExecAcked
    BY <1>4, <2>8, Latest DEF ExecAcked
  <2> QED
    BY <1>5, <2>1, <2>2, <2>3, <2>4, <2>5, <2>6, <2>7, <2>8 DEF HostStep
<1>6. CASE TargetStep
  <2>1. CASE RxQuery
    BY <1>1, <1>2, <2>1, FewerTail DEF RxQuery, Take, target
  <2>2. CASE RxWrite
    <3>1. toTarget # <<>> /\ Head(toTarget).cmd = "WRITE" /\ toTarget' = Tail(toTarget)
      BY <2>2 DEF RxWrite, Take
    <3>2. toTarget[1].cmd = "WRITE" /\ 1 \in 1..Len(toTarget)
      BY <3>1, Received
    <3>3. \A j \in 1..Len(toTarget) : toTarget[j].cmd # "EXEC"
      BY <3>2 DEF ExecInv
    <3>4. Fewer
      BY <1>1, <3>1, FewerTail
    <3> QED
      BY <3>3, <3>4 DEF ExecInv, Fewer
  <2>3. CASE RxExec
    BY <1>1, <1>2, <2>3, FewerTail DEF RxExec, Take
  <2>4. CASE Ignore
    BY <1>1, <1>2, <2>4, FewerTail DEF Ignore, target
  <2> QED
    BY <1>6, <2>1, <2>2, <2>3, <2>4 DEF TargetStep
<1>7. CASE Deliver
  BY <1>2, <1>3, <1>7 DEF Deliver, target
<1>8. CASE Faults
  <2>1. CASE Reset
    BY <2>1 DEF Reset, ExecInv
  <2>2. CASE QueryError
    BY <1>2, <1>3, <2>2 DEF QueryError, target
  <2>3. CASE WriteError
    BY <1>2, <1>3, <2>3 DEF WriteError, target
  <2>6. CASE ReadError
    BY <1>2, <1>3, <2>6 DEF ReadError, target
  <2>7. CASE LocateError
    BY <1>2, <1>3, <2>7 DEF LocateError, target
  <2>4. CASE LoseRequest
    BY <1>1, <1>2, <2>4, FewerLost DEF LoseRequest, target
  <2>5. CASE LoseReply
    BY <1>2, <1>3, <2>5 DEF LoseReply, target
  <2> QED
    BY <1>8, <2>1, <2>2, <2>3, <2>4, <2>5, <2>6, <2>7 DEF Faults
<1>9. CASE UNCHANGED vars
  BY <1>2, <1>3, <1>9 DEF vars, target
<1> QED
  BY <1>5, <1>6, <1>7, <1>8, <1>9 DEF Next, HostStopped

LEMMA CompleteStep ==
  ASSUME TypeOK, RunInv, SessionInv, ExecInv, ExecIsComplete, [Next]_vars PROVE ExecIsComplete'
<1>1. ASSUME UNCHANGED <<mode, mem, clean>> PROVE ExecIsComplete'
  BY <1>1 DEF ExecIsComplete, Complete, Final
<1>2. CASE HostStep
  <2>1. CASE Located
    <3>1. inbox \in Seq(Status) /\ inbox # <<>> /\ Head(inbox).seq = seq /\ hpc = "open"
      BY <2>1 DEF Located, TypeOK
    <3>2. inbox[1].seq = seq /\ 1 \in 1..Len(inbox)
      BY <3>1, TakeFacts
    <3>3. mode # "run"
      BY <3>1, <3>2 DEF RunInv
    <3> QED
      BY <2>1, <3>3 DEF Located, target, ExecIsComplete
  <2>2. CASE Query
    BY <1>1, <2>2 DEF Query, target
  <2>3. CASE SkipReply
    BY <1>1, <2>3 DEF SkipReply, target
  <2>4. CASE SendMsg
    BY <1>1, <2>4 DEF SendMsg, target
  <2>5. CASE WaitTimeout
    BY <1>1, <2>5 DEF WaitTimeout, target
  <2>6. CASE StaleReply
    BY <1>1, <2>6 DEF StaleReply, target
  <2>7. CASE WriteAcked
    BY <1>1, <2>7 DEF WriteAcked, target
  <2>8. CASE ExecAcked
    BY <1>1, <2>8 DEF ExecAcked, target
  <2> QED
    BY <1>2, <2>1, <2>2, <2>3, <2>4, <2>5, <2>6, <2>7, <2>8 DEF HostStep
<1>3. CASE TargetStep
  <2>1. CASE RxQuery
    BY <1>1, <2>1 DEF RxQuery, target
  <2>2. CASE RxWrite
    BY <2>2 DEF RxWrite, Take, ExecIsComplete
  <2>3. CASE RxExec
    <3>1. toTarget # <<>> /\ Head(toTarget).cmd = "EXEC" /\ UNCHANGED <<mem, clean>>
      BY <2>3 DEF RxExec, Take
    <3>2. toTarget[1].cmd = "EXEC" /\ 1 \in 1..Len(toTarget)
      BY <3>1, Received
    <3>3. clean => Complete
      BY <3>2 DEF ExecInv
    <3> QED
      BY <3>1, <3>3 DEF ExecIsComplete, Complete, Final
  <2>4. CASE Ignore
    BY <1>1, <2>4 DEF Ignore, target
  <2> QED
    BY <1>3, <2>1, <2>2, <2>3, <2>4 DEF TargetStep
<1>4. CASE Deliver
  BY <1>1, <1>4 DEF Deliver, target
<1>5. CASE Faults
  BY <1>1, <1>5 DEF Faults, QueryError, LocateError, WriteError, ReadError, Reset,
                    LoseRequest, LoseReply, target, ExecIsComplete
<1>6. CASE UNCHANGED vars
  BY <1>1, <1>6 DEF vars, target
<1> QED
  BY <1>2, <1>3, <1>4, <1>5, <1>6 DEF Next, HostStopped

-----------------------------------------------------------------------------
(* The theorems.                                                           *)

LEMMA InitInv == Init => IInv
<1> SUFFICES ASSUME Init PROVE IInv
  OBVIOUS
<1>1. /\ Retries \in Nat \ {0} /\ MaxFaults \in Nat /\ SeqWrap \in Nat \ {0, 1}
      /\ Len(Blocks) \in Nat \ {0}
  BY NetbootAssumption
<1>2. TypeOK
  <2>1. <<>> \in Seq(Status) /\ <<>> \in Seq(Request)
    OBVIOUS
  <2>2. seq \in 0..SeqWrap-1 /\ retry \in 0..Retries-1 /\ blk \in 1..ExecBlk
    BY <1>1 DEF Init, ExecBlk
  <2>3. mem \in [Addrs -> Datas \cup {Empty}] /\ faults \in 0..MaxFaults /\ sock \in Nat
    BY <1>1 DEF Init
  <2> QED
    BY <2>1, <2>2, <2>3 DEF Init, TypeOK
<1>3. Count = 0
  BY DEF Init, Count
<1>4. FlightInv
  BY <1>3 DEF FlightInv
<1>5. SessionInv /\ ExecInv /\ RunInv
  BY DEF Init, SessionInv, ExecInv, RunInv
<1>6. WriteInv /\ AckedIsWritten /\ ExecIsComplete
  BY DEF Init, WriteInv, AckedIsWritten, ExecIsComplete
<1> QED
  BY <1>2, <1>4, <1>5, <1>6 DEF IInv

LEMMA NextInv == IInv /\ [Next]_vars => IInv'
<1> SUFFICES ASSUME IInv, [Next]_vars PROVE IInv'
  OBVIOUS
<1>1. TypeOK /\ FlightInv /\ SessionInv /\ RunInv /\ WriteInv /\ ExecInv
  BY DEF IInv
<1>2. AckedIsWritten /\ ExecIsComplete
  BY DEF IInv
<1>3. TypeOK'
  BY <1>1, TypeStep
<1>4. FlightInv'
  BY <1>1, <1>3, FlightStep
<1>5. SessionInv'
  BY <1>1, SessionStep
<1>6. RunInv'
  BY <1>1, <1>3, <1>4, RunStep
<1>7. WriteInv'
  BY <1>1, WriteStep
<1>8. AckedIsWritten'
  BY <1>1, <1>2, AckedStep
<1>9. ExecInv'
  BY <1>1, <1>2, ExecStep
<1>10. ExecIsComplete'
  BY <1>1, <1>2, CompleteStep
<1> QED
  BY <1>3, <1>4, <1>5, <1>6, <1>7, <1>8, <1>9, <1>10 DEF IInv

LEMMA Invariance == Spec => []IInv
BY InitInv, NextInv, PTL DEF Spec

(* Sequence numbers, sockets, queues and the target's memory keep their    *)
(* types: a WRITE that pkt_rx_udp obeys names one of the images' blocks.   *)
THEOREM TypeCorrect == Spec => []TypeOK
<1>1. IInv => TypeOK
  BY DEF IInv
<1> QED
  BY <1>1, Invariance, PTL

(* While send_msg sends the images, the target's memory holds what the     *)
(* acknowledged blocks put there: no stale reply is taken for an           *)
(* acknowledgement and no late WRITE of an earlier block is obeyed.        *)
THEOREM WriteSafety == Spec => []AckedIsWritten
<1>1. IInv => AckedIsWritten
  BY DEF IInv
<1> QED
  BY <1>1, Invariance, PTL

(* pkt_rx_udp enters an image only when all images are in memory, unless   *)
(* the target was reset after open_node had located it.                    *)
THEOREM ExecSafety == Spec => []ExecIsComplete
<1>1. IInv => ExecIsComplete
  BY DEF IInv
<1> QED
  BY <1>1, Invariance, PTL

(* When the host talks to the target on a new socket, no request of an     *)
(* earlier socket is on its way any more.                                  *)
THEOREM SessionSafety == Spec => []NoOldRequests
<1>1. IInv => NoOldRequests
  <2> SUFFICES ASSUME IInv, hpc \in {"send", "wait"}, NEW i \in DOMAIN toTarget
               PROVE  toTarget[i].sock = sock
    BY DEF NoOldRequests
  <2>1. SessionInv /\ toTarget \in Seq(Request)
    BY DEF IInv, TypeOK
  <2>2. i \in 1..Len(toTarget)
    BY <2>1
  <2> QED
    BY <2>1, <2>2 DEF SessionInv
<1> QED
  BY <1>1, Invariance, PTL

===============================================================================
