------------------------------ MODULE Ipv6Proofs ------------------------------
(***************************************************************************)
(* Proofs about Ipv6, for any set of frames in any order and number, and   *)
(* about the checksum of its replies, for any bytes.                       *)
(***************************************************************************)
EXTENDS Ipv6, Checksum, TLAPS, WellFoundedInduction

AllFrames == Shapes \cup Frames
Packets   == {Owed(f)[1] : f \in {g \in AllFrames : Owed(g) # <<>>}} \cup {NoReply}
Ports     == {0} \cup {f.dport : f \in AllFrames}
Labels    == {"poll", "net_rx_eth", "net_rx_ip6", "net_rx_udp6", "net_rx_icmp6",
              "pkt_rx_udp", "eth_tx", "ack", "run"}

\* How many frames have been answered, as far as they are owed an answer.
Done == IF pc \in {"poll", "ack", "run"} THEN handled ELSE handled - 1

\* How many frames have left their slots.
Freed == IF pc = "poll" THEN handled ELSE handled - 1

TypeInv ==
  /\ app \in {"netboot", "ex05"} /\ pc \in Labels
  /\ arrived \in Seq(AllFrames) /\ rx \in Seq(AllFrames)
  /\ handled \in Nat /\ seen \in Nat
  /\ arg \in [len : Int, port : Ports, mcast : {0, 1}]

(* The slots hold the frames that arrived last, the one being handled      *)
(* first.                                                                  *)
QueueInv ==
  /\ pc # "poll" => handled > 0
  /\ Len(rx) = Len(arrived) - Freed /\ handled <= Len(arrived)
  /\ pc # "poll" => rx # <<>>
  /\ \A i \in 1..Len(rx) : rx[i] = arrived[Freed + i]

(* rxbuf holds the frame being handled, unless that was too long for it.   *)
FrameInv ==
  /\ pc \notin {"poll", "ack"} => rxbuf = arrived[handled]
  /\ pc = "ack" /\ rxbuf # NoFrame => rxbuf = arrived[handled]
  /\ pc = "poll" => rxbuf = NoFrame
  /\ pc \notin {"poll", "ack"} \/ rxbuf # NoFrame =>
       rxbuf \in AllFrames /\ rxbuf.len + 2 <= NETBUF_MAX /\ seen <= rxbuf.len + 2

(* The length handed down is what is left of the frame behind the headers  *)
(* already read.                                                           *)
LengthInv ==
  /\ pc = "net_rx_eth" => arg.len = rxbuf.len + 2 /\ seen = 0
  /\ pc = "net_rx_ip6" => arg.len = rxbuf.len - 14 /\ arg.len >= 44 /\ seen <= 16
  /\ pc \in {"net_rx_udp6", "net_rx_icmp6"} =>
       arg.len = rxbuf.len - 54 /\ arg.len >= 4 /\ seen <= 56
  /\ pc = "pkt_rx_udp" => arg.len >= 0 /\ 64 + arg.len <= rxbuf.len + 2 /\ seen <= 64
  /\ reply # NoReply => reply.len \in Int /\ reply.len + 2 <= NETBUF_MAX
  /\ pc = "eth_tx" => reply # NoReply

(* What the functions called so far have found the frame to be.            *)
ChainInv ==
  /\ pc = "net_rx_ip6" =>
       /\ rxbuf.type = "ip6" /\ rxbuf.dst \in {"ifc", "ns", "ll"}
       /\ arg.mcast = (IF rxbuf.dst = "ifc" THEN 0 ELSE 1)
  /\ pc \in {"net_rx_udp6", "net_rx_icmp6"} =>
       ForUs(rxbuf) /\ rxbuf.next = IF pc = "net_rx_udp6" THEN "udp" ELSE "icmp"
  /\ pc = "pkt_rx_udp" =>
       Datagram(rxbuf) /\ arg.len = rxbuf.ulen - 8 /\ arg.port = rxbuf.dport
  /\ pc = "eth_tx" => Owed(rxbuf) = <<reply>>

(* The transmit slots are used in turn.                                    *)
SlotInv ==
  /\ txslot \in {0, 1} /\ slots \in [{0, 1} -> Packets]
  /\ tx \in {<<>>, <<1 - txslot>>, <<txslot, 1 - txslot>>}
  /\ wire \in Seq(Packets)

AnswerInv == Answered(Sent, Done)

WriteOf(f) == Message(f) /\ f.dport = CTRL /\ f.cmd = "WRITE"

MemInv ==
  pc \in {"eth_tx", "ack"} /\ app = "netboot" /\ WriteOf(arrived[handled]) =>
    mem = <<arrived[handled].addr, arrived[handled].ulen - 24, arrived[handled].body>>

IInv == /\ TypeInv /\ QueueInv /\ FrameInv /\ LengthInv /\ ChainInv /\ SlotInv
        /\ AnswerInv /\ MemInv

-----------------------------------------------------------------------------
(* The operators.                                                          *)

LEMMA SameSeq == ASSUME NEW S, NEW s \in Seq(S), NEW t \in Seq(S), Len(s) = Len(t),
                        \A i \in 1..Len(s) : s[i] = t[i]
                 PROVE  s = t
OBVIOUS

LEMMA Pair == ASSUME NEW a \in Int, NEW b \in Int PROVE Append(<<a>>, b) = <<a, b>>
<1> DEFINE s == Append(<<a>>, b)
           t == <<a, b>>
<1>1. s \in Seq(Int) /\ t \in Seq(Int)
  OBVIOUS
<1>2. Len(s) = 2 /\ s[1] = a /\ s[2] = b /\ Len(t) = 2 /\ t[1] = a /\ t[2] = b
  OBVIOUS
<1> HIDE DEF s, t
<1>3. \A i \in 1..Len(s) : s[i] = t[i]
  BY <1>2
<1> QED
  BY <1>1, <1>2, <1>3, SameSeq DEF s, t

\* A length, with and without a header.
LEMMA Behind8 == ASSUME NEW a \in Int, NEW b \in Int, a = b - 8, b - 8 \in 16..1040
                 PROVE  a \in 16..1040
OBVIOUS

\* The numbers of a frame.
LEMMA FrameFacts == ASSUME NEW f \in AllFrames
                    PROVE  f.len \in Nat /\ f.ulen \in Nat
BY Ipv6Assumption DEF AllFrames

LEMMA OwedPacket == ASSUME NEW f \in AllFrames, NEW p, Owed(f) = <<p>>
                    PROVE  p \in Packets
<1>1. Owed(f) # <<>> /\ Owed(f)[1] = p
  OBVIOUS
<1> QED
  BY <1>1 DEF Packets

\* What is owed depends on the program that runs, and on nothing else.
LEMMA PacketsSame == app' = app => Packets' = Packets
BY DEF Packets, Owed, NoReply

\* A frame that is dropped adds nothing to what is owed.
LEMMA AnsweredNone ==
  ASSUME NEW s \in Seq(Packets), NEW n \in Nat, Answered(s, n), Owed(arrived[n + 1]) = <<>>
  PROVE  Answered(s, n + 1)
<1>1. PICK at \in [1..Len(s) -> 1..n] :
         /\ \A j, k \in 1..Len(s) : j < k => at[j] < at[k]
         /\ \A k \in 1..Len(s) : Owed(arrived[at[k]]) = <<s[k]>>
         /\ \A i \in 1..n : Owed(arrived[i]) # <<>> => \E k \in 1..Len(s) : at[k] = i
  BY DEF Answered
<1>2. at \in [1..Len(s) -> 1..n + 1]
  OBVIOUS
<1>3. \A i \in 1..n + 1 : Owed(arrived[i]) # <<>> => \E k \in 1..Len(s) : at[k] = i
  BY <1>1
<1> QED
  BY <1>1, <1>2, <1>3 DEF Answered

\* A frame that is answered adds its packet.
LEMMA AnsweredOne ==
  ASSUME NEW s \in Seq(Packets), NEW n \in Nat, Answered(s, n), NEW p \in Packets,
         Owed(arrived[n + 1]) = <<p>>
  PROVE  Answered(Append(s, p), n + 1)
<1>1. PICK at \in [1..Len(s) -> 1..n] :
         /\ \A j, k \in 1..Len(s) : j < k => at[j] < at[k]
         /\ \A k \in 1..Len(s) : Owed(arrived[at[k]]) = <<s[k]>>
         /\ \A i \in 1..n : Owed(arrived[i]) # <<>> => \E k \in 1..Len(s) : at[k] = i
  BY DEF Answered
<1> DEFINE t  == Append(s, p)
           to == [k \in 1..Len(s) + 1 |-> IF k = Len(s) + 1 THEN n + 1 ELSE at[k]]
<1>2. /\ Len(s) \in Nat /\ Len(t) = Len(s) + 1 /\ t[Len(s) + 1] = p
      /\ \A k \in 1..Len(s) : t[k] = s[k]
  OBVIOUS
<1>3. to \in [1..Len(t) -> 1..n + 1]
  BY <1>2
<1>4. \A j, k \in 1..Len(t) : j < k => to[j] < to[k]
  BY <1>1, <1>2
<1>5. \A k \in 1..Len(t) : Owed(arrived[to[k]]) = <<t[k]>>
  BY <1>1, <1>2
<1>6. \A i \in 1..n + 1 : Owed(arrived[i]) # <<>> => \E k \in 1..Len(t) : to[k] = i
  <2> SUFFICES ASSUME NEW i \in 1..n + 1, Owed(arrived[i]) # <<>>
               PROVE  \E k \in 1..Len(t) : to[k] = i
    OBVIOUS
  <2>1. CASE i = n + 1
    <3>1. Len(s) + 1 \in 1..Len(t) /\ to[Len(s) + 1] = i
      BY <1>2, <2>1
    <3> QED
      BY <3>1
  <2>2. CASE i # n + 1
    <3>1. PICK k \in 1..Len(s) : at[k] = i
      BY <1>1, <2>2
    <3>2. k \in 1..Len(t) /\ to[k] = i
      BY <1>2, <3>1
    <3> QED
      BY <3>2
  <2> QED
    BY <2>1, <2>2
<1> QED
  BY <1>3, <1>4, <1>5, <1>6 DEF Answered

\* An arrival changes nothing about the frames already there.
LEMMA AnsweredSame ==
  ASSUME app' = app, NEW s \in Seq(Packets), NEW n \in Nat,
         \A i \in 1..n : arrived'[i] = arrived[i], Answered(s, n)
  PROVE  \E at \in [1..Len(s) -> 1..n] :
           /\ \A j, k \in 1..Len(s) : j < k => at[j] < at[k]
           /\ \A k \in 1..Len(s) : Owed(arrived[at[k]])' = <<s[k]>>
           /\ \A i \in 1..n : Owed(arrived[i])' # <<>> => \E k \in 1..Len(s) : at[k] = i
<1>1. PICK at \in [1..Len(s) -> 1..n] :
         /\ \A j, k \in 1..Len(s) : j < k => at[j] < at[k]
         /\ \A k \in 1..Len(s) : Owed(arrived[at[k]]) = <<s[k]>>
         /\ \A i \in 1..n : Owed(arrived[i]) # <<>> => \E k \in 1..Len(s) : at[k] = i
  BY DEF Answered
<1>2. \A i \in 1..n : Owed(arrived[i])' = Owed(arrived[i])
  BY DEF Owed
<1> QED
  BY <1>1, <1>2

\* The packets on the wire and in the slots.
LEMMA SentType == SlotInv => Sent \in Seq(Packets)
<1> SUFFICES ASSUME SlotInv PROVE Sent \in Seq(Packets)
  OBVIOUS
<1> DEFINE P == [i \in 1..Len(tx) |-> slots[tx[i]]]
<1>1. Len(tx) \in Nat /\ \A i \in 1..Len(tx) : tx[i] \in {0, 1}
  BY DEF SlotInv
<1>2. P \in Seq(Packets)
  BY <1>1 DEF SlotInv
<1> QED
  BY <1>2 DEF Sent, SlotInv

-----------------------------------------------------------------------------
(* Step lemmas: one per part of the invariant.                             *)

LEMMA TypeInvStep == IInv /\ [Next]_vars => TypeInv'
<1> SUFFICES ASSUME IInv, [Next]_vars PROVE TypeInv'
  OBVIOUS
<1> USE DEF Step, history, mac, Labels, NoArg
<1>0. TypeInv /\ QueueInv /\ (pc \notin {"poll", "ack"} => rxbuf \in AllFrames)
  BY DEF IInv, FrameInv
<1>1. CASE Arrive
  BY <1>0, <1>1 DEF Arrive, TypeInv, AllFrames
<1>2. CASE Transmit
  BY <1>0, <1>2 DEF Transmit, TypeInv
<1>3. CASE eth_rx
  <2>1. Head(rx) \in AllFrames /\ Head(rx).len \in Nat
    BY <1>0, <1>3, FrameFacts DEF eth_rx, TypeInv
  <2>2. arg' \in [len : Int, port : Ports, mcast : {0, 1}]
    <3>1. 0 \in Ports
      BY DEF Ports
    <3> QED
      <4> DEFINE b == 0
      <4>1. arg' = arg \/ arg' = [len |-> Head(rx).len + 2, port |-> 0, mcast |-> b]
        BY <1>3 DEF eth_rx
      <4>2. b \in {0, 1} /\ Head(rx).len + 2 \in Int
        BY <2>1
      <4> HIDE DEF b
      <4>3. [len |-> Head(rx).len + 2, port |-> 0, mcast |-> b]
              \in [len : Int, port : Ports, mcast : {0, 1}]
        BY <3>1, <4>2
      <4> QED
        BY <1>0, <4>1, <4>3 DEF TypeInv
  <2> QED
    BY <1>0, <1>3, <2>1, <2>2 DEF eth_rx, TypeInv
<1>4. CASE net_rx_eth
  <2>1. arg' \in [len : Int, port : Ports, mcast : {0, 1}]
    <3>1. arg' = arg \/ arg' = [len |-> arg.len - 16, port |-> arg.port,
                                 mcast |-> IF rxbuf.dst = "ifc" THEN 0 ELSE 1]
      BY <1>4 DEF net_rx_eth, Call
    <3> DEFINE b == IF rxbuf.dst = "ifc" THEN 0 ELSE 1
    <3>2. b \in {0, 1} /\ arg.len - 16 \in Int /\ arg.port \in Ports
      BY <1>0 DEF TypeInv
    <3> HIDE DEF b
    <3>3. [len |-> arg.len - 16, port |-> arg.port, mcast |-> b]
            \in [len : Int, port : Ports, mcast : {0, 1}]
      BY <3>2
    <3> QED
      BY <1>0, <3>1, <3>3 DEF TypeInv, b
  <2> QED
    BY <1>0, <1>4, <2>1 DEF net_rx_eth, Call, Read, TypeInv
<1>5. CASE net_rx_ip6
  BY <1>0, <1>5 DEF net_rx_ip6, Call, Read, TypeInv
<1>6. CASE net_rx_udp6
  <2>1. rxbuf.ulen \in Nat /\ rxbuf.dport \in Ports
    BY <1>0, <1>6, FrameFacts DEF net_rx_udp6, Ports
  <2> QED
    <3>1. arg' = arg \/ arg' = [len |-> rxbuf.ulen - 8, port |-> rxbuf.dport,
                                 mcast |-> arg.mcast]
      BY <1>6 DEF net_rx_udp6, Call
    <3>2. arg' \in [len : Int, port : Ports, mcast : {0, 1}]
      BY <1>0, <2>1, <3>1 DEF TypeInv
    <3> QED
      BY <1>0, <1>6, <3>2 DEF net_rx_udp6, Call, Read, TypeInv
<1>7. CASE net_rx_icmp6
  BY <1>0, <1>7 DEF net_rx_icmp6, IcmpReply, Read, TypeInv
<1>8. CASE multipass
  BY <1>0, <1>8 DEF multipass, UdpReply, TypeInv
<1>9. CASE Drop
  BY <1>0, <1>9 DEF Drop, Read, TypeInv
<1>10. CASE query_reply
  BY <1>0, <1>10 DEF query_reply, Valid, UdpReply, Read, TypeInv
<1>11. CASE nb_write
  BY <1>0, <1>11 DEF nb_write, Valid, UdpReply, Read, TypeInv
<1>12. CASE nb_exec
  BY <1>0, <1>12 DEF nb_exec, Valid, UdpReply, Read, TypeInv
<1>13. CASE nb_badcmd
  BY <1>0, <1>13 DEF nb_badcmd, Valid, UdpReply, Read, TypeInv
<1>14. CASE eth_tx
  BY <1>0, <1>14 DEF eth_tx, TypeInv
<1>15. CASE eth_ack
  <2>1. arg' \in [len : Int, port : Ports, mcast : {0, 1}]
    BY <1>15 DEF eth_ack, Ports
  <2> QED
    BY <1>0, <1>15, <2>1 DEF eth_ack, TypeInv, QueueInv
<1>16. CASE UNCHANGED vars
  BY <1>0, <1>16 DEF vars, TypeInv
<1> QED
  BY <1>1, <1>2, <1>3, <1>4, <1>5, <1>6, <1>7, <1>8, <1>9, <1>10, <1>11, <1>12, <1>13,
     <1>14, <1>15, <1>16 DEF Next, Cpu, Idle

\* The slots are filled by the MAC and freed by eth_ack.
LEMMA QueueInvStep == IInv /\ [Next]_vars => QueueInv'
<1> SUFFICES ASSUME IInv, [Next]_vars PROVE QueueInv'
  OBVIOUS
<1> USE DEF Step, history, mac, Labels, Freed
<1>0. TypeInv /\ QueueInv
  BY DEF IInv
<1>1. CASE Arrive
  <2>1. PICK f \in AllFrames : rx' = Append(rx, f) /\ arrived' = Append(arrived, f)
    BY <1>1 DEF Arrive, AllFrames
  <2>2. UNCHANGED <<pc, handled>>
    BY <1>1 DEF Arrive
  <2>3. /\ Len(rx') = Len(rx) + 1 /\ rx'[Len(rx) + 1] = f
        /\ \A i \in 1..Len(rx) : rx'[i] = rx[i]
        /\ Len(arrived') = Len(arrived) + 1 /\ arrived'[Len(arrived) + 1] = f
        /\ \A i \in 1..Len(arrived) : arrived'[i] = arrived[i]
    BY <1>0, <2>1 DEF TypeInv
  <2>4. Len(rx) \in Nat /\ Len(arrived) \in Nat /\ handled \in Nat
    BY <1>0 DEF TypeInv
  <2> QED
    <3>1. rx' # <<>> /\ Freed' = Freed /\ Freed \in Int
      BY <2>2, <2>3, <2>4
    <3>2. pc # "poll" => handled > 0
      BY <1>0 DEF QueueInv
    <3>3. \A i \in 1..Len(rx') : rx'[i] = arrived'[Freed + i]
      <4>1. PICK d \in Int : d = Freed
        BY <3>1
      <4>2. Len(rx) = Len(arrived) - d /\ d >= 0
        BY <1>0, <2>4, <3>2, <4>1 DEF QueueInv
      <4>3. \A i \in 1..Len(rx) : rx[i] = arrived[d + i]
        BY <1>0, <4>1 DEF QueueInv
      <4>4. \A i \in 1..Len(rx') : rx'[i] = arrived'[d + i]
        <5> TAKE i \in 1..Len(rx')
        <5>1. i \in 1..Len(rx) \/ (i = Len(rx) + 1 /\ d + i = Len(arrived) + 1)
          BY <2>3, <2>4, <4>2
        <5>2. i \in 1..Len(rx) => d + i \in 1..Len(arrived)
          BY <2>4, <4>2
        <5> QED
          BY <2>3, <4>3, <5>1, <5>2
      <4> QED
        BY <4>1, <4>4
    <3> QED
      BY <1>0, <2>2, <2>3, <2>4, <3>1, <3>3 DEF QueueInv
<1>2. CASE Transmit
  BY <1>0, <1>2 DEF Transmit, TypeInv, QueueInv
<1>3. CASE eth_rx
  BY <1>0, <1>3 DEF eth_rx, TypeInv, QueueInv
<1>4. ASSUME pc \notin {"poll", "ack"}, pc' # "poll", UNCHANGED <<rx, arrived, handled>>
      PROVE  QueueInv'
  BY <1>0, <1>4 DEF TypeInv, QueueInv
<1>5. CASE net_rx_eth \/ net_rx_ip6 \/ net_rx_udp6
  BY <1>4, <1>5 DEF net_rx_eth, net_rx_ip6, net_rx_udp6, Call
<1>6. CASE net_rx_icmp6
  BY <1>4, <1>6 DEF net_rx_icmp6, IcmpReply
<1>7. CASE multipass \/ Drop \/ query_reply \/ nb_write \/ nb_exec \/ nb_badcmd
  BY <1>4, <1>7
     DEF multipass, Drop, query_reply, nb_write, nb_exec, nb_badcmd, Valid, UdpReply
<1>8. CASE eth_tx
  BY <1>4, <1>8 DEF eth_tx
<1>9. CASE eth_ack
  BY <1>0, <1>9 DEF eth_ack, TypeInv, QueueInv
<1>10. CASE UNCHANGED vars
  BY <1>0, <1>10 DEF vars, TypeInv, QueueInv
<1> QED
  BY <1>1, <1>2, <1>3, <1>5, <1>6, <1>7, <1>8, <1>9, <1>10 DEF Next, Cpu, Idle

\* How far each function reads, within the frame in rxbuf.
LEMMA FrameInvStep == IInv /\ [Next]_vars => FrameInv'
<1> SUFFICES ASSUME IInv, [Next]_vars PROVE FrameInv'
  OBVIOUS
<1> USE DEF Step, history, mac, Labels, NETBUF_MAX
<1>0. TypeInv /\ QueueInv /\ FrameInv /\ LengthInv /\ ChainInv
  BY DEF IInv
<1>1. CASE Arrive
  BY <1>0, <1>1 DEF Arrive, TypeInv, QueueInv, FrameInv, AllFrames
<1>2. CASE Transmit
  BY <1>0, <1>2 DEF Transmit, FrameInv
<1>3. CASE eth_rx
  <2>1. Head(rx) = arrived[handled + 1] /\ Head(rx) \in AllFrames /\ Head(rx).len \in Nat
    <3>1. Head(rx) = rx[1] /\ Len(rx) >= 1 /\ Head(rx) \in AllFrames
      BY <1>0, <1>3 DEF eth_rx, TypeInv
    <3>2. rx[1] = arrived[handled + 1]
      BY <1>0, <1>3, <3>1 DEF eth_rx, TypeInv, QueueInv, Freed
    <3> QED
      BY <3>1, <3>2, FrameFacts
  <2> QED
    BY <1>0, <1>3, <2>1 DEF eth_rx, FrameInv
<1>4. ASSUME pc \notin {"poll", "ack"}, pc' # "poll", UNCHANGED <<arrived, handled, rxbuf>>,
             seen' <= rxbuf.len + 2
      PROVE  FrameInv'
  BY <1>0, <1>4 DEF FrameInv
<1>5. pc \notin {"poll", "ack"} =>
        /\ rxbuf \in AllFrames /\ rxbuf.len \in Nat /\ rxbuf.ulen \in Nat
        /\ seen <= rxbuf.len + 2 /\ seen \in Nat
  BY <1>0, FrameFacts DEF FrameInv, TypeInv
<1>6. CASE net_rx_eth
  BY <1>0, <1>4, <1>5, <1>6 DEF net_rx_eth, Call, Read, LengthInv
<1>7. CASE net_rx_ip6
  BY <1>0, <1>4, <1>5, <1>7 DEF net_rx_ip6, Call, Read, LengthInv
<1>8. CASE net_rx_udp6
  BY <1>0, <1>4, <1>5, <1>8 DEF net_rx_udp6, Call, Read, LengthInv
<1>9. CASE net_rx_icmp6
  <2>1. arg.len \in Int /\ arg.len = rxbuf.len - 54 /\ arg.len >= 4
    BY <1>0, <1>9 DEF net_rx_icmp6, TypeInv, LengthInv
  <2>2. seen' <= rxbuf.len + 2
    BY <1>5, <1>9, <2>1 DEF net_rx_icmp6, Read
  <2> QED
    BY <1>4, <1>9, <2>2 DEF net_rx_icmp6, IcmpReply
<1>10. pc = "pkt_rx_udp" => arg.len \in Nat /\ 64 + arg.len <= rxbuf.len + 2
  BY <1>0 DEF TypeInv, LengthInv
<1>11. CASE multipass
  BY <1>4, <1>5, <1>11 DEF multipass, UdpReply
<1>12. CASE Drop
  <2>1. seen' <= rxbuf.len + 2
    <3>1. seen' = seen \/ (seen' \in {seen, 80, 64 + arg.len} /\ arg.len >= 16)
      BY <1>10, <1>12 DEF Drop, Read, NB_MSG_MIN, NB_MSG_MAX
    <3> QED
      BY <1>5, <1>10, <1>12, <3>1 DEF Drop
  <2> QED
    BY <1>4, <1>12, <2>1 DEF Drop
<1>13. CASE query_reply
  <2>1. seen' <= rxbuf.len + 2
    <3>1. seen' \in {seen, 80, 64 + arg.len} /\ arg.len >= 16
      BY <1>10, <1>13 DEF query_reply, Valid, Read, NB_MSG_MIN, NB_MSG_MAX
    <3> QED
      BY <1>5, <1>10, <1>13, <3>1 DEF query_reply, Valid
  <2> QED
    BY <1>4, <1>13, <2>1 DEF query_reply, Valid, UdpReply
<1>14. CASE nb_write
  BY <1>4, <1>5, <1>10, <1>14 DEF nb_write, Valid, UdpReply, Read, NB_MSG_MIN, NB_MSG_MAX
<1>15. CASE nb_exec \/ nb_badcmd
  <2>1. seen' <= rxbuf.len + 2
    <3>1. seen' \in {seen, 80} /\ arg.len >= 16
      BY <1>10, <1>15 DEF nb_exec, nb_badcmd, Valid, Read, NB_MSG_MIN, NB_MSG_MAX
    <3> QED
      BY <1>5, <1>10, <1>15, <3>1 DEF nb_exec, nb_badcmd, Valid
  <2> QED
    BY <1>4, <1>15, <2>1 DEF nb_exec, nb_badcmd, Valid, UdpReply
<1>16. CASE eth_tx
  BY <1>4, <1>5, <1>16 DEF eth_tx
<1>17. CASE eth_ack
  BY <1>17 DEF eth_ack, FrameInv
<1>18. CASE UNCHANGED vars
  BY <1>0, <1>18 DEF vars, FrameInv
<1> QED
  BY <1>1, <1>2, <1>3, <1>6, <1>7, <1>8, <1>9, <1>11, <1>12, <1>13, <1>14, <1>15, <1>16,
     <1>17, <1>18 DEF Next, Cpu, Idle

\* What is left behind the headers, and the size of a reply.
LEMMA LengthInvStep == IInv /\ [Next]_vars => LengthInv'
<1> SUFFICES ASSUME IInv, [Next]_vars PROVE LengthInv'
  OBVIOUS
<1> USE DEF Step, history, mac, Labels, NETBUF_MAX, NoReply
<1>0. TypeInv /\ QueueInv /\ FrameInv /\ LengthInv
  BY DEF IInv
<1>1. pc \notin {"poll", "ack"} => rxbuf.len \in Nat /\ rxbuf.ulen \in Nat
  BY <1>0, FrameFacts DEF FrameInv
<1>2. arg.len \in Int /\ seen \in Nat
  BY <1>0 DEF TypeInv
<1>3. CASE Arrive \/ Transmit \/ UNCHANGED vars
  BY <1>0, <1>3 DEF Arrive, Transmit, vars, LengthInv
<1>4. CASE eth_rx
  <2>1. Head(rx).len \in Nat
    BY <1>0, <1>4, FrameFacts DEF eth_rx, TypeInv
  <2>2. pc' = "net_rx_eth" => arg'.len = rxbuf'.len + 2
    BY <1>4, <2>1 DEF eth_rx, NoArg
  <2> QED
    BY <1>0, <1>4, <2>2 DEF eth_rx, LengthInv
<1>5. CASE net_rx_eth
  <2>1. pc' = "net_rx_ip6" => arg'.len = arg.len - 16 /\ arg.len >= 60 /\ seen' = 16
    BY <1>0, <1>5 DEF net_rx_eth, Call, Read, LengthInv
  <2>2. pc' \in {"net_rx_ip6", "ack"}
    BY <1>5 DEF net_rx_eth, Call
  <2> QED
    BY <1>0, <1>1, <1>2, <1>5, <2>1, <2>2 DEF net_rx_eth, LengthInv
<1>6. CASE net_rx_ip6
  <2>1. pc' # "ack" => arg'.len = arg.len - 40 /\ seen' = 56
    BY <1>0, <1>2, <1>6 DEF net_rx_ip6, Call, Read, LengthInv, TypeInv
  <2>2. pc' \in {"net_rx_udp6", "net_rx_icmp6", "ack"}
    BY <1>6 DEF net_rx_ip6, Call
  <2> QED
    BY <1>0, <1>1, <1>2, <1>6, <2>1, <2>2 DEF net_rx_ip6, LengthInv
<1>7. CASE net_rx_udp6
  <2>1. pc' # "ack" => /\ arg'.len = rxbuf.ulen - 8 /\ seen' = 64
                       /\ rxbuf.ulen >= 8 /\ rxbuf.ulen <= arg.len
    BY <1>0, <1>2, <1>7 DEF net_rx_udp6, Call, Read, LengthInv
  <2>2. pc' \in {"pkt_rx_udp", "ack"}
    BY <1>7 DEF net_rx_udp6, Call
  <2> QED
    BY <1>0, <1>1, <1>2, <1>7, <2>1, <2>2 DEF net_rx_udp6, LengthInv
<1>8. CASE net_rx_icmp6
  <2>1. arg.len = rxbuf.len - 54 /\ arg.len >= 4 /\ rxbuf.len \in Nat /\ rxbuf' = rxbuf
    BY <1>0, <1>1, <1>8 DEF net_rx_icmp6, LengthInv
  <2>2. \/ pc' = "ack" /\ reply' = reply
        \/ pc' = "eth_tx" /\ reply' # NoReply /\ reply'.len \in Int /\ reply'.len <= 54 + 1480
    <3>1. ASSUME NEW k, NEW n \in Int, NEW b, IcmpReply(k, n, b)
          PROVE  \/ pc' = "ack" /\ reply' = reply
                 \/ pc' = "eth_tx" /\ reply' # NoReply /\ reply'.len \in Int
                    /\ reply'.len <= 54 + 1480
      BY <3>1 DEF IcmpReply, Packet
    <3> QED
      BY <1>2, <1>8, <3>1 DEF net_rx_icmp6
  <2> QED
    BY <1>0, <2>2 DEF LengthInv
<1>9. ASSUME NEW n \in Int, NEW p, NEW b, UdpReply(n, p, b)
      PROVE  \/ pc' = "ack" /\ reply' = reply
             \/ /\ pc' = "eth_tx" /\ reply' # NoReply
                /\ reply'.len \in Int /\ reply'.len <= 62 + 1472
  BY <1>9 DEF UdpReply, Packet
<1>10. CASE multipass \/ query_reply \/ nb_write \/ nb_exec \/ nb_badcmd
  <2>1. \/ pc' = "ack" /\ reply' = reply
        \/ /\ pc' = "eth_tx" /\ reply' # NoReply
           /\ reply'.len \in Int /\ reply'.len <= 62 + 1472
    BY <1>9, <1>10
       DEF multipass, query_reply, nb_write, nb_exec, nb_badcmd, NB_MSG_MIN, NameLen
  <2> QED
    BY <1>0, <2>1 DEF LengthInv
<1>11. CASE Drop \/ eth_tx \/ eth_ack
  BY <1>0, <1>11 DEF Drop, eth_tx, eth_ack, LengthInv
<1> QED
  BY <1>3, <1>4, <1>5, <1>6, <1>7, <1>8, <1>10, <1>11 DEF Next, Cpu, Idle

-----------------------------------------------------------------------------
(* The decisions.  A dropped frame is owed nothing, an answered one the    *)
(* packet built for it.                                                    *)

\* Both addresses must be the interface's own, or both one of its groups.
LEMMA ForUsFacts ==
  ASSUME NEW f
  PROVE  ForUs(f) <=>
           /\ f.len \in 58..1534 /\ f.type = "ip6"
           /\ \/ f.dst = "ifc" /\ f.ipdst = "ifc"
              \/ f.dst \in {"ns", "ll"} /\ f.ipdst \in {"ns", "ll"}
BY DEF ForUs

LEMMA ForUsLength == ASSUME NEW f, f.len \in Nat, ForUs(f)
                     PROVE  f.len >= 58 /\ f.len <= 1534
<1>1. f.len \in 58..1534
  BY DEF ForUs
<1> QED
  BY <1>1

LEMMA NotForUs == ASSUME NEW f, ~ForUs(f) PROVE Owed(f) = <<>>
BY DEF Owed, OwedBy, Datagram, Message, Named

LEMMA NoProtocol == ASSUME NEW f, f.next \notin {"udp", "icmp"} PROVE Owed(f) = <<>>
BY DEF Owed, OwedBy, Datagram, Message, Named

LEMMA NoDatagram == ASSUME NEW f, f.next = "udp", ~Datagram(f) PROVE Owed(f) = <<>>
BY DEF Owed, OwedBy, Datagram, Message, Named

LEMMA OwedIcmp ==
  ASSUME NEW f, ForUs(f), f.next = "icmp"
  PROVE  /\ f.icmp = "echo" =>
              Owed(f) = Icmp(f, "echo_reply", f.len - 54, <<0, "none", f.body>>)
         /\ f.icmp = "solicit" /\ f.len >= 78 /\ f.code = 0 /\ f.target = "ifc" =>
              Owed(f) = Icmp(f, "advertise", 32, <<0, "none", "ifc">>)
         /\ f.icmp # "echo" /\ ~(f.icmp = "solicit" /\ f.len >= 78 /\ f.code = 0
                                 /\ f.target = "ifc") => Owed(f) = <<>>
BY DEF Owed, OwedBy, Datagram, Message, Named

LEMMA OwedUdp ==
  ASSUME NEW f, Datagram(f)
  PROVE  /\ app = "ex05" => Owed(f) = Udp(f, f.dport, 10, <<0, "none", "multipass">>)
         /\ app = "netboot" /\ ~Message(f) => Owed(f) = <<>>
         /\ app = "netboot" /\ Message(f) /\ f.dport # CTRL /\ ~Named(f) => Owed(f) = <<>>
         /\ app = "netboot" /\ Message(f) /\ f.cmd = "QUERY" /\ (f.dport = CTRL \/ Named(f)) =>
              Owed(f) = Udp(f, CTRL, 28, <<f.seq, "OK", "name=device">>)
         /\ app = "netboot" /\ Message(f) /\ f.cmd # "QUERY" /\ f.dport = CTRL =>
              Owed(f) = Udp(f, CTRL, NB_MSG_MIN,
                <<f.seq, IF f.cmd \in {"WRITE", "EXEC"} THEN "OK" ELSE "BADCMD", "none">>)
BY DEF Owed, OwedBy, Datagram, Message, Named, CTRL, QUERY_PORT

\* The functions of the stack and the callbacks; eth_tx and eth_ack end them.
Function == \/ net_rx_eth \/ net_rx_ip6 \/ net_rx_udp6 \/ net_rx_icmp6
            \/ multipass \/ Drop \/ query_reply \/ nb_write \/ nb_exec \/ nb_badcmd

\* Each of them drops a frame that is owed nothing or builds the packet it is owed.
LEMMA Outcome == ASSUME IInv, Function
                 PROVE  /\ pc' = "ack" => Owed(rxbuf) = <<>>
                        /\ pc' = "eth_tx" => Owed(rxbuf) = <<reply'>>
<1> USE DEF Step, Labels
<1>0. TypeInv /\ FrameInv /\ LengthInv /\ ChainInv
  BY DEF IInv
<1>1. pc \notin {"poll", "ack"}
  BY DEF Function, net_rx_eth, net_rx_ip6, net_rx_udp6, net_rx_icmp6, multipass, Drop,
         query_reply, nb_write, nb_exec, nb_badcmd, Valid
<1>2. /\ rxbuf.len \in Nat /\ rxbuf.ulen \in Nat
      /\ rxbuf.len <= 1534 /\ arg.len \in Int
  BY <1>0, <1>1, FrameFacts DEF FrameInv, TypeInv, NETBUF_MAX
<1>3. CASE net_rx_eth
  <2>0. pc' = "ack" =>
          ~(arg.len >= 60 /\ rxbuf.type = "ip6" /\ rxbuf.dst \in {"ifc", "ns", "ll"})
    BY <1>3 DEF net_rx_eth, Call
  <2>1. pc' = "ack" => ~ForUs(rxbuf)
    <3>1. arg.len = rxbuf.len + 2
      BY <1>0, <1>3 DEF net_rx_eth, LengthInv
    <3> QED
      <4>1. ForUs(rxbuf) => /\ rxbuf.len >= 58 /\ rxbuf.type = "ip6"
                            /\ rxbuf.dst \in {"ifc", "ns", "ll"}
        BY <1>2, ForUsLength, ForUsFacts
      <4>2. rxbuf.len >= 58 => arg.len >= 60
        BY <1>2, <3>1
      <4> QED
        BY <2>0, <4>1, <4>2
  <2>2. pc' # "eth_tx"
    BY <1>3 DEF net_rx_eth, Call
  <2> QED
    BY <2>1, <2>2, NotForUs
<1>4. CASE net_rx_ip6
  <2>1. pc' = "ack" => ~ForUs(rxbuf) \/ rxbuf.next \notin {"udp", "icmp"}
    <3>1. pc' = "ack" => \/ rxbuf.ipdst \notin IF arg.mcast = 1 THEN {"ns", "ll"} ELSE {"ifc"}
                         \/ rxbuf.next \notin {"udp", "icmp"}
      BY <1>4 DEF net_rx_ip6, Call
    <3>2. arg.mcast = (IF rxbuf.dst = "ifc" THEN 0 ELSE 1)
      BY <1>0, <1>4 DEF net_rx_ip6, ChainInv
    <3>3. CASE rxbuf.dst = "ifc"
      <4>1. arg.mcast = 0
        BY <3>2, <3>3
      <4> QED
        BY <3>1, <3>3, <4>1, ForUsFacts
    <3>4. CASE rxbuf.dst # "ifc"
      <4>1. arg.mcast = 1
        BY <3>2, <3>4
      <4> QED
        BY <3>1, <3>4, <4>1, ForUsFacts
    <3> QED
      BY <3>3, <3>4
  <2>2. pc' # "eth_tx"
    BY <1>4 DEF net_rx_ip6, Call
  <2> QED
    BY <2>1, <2>2, NotForUs, NoProtocol
<1>5. CASE net_rx_udp6
  <2>1. rxbuf.next = "udp" /\ arg.len = rxbuf.len - 54
    BY <1>0, <1>5 DEF net_rx_udp6, ChainInv, LengthInv
  <2>2. pc' = "ack" => ~Datagram(rxbuf)
    BY <1>2, <1>5, <2>1 DEF net_rx_udp6, Call, Datagram
  <2>3. pc' # "eth_tx"
    BY <1>5 DEF net_rx_udp6, Call
  <2> QED
    BY <2>1, <2>2, <2>3, NoDatagram
<1>6. CASE net_rx_icmp6
  <2>1. ForUs(rxbuf) /\ rxbuf.next = "icmp" /\ arg.len = rxbuf.len - 54 /\ arg.len >= 4
    BY <1>0, <1>6 DEF net_rx_icmp6, ChainInv, LengthInv
  <2>2. ASSUME NEW k, NEW n \in Int, n <= 1480, NEW b, IcmpReply(k, n, b)
        PROVE  pc' = "eth_tx" /\ <<reply'>> = Icmp(rxbuf, k, n, b)
    BY <2>2 DEF IcmpReply, Packet, Icmp, NETBUF_MAX
  <2> DEFINE solicit == rxbuf.icmp = "solicit" /\ rxbuf.len >= 78 /\ rxbuf.code = 0
                        /\ rxbuf.target = "ifc"
  <2>3. CASE solicit
    <3>1. IcmpReply("advertise", 32, <<0, "none", "ifc">>)
      BY <1>2, <1>6, <2>1, <2>3 DEF net_rx_icmp6
    <3> QED
      <4>1. Owed(rxbuf) = Icmp(rxbuf, "advertise", 32, <<0, "none", "ifc">>)
        BY <2>1, <2>3, OwedIcmp
      <4>2. pc' = "eth_tx" /\ <<reply'>> = Icmp(rxbuf, "advertise", 32, <<0, "none", "ifc">>)
        BY <2>2, <3>1
      <4> QED
        BY <4>1, <4>2
  <2>4. CASE rxbuf.icmp = "echo"
    <3>1. IcmpReply("echo_reply", arg.len, <<0, "none", rxbuf.body>>)
      BY <1>2, <1>6, <2>1, <2>4 DEF net_rx_icmp6
    <3> QED
      BY <1>2, <2>1, <2>2, <2>4, <3>1, OwedIcmp
  <2>5. CASE ~solicit /\ rxbuf.icmp # "echo"
    <3>1. pc' = "ack"
      BY <1>2, <1>6, <2>1, <2>5 DEF net_rx_icmp6
    <3> QED
      BY <2>1, <2>5, <3>1, OwedIcmp
  <2> QED
    BY <2>3, <2>4, <2>5
<1>7. pc = "pkt_rx_udp" =>
        Datagram(rxbuf) /\ arg.len = rxbuf.ulen - 8 /\ arg.port = rxbuf.dport
  BY <1>0 DEF ChainInv
<1>8. ASSUME NEW n \in Int, n <= 1472, NEW p, NEW b, UdpReply(n, p, b)
      PROVE  pc' = "eth_tx" /\ <<reply'>> = Udp(rxbuf, p, n, b)
  BY <1>8 DEF UdpReply, Packet, Udp, NETBUF_MAX
<1>9. CASE multipass
  BY <1>7, <1>8, <1>9, OwedUdp DEF multipass
<1>10. CASE Drop
  <2>1. pc = "pkt_rx_udp" /\ pc' = "ack" /\ app = "netboot"
    BY <1>10 DEF Drop
  <2>2. \/ ~Message(rxbuf)
        \/ Message(rxbuf) /\ rxbuf.dport # CTRL /\ ~Named(rxbuf)
    <3>1. \/ arg.len \notin 16..1040 \/ rxbuf.magic # NB_MAGIC
          \/ /\ arg.port # CTRL
             /\ ~(/\ arg.port = QUERY_PORT /\ rxbuf.cmd = "QUERY" /\ arg.len = 22
                  /\ rxbuf.body = "device")
      BY <1>10 DEF Drop, NB_MSG_MIN, NB_MSG_MAX, NameLen
    <3>2. Message(rxbuf) => arg.len \in 16..1040 /\ rxbuf.magic = NB_MAGIC
      <4>1. Message(rxbuf) => rxbuf.ulen - 8 \in 16..1040 /\ rxbuf.magic = NB_MAGIC
        BY DEF Message, NB_MSG_MIN, NB_MSG_MAX
      <4>2. arg.len = rxbuf.ulen - 8
        BY <1>7, <2>1
      <4> QED
        BY <1>2, <4>1, <4>2, Behind8
    <3>3. Named(rxbuf) => /\ arg.port = QUERY_PORT /\ rxbuf.cmd = "QUERY" /\ arg.len = 22
                          /\ rxbuf.body = "device"
      BY <1>2, <1>7, <2>1 DEF Named, NB_MSG_MIN, NameLen
    <3> QED
      BY <1>7, <2>1, <3>1, <3>2, <3>3
  <2> QED
    BY <1>7, <2>1, <2>2, OwedUdp
<1>11. ASSUME Valid PROVE Message(rxbuf) /\ pc = "pkt_rx_udp" /\ app = "netboot"
  <2>1. arg.len \in 16..1040 /\ rxbuf.magic = NB_MAGIC /\ pc = "pkt_rx_udp" /\ app = "netboot"
    BY <1>2, <1>11 DEF Valid, NB_MSG_MIN, NB_MSG_MAX
  <2>2. rxbuf.ulen - 8 \in 16..1040 /\ Datagram(rxbuf)
    BY <1>7, <2>1
  <2> QED
    BY <2>1, <2>2 DEF Message, NB_MSG_MIN, NB_MSG_MAX
<1>12. CASE query_reply
  <2>1. rxbuf.cmd = "QUERY" /\ (rxbuf.dport = CTRL \/ Named(rxbuf))
    BY <1>2, <1>7, <1>11, <1>12 DEF query_reply, Named, NameLen, NB_MSG_MIN
  <2>2. UdpReply(28, CTRL, <<rxbuf.seq, "OK", "name=device">>)
    BY <1>12 DEF query_reply, NameLen, NB_MSG_MIN
  <2> QED
    <3>1. /\ pc' = "eth_tx"
          /\ <<reply'>> = Udp(rxbuf, CTRL, 28, <<rxbuf.seq, "OK", "name=device">>)
      BY <1>8, <2>2
    <3>2. Message(rxbuf) /\ Datagram(rxbuf) /\ app = "netboot"
      BY <1>7, <1>11, <1>12 DEF query_reply
    <3> QED
      BY <2>1, <3>1, <3>2, OwedUdp
<1>13. CASE nb_write \/ nb_exec
  <2>1. rxbuf.cmd \in {"WRITE", "EXEC"} /\ rxbuf.dport = CTRL /\ Valid
    BY <1>7, <1>11, <1>13 DEF nb_write, nb_exec
  <2>2. UdpReply(NB_MSG_MIN, CTRL, <<rxbuf.seq, "OK", "none">>)
    BY <1>13 DEF nb_write, nb_exec
  <2> QED
    <3>1. /\ pc' = "eth_tx"
          /\ <<reply'>> = Udp(rxbuf, CTRL, NB_MSG_MIN, <<rxbuf.seq, "OK", "none">>)
      BY <1>8, <2>2 DEF NB_MSG_MIN
    <3>2. Message(rxbuf) /\ Datagram(rxbuf) /\ app = "netboot"
      BY <1>7, <1>11, <2>1
    <3> QED
      BY <2>1, <3>1, <3>2, OwedUdp
<1>14. CASE nb_badcmd
  <2>1. rxbuf.cmd \notin {"QUERY", "WRITE", "EXEC"} /\ rxbuf.dport = CTRL /\ Valid
    BY <1>7, <1>11, <1>14 DEF nb_badcmd
  <2>2. UdpReply(NB_MSG_MIN, CTRL, <<rxbuf.seq, "BADCMD", "none">>)
    BY <1>14 DEF nb_badcmd
  <2> QED
    <3>1. /\ pc' = "eth_tx"
          /\ <<reply'>> = Udp(rxbuf, CTRL, NB_MSG_MIN, <<rxbuf.seq, "BADCMD", "none">>)
      BY <1>8, <2>2 DEF NB_MSG_MIN
    <3>2. Message(rxbuf) /\ Datagram(rxbuf) /\ app = "netboot"
      BY <1>7, <1>11, <2>1
    <3> QED
      BY <2>1, <3>1, <3>2, OwedUdp
<1> QED
  BY <1>3, <1>4, <1>5, <1>6, <1>9, <1>10, <1>12, <1>13, <1>14 DEF Function

\* What the next function may rely on.
LEMMA ChainInvStep == IInv /\ [Next]_vars => ChainInv'
<1> SUFFICES ASSUME IInv, [Next]_vars PROVE ChainInv'
  OBVIOUS
<1> USE DEF Step, history, mac, Labels
<1>0. TypeInv /\ FrameInv /\ LengthInv /\ ChainInv
  BY DEF IInv
<1>1. pc \notin {"poll", "ack"} =>
        /\ rxbuf.len \in Nat /\ rxbuf.ulen \in Nat
        /\ rxbuf.len <= 1534 /\ arg.len \in Int
  BY <1>0, FrameFacts DEF FrameInv, TypeInv, NETBUF_MAX
<1>2. CASE Arrive \/ Transmit \/ UNCHANGED vars
  BY <1>0, <1>2 DEF Arrive, Transmit, vars, ChainInv, Owed
<1>3. CASE eth_rx \/ eth_tx \/ eth_ack
  BY <1>3 DEF eth_rx, eth_tx, eth_ack, ChainInv
<1>4. ASSUME Function PROVE pc' = "eth_tx" => Owed(rxbuf)' = <<reply'>>
  <2>1. UNCHANGED <<app, rxbuf>>
    BY <1>4 DEF Function, net_rx_eth, net_rx_ip6, net_rx_udp6, net_rx_icmp6, multipass,
                Drop, query_reply, nb_write, nb_exec, nb_badcmd, Valid
  <2> QED
    BY <1>4, <2>1, Outcome DEF Owed
<1>5. CASE net_rx_eth
  <2>1. pc' \in {"net_rx_ip6", "ack"} /\ rxbuf' = rxbuf
    BY <1>5 DEF net_rx_eth, Call
  <2>2. pc' = "net_rx_ip6" =>
          /\ rxbuf.type = "ip6" /\ rxbuf.dst \in {"ifc", "ns", "ll"}
          /\ arg'.mcast = (IF rxbuf.dst = "ifc" THEN 0 ELSE 1)
    BY <1>5 DEF net_rx_eth, Call
  <2> QED
    BY <2>1, <2>2 DEF ChainInv
<1>6. CASE net_rx_ip6
  <2>1. pc' \in {"net_rx_udp6", "net_rx_icmp6", "ack"} /\ rxbuf' = rxbuf
    BY <1>6 DEF net_rx_ip6, Call
  <2>2. pc' # "ack" => /\ rxbuf.ipdst \in IF arg.mcast = 1 THEN {"ns", "ll"} ELSE {"ifc"}
                       /\ rxbuf.next = IF pc' = "net_rx_udp6" THEN "udp" ELSE "icmp"
    BY <1>6 DEF net_rx_ip6, Call
  <2>3. pc' # "ack" => ForUs(rxbuf)
    <3>0. pc = "net_rx_ip6"
      BY <1>6 DEF net_rx_ip6
    <3>a. /\ arg.mcast = (IF rxbuf.dst = "ifc" THEN 0 ELSE 1) /\ rxbuf.type = "ip6"
          /\ rxbuf.dst \in {"ifc", "ns", "ll"}
      BY <1>0, <3>0 DEF ChainInv
    <3>b. arg.len = rxbuf.len - 14 /\ arg.len >= 44
      BY <1>0, <3>0 DEF LengthInv
    <3>c. rxbuf.len \in 58..1534
      <4>1. rxbuf.len \in Int /\ arg.len \in Int /\ rxbuf.len <= 1534
        BY <1>1, <3>0
      <4>2. PICK b \in Int : b = rxbuf.len
        BY <4>1
      <4>3. b <= 1534 /\ b - 14 >= 44
        BY <3>b, <4>1, <4>2
      <4>4. b \in 58..1534
        BY <4>3
      <4> QED
        BY <4>2, <4>4
    <3>1. /\ arg.mcast = (IF rxbuf.dst = "ifc" THEN 0 ELSE 1) /\ rxbuf.type = "ip6"
          /\ rxbuf.dst \in {"ifc", "ns", "ll"} /\ rxbuf.len \in 58..1534
      BY <3>a, <3>c
    <3>2. CASE rxbuf.dst = "ifc"
      <4>1. arg.mcast = 0
        BY <3>1, <3>2
      <4> QED
        BY <2>2, <3>1, <3>2, <4>1, ForUsFacts
    <3>3. CASE rxbuf.dst # "ifc"
      <4>1. arg.mcast = 1
        BY <3>1, <3>3
      <4> QED
        BY <2>2, <3>1, <3>3, <4>1, ForUsFacts
    <3> QED
      BY <3>2, <3>3
  <2> QED
    BY <2>1, <2>2, <2>3 DEF ChainInv, ForUs
<1>7. CASE net_rx_udp6
  <2>1. pc' \in {"pkt_rx_udp", "ack"} /\ rxbuf' = rxbuf
    BY <1>7 DEF net_rx_udp6, Call
  <2>2. pc' = "pkt_rx_udp" => /\ arg'.len = rxbuf.ulen - 8 /\ arg'.port = rxbuf.dport
                              /\ arg.len >= 8 /\ rxbuf.ulen >= 8 /\ rxbuf.ulen <= arg.len
    BY <1>7 DEF net_rx_udp6, Call
  <2>3. pc' = "pkt_rx_udp" => Datagram(rxbuf)
    BY <1>0, <1>1, <1>7, <2>2 DEF net_rx_udp6, ChainInv, LengthInv, Datagram
  <2> QED
    BY <2>1, <2>2, <2>3 DEF ChainInv, Datagram, ForUs
<1>8. CASE net_rx_icmp6
  <2>1. pc' \in {"eth_tx", "ack"}
    BY <1>8 DEF net_rx_icmp6, IcmpReply
  <2> QED
    BY <1>4, <1>8, <2>1 DEF Function, ChainInv
<1>9. CASE multipass \/ Drop \/ query_reply \/ nb_write \/ nb_exec \/ nb_badcmd
  <2>1. pc' \in {"eth_tx", "ack"}
    BY <1>9 DEF multipass, Drop, query_reply, nb_write, nb_exec, nb_badcmd, UdpReply
  <2> QED
    BY <1>4, <1>9, <2>1 DEF Function, ChainInv
<1> QED
  BY <1>2, <1>3, <1>5, <1>6, <1>7, <1>8, <1>9 DEF Next, Cpu, Idle

\* The transmit slots are used in turn, and hold packets that are owed.
LEMMA SlotInvStep == IInv /\ [Next]_vars => SlotInv'
<1> SUFFICES ASSUME IInv, [Next]_vars PROVE SlotInv'
  OBVIOUS
<1> USE DEF Step, history, mac, Labels
<1>0. SlotInv /\ FrameInv /\ ChainInv
  BY DEF IInv
<1>1. app' = app
  BY DEF Next, Cpu, Idle, vars, Arrive, Transmit, eth_rx, net_rx_eth, net_rx_ip6,
         net_rx_udp6, net_rx_icmp6, multipass, Drop, query_reply, nb_write, nb_exec,
         nb_badcmd, Valid, eth_tx, eth_ack
<1>2. Packets' = Packets
  BY <1>1, PacketsSame
<1>3. CASE UNCHANGED <<txslot, slots, tx, wire>>
  BY <1>0, <1>2, <1>3 DEF SlotInv
<1>4. CASE Transmit
  <2>1. tx \in {<<1 - txslot>>, <<txslot, 1 - txslot>>} /\ Head(tx) \in {0, 1}
    BY <1>0, <1>4 DEF Transmit, SlotInv
  <2>2. tx' \in {<<>>, <<1 - txslot>>}
    <3>1. tx = <<1 - txslot>> => tx' = <<>>
      BY <1>4 DEF Transmit
    <3>2. tx = <<txslot, 1 - txslot>> => tx' = <<1 - txslot>>
      BY <1>4 DEF Transmit
    <3> QED
      BY <2>1, <3>1, <3>2
  <2>3. wire' \in Seq(Packets)
    BY <1>0, <1>4, <2>1 DEF Transmit, SlotInv
  <2> QED
    BY <1>0, <1>2, <1>4, <2>2, <2>3 DEF Transmit, SlotInv
<1>5. CASE eth_tx
  <2>1. reply \in Packets
    BY <1>0, <1>5, OwedPacket DEF eth_tx, FrameInv, ChainInv
  <2>2. CASE ~(reply.len > NETBUF_MAX - 2)
    <3>1. tx \in {<<>>, <<1 - txslot>>}
      BY <1>0, <1>5, <2>2 DEF eth_tx, SlotInv, TX_SLOTS
    <3>2. txslot' = 1 - txslot /\ txslot \in {0, 1} /\ tx' = Append(tx, txslot)
      BY <1>0, <1>5, <2>2 DEF eth_tx, SlotInv
    <3>3. tx' \in {<<1 - txslot'>>, <<txslot', 1 - txslot'>>} /\ txslot' \in {0, 1}
      <4>1. tx = <<>> => tx' = <<txslot>>
        BY <3>2
      <4>2. Append(<<1 - txslot>>, txslot) = <<1 - txslot, txslot>>
        BY <3>2, Pair
      <4>3. 1 - txslot' = txslot
        BY <3>2
      <4> QED
        BY <3>1, <3>2, <4>1, <4>2, <4>3
    <3>4. slots' \in [{0, 1} -> Packets]
      BY <1>0, <1>5, <2>1, <2>2 DEF eth_tx, SlotInv
    <3> QED
      BY <1>0, <1>2, <1>5, <3>3, <3>4 DEF eth_tx, SlotInv
  <2> QED
    BY <1>3, <1>5, <2>2 DEF eth_tx
<1> QED
  BY <1>3, <1>4, <1>5
     DEF Next, Cpu, Idle, vars, Arrive, eth_rx, net_rx_eth, net_rx_ip6, net_rx_udp6,
         net_rx_icmp6, multipass, Drop, query_reply, nb_write, nb_exec, nb_badcmd, Valid,
         eth_ack

\* Sending moves a packet from its slot to the wire.
LEMMA SentOnTransmit == ASSUME SlotInv, Transmit PROVE Sent' = Sent
<1> DEFINE P == [i \in 1..Len(tx) |-> slots[tx[i]]]
           Q == [i \in 1..Len(tx') |-> slots[tx'[i]]]
<1>1. /\ wire \in Seq(Packets) /\ slots \in [{0, 1} -> Packets] /\ slots' = slots
      /\ wire' = Append(wire, slots[Head(tx)]) /\ tx' = Tail(tx)
      /\ tx \in {<<1 - txslot>>, <<txslot, 1 - txslot>>} /\ txslot \in {0, 1}
  BY DEF SlotInv, Transmit
<1>2. /\ Len(tx) \in {1, 2} /\ Len(tx') = Len(tx) - 1
      /\ Head(tx) = tx[1] /\ tx[1] \in {0, 1}
      /\ \A i \in 1..Len(tx') : tx'[i] = tx[i + 1] /\ tx'[i] \in {0, 1}
  BY <1>1
<1>3. P = <<slots[tx[1]]>> \o Q /\ Q \in Seq(Packets) /\ slots[tx[1]] \in Packets
  <2>1. Q \in Seq(Packets) /\ slots[tx[1]] \in Packets
    BY <1>1, <1>2
  <2>2. P \in Seq(Packets) /\ Len(P) = Len(Q) + 1
    <3>1. \A i \in 1..Len(tx) : tx[i] \in {0, 1}
      <4>1. CASE tx = <<1 - txslot>>
        BY <1>1, <4>1
      <4>2. CASE tx = <<txslot, 1 - txslot>>
        <5>1. Len(tx) = 2 /\ tx[1] = txslot /\ tx[2] = 1 - txslot
          BY <4>2
        <5> QED
          BY <1>1, <5>1
      <4> QED
        BY <1>1, <4>1, <4>2
    <3> QED
      BY <1>1, <1>2, <3>1
  <2>3. \A i \in 1..Len(P) : P[i] = (<<slots[tx[1]]>> \o Q)[i]
    BY <1>1, <1>2
  <2> HIDE DEF P, Q
  <2>4. <<slots[tx[1]]>> \o Q \in Seq(Packets) /\ Len(<<slots[tx[1]]>> \o Q) = Len(Q) + 1
    BY <2>1
  <2> QED
    BY <2>1, <2>2, <2>3, <2>4, SameSeq
<1> HIDE DEF P, Q
<1>4. ASSUME NEW p \in Packets
      PROVE  Append(wire, p) \o Q = wire \o (<<p>> \o Q)
  BY <1>1, <1>3
<1>5. Sent = wire \o P /\ Sent' = wire' \o Q
  BY <1>1 DEF Sent, P, Q
<1> QED
  BY <1>1, <1>2, <1>3, <1>4, <1>5

\* eth_tx adds the reply; the slot it takes is not waiting to be sent.
LEMMA SentOnTx ==
  ASSUME SlotInv, eth_tx, reply.len \in Int, reply.len + 2 <= NETBUF_MAX, reply \in Packets
  PROVE  Sent' = Append(Sent, reply)
<1> DEFINE P == [i \in 1..Len(tx) |-> slots[tx[i]]]
           Q == [i \in 1..Len(tx') |-> slots'[tx'[i]]]
<1>1. /\ wire \in Seq(Packets) /\ slots \in [{0, 1} -> Packets] /\ wire' = wire
      /\ slots' = [slots EXCEPT ![txslot] = reply] /\ tx' = Append(tx, txslot)
      /\ tx \in {<<>>, <<1 - txslot>>} /\ txslot \in {0, 1}
  BY DEF SlotInv, eth_tx, TX_SLOTS, NETBUF_MAX
<1>2. /\ Len(tx) \in {0, 1} /\ Len(tx') = Len(tx) + 1 /\ tx'[Len(tx) + 1] = txslot
      /\ \A i \in 1..Len(tx) : tx'[i] = tx[i] /\ tx[i] = 1 - txslot
  BY <1>1
<1>3. P \in Seq(Packets) /\ Q = Append(P, reply)
  <2>1. P \in Seq(Packets) /\ Len(P) = Len(tx)
    BY <1>1, <1>2
  <2>2. Q \in Seq(Packets) /\ Len(Q) = Len(tx) + 1
    BY <1>1, <1>2
  <2>3. \A i \in 1..Len(tx) + 1 : Q[i] = Append(P, reply)[i]
    BY <1>1, <1>2, <2>1
  <2> HIDE DEF P, Q
  <2>4. Append(P, reply) \in Seq(Packets) /\ Len(Append(P, reply)) = Len(tx) + 1
    BY <2>1
  <2> QED
    BY <2>1, <2>2, <2>3, <2>4, SameSeq
<1> HIDE DEF P, Q
<1>4. wire \o Append(P, reply) = Append(wire \o P, reply)
  BY <1>1, <1>3
<1>5. Sent = wire \o P /\ Sent' = wire' \o Q
  BY DEF Sent, P, Q
<1> QED
  BY <1>1, <1>3, <1>4, <1>5

\* Every frame handled is answered.
LEMMA AnswerInvStep == IInv /\ [Next]_vars => AnswerInv'
<1> SUFFICES ASSUME IInv, [Next]_vars PROVE AnswerInv'
  OBVIOUS
<1> USE DEF Step, history, mac, Labels
<1>0. /\ TypeInv /\ QueueInv /\ FrameInv /\ LengthInv /\ ChainInv /\ SlotInv
      /\ Answered(Sent, Done)
  BY DEF IInv, AnswerInv
<1>1. Sent \in Seq(Packets) /\ Done \in Nat /\ handled \in Nat
  BY <1>0, SentType DEF TypeInv, QueueInv, Done
<1>2. ASSUME UNCHANGED <<app, wire, tx, slots, arrived>>, Answered(Sent, Done')
      PROVE  AnswerInv'
  BY <1>2 DEF AnswerInv, Answered, Sent, Owed, Done
<1>3. ASSUME app' = app, Sent' = Sent, Done' = Done,
             \A i \in 1..Done : arrived'[i] = arrived[i]
      PROVE  AnswerInv'
  <2>1. \E at \in [1..Len(Sent) -> 1..Done] :
          /\ \A j, k \in 1..Len(Sent) : j < k => at[j] < at[k]
          /\ \A k \in 1..Len(Sent) : Owed(arrived[at[k]])' = <<Sent[k]>>
          /\ \A i \in 1..Done : Owed(arrived[i])' # <<>> => \E k \in 1..Len(Sent) : at[k] = i
    BY <1>0, <1>1, <1>3, AnsweredSame
  <2> QED
    BY <1>3, <2>1 DEF AnswerInv, Answered
<1>4. CASE Arrive
  <2>1. \A i \in 1..Done : arrived'[i] = arrived[i]
    BY <1>0, <1>1, <1>4 DEF Arrive, TypeInv, QueueInv, Done, AllFrames
  <2>2. Sent' = Sent /\ Done' = Done /\ app' = app
    BY <1>4 DEF Arrive, Sent, Done
  <2> QED
    BY <1>3, <2>1, <2>2
<1>5. CASE Transmit
  <2>1. Sent' = Sent
    BY <1>0, <1>5, SentOnTransmit
  <2>2. Done' = Done /\ app' = app /\ arrived' = arrived
    BY <1>5 DEF Transmit, Done
  <2> QED
    BY <1>3, <2>1, <2>2
<1>6. CASE eth_rx
  <2>1. Done = handled /\ handled' = handled + 1 /\ UNCHANGED <<app, wire, tx, slots, arrived>>
    BY <1>6 DEF eth_rx, Done
  <2>2. CASE pc' = "ack"
    <3>1. Head(rx) = arrived[handled + 1] /\ Head(rx).len \in Nat
      <4>1. Head(rx) = rx[1] /\ Len(rx) >= 1 /\ Head(rx) \in AllFrames
        BY <1>0, <1>6 DEF eth_rx, TypeInv
      <4>2. rx[1] = arrived[handled + 1]
        BY <1>0, <1>6, <4>1 DEF eth_rx, TypeInv, QueueInv, Freed
      <4> QED
        BY <4>1, <4>2, FrameFacts
    <3>2. Head(rx).len > 1534
      BY <1>6, <2>2 DEF eth_rx, NETBUF_MAX
    <3>3. ~ForUs(arrived[handled + 1])
      BY <3>1, <3>2, ForUsLength
    <3>4. Answered(Sent, handled + 1)
      BY <1>0, <1>1, <2>1, <3>3, NotForUs, AnsweredNone
    <3> QED
      BY <1>2, <2>1, <2>2, <3>4 DEF Done
  <2>3. CASE pc' = "net_rx_eth"
    <3>1. Done' = Done
      BY <1>1, <2>1, <2>3 DEF Done
    <3> QED
      BY <1>0, <1>2, <2>1, <3>1
  <2> QED
    BY <1>6, <2>2, <2>3 DEF eth_rx
<1>7. ASSUME Function PROVE AnswerInv'
  <2>1. /\ pc \notin {"poll", "ack", "run"} /\ UNCHANGED <<app, wire, tx, slots, arrived, rxbuf>>
        /\ handled' = handled
    BY <1>7 DEF Function, net_rx_eth, net_rx_ip6, net_rx_udp6, net_rx_icmp6, multipass,
                Drop, query_reply, nb_write, nb_exec, nb_badcmd, Valid
  <2>2. pc' \notin {"poll", "run"}
    BY <1>7 DEF Function, net_rx_eth, net_rx_ip6, net_rx_udp6, net_rx_icmp6, multipass,
                Drop, query_reply, nb_write, nb_exec, nb_badcmd, Call, IcmpReply, UdpReply
  <2>3. Done = handled - 1 /\ handled = Done + 1
    BY <1>1, <2>1 DEF Done
  <2>4. CASE pc' = "ack"
    <3>1. Owed(arrived[handled]) = <<>>
      BY <1>0, <1>7, <2>1, <2>4, Outcome DEF FrameInv
    <3>2. Answered(Sent, Done + 1)
      BY <1>0, <1>1, <2>3, <3>1, AnsweredNone
    <3> QED
      BY <1>2, <2>1, <2>3, <2>4, <3>2 DEF Done
  <2>5. CASE pc' # "ack"
    <3>1. Done' = Done
      BY <2>1, <2>2, <2>3, <2>5 DEF Done
    <3> QED
      BY <1>0, <1>2, <2>1, <3>1
  <2> QED
    BY <2>4, <2>5
<1>8. CASE eth_tx
  <2>1. /\ rxbuf = arrived[handled] /\ rxbuf \in AllFrames /\ Owed(rxbuf) = <<reply>>
        /\ reply.len \in Int /\ reply.len + 2 <= NETBUF_MAX
    BY <1>0, <1>8 DEF eth_tx, FrameInv, ChainInv, LengthInv
  <2>2. reply \in Packets
    BY <2>1, OwedPacket
  <2>3. Sent' = Append(Sent, reply)
    BY <1>0, <1>8, <2>1, <2>2, SentOnTx
  <2>4. /\ handled = Done + 1 /\ handled' = handled /\ pc' \in {"ack", "run"}
        /\ UNCHANGED <<app, arrived>>
    BY <1>1, <1>8 DEF eth_tx, Done
  <2>5. Answered(Append(Sent, reply), Done + 1)
    BY <1>0, <1>1, <2>1, <2>2, <2>4, AnsweredOne
  <2>6. Answered(Append(Sent, reply), handled)
    BY <2>4, <2>5
  <2>7. Done' = handled
    BY <2>4 DEF Done
  <2> QED
    BY <2>3, <2>4, <2>6, <2>7 DEF AnswerInv, Answered, Owed
<1>9. CASE eth_ack
  <2>1. Done' = Done /\ UNCHANGED <<app, wire, tx, slots, arrived>>
    BY <1>9 DEF eth_ack, Done
  <2> QED
    BY <1>0, <1>2, <2>1
<1>10. CASE UNCHANGED vars
  <2>1. Done' = Done /\ UNCHANGED <<app, wire, tx, slots, arrived>>
    BY <1>10 DEF vars, Done
  <2> QED
    BY <1>0, <1>2, <2>1
<1> QED
  BY <1>4, <1>5, <1>6, <1>7, <1>8, <1>9, <1>10 DEF Next, Cpu, Idle, Function

\* A WRITE has stored its bytes when its reply is handed over.
LEMMA MemInvStep == IInv /\ [Next]_vars => MemInv'
<1> SUFFICES ASSUME IInv, [Next]_vars PROVE MemInv'
  OBVIOUS
<1> USE DEF Step, history, mac, Labels
<1>0. TypeInv /\ QueueInv /\ FrameInv /\ LengthInv /\ ChainInv /\ MemInv
  BY DEF IInv
<1>1. ASSUME NEW f, app = "netboot", WriteOf(f) PROVE Owed(f) # <<>>
  BY <1>1, OwedUdp DEF WriteOf, Message, Udp
<1>2. CASE Arrive
  <2>1. UNCHANGED <<pc, app, handled, mem>>
    BY <1>2 DEF Arrive
  <2>2. pc \in {"eth_tx", "ack"} => arrived'[handled] = arrived[handled]
    BY <1>0, <1>2 DEF Arrive, TypeInv, QueueInv, AllFrames
  <2> QED
    BY <1>0, <2>1, <2>2 DEF MemInv
<1>3. CASE Transmit \/ UNCHANGED vars
  <2>1. UNCHANGED <<pc, app, arrived, handled, mem>>
    BY <1>3 DEF Transmit, vars
  <2> QED
    BY <1>0, <2>1 DEF MemInv
<1>4. CASE eth_rx
  <2>1. CASE pc' = "ack"
    <3>1. Head(rx) = arrived[handled + 1] /\ Head(rx).len \in Nat
      <4>1. Head(rx) = rx[1] /\ Len(rx) >= 1 /\ Head(rx) \in AllFrames
        BY <1>0, <1>4 DEF eth_rx, TypeInv
      <4>2. rx[1] = arrived[handled + 1]
        BY <1>0, <1>4, <4>1 DEF eth_rx, TypeInv, QueueInv, Freed
      <4> QED
        BY <4>1, <4>2, FrameFacts
    <3>2. Head(rx).len > 1534
      BY <1>4, <2>1 DEF eth_rx, NETBUF_MAX
    <3>3. ~WriteOf(arrived[handled + 1])
      BY <3>1, <3>2, ForUsLength DEF WriteOf, Message, Datagram
    <3>4. arrived' = arrived /\ handled' = handled + 1
      BY <1>4 DEF eth_rx
    <3> QED
      BY <3>3, <3>4 DEF MemInv
  <2> QED
    BY <1>4, <2>1 DEF eth_rx, MemInv
<1>5. ASSUME Function, mem' = mem, pc' # "eth_tx" \/ app # "netboot" \/ rxbuf.cmd # "WRITE"
                                                  \/ rxbuf.next # "udp"
      PROVE  MemInv'
  <2>1. pc \notin {"poll", "ack", "run"} /\ UNCHANGED <<app, arrived, rxbuf, handled>>
    BY <1>5 DEF Function, net_rx_eth, net_rx_ip6, net_rx_udp6, net_rx_icmp6, multipass,
                Drop, query_reply, nb_write, nb_exec, nb_badcmd, Valid
  <2>2. rxbuf = arrived[handled]
    BY <1>0, <2>1 DEF FrameInv
  <2>3. pc' = "ack" /\ app = "netboot" => ~WriteOf(arrived[handled])
    BY <1>1, <1>5, <2>2, Outcome
  <2>4. pc' = "eth_tx" => app # "netboot" \/ ~WriteOf(arrived[handled])
    BY <1>5, <2>2 DEF WriteOf, Message, Datagram
  <2> QED
    BY <2>1, <2>3, <2>4 DEF MemInv
<1>6. CASE net_rx_eth \/ net_rx_ip6 \/ net_rx_udp6
  BY <1>5, <1>6 DEF net_rx_eth, net_rx_ip6, net_rx_udp6, Call, Function
<1>7. CASE net_rx_icmp6
  BY <1>0, <1>5, <1>7 DEF net_rx_icmp6, Function, ChainInv
<1>8. CASE multipass \/ Drop \/ query_reply \/ nb_exec \/ nb_badcmd
  BY <1>5, <1>8 DEF multipass, Drop, query_reply, nb_exec, nb_badcmd, Function
<1>9. CASE nb_write
  <2>1. /\ rxbuf = arrived[handled] /\ UNCHANGED <<arrived, rxbuf, handled>>
        /\ arg.len = rxbuf.ulen - 8 /\ rxbuf \in AllFrames
    BY <1>0, <1>9 DEF nb_write, Valid, FrameInv, ChainInv
  <2>2. mem' = <<rxbuf.addr, rxbuf.ulen - 24, rxbuf.body>>
    BY <1>9, <2>1, FrameFacts DEF nb_write, NB_MSG_MIN
  <2> QED
    BY <2>1, <2>2 DEF MemInv
<1>10. CASE eth_tx
  <2>1. pc = "eth_tx" /\ UNCHANGED <<app, arrived, handled, mem>>
    BY <1>10 DEF eth_tx
  <2> QED
    BY <1>0, <2>1 DEF MemInv
<1>11. CASE eth_ack
  BY <1>11 DEF eth_ack, MemInv
<1> QED
  BY <1>2, <1>3, <1>4, <1>6, <1>7, <1>8, <1>9, <1>10, <1>11 DEF Next, Cpu, Idle

-----------------------------------------------------------------------------
\* The initial states satisfy the invariant.
LEMMA InitInv == Init => IInv
<1> SUFFICES ASSUME Init PROVE IInv
  OBVIOUS
<1>1. TypeInv
  <2>1. arg \in [len : Int, port : Ports, mcast : {0, 1}]
    <3>1. 0 \in Ports
      BY DEF Ports
    <3> QED
      BY <3>1 DEF Init, NoArg
  <2> QED
    BY <2>1 DEF Init, TypeInv, Labels
<1>2. QueueInv /\ FrameInv /\ LengthInv /\ ChainInv /\ MemInv
  BY DEF Init, QueueInv, FrameInv, LengthInv, ChainInv, MemInv, Freed
<1>3. SlotInv
  <2>1. slots \in [{0, 1} -> Packets]
    <3>1. NoReply \in Packets /\ 0..TX_SLOTS - 1 = {0, 1}
      BY DEF Packets, TX_SLOTS
    <3> QED
      BY <3>1 DEF Init
  <2> QED
    BY <2>1 DEF Init, SlotInv
<1>4. AnswerInv
  <2>1. Len(tx) = 0 /\ wire = <<>> /\ Done = 0
    BY DEF Init, Done
  <2>2. Len(Sent) = 0
    BY <2>1 DEF Sent
  <2> DEFINE at == [i \in 1..0 |-> 0]
  <2>3. at \in [1..Len(Sent) -> 1..0]
    BY <2>2
  <2> HIDE DEF at
  <2> QED
    <3>1. Answered(Sent, 0)
      <4>1. 1..Len(Sent) = {} /\ 1..0 = {}
        BY <2>2
      <4> QED
        BY <2>3, <4>1 DEF Answered
    <3> QED
      BY <2>1, <3>1 DEF AnswerInv
<1> QED
  BY <1>1, <1>2, <1>3, <1>4 DEF IInv

\* Every step keeps it.
LEMMA NextInv == IInv /\ [Next]_vars => IInv'
BY TypeInvStep, QueueInvStep, FrameInvStep, LengthInvStep, ChainInvStep, SlotInvStep,
   AnswerInvStep, MemInvStep DEF IInv

\* IInv holds in every reachable state.
LEMMA Invariance == Spec => []IInv
BY InitInv, NextInv, PTL DEF Spec

(* Whatever frames arrive, the stack reads only bytes of the frame it      *)
(* handles and builds no packet that exceeds its buffer or its slot.       *)
THEOREM BufferSafety == Spec => []OwnBytesOnly
<1>1. IInv => OwnBytesOnly
  <2> SUFFICES ASSUME IInv PROVE OwnBytesOnly
    OBVIOUS
  <2>1. FrameInv /\ LengthInv
    BY DEF IInv
  <2> QED
    BY <2>1 DEF FrameInv, LengthInv, OwnBytesOnly
<1> QED
  BY <1>1, Invariance, PTL

(* Whatever frames arrive, the packets sent and those waiting in the       *)
(* transmit slots are, in order, exactly the ones the frames handled so    *)
(* far are owed, and a WRITE has stored its own bytes.                     *)
THEOREM ReplySafety == Spec => []RepliesExact
<1>1. IInv => RepliesExact
  <2> SUFFICES ASSUME IInv PROVE RepliesExact
    OBVIOUS
  <2>1. AnswerInv /\ MemInv
    BY DEF IInv
  <2>2. Answered(Sent, IF pc \in {"poll", "ack", "run"} THEN handled ELSE handled - 1)
    BY <2>1 DEF AnswerInv, Done
  <2> QED
    BY <2>1, <2>2 DEF MemInv, WriteOf, RepliesExact
<1> QED
  BY <1>1, Invariance, PTL

-----------------------------------------------------------------------------
(* The checksum.  All sums are taken modulo Half - 1: a carry that is      *)
(* folded in, on either side, changes nothing there, and a swap of the     *)
(* bytes of every halfword multiplies by Octet.  What the loops compute is *)
(* found by induction over their length.                                   *)

(* Every set of natural numbers has a least element.                       *)
LEMMA LeastNat ==
  ASSUME NEW T \in SUBSET Nat, T # {}
  PROVE \E n \in T : \A m \in T : n <= m
<1> DEFINE R == OpToRel(<, Nat)
<1>1. IsWellFoundedOn(R, Nat)
  BY NatLessThanWellFounded
<1>2. \A x, y \in Nat : y < x => <<y, x>> \in R
  BY DEF OpToRel
<1> HIDE DEF R
<1>3. PICK n \in T : \A m \in T : ~ (<<m, n>> \in R)
  BY <1>1, WFMin
<1>4. \A m \in T : ~(m < n)
  BY <1>2, <1>3
<1> QED
  BY <1>4

(* Induction over the natural numbers, for a set.                          *)
LEMMA SetInduction ==
  ASSUME NEW S \in SUBSET Nat, 0 \in S, \A n \in S : n+1 \in S
  PROVE  S = Nat
<1> DEFINE T == Nat \ S
<1> SUFFICES ASSUME T # {} PROVE FALSE
  OBVIOUS
<1> PICK n \in T : \A m \in T : n <= m
  BY LeastNat
<1>1. n # 0
  OBVIOUS
<1>2. n-1 \in Nat /\ n-1 \notin T
  BY <1>1
<1> QED
  BY <1>2

(* Sizes.                                                                  *)
OnesModulus == Half - 1

LEMMA HalfFacts ==
  /\ Octet \in Nat /\ Octet >= 2
  /\ Half \in Nat /\ Half >= 4 /\ Half > Octet
  /\ OnesModulus \in Nat /\ OnesModulus >= 3 /\ Half = OnesModulus + 1
BY OctetAssumption DEF Half, OnesModulus

LEMMA DivMod ==
  ASSUME NEW n \in Nat, NEW d \in Nat, d > 0
  PROVE  /\ n % d \in Nat /\ n \div d \in Nat /\ n % d < d
         /\ n = d * (n \div d) + (n % d)
OBVIOUS

(* Congruence modulo Half - 1, in which a carry out of a halfword counts   *)
(* as one.                                                                 *)
Cong(a, b) == \E k \in Int : a - b = k * OnesModulus

LEMMA CongRefl ==
  ASSUME NEW a \in Int
  PROVE  Cong(a, a)
<1>1. a - a = 0 * OnesModulus
  BY HalfFacts
<1> QED
  BY <1>1 DEF Cong

LEMMA CongSym ==
  ASSUME NEW a \in Int, NEW b \in Int, Cong(a, b)
  PROVE  Cong(b, a)
<1>1. PICK k \in Int : a - b = k * OnesModulus
  BY DEF Cong
<1>2. b - a = (-k) * OnesModulus /\ -k \in Int
  BY <1>1, HalfFacts
<1> QED
  BY <1>2 DEF Cong

LEMMA CongAdd ==
  ASSUME NEW a \in Int, NEW b \in Int, NEW c \in Int, NEW d \in Int,
         Cong(a, b), Cong(c, d)
  PROVE  Cong(a + c, b + d)
<1>1. PICK k \in Int : a - b = k * OnesModulus
  BY DEF Cong
<1>2. PICK l \in Int : c - d = l * OnesModulus
  BY DEF Cong
<1>3. /\ k + l \in Int
      /\ (k + l) * OnesModulus = k * OnesModulus + l * OnesModulus
  BY HalfFacts
<1>4. (a + c) - (b + d) = (k + l) * OnesModulus
  BY <1>1, <1>2, <1>3, HalfFacts
<1> QED
  BY <1>3, <1>4 DEF Cong

LEMMA CongTrans ==
  ASSUME NEW a \in Int, NEW b \in Int, NEW c \in Int,
         Cong(a, b), Cong(b, c)
  PROVE  Cong(a, c)
<1>1. PICK k \in Int : a - b = k * OnesModulus
  BY DEF Cong
<1>2. PICK l \in Int : b - c = l * OnesModulus
  BY DEF Cong
<1>3. /\ k + l \in Int
      /\ (k + l) * OnesModulus = k * OnesModulus + l * OnesModulus
  BY HalfFacts
<1>4. a - c = (k + l) * OnesModulus
  BY <1>1, <1>2, <1>3, HalfFacts
<1> QED
  BY <1>3, <1>4 DEF Cong

LEMMA CongOctet ==
  ASSUME NEW a \in Int, NEW b \in Int, Cong(a, b)
  PROVE  Cong(Octet * a, Octet * b)
<1>1. PICK k \in Int : a - b = k * OnesModulus
  BY DEF Cong
<1>2. Octet * a - Octet * b = Octet * (a - b)
  BY HalfFacts
<1>3. Octet * (k * OnesModulus) = (Octet * k) * OnesModulus
      /\ Octet * k \in Int
  BY HalfFacts
<1> QED
  BY <1>1, <1>2, <1>3 DEF Cong

(* Swapping the two bytes of a halfword multiplies it by Octet.            *)
LEMMA CongSwap ==
  ASSUME NEW x \in Int, NEW y \in Int
  PROVE  Cong(x * Octet + y, Octet * (x + y * Octet))
<1>1. Octet * (x + y * Octet) = x * Octet + y * Half
  BY HalfFacts DEF Half
<1>2. (x * Octet + y) - (x * Octet + y * Half) = (-y) * OnesModulus
  BY HalfFacts
<1>3. -y \in Int
  OBVIOUS
<1> QED
  BY <1>1, <1>2, <1>3 DEF Cong

(* One round of the folding loop, and one end-around carry.                *)
FoldRound(n) == (n % Half) + (n \div Half)

LEMMA CongFoldRound ==
  ASSUME NEW n \in Nat
  PROVE  /\ Cong(n, FoldRound(n))
         /\ FoldRound(n) \in Nat
         /\ n >= Half => FoldRound(n) < n
<1>0. /\ n % Half \in Nat /\ n \div Half \in Nat /\ n % Half < Half
      /\ n = Half * (n \div Half) + (n % Half)
  <2>1. Half \in Nat /\ Half > 0
    BY HalfFacts
  <2>2. PICK h \in Nat : h = Half /\ h > 0
    BY <2>1
  <2>3. /\ n % h \in Nat /\ n \div h \in Nat /\ n % h < h
        /\ n = h * (n \div h) + (n % h)
    BY <2>2, DivMod
  <2> QED
    BY <2>2, <2>3
<1>1. PICK q \in Nat : q = n \div Half
  BY <1>0
<1>2. PICK r \in Nat : r = n % Half
  BY <1>0
<1>3. n = Half * q + r /\ r < Half
  BY <1>0, <1>1, <1>2
<1>4. Half * q - q = q * OnesModulus
  BY HalfFacts DEF OnesModulus
<1>5. n - (r + q) = q * OnesModulus
  BY <1>3, <1>4, HalfFacts
<1>6. n >= Half => q >= 1
  BY <1>3, HalfFacts
<1>7. q >= 1 => q * OnesModulus >= 3
  BY HalfFacts
<1>9. Cong(n, r + q)
  BY <1>5 DEF Cong
<1>10. n >= Half => r + q < n
  BY <1>5, <1>6, <1>7, HalfFacts
<1> QED
  BY <1>1, <1>2, <1>9, <1>10 DEF FoldRound

LEMMA CongEndAround ==
  ASSUME NEW t \in Nat, t < 2 * Half - 1
  PROVE  /\ Cong(EndAround(t), t)
         /\ EndAround(t) \in 0..OnesModulus
         /\ t > 0 => EndAround(t) > 0
<1>1. CASE t >= Half
  <2>1. EndAround(t) = t - OnesModulus
    BY <1>1 DEF EndAround, OnesModulus
  <2>2. EndAround(t) - t = (-1) * OnesModulus
    BY <2>1, HalfFacts
  <2> QED
    BY <1>1, <2>1, <2>2, HalfFacts DEF Cong
<1>2. CASE t < Half
  <2>1. EndAround(t) = t
    BY <1>2, HalfFacts DEF EndAround
  <2> QED
    BY <1>2, <2>1, HalfFacts, CongRefl
<1> QED
  BY <1>1, <1>2, HalfFacts

-----------------------------------------------------------------------------
(* The recursive functions of Checksum exist.                              *)
IsFold(f, b) ==
  f = [n \in 0..b |-> IF n < Half THEN n ELSE f[(n % Half) + (n \div Half)]]

LEMMA FoldExists ==
  \A b \in Nat : \E f : IsFold(f, b)
<1> DEFINE S == {b \in Nat : \E f : IsFold(f, b)}
<1>1. 0 \in S
  <2> DEFINE f == [n \in 0..0 |-> 0]
  <2>1. IsFold(f, 0)
    BY HalfFacts DEF IsFold
  <2> QED
    BY <2>1
<1>2. ASSUME NEW b \in S PROVE b+1 \in S
  <2>1. PICK f : IsFold(f, b)
    OBVIOUS
  <2> DEFINE m == ((b+1) % Half) + ((b+1) \div Half)
             g == [n \in 0..b+1 |-> IF n = b+1
                     THEN (IF b+1 < Half THEN b+1 ELSE f[m]) ELSE f[n]]
  <2>2. \A n \in 0..b : f[n] = IF n < Half THEN n
                               ELSE f[(n % Half) + (n \div Half)]
    BY <2>1 DEF IsFold
  <2>3. \A n \in Nat : n >= Half =>
          (n % Half) + (n \div Half) \in Nat /\
          (n % Half) + (n \div Half) < n
    BY CongFoldRound DEF FoldRound
  <2>4. \A n \in 0..b : g[n] = f[n]
    OBVIOUS
  <2>5. ASSUME NEW n \in 0..b+1
        PROVE  g[n] = IF n < Half THEN n
                      ELSE g[(n % Half) + (n \div Half)]
    <3>1. CASE n = b+1
      <4>1. n >= Half => m \in 0..b
        BY <2>3, <3>1, HalfFacts
      <4>2. g[n] = IF n < Half THEN n ELSE f[m]
        BY <3>1
      <4> HIDE DEF g
      <4> QED
        BY <2>4, <3>1, <4>1, <4>2, HalfFacts
    <3>2. CASE n # b+1
      <4>1. n \in 0..b /\ g[n] = f[n]
        BY <2>4, <3>2
      <4>2. n >= Half => (n % Half) + (n \div Half) \in 0..b
        BY <2>3, <4>1, HalfFacts
      <4> HIDE DEF g
      <4> QED
        BY <2>2, <2>4, <4>1, <4>2, HalfFacts
    <3> QED
      BY <3>1, <3>2
  <2>6. g = [n \in 0..b+1 |-> g[n]]
    OBVIOUS
  <2> HIDE DEF g
  <2>7. IsFold(g, b+1)
    BY <2>5, <2>6 DEF IsFold
  <2> QED
    BY <2>7
<1> HIDE DEF S
<1>3. S = Nat
  <2>1. S \in SUBSET Nat
    BY DEF S
  <2> QED
    BY <1>1, <1>2, <2>1, SetInduction
<1> QED
  BY <1>3 DEF S

(* What the folding loop returns: a halfword congruent to the sum.         *)
LEMMA FoldIs ==
  ASSUME NEW sum \in Nat
  PROVE  Fold(sum) \in 0..OnesModulus /\ Cong(Fold(sum), sum)
<1> DEFINE Is(g) == g = [n \in 0..sum |-> IF n < Half THEN n
                           ELSE g[(n % Half) + (n \div Half)]]
           f == CHOOSE g : Is(g)
<1>1. Fold(sum) = f[sum]
  BY Zenon DEF Fold
<1>2. Is(f)
  <2>1. \E g : IsFold(g, sum)
    BY FoldExists
  <2>2. PICK g : Is(g)
    BY <2>1, Zenon DEF IsFold
  <2> HIDE DEF Is
  <2> QED
    BY <2>2, Zenon
<1> HIDE DEF f
<1>3. \A n \in 0..sum : f[n] = IF n < Half THEN n
                               ELSE f[(n % Half) + (n \div Half)]
  BY <1>2
<1> HIDE DEF Is
<1> DEFINE Good(n) == f[n] \in 0..OnesModulus /\ Cong(f[n], n)
           T == {n \in 0..sum : ~Good(n)}
<1>4. T = {}
  <2> SUFFICES ASSUME T # {} PROVE FALSE
    OBVIOUS
  <2>1. T \in SUBSET Nat
    OBVIOUS
  <2>2. PICK n \in T : \A m \in T : n <= m
    <3> HIDE DEF T
    <3> QED
      BY <2>1, LeastNat
  <2>3. n \in 0..sum /\ ~Good(n) /\ n \in Nat
    OBVIOUS
  <2>4. CASE n < Half
    <3>1. f[n] = n
      BY <1>3, <2>3, <2>4
    <3> QED
      BY <2>3, <2>4, <3>1, HalfFacts, CongRefl
  <2>5. CASE ~(n < Half)
    <3>1. PICK m : m = FoldRound(n)
      OBVIOUS
    <3>2. m \in Nat /\ m < n /\ Cong(n, m)
      BY <2>3, <2>5, <3>1, CongFoldRound, HalfFacts
    <3>3. m \in 0..sum /\ m \notin T
      BY <2>2, <2>3, <3>2
    <3>4. Good(m)
      BY <3>3
    <3>5. f[n] = f[m]
      BY <1>3, <2>3, <2>5, <3>1 DEF FoldRound
    <3>6. Cong(m, n)
      BY <2>3, <3>2, CongSym
    <3>7. Cong(f[m], n)
      BY <2>3, <3>2, <3>4, <3>6, CongTrans, HalfFacts
    <3> QED
      BY <2>3, <3>4, <3>5, <3>7
  <2> QED
    BY <2>4, <2>5
<1>5. Good(sum)
  BY <1>4
<1> QED
  BY <1>1, <1>5

IsTotal(w, data, sum, b) ==
  w = [k \in 0..b |-> IF k = 0 THEN sum
                      ELSE w[k - 1] + Loaded(data, 2 * k - 1)]

LEMMA TotalExists ==
  ASSUME NEW data, NEW sum
  PROVE  \A b \in Nat : \E w : IsTotal(w, data, sum, b)
<1> DEFINE S == {b \in Nat : \E w : IsTotal(w, data, sum, b)}
<1>1. 0 \in S
  <2> DEFINE w == [k \in 0..0 |-> sum]
  <2>1. IsTotal(w, data, sum, 0)
    BY DEF IsTotal
  <2> QED
    BY <2>1
<1>2. ASSUME NEW b \in S PROVE b+1 \in S
  <2>1. PICK w : IsTotal(w, data, sum, b)
    OBVIOUS
  <2> DEFINE v == [k \in 0..b+1 |-> IF k = b+1
                     THEN w[b] + Loaded(data, 2 * k - 1) ELSE w[k]]
  <2>2. \A k \in 0..b : w[k] = IF k = 0 THEN sum
                      ELSE w[k - 1] + Loaded(data, 2 * k - 1)
    BY <2>1 DEF IsTotal
  <2>3. \A k \in 0..b : v[k] = w[k]
    OBVIOUS
  <2>4. v[b+1] = w[b] + Loaded(data, 2 * (b+1) - 1) /\ b \in Nat
    OBVIOUS
  <2>5. v = [k \in 0..b+1 |-> v[k]]
    OBVIOUS
  <2> HIDE DEF v
  <2>6. ASSUME NEW k \in 0..b+1
        PROVE  v[k] = IF k = 0 THEN sum
                      ELSE v[k - 1] + Loaded(data, 2 * k - 1)
    <3>1. CASE k = b+1
      <4>1. k # 0 /\ k - 1 = b /\ v[k - 1] = w[b]
        BY <2>3, <2>4, <3>1
      <4> QED
        BY <2>4, <3>1, <4>1
    <3>2. CASE k # b+1
      <4>1. k \in 0..b /\ v[k] = w[k]
        BY <2>3, <2>4, <3>2
      <4>2. k # 0 => v[k - 1] = w[k - 1]
        BY <2>3, <2>4, <4>1
      <4> QED
        BY <2>2, <4>1, <4>2
    <3> QED
      BY <3>1, <3>2
  <2>7. IsTotal(v, data, sum, b+1)
    BY <2>5, <2>6 DEF IsTotal
  <2> QED
    BY <2>7
<1> HIDE DEF S
<1>3. S = Nat
  <2>1. S \in SUBSET Nat
    BY DEF S
  <2> QED
    BY <1>1, <1>2, <2>1, SetInduction
<1> QED
  BY <1>3 DEF S

(* The successive values of sum in the loop of checksum().                 *)
TotalRun(s, data, sum) ==
  /\ s[0] = sum
  /\ \A k \in 1..Halfwords(data) : s[k] = s[k - 1] + Loaded(data, 2 * k - 1)

LEMMA TotalIs ==
  ASSUME NEW data, NEW sum, Halfwords(data) \in Nat
  PROVE  \E s : TotalRun(s, data, sum) /\ Total(data, sum) = s[Halfwords(data)]
<1> DEFINE b == Halfwords(data)
           Is(w) == w = [k \in 0..b |-> IF k = 0 THEN sum
                           ELSE w[k - 1] + Loaded(data, 2 * k - 1)]
           s == CHOOSE w : Is(w)
<1>1. Total(data, sum) = s[b]
  BY Zenon DEF Total
<1>2. Is(s)
  <2>1. \E w : IsTotal(w, data, sum, b)
    BY TotalExists
  <2>2. PICK w : Is(w)
    BY <2>1, Zenon DEF IsTotal
  <2> HIDE DEF Is
  <2> QED
    BY <2>2, Zenon
<1> HIDE DEF s, b
<1>3. \A k \in 0..b : s[k] = IF k = 0 THEN sum
                              ELSE s[k - 1] + Loaded(data, 2 * k - 1)
  BY <1>2
<1>4. b \in Nat /\ 0 \in 0..b /\ \A k \in 1..b : k \in 0..b /\ k # 0
  BY DEF b
<1>5. TotalRun(s, data, sum)
  BY <1>3, <1>4 DEF TotalRun, b
<1> QED
  BY <1>1, <1>5 DEF b

IsSum(w, data, b) ==
  w = [k \in 0..b |-> IF k = 0 THEN 0
                      ELSE EndAround(w[k - 1] + NetworkOrder(data, 2 * k - 1))]

LEMMA SumExists ==
  ASSUME NEW data
  PROVE  \A b \in Nat : \E w : IsSum(w, data, b)
<1> DEFINE S == {b \in Nat : \E w : IsSum(w, data, b)}
<1>1. 0 \in S
  <2> DEFINE w == [k \in 0..0 |-> 0]
  <2>1. IsSum(w, data, 0)
    BY DEF IsSum
  <2> QED
    BY <2>1
<1>2. ASSUME NEW b \in S PROVE b+1 \in S
  <2>1. PICK w : IsSum(w, data, b)
    OBVIOUS
  <2> DEFINE v == [k \in 0..b+1 |-> IF k = b+1
                     THEN EndAround(w[b] + NetworkOrder(data, 2 * k - 1)) ELSE w[k]]
  <2>2. \A k \in 0..b : w[k] = IF k = 0 THEN 0
                      ELSE EndAround(w[k - 1] + NetworkOrder(data, 2 * k - 1))
    BY <2>1 DEF IsSum
  <2>3. \A k \in 0..b : v[k] = w[k]
    OBVIOUS
  <2>4. v[b+1] = EndAround(w[b] + NetworkOrder(data, 2 * (b+1) - 1)) /\ b \in Nat
    OBVIOUS
  <2>5. v = [k \in 0..b+1 |-> v[k]]
    OBVIOUS
  <2> HIDE DEF v
  <2>6. ASSUME NEW k \in 0..b+1
        PROVE  v[k] = IF k = 0 THEN 0
                      ELSE EndAround(v[k - 1] + NetworkOrder(data, 2 * k - 1))
    <3>1. CASE k = b+1
      <4>1. k # 0 /\ k - 1 = b /\ v[k - 1] = w[b]
        BY <2>3, <2>4, <3>1
      <4> QED
        BY <2>4, <3>1, <4>1
    <3>2. CASE k # b+1
      <4>1. k \in 0..b /\ v[k] = w[k]
        BY <2>3, <2>4, <3>2
      <4>2. k # 0 => v[k - 1] = w[k - 1]
        BY <2>3, <2>4, <4>1
      <4> QED
        BY <2>2, <4>1, <4>2
    <3> QED
      BY <3>1, <3>2
  <2>7. IsSum(v, data, b+1)
    BY <2>5, <2>6 DEF IsSum
  <2> QED
    BY <2>7
<1> HIDE DEF S
<1>3. S = Nat
  <2>1. S \in SUBSET Nat
    BY DEF S
  <2> QED
    BY <1>1, <1>2, <2>1, SetInduction
<1> QED
  BY <1>3 DEF S

(* The successive sums of the receiver.                                    *)
SumRun(s, data) ==
  /\ s[0] = 0
  /\ \A k \in 1..Halfwords(data) : s[k] = EndAround(s[k - 1] + NetworkOrder(data, 2 * k - 1))

LEMMA SumIs ==
  ASSUME NEW data, Halfwords(data) \in Nat
  PROVE  \E s : SumRun(s, data) /\ Sum(data) = s[Halfwords(data)]
<1> DEFINE b == Halfwords(data)
           Is(w) == w = [k \in 0..b |-> IF k = 0 THEN 0
                           ELSE EndAround(w[k - 1] + NetworkOrder(data, 2 * k - 1))]
           s == CHOOSE w : Is(w)
<1>1. Sum(data) = s[b]
  BY Zenon DEF Sum
<1>2. Is(s)
  <2>1. \E w : IsSum(w, data, b)
    BY SumExists
  <2>2. PICK w : Is(w)
    BY <2>1, Zenon DEF IsSum
  <2> HIDE DEF Is
  <2> QED
    BY <2>2, Zenon
<1> HIDE DEF s, b
<1>3. \A k \in 0..b : s[k] = IF k = 0 THEN 0
                              ELSE EndAround(s[k - 1] + NetworkOrder(data, 2 * k - 1))
  BY <1>2
<1>4. b \in Nat /\ 0 \in 0..b /\ \A k \in 1..b : k \in 0..b /\ k # 0
  BY DEF b
<1>5. SumRun(s, data)
  BY <1>3, <1>4 DEF SumRun, b
<1> QED
  BY <1>1, <1>5 DEF b

-----------------------------------------------------------------------------
(* Halfwords of a byte string, as the processor loads them and as they     *)
(* travel.                                                                 *)
Bytes == 0..Octet-1

LEMMA HalfwordFacts ==
  ASSUME NEW d \in Seq(Bytes), NEW i \in 1..Len(d)
  PROVE  /\ Loaded(d, i) \in Nat
         /\ NetworkOrder(d, i) \in 0..OnesModulus
         /\ Cong(NetworkOrder(d, i), Octet * Loaded(d, i))
         /\ Loaded(d, i) > 0 => NetworkOrder(d, i) > 0
<1>0. d[i] \in Bytes
  OBVIOUS
<1>1. PICK x \in 0..Octet-1 : x = d[i]
  BY <1>0 DEF Bytes
<1>2. PICK y \in 0..Octet-1 : y = IF i < Len(d) THEN d[i + 1] ELSE 0
  BY HalfFacts DEF Bytes
<1>3. Loaded(d, i) = x + y * Octet
  <2>1. CASE i < Len(d)
    BY <1>1, <1>2, <2>1 DEF Loaded
  <2>2. CASE ~(i < Len(d))
    <3>1. y = 0 /\ y * Octet = 0 /\ Loaded(d, i) = x + 0
      BY <1>1, <1>2, <2>2, HalfFacts DEF Loaded
    <3> QED
      BY <3>1
  <2> QED
    BY <2>1, <2>2
<1>4. NetworkOrder(d, i) = x * Octet + y
  BY <1>1, <1>2 DEF NetworkOrder
<1>5. x \in Nat /\ y \in Nat /\ x * Octet \in Nat /\ y * Octet \in Nat
  BY HalfFacts
<1>6. x * Octet + y <= OnesModulus
  <2>1. x <= Octet - 1 /\ y <= Octet - 1
    BY HalfFacts
  <2>2. x * Octet <= (Octet - 1) * Octet
    BY <2>1, <1>5, HalfFacts
  <2>3. (Octet - 1) * Octet = Half - Octet
    BY HalfFacts DEF Half
  <2> QED
    BY <1>5, <2>1, <2>2, <2>3, HalfFacts
<1>7. x + y * Octet > 0 => x * Octet + y > 0
  <2>1. x > 0 => x * Octet > 0
    BY <1>5, HalfFacts
  <2>2. y = 0 => y * Octet = 0
    BY HalfFacts
  <2> QED
    BY <1>5, <2>1, <2>2
<1>8. Cong(x * Octet + y, Octet * (x + y * Octet))
  BY <1>5, CongSwap
<1>9. x * Octet + y \in 0..OnesModulus
  BY <1>5, <1>6, HalfFacts
<1> QED
  BY <1>3, <1>4, <1>5, <1>7, <1>8, <1>9

LEMMA HalfwordsFacts ==
  ASSUME NEW S, NEW d \in Seq(S)
  PROVE  /\ Halfwords(d) \in Nat
         /\ 2 * Halfwords(d) \in {Len(d), Len(d) + 1}
         /\ \A k \in 1..Halfwords(d) : 2 * k - 1 \in 1..Len(d)
<1>1. PICK n \in Nat : n = Len(d)
  OBVIOUS
<1>2. (n + 1) \div 2 \in Nat /\ 2 * ((n + 1) \div 2) \in {n, n + 1}
  OBVIOUS
<1> QED
  BY <1>1, <1>2 DEF Halfwords

LEMMA LoadedConcat ==
  ASSUME NEW p \in Seq(Bytes), NEW q \in Seq(Bytes)
  PROVE  /\ \A i \in 1..Len(p)-1 : Loaded(p \o q, i) = Loaded(p, i)
         /\ \A i \in 1..Len(q) : Loaded(p \o q, Len(p) + i) = Loaded(q, i)
<1>1. /\ Len(p) \in Nat /\ Len(q) \in Nat /\ Len(p \o q) = Len(p) + Len(q)
      /\ \A i \in 1..Len(p) : (p \o q)[i] = p[i]
      /\ \A i \in 1..Len(q) : (p \o q)[Len(p) + i] = q[i]
  OBVIOUS
<1>2. ASSUME NEW i \in 1..Len(p)-1 PROVE Loaded(p \o q, i) = Loaded(p, i)
  <2>1. i \in 1..Len(p) /\ i + 1 \in 1..Len(p) /\ i < Len(p)
        /\ i < Len(p \o q)
    BY <1>1
  <2> QED
    BY <1>1, <2>1 DEF Loaded
<1>3. ASSUME NEW i \in 1..Len(q)
      PROVE  Loaded(p \o q, Len(p) + i) = Loaded(q, i)
  <2>1. (p \o q)[Len(p) + i] = q[i]
    BY <1>1
  <2>2. i < Len(q) <=> Len(p) + i < Len(p \o q)
    BY <1>1
  <2>3. i < Len(q) => (p \o q)[(Len(p) + i) + 1] = q[i + 1]
    <3>1. i < Len(q) => i + 1 \in 1..Len(q) /\ (Len(p) + i) + 1 = Len(p) + (i + 1)
      BY <1>1
    <3> QED
      BY <1>1, <3>1
  <2> QED
    BY <2>1, <2>2, <2>3 DEF Loaded
<1> QED
  BY <1>2, <1>3

(* The receiver's sum is the transmitter's, with its bytes swapped; it is  *)
(* zero only when every halfword is.                                       *)
LEMMA ReceiverSum ==
  ASSUME NEW d \in Seq(Bytes)
  PROVE  /\ Sum(d) \in 0..OnesModulus
         /\ Total(d, 0) \in Nat
         /\ Cong(Sum(d), Octet * Total(d, 0))
         /\ (\E k \in 1..Halfwords(d) : Loaded(d, 2 * k - 1) > 0) => Sum(d) > 0
<1> DEFINE b == Halfwords(d)
           x(k) == Loaded(d, 2 * k - 1)
           y(k) == NetworkOrder(d, 2 * k - 1)
<1>1. b \in Nat /\ \A k \in 1..b : 2 * k - 1 \in 1..Len(d)
  BY HalfwordsFacts
<1>2. \A k \in 1..b : /\ x(k) \in Nat /\ y(k) \in 0..OnesModulus
                      /\ Cong(y(k), Octet * x(k))
                      /\ x(k) > 0 => y(k) > 0
  BY <1>1, HalfwordFacts
<1>3. PICK s : SumRun(s, d) /\ Sum(d) = s[b]
  BY <1>1, SumIs
<1>4. PICK t : TotalRun(t, d, 0) /\ Total(d, 0) = t[b]
  BY <1>1, TotalIs
<1>5. s[0] = 0 /\ t[0] = 0
  BY <1>3, <1>4 DEF SumRun, TotalRun
<1>6. \A k \in 1..b : s[k] = EndAround(s[k - 1] + y(k)) /\ t[k] = t[k - 1] + x(k)
  BY <1>3, <1>4 DEF SumRun, TotalRun
<1> HIDE DEF x, y, b
<1> DEFINE Good(k) == /\ s[k] \in 0..OnesModulus /\ t[k] \in Nat
                      /\ Cong(s[k], Octet * t[k])
                      /\ (\E j \in 1..k : x(j) > 0) => s[k] > 0
           S == {k \in Nat : k <= b => Good(k)}
<1>7. 0 \in S
  <2>1. Octet * 0 = 0 /\ Cong(0, 0)
    BY HalfFacts, CongRefl
  <2> QED
    BY <1>5, <2>1, HalfFacts
<1>8. ASSUME NEW k \in S PROVE k + 1 \in S
  <2> SUFFICES ASSUME k + 1 <= b PROVE Good(k + 1)
    OBVIOUS
  <2>1. k \in Nat /\ k <= b /\ k + 1 \in 1..b /\ (k + 1) - 1 = k /\ Good(k)
    BY <1>1
  <2>2. PICK u \in 0..OnesModulus : u = s[k]
    BY <2>1
  <2>3. PICK v \in Nat : v = t[k]
    BY <2>1
  <2>4. PICK xx \in Nat : xx = x(k + 1)
    BY <1>2, <2>1
  <2>5. PICK yy \in 0..OnesModulus : yy = y(k + 1)
    BY <1>2, <2>1
  <2>6. Cong(yy, Octet * xx) /\ (xx > 0 => yy > 0)
    BY <1>2, <2>1, <2>4, <2>5
  <2>7. s[k + 1] = EndAround(u + yy) /\ t[k + 1] = v + xx
    BY <1>6, <2>1, <2>2, <2>3, <2>4, <2>5
  <2>8. u + yy \in Nat /\ u + yy < 2 * Half - 1
    BY HalfFacts
  <2>9. /\ Cong(EndAround(u + yy), u + yy)
        /\ EndAround(u + yy) \in 0..OnesModulus
        /\ u + yy > 0 => EndAround(u + yy) > 0
    BY <2>8, CongEndAround
  <2>10. Cong(u + yy, Octet * v + Octet * xx)
    <3>1. Cong(u, Octet * v)
      BY <2>1, <2>2, <2>3
    <3>2. PICK p \in Int : p = Octet * v
      BY HalfFacts
    <3>3. PICK q \in Int : q = Octet * xx
      BY HalfFacts
    <3>4. Cong(u, p) /\ Cong(yy, q) /\ u \in Int /\ yy \in Int
      BY <2>6, <3>1, <3>2, <3>3
    <3>5. Cong(u + yy, p + q)
      BY <3>4, CongAdd
    <3> QED
      BY <3>2, <3>3, <3>5
  <2>11. Octet * v + Octet * xx = Octet * (v + xx)
         /\ Octet * (v + xx) \in Int
    BY HalfFacts
  <2>12. Cong(EndAround(u + yy), Octet * (v + xx))
    BY <2>8, <2>9, <2>10, <2>11, CongTrans, HalfFacts
  <2>13. ASSUME NEW j \in 1..k+1, x(j) > 0 PROVE u + yy > 0
    <3>1. CASE j = k + 1
      BY <2>4, <2>6, <2>13, <3>1, HalfFacts
    <3>2. CASE j # k + 1
      <4>1. j \in 1..k
        BY <2>1, <3>2
      <4>2. u > 0
        BY <2>1, <2>2, <2>13, <4>1
      <4> QED
        BY <4>2, HalfFacts
    <3> QED
      BY <3>1, <3>2
  <2>14. (\E j \in 1..k+1 : x(j) > 0) => s[k + 1] > 0
    BY <2>7, <2>9, <2>13
  <2> QED
    BY <2>7, <2>9, <2>12, <2>14
<1>9. S = Nat
  <2>1. S \in SUBSET Nat
    OBVIOUS
  <2> HIDE DEF S
  <2> QED
    BY <1>7, <1>8, <2>1, SetInduction
<1>10. Good(b)
  BY <1>1, <1>9
<1> QED
  BY <1>3, <1>4, <1>10 DEF b, x

(* The checksum field of the payload.                                      *)
LEMMA SealedFacts ==
  ASSUME NEW payload \in Seq(Bytes), NEW j \in Nat \ {0},
         2 * j <= Len(payload), NEW c \in 0..OnesModulus
  PROVE  LET sealed == Sealed(payload, 2 * j - 2, c)
         IN /\ sealed \in Seq(Bytes) /\ Len(sealed) = Len(payload)
            /\ Loaded(sealed, 2 * j - 1) = c
            /\ \A k \in 1..Halfwords(payload) : k # j =>
                 Loaded(sealed, 2 * k - 1) = Loaded(payload, 2 * k - 1)
<1> DEFINE lo == c % Octet
           hi == c \div Octet
           i == 2 * j - 1
           sealed == Sealed(payload, 2 * j - 2, c)
           n == Len(payload)
<1>1. lo \in Bytes /\ hi \in Bytes /\ lo + hi * Octet = c
  <2>1. PICK o \in Nat : o = Octet /\ o >= 2
    BY HalfFacts
  <2>2. /\ c % o \in Nat /\ c \div o \in Nat /\ c % o < o
        /\ c = o * (c \div o) + (c % o)
    BY <2>1, DivMod, HalfFacts
  <2>3. PICK q \in Nat : q = c \div o
    BY <2>2
  <2>4. c <= o * o - 1
    BY <2>1, HalfFacts DEF Half
  <2>5. q >= o => o * q >= o * o
    BY <2>1
  <2>6. q < o
    BY <2>1, <2>2, <2>3, <2>4, <2>5, HalfFacts
  <2>7. o * q = q * o
    BY <2>1
  <2> QED
    BY <2>1, <2>2, <2>3, <2>6, <2>7, HalfFacts DEF Bytes
<1>2. n \in Nat /\ i \in 1..n /\ i + 1 \in 1..n
      /\ (2 * j - 2) + 1 = i /\ (2 * j - 2) + 2 = i + 1
  OBVIOUS
<1> HIDE DEF i, n, lo, hi
<1>3. sealed = [[payload EXCEPT ![i] = lo] EXCEPT ![i + 1] = hi]
  BY <1>2 DEF Sealed, lo, hi
<1>4. payload = [m \in 1..n |-> payload[m]] /\ \A m \in 1..n : payload[m] \in Bytes
  BY DEF n
<1>5. sealed = [m \in 1..n |-> IF m = i + 1 THEN hi ELSE IF m = i THEN lo
                               ELSE payload[m]]
  BY <1>2, <1>3, <1>4
<1> HIDE DEF sealed
<1>6. /\ sealed \in Seq(Bytes) /\ Len(sealed) = n
      /\ sealed[i] = lo /\ sealed[i + 1] = hi
      /\ \A m \in 1..n : m # i /\ m # i + 1 => sealed[m] = payload[m]
  BY <1>1, <1>2, <1>4, <1>5
<1>7. Loaded(sealed, i) = c
  BY <1>1, <1>2, <1>6 DEF Loaded
<1>8. ASSUME NEW k \in 1..Halfwords(payload), k # j
      PROVE  Loaded(sealed, 2 * k - 1) = Loaded(payload, 2 * k - 1)
  <2>1. PICK m \in 1..n : m = 2 * k - 1
    BY HalfwordsFacts DEF n
  <2>2. m # i /\ m # i + 1 /\ m + 1 # i /\ m + 1 # i + 1
    BY <1>8, <2>1 DEF i
  <2>3. sealed[m] = payload[m] /\ (m < n => sealed[m + 1] = payload[m + 1])
    BY <1>2, <1>6, <2>2
  <2>4. Loaded(sealed, m) = Loaded(payload, m)
    BY <1>2, <1>6, <2>3 DEF Loaded, n
  <2> QED
    BY <2>1, <2>4
<1> QED
  BY <1>6, <1>7, <1>8 DEF sealed, i, n

(* Two byte strings of which the second has two more halfwords after the   *)
(* first a and the value c where the first has zero, and the sums over     *)
(* them.                                                                   *)
Differs(d, r, a, b, j, c, pseudo) ==
  /\ Halfwords(d) = a + b /\ Halfwords(r) = a + 2 + b
  /\ \A k \in 1..a + b : Loaded(d, 2 * k - 1) \in Nat
  /\ \A k \in 1..a : Loaded(r, 2 * k - 1) = Loaded(d, 2 * k - 1)
  /\ Loaded(r, 2 * (a + 1) - 1) + Loaded(r, 2 * (a + 2) - 1) = pseudo
  /\ Loaded(r, 2 * (a + 1) - 1) \in Nat /\ Loaded(r, 2 * (a + 2) - 1) \in Nat
  /\ \A k \in 1..b : k # j =>
       Loaded(r, 2 * (a + 2 + k) - 1) = Loaded(d, 2 * (a + k) - 1)
  /\ Loaded(r, 2 * (a + 2 + j) - 1) = c /\ Loaded(d, 2 * (a + j) - 1) = 0

LEMMA TotalsDiffer ==
  ASSUME NEW d, NEW r, NEW a \in Nat, NEW b \in Nat, NEW j \in 1..b,
         NEW c \in Nat, NEW start \in Nat, NEW pseudo \in Nat,
         Differs(d, r, a, b, j, c, pseudo)
  PROVE  /\ Total(r, 0) + start = Total(d, start) + pseudo + c
         /\ Total(d, start) \in Nat /\ Total(r, 0) \in Nat
<1> DEFINE x(k) == Loaded(d, 2 * k - 1)
           z(k) == Loaded(r, 2 * k - 1)
<1>0. /\ \A k \in 1..a + b : x(k) \in Nat
      /\ \A k \in 1..a : z(k) = x(k)
      /\ z(a + 1) + z(a + 2) = pseudo /\ z(a + 1) \in Nat /\ z(a + 2) \in Nat
      /\ \A k \in 1..b : k # j => z(a + 2 + k) = x(a + k)
      /\ z(a + 2 + j) = c /\ x(a + j) = 0
  BY DEF Differs
<1>1. PICK s : TotalRun(s, d, start) /\ Total(d, start) = s[a + b]
  <2>1. Halfwords(d) \in Nat /\ Halfwords(d) = a + b
    BY DEF Differs
  <2> QED
    BY <2>1, TotalIs
<1>2. PICK t : TotalRun(t, r, 0) /\ Total(r, 0) = t[a + 2 + b]
  <2>1. Halfwords(r) \in Nat /\ Halfwords(r) = a + 2 + b
    BY DEF Differs
  <2> QED
    BY <2>1, TotalIs
<1>3. /\ s[0] = start /\ \A k \in 1..a + b : s[k] = s[k - 1] + x(k)
      /\ t[0] = 0 /\ \A k \in 1..a + 2 + b : t[k] = t[k - 1] + z(k)
  BY <1>1, <1>2 DEF TotalRun, Differs
<1> HIDE DEF x, z
<1> DEFINE Before(k) == s[k] \in Nat /\ t[k] \in Nat /\ t[k] + start = s[k]
           S == {k \in Nat : k <= a => Before(k)}
<1>4. Before(a)
  <2>1. 0 \in S
    BY <1>3
  <2>2. ASSUME NEW k \in S PROVE k + 1 \in S
    <3> SUFFICES ASSUME k + 1 <= a PROVE Before(k + 1)
      OBVIOUS
    <3>1. /\ k \in Nat /\ Before(k) /\ k + 1 \in 1..a /\ (k + 1) - 1 = k
          /\ k + 1 \in 1..a + b /\ k + 1 \in 1..a + 2 + b
      OBVIOUS
    <3>2. s[k + 1] = s[k] + x(k + 1) /\ t[k + 1] = t[k] + x(k + 1)
          /\ x(k + 1) \in Nat
      BY <1>0, <1>3, <3>1
    <3> QED
      BY <3>1, <3>2
  <2>3. S \in SUBSET Nat
    OBVIOUS
  <2>4. S = Nat
    <3> HIDE DEF S
    <3> QED
      BY <2>1, <2>2, <2>3, SetInduction
  <2> QED
    BY <2>4
<1>5. t[a + 2] \in Nat /\ t[a + 2] + start = s[a] + pseudo /\ s[a] \in Nat
  <2>1. /\ a + 1 \in 1..a + 2 + b /\ a + 2 \in 1..a + 2 + b
        /\ (a + 1) - 1 = a /\ (a + 2) - 1 = a + 1
    OBVIOUS
  <2>2. t[a + 1] = t[a] + z(a + 1) /\ t[a + 2] = t[a + 1] + z(a + 2)
    BY <1>3, <2>1
  <2> QED
    BY <1>0, <1>4, <2>2
<1> DEFINE After(k) == /\ s[a + k] \in Nat /\ t[a + 2 + k] \in Nat
                       /\ t[a + 2 + k] + start =
                            s[a + k] + pseudo + (IF k >= j THEN c ELSE 0)
           U == {k \in Nat : k <= b => After(k)}
<1>6. After(b)
  <2>1. 0 \in U
    BY <1>5
  <2>2. ASSUME NEW k \in U PROVE k + 1 \in U
    <3> SUFFICES ASSUME k + 1 <= b PROVE After(k + 1)
      OBVIOUS
    <3>1. /\ k \in Nat /\ After(k) /\ k + 1 \in 1..b
          /\ a + (k + 1) \in 1..a + b /\ a + 2 + (k + 1) \in 1..a + 2 + b
          /\ (a + (k + 1)) - 1 = a + k /\ (a + 2 + (k + 1)) - 1 = a + 2 + k
      OBVIOUS
    <3>2. /\ s[a + (k + 1)] = s[a + k] + x(a + (k + 1))
          /\ t[a + 2 + (k + 1)] = t[a + 2 + k] + z(a + 2 + (k + 1))
          /\ x(a + (k + 1)) \in Nat
      BY <1>0, <1>3, <3>1
    <3>3. CASE k + 1 = j
      <4>1. x(a + (k + 1)) = 0 /\ z(a + 2 + (k + 1)) = c
        BY <1>0, <3>3
      <4> QED
        BY <3>1, <3>2, <3>3, <4>1
    <3>4. CASE k + 1 # j
      <4>1. z(a + 2 + (k + 1)) = x(a + (k + 1))
        BY <1>0, <3>1, <3>4
      <4>2. k >= j <=> k + 1 >= j
        BY <3>1, <3>4
      <4> QED
        BY <3>1, <3>2, <4>1, <4>2
    <3> QED
      BY <3>3, <3>4
  <2>3. U \in SUBSET Nat
    OBVIOUS
  <2>4. U = Nat
    <3> HIDE DEF U
    <3> QED
      BY <2>1, <2>2, <2>3, SetInduction
  <2> HIDE DEF After
  <2>5. b \in U
    <3> HIDE DEF U
    <3> QED
      BY <2>4
  <2> QED
    BY <2>5
<1> QED
  BY <1>1, <1>2, <1>6

(* The loop over the data stays in the naturals.                           *)
LEMMA TotalNat ==
  ASSUME NEW data, NEW sum \in Nat, Halfwords(data) \in Nat,
         \A k \in 1..Halfwords(data) : Loaded(data, 2 * k - 1) \in Nat
  PROVE  Total(data, sum) \in Nat
<1> DEFINE x(k) == Loaded(data, 2 * k - 1)
<1>0. PICK b \in Nat : b = Halfwords(data)
  OBVIOUS
<1>1. PICK s : TotalRun(s, data, sum) /\ Total(data, sum) = s[b]
  BY <1>0, TotalIs
<1>2. /\ s[0] = sum /\ \A k \in 1..b : s[k] = s[k - 1] + x(k)
      /\ \A k \in 1..b : x(k) \in Nat
  BY <1>0, <1>1 DEF TotalRun
<1> HIDE DEF x
<1> DEFINE S == {k \in Nat : k <= b => s[k] \in Nat}
<1>3. 0 \in S
  BY <1>2
<1>4. ASSUME NEW k \in S PROVE k + 1 \in S
  <2> SUFFICES ASSUME k + 1 <= b PROVE s[k + 1] \in Nat
    OBVIOUS
  <2>1. k \in Nat /\ s[k] \in Nat /\ k + 1 \in 1..b /\ (k + 1) - 1 = k
    OBVIOUS
  <2> QED
    BY <1>2, <2>1
<1>5. S = Nat
  <2>1. S \in SUBSET Nat
    OBVIOUS
  <2> HIDE DEF S
  <2> QED
    BY <1>3, <1>4, <2>1, SetInduction
<1>6. b \in S
  <2> HIDE DEF S
  <2> QED
    BY <1>5
<1> QED
  BY <1>1, <1>6

(* The pseudo-header's own part of the sum: the length field and the next  *)
(* header, which htons puts where a load of <<0, next_header>> puts it.    *)
LEMMA PseudoSum ==
  ASSUME NEW length \in Seq(Bytes), Len(length) = 2, NEW nh \in Bytes
  PROVE  LET start == checksum(length, htons(nh))
         IN /\ start \in 0..OnesModulus
            /\ Loaded(length, 1) \in Nat /\ nh * Octet \in Nat
            /\ Cong(start, Loaded(length, 1) + nh * Octet)
<1>1. PICK o \in Nat : o = Octet /\ o >= 2
  BY HalfFacts
<1>2. PICK x \in 0..o-1 : x = nh
  BY <1>1 DEF Bytes
<1>3. nh * Octet \in Nat /\ htons(nh) = nh * Octet
  <2>1. x % o = x /\ x \div o = 0 /\ x * o \in Nat
    BY <1>1, <1>2
  <2>2. htons(x) = x * o
    BY <1>1, <1>2, <2>1 DEF htons
  <2> QED
    BY <1>1, <1>2, <2>1, <2>2
<1>4. PICK h \in Nat : h = htons(nh)
  BY <1>3
<1>5. Loaded(length, 1) \in Nat
  <2>1. 1 \in 1..Len(length)
    OBVIOUS
  <2> QED
    BY <2>1, HalfwordFacts
<1>6. Halfwords(length) = 1
  BY DEF Halfwords
<1>7. PICK s : TotalRun(s, length, h) /\ Total(length, h) = s[1]
  <2>1. Halfwords(length) \in Nat
    BY <1>6
  <2> QED
    BY <1>6, <2>1, TotalIs
<1>8. Total(length, h) = h + Loaded(length, 1)
  <2>1. 1 \in 1..1 /\ 1 - 1 = 0 /\ 2 * 1 - 1 = 1
    OBVIOUS
  <2> QED
    BY <1>6, <1>7, <2>1 DEF TotalRun
<1>9. Total(length, h) \in Nat
      /\ Total(length, h) = Loaded(length, 1) + nh * Octet
  BY <1>3, <1>4, <1>5, <1>8
<1> QED
  BY <1>3, <1>4, <1>5, <1>9, FoldIs DEF checksum

LEMMA HalfOfSum ==
  ASSUME NEW m \in Nat, NEW n \in Nat
  PROVE  ((2 * m + n) + 1) \div 2 = m + ((n + 1) \div 2)
OBVIOUS

LEMMA ConcatFacts ==
  ASSUME NEW p \in Seq(Bytes), NEW q \in Seq(Bytes)
  PROVE  /\ p \o q \in Seq(Bytes)
         /\ Len(p) \in Nat /\ Len(q) \in Nat /\ Len(p \o q) = Len(p) + Len(q)
         /\ \A i \in 1..Len(p)-1 : Loaded(p \o q, i) = Loaded(p, i)
         /\ \A i \in 1..Len(q) : Loaded(p \o q, Len(p) + i) = Loaded(q, i)
<1>1. p \o q \in Seq(Bytes) /\ Len(p) \in Nat /\ Len(q) \in Nat
      /\ Len(p \o q) = Len(p) + Len(q)
  OBVIOUS
<1> QED
  BY <1>1, LoadedConcat

(* What the receiver sums, against what the sender summed: the length and  *)
(* the next header come between the addresses and the payload.             *)
LaidOut(d, r, a, b, u, v, x, y) ==
  /\ d \in Seq(Bytes) /\ r \in Seq(Bytes) /\ b \in Nat
  /\ Halfwords(d) = a + b /\ Halfwords(r) = a + 2 + b
  /\ \A k \in 1..a : Loaded(r, 2 * k - 1) = Loaded(d, 2 * k - 1)
  /\ Loaded(r, 2 * (a + 1) - 1) = x /\ Loaded(r, 2 * (a + 2) - 1) = y
  /\ \A k \in 1..b :
       /\ Loaded(d, 2 * (a + k) - 1) = Loaded(u, 2 * k - 1)
       /\ Loaded(r, 2 * (a + 2 + k) - 1) = Loaded(v, 2 * k - 1)

LEMMA Layout ==
  ASSUME NEW p \in Seq(Bytes), NEW a \in Nat, Len(p) = 2 * a,
         NEW length \in Seq(Bytes), Len(length) = 2, NEW nh \in Bytes,
         NEW u \in Seq(Bytes), NEW v \in Seq(Bytes), Len(v) = Len(u)
  PROVE  LaidOut(p \o u, p \o length \o <<0, nh>> \o v, a, Halfwords(u), u, v,
                 Loaded(length, 1), nh * Octet)
<1> DEFINE d == p \o u
           e == <<0, nh>>
           pl == p \o length
           q == pl \o e
           r == q \o v
           b == Halfwords(u)
<1>0. 0 \in Bytes
  BY HalfFacts DEF Bytes
<1>1. e \in Seq(Bytes) /\ Len(e) = 2 /\ e[1] = 0 /\ e[2] = nh
  BY <1>0
<1> HIDE DEF e
<1>2. /\ pl \in Seq(Bytes) /\ Len(pl) = Len(p) + Len(length)
      /\ \A i \in 1..Len(p)-1 : Loaded(pl, i) = Loaded(p, i)
      /\ \A i \in 1..Len(length) : Loaded(pl, Len(p) + i) = Loaded(length, i)
  BY ConcatFacts, Zenon
<1> HIDE DEF pl
<1>3. /\ q \in Seq(Bytes) /\ Len(q) = Len(pl) + Len(e)
      /\ \A i \in 1..Len(pl)-1 : Loaded(q, i) = Loaded(pl, i)
      /\ \A i \in 1..Len(e) : Loaded(q, Len(pl) + i) = Loaded(e, i)
  BY <1>1, <1>2, ConcatFacts, Zenon
<1> HIDE DEF q
<1>4. /\ d \in Seq(Bytes) /\ Len(d) = Len(p) + Len(u)
      /\ \A i \in 1..Len(p)-1 : Loaded(d, i) = Loaded(p, i)
      /\ \A i \in 1..Len(u) : Loaded(d, Len(p) + i) = Loaded(u, i)
  BY ConcatFacts, Zenon
<1>5. /\ r \in Seq(Bytes) /\ Len(r) = Len(q) + Len(v)
      /\ \A i \in 1..Len(q)-1 : Loaded(r, i) = Loaded(q, i)
      /\ \A i \in 1..Len(v) : Loaded(r, Len(q) + i) = Loaded(v, i)
  BY <1>3, ConcatFacts, Zenon
<1>6. /\ b \in Nat /\ 2 * b \in {Len(u), Len(u) + 1}
      /\ \A k \in 1..b : 2 * k - 1 \in 1..Len(u)
  BY HalfwordsFacts, Zenon
<1> HIDE DEF d, r
<1>7. PICK n \in Nat : n = Len(u)
  <2>1. Len(u) \in Nat
    OBVIOUS
  <2> QED
    BY <2>1
<1>8. /\ Len(p) = 2 * a /\ Len(pl) = 2 * a + 2 /\ Len(q) = 2 * a + 4
      /\ Len(d) = 2 * a + n /\ Len(r) = (2 * a + 4) + n
  BY <1>1, <1>2, <1>3, <1>4, <1>5, <1>7
<1>9. Halfwords(d) = a + b
  <2>1. ((2 * a + n) + 1) \div 2 = a + ((n + 1) \div 2)
    BY HalfOfSum
  <2> QED
    BY <1>7, <1>8, <2>1 DEF Halfwords
<1>10. Halfwords(r) = a + 2 + b
  <2>1. PICK m \in Nat : m = a + 2
    OBVIOUS
  <2>2. ((2 * m + n) + 1) \div 2 = m + ((n + 1) \div 2)
    BY HalfOfSum
  <2>3. Len(r) = 2 * m + n
    BY <1>7, <1>8, <2>1
  <2> QED
    BY <1>7, <2>1, <2>2, <2>3 DEF Halfwords
<1> HIDE DEF b
<1>11. ASSUME NEW k \in 1..a
       PROVE  Loaded(r, 2 * k - 1) = Loaded(d, 2 * k - 1)
  <2>1. PICK i \in Nat : i = 2 * k - 1
    OBVIOUS
  <2>2. i \in 1..Len(p)-1 /\ i \in 1..Len(pl)-1 /\ i \in 1..Len(q)-1
    BY <1>8, <2>1
  <2>3. Loaded(r, i) = Loaded(d, i)
    BY <1>2, <1>3, <1>4, <1>5, <2>2
  <2> QED
    BY <2>1, <2>3
<1>12. Loaded(r, 2 * (a + 1) - 1) = Loaded(length, 1)
  <2>1. PICK i \in Nat : i = 2 * (a + 1) - 1
    OBVIOUS
  <2>2. /\ i = Len(p) + 1 /\ 1 \in 1..Len(length)
        /\ i \in 1..Len(pl)-1 /\ i \in 1..Len(q)-1
    BY <1>8, <2>1
  <2>3. Loaded(r, i) = Loaded(length, 1)
    BY <1>2, <1>3, <1>5, <2>2
  <2> QED
    BY <2>1, <2>3
<1>13. Loaded(r, 2 * (a + 2) - 1) = nh * Octet
  <2>1. PICK i \in Nat : i = 2 * (a + 2) - 1
    OBVIOUS
  <2>2. i = Len(pl) + 1 /\ 1 \in 1..Len(e) /\ i \in 1..Len(q)-1
    BY <1>1, <1>8, <2>1
  <2>3. Loaded(r, i) = Loaded(e, 1)
    BY <1>3, <1>5, <2>2
  <2>4. Loaded(e, 1) = nh * Octet
    <3>1. nh * Octet \in Nat
      BY HalfFacts, PseudoSum
    <3> QED
      BY <1>1, <3>1 DEF Loaded
  <2> QED
    BY <2>1, <2>3, <2>4
<1>14. ASSUME NEW k \in 1..b
       PROVE  /\ Loaded(d, 2 * (a + k) - 1) = Loaded(u, 2 * k - 1)
              /\ Loaded(r, 2 * (a + 2 + k) - 1) = Loaded(v, 2 * k - 1)
  <2>1. PICK i \in 1..Len(u) : i = 2 * k - 1
    BY <1>6
  <2>2. k \in Nat /\ i \in 1..Len(v) /\ i \in Nat
    BY <1>6, <1>7
  <2>3. /\ 2 * (a + k) - 1 = Len(p) + i
        /\ 2 * (a + 2 + k) - 1 = Len(q) + i
    BY <1>8, <2>1, <2>2
  <2>4. /\ Loaded(d, Len(p) + i) = Loaded(u, i)
        /\ Loaded(r, Len(q) + i) = Loaded(v, i)
    BY <1>4, <1>5, <2>2
  <2> QED
    BY <2>1, <2>3, <2>4
<1>15. LaidOut(d, r, a, b, u, v, Loaded(length, 1), nh * Octet)
  BY <1>4, <1>5, <1>6, <1>9, <1>10, <1>11, <1>12, <1>13, <1>14 DEF LaidOut
<1> QED
  BY <1>15, Zenon DEF d, r, b, q, pl, e

(* The sum that goes out, from the sum that was computed.                  *)
LEMMA Complement ==
  ASSUME NEW sum \in 0..OnesModulus
  PROVE  LET c == IF sum = Half - 1 THEN sum ELSE Half - 1 - sum
         IN c \in 1..OnesModulus /\ Cong(sum + c, 0)
<1> DEFINE c == IF sum = Half - 1 THEN sum ELSE Half - 1 - sum
<1>1. c \in 1..OnesModulus
  BY HalfFacts
<1>2. CASE sum = OnesModulus
  <2>1. (sum + c) - 0 = 2 * OnesModulus
    BY <1>2, HalfFacts
  <2> QED
    BY <1>1, <2>1 DEF Cong
<1>3. CASE sum # OnesModulus
  <2>1. (sum + c) - 0 = 1 * OnesModulus
    BY <1>3, HalfFacts
  <2> QED
    BY <1>1, <2>1 DEF Cong
<1> QED
  BY <1>2, <1>3

(* The only nonzero one's complement sum that counts as zero.              *)
LEMMA OnesZero ==
  ASSUME NEW n \in 1..OnesModulus, Cong(n, 0)
  PROVE  n = Half - 1
<1>1. PICK k \in Int : n - 0 = k * OnesModulus
  BY DEF Cong
<1>2. PICK m \in Nat : m = OnesModulus /\ m >= 3
  BY HalfFacts
<1>3. n = k * m /\ n >= 1 /\ n <= m
  BY <1>1, <1>2
<1>4. k <= 0 => k * m <= 0
  BY <1>2
<1>5. k >= 2 => k * m >= 2 * m
  BY <1>2
<1>6. k = 1
  BY <1>2, <1>3, <1>4, <1>5
<1> QED
  BY <1>2, <1>3, <1>6, HalfFacts

(* The checksum of every reply is accepted.  Whatever the addresses (an    *)
(* even number of bytes together), the length field, the next header and   *)
(* the payload, of odd length too, with zero in an aligned checksum field: *)
(* what checksum_ip6 computes in the byte order of the processor is never  *)
(* zero, and a receiver that adds up the pseudo-header of RFC 8200 and the *)
(* packet with it stored in the field, in network order and with every     *)
(* carry, gets all ones.                                                   *)
THEOREM ChecksumAccepted ==
  ASSUME NEW length \in Seq(Bytes), Len(length) = 2, NEW nh \in Bytes,
         NEW src \in Seq(Bytes), NEW dst \in Seq(Bytes),
         NEW a \in Nat, Len(src) + Len(dst) = 2 * a,
         NEW payload \in Seq(Bytes), NEW j \in Nat \ {0},
         2 * j <= Len(payload),
         payload[2 * j - 1] = 0, payload[2 * j] = 0
  PROVE  LET c == checksum_ip6(length, nh, src, dst, payload)
         IN /\ c \in 1..Half-1
            /\ Verifies(length, nh, src, dst, Sealed(payload, 2 * j - 2, c))
<1> DEFINE p == src \o dst
           start == checksum(length, htons(nh))
           sum == checksum(p \o payload, start)
           c == checksum_ip6(length, nh, src, dst, payload)
           v == Sealed(payload, 2 * j - 2, c)
           d == p \o payload
           r == p \o length \o <<0, nh>> \o v
           b == Halfwords(payload)
           pseudo == Loaded(length, 1) + nh * Octet
<1>1. p \in Seq(Bytes) /\ Len(p) = 2 * a
  OBVIOUS
<1>2. c = IF sum = Half - 1 THEN sum ELSE Half - 1 - sum
  BY DEF checksum_ip6
<1>3. Verifies(length, nh, src, dst, v) <=> Sum(r) = Half - 1
  BY DEF Verifies
<1> HIDE DEF p
<1>4. /\ start \in 0..OnesModulus /\ Loaded(length, 1) \in Nat
      /\ nh * Octet \in Nat /\ Cong(start, pseudo)
  BY PseudoSum
<1>5. sum = Fold(Total(d, start))
  BY DEF checksum
<1>6. /\ \A k \in 1..a + b : 2 * k - 1 \in 1..Len(d)
      /\ d \in Seq(Bytes) /\ b \in Nat /\ Halfwords(d) = a + b
      /\ \A k \in 1..b : Loaded(d, 2 * (a + k) - 1) = Loaded(payload, 2 * k - 1)
  <2>1. /\ d \in Seq(Bytes) /\ b \in Nat /\ Halfwords(d) = a + b
        /\ \A k \in 1..b : Loaded(d, 2 * (a + k) - 1) = Loaded(payload, 2 * k - 1)
    <3>1. LaidOut(d, p \o length \o <<0, nh>> \o payload, a, b, payload,
                  payload, Loaded(length, 1), nh * Octet)
      BY <1>1, Layout, Zenon
    <3> HIDE DEF d, b
    <3> QED
      BY <3>1 DEF LaidOut
  <2> HIDE DEF d
  <2> QED
    BY <2>1, HalfwordsFacts
<1>7. \A k \in 1..a + b : Loaded(d, 2 * k - 1) \in Nat
  <2> HIDE DEF d
  <2> SUFFICES ASSUME NEW k \in 1..a + b PROVE Loaded(d, 2 * k - 1) \in Nat
    OBVIOUS
  <2>1. 2 * k - 1 \in 1..Len(d)
    BY <1>6
  <2> QED
    BY <1>6, <2>1, HalfwordFacts
<1>8. Total(d, start) \in Nat
  <2> HIDE DEF d, b, start
  <2>1. start \in Nat /\ Halfwords(d) \in Nat
    BY <1>4, <1>6, HalfFacts
  <2>2. \A k \in 1..Halfwords(d) : Loaded(d, 2 * k - 1) \in Nat
    BY <1>6, <1>7
  <2> QED
    BY <2>1, <2>2, TotalNat, Zenon
<1> HIDE DEF start
<1>9. sum \in 0..OnesModulus /\ Cong(sum, Total(d, start))
  <2> HIDE DEF d, sum
  <2> QED
    BY <1>5, <1>8, FoldIs
<1> HIDE DEF sum, c
<1>10. c \in 1..OnesModulus /\ Cong(sum + c, 0)
  BY <1>2, <1>9, Complement
<1>11. j \in 1..b /\ 2 * j - 1 \in 1..Len(payload)
  <2>1. Len(payload) \in Nat /\ 2 * b \in {Len(payload), Len(payload) + 1}
    BY HalfwordsFacts
  <2> HIDE DEF b
  <2> QED
    BY <1>6, <2>1
<1>12. /\ v \in Seq(Bytes) /\ Len(v) = Len(payload)
       /\ Loaded(v, 2 * j - 1) = c
       /\ \A k \in 1..b : k # j =>
            Loaded(v, 2 * k - 1) = Loaded(payload, 2 * k - 1)
  <2>1. c \in 0..OnesModulus
    BY <1>10, HalfFacts
  <2> QED
    BY <2>1, SealedFacts
<1> HIDE DEF v
<1>13. /\ r \in Seq(Bytes) /\ Halfwords(r) = a + 2 + b
       /\ \A k \in 1..a : Loaded(r, 2 * k - 1) = Loaded(d, 2 * k - 1)
       /\ Loaded(r, 2 * (a + 1) - 1) = Loaded(length, 1)
       /\ Loaded(r, 2 * (a + 2) - 1) = nh * Octet
       /\ \A k \in 1..b :
            Loaded(r, 2 * (a + 2 + k) - 1) = Loaded(v, 2 * k - 1)
  <2>0. v \in Seq(Bytes) /\ Len(v) = Len(payload)
    BY <1>12
  <2>1. LaidOut(d, r, a, b, payload, v, Loaded(length, 1), nh * Octet)
    BY <1>1, <2>0, Layout, Zenon
  <2> HIDE DEF d, r, b
  <2> QED
    BY <2>1 DEF LaidOut
<1>14. Loaded(payload, 2 * j - 1) = 0
  <2>1. PICK i \in 1..Len(payload) : i = 2 * j - 1
    BY <1>11
  <2>2. i + 1 = 2 * j
    BY <2>1
  <2>3. i < Len(payload) /\ payload[i] = 0 /\ payload[i + 1] = 0
    BY <2>1, <2>2
  <2>4. Loaded(payload, i) = 0
    BY <2>3, HalfFacts DEF Loaded
  <2> QED
    BY <2>1, <2>4
<1> HIDE DEF d, r, b
<1>15. /\ Loaded(r, 2 * (a + 2 + j) - 1) = c
       /\ Loaded(d, 2 * (a + j) - 1) = 0
       /\ \A k \in 1..b : k # j =>
            Loaded(r, 2 * (a + 2 + k) - 1) = Loaded(d, 2 * (a + k) - 1)
  BY <1>6, <1>11, <1>12, <1>13, <1>14
<1>16. pseudo \in Nat
  BY <1>4
<1>17. Loaded(r, 2 * (a + 1) - 1) + Loaded(r, 2 * (a + 2) - 1) = pseudo
       /\ Loaded(r, 2 * (a + 1) - 1) \in Nat
       /\ Loaded(r, 2 * (a + 2) - 1) \in Nat
  BY <1>4, <1>13
<1> HIDE DEF pseudo
<1>18. /\ Total(r, 0) + start = Total(d, start) + pseudo + c
       /\ Total(r, 0) \in Nat
  <2>1. Differs(d, r, a, b, j, c, pseudo)
    BY <1>6, <1>7, <1>13, <1>15, <1>17 DEF Differs
  <2>2. PICK B \in Nat, C \in Nat, s \in Nat, P \in Nat :
          B = b /\ C = c /\ s = start /\ P = pseudo /\ j \in 1..B
    BY <1>4, <1>6, <1>10, <1>11, <1>16, HalfFacts
  <2>3. Differs(d, r, a, B, j, C, P) /\ j \in 1..B
    BY <2>1, <2>2
  <2>4. /\ Total(r, 0) + s = Total(d, s) + P + C
        /\ Total(d, s) \in Nat /\ Total(r, 0) \in Nat
    BY <2>3, TotalsDiffer, Zenon
  <2> QED
    BY <2>2, <2>4
<1>19. Cong(Total(r, 0), 0)
  <2>0. PICK T \in Int, D \in Int, s \in Int, P \in Int, C \in Int, M \in Int :
          /\ T = Total(r, 0) /\ D = Total(d, start) /\ s = start
          /\ P = pseudo /\ C = c /\ M = sum
    BY <1>4, <1>8, <1>9, <1>10, <1>16, <1>18, HalfFacts
  <2>1. /\ T + s = D + P + C /\ Cong(s, P) /\ Cong(M, D) /\ Cong(M + C, 0)
    BY <1>4, <1>9, <1>10, <1>18, <2>0 DEF pseudo
  <2>2. PICK k \in Int : s - P = k * OnesModulus
    BY <2>1 DEF Cong
  <2>3. PICK l \in Int : M - D = l * OnesModulus
    BY <2>1 DEF Cong
  <2>4. PICK m \in Int : M + C - 0 = m * OnesModulus
    BY <2>1 DEF Cong
  <2>5. T - 0 = m * OnesModulus - l * OnesModulus - k * OnesModulus
    BY <2>1, <2>2, <2>3, <2>4, HalfFacts
  <2>6. m * OnesModulus - l * OnesModulus - k * OnesModulus
          = (m - l - k) * OnesModulus
    BY HalfFacts
  <2> QED
    BY <2>0, <2>5, <2>6 DEF Cong
<1>20. Sum(r) \in 1..OnesModulus /\ Cong(Sum(r), Octet * Total(r, 0))
  <2>1. a + 2 + j \in 1..Halfwords(r) /\ Loaded(r, 2 * (a + 2 + j) - 1) > 0
    BY <1>6, <1>10, <1>11, <1>13, <1>15, HalfFacts
  <2>2. /\ Sum(r) \in 0..OnesModulus /\ Cong(Sum(r), Octet * Total(r, 0))
        /\ Sum(r) > 0
    BY <1>13, <2>1, ReceiverSum
  <2> QED
    BY <2>2, HalfFacts
<1>21. Cong(Sum(r), 0)
  <2>1. Octet * 0 = 0 /\ Octet * Total(r, 0) \in Int /\ Sum(r) \in Int
    BY <1>18, <1>20, HalfFacts
  <2>2. Cong(Octet * Total(r, 0), Octet * 0)
    BY <1>18, <1>19, CongOctet
  <2> QED
    BY <1>20, <2>1, <2>2, CongTrans
<1>22. Sum(r) = Half - 1
  BY <1>20, <1>21, OnesZero
<1> QED
  BY <1>3, <1>10, <1>22 DEF c, v, r, OnesModulus
===============================================================================
