--------------------------------- MODULE Ipv6 ---------------------------------
(***************************************************************************)
(* The IPv6 stack net/ipv6.c on the Ethernet slots of boot/netboot.c and   *)
(* of example/ex05-ethernet.c, whose eth_rx, eth_tx and eth_init are the   *)
(* same, and their pkt_rx_udp callbacks.                                   *)
(*                                                                         *)
(* A frame is the record of the fields the stack looks at; len is WR_LEN.  *)
(* Offsets are those of rxbuf, which starts with two bytes of padding, so  *)
(* headers end at 16 (Ethernet), 56 (IPv6), 60 (ICMP), 64 (UDP) and 80     *)
(* (NDP target, netboot_msg_t).  Addresses are named by what they stand    *)
(* for: ifc is this interface, ns and ll its two multicast groups.         *)
(***************************************************************************)
EXTENDS Integers, Sequences

CONSTANTS
  Shapes, Frames, \* frames that may arrive: the first one, and later ones
  MaxFrames       \* bound on the frames that arrive

NETBUF_MAX == 1536
RX_SLOTS == 2
TX_SLOTS == 2
NB_MSG_MIN == 16
NB_MSG_MAX == 1040
NB_MAGIC == "NB_MAGIC"
NameLen == 6         \* strlen("device")
CTRL == 58572
QUERY_PORT == 58571

\* Lengths come from hardware registers and 16-bit fields.
ASSUME Ipv6Assumption ==
  /\ MaxFrames \in Nat \ {0} /\ Shapes # {}
  /\ \A f \in Shapes \cup Frames : f.len \in Nat /\ f.ulen \in Nat

VARIABLES
  app,       \* whose callback: "netboot" or "ex05"
  pc,        \* next function
  rx,        \* external: frames in the receive slots, oldest first
  arrived,   \* history: the frames that got a slot
  rxbuf,     \* the frame in rxbuf
  arg,       \* len, port and mcast handed down
  reply,     \* the packet on the stack of net_tx_*_reply
  txslot, slots,  \* the next transmit slot; what the slots hold
  tx,        \* external: slots handed to the reader and not sent yet
  mem,       \* what the last NB_CMD_WRITE copied: address, bytes, data
  wire,      \* packets sent
  handled,   \* history: how many of them were taken from their slots
  seen       \* history: how far into rxbuf the stack has read the frame

mac     == <<rx, arrived, txslot, slots, tx, wire>>
history == <<handled, seen>>
vars    == <<app, pc, mac, rxbuf, arg, reply, mem, history>>

NoFrame == [len |-> 0]
NoReply == [to |-> "none"]
NoArg   == [len |-> 0, port |-> 0, mcast |-> 0]
NoMem   == <<0, 0, "none">>

\* After net_init() and eth_init().
Init ==
  /\ app \in {"netboot", "ex05"}
  /\ pc = "poll" /\ rx = <<>> /\ arrived = <<>>
  /\ rxbuf = NoFrame /\ arg = NoArg /\ reply = NoReply
  /\ txslot = 0 /\ slots = [s \in 0..TX_SLOTS - 1 |-> NoReply] /\ tx = <<>>
  /\ mem = NoMem /\ wire = <<>> /\ handled = 0 /\ seen = 0

-----------------------------------------------------------------------------
(* External: the LiteX Ethernet MAC.  A frame that finds no slot is lost;  *)
(* a command stays in the reader's queue until its slot has been sent.     *)

Arrive ==
  /\ Len(arrived) < MaxFrames /\ Len(rx) < RX_SLOTS
  /\ \E f \in IF arrived = <<>> THEN Shapes ELSE Frames :
       rx' = Append(rx, f) /\ arrived' = Append(arrived, f)
  /\ UNCHANGED <<app, pc, txslot, slots, tx, wire, rxbuf, arg, reply, mem, history>>

Transmit ==
  /\ tx # <<>>
  /\ wire' = Append(wire, slots[Head(tx)]) /\ tx' = Tail(tx)
  /\ UNCHANGED <<app, pc, rx, arrived, txslot, slots, rxbuf, arg, reply, mem, history>>

-----------------------------------------------------------------------------
(* Receiving.  Each function drops the packet (to "ack") or calls the next *)
(* one with a shorter length.                                              *)

Read(end) == seen' = IF end > seen THEN end ELSE seen

\* eth_handle_rx sees WR_EV_PENDING, and eth_rx.
eth_rx ==
  /\ pc = "poll" /\ rx # <<>>
  /\ handled' = handled + 1 /\ seen' = 0
  /\ IF Head(rx).len > NETBUF_MAX - 2
     THEN pc' = "ack" /\ UNCHANGED <<rxbuf, arg>>
     ELSE /\ rxbuf' = Head(rx) /\ arg' = [NoArg EXCEPT !.len = Head(rx).len + 2]
          /\ pc' = "net_rx_eth"
  /\ UNCHANGED <<app, mac, reply, mem>>

Step(from) == pc = from /\ UNCHANGED <<app, mac, rxbuf, handled>>
Call(to, ok, a) == IF ok THEN pc' = to /\ arg' = a ELSE pc' = "ack" /\ UNCHANGED arg

net_rx_eth ==
  /\ Step("net_rx_eth")
  /\ Call("net_rx_ip6",
          arg.len >= 60 /\ rxbuf.type = "ip6" /\ rxbuf.dst \in {"ifc", "ns", "ll"},
          [len |-> arg.len - 16, port |-> arg.port,
           mcast |-> IF rxbuf.dst = "ifc" THEN 0 ELSE 1])
  /\ IF arg.len >= 60 THEN Read(16) ELSE UNCHANGED seen
  /\ UNCHANGED <<reply, mem>>

net_rx_ip6 ==
  /\ Step("net_rx_ip6")
  /\ Call(IF rxbuf.next = "udp" THEN "net_rx_udp6" ELSE "net_rx_icmp6",
          /\ rxbuf.ipdst \in IF arg.mcast = 1 THEN {"ns", "ll"} ELSE {"ifc"}
          /\ rxbuf.next \in {"udp", "icmp"},
          [arg EXCEPT !.len = @ - 40])
  /\ Read(56)
  /\ UNCHANGED <<reply, mem>>

\* Mutant of net_rx_udp6: the UDP length is not compared with the frame's.
net_rx_udp6_unchecked ==
  /\ Step("net_rx_udp6")
  /\ Call("pkt_rx_udp", rxbuf.ulen >= 8,
          [len |-> rxbuf.ulen - 8, port |-> rxbuf.dport, mcast |-> arg.mcast])
  /\ IF arg.len >= 8 THEN Read(64) ELSE UNCHANGED seen
  /\ UNCHANGED <<reply, mem>>

net_rx_udp6 ==
  /\ Step("net_rx_udp6")
  /\ Call("pkt_rx_udp", arg.len >= 8 /\ rxbuf.ulen >= 8 /\ rxbuf.ulen <= arg.len,
          [len |-> rxbuf.ulen - 8, port |-> rxbuf.dport, mcast |-> arg.mcast])
  /\ IF arg.len >= 8 THEN Read(64) ELSE UNCHANGED seen
  /\ UNCHANGED <<reply, mem>>

\* Both replies go to the addresses the request came from; the length is that
\* of what follows the padding.
Packet(kind, from, port, n, body) ==
  [to |-> rxbuf.src, toport |-> port, kind |-> kind, from |-> from, len |-> n, body |-> body]

\* net_tx_ip6_reply: headers of 54 bytes.
IcmpReply(kind, n, body) ==
  IF n > NETBUF_MAX - 56 THEN pc' = "ack" /\ UNCHANGED reply
  ELSE pc' = "eth_tx" /\ reply' = Packet(kind, 0, 0, 54 + n, body)

\* net_tx_udp_reply: headers of 62 bytes.
UdpReply(n, port, body) ==
  IF n > NETBUF_MAX - 64 THEN pc' = "ack" /\ UNCHANGED reply
  ELSE pc' = "eth_tx" /\ reply' = Packet("udp", port, rxbuf.sport, 62 + n, body)

\* An advertisement for a solicitation of our address, an echo of the rest of
\* the frame for an echo request.
net_rx_icmp6 ==
  /\ Step("net_rx_icmp6")
  /\ LET long    == arg.len >= 4
         solicit == rxbuf.icmp = "solicit" /\ arg.len >= 24 /\ rxbuf.code = 0
         echo    == rxbuf.icmp = "echo"
     IN  /\ IF long /\ solicit /\ rxbuf.target = "ifc"
            THEN IcmpReply("advertise", 32, <<0, "none", "ifc">>)
            ELSE IF long /\ echo THEN IcmpReply("echo_reply", arg.len, <<0, "none", rxbuf.body>>)
            ELSE pc' = "ack" /\ UNCHANGED reply
         /\ Read(IF ~long THEN 0 ELSE IF solicit THEN 80 ELSE IF echo THEN 56 + arg.len ELSE 60)
  /\ UNCHANGED <<arg, mem>>

-----------------------------------------------------------------------------
(* The callbacks.                                                          *)

\* ex05: ten bytes from the port the packet was sent to.
multipass ==
  /\ app = "ex05" /\ Step("pkt_rx_udp")
  /\ UdpReply(10, arg.port, <<0, "none", "multipass">>)
  /\ UNCHANGED <<arg, mem, seen>>

Drop ==
  /\ app = "netboot" /\ Step("pkt_rx_udp")
  /\ LET sized == arg.len \in NB_MSG_MIN..NB_MSG_MAX
         query == arg.port = QUERY_PORT /\ rxbuf.cmd = "QUERY" /\ arg.len = NameLen + NB_MSG_MIN
     IN  /\ ~sized \/ rxbuf.magic # NB_MAGIC \/ (arg.port # CTRL /\ ~(query /\ rxbuf.body = "device"))
         /\ IF sized THEN Read(IF query THEN 64 + arg.len ELSE 80) ELSE UNCHANGED seen
  /\ pc' = "ack"
  /\ UNCHANGED <<arg, reply, mem>>

Valid == /\ app = "netboot" /\ Step("pkt_rx_udp")
         /\ arg.len \in NB_MSG_MIN..NB_MSG_MAX /\ rxbuf.magic = NB_MAGIC
         /\ UNCHANGED arg

\* The name is written into rxbuf behind the message, then sent with it.
query_reply ==
  /\ Valid /\ rxbuf.cmd = "QUERY"
  /\ \/ arg.port = CTRL /\ Read(80)
     \/ /\ arg.port = QUERY_PORT /\ arg.len = NameLen + NB_MSG_MIN /\ rxbuf.body = "device"
        /\ Read(64 + arg.len)
  /\ UdpReply(NB_MSG_MIN + 5 + NameLen + 1, CTRL, <<rxbuf.seq, "OK", "name=device">>)
  /\ UNCHANGED mem

nb_write ==
  /\ Valid /\ rxbuf.cmd = "WRITE" /\ arg.port = CTRL
  /\ mem' = <<rxbuf.addr, arg.len - NB_MSG_MIN, rxbuf.body>>
  /\ UdpReply(NB_MSG_MIN, CTRL, <<rxbuf.seq, "OK", "none">>)
  /\ Read(64 + arg.len)

\* The reply is handed over, then exit_mode_m: the event stays unacknowledged.
nb_exec ==
  /\ Valid /\ rxbuf.cmd = "EXEC" /\ arg.port = CTRL
  /\ UdpReply(NB_MSG_MIN, CTRL, <<rxbuf.seq, "OK", "none">>)
  /\ Read(80) /\ UNCHANGED mem

nb_badcmd ==
  /\ Valid /\ rxbuf.cmd \notin {"QUERY", "WRITE", "EXEC"} /\ arg.port = CTRL
  /\ UdpReply(NB_MSG_MIN, CTRL, <<rxbuf.seq, "BADCMD", "none">>)
  /\ Read(80) /\ UNCHANGED mem

-----------------------------------------------------------------------------
(* eth_tx, and the end of eth_handle_rx.                                   *)

Executes == app = "netboot" /\ rxbuf.next = "udp" /\ rxbuf.cmd = "EXEC"

\* Mutant of eth_tx: it does not wait for RD_READY.
eth_tx_no_wait ==
  /\ pc = "eth_tx"
  /\ slots' = [slots EXCEPT ![txslot] = reply]
  /\ tx' = Append(tx, txslot) /\ txslot' = 1 - txslot
  /\ pc' = IF Executes THEN "run" ELSE "ack"
  /\ UNCHANGED <<app, rx, arrived, wire, rxbuf, arg, reply, mem, history>>

\* A longer packet than a slot is allowed is dropped.  RD_READY is set while
\* the reader can take a command.
eth_tx ==
  /\ pc = "eth_tx"
  /\ IF reply.len > NETBUF_MAX - 2 THEN UNCHANGED <<slots, tx, txslot>>
     ELSE /\ Len(tx) < TX_SLOTS
          /\ slots' = [slots EXCEPT ![txslot] = reply]
          /\ tx' = Append(tx, txslot) /\ txslot' = 1 - txslot
  /\ pc' = IF Executes THEN "run" ELSE "ack"
  /\ UNCHANGED <<app, rx, arrived, wire, rxbuf, arg, reply, mem, history>>

\* Mutant of eth_ack: the event is acknowledged for every waiting frame.
eth_ack_all ==
  /\ pc = "ack" /\ pc' = "poll"
  /\ rx' = <<>> /\ rxbuf' = NoFrame /\ arg' = NoArg /\ reply' = NoReply
  /\ UNCHANGED <<app, arrived, txslot, slots, tx, wire, mem, history>>

eth_ack ==
  /\ pc = "ack" /\ pc' = "poll"
  /\ rx' = Tail(rx) /\ rxbuf' = NoFrame /\ arg' = NoArg /\ reply' = NoReply
  /\ UNCHANGED <<app, arrived, txslot, slots, tx, wire, mem, history>>

\* The loop, or the image, goes on.
Idle == /\ pc = "run" \/ (pc = "poll" /\ rx = <<>>)
        /\ UNCHANGED vars

-----------------------------------------------------------------------------
Cpu == \/ eth_rx \/ net_rx_eth \/ net_rx_ip6 \/ net_rx_udp6 \/ net_rx_icmp6
       \/ multipass \/ Drop \/ query_reply \/ nb_write \/ nb_exec \/ nb_badcmd
       \/ eth_tx \/ eth_ack

Next == Arrive \/ Transmit \/ Cpu \/ Idle

Spec == Init /\ [][Next]_vars

\* The hart runs, and the MAC sends what it was given.
FairSpec == Spec /\ WF_vars(Cpu) /\ WF_vars(Transmit)

-----------------------------------------------------------------------------
(* Properties.                                                             *)

(* Every byte of rxbuf the stack looks at or copies belongs to the frame   *)
(* it handles, never to an earlier and longer one, and no packet exceeds   *)
(* the buffer or the slot it is built in.                                  *)
OwnBytesOnly ==
  /\ rxbuf # NoFrame => seen <= rxbuf.len + 2 /\ rxbuf.len + 2 <= NETBUF_MAX
  /\ reply # NoReply => reply.len + 2 <= NETBUF_MAX

\* What a frame is, judged on its own.
ForUs(f) == /\ f.len \in 58..1534 /\ f.type = "ip6"
            /\ <<f.dst, f.ipdst>> \in {<<"ifc", "ifc">>} \cup ({"ns", "ll"} \X {"ns", "ll"})
Datagram(f) == ForUs(f) /\ f.next = "udp" /\ f.ulen \in 8..f.len - 54 /\ f.len >= 62
Message(f) == Datagram(f) /\ f.ulen - 8 \in NB_MSG_MIN..NB_MSG_MAX /\ f.magic = NB_MAGIC
Named(f) == Message(f) /\ f.dport = QUERY_PORT /\ f.cmd = "QUERY" /\ f.body = "device"
            /\ f.ulen = 8 + NB_MSG_MIN + NameLen

\* The packets a frame is owed, by either program and by the one that runs.
Udp(f, port, n, body) == << [to |-> f.src, toport |-> f.sport, kind |-> "udp",
                             from |-> port, len |-> 62 + n, body |-> body] >>
Icmp(f, kind, n, body) == << [to |-> f.src, toport |-> 0, kind |-> kind, from |-> 0,
                              len |-> 54 + n, body |-> body] >>
OwedBy(who, f) ==
  CASE ForUs(f) /\ f.next = "icmp" /\ f.icmp = "echo" ->
         Icmp(f, "echo_reply", f.len - 54, <<0, "none", f.body>>)
    [] ForUs(f) /\ f.next = "icmp" /\ f.icmp = "solicit" /\ f.len >= 78 /\ f.code = 0
         /\ f.target = "ifc" -> Icmp(f, "advertise", 32, <<0, "none", "ifc">>)
    [] Datagram(f) /\ who = "ex05" -> Udp(f, f.dport, 10, <<0, "none", "multipass">>)
    [] who = "netboot" /\ (Named(f) \/ (Message(f) /\ f.dport = CTRL /\ f.cmd = "QUERY")) ->
         Udp(f, CTRL, 28, <<f.seq, "OK", "name=device">>)
    [] who = "netboot" /\ Message(f) /\ f.dport = CTRL /\ f.cmd # "QUERY" ->
         Udp(f, CTRL, NB_MSG_MIN,
             <<f.seq, IF f.cmd \in {"WRITE", "EXEC"} THEN "OK" ELSE "BADCMD", "none">>)
    [] OTHER -> <<>>

Owed(f) == OwedBy(app, f)

\* The packets s answer the first n frames: in order, each frame that is owed a
\* packet by exactly that packet.
Answered(s, n) ==
  \E at \in [1..Len(s) -> 1..n] :
    /\ \A j, k \in 1..Len(s) : j < k => at[j] < at[k]
    /\ \A k \in 1..Len(s) : Owed(arrived[at[k]]) = <<s[k]>>
    /\ \A i \in 1..n : Owed(arrived[i]) # <<>> => \E k \in 1..Len(s) : at[k] = i

\* The packets sent, and those in the transmit slots that are about to be.
Sent == wire \o [i \in 1..Len(tx) |-> slots[tx[i]]]

(* What has been sent or waits in a slot, in order, is what the frames     *)
(* handled so far are owed: each is answered once, to its sender, under    *)
(* its own sequence number, with no reply overwritten in a transmit slot   *)
(* before it has left; and a WRITE has stored exactly its own bytes.       *)
RepliesExact ==
  /\ Answered(Sent, IF pc \in {"poll", "ack", "run"} THEN handled ELSE handled - 1)
  /\ pc = "ack" /\ app = "netboot" =>
       LET f == arrived[handled]
       IN  Message(f) /\ f.dport = CTRL /\ f.cmd = "WRITE" => mem = <<f.addr, f.ulen - 24, f.body>>

(* Every frame that got a slot is handled and every reply leaves, unless   *)
(* an EXEC has started an image.                                           *)
AllAnswered ==
  <>[](tx = <<>> /\ Answered(wire, IF pc = "run" THEN handled ELSE Len(arrived)))
=============================================================================
