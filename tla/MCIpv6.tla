-------------------------------- MODULE MCIpv6 --------------------------------
(* Frames for Ipv6: from one good frame of each kind, the fields and the   *)
(* lengths at which the stack decides differently are varied.              *)
EXTENDS Ipv6

Base == [len |-> 78, dst |-> "ifc", type |-> "ip6", src |-> "h1", ipdst |-> "ifc",
         next |-> "udp", sport |-> 7, dport |-> CTRL, ulen |-> 24, magic |-> NB_MAGIC,
         cmd |-> "WRITE", seq |-> 1, addr |-> 64, body |-> "data",
         icmp |-> "none", code |-> 0, target |-> "ifc"]
Icmp6 == [Base EXCEPT !.next = "icmp", !.icmp = "echo"]

Addressed == {[Base EXCEPT !.dst = d, !.ipdst = i, !.len = 90] :
                d, i \in {"ifc", "ns", "ll", "other"}}
             \cup {[Base EXCEPT !.type = "ip4"], [Base EXCEPT !.next = "tcp"]}
Lengths == {[Base EXCEPT !.len = l, !.ulen = u] :
              l \in {57, 58, 61, 62, 78, 84, 1102, 1103, 1534, 1535},
              u \in {7, 8, 23, 24, 30, 1048, 1049}}
Messages == {[Base EXCEPT !.len = 84, !.cmd = c, !.ulen = u, !.body = b, !.dport = p] :
               c \in {"QUERY", "WRITE", "EXEC", "OTHER"}, u \in {29, 30},
               b \in {"device", "data"}, p \in {CTRL, QUERY_PORT, 1}}
            \cup {[Base EXCEPT !.magic = "other"]}
Pings == {[Icmp6 EXCEPT !.len = l, !.icmp = i, !.code = c, !.target = t] :
            l \in {58, 77, 78, 1534, 1535}, i \in {"echo", "solicit", "other"}, c \in {0, 1},
            t \in {"ifc", "other"}}

MCShapes == Addressed \cup Lengths \cup Messages \cup Pings
MCFrames == {[Base EXCEPT !.seq = 2, !.src = "h2"], [Icmp6 EXCEPT !.len = 90, !.src = "h3"]}
=============================================================================
