------------------------------- MODULE Netboot --------------------------------
(***************************************************************************)
(* Network boot: the host program tools/netboot.c, the target's boot       *)
(* loader boot/netboot.c and the link between them.                        *)
(*                                                                         *)
(* The host looks a target up by multicast QUERY, sends the images block   *)
(* by block with WRITE, each acknowledged by STATUS, and ends with EXEC.   *)
(* A request is sent up to five times, each time under a new sequence      *)
(* number; a reply counts only if it carries the latest one.  The target   *)
(* answers whatever arrives, without looking at the sequence number.       *)
(*                                                                         *)
(* The link is one Ethernet segment: it may lose packets and delay them    *)
(* past any timeout, but keeps their order.  Lost packets, timeouts that   *)
(* fire although an answer is on its way, local errors and resets of the   *)
(* target are faults, of which a behaviour has at most MaxFaults.          *)
(***************************************************************************)
EXTENDS Integers, Sequences, SequencesExt

CONSTANTS
  Blocks,       \* the blocks of all images in the order they are sent:
                \*   records with fields addr and data
  Retries,      \* attempts of send_msg (5 in the code)
  TargetName,   \* nodename of the target's boot loader
  MaxFaults,    \* bound on faults
  SeqWrap       \* sequence numbers wrap at this value (2^32 in the code)

(* There are fewer faults than sequence numbers: a packet is not delayed   *)
(* until its number comes round again.                                     *)
ASSUME NetbootAssumption ==
  /\ Retries \in Nat \ {0} /\ MaxFaults \in Nat
  /\ SeqWrap \in Nat \ {0, 1} /\ MaxFaults < SeqWrap
  /\ Len(Blocks) \in Nat \ {0} /\ DOMAIN Blocks = 1..Len(Blocks)

VARIABLES
  doexit,   \* option -x, read once by main
  hpc,      \* where the host is
  seq,      \* the static seq of the host
  retry,    \* retry of send_msg
  blk,      \* block being sent; Len(Blocks)+1 is the EXEC message
  sock,     \* generation of the host's socket: each one has a port of its own
  inbox,    \* replies in the receive queue of that socket
  toTarget, \* requests on the link and in the target's receive slots
  toHost,   \* replies on the link
  mode,     \* "boot": the boot loader listens; "run": an image is executing
  mem,      \* memory of the target, by block address
  faults,   \* faults so far
  clean     \* history: no reset of the target since the host located it

host   == <<hpc, seq, retry, blk, sock, inbox>>
target == <<mode, mem>>
vars   == <<doexit, host, toTarget, toHost, target, faults, clean>>

Addrs == {Blocks[i].addr : i \in DOMAIN Blocks}
Datas == {Blocks[i].data : i \in DOMAIN Blocks}
Empty == "empty"

\* Mutant of ExecBlk: the loop over the images stops one block early.
ExecBlkEarly == Len(Blocks)

ExecBlk == Len(Blocks) + 1

Init ==
  /\ doexit \in BOOLEAN
  /\ hpc = "open" /\ seq = 1 /\ retry = 0 /\ blk = 1 /\ sock = 0
  /\ inbox = <<>> /\ toTarget = <<>> /\ toHost = <<>>
  /\ mode = "boot" /\ mem = [a \in Addrs |-> Empty]
  /\ faults = 0 /\ clean = FALSE

-----------------------------------------------------------------------------
(* The host.                                                               *)

Inc(n) == (n + 1) % SeqWrap     \* ++ on a uint32_t

\* A timeout is a fault when an answer may still be on its way.
Late == toTarget # <<>> \/ toHost # <<>> \/ inbox # <<>>
Fault == faults < MaxFaults /\ faults' = faults + 1
TimerFires == IF Late THEN Fault ELSE UNCHANGED faults

\* open_node asks for this name, whatever -n said.
QueryName == "device"

\* Every 500 ms: msg.seq = ++seq, multicast the query.
Query ==
  /\ hpc = "open" /\ TimerFires
  /\ seq' = Inc(seq)
  /\ toTarget' = Append(toTarget, [cmd |-> "QUERY", seq |-> Inc(seq),
                                   blk |-> 0, name |-> QueryName,
                                   sock |-> sock])
  /\ UNCHANGED <<hpc, retry, blk, sock, inbox, toHost, target, clean>>

\* There is no socket, or sendto() fails after ++seq: main returns -1.
QueryError ==
  /\ hpc = "open" /\ Fault
  /\ hpc' = "failed" /\ seq' \in {seq, Inc(seq)}
  /\ UNCHANGED <<retry, blk, sock, inbox, toTarget, toHost, target, clean>>

\* Mutant of Located: the sequence number of the reply is not compared.
LocatedAny ==
  /\ hpc = "open" /\ inbox # <<>>
  /\ hpc' = "send" /\ sock' = sock + 1 /\ inbox' = <<>>
  /\ blk' = 1 /\ retry' = 0 /\ clean' = TRUE
  /\ UNCHANGED <<seq, toTarget, toHost, target, faults>>

\* A reply to the latest query: connect a new socket to its sender.
Located ==
  /\ hpc = "open" /\ inbox # <<>> /\ Head(inbox).seq = seq
  /\ hpc' = "send" /\ sock' = sock + 1 /\ inbox' = <<>>
  /\ blk' = 1 /\ retry' = 0 /\ clean' = TRUE
  /\ UNCHANGED <<seq, toTarget, toHost, target, faults>>

\* The new socket cannot be opened: the reply is gone, the loop goes on.
LocateError ==
  /\ hpc = "open" /\ inbox # <<>> /\ Head(inbox).seq = seq /\ Fault
  /\ inbox' = Tail(inbox)
  /\ UNCHANGED <<hpc, seq, retry, blk, sock, toTarget, toHost, target, clean>>

\* Any other reply is skipped.
SkipReply ==
  /\ hpc = "open" /\ inbox # <<>> /\ Head(inbox).seq # seq
  /\ inbox' = Tail(inbox)
  /\ UNCHANGED <<hpc, seq, retry, blk, sock, toTarget, toHost, target, faults,
                 clean>>

\* send_msg: msg->seq = ++seq, write to the connected socket.
SendMsg ==
  /\ hpc = "send"
  /\ seq' = Inc(seq)
  /\ toTarget' = Append(toTarget,
                   [cmd |-> IF blk = ExecBlk THEN "EXEC" ELSE "WRITE",
                    seq |-> Inc(seq), blk |-> blk, name |-> "none", sock |-> sock])
  /\ hpc' = "wait"
  /\ UNCHANGED <<retry, blk, sock, inbox, toHost, target, faults, clean>>

(* send_msg returns -1.  main closes the socket and starts again; after    *)
(* EXEC it does not look at the result and goes on as after a success.     *)
CloseSocket == sock' = sock + 1 /\ inbox' = <<>>

SendFails ==
  /\ CloseSocket
  /\ hpc' = IF blk = ExecBlk /\ doexit THEN "exited" ELSE "open"
  /\ UNCHANGED <<retry, blk>>

\* write() comes up short: the number is used up, nothing is sent.
WriteError ==
  /\ hpc = "send" /\ Fault
  /\ seq' = Inc(seq)
  /\ SendFails
  /\ UNCHANGED <<toTarget, toHost, target, clean>>

(* An image cannot be opened, or read() fails: before a block, or where    *)
(* the last block was acknowledged and the end of the file was due.        *)
ReadError ==
  /\ \/ hpc = "send" /\ retry = 0 /\ blk < ExecBlk
     \/ /\ hpc = "wait" /\ inbox # <<>> /\ Head(inbox).seq = seq
        /\ blk = Len(Blocks)
  /\ Fault
  /\ CloseSocket /\ hpc' = "open"
  /\ UNCHANGED <<seq, retry, blk, toTarget, toHost, target, clean>>

\* Mutant of TryAgain: retry is never incremented.
TryAgainForever(rest) ==
  /\ hpc' = "send" /\ inbox' = rest
  /\ UNCHANGED <<seq, retry, blk, sock>>

\* The next pass of the retry loop.
TryAgain(rest) ==
  IF retry + 1 < Retries
  THEN /\ retry' = retry + 1 /\ hpc' = "send" /\ inbox' = rest
       /\ UNCHANGED <<seq, blk, sock>>
  ELSE SendFails /\ UNCHANGED seq

\* poll() times out ("T").
WaitTimeout ==
  /\ hpc = "wait" /\ inbox = <<>> /\ TimerFires
  /\ TryAgain(inbox)
  /\ UNCHANGED <<toTarget, toHost, target, clean>>

\* A reply to an earlier attempt ("S"): it is consumed and the loop goes on.
StaleReply ==
  /\ hpc = "wait" /\ inbox # <<>> /\ Head(inbox).seq # seq
  /\ TryAgain(Tail(inbox))
  /\ UNCHANGED <<toTarget, toHost, target, faults, clean>>

\* Mutant of WriteAcked: the sequence number of the reply is not compared.
WriteAckedAny ==
  /\ hpc = "wait" /\ inbox # <<>>
  /\ blk < ExecBlk
  /\ blk' = blk + 1 /\ retry' = 0 /\ hpc' = "send" /\ inbox' = Tail(inbox)
  /\ seq' = IF blk + 1 = ExecBlk THEN Inc(seq) ELSE seq
  /\ UNCHANGED <<sock, toTarget, toHost, target, faults, clean>>

\* The reply to this attempt; the target's status is always NB_OK.
WriteAcked ==
  /\ hpc = "wait" /\ inbox # <<>> /\ Head(inbox).seq = seq
  /\ blk < ExecBlk
  /\ blk' = blk + 1 /\ retry' = 0 /\ hpc' = "send" /\ inbox' = Tail(inbox)
  /\ seq' = IF blk + 1 = ExecBlk THEN Inc(seq) ELSE seq   \* msg.seq = ++seq
  /\ UNCHANGED <<sock, toTarget, toHost, target, faults, clean>>

\* Mutant of ExecAcked: the program ends whether or not -x was given.
ExecAckedExit ==
  /\ hpc = "wait" /\ inbox # <<>> /\ Head(inbox).seq = seq
  /\ blk = ExecBlk
  /\ CloseSocket
  /\ hpc' = "exited"
  /\ UNCHANGED <<seq, retry, blk, toTarget, toHost, target, faults, clean>>

ExecAcked ==
  /\ hpc = "wait" /\ inbox # <<>> /\ Head(inbox).seq = seq
  /\ blk = ExecBlk
  /\ CloseSocket
  /\ hpc' = IF doexit THEN "exited" ELSE "open"
  /\ UNCHANGED <<seq, retry, blk, toTarget, toHost, target, faults, clean>>

HostStopped == hpc \in {"exited", "failed"} /\ UNCHANGED vars

-----------------------------------------------------------------------------
(* The target: eth_handle_rx takes a packet, pkt_rx_udp acts on it.        *)

Take(cmd) == /\ mode = "boot" /\ toTarget # <<>> /\ Head(toTarget).cmd = cmd
             /\ toTarget' = Tail(toTarget)

Reply(m) == toHost' = Append(toHost, [seq |-> m.seq, sock |-> m.sock])

\* The query port answers to the target's own name only.
RxQuery ==
  /\ Take("QUERY")
  /\ IF Head(toTarget).name = TargetName
     THEN Reply(Head(toTarget)) ELSE UNCHANGED toHost
  /\ UNCHANGED <<host, target, faults, clean>>

\* memcpy to the address of the block, then the reply.
RxWrite ==
  /\ Take("WRITE")
  /\ LET b == Blocks[Head(toTarget).blk]
     IN mem' = [mem EXCEPT ![b.addr] = b.data]
  /\ Reply(Head(toTarget))
  /\ UNCHANGED <<host, mode, faults, clean>>

\* The reply goes out first, then exit_mode_m enters the image.
RxExec ==
  /\ Take("EXEC")
  /\ Reply(Head(toTarget))
  /\ mode' = "run"
  /\ UNCHANGED <<host, mem, faults, clean>>

\* The running image does not speak the protocol.
Ignore ==
  /\ mode = "run" /\ toTarget # <<>>
  /\ toTarget' = Tail(toTarget)
  /\ UNCHANGED <<host, toHost, target, faults, clean>>

\* The board is reset: memory is lost, the boot loader starts anew.
Reset ==
  /\ Fault
  /\ mode' = "boot" /\ mem' = [a \in Addrs |-> Empty] /\ clean' = FALSE
  /\ UNCHANGED <<host, toTarget, toHost>>

-----------------------------------------------------------------------------
(* The link.                                                               *)

\* A reply reaches the port it was sent to, if that is still open.
Deliver ==
  /\ toHost # <<>>
  /\ toHost' = Tail(toHost)
  /\ inbox' = IF Head(toHost).sock = sock /\ hpc \notin {"exited", "failed"}
              THEN Append(inbox, Head(toHost)) ELSE inbox
  /\ UNCHANGED <<doexit, hpc, seq, retry, blk, sock, toTarget, target, faults, clean>>

LoseRequest ==
  /\ Fault
  /\ \E i \in DOMAIN toTarget : toTarget' = RemoveAt(toTarget, i)
  /\ UNCHANGED <<host, toHost, target, clean>>

LoseReply ==
  /\ Fault
  /\ \E i \in DOMAIN toHost : toHost' = RemoveAt(toHost, i)
  /\ UNCHANGED <<host, toTarget, target, clean>>

-----------------------------------------------------------------------------
HostStep   == /\ UNCHANGED doexit
              /\ \/ Query \/ Located \/ SkipReply \/ SendMsg \/ WaitTimeout
                 \/ StaleReply \/ WriteAcked \/ ExecAcked
TargetStep == UNCHANGED doexit /\ (RxQuery \/ RxWrite \/ RxExec \/ Ignore)
Faults     == /\ UNCHANGED doexit
              /\ \/ QueryError \/ LocateError \/ WriteError \/ ReadError
                 \/ Reset \/ LoseRequest \/ LoseReply

Next == HostStep \/ TargetStep \/ Deliver \/ Faults \/ HostStopped

Spec == Init /\ [][Next]_vars

(* Host and target keep running and a packet that is not lost arrives.     *)
FairSpec ==
  Spec /\ WF_vars(HostStep) /\ WF_vars(TargetStep) /\ WF_vars(Deliver)

-----------------------------------------------------------------------------
(* Properties.                                                             *)

Request == [cmd : {"QUERY", "WRITE", "EXEC"}, seq : 0..SeqWrap-1,
            blk : 0..ExecBlk, name : {"none", QueryName}, sock : Nat]
Status  == [seq : 0..SeqWrap-1, sock : Nat]

TypeOK ==
  /\ hpc \in {"open", "send", "wait", "exited", "failed"}
  /\ seq \in 0..SeqWrap-1 /\ retry \in 0..Retries-1 /\ blk \in 1..ExecBlk
  /\ sock \in Nat
  /\ inbox \in Seq(Status) /\ toHost \in Seq(Status)
  /\ toTarget \in Seq(Request)
  /\ mode \in {"boot", "run"} /\ mem \in [Addrs -> Datas \cup {Empty}]
  /\ faults \in 0..MaxFaults /\ clean \in BOOLEAN

\* Block i is the last of the first n blocks at its address.
Final(i, n) == \A j \in i+1..n : Blocks[j].addr # Blocks[i].addr

(* While the images are sent, memory holds what the acknowledged blocks    *)
(* put there, or already the block being sent: no late duplicate of an     *)
(* earlier block overwrites a later one, and no stale reply is taken for   *)
(* the acknowledgement of a block the target never saw.                    *)
AckedIsWritten ==
  hpc \in {"send", "wait"} /\ clean =>
    \A i \in 1..blk-1 : Final(i, blk - 1) =>
      \/ mem[Blocks[i].addr] = Blocks[i].data
      \/ /\ blk < ExecBlk /\ Blocks[i].addr = Blocks[blk].addr
         /\ mem[Blocks[i].addr] = Blocks[blk].data

(* An image is only ever entered when all images are in memory, unless the *)
(* target was reset after the host had located it.                         *)
Complete ==
  \A i \in 1..Len(Blocks) : Final(i, Len(Blocks)) => mem[Blocks[i].addr] = Blocks[i].data

ExecIsComplete == mode = "run" /\ clean => Complete

(* EXEC is never pending for a target that could be in a later session: a  *)
(* request of an earlier socket has left the link before the host talks to *)
(* the target on a new one.                                                *)
NoOldRequests ==
  hpc \in {"send", "wait"} =>
    \A i \in DOMAIN toTarget : toTarget[i].sock = sock

(* Without -x the host serves every boot of the target: once faults cease  *)
(* a target that sits in the boot loader gets its images and starts them,  *)
(* unless the host could not even send a query.  Late replies, which put   *)
(* the replies one behind the requests, only cost the session.             *)
BootsEventually == ~doexit /\ mode = "boot" ~> mode = "run" \/ hpc = "failed"

(* With -x the host comes to an end once faults cease.                     *)
HostEnds == doexit ~> (hpc \in {"exited", "failed"})

(* usage(): "Start execution at the address of the first image."           *)
ExitMeansStarted == hpc = "exited" => mode = "run" \/ ~clean
===============================================================================
