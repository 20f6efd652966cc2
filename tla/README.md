# TLA+ models of os-workshop

os-workshop is a set of bare-metal programs for a 32-bit RISC-V machine (VexRiscv
with LiteX peripherals, or QEMU): a boot loader with a serial monitor, a network
boot loader with its IPv6 stack, examples that build up threads, traps and
virtual memory, a small kernel, X/OS, and the libraries they share.  There is one
hart.  What is hard about the code is not its size but the order of things: a
timer interrupt between two stores, a register saved by one routine and needed
by another, a page table replaced while in use, a packet that arrives after its
timeout, a character that arrives while its predecessor is being handled.  This
directory models those parts, checks them with TLC on small instances and proves
with TLAPS, for all values of the constants, the safety properties of eight of
the models: both trap paths, the two thread libraries, the boot monitor, the
network boot protocol, the IPv6 stack and the memory management of X/OS.

## Inventory

| Component | State | Operations | What is hard | What makes it correct |
|---|---|---|---|---|
| Preemptive threads (`example/ex11`) | ring of `thread_t`, contexts, trap frames, `sstatus`, timer | `thread_create`, `thread_exit`, `interrupt_handler`, workers | a tick between any two statements; `sret` without a trap | ring consistent whenever it can be observed, no dead thread resumed, own stack, no register lost, everyone makes progress |
| Cooperative threads (`example/ex10`) | ring, contexts | `thread_create`, `thread_exit`, `yield`, workers | values across `yield`, exits in any order | FIFO turns, every row drawn |
| Context switch, single-stack trap entry (`hw/src`) | `cframe_t`, `tframe_t`, `eframe_t` | `context_switch`, `trap_entry`, `trap_exit`, `exception_entry` | the save areas together must cover all registers | modelled inside the threads and `ExampleTraps` |
| Network boot (`tools/netboot.c`, `boot/netboot.c`) | sequence number, retry counter, sockets; target memory | query, write, exec; replies | loss, delay past the timeout, retries of executed writes, resets | an acknowledged block is in memory, only complete images start, boots are served |
| X/OS memory (`xos/src/start.S`, `vmm.c`, `kernel.c`) | page pool, page tables, `satp` | `ppage_alloc_z`, `vm_map_4k`, `vm_map_4m`, boot | switching tables under the running kernel, exhaustion, boundaries | kernel stays mapped, user isolated, panic only when short of memory |
| X/OS traps (`xos/src/entry.S`, `kernel.c`) | registers, `sscratch`, `eframe_t` | `trap_entry`, system calls, `trap_exit` | order of saves and restores, swap of stacks | registers preserved, kernel on its own stack, calls return |
| Boot monitor (`boot/boot.c`, `console.c`, `entry.S`, `helpers.S`) | `cmdbuf`, `STOP`, `EF`, `MTVEC`, `MSTATUS` | line editing, commands, trap-safe reads | runs inside a machine interrupt and borrows the trap vector; characters arrive at any time | the interrupted program is undisturbed, screen and buffer agree, every character is taken (one exception, see below) |
| IPv6 stack (`net/ipv6.c`, slots of `boot/netboot.c` and `ex05`) | interface addresses, `rxbuf`, transmit slots | rx by layer, UDP / ICMP replies | one buffer for all frames, lengths claimed by the sender, slots reused | only the frame's own bytes read, each frame answered once and correctly, checksum right |
| Timer, MMU and kernel examples (`ex01`, `ex20`, `ex25`, `trap-entry-dual-stack.S`) | `ticks`, `expect_*`, frames, `sscratch` | interrupt and exception handlers, system calls | a tick between read and compare; any value in the user's `sp` | programs come back undisturbed, halt where they should, ticks are shown |
| libc, libgfx | `strtok`'s place, text cursor | strings, `printf`, drawing | overlap, alignment, limits, clipping, wrap | agree with a reference definition |

Interactions: the workers call the thread library, which calls
`context_switch`; interrupts call `interrupt_handler` through `trap_entry`, on
the stack of whoever was running.  The boot monitor shares the hart with the
supervisor program it interrupts.  The network boot target is a callback of the
IPv6 stack, which calls back into its Ethernet driver; host and target share
only messages.  X/OS user code reaches the kernel only through `ecall` and
faults; the kernel shares its page directory with it.

## Modules

- `RoundRobin` is the abstract specification of both thread libraries: a FIFO
  whose head runs.  `ThreadRing` holds the operators on `next` / `prev` that
  both libraries' modules share, and the vocabulary of their refinement proofs.
- `PreemptiveThreads` models `ex11`.  One action is one C statement or one
  run of instructions that touches shared state; while `sstatus.SIE` is set
  `Interrupt` may come between any two of them.  Registers are grouped by the
  area that saves them: `tmp` and `ra` by `trap_entry`, `sav`, `sp` and `tp`
  by `context_switch` (`gp` is the same in all threads and left out).  A data
  register holds which worker and which row it belongs to, and the framebuffer
  what was plotted, so that any leak between threads becomes a wrong pixel.
  A row stands for the pixels of a row; the fill and the caption each worker
  draws first (`t1` to `t4`) are left out, as they use the shared surface no
  differently, and so is the arithmetic of `alloc_stack`: a stack is its thread.
  The constant `Endless` names workers that never return, which
  `thread_create` allows.
- `CooperativeThreads` models `ex10`, where interrupts are off and each call is
  one action.
- `Netboot` composes the host, the target and the link; `MCNetboot` gives it
  three blocks, the third of which overwrites the first.  Each way a call of the
  host can fail is an action: `QueryError` (no socket, or `sendto` after `++seq`),
  `LocateError` (the second socket of `open_node`), `WriteError` (`write` in
  `send_msg`, after `++seq`) and `ReadError` (an image that cannot be opened or
  read).
- `XosVmm` models the boot of X/OS up to user mode: `start.S`, the allocator,
  the mapping functions and their callers.  Addresses are page numbers.
  The functions of `vmm.c` are operators from allocator state to allocator
  state; their alignment checks hold by the use of page numbers for 4 KB pages
  and are kept for megapages.  `MCXosVmm` enumerates the layouts.
- `XosTraps` models a user program and the trap path of X/OS, in blocks of
  instructions with a common purpose.
- `BootMonitor` composes the monitor, the UART and a supervisor program that
  computes.  The variables `shadow` and `shown` record what the program's state
  should be and what a command printed.  A typed word is one character of the
  model, so `cmdbuf` counts words; how characters make words is `ConsoleLine`'s
  subject.  The return paths of `console_char` are one action each, a dump is
  one read per iteration with the fault as an alternative of the load.
- `ExampleTraps` models both trap entries of `hw/src` under the programs that
  use them, chosen by `prog`: `ex01` (interrupts, single stack), `ex20`
  (exceptions, single stack) and `ex25` (system calls, dual stack).  `call`
  records the registers at the last trap.
- `Ipv6` models one frame's way through `eth_handle_rx`, `net_rx_eth`,
  `net_rx_ip6`, `net_rx_udp6` or `net_rx_icmp6`, `pkt_rx_udp` (of `netboot.c` or
  of `ex05`) and a reply function to `eth_tx`, one action per function, with
  frames arriving and replies leaving meanwhile.  A frame is a record of the
  fields the code looks at; lengths and offsets are the code's own numbers, and
  `seen` records how far into `rxbuf` the code has looked.  `MCIpv6` varies each
  field and length around every value at which the code decides.
- `CString`, `ConsoleLine`, `Printf`, `Gfx` and `Checksum` define the library
  functions as operators that keep the order of their loops, next to reference
  definitions written without them.  `Library` calls them, one action for each
  family, and states that the two agree; `MCLibrary` holds the arguments.

- A module `XProofs` holds the theorems about module `X` (see Proofs).

Definitions marked "Mutant of" change one definition the way a plausible bug
would; they are used only to check that each property can fail.

## Runs

| Run | Bounds | Result |
|---|---|---|
| `preemptive_safety` | 3 workers, 2 rows | type, ring, zombie, stack and picture invariants, `SuspendedUntouched`, and refinement of `RoundRobin`; 1.2 million states |
| `preemptive_liveness` | 2 workers, one endless | `WorkersFinish`, `NoStarvation` |
| `cooperative` | 4 workers, 1 to 3 rows each | `AllFinish`, refinement of `RoundRobin` |
| `netboot` | 3 blocks, 5 attempts, 4 faults, with and without `-x` | what is acknowledged is written, what starts is complete, no old request is obeyed, the host ends or every boot is served; 227,000 states |
| `netboot_exit` | same, with `-x` | **violated**: the `write()` of EXEC fails and `-x` reports success without a start |
| `xos_vmm` | 8 entries per table, 1335 layouts | mapping, isolation, exhaustion |
| `xos_traps` | 3 calls, 4 call numbers | registers, stacks, output, return |
| `xos_illegal_call` | same | **violated**: an unknown call never returns |
| `boot_monitor` | lines of 3 words out of 7 keys, 2 waiting characters, addresses and counts modulo 8 | program undisturbed, screen and dumps true, characters handled, program resumes |
| `example_traps` | 3 calls, 3 ticks | registers and stacks, halts, ticks; 14,000 states |
| `ipv6` | 4 frames, the first of some 230 shapes | own bytes only, exact replies, all answered; 181,000 states |
| `library` | see `MCLibrary` | five families of functions against their references; 68,000 states |

Why the bounds are enough.  Three workers and thread 0 give a ring in which
the exiting thread, its successor, its predecessor and a bystander are
distinct; two rows are the first number at which a lost row counter differs
from a lost start value.  The proofs remove both bounds.  In the network boot
the code's five attempts are kept; four faults allow a lost request, a lost
reply, a late reply and a reset in one session.  A late reply, which costs one
fault, already makes all five attempts at a block fail; five losses in a row,
which it takes to lose EXEC on the link, are out of reach, and `netboot_exit` is
about a failing `write()`.  Sequence numbers wrap at 12 instead of
2^32, so they do wrap in these runs; 12 is more than the packets that can be
under way at once.  For X/OS memory the layouts include images that end
before, on and after a megapage boundary and memories that are one page short,
exact and ample.  The user program of `xos_traps` may put the address of the
kernel stack in any register, and so may that of `example_traps`.
In `boot_monitor` a line of three words is the longest command; a command's name
read as a hexadecimal number also serves as an argument, which gives aligned,
misaligned, readable, unreadable and wrapping addresses and zero, clamped and
negative counts.  Two waiting characters make one that comes without an event of
its own, before `start()` as well as later; the second is always a line end, the
key that does most.
Four frames in `ipv6` fill both receive slots while one is handled and ask for a
third reply while two transmit slots are busy; the first takes every shape and
the others are a WRITE and an echo request.  In `library` the widths are scaled down (8-bit longs, 2x2
characters, 4-valued octets) so that every carry, wrap and boundary is in
reach; alignment keeps its four-byte words.

Fairness.  The hart keeps executing (weak fairness of its next step).  For the
preemptive threads a pending enabled interrupt is taken and the timer keeps
ticking; strong fairness of each thread's own steps says that a thread which is
given the processor again and again executes an instruction before the next
tick, which the code's period of 500000 cycles against a trap path of about a
hundred instructions guarantees.  In `Netboot` host, target and link are weakly
fair; faults are never forced, and their number is bounded, so liveness there
means "once faults cease".  In `BootMonitor` and `ExampleTraps` a pending
enabled interrupt is taken; nobody has to type and the timer need not wrap.  In
`Ipv6` the Ethernet controller transmits what it is given; frames need not
arrive.  `XosVmm` and `Library` state safety only.

Assumptions about the environment of `Netboot`: one Ethernet segment, which
loses and delays packets but does not reorder or duplicate them.  After a reset
in mid-session the protocol cannot tell that memory was lost; the properties
about memory exclude such sessions (`clean`).  The UART sets its event when a
character finds its FIFO empty, and the acknowledgement removes the character.
The Ethernet controller accepts commands (`RD_READY`) while it has a slot free and
sends them in order; a frame that finds no receive slot is lost.  Memory is
below 2^31, as `memmove` compares addresses as signed numbers.

`TypeOK` of `CooperativeThreads`, `Netboot`, `XosVmm` and `XosTraps` documents
the types; it holds on the same instances and is in no run's list (for all but
`XosVmm` it is proved).

## What the runs found

1. `tools/netboot.c:300`: the result of sending EXEC is ignored; in the trace of
   `netboot_exit` its `write()` fails (line 144) and with `-x` the host returns 0
   although nothing was started.  Five attempts without an answer lead to the same
   line; the run does not reach them.
2. `xos/src/entry.S:156`: `illegal_syscall` sets the error code but does not
   advance the saved pc, so the program repeats the `ecall` for ever
   (`xos_illegal_call`).

Everything else that is stated here holds.  Some of it is stated the way the
code behaves where one would expect otherwise; where a property makes an
exception for it, its comment says so and the formula admits that case only:

- `boot/boot.c:115`: `start()` enables the UART event and acknowledges it once.
  Two characters typed before that leave the second in the FIFO without an event,
  no later one sets it, and the console is deaf for ever.  `EveryCharacterHandled`
  says both halves: if `start()` leaves no such character (`Heard`), every
  character that waits is taken; if it does, none is ever again.
- `xos/src/kernel.c:35` ("TODO: remove the pa from the freelist"): the pages of the
  framebuffer are mapped for the user while they are in the free pool.
  `UserIsolated` keeps the program from every other free page, and says that no
  page of the framebuffer has been handed out; that it never is in this boot
  follows from where the framebuffer lies (`VmmAssumption`).
- `tools/netboot.c:282`: the argument of `-n` is parsed and printed, but
  `open_node` is called with the constant `"device"`, although `usage()` (line
  224) speaks of `<node-name>`.
- `tools/netboot.h:18` lists `NB_CMD_READ`; the target answers it with BADCMD.
- `net/ipv6.c:203`: an echo reply repeats everything behind the IPv6 header up to
  the end of the frame, Ethernet padding included.
- `libc/src/string/strncpy.c`: the padding loop starts at the terminator already
  copied, so a source shorter than `count` gets one byte beyond `count` written.
  Nothing in the repository calls it.
- `strrchr(s, 0)` returns `s`, not the terminator; `strcmp` and `memcmp` keep the
  difference in a signed char, so bytes that differ by more than 127 compare the
  wrong way round.
- `boot/console.c:181`: the word that fills the token table is not terminated and
  runs to the end of the line (`TokensAreWords`; no command is called with it,
  since none takes so many arguments).  Missing arguments are zero, not refused.
- `libc/src/printf.c:583`: a left-justified number loses its sign; the digits
  after a `.` are appended to the width (line 445 says they are eaten); and
  `vsnprintf` with `len` 0 writes the byte before its buffer (line 85).  All three
  are exceptions of `FormatExact`.
- `libgfx/src/txt.c:27`: `txt_goto` with a row beyond the screen changes the
  column instead of the row.
- `hw/src/trap-entry-single-stack.S:20`: the comment says that the exception
  handler may modify the saved registers; `sp` is not reloaded from the frame.

## Proofs

Each proof module defines one inductive invariant, `IInv`, the conjunction of
named parts; TLC has confirmed `IInv` on the instance of the component's run.
A lemma per part shows that a step keeps it, with one case per action
(`NextInv` puts them together), and every theorem follows from `Spec => []IInv`.
The assumptions are the `ASSUME`s of the component's modules
and nothing else.

Induction over data.  The prover cannot instantiate an induction rule that takes
a predicate, but it can use one that takes a set: `SetInduction` (a set of
natural numbers that contains 0 and the successor of each of its members is
`Nat`) follows from the library's `WFMin` and `NatLessThanWellFounded`, and needs
no operator parameter.  With it a recursive function is shown to exist on every
domain `0..n` (`WalkExists`, `FoldExists`, `TotalExists`, `SumExists`), its
`CHOOSE` is identified with it, and what it computes is proved by a second
induction.

| Module | Theorem | States | For every |
|---|---|---|---|
| `PreemptiveThreadsProofs` | `TypeCorrect` | `TypeOK` | number of workers and rows, set of endless workers |
| | `RingSafety` | `RingConsistent` | |
| | `NoZombieRuns` | `NoZombie` | |
| | `ThreadEnvironment` | `OwnStack`, `ThreadsPreemptible` | |
| | `PictureSafety` | `PictureCorrect` | |
| | `SavedStateSafety` | `SuspendedUntouched` | |
| | `RoundRobinRefinement` | `ImplementsRoundRobin` | |
| `CooperativeThreadsProofs` | `TypeCorrect` | `TypeOK` | number of workers, rows of each |
| | `RoundRobinRefinement` | `ImplementsRoundRobin` | |
| | `PictureAtRest` | `RestIsComplete`, the safety half of `AllFinish` | |
| `XosTrapsProofs` | `TypeCorrect` | `TypeOK` | stack, word, number of calls |
| | `StackSafety` | `KernelStackOwned` | |
| | `RegisterSafety` | `RegistersPreserved` | |
| | `OutputSafety` | `OutputExact` | |
| `ExampleTrapsProofs` | `ProgramSafety` | `ProgramUndisturbed` | stack, word, number of calls and ticks |
| | `StopSafety` | `StopsWhereItShould` | |
| `BootMonitorProofs` | `SupervisorSafety` | `SupervisorUndisturbed` | buffer size, keys, memory, address width |
| | `LineSafety` | `ScreenShowsLine` | |
| | `DumpSafety` | `ShownIsTrue` | |
| `Ipv6Proofs` | `BufferSafety` | `OwnBytesOnly` | set of frames, number of frames |
| | `ReplySafety` | `RepliesExact` | |
| | `ChecksumAccepted` | what `ChecksumVerifies` says of a call | addresses, length, next header, payload, byte width |
| `NetbootProofs` | `TypeCorrect` | `TypeOK` | images, number of attempts, number of faults below `SeqWrap` |
| | `WriteSafety` | `AckedIsWritten` | |
| | `ExecSafety` | `ExecIsComplete` | |
| | `SessionSafety` | `NoOldRequests` | |
| `XosVmmProofs` | `KernelAlwaysMapped` | `KernelStaysMapped` | table size, kernel image, memory size, place of the framebuffer |
| | `TablesAlwaysIntact` | `TablesIntact` | |
| | `UserAlwaysIsolated` | `UserIsolated` | |
| | `UserEnteredReady` | `UserReady` | |

None of these properties is inductive alone; what they need:

- **Preemptive threads.**  `NoZombie` needs to know that whatever is on the ring
  has a context to return to; that needs the ring to be a ring (`RingInv`, which
  says for each point inside `thread_create` and `thread_exit` which links are
  open); that needs interrupts to be off there (`StatusInv`), and they are off
  because `sret` restores what was saved (`ReturnInv`, `ContextInv`,
  `StackInv`).  `PictureInv` adds, for the running thread and for each one that
  waits, where it is in `render` and what its registers must hold, wherever they
  are kept at the moment.  The two places that switch threads have lemmas of
  their own (`InterruptSwitchEffect`, `ExitSwitchEffect`).

  For the refinement `QueueInv` says that there is a sequence which starts at the
  thread that runs, follows `next`, repeats nobody and comes back to its head
  (`IsQueue`), at the points inside `thread_create` and `thread_exit` too, where
  the links that are still open are not on that path.  `RingInv` alone does
  not give it: pointers that are inverse to each other may form several rings.
  `RingQueueIs` shows that the mapping's walk along `next` yields this sequence,
  `QueueAppend`, `QueueRotate` and `QueueTail` what becomes of it when a thread
  is linked in, when the processor is handed on and when the head leaves.
  Five kinds of steps disturb it (`QueueCreateAlloc`, `QueueCreateLinkPrev`,
  `QueueInterruptSwitch`, `QueueExitUnlinkNext`, `QueueExitClear`); all others
  leave pointers and head alone (`QueueFrame`).
- **Cooperative threads.**  Each call is one action, so the ring is closed in
  every state (`RingInv`).  `RunningInv` and `WaitingInv` say for the running
  thread and for each that waits how far its picture is and that its registers,
  live or in the context `yield` saved, hold the next row; `IdInv` that a thread
  which was created and is not on the ring has drawn everything; `RestInv` that
  whoever spins has itself as successor.  That nobody else can then be waiting
  takes `QueueInv` (the ring is a single cycle), and gives `PictureAtRest`.
- **X/OS traps.**  `StackInv` follows the stack pointer and `sscratch` through
  the swap, `CauseInv` ties `scause` and `sepc` to the trap that set them,
  `SaveInv` says which registers are already in the frame and which are still
  live at each block of `trap_entry`, `RestoreInv` the same for `trap_exit`,
  `DispatchInv` which call number leads where, `ProgramInv` that the program's
  counter stays in its range, and `OutputInv` that a character in flight
  is the only difference between what was printed and what was asked for.
- **Example traps.**  The same argument with both trap entries at once; which
  parts of the frame are used depends on `prog`.  `ExpectInv` adds the two faults
  `ex20` expects and the one it does not come back from.
- **Boot monitor.**  `EntryInv` and `HandlerInv` locate the program's state (in
  the registers, then in `frame`, then back) and say when the trap vector and
  `MSTATUS.MPP` are borrowed by `rd_safe` and from where they are restored;
  `LineInv` keeps `cmdbuf` and screen equal; `DumpInv` relates the cursor of a
  dump to the lines already shown, modulo the address width, up to the count
  asked for when it ends.
- **IPv6 stack.**  `LengthInv` says at the entry of every layer how much of the
  frame is left; `FrameInv`, `ChainInv` and `MemInv` say that the frame in
  `rxbuf` is the one being handled, that it has passed the checks of the earlier
  layers, and what a WRITE has stored; `QueueInv` and `SlotInv` describe the two
  receive and the two transmit slots.  `AnswerInv` counts replies against
  frames: `Answered(s, n)` says that an order-preserving function leads from the
  packets sent to the frames that are owed them.  The assumption about frames
  is that their lengths are natural numbers.

  The checksum is a theorem of its own, about the operators of `Checksum` with
  any bytes and any even number of address bytes, the checksum field being an
  aligned halfword that holds zero.  All sums are taken modulo `Half - 1`
  (65535): a carry that is folded in changes nothing there (`CongFoldRound`,
  `CongEndAround`), and swapping the bytes of each halfword multiplies by
  `Octet` (`CongSwap`).  `TotalsDiffer` compares the loop's sum with the
  receiver's, which has the pseudo-header in another place and the checksum where
  the sender had zero; `Complement` makes the difference vanish, and a sum that
  is congruent to zero without being zero is all ones (`OnesZero`).  Sums are
  natural numbers there; the code's 32 bits suffice because a packet has at most
  768 halfwords.
- **Network boot.**  `FlightInv` is the heart of it: replies in the socket,
  replies on the link and requests on the link, taken as one queue, carry
  sequence numbers in strictly increasing order, and a packet is the more
  numbers behind the latest the more faults there have been: each number used
  while a packet is still on its way costs a fault (a timeout that fires although
  an answer is coming).  So as long as faults are fewer than sequence numbers
  (`MaxFaults < SeqWrap`; `SeqWrap` is 2^32 in the code) a number cannot come
  round again, and a reply that carries the latest number is the only packet
  there is (lemma `Latest`).  From that: requests on the link belong to the
  session under way (`SessionInv`), a reply on its way means the block has been
  written (`WriteInv`), EXEC is on its way only when all blocks are in memory
  and no WRITE is (`ExecInv`), and a running target has not answered the latest
  query (`RunInv`).
- **X/OS memory.**  The boot is one long sequence, so `IInv` says what holds at
  each of its steps (`Phase`, with one part per label: `AtStart` to `AtEnd`).
  The parts share `Mapped(l, s, K, M, U, F)`: the directory translates the
  kernel pages `K`, the MMIO pages `M`, the user pages `U` and the framebuffer
  pages `F` as it should and every other page not at all; the page tables are
  pages of their own at or above `vm.top` (`TablesOK`) and a user frame is a
  page handed out and not a table (`Owned`).  `Count` bounds the pages taken so
  far by the megapages begun, with one to spare while the entry under the cursor
  is in use (`Tight`: an entry is in use only when something is mapped through
  it); that gives `panic()` only when memory is short, and keeps the pool clear
  of the framebuffer.  The lemmas about `vmm.c` (`AllocEffect`, `LeafEffect`,
  `TableEffect`, `Map4k`, `Map4m`) say that one call changes one translation;
  `KernelStep`, `MegaStep`, `MmioStep`, `UserStep`, `FbStep`, `CopyStep` and
  `StackStep` lift that to the steps of the boot.  The definitions take the
  layout and the memory as parameters, so that a fact serves a state and its
  successor.  The assumptions (`VmmAssumption`) are the linker script's section
  order, the memory map of `hw/platform.h` and the place of the framebuffer.

  The proof attempt showed that `vm_map_4k` and other definitions had been
  written with `CASE` arms that overlap, where TLA+ leaves the value open and TLC
  takes the first; they are now `IF` chains that keep the code's order.

Only model-checked: liveness (outside the prover's reach) and the other
properties of `Library`: `StringsExact`, `TokensAreWords`, `FormatExact` and
`DrawnExact`.  `ConsoleLine` and `Printf` describe their engines with
recursive operators, which the prover does not accept in a module it is to use,
and `CString` and `Gfx` theirs with folds, which take an operator.
`ChecksumVerifies` is stated over the calls of `Library`, which includes these
modules, and so is proved for the operators of `Checksum` rather than for
`Library`'s specification.

## Not modelled

- `printf`'s floating point half (compiled out), `libc/src/atoi.c` and `ctype.c`
  (in no build), `strnlen` and `memchr`; `gfx_init`, which selects functions, and
  the `printf` wrappers of libgfx.
- The page tables of `ex20` and `ex25`: forerunners of what `XosVmm` models.
- What more allocations than the kernel makes today would do to the framebuffer,
  whose pages stay in the free pool (`kernel.c:35`).
- `start()` of the network boot loader and its exception handler, which halts.
- What the X/OS user program draws.
- `external/` (fonts, SHA-256), `misc/`, the build files, the serial output,
  start-up and exception printing code of `hw/`: no state of their own, or not
  this project's code.

## Plan

1. Done: threads and their abstract specification, network boot, X/OS memory and
   traps, the boot monitor, the IPv6 stack, the trap examples, the libraries; the
   safety of both thread libraries, both trap paths, the monitor, the stack, the
   network boot protocol and X/OS memory, both refinements of `RoundRobin` and
   the checksum proved.
2. Proofs next: the memory routines of `CString` and the clipping of `Gfx`, once
   their folds are written as recursive functions, by the same set-based
   induction.
