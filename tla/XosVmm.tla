-------------------------------- MODULE XosVmm --------------------------------
(***************************************************************************)
(* How the X/OS kernel brings up virtual memory: the boot page directory   *)
(* of xos/src/start.S, the page allocator and the two mapping functions of *)
(* xos/src/vmm.c, and the calls start() and start_user_program() of        *)
(* xos/src/kernel.c make, up to the entry into user mode.                  *)
(*                                                                         *)
(* Addresses are page numbers.  A page table has T entries, so a megapage  *)
(* is T pages and a directory covers T * T pages (T is 1024 in the code).  *)
(* The layout of the linked kernel, the size of memory and the place of    *)
(* the framebuffer are chosen in the initial state.  Memory starts out     *)
(* with junk in it.                                                        *)
(***************************************************************************)
EXTENDS Integers, FiniteSets

CONSTANTS
  T,          \* entries of a page table
  KpaBase,    \* KPA_BASE: first page of DRAM (physical)
  KvaBase,    \* KVA_BASE: where the kernel is linked
  FbVa,       \* virtual page of the framebuffer in the user program
  UserStart,  \* first page of the user program
  UserStack,  \* page after the user stack
  MmioBase,   \* MMIO_BASE, the same physical and virtual page
  UserPages,  \* pages of user text and data (4 in the code)
  FbPages,    \* pages of the framebuffer (150 in the code)
  Layouts     \* kernel images: records of page offsets from KPA_BASE

End(l) == ((l.imageEnd + T - 1) \div T) * T

\* Pages start() and start_user_program() allocate.
Needed(l) == 1 + End(l) \div T + UserPages + 4

(* What the linker script, the memory map of hw/platform.h and the size of *)
(* the embedded program provide: sections start on page boundaries, memory *)
(* is a whole number of megapages, user, kernel and MMIO addresses are     *)
(* apart, the framebuffer is clear of the image and of the pages this boot *)
(* takes from the top of memory.                                           *)
ASSUME VmmAssumption ==
  /\ T \in Nat \ {0, 1, 2, 3}
  /\ \A b \in {KpaBase, KvaBase, FbVa, UserStart, UserStack, MmioBase} :
       b \in 0..T*T-1 /\ b % T = 0
  /\ UserStack = UserStart + T /\ FbVa # UserStart
  /\ \A b \in {KpaBase, FbVa, UserStart} : b + T <= KvaBase
  /\ UserPages \in 1..T-1 /\ FbPages \in 1..T
  /\ \A l \in Layouts :
       /\ {l.text, l.rodata, l.data, l.imageEnd, l.memTop, l.fb} \subseteq Nat
       /\ 0 < l.text /\ l.text < l.rodata /\ l.rodata <= l.data
       /\ l.data <= l.imageEnd /\ l.imageEnd <= l.memTop - 2
       /\ l.memTop % T = 0 /\ KvaBase + l.memTop <= MmioBase
       /\ l.user \in 1..UserPages
       /\ \/ l.fb >= l.memTop
          \/ l.imageEnd <= l.fb /\ l.fb + FbPages <= l.memTop - 2 - Needed(l)

VARIABLES
  pc,       \* the next step of the boot
  layout,   \* the layout in use
  va,       \* the cursor of the loop being executed
  vm,       \* mem: contents of every page of DRAM; top: pa_top;
            \*   panic: ppage_alloc_z found no page
  kpgdir,   \* page of the kernel's page directory
  satp      \* page of the active page directory

vars == <<pc, layout, va, vm, kpgdir, satp>>

Index == 0..T-1
Ram   == KpaBase .. KpaBase + layout.memTop - 1
NoDir == -1

-----------------------------------------------------------------------------
(* Page table entries.  "table" has PTE_V only, "leaf" also some of        *)
(* PTE_R, PTE_W and PTE_X.                                                 *)

Pte(kind, pa, perm) == [kind |-> kind, pa |-> pa, perm |-> perm]
Invalid   == Pte("invalid", 0, {})
Junk      == Pte("junk", 0, {})
Image(n)  == Pte("image", n, {})    \* n-th page of the user program
EFrame    == Pte("eframe", 0, {})

KERNEL_RX == {"R", "X"}
KERNEL_RO == {"R"}
KERNEL_RW == {"R", "W"}
KERNEL_RWX == {"R", "W", "X"}       \* PTE_BITS_RWX of start.S
USER_RWX  == {"R", "W", "X", "U"}
USER_RW   == {"R", "W", "U"}

Filled(e) == [i \in Index |-> e]

kva_to_pa(v) == v - (KvaBase - KpaBase)
pa_to_kva(p) == p + (KvaBase - KpaBase)

(* The MMU: what the directory dir makes of virtual page v.                *)
Walk(dir, v) ==
  LET e == vm.mem[dir][v \div T]
  IN CASE e.kind = "leaf"  -> [e EXCEPT !.pa = @ + (v % T)]
       [] e.kind = "table" -> vm.mem[e.pa][v % T]
       [] OTHER            -> Invalid

-----------------------------------------------------------------------------
(* vmm.c.  The functions map the state s of the allocator and memory to    *)
(* the next one; after a panic nothing more happens.                       *)

\* Mutant of ppage_alloc_z: the page is not cleared.
ppage_alloc(s) ==
  IF s.top = KpaBase + layout.imageEnd
  THEN [s EXCEPT !.panic = TRUE]
  ELSE [s EXCEPT !.top = s.top - 1]

\* Mutant of ppage_alloc_z: the last page of the pool is never used.
ppage_alloc_early(s) ==
  IF s.top <= KpaBase + layout.imageEnd + 1
  THEN [s EXCEPT !.panic = TRUE]
  ELSE [s EXCEPT !.top = s.top - 1, !.mem[s.top - 1] = Filled(Invalid)]

\* The page handed out is the new s.top.
ppage_alloc_z(s) ==
  IF s.top = KpaBase + layout.imageEnd
  THEN [s EXCEPT !.panic = TRUE]
  ELSE [s EXCEPT !.top = s.top - 1, !.mem[s.top - 1] = Filled(Invalid)]

\* Enter a 4 KB leaf unless the slot is taken (-1).
SetLeaf(s, ptbl, v, pa, perm) ==
  IF s.mem[ptbl][v % T].kind # "invalid"
  THEN s
  ELSE [s EXCEPT !.mem[ptbl][v % T] = Pte("leaf", pa, perm)]

\* A missing page table is allocated, a megapage is a conflict.
vm_map_4k(s, pdir, v, pa, perm) ==
  LET e == s.mem[pdir][v \div T]
      a == ppage_alloc_z(s)
  IN IF s.panic THEN s
     ELSE CASE e.kind = "leaf"  -> s            \* XOS_ERR_CONFLICT
            [] e.kind = "table" -> SetLeaf(s, e.pa, v, pa, perm)
            [] OTHER ->
                 IF a.panic THEN a
                 ELSE SetLeaf([a EXCEPT !.mem[pdir][v \div T] =
                                          Pte("table", a.top, {})],
                              a.top, v, pa, perm)

\* Only into an empty directory entry, and only aligned.
vm_map_4m(s, pdir, v, pa, perm) ==
  IF s.mem[pdir][v \div T].kind # "invalid" \/ v % T # 0 \/ pa % T # 0
  THEN s
  ELSE [s EXCEPT !.mem[pdir][v \div T] = Pte("leaf", pa, perm)]

-----------------------------------------------------------------------------
(* start.S: the boot directory is the next to last page of memory.  It     *)
(* maps all memory at KVA_BASE, its first megapage also where it is, and   *)
(* MMIO.                                                                   *)

BootDir == KpaBase + layout.memTop - 2

Init ==
  /\ pc = "_start"
  /\ layout \in Layouts
  /\ va = 0
  /\ vm = [mem |-> [p \in Ram |-> Filled(Junk)], top |-> 0, panic |-> FALSE]
  /\ kpgdir = NoDir
  /\ satp = NoDir

BootEntry(i) ==
  LET m == i - KvaBase \div T
  IN CASE i = KpaBase \div T -> Pte("leaf", KpaBase, KERNEL_RWX)
       [] m \in 0..layout.memTop \div T - 1 ->
            Pte("leaf", KpaBase + m * T, KERNEL_RWX)
       [] i = MmioBase \div T -> Pte("leaf", MmioBase, KERNEL_RW)
       [] OTHER -> Invalid

BootPaging ==
  /\ pc = "_start"
  /\ vm' = [vm EXCEPT !.mem[BootDir] = [i \in Index |-> BootEntry(i)]]
  /\ satp' = BootDir
  /\ pc' = "start"
  /\ UNCHANGED <<layout, va, kpgdir>>

-----------------------------------------------------------------------------
(* start() of kernel.c.                                                    *)

\* Go on with label next after memory operation s, or stop in panic().
Then(s, next) ==
  /\ vm' = s
  /\ pc' = IF s.panic THEN "panic" ELSE next

\* vmm_init(), then the kernel's page directory is the first allocation.
VmmInit ==
  /\ pc = "start"
  /\ LET s == ppage_alloc_z([vm EXCEPT !.top = BootDir])
     IN Then(s, "map_text") /\ kpgdir' = s.top
  /\ va' = KvaBase + layout.text
  /\ UNCHANGED <<layout, satp>>

\* One pass of a loop that maps kernel pages one by one up to limit.
MapPages(limit, perm) ==
  /\ va < KvaBase + limit
  /\ Then(vm_map_4k(vm, kpgdir, va, kva_to_pa(va), perm), pc)
  /\ va' = va + 1
  /\ UNCHANGED <<layout, kpgdir, satp>>

LoopDone(limit, next) ==
  /\ va >= KvaBase + limit
  /\ pc' = next
  /\ UNCHANGED <<layout, va, vm, kpgdir, satp>>

MapText == pc = "map_text" /\ MapPages(layout.rodata, KERNEL_RX)

MapTextDone == pc = "map_text" /\ LoopDone(layout.rodata, "map_rodata")

MapRodata == pc = "map_rodata" /\ MapPages(layout.data, KERNEL_RO)

MapRodataDone == pc = "map_rodata" /\ LoopDone(layout.data, "map_data")

\* Mutant of DataEnd: the end of the image is not rounded up.
DataEndUnrounded == layout.imageEnd

\* end: the image rounded up to a megapage.
DataEnd == End(layout)

MapData == pc = "map_data" /\ MapPages(DataEnd, KERNEL_RW)

MapDataDone == pc = "map_data" /\ LoopDone(DataEnd, "map_mega")

MapMega ==
  /\ pc = "map_mega"
  /\ va < KvaBase + layout.memTop
  /\ Then(vm_map_4m(vm, kpgdir, va, kva_to_pa(va), KERNEL_RW), pc)
  /\ va' = va + T
  /\ UNCHANGED <<layout, kpgdir, satp>>

MapMmio ==
  /\ pc = "map_mega"
  /\ va >= KvaBase + layout.memTop
  /\ Then(vm_map_4m(vm, kpgdir, MmioBase, MmioBase, KERNEL_RW), "satp")
  /\ UNCHANGED <<layout, va, kpgdir, satp>>

SwitchSatp ==
  /\ pc = "satp"
  /\ satp' = kpgdir
  /\ va' = 0
  /\ pc' = "user_pages"
  /\ UNCHANGED <<layout, vm, kpgdir>>

-----------------------------------------------------------------------------
(* start_user_program() of kernel.c.                                       *)

\* Mutant of MapNew: the page allocated last is mapped again.
MapNewAgain(v, perm) == vm_map_4k(vm, kpgdir, v, vm.top, perm)

\* vm_map_4k(kpgdir, v, ppage_alloc_z(), perm)
MapNew(v, perm) ==
  LET s == ppage_alloc_z(vm) IN vm_map_4k(s, kpgdir, v, s.top, perm)

UserPage ==
  /\ pc = "user_pages" /\ va < UserPages
  /\ Then(MapNew(UserStart + va, USER_RWX), pc)
  /\ va' = va + 1
  /\ UNCHANGED <<layout, kpgdir, satp>>

UserStackPage ==
  /\ pc = "user_pages" /\ va = UserPages
  /\ Then(MapNew(UserStack - 1, USER_RW), "map_framebuffer")
  /\ va' = 0
  /\ UNCHANGED <<layout, kpgdir, satp>>

MapFramebuffer ==
  /\ pc = "map_framebuffer" /\ va < FbPages
  /\ Then(vm_map_4k(vm, kpgdir, FbVa + va, KpaBase + layout.fb + va, USER_RW),
          pc)
  /\ va' = va + 1
  /\ UNCHANGED <<layout, kpgdir, satp>>

\* memcpy() of the embedded program through the user mapping.
CopyUser ==
  /\ pc = "map_framebuffer" /\ va = FbPages
  /\ vm' = [vm EXCEPT !.mem =
              [p \in Ram |->
                 IF \E n \in 0..layout.user-1 :
                      Walk(satp, UserStart + n).pa = p
                 THEN Filled(Image(CHOOSE n \in 0..layout.user-1 :
                                     Walk(satp, UserStart + n).pa = p))
                 ELSE vm.mem[p]]]
  /\ pc' = "kstack"
  /\ UNCHANGED <<layout, va, kpgdir, satp>>

\* A page for the kernel stack, the initial eframe_t at its end.
KernelStack ==
  /\ pc = "kstack"
  /\ LET s == ppage_alloc_z(vm)
     IN Then(IF s.panic THEN s
             ELSE [s EXCEPT !.mem[s.top][T-1] = EFrame], "user")
  /\ UNCHANGED <<layout, va, kpgdir, satp>>

\* In user mode, or in the endless loop of panic().
Halted == pc \in {"user", "panic"} /\ UNCHANGED vars

Next == BootPaging \/ VmmInit \/ MapText \/ MapTextDone \/ MapRodata \/
        MapRodataDone \/ MapData \/ MapDataDone \/ MapMega \/ MapMmio \/
        SwitchSatp \/ UserPage \/ UserStackPage \/ MapFramebuffer \/
        CopyUser \/ KernelStack \/ Halted

Spec == Init /\ [][Next]_vars

-----------------------------------------------------------------------------
(* Properties.                                                             *)

Entries ==
  [kind : {"invalid", "junk", "table", "leaf", "image", "eframe"},
   pa : 0..T*T-1, perm : SUBSET USER_RWX]

TypeOK ==
  /\ pc \in {"_start", "start", "map_text", "map_rodata", "map_data",
             "map_mega", "satp", "user_pages", "map_framebuffer", "kstack",
             "user", "panic"}
  /\ layout \in Layouts
  /\ va \in 0..T*T
  /\ vm.top \in {0} \cup Ram /\ vm.panic \in BOOLEAN
  /\ \A p \in Ram : vm.mem[p] \in [Index -> Entries]
  /\ kpgdir \in {NoDir} \cup Ram /\ satp \in {NoDir} \cup Ram

(* Kernel addresses keep their meaning from the moment paging is on: under *)
(* the boot directory and, the instant satp is switched, under the new     *)
(* one, text is executable, everything else including the boot stack, the  *)
(* page tables and the free pages is where pa_to_kva says, and MMIO is     *)
(* there.  In the new directory nothing of the kernel is both writable and *)
(* executable.                                                             *)
Rights(o) ==
  IF satp = BootDir THEN KERNEL_RWX
  ELSE IF o < layout.rodata THEN KERNEL_RX
  ELSE IF o < layout.data THEN KERNEL_RO
  ELSE KERNEL_RW

KernelStaysMapped ==
  satp # NoDir =>
    /\ \A o \in layout.text..layout.memTop-1 :
         Walk(satp, KvaBase + o) = Pte("leaf", KpaBase + o, Rights(o))
    /\ Walk(satp, MmioBase) = Pte("leaf", MmioBase, KERNEL_RW)

\* The pages the hardware walks, and those a user program may access.
Tables == {satp, kpgdir} \ {NoDir}
Walked == Tables \cup
          UNION {{vm.mem[d][i].pa : i \in {k \in Index : vm.mem[d][k].kind = "table"}} :
                 d \in Tables}
UserView == {v \in 0..T*T-1 : "U" \in Walk(kpgdir, v).perm}
UserFrame(v) == Walk(kpgdir, v).pa

(* Every entry of a directory or table in use was put there by a mapping   *)
(* function: no table is carved out of a page with junk in it, or handed   *)
(* out a second time and overwritten.                                      *)
TablesIntact ==
  kpgdir # NoDir /\ pc # "panic" =>
    \A p \in Walked, i \in Index :
      vm.mem[p][i].kind \in {"invalid", "table", "leaf"}

(* What the user program can reach is never a page table, the kernel       *)
(* image, the boot stack or the kernel stack, and no frame is mapped for   *)
(* it twice.  Nor is it a free page, with one exception: the framebuffer,  *)
(* which nobody takes out of the pool (kernel.c:35, "TODO: remove the pa   *)
(* from the freelist").  Its pages are free pages the program can write,   *)
(* or lie beyond memory; none of them has been handed out in this boot.    *)
UserIsolated ==
  kpgdir # NoDir /\ pc # "panic" =>
    /\ \A v, w \in UserView : v # w => UserFrame(v) # UserFrame(w)
    /\ \A v \in UserView :
         LET p == UserFrame(v)
         IN /\ p \notin Walked
            /\ p - KpaBase \notin
                 0..layout.imageEnd-1 \cup layout.memTop-2..layout.memTop-1
            /\ pc = "user" => p # vm.top
            /\ v \notin FbVa..FbVa+FbPages-1 => p >= vm.top
            /\ v \in FbVa..FbVa+FbPages-1 =>
                 p < vm.top \/ p >= KpaBase + layout.memTop

(* The program is entered with its pages, its stack and the framebuffer    *)
(* mapped, nothing else, and the image in place; the kernel stops in       *)
(* panic() only when memory is too small.                                  *)
UserReady ==
  /\ pc = "user" =>
       /\ UserView = UserStart..UserStart+UserPages-1 \cup {UserStack-1} \cup
                     FbVa..FbVa+FbPages-1
       /\ \A n \in 0..layout.user-1 :
            vm.mem[UserFrame(UserStart + n)] = Filled(Image(n))
       /\ vm.mem[vm.top] = [Filled(Invalid) EXCEPT ![T-1] = EFrame]
  /\ pc = "panic" => layout.imageEnd + Needed(layout) > layout.memTop - 2
===============================================================================
