----------------------------- MODULE XosVmmProofs -----------------------------
(***************************************************************************)
(* Proofs about XosVmm, for any size of the page tables, any kernel image, *)
(* any size of memory and any place of the framebuffer.                    *)
(*                                                                         *)
(* The operators below take the layout l and the memory s as parameters,   *)
(* so that the same facts serve a state and its successor.                 *)
(***************************************************************************)
EXTENDS XosVmm, TLAPS

Kinds == {"invalid", "junk", "table", "leaf", "image", "eframe"}
Ptes  == [kind : Kinds, pa : Int, perm : SUBSET USER_RWX]
Pages == 0..T*T-1      \* virtual pages

RamOf(l) == KpaBase .. KpaBase + l.memTop - 1
Vms(l)   == [mem : [RamOf(l) -> [Index -> Ptes]], top : Int, panic : BOOLEAN]

\* The boot directory, the kernel's directory below it, the end of the image.
Boot(l) == KpaBase + l.memTop - 2
Dir(l)  == Boot(l) - 1
Low(l)  == KpaBase + l.imageEnd

\* An entry of the kernel's directory, and what it makes of a virtual page.
DE(l, s, i) == s.mem[Dir(l)][i]
View(l, s, v) ==
  LET e == DE(l, s, v \div T)
  IN IF e.kind = "leaf" THEN [e EXCEPT !.pa = @ + (v % T)]
     ELSE IF e.kind = "table" THEN s.mem[e.pa][v % T]
     ELSE Invalid

\* The pool has the pages from the end of the image to s.top.
Room(l, s) == s \in Vms(l) /\ s.panic = FALSE /\ s.top \in Low(l)..Dir(l)

\* The page tables are pages of their own, at or above low.
TablesOK(l, s, low) ==
  /\ \A i \in Index :
       /\ DE(l, s, i) = Invalid \/ DE(l, s, i).kind \in {"table", "leaf"}
       /\ DE(l, s, i).kind = "table" =>
            /\ DE(l, s, i).perm = {} /\ DE(l, s, i).pa \in low..Dir(l)-1
            /\ \A k \in Index : \/ s.mem[DE(l, s, i).pa][k] = Invalid
                                \/ s.mem[DE(l, s, i).pa][k].kind = "leaf"
  /\ \A i, j \in Index :
       DE(l, s, i).kind = "table" /\ DE(l, s, j).kind = "table" /\ i # j =>
         DE(l, s, i).pa # DE(l, s, j).pa

\* Page x was handed out, for something else than a table.
Owned(l, s, x) ==
  /\ x \in s.top..Dir(l)-1
  /\ \A i \in Index : DE(l, s, i).kind = "table" => DE(l, s, i).pa # x

\* A directory entry is in use only when something is mapped through it.
Tight(l, s) ==
  \A i \in Index : DE(l, s, i) # Invalid =>
    \E v \in Pages : v \div T = i /\ View(l, s, v) # Invalid

-----------------------------------------------------------------------------
(* Page numbers.                                                           *)

LEMMA TableSize == T \in Nat \ {0, 1, 2, 3}
BY VmmAssumption

LEMMA DivMod ==
  ASSUME NEW v \in Nat
  PROVE  v \div T \in Nat /\ v % T \in 0..T-1 /\ v = T * (v \div T) + (v % T)
BY TableSize

LEMMA DivUnique ==
  ASSUME NEW q \in Int, NEW r \in 0..T-1
  PROVE  (T * q + r) \div T = q /\ (T * q + r) % T = r
BY TableSize

LEMMA PageIndex ==
  ASSUME NEW v \in Pages
  PROVE  v \in Nat /\ v \div T \in Index /\ v % T \in Index
<1>1. v \in Nat /\ T \in Nat
  BY TableSize DEF Pages
<1>2. v \div T \in Nat /\ v % T \in 0..T-1 /\ v = T * (v \div T) + (v % T)
  BY <1>1, DivMod
<1>3. v \div T < T
  <2> SUFFICES ASSUME v \div T >= T PROVE FALSE
    BY <1>1, <1>2
  <2>1. T * (v \div T) >= T * T
    BY <1>1, <1>2
  <2>2. T * (v \div T) \in Nat /\ T * T \in Nat
    BY <1>1, <1>2
  <2> QED
    BY <1>1, <1>2, <2>1, <2>2 DEF Pages
<1> QED
  BY <1>1, <1>2, <1>3 DEF Index

LEMMA SamePage ==
  ASSUME NEW v \in Nat, NEW w \in Nat, v \div T = w \div T, v % T = w % T PROVE v = w
BY DivMod

\* Offsets from a megapage boundary.
LEMMA Shift ==
  ASSUME NEW b \in Nat, b % T = 0, NEW o \in Nat
  PROVE  (b + o) \div T = (b \div T) + (o \div T) /\ (b + o) % T = o % T
<1>1. b \div T \in Nat /\ b = T * (b \div T) + 0
  BY DivMod
<1>2. o \div T \in Nat /\ o % T \in 0..T-1 /\ o = T * (o \div T) + (o % T)
  BY DivMod
<1>3. PICK q \in Int, r \in 0..T-1 : q = (b \div T) + (o \div T) /\ r = o % T
  BY <1>1, <1>2
<1>4. T * q + r = b + o
  <2>1. T * q = T * (b \div T) + T * (o \div T)
    BY <1>1, <1>2, <1>3, TableSize
  <2>2. T * (b \div T) \in Nat /\ T * (o \div T) \in Nat
    BY <1>1, <1>2, TableSize
  <2> QED
    BY <1>1, <1>2, <1>3, <2>1, <2>2
<1>5. (T * q + r) \div T = q /\ (T * q + r) % T = r
  BY DivUnique
<1> QED
  BY <1>3, <1>4, <1>5

LEMMA Small ==
  ASSUME NEW o \in 0..T-1 PROVE o \div T = 0 /\ o % T = o
BY TableSize

\* One page on.
LEMMA NextPage ==
  ASSUME NEW v \in Nat
  PROVE  \/ (v + 1) \div T = v \div T
         \/ (v + 1) \div T = (v \div T) + 1 /\ (v + 1) % T = 0
<1>1. v \div T \in Nat /\ v % T \in 0..T-1 /\ v = T * (v \div T) + (v % T)
  BY DivMod
<1>2. CASE (v % T) + 1 < T
  <2>1. PICK r \in 0..T-1 : r = (v % T) + 1
    BY <1>1, <1>2, TableSize
  <2>2. (T * (v \div T) + r) \div T = v \div T
    BY <1>1, DivUnique
  <2>3. T * (v \div T) + r = v + 1
    BY <1>1, <2>1, TableSize
  <2> QED
    BY <2>2, <2>3
<1>3. CASE ~((v % T) + 1 < T)
  <2>1. PICK q \in Int : q = (v \div T) + 1
    BY <1>1
  <2>2. T * q = T * (v \div T) + T
    BY <1>1, <2>1, TableSize
  <2>3. (v % T) + 1 = T
    BY <1>1, <1>3, TableSize
  <2>4. T * q + 0 = v + 1
    <3>1. T * (v \div T) \in Nat /\ T \in Nat
      BY <1>1, TableSize
    <3> QED
      BY <1>1, <2>2, <2>3, <3>1
  <2>5. 0 \in 0..T-1
    BY TableSize
  <2>6. (T * q + 0) \div T = q /\ (T * q + 0) % T = 0
    BY <2>5, DivUnique
  <2> QED
    BY <2>1, <2>4, <2>6
<1> QED
  BY <1>2, <1>3

\* Pages below a megapage boundary are in earlier megapages.
LEMMA Below ==
  ASSUME NEW b \in Nat, b % T = 0, NEW v \in Nat
  PROVE  v < b <=> v \div T < b \div T
<1>1. b \div T \in Nat /\ b = T * (b \div T) + 0
  BY DivMod
<1>2. v \div T \in Nat /\ v % T \in 0..T-1 /\ v = T * (v \div T) + (v % T)
  BY DivMod
<1>3. CASE v \div T < b \div T
  <2>1. T * (v \div T) + T <= T * (b \div T)
    BY <1>1, <1>2, <1>3, TableSize
  <2> QED
    BY <1>1, <1>2, <1>3, <2>1, TableSize
<1>4. CASE ~(v \div T < b \div T)
  <2>1. T * (v \div T) >= T * (b \div T)
    BY <1>1, <1>2, <1>4, TableSize
  <2> QED
    BY <1>1, <1>2, <1>4, <2>1, TableSize
<1> QED
  BY <1>3, <1>4

-----------------------------------------------------------------------------
(* vmm.c.                                                                  *)

LEMMA PteType ==
  ASSUME NEW k \in Kinds, NEW p \in Int, NEW m \in SUBSET USER_RWX
  PROVE  Pte(k, p, m) \in Ptes /\ Pte(k, p, m).kind = k /\ Pte(k, p, m).pa = p
         /\ Pte(k, p, m).perm = m
BY DEF Pte, Ptes

LEMMA InvalidType == Invalid \in Ptes /\ Invalid.kind = "invalid" /\ Invalid.perm = {}
BY DEF Invalid, Pte, Ptes, Kinds

Store(s, p, i, e) == [s EXCEPT !.mem[p][i] = e]

LEMMA StoreFacts ==
  ASSUME NEW l, NEW s \in Vms(l), NEW p \in RamOf(l), NEW i \in Index, NEW e \in Ptes,
         NEW r, r = Store(s, p, i, e)
  PROVE  /\ r \in Vms(l) /\ r.top = s.top /\ r.panic = s.panic /\ r.mem[p][i] = e
         /\ \A q \in RamOf(l), k \in Index : (q # p \/ k # i) => r.mem[q][k] = s.mem[q][k]
         /\ \A q \in RamOf(l) \ {p} : r.mem[q] = s.mem[q]
BY DEF Vms, Store

\* ppage_alloc_z and vm_map_4k with the layout as a parameter.
AllocZ(l, s) ==
  IF s.top = Low(l) THEN [s EXCEPT !.panic = TRUE]
  ELSE [s EXCEPT !.top = s.top - 1, !.mem[s.top - 1] = Filled(Invalid)]

Map4K(l, s, pdir, v, pa, perm) ==
  LET e == s.mem[pdir][v \div T]
      a == AllocZ(l, s)
  IN IF s.panic THEN s
     ELSE CASE e.kind = "leaf"  -> s
            [] e.kind = "table" -> SetLeaf(s, e.pa, v, pa, perm)
            [] OTHER ->
                 IF a.panic THEN a
                 ELSE SetLeaf([a EXCEPT !.mem[pdir][v \div T] =
                                          Pte("table", a.top, {})],
                              a.top, v, pa, perm)

LEMMA SameVmm ==
  /\ \A s : ppage_alloc_z(s) = AllocZ(layout, s)
  /\ \A s, d, v, pa, perm :
       vm_map_4k(s, d, v, pa, perm) = Map4K(layout, s, d, v, pa, perm)
<1>1. \A s : ppage_alloc_z(s) = AllocZ(layout, s)
  BY DEF ppage_alloc_z, AllocZ, Low
<1>2. ASSUME NEW s, NEW d, NEW v, NEW pa, NEW perm
      PROVE  vm_map_4k(s, d, v, pa, perm) = Map4K(layout, s, d, v, pa, perm)
  BY DEF vm_map_4k, Map4K, ppage_alloc_z, AllocZ, Low
<1> QED
  BY <1>1, <1>2

\* The page below s.top is handed out, cleared.
Fresh(l, s, r) ==
  /\ r \in Vms(l) /\ r.top = s.top - 1 /\ r.panic = s.panic
  /\ r.mem[r.top] = Filled(Invalid)
  /\ \A k \in Index : r.mem[r.top][k] = Invalid
  /\ \A q \in RamOf(l) \ {r.top} : r.mem[q] = s.mem[q]

LEMMA AllocFacts ==
  ASSUME NEW l, NEW s, s \in Vms(l), s.top - 1 \in RamOf(l), s.top # Low(l),
         NEW r, r = AllocZ(l, s)
  PROVE  Fresh(l, s, r)
<1>1. Filled(Invalid) \in [Index -> Ptes]
  BY InvalidType DEF Filled
<1>2. r = [s EXCEPT !.top = s.top - 1, !.mem[s.top - 1] = Filled(Invalid)]
  BY DEF AllocZ, Low
<1> DEFINE m == [s.mem EXCEPT ![s.top - 1] = Filled(Invalid)]
<1>3. r = [mem |-> m, top |-> s.top - 1, panic |-> s.panic]
  BY <1>2 DEF Vms
<1>4. /\ m \in [RamOf(l) -> [Index -> Ptes]] /\ m[s.top - 1] = Filled(Invalid)
      /\ \A q \in RamOf(l) \ {s.top - 1} : m[q] = s.mem[q]
  BY <1>1 DEF Vms
<1>5. s.top - 1 \in Int /\ s.panic \in BOOLEAN
  BY DEF Vms
<1> HIDE DEF m
<1> QED
  BY <1>3, <1>4, <1>5 DEF Vms, Filled, Fresh

LEMMA ConstFacts ==
  /\ KpaBase \in Nat /\ KvaBase \in Nat /\ KpaBase % T = 0 /\ KvaBase % T = 0
  /\ MmioBase \in Pages /\ MmioBase \in Nat /\ MmioBase % T = 0
  /\ FbVa \in Nat /\ FbVa % T = 0 /\ UserStart \in Nat /\ UserStart % T = 0
  /\ UserStack = UserStart + T /\ FbVa # UserStart
  /\ KpaBase + T <= KvaBase /\ FbVa + T <= KvaBase /\ UserStart + T <= KvaBase
  /\ UserPages \in Nat /\ 0 < UserPages /\ UserPages < T
  /\ FbPages \in Nat /\ 0 < FbPages /\ FbPages <= T
<1>1. \A b \in {KpaBase, KvaBase, FbVa, UserStart, MmioBase} : b \in Pages /\ b % T = 0
  BY VmmAssumption DEF Pages
<1>2. \A b \in Pages : b \in Nat
  BY DEF Pages
<1>3. KpaBase + T <= KvaBase /\ FbVa + T <= KvaBase /\ UserStart + T <= KvaBase
  BY VmmAssumption
<1>4. UserStack = UserStart + T /\ FbVa # UserStart
  BY VmmAssumption
<1>5. UserPages \in 1..T-1 /\ FbPages \in 1..T
  BY VmmAssumption
<1>6. /\ UserPages \in Nat /\ 0 < UserPages /\ UserPages < T
      /\ FbPages \in Nat /\ 0 < FbPages /\ FbPages <= T
  BY <1>5, TableSize
<1> QED
  BY <1>1, <1>2, <1>3, <1>4, <1>6

LEMMA LayoutFacts ==
  ASSUME NEW l \in Layouts
  PROVE  /\ l.text \in Nat /\ l.rodata \in Nat /\ l.data \in Nat
         /\ l.imageEnd \in Nat /\ l.memTop \in Nat /\ l.fb \in Nat
         /\ 0 < l.text /\ l.text < l.rodata /\ l.rodata <= l.data
         /\ l.data <= l.imageEnd /\ l.imageEnd <= l.memTop - 2
         /\ l.memTop % T = 0 /\ KvaBase + l.memTop <= MmioBase
         /\ l.user \in Nat /\ 0 < l.user /\ l.user <= UserPages
         /\ Boot(l) \in Nat /\ Dir(l) \in Int /\ Dir(l) = Boot(l) - 1 /\ Boot(l) \in RamOf(l)
         /\ Boot(l) = KpaBase + l.memTop - 2 /\ Low(l) \in Nat
         /\ \A p \in Low(l) .. Boot(l) : p \in RamOf(l)
<1>1. /\ {l.text, l.rodata, l.data, l.imageEnd, l.memTop, l.fb} \subseteq Nat
      /\ 0 < l.text /\ l.text < l.rodata /\ l.rodata <= l.data
      /\ l.data <= l.imageEnd /\ l.imageEnd <= l.memTop - 2
      /\ l.memTop % T = 0 /\ KvaBase + l.memTop <= MmioBase
      /\ l.user \in 1..UserPages
  BY VmmAssumption
<1> QED
  BY <1>1, ConstFacts DEF Boot, Dir, RamOf, Low

LEMMA DirInRam ==
  ASSUME NEW l \in Layouts, NEW s, Room(l, s)
  PROVE  /\ Dir(l) \in RamOf(l) /\ Boot(l) \in RamOf(l) /\ Dir(l) # Boot(l)
         /\ Dir(l) \in Int /\ s.top \in Int /\ s.top <= Dir(l)
         /\ \A p \in Int : p >= s.top /\ p <= Dir(l) => p \in RamOf(l)
         /\ s.top # Low(l) => s.top - 1 \in RamOf(l) /\ s.top - 1 < Dir(l) /\ s.top - 1 >= Low(l)
BY LayoutFacts DEF Room

LEMMA TableAt ==
  ASSUME NEW l \in Layouts, NEW s, Room(l, s), NEW low \in Int, low >= s.top,
         TablesOK(l, s, low), NEW i \in Index, DE(l, s, i).kind = "table"
  PROVE  \E p \in RamOf(l) : p = DE(l, s, i).pa /\ p \in Int /\ p >= low /\ p < Dir(l)
<1>1. PICK p : p = DE(l, s, i).pa
  OBVIOUS
<1>2. p \in low..Dir(l)-1
  BY <1>1 DEF TablesOK
<1> QED
  BY <1>1, <1>2, DirInRam

\* A new page disturbs nothing.
LEMMA AllocEffect ==
  ASSUME NEW l \in Layouts, NEW s, Room(l, s), TablesOK(l, s, s.top),
         s.top # Low(l), NEW r, r = AllocZ(l, s)
  PROVE  /\ Room(l, r) /\ r.top = s.top - 1 /\ r.top \in RamOf(l) /\ r.top \in Int /\ r.top < Dir(l)
         /\ TablesOK(l, r, s.top) /\ TablesOK(l, r, r.top)
         /\ r.mem[r.top] = Filled(Invalid)
         /\ \A q \in RamOf(l) \ {r.top} : r.mem[q] = s.mem[q]
         /\ \A i \in Index : DE(l, r, i) = DE(l, s, i)
         /\ \A v \in Pages : View(l, r, v) = View(l, s, v)
         /\ Owned(l, r, r.top)
         /\ \A x : Owned(l, s, x) => Owned(l, r, x) /\ x # r.top
<1>1. s \in Vms(l) /\ s.top - 1 \in RamOf(l) /\ s.top - 1 < Dir(l) /\ Dir(l) \in RamOf(l)
      /\ Dir(l) \in Int /\ s.top \in Int /\ s.top - 1 >= Low(l) /\ Low(l) \in Int
  BY DirInRam, LayoutFacts DEF Room
<1>2. /\ r \in Vms(l) /\ r.top = s.top - 1 /\ r.panic = s.panic
      /\ r.mem[r.top] = Filled(Invalid)
      /\ \A q \in RamOf(l) \ {r.top} : r.mem[q] = s.mem[q]
  BY <1>1, AllocFacts DEF Fresh
<1>3. Room(l, r)
  <2>1. s.top - 1 \in Low(l)..Dir(l)
    BY <1>1
  <2> QED
    BY <1>1, <1>2, <2>1 DEF Room
<1>4. \A i \in Index : DE(l, r, i) = DE(l, s, i)
  BY <1>1, <1>2 DEF DE
<1>5. \A i \in Index : DE(l, s, i).kind = "table" =>
        r.mem[DE(l, s, i).pa] = s.mem[DE(l, s, i).pa] /\ DE(l, s, i).pa # r.top
  <2> TAKE i \in Index
  <2> HAVE DE(l, s, i).kind = "table"
  <2>1. PICK p \in RamOf(l) : p = DE(l, s, i).pa /\ p \in Int /\ p >= s.top
    BY <1>1, TableAt
  <2>2. p # r.top
    BY <1>1, <1>2, <2>1
  <2> QED
    BY <1>2, <2>1, <2>2
<1>6. TablesOK(l, r, s.top)
  BY <1>4, <1>5 DEF TablesOK
<1>7. TablesOK(l, r, r.top)
  <2>1. \A p \in s.top..Dir(l)-1 : p \in r.top..Dir(l)-1
    BY <1>1, <1>2
  <2> QED
    BY <1>6, <2>1 DEF TablesOK
<1>8. \A v \in Pages : View(l, r, v) = View(l, s, v)
  <2> TAKE v \in Pages
  <2>1. v \div T \in Index
    BY PageIndex
  <2> QED
    BY <1>4, <1>5, <2>1 DEF View
<1>9. Owned(l, r, r.top)
  BY <1>1, <1>2, <1>4, <1>5 DEF Owned
<1>10. \A x : Owned(l, s, x) => Owned(l, r, x) /\ x # r.top
  <2> TAKE x
  <2> HAVE Owned(l, s, x)
  <2>1. x \in s.top..Dir(l)-1
    BY DEF Owned
  <2>2. x \in r.top..Dir(l)-1 /\ x # r.top
    BY <1>1, <1>2, <2>1
  <2> QED
    BY <1>4, <2>2 DEF Owned
<1> QED
  BY <1>1, <1>2, <1>3, <1>4, <1>6, <1>7, <1>8, <1>9, <1>10

\* A leaf put into an empty slot of a table.
LEMMA LeafEffect ==
  ASSUME NEW l \in Layouts, NEW s, Room(l, s), TablesOK(l, s, s.top),
         NEW v \in Pages, DE(l, s, v \div T).kind = "table", View(l, s, v) = Invalid,
         NEW e \in Ptes, e.kind = "leaf",
         NEW r, r = Store(s, DE(l, s, v \div T).pa, v % T, e)
  PROVE  /\ Room(l, r) /\ r.top = s.top /\ TablesOK(l, r, r.top)
         /\ r.mem[Boot(l)] = s.mem[Boot(l)]
         /\ \A i \in Index : DE(l, r, i) = DE(l, s, i)
         /\ View(l, r, v) = e
         /\ \A w \in Pages \ {v} : View(l, r, w) = View(l, s, w)
<1>1. v \in Nat /\ v \div T \in Index /\ v % T \in Index
  BY PageIndex
<1>2. PICK p \in RamOf(l) :
        p = DE(l, s, v \div T).pa /\ p \in Int /\ p >= s.top /\ p < Dir(l)
  BY <1>1, TableAt, DirInRam
<1>3. Dir(l) \in RamOf(l) /\ Boot(l) \in RamOf(l) /\ p # Dir(l) /\ p # Boot(l)
  BY <1>2, DirInRam, LayoutFacts
<1>4. s \in Vms(l) /\ r = Store(s, p, v % T, e)
  BY <1>2 DEF Room
<1>5. /\ r \in Vms(l) /\ r.top = s.top /\ r.panic = s.panic /\ r.mem[p][v % T] = e
      /\ \A q \in RamOf(l), k \in Index : (q # p \/ k # v % T) => r.mem[q][k] = s.mem[q][k]
      /\ \A q \in RamOf(l) \ {p} : r.mem[q] = s.mem[q]
  <2>1. PICK n \in Index : n = v % T
    BY <1>1
  <2>2. s \in Vms(l) /\ r = Store(s, p, n, e)
    BY <1>4, <2>1
  <2>3. /\ r \in Vms(l) /\ r.top = s.top /\ r.panic = s.panic /\ r.mem[p][n] = e
        /\ \A q \in RamOf(l), k \in Index : (q # p \/ k # n) => r.mem[q][k] = s.mem[q][k]
        /\ \A q \in RamOf(l) \ {p} : r.mem[q] = s.mem[q]
    BY <2>2, StoreFacts
  <2> QED
    BY <2>1, <2>3
<1>6. Room(l, r) /\ r.mem[Boot(l)] = s.mem[Boot(l)]
  BY <1>3, <1>5 DEF Room
<1>7. \A i \in Index : DE(l, r, i) = DE(l, s, i)
  BY <1>3, <1>5 DEF DE
<1>8. View(l, r, v) = e
  BY <1>1, <1>2, <1>5, <1>7 DEF View
<1>9. ASSUME NEW i \in Index, NEW k \in Index, DE(l, s, i).kind = "table",
             i # v \div T \/ k # v % T
      PROVE  r.mem[DE(l, s, i).pa][k] = s.mem[DE(l, s, i).pa][k]
  <2>1. PICK q \in RamOf(l) : q = DE(l, s, i).pa
    BY <1>9, TableAt, DirInRam
  <2>2. i # v \div T => q # p
    BY <1>1, <1>2, <1>9, <2>1 DEF TablesOK
  <2> QED
    BY <1>5, <1>9, <2>1, <2>2
<1>10. TablesOK(l, r, r.top)
  <2>1. \A i \in Index : DE(l, s, i).kind = "table" => \A k \in Index :
          \/ r.mem[DE(l, s, i).pa][k] = Invalid
          \/ r.mem[DE(l, s, i).pa][k].kind = "leaf"
    <3> SUFFICES ASSUME NEW i \in Index, DE(l, s, i).kind = "table", NEW k \in Index
                 PROVE  \/ r.mem[DE(l, s, i).pa][k] = Invalid
                        \/ r.mem[DE(l, s, i).pa][k].kind = "leaf"
      OBVIOUS
    <3>1. CASE i = v \div T /\ k = v % T
      BY <1>2, <1>5, <3>1
    <3>2. CASE i # v \div T \/ k # v % T
      BY <1>9, <3>2 DEF TablesOK
    <3> QED
      BY <3>1, <3>2
  <2>2. \A i \in Index :
          /\ DE(l, r, i) = Invalid \/ DE(l, r, i).kind \in {"table", "leaf"}
          /\ DE(l, r, i).kind = "table" =>
               DE(l, r, i).perm = {} /\ DE(l, r, i).pa \in r.top..Dir(l)-1
    BY <1>5, <1>7 DEF TablesOK
  <2>3. \A i \in Index : DE(l, r, i).kind = "table" => \A k \in Index :
          r.mem[DE(l, r, i).pa][k] = Invalid \/ r.mem[DE(l, r, i).pa][k].kind = "leaf"
    BY <1>7, <2>1
  <2>4. \A i, j \in Index :
          DE(l, r, i).kind = "table" /\ DE(l, r, j).kind = "table" /\ i # j =>
            DE(l, r, i).pa # DE(l, r, j).pa
    BY <1>7 DEF TablesOK
  <2> QED
    BY <2>2, <2>3, <2>4 DEF TablesOK
<1>11. \A w \in Pages \ {v} : View(l, r, w) = View(l, s, w)
  <2> TAKE w \in Pages \ {v}
  <2>1. w \in Nat /\ w \div T \in Index /\ w % T \in Index
    BY PageIndex
  <2>2. w \div T # v \div T \/ w % T # v % T
    BY <1>1, <2>1, SamePage
  <2>3. DE(l, s, w \div T).kind = "table" =>
          r.mem[DE(l, s, w \div T).pa][w % T] = s.mem[DE(l, s, w \div T).pa][w % T]
    BY <1>9, <2>1, <2>2
  <2> QED
    BY <1>7, <2>1, <2>3 DEF View
<1> QED
  BY <1>5, <1>6, <1>7, <1>8, <1>10, <1>11

\* An empty table put into an unused directory entry.
LEMMA TableEffect ==
  ASSUME NEW l \in Layouts, NEW a, Room(l, a), a.top < Dir(l), TablesOK(l, a, a.top + 1),
         \A k \in Index : a.mem[a.top][k] = Invalid,
         NEW i \in Index, DE(l, a, i) = Invalid,
         NEW b, b = Store(a, Dir(l), i, Pte("table", a.top, {}))
  PROVE  /\ Room(l, b) /\ b.top = a.top /\ TablesOK(l, b, b.top)
         /\ b.mem[Boot(l)] = a.mem[Boot(l)]
         /\ DE(l, b, i) = Pte("table", a.top, {})
         /\ \A j \in Index \ {i} : DE(l, b, j) = DE(l, a, j)
         /\ \A w \in Pages : View(l, b, w) = View(l, a, w)
<1>1. /\ Dir(l) \in RamOf(l) /\ Boot(l) \in RamOf(l) /\ Dir(l) # Boot(l) /\ Dir(l) \in Int
      /\ a.top \in Int /\ a.top \in RamOf(l) /\ a \in Vms(l)
  <2>1. /\ Dir(l) \in RamOf(l) /\ Boot(l) \in RamOf(l) /\ Dir(l) # Boot(l) /\ Dir(l) \in Int
        /\ a.top \in Int /\ \A p \in Int : p >= a.top /\ p <= Dir(l) => p \in RamOf(l)
    BY DirInRam
  <2> QED
    BY <2>1 DEF Room
<1> DEFINE e == Pte("table", a.top, {})
<1>2. e \in Ptes /\ e.kind = "table" /\ e.pa = a.top /\ e.perm = {}
  BY <1>1, PteType DEF Kinds
<1>3. b = Store(a, Dir(l), i, e)
  OBVIOUS
<1> HIDE DEF e
<1>4. /\ b \in Vms(l) /\ b.top = a.top /\ b.panic = a.panic /\ b.mem[Dir(l)][i] = e
      /\ \A q \in RamOf(l), k \in Index : (q # Dir(l) \/ k # i) => b.mem[q][k] = a.mem[q][k]
      /\ \A q \in RamOf(l) \ {Dir(l)} : b.mem[q] = a.mem[q]
  <2>1. PICK d \in RamOf(l) : d = Dir(l)
    BY <1>1
  <2>2. a \in Vms(l) /\ e \in Ptes /\ b = Store(a, d, i, e)
    BY <1>1, <1>2, <1>3, <2>1
  <2>3. /\ b \in Vms(l) /\ b.top = a.top /\ b.panic = a.panic /\ b.mem[d][i] = e
        /\ \A q \in RamOf(l), k \in Index : (q # d \/ k # i) => b.mem[q][k] = a.mem[q][k]
        /\ \A q \in RamOf(l) \ {d} : b.mem[q] = a.mem[q]
    BY <2>2, StoreFacts
  <2> QED
    BY <2>1, <2>3
<1>5. Room(l, b) /\ b.mem[Boot(l)] = a.mem[Boot(l)]
  BY <1>1, <1>4 DEF Room
<1>6. DE(l, b, i) = e /\ \A j \in Index \ {i} : DE(l, b, j) = DE(l, a, j)
  BY <1>1, <1>4 DEF DE
<1>7. b.mem[a.top] = a.mem[a.top]
  BY <1>1, <1>4
<1>8. ASSUME NEW j \in Index, DE(l, a, j).kind = "table"
      PROVE  /\ j # i /\ b.mem[DE(l, a, j).pa] = a.mem[DE(l, a, j).pa] /\ DE(l, a, j).pa # a.top
             /\ DE(l, a, j).pa \in a.top..Dir(l)-1
  <2>0. PICK low \in Int : low = a.top + 1
    BY <1>1
  <2>1. PICK p \in RamOf(l) : p = DE(l, a, j).pa /\ p \in Int /\ p >= low /\ p < Dir(l)
    BY <1>1, <1>8, <2>0, TableAt
  <2>2. p # Dir(l) /\ p # a.top /\ p \in a.top..Dir(l)-1
    BY <1>1, <2>0, <2>1
  <2>3. j # i
    BY <1>8, InvalidType
  <2> QED
    BY <1>4, <2>1, <2>2, <2>3
<1>9. TablesOK(l, b, b.top)
  <2>1. \A j \in Index : DE(l, b, j) = Invalid \/ DE(l, b, j).kind \in {"table", "leaf"}
    BY <1>2, <1>6 DEF TablesOK
  <2>2. a.top \in a.top..Dir(l)-1
    BY <1>1
  <2>3. ASSUME NEW j \in Index, DE(l, b, j).kind = "table"
        PROVE  /\ DE(l, b, j).perm = {} /\ DE(l, b, j).pa \in b.top..Dir(l)-1
               /\ \A k \in Index : \/ b.mem[DE(l, b, j).pa][k] = Invalid
                                   \/ b.mem[DE(l, b, j).pa][k].kind = "leaf"
    <3>1. CASE j = i
      BY <1>2, <1>4, <1>6, <1>7, <2>2, <3>1
    <3>2. CASE j # i
      BY <1>4, <1>6, <1>8, <2>3, <3>2 DEF TablesOK
    <3> QED
      BY <3>1, <3>2
  <2>4. ASSUME NEW j \in Index, NEW k \in Index, DE(l, b, j).kind = "table",
               DE(l, b, k).kind = "table", j # k
        PROVE  DE(l, b, j).pa # DE(l, b, k).pa
    <3>1. CASE j = i
      BY <1>2, <1>6, <1>8, <2>4, <3>1
    <3>2. CASE k = i
      BY <1>2, <1>6, <1>8, <2>4, <3>2
    <3>3. CASE j # i /\ k # i
      BY <1>6, <2>4, <3>3 DEF TablesOK
    <3> QED
      BY <3>1, <3>2, <3>3
  <2> QED
    BY <2>1, <2>3, <2>4 DEF TablesOK
<1>10. \A w \in Pages : View(l, b, w) = View(l, a, w)
  <2> TAKE w \in Pages
  <2>1. w \div T \in Index /\ w % T \in Index
    BY PageIndex
  <2>2. CASE w \div T = i
    BY <1>2, <1>6, <1>7, <2>1, <2>2, InvalidType DEF View
  <2>3. CASE w \div T # i
    BY <1>6, <1>8, <2>1, <2>3 DEF View
  <2> QED
    BY <2>2, <2>3
<1> QED
  BY <1>4, <1>5, <1>6, <1>9, <1>10 DEF e

\* What a mapping function leaves of the rest: the entry i of the directory
\* is in use, at most one page was taken, other pages are as they were.
Beside(l, s, r, i) ==
  /\ Room(l, r) /\ TablesOK(l, r, r.top)
  /\ r.mem[Boot(l)] = s.mem[Boot(l)]
  /\ DE(l, r, i) # Invalid
  /\ \A j \in Index \ {i} : DE(l, r, j) = DE(l, s, j)
  /\ \/ DE(l, s, i) = Invalid /\ r.top = s.top - 1
     \/ r.top = s.top
  /\ \A x : Owned(l, s, x) => Owned(l, r, x)

LEMMA LeafIsUsed ==
  ASSUME NEW l, NEW s, NEW v, View(l, s, v) = Invalid, DE(l, s, v \div T).kind = "leaf",
         DE(l, s, v \div T) \in Ptes, v % T \in Int
  PROVE  FALSE
<1>1. View(l, s, v).kind = "leaf"
  BY DEF View, Ptes
<1> QED
  BY <1>1, InvalidType

\* The case in which the page table exists.
LEMMA Map4kOld ==
  ASSUME NEW l \in Layouts, NEW s, Room(l, s), TablesOK(l, s, s.top),
         NEW v \in Pages, View(l, s, v) = Invalid, DE(l, s, v \div T).kind = "table",
         NEW pa \in Int, NEW perm \in SUBSET USER_RWX, NEW r,
         r = Map4K(l, s, Dir(l), v, pa, perm)
  PROVE  /\ Beside(l, s, r, v \div T)
         /\ View(l, r, v) = Pte("leaf", pa, perm)
         /\ \A w \in Pages \ {v} : View(l, r, w) = View(l, s, w)
<1>1. v \in Nat /\ v \div T \in Index /\ v % T \in Index
  BY PageIndex
<1> DEFINE e == Pte("leaf", pa, perm)
<1>2. e \in Ptes /\ e.kind = "leaf"
  BY PteType DEF Kinds
<1>3. s.mem[DE(l, s, v \div T).pa][v % T] = Invalid
  BY DEF View
<1>4. r = Store(s, DE(l, s, v \div T).pa, v % T, e)
  <2>1. s.panic = FALSE /\ s.mem[Dir(l)][v \div T].kind = "table"
    BY DEF Room, DE
  <2>2. r = SetLeaf(s, s.mem[Dir(l)][v \div T].pa, v, pa, perm)
    BY <2>1 DEF Map4K
  <2> QED
    BY <1>3, <2>2, InvalidType DEF SetLeaf, Store, DE
<1> HIDE DEF e
<1>5. /\ Room(l, r) /\ r.top = s.top /\ TablesOK(l, r, r.top)
      /\ r.mem[Boot(l)] = s.mem[Boot(l)]
      /\ \A i \in Index : DE(l, r, i) = DE(l, s, i)
      /\ View(l, r, v) = e
      /\ \A w \in Pages \ {v} : View(l, r, w) = View(l, s, w)
  BY <1>2, <1>4, LeafEffect
<1>6. DE(l, s, v \div T) # Invalid
  BY InvalidType
<1>7. \A x : Owned(l, s, x) => Owned(l, r, x)
  BY <1>5 DEF Owned
<1> QED
  BY <1>1, <1>5, <1>6, <1>7 DEF Beside, e

\* The case in which it is allocated.
LEMMA Map4kNew ==
  ASSUME NEW l \in Layouts, NEW s, Room(l, s), TablesOK(l, s, s.top),
         NEW v \in Pages, DE(l, s, v \div T) = Invalid, s.top # Low(l),
         NEW pa \in Int, NEW perm \in SUBSET USER_RWX, NEW r,
         r = Map4K(l, s, Dir(l), v, pa, perm)
  PROVE  /\ Beside(l, s, r, v \div T)
         /\ View(l, r, v) = Pte("leaf", pa, perm)
         /\ \A w \in Pages \ {v} : View(l, r, w) = View(l, s, w)
<1>1. v \in Nat /\ v \div T \in Index /\ v % T \in Index
  BY PageIndex
<1> DEFINE e == Pte("leaf", pa, perm)
<1>2. e \in Ptes /\ e.kind = "leaf"
  BY PteType DEF Kinds
<1>3. PICK a : a = AllocZ(l, s)
  OBVIOUS
<1>4. PICK i \in Index : i = v \div T
  BY <1>1
<1>5. PICK b : b = Store(a, Dir(l), i, Pte("table", a.top, {}))
  OBVIOUS
<1>6. /\ Room(l, a) /\ a.top = s.top - 1 /\ a.top \in RamOf(l) /\ a.top \in Int /\ a.top < Dir(l)
      /\ TablesOK(l, a, s.top)
      /\ a.mem[a.top] = Filled(Invalid)
      /\ \A q \in RamOf(l) \ {a.top} : a.mem[q] = s.mem[q]
      /\ \A j \in Index : DE(l, a, j) = DE(l, s, j)
      /\ \A w \in Pages : View(l, a, w) = View(l, s, w)
      /\ \A x : Owned(l, s, x) => Owned(l, a, x) /\ x # a.top
  BY <1>3, AllocEffect
<1>7. /\ TablesOK(l, a, a.top + 1) /\ (\A k \in Index : a.mem[a.top][k] = Invalid)
      /\ DE(l, a, i) = Invalid
  <2>1. s.top = a.top + 1
    BY <1>6, DirInRam
  <2>2. \A k \in Index : Filled(Invalid)[k] = Invalid
    BY DEF Filled
  <2> QED
    BY <1>4, <1>6, <2>1, <2>2
<1>8. /\ Room(l, b) /\ b.top = a.top /\ TablesOK(l, b, b.top)
      /\ b.mem[Boot(l)] = a.mem[Boot(l)]
      /\ DE(l, b, i) = Pte("table", a.top, {})
      /\ \A j \in Index \ {i} : DE(l, b, j) = DE(l, a, j)
      /\ \A w \in Pages : View(l, b, w) = View(l, a, w)
  BY <1>5, <1>6, <1>7, TableEffect
<1>9. DE(l, b, i).kind = "table" /\ DE(l, b, i).pa = a.top
  BY <1>6, <1>8, PteType DEF Kinds
<1>10. View(l, s, v) = Invalid
  BY InvalidType DEF View
<1>11. View(l, b, v) = Invalid
  BY <1>6, <1>8, <1>10
<1>12. b.mem[a.top][v % T] = Invalid
  BY <1>4, <1>9, <1>11 DEF View
<1>13. r = Store(b, DE(l, b, v \div T).pa, v % T, e)
  <2>1. s.panic = FALSE /\ s.mem[Dir(l)][v \div T].kind = "invalid"
    BY InvalidType DEF Room, DE
  <2>2. a.panic = FALSE
    BY <1>6 DEF Room
  <2>3. b = [a EXCEPT !.mem[Dir(l)][v \div T] = Pte("table", a.top, {})]
    BY <1>4, <1>5 DEF Store
  <2>4. r = SetLeaf(b, a.top, v, pa, perm)
    BY <1>3, <2>1, <2>2, <2>3 DEF Map4K
  <2> QED
    BY <1>4, <1>9, <1>12, <2>4, InvalidType DEF SetLeaf, Store
<1> HIDE DEF e
<1>14. /\ Room(l, r) /\ r.top = b.top /\ TablesOK(l, r, r.top)
       /\ r.mem[Boot(l)] = b.mem[Boot(l)]
       /\ \A j \in Index : DE(l, r, j) = DE(l, b, j)
       /\ View(l, r, v) = e
       /\ \A w \in Pages \ {v} : View(l, r, w) = View(l, b, w)
  BY <1>2, <1>4, <1>8, <1>9, <1>11, <1>13, LeafEffect
<1>15. r.mem[Boot(l)] = s.mem[Boot(l)]
  <2>1. Boot(l) \in RamOf(l) \ {a.top}
    BY <1>6, LayoutFacts
  <2> QED
    BY <1>6, <1>8, <1>14, <2>1
<1>16. DE(l, r, v \div T) # Invalid
  BY <1>4, <1>9, <1>14, InvalidType
<1>17. \A x : Owned(l, s, x) => Owned(l, r, x)
  <2> TAKE x
  <2> HAVE Owned(l, s, x)
  <2>1. Owned(l, a, x) /\ x # a.top
    BY <1>6
  <2>2. x \in r.top..Dir(l)-1
    BY <1>8, <1>14, <2>1 DEF Owned
  <2>3. ASSUME NEW j \in Index, DE(l, r, j).kind = "table" PROVE DE(l, r, j).pa # x
    BY <1>8, <1>9, <1>14, <2>1, <2>3 DEF Owned
  <2> QED
    BY <2>2, <2>3 DEF Owned
<1> QED
  BY <1>4, <1>6, <1>8, <1>14, <1>15, <1>16, <1>17 DEF Beside, e

\* vm_map_4k at a page where nothing is mapped.
LEMMA Map4k ==
  ASSUME NEW l \in Layouts, NEW s, Room(l, s), TablesOK(l, s, s.top),
         NEW v \in Pages, View(l, s, v) = Invalid,
         NEW pa \in Int, NEW perm \in SUBSET USER_RWX, NEW r,
         r = Map4K(l, s, Dir(l), v, pa, perm)
  PROVE  \/ /\ DE(l, s, v \div T) = Invalid /\ s.top = Low(l)
            /\ r = [s EXCEPT !.panic = TRUE]
         \/ /\ Beside(l, s, r, v \div T)
            /\ View(l, r, v) = Pte("leaf", pa, perm)
            /\ \A w \in Pages \ {v} : View(l, r, w) = View(l, s, w)
<1>1. v \in Nat /\ v \div T \in Index /\ v % T \in Index
  BY PageIndex
<1>2. DE(l, s, v \div T) \in Ptes
  BY <1>1, DirInRam DEF DE, Room, Vms
<1>3. DE(l, s, v \div T).kind # "leaf"
  BY <1>1, <1>2, LeafIsUsed DEF Index
<1>4. DE(l, s, v \div T) = Invalid \/ DE(l, s, v \div T).kind = "table"
  BY <1>1, <1>3 DEF TablesOK
<1>5. CASE DE(l, s, v \div T).kind = "table"
  BY <1>5, Map4kOld
<1>6. CASE DE(l, s, v \div T) = Invalid /\ s.top # Low(l)
  BY <1>6, Map4kNew
<1>7. CASE DE(l, s, v \div T) = Invalid /\ s.top = Low(l)
  <2>1. s.panic = FALSE /\ s.mem[Dir(l)][v \div T].kind = "invalid"
    BY <1>7, InvalidType DEF Room, DE
  <2>2. AllocZ(l, s) = [s EXCEPT !.panic = TRUE]
    BY <1>7 DEF AllocZ, Low
  <2>3. [s EXCEPT !.panic = TRUE].panic = TRUE
    BY DEF Room, Vms
  <2> QED
    BY <1>7, <2>1, <2>2, <2>3 DEF Map4K
<1> QED
  BY <1>4, <1>5, <1>6, <1>7

\* vm_map_4m at an unused directory entry.
LEMMA Map4m ==
  ASSUME NEW l \in Layouts, NEW s, Room(l, s), TablesOK(l, s, s.top),
         NEW v \in Pages, v % T = 0, DE(l, s, v \div T) = Invalid,
         NEW pa \in Int, pa % T = 0, NEW perm \in SUBSET USER_RWX, NEW r,
         r = vm_map_4m(s, Dir(l), v, pa, perm)
  PROVE  /\ Beside(l, s, r, v \div T)
         /\ \A w \in Pages : w \div T = v \div T =>
              View(l, r, w) = Pte("leaf", pa + (w % T), perm)
         /\ \A w \in Pages : w \div T # v \div T => View(l, r, w) = View(l, s, w)
<1>1. PICK i \in Index : i = v \div T
  BY PageIndex
<1> DEFINE e == Pte("leaf", pa, perm)
<1>2. e \in Ptes /\ e.kind = "leaf" /\ e.pa = pa /\ e.perm = perm
  BY PteType DEF Kinds
<1>3. PICK d \in RamOf(l) : d = Dir(l)
  BY DirInRam
<1>4. r = Store(s, d, i, e)
  <2>1. s.mem[Dir(l)][v \div T].kind = "invalid"
    BY InvalidType DEF DE
  <2> QED
    BY <1>1, <1>3, <2>1 DEF vm_map_4m, Store
<1>5. \A n \in Int : [e EXCEPT !.pa = @ + n] = Pte("leaf", pa + n, perm)
  BY DEF Pte
<1> HIDE DEF e
<1>6. s \in Vms(l) /\ Boot(l) \in RamOf(l) /\ Boot(l) # d /\ Dir(l) \in Int
  BY <1>3, DirInRam DEF Room
<1>7. /\ r \in Vms(l) /\ r.top = s.top /\ r.panic = s.panic /\ r.mem[d][i] = e
      /\ \A q \in RamOf(l), k \in Index : (q # d \/ k # i) => r.mem[q][k] = s.mem[q][k]
      /\ \A q \in RamOf(l) \ {d} : r.mem[q] = s.mem[q]
  BY <1>2, <1>4, <1>6, StoreFacts
<1>8. Room(l, r) /\ r.mem[Boot(l)] = s.mem[Boot(l)]
  BY <1>6, <1>7 DEF Room
<1>9. DE(l, r, i) = e /\ \A j \in Index \ {i} : DE(l, r, j) = DE(l, s, j)
  BY <1>3, <1>7 DEF DE
<1>10. DE(l, r, i) # Invalid /\ DE(l, r, i).kind # "table"
  BY <1>2, <1>9, InvalidType
<1>11. ASSUME NEW j \in Index, DE(l, r, j).kind = "table"
       PROVE  /\ j # i /\ DE(l, r, j) = DE(l, s, j)
              /\ r.mem[DE(l, s, j).pa] = s.mem[DE(l, s, j).pa]
  <2>1. j # i /\ DE(l, r, j) = DE(l, s, j)
    BY <1>9, <1>10, <1>11
  <2>2. PICK p \in RamOf(l) : p = DE(l, s, j).pa /\ p \in Int /\ p >= s.top /\ p < Dir(l)
    BY <1>11, <2>1, TableAt, DirInRam
  <2>3. p # d
    BY <1>3, <1>6, <2>2
  <2> QED
    BY <1>7, <2>1, <2>2, <2>3
<1>12. TablesOK(l, r, r.top)
  <2>1. \A j \in Index : DE(l, r, j) = Invalid \/ DE(l, r, j).kind \in {"table", "leaf"}
    BY <1>2, <1>9 DEF TablesOK
  <2>2. ASSUME NEW j \in Index, DE(l, r, j).kind = "table"
        PROVE  /\ DE(l, r, j).perm = {} /\ DE(l, r, j).pa \in r.top..Dir(l)-1
               /\ \A k \in Index : \/ r.mem[DE(l, r, j).pa][k] = Invalid
                                   \/ r.mem[DE(l, r, j).pa][k].kind = "leaf"
    BY <1>7, <1>11, <2>2 DEF TablesOK
  <2>3. ASSUME NEW j \in Index, NEW k \in Index, DE(l, r, j).kind = "table",
               DE(l, r, k).kind = "table", j # k
        PROVE  DE(l, r, j).pa # DE(l, r, k).pa
    BY <1>11, <2>3 DEF TablesOK
  <2> QED
    BY <2>1, <2>2, <2>3 DEF TablesOK
<1>13. \A x : Owned(l, s, x) => Owned(l, r, x)
  BY <1>7, <1>11 DEF Owned
<1>14. ASSUME NEW w \in Pages, w \div T = v \div T
       PROVE  View(l, r, w) = Pte("leaf", pa + (w % T), perm)
  <2>1. w % T \in Int
    BY PageIndex DEF Index
  <2> QED
    BY <1>1, <1>2, <1>5, <1>9, <1>14, <2>1 DEF View
<1>15. ASSUME NEW w \in Pages, w \div T # v \div T PROVE View(l, r, w) = View(l, s, w)
  <2>1. w \div T \in Index
    BY PageIndex
  <2>2. DE(l, r, w \div T) = DE(l, s, w \div T)
    BY <1>1, <1>9, <1>15, <2>1
  <2> QED
    BY <1>11, <2>1, <2>2 DEF View
<1> QED
  BY <1>1, <1>7, <1>8, <1>9, <1>10, <1>12, <1>13, <1>14, <1>15 DEF Beside

\* Either way the directory stays tight.
LEMMA TightKept ==
  ASSUME NEW l, NEW s, Tight(l, s), NEW r, NEW v \in Pages, Beside(l, s, r, v \div T),
         View(l, r, v) # Invalid,
         \A w \in Pages : w \div T # v \div T => View(l, r, w) = View(l, s, w)
  PROVE  Tight(l, r)
<1> SUFFICES ASSUME NEW i \in Index, DE(l, r, i) # Invalid
             PROVE  \E w \in Pages : w \div T = i /\ View(l, r, w) # Invalid
  BY DEF Tight
<1>1. CASE i = v \div T
  BY <1>1
<1>2. CASE i # v \div T
  <2>1. DE(l, s, i) # Invalid
    BY <1>2 DEF Beside
  <2>2. PICK w \in Pages : w \div T = i /\ View(l, s, w) # Invalid
    BY <2>1 DEF Tight
  <2> QED
    BY <1>2, <2>2
<1> QED
  BY <1>1, <1>2

\* panic() leaves memory alone.
LEMMA PanicView ==
  ASSUME NEW l, NEW s \in Vms(l), NEW r, r = [s EXCEPT !.panic = TRUE]
  PROVE  /\ r.mem = s.mem /\ r.top = s.top /\ r.panic = TRUE /\ r \in Vms(l)
         /\ \A v \in Pages : View(l, r, v) = View(l, s, v)
<1>1. r.mem = s.mem /\ r.top = s.top /\ r.panic = TRUE /\ r \in Vms(l)
  BY DEF Vms
<1> QED
  BY <1>1 DEF View, DE

-----------------------------------------------------------------------------
(* The address space, as sets of virtual pages: kernel, MMIO, the user's   *)
(* own pages and the framebuffer.                                          *)

KRights(l, o) ==
  IF o < l.rodata THEN KERNEL_RX ELSE IF o < l.data THEN KERNEL_RO ELSE KERNEL_RW

KernelAt(l, s, K) ==
  \A v \in K : View(l, s, v) = Pte("leaf", kva_to_pa(v), KRights(l, v - KvaBase))

MmioAt(l, s, M) == \A v \in M : View(l, s, v) = Pte("leaf", v, KERNEL_RW)

FbAt(l, s, F) ==
  \A v \in F : View(l, s, v) = Pte("leaf", KpaBase + l.fb + (v - FbVa), USER_RW)

\* Each of the user's pages has a frame of its own.
UserAt(l, s, U) ==
  /\ \A v \in U : "U" \in View(l, s, v).perm /\ Owned(l, s, View(l, s, v).pa)
  /\ \A v, w \in U : v # w => View(l, s, v).pa # View(l, s, w).pa

\* Pages outside W are not mapped.
Space(l, s, W) ==
  /\ Room(l, s) /\ TablesOK(l, s, s.top) /\ Tight(l, s)
  /\ W \subseteq Pages
  /\ \A v \in Pages \ W : View(l, s, v) = Invalid

Mapped(l, s, K, M, U, F) ==
  /\ Space(l, s, K \cup M \cup U \cup F)
  /\ KernelAt(l, s, K) /\ MmioAt(l, s, M) /\ UserAt(l, s, U) /\ FbAt(l, s, F)

\* Pages taken from the pool are at most n, or n + 1 when entry i is in use.
Count(l, s, n, i) ==
  Boot(l) - s.top <= n + (IF DE(l, s, i) = Invalid THEN 0 ELSE 1)

Keeps(l, s, r, W) ==
  /\ \A v \in W : View(l, r, v) = View(l, s, v)
  /\ \A x : Owned(l, s, x) => Owned(l, r, x)

LEMMA AtKept ==
  ASSUME NEW l, NEW s, NEW r, NEW K, NEW M, NEW U, NEW F,
         Keeps(l, s, r, K \cup M \cup U \cup F),
         KernelAt(l, s, K), MmioAt(l, s, M), UserAt(l, s, U), FbAt(l, s, F)
  PROVE  KernelAt(l, r, K) /\ MmioAt(l, r, M) /\ UserAt(l, r, U) /\ FbAt(l, r, F)
<1>1. \A v \in K \cup M \cup U \cup F : View(l, r, v) = View(l, s, v)
  BY DEF Keeps
<1>2. KernelAt(l, r, K)
  BY <1>1 DEF KernelAt
<1>3. MmioAt(l, r, M)
  BY <1>1 DEF MmioAt
<1>4. FbAt(l, r, F)
  BY <1>1 DEF FbAt
<1>5. UserAt(l, r, U)
  BY <1>1 DEF UserAt, Keeps
<1> QED
  BY <1>2, <1>3, <1>4, <1>5

\* What panic() finds: the pool is empty after at most n pages.
Stopped(l, s, r, n) ==
  r = [s EXCEPT !.panic = TRUE] /\ s \in Vms(l) /\ Boot(l) - Low(l) <= n

\* Entry e is what v is mapped to now, and nothing else has changed.
Entered(l, s, r, W, v, e, n) ==
  /\ Space(l, r, W \cup {v}) /\ Keeps(l, s, r, W)
  /\ View(l, r, v) = e
  /\ Count(l, r, n, v \div T) /\ Boot(l) - r.top <= n + 1
  /\ r.mem[Boot(l)] = s.mem[Boot(l)]

LEMMA MapOne ==
  ASSUME NEW l \in Layouts, NEW s, NEW W, Space(l, s, W),
         NEW v \in Pages, v \notin W,
         NEW n \in Int, Count(l, s, n, v \div T),
         NEW pa \in Int, NEW perm \in SUBSET USER_RWX, NEW r,
         r = Map4K(l, s, Dir(l), v, pa, perm)
  PROVE  \/ Stopped(l, s, r, n)
         \/ Entered(l, s, r, W, v, Pte("leaf", pa, perm), n)
<1>1. /\ Room(l, s) /\ TablesOK(l, s, s.top) /\ Tight(l, s) /\ W \subseteq Pages
      /\ View(l, s, v) = Invalid /\ (\A w \in Pages \ W : View(l, s, w) = Invalid)
  BY DEF Space
<1>2. v \div T \in Index
  BY PageIndex
<1>3. s.top \in Int /\ Boot(l) \in Int /\ Low(l) \in Int
  BY <1>1, DirInRam, LayoutFacts
<1>4. CASE /\ DE(l, s, v \div T) = Invalid /\ s.top = Low(l)
           /\ r = [s EXCEPT !.panic = TRUE]
  <2>1. Boot(l) - Low(l) <= n + 0
    BY <1>4 DEF Count
  <2> QED
    BY <1>1, <1>3, <1>4, <2>1 DEF Stopped, Room
<1>5. CASE /\ Beside(l, s, r, v \div T)
           /\ View(l, r, v) = Pte("leaf", pa, perm)
           /\ \A w \in Pages \ {v} : View(l, r, w) = View(l, s, w)
  <2>1. View(l, r, v) # Invalid
    BY <1>5, PteType, InvalidType DEF Kinds
  <2>2. Tight(l, r)
    BY <1>1, <1>5, <2>1, TightKept
  <2>3. Space(l, r, W \cup {v})
    BY <1>1, <1>5, <2>2 DEF Space, Beside
  <2>4. Keeps(l, s, r, W)
    BY <1>1, <1>5 DEF Keeps, Beside
  <2>5. Boot(l) - r.top <= n + 1
    <3>1. CASE DE(l, s, v \div T) = Invalid /\ r.top = s.top - 1
      <4>1. Boot(l) - s.top <= n + 0
        BY <3>1 DEF Count
      <4> QED
        BY <1>3, <3>1, <4>1
    <3>2. CASE r.top = s.top
      <4>1. Boot(l) - s.top <= n + 0 \/ Boot(l) - s.top <= n + 1
        BY DEF Count
      <4> QED
        BY <1>3, <3>2, <4>1
    <3> QED
      BY <1>5, <3>1, <3>2 DEF Beside
  <2>6. DE(l, r, v \div T) # Invalid
    BY <1>5 DEF Beside
  <2>7. Count(l, r, n, v \div T)
    BY <2>5, <2>6 DEF Count
  <2> QED
    BY <1>5, <2>3, <2>4, <2>5, <2>7 DEF Beside, Entered
<1> QED
  BY <1>1, <1>4, <1>5, Map4k

\* The whole megapage of v becomes a leaf.
Enlarged(l, s, r, W, v, pa, perm) ==
  /\ Space(l, r, W \cup {w \in Pages : w \div T = v \div T}) /\ Keeps(l, s, r, W)
  /\ \A w \in Pages : w \div T = v \div T =>
       View(l, r, w) = Pte("leaf", pa + (w % T), perm)
  /\ r.top = s.top /\ r.panic = FALSE
  /\ r.mem[Boot(l)] = s.mem[Boot(l)]

LEMMA MapBig ==
  ASSUME NEW l \in Layouts, NEW s, NEW W, Space(l, s, W),
         NEW v \in Pages, v % T = 0, \A w \in W : w \div T # v \div T,
         NEW pa \in Int, pa % T = 0, NEW perm \in SUBSET USER_RWX, NEW r,
         r = vm_map_4m(s, Dir(l), v, pa, perm)
  PROVE  Enlarged(l, s, r, W, v, pa, perm)
<1>1. /\ Room(l, s) /\ TablesOK(l, s, s.top) /\ Tight(l, s) /\ W \subseteq Pages
      /\ \A w \in Pages \ W : View(l, s, w) = Invalid
  BY DEF Space
<1>2. v \div T \in Index
  BY PageIndex
<1>3. DE(l, s, v \div T) = Invalid
  BY <1>1, <1>2 DEF Tight
<1>4. /\ Beside(l, s, r, v \div T)
      /\ \A w \in Pages : w \div T = v \div T =>
           View(l, r, w) = Pte("leaf", pa + (w % T), perm)
      /\ \A w \in Pages : w \div T # v \div T => View(l, r, w) = View(l, s, w)
  BY <1>1, <1>3, Map4m
<1>5. View(l, r, v) # Invalid
  <2>1. pa + (v % T) \in Int
    OBVIOUS
  <2>2. View(l, r, v).kind = "leaf"
    BY <1>4, <2>1, PteType DEF Kinds
  <2> QED
    BY <2>2, InvalidType
<1>6. Tight(l, r)
  BY <1>1, <1>4, <1>5, TightKept
<1>7. Space(l, r, W \cup {w \in Pages : w \div T = v \div T})
  BY <1>1, <1>4, <1>6 DEF Space, Beside
<1>8. Keeps(l, s, r, W)
  BY <1>1, <1>4 DEF Keeps, Beside
<1>9. r.top = s.top
  <2>1. r = Store(s, Dir(l), v \div T, Pte("leaf", pa, perm))
    BY <1>3, InvalidType DEF vm_map_4m, Store, DE
  <2> QED
    BY <1>1, <2>1 DEF Room, Vms, Store
<1> QED
  BY <1>4, <1>7, <1>8, <1>9 DEF Beside, Room, Enlarged

\* The pool is empty, and what was mapped at W still is.
Halt(l, s, r, W, n) ==
  /\ r.panic = TRUE /\ (\A v \in W : View(l, r, v) = View(l, s, v))
  /\ r.mem[Boot(l)] = s.mem[Boot(l)] /\ Boot(l) - Low(l) <= n

LEMMA StoppedHalts ==
  ASSUME NEW l, NEW s, NEW r, NEW n, NEW W \in SUBSET Pages, Stopped(l, s, r, n)
  PROVE  Halt(l, s, r, W, n)
<1>1. s \in Vms(l) /\ r = [s EXCEPT !.panic = TRUE] /\ Boot(l) - Low(l) <= n
  BY DEF Stopped
<1>2. r.mem = s.mem /\ r.panic = TRUE /\ \A v \in Pages : View(l, r, v) = View(l, s, v)
  BY <1>1, PanicView
<1> QED
  BY <1>1, <1>2 DEF Halt

\* The page r.top was taken from the pool, and nothing else has changed.
Taken(l, s, r, W, n) ==
  /\ Space(l, r, W) /\ Keeps(l, s, r, W) /\ r.top = s.top - 1 /\ r.top \in RamOf(l)
  /\ r.top \in Int /\ r.top < Dir(l) /\ Boot(l) - r.top <= n + 1
  /\ TablesOK(l, r, s.top)
  /\ r.mem[r.top] = Filled(Invalid)
  /\ \A q \in RamOf(l) \ {r.top} : r.mem[q] = s.mem[q]
  /\ \A i \in Index : DE(l, r, i) = DE(l, s, i)
  /\ Owned(l, r, r.top) /\ \A x : Owned(l, s, x) => x # r.top

LEMMA NewPage ==
  ASSUME NEW l \in Layouts, NEW s, NEW W, Space(l, s, W),
         NEW n \in Int, Boot(l) - s.top <= n, NEW r, r = AllocZ(l, s)
  PROVE  \/ Stopped(l, s, r, n)
         \/ Taken(l, s, r, W, n)
<1>1. /\ Room(l, s) /\ TablesOK(l, s, s.top) /\ Tight(l, s) /\ W \subseteq Pages
      /\ \A w \in Pages \ W : View(l, s, w) = Invalid
  BY DEF Space
<1>2. s.top \in Int /\ Boot(l) \in Int /\ Low(l) \in Int
  BY <1>1, DirInRam, LayoutFacts
<1>3. CASE s.top = Low(l)
  <2>1. r = [s EXCEPT !.panic = TRUE]
    BY <1>3 DEF AllocZ, Low
  <2> QED
    BY <1>1, <1>3, <2>1 DEF Stopped, Room
<1>4. CASE s.top # Low(l)
  <2>1. /\ Room(l, r) /\ r.top = s.top - 1 /\ r.top \in RamOf(l) /\ r.top \in Int /\ r.top < Dir(l)
        /\ TablesOK(l, r, s.top) /\ TablesOK(l, r, r.top)
        /\ r.mem[r.top] = Filled(Invalid)
        /\ \A q \in RamOf(l) \ {r.top} : r.mem[q] = s.mem[q]
        /\ \A i \in Index : DE(l, r, i) = DE(l, s, i)
        /\ \A v \in Pages : View(l, r, v) = View(l, s, v)
        /\ Owned(l, r, r.top)
        /\ \A x : Owned(l, s, x) => Owned(l, r, x) /\ x # r.top
    BY <1>1, <1>4, AllocEffect
  <2>2. Tight(l, r)
    BY <1>1, <2>1 DEF Tight
  <2>3. Space(l, r, W) /\ Keeps(l, s, r, W)
    BY <1>1, <2>1, <2>2 DEF Space, Keeps
  <2>4. Boot(l) - r.top <= n + 1
    BY <1>2, <2>1
  <2> QED
    BY <2>1, <2>3, <2>4 DEF Taken
<1> QED
  BY <1>3, <1>4

\* Page v is mapped to the frame f that nothing else has.
Granted(l, s, r, W, v, f, perm, n) ==
  /\ Space(l, r, W \cup {v}) /\ Keeps(l, s, r, W)
  /\ View(l, r, v) = Pte("leaf", f, perm) /\ f \in Int
  /\ Owned(l, r, f) /\ (\A x : Owned(l, s, x) => x # f)
  /\ Count(l, r, n + 1, v \div T) /\ Boot(l) - r.top <= n + 2
  /\ r.mem[Boot(l)] = s.mem[Boot(l)]

\* vm_map_4k of a page just allocated.
LEMMA MapNewEffect ==
  ASSUME NEW l \in Layouts, NEW s, NEW W, Space(l, s, W),
         NEW v \in Pages, v \notin W, NEW perm \in SUBSET USER_RWX,
         NEW n \in Int, Count(l, s, n, v \div T), NEW a, a = AllocZ(l, s),
         NEW r, r = Map4K(l, a, Dir(l), v, a.top, perm)
  PROVE  \/ Halt(l, s, r, W, n + 1)
         \/ Granted(l, s, r, W, v, a.top, perm, n)
<1>1. Boot(l) - s.top <= n + 1 /\ W \subseteq Pages /\ s.top \in Int /\ Boot(l) \in Int
  <2>1. s.top \in Int /\ Boot(l) \in Int
    BY DirInRam, LayoutFacts DEF Space
  <2>2. Boot(l) - s.top <= n + 0 \/ Boot(l) - s.top <= n + 1
    BY DEF Count
  <2> QED
    BY <2>1, <2>2 DEF Space
<1>2. CASE Stopped(l, s, a, n + 1)
  <2>1. a.panic = TRUE
    BY <1>2, PanicView DEF Stopped
  <2>2. r = a
    BY <2>1 DEF Map4K
  <2> QED
    BY <1>1, <1>2, <2>2, StoppedHalts
<1>3. CASE ~Stopped(l, s, a, n + 1)
  <2>1. PICK m \in Int : m = n + 1
    OBVIOUS
  <2>2. /\ Space(l, a, W) /\ Keeps(l, s, a, W) /\ a.top = s.top - 1 /\ a.top \in RamOf(l)
        /\ a.top \in Int /\ a.top < Dir(l) /\ Boot(l) - a.top <= m + 1
        /\ \A q \in RamOf(l) \ {a.top} : a.mem[q] = s.mem[q]
        /\ \A i \in Index : DE(l, a, i) = DE(l, s, i)
        /\ Owned(l, a, a.top) /\ \A x : Owned(l, s, x) => x # a.top
    <3>1. ~Stopped(l, s, a, m) /\ Boot(l) - s.top <= m
      BY <1>1, <1>3, <2>1
    <3>2. Stopped(l, s, a, m) \/ Taken(l, s, a, W, m)
      BY <3>1, NewPage
    <3> QED
      BY <3>1, <3>2 DEF Taken
  <2>3. a.mem[Boot(l)] = s.mem[Boot(l)]
    BY <2>2, LayoutFacts
  <2>4. Count(l, a, m, v \div T)
    <3>1. v \div T \in Index
      BY PageIndex
    <3>2. CASE DE(l, s, v \div T) = Invalid
      <4>1. Boot(l) - s.top <= n + 0
        BY <3>2 DEF Count
      <4>2. Boot(l) - a.top <= m + 0
        BY <1>1, <2>1, <2>2, <4>1
      <4> QED
        BY <2>2, <3>1, <3>2, <4>2 DEF Count
    <3>3. CASE DE(l, s, v \div T) # Invalid
      BY <2>2, <3>1, <3>3 DEF Count
    <3> QED
      BY <3>2, <3>3
  <2>5. CASE Stopped(l, a, r, m)
    <3>1. Halt(l, a, r, W, m)
      BY <1>1, <2>5, StoppedHalts
    <3> QED
      BY <2>1, <2>2, <2>3, <3>1 DEF Halt, Keeps
  <2>6. CASE ~Stopped(l, a, r, m)
    <3>1. /\ Space(l, r, W \cup {v}) /\ Keeps(l, a, r, W)
          /\ View(l, r, v) = Pte("leaf", a.top, perm)
          /\ Count(l, r, m, v \div T) /\ Boot(l) - r.top <= m + 1
          /\ r.mem[Boot(l)] = a.mem[Boot(l)]
      <4>1. PICK x \in Int : x = a.top
        BY <2>2
      <4>2. r = Map4K(l, a, Dir(l), v, x, perm) /\ Space(l, a, W)
        BY <2>2, <4>1
      <4>3. Stopped(l, a, r, m) \/ Entered(l, a, r, W, v, Pte("leaf", x, perm), m)
        BY <2>4, <4>2, MapOne
      <4> QED
        BY <2>6, <4>1, <4>3 DEF Entered
    <3>2. Keeps(l, s, r, W) /\ Owned(l, r, a.top)
      BY <2>2, <3>1 DEF Keeps
    <3>3. Boot(l) - r.top <= n + 2
      BY <2>1, <3>1
    <3> QED
      BY <2>1, <2>2, <2>3, <3>1, <3>2, <3>3 DEF Granted
  <2> QED
    BY <2>5, <2>6
<1> QED
  BY <1>2, <1>3

-----------------------------------------------------------------------------
(* The regions of the address space.                                       *)

KAll(l) == KvaBase + l.text .. KvaBase + l.memTop - 1
MAll    == MmioBase .. MmioBase + T - 1
UAll    == (UserStart .. UserStart + UserPages - 1) \cup {UserStack - 1}
FAll    == FbVa .. FbVa + FbPages - 1

\* The kernel's pages before v.
Upto(l, v) == KvaBase + l.text .. v - 1

LEMMA Apart ==
  ASSUME NEW b \in Nat, b % T = 0, NEW c \in Nat, c % T = 0, b < c PROVE b + T <= c
<1>1. PICK o \in 0..T-1 : o = T - 1
  BY TableSize
<1>2. o \in Nat /\ o \div T = 0
  BY <1>1, Small
<1>3. b \div T < c \div T
  BY Below
<1>4. (b + o) \div T = (b \div T) + (o \div T)
  BY <1>2, Shift
<1>5. PICK w \in Nat : w = b + o
  BY <1>2
<1>6. w \div T < c \div T
  BY <1>2, <1>3, <1>4, <1>5, DivMod
<1>7. w < c
  BY <1>6, Below
<1> QED
  BY <1>1, <1>5, <1>7, TableSize

LEMMA EndFacts ==
  ASSUME NEW l \in Layouts
  PROVE  /\ End(l) \in Nat /\ End(l) % T = 0 /\ End(l) \div T \in Nat
         /\ l.imageEnd <= End(l) /\ End(l) <= l.memTop
<1>1. PICK w \in Nat : w = l.imageEnd + T - 1
  BY LayoutFacts, TableSize
<1>2. PICK q \in Nat : q = w \div T
  BY DivMod
<1>3. PICK r \in 0..T-1 : r = w % T
  BY DivMod
<1>4. w = T * q + r
  BY <1>2, <1>3, DivMod
<1>5. PICK e \in Nat : e = T * q
  BY TableSize
<1>6. End(l) = e
  BY <1>1, <1>2, <1>5, TableSize, LayoutFacts DEF End
<1>7. e \div T = q /\ e % T = 0
  <2>1. 0 \in 0..T-1
    BY TableSize
  <2>2. (T * q + 0) \div T = q /\ (T * q + 0) % T = 0
    BY <2>1, DivUnique
  <2> QED
    BY <1>5, <2>2
<1>8. l.imageEnd <= e
  BY <1>1, <1>3, <1>4, <1>5, TableSize, LayoutFacts
<1>9. e <= l.memTop
  <2>1. PICK m \in Nat : m = l.memTop
    BY LayoutFacts
  <2>2. m % T = 0 /\ l.imageEnd <= m
    BY <2>1, LayoutFacts
  <2>3. CASE m < e
    <3>1. m + T <= e
      BY <1>7, <2>2, <2>3, Apart
    <3>2. e <= w
      BY <1>3, <1>4, <1>5
    <3> QED
      BY <1>1, <2>2, <3>1, <3>2, TableSize, LayoutFacts
  <2> QED
    BY <2>1, <2>3
<1> QED
  BY <1>6, <1>7, <1>8, <1>9

LEMMA Regions ==
  ASSUME NEW l \in Layouts
  PROVE  /\ \A v \in KAll(l) : v \in Pages /\ v \in Nat /\ v >= KvaBase /\ v < MmioBase
         /\ \A v \in MAll : v \in Pages /\ v \in Nat /\ v >= MmioBase
         /\ \A v \in UAll : v \in Pages /\ v \in Nat /\ v < KvaBase
         /\ \A v \in FAll : v \in Pages /\ v \in Nat /\ v < KvaBase
         /\ UAll \cap FAll = {} /\ KvaBase < MmioBase
<1>1. T * T \in Nat /\ (T * T) % T = 0 /\ T \in Nat
  <2>1. T \in Nat /\ T \in Int /\ 0 \in 0..T-1
    BY TableSize
  <2>2. (T * T + 0) % T = 0
    BY <2>1, DivUnique
  <2> QED
    BY <2>1, <2>2
<1>2. PICK z \in Nat : z = T * T
  BY <1>1
<1>3. MmioBase \in Nat /\ MmioBase < z
  BY <1>2, ConstFacts DEF Pages
<1>4. MmioBase + T <= z
  BY <1>1, <1>2, <1>3, ConstFacts, Apart
<1>5. Pages = 0..z-1
  BY <1>2 DEF Pages
<1>6. \A v \in KAll(l) : v \in Pages /\ v \in Nat /\ v >= KvaBase /\ v < MmioBase
  <2>1. PICK t \in Nat : t = KvaBase + l.text
    BY ConstFacts, LayoutFacts
  <2>2. PICK u \in Nat : u = KvaBase + l.memTop
    BY ConstFacts, LayoutFacts
  <2>3. KvaBase \in Nat /\ l.text \in Nat /\ l.memTop \in Nat /\ KvaBase + l.memTop <= MmioBase
    BY ConstFacts, LayoutFacts
  <2>4. t >= KvaBase /\ u <= MmioBase
    BY <2>1, <2>2, <2>3
  <2>5. KAll(l) = t..u-1
    <3>1. u - 1 = KvaBase + (l.memTop - 1)
      BY <2>2, <2>3
    <3> QED
      BY <2>1, <3>1, Zenon DEF KAll
  <2> QED
    BY <1>3, <1>5, <2>3, <2>4, <2>5
<1>7. \A v \in MAll : v \in Pages /\ v \in Nat /\ v >= MmioBase
  BY <1>1, <1>3, <1>4, <1>5 DEF MAll
<1>8. KvaBase < MmioBase
  BY <1>3, ConstFacts, LayoutFacts
<1>9. \A v \in UAll : v \in Pages /\ v \in Nat /\ v < KvaBase
  BY <1>1, <1>3, <1>5, <1>8, ConstFacts, TableSize DEF UAll
<1>10. \A v \in FAll : v \in Pages /\ v \in Nat /\ v < KvaBase
  BY <1>1, <1>3, <1>5, <1>8, ConstFacts DEF FAll
<1>11. UserStart + T <= FbVa \/ FbVa + T <= UserStart
  BY ConstFacts, Apart
<1>12. UAll \cap FAll = {}
  BY <1>1, <1>11, ConstFacts, TableSize DEF UAll, FAll
<1> QED
  BY <1>6, <1>7, <1>8, <1>9, <1>10, <1>12

LEMMA PermTypes == \A p \in {KERNEL_RX, KERNEL_RO, KERNEL_RW, USER_RWX, USER_RW} : p \in SUBSET USER_RWX
BY DEF KERNEL_RX, KERNEL_RO, KERNEL_RW, USER_RWX, USER_RW

LEMMA KernelPage ==
  ASSUME NEW l \in Layouts, NEW o \in Nat, NEW v \in Nat, v = KvaBase + o,
         l.text <= o, o < l.memTop
  PROVE  /\ v \in KAll(l) /\ v \in Pages /\ v \notin Upto(l, v)
         /\ Upto(l, v + 1) = Upto(l, v) \cup {v}
<1>1. KvaBase \in Nat /\ l.text \in Nat /\ l.memTop \in Nat
  BY ConstFacts, LayoutFacts
<1>2. PICK t \in Nat : t = KvaBase + l.text
  BY <1>1
<1>3. PICK u \in Nat : u = KvaBase + l.memTop
  BY <1>1
<1>4. v >= t /\ v < u
  BY <1>1, <1>2, <1>3
<1>5. KAll(l) = t..u-1
  <2>1. u - 1 = KvaBase + (l.memTop - 1)
    BY <1>1, <1>3
  <2> QED
    BY <1>2, <2>1, Zenon DEF KAll
<1>6. v \in KAll(l)
  BY <1>4, <1>5
<1>7. v \in Pages
  BY <1>6, Regions
<1>8. v \notin t..v-1 /\ t..(v+1)-1 = (t..v-1) \cup {v}
  BY <1>4
<1> QED
  BY <1>2, <1>6, <1>7, <1>8 DEF Upto

\* One pass of the loops over text, rodata and data.
KernelDone(l, s, r, o, v) ==
  /\ r.mem[Boot(l)] = s.mem[Boot(l)]
  /\ \/ r.panic = TRUE /\ Boot(l) - Low(l) <= 1 + (o \div T)
     \/ /\ Mapped(l, r, Upto(l, v + 1), {}, {}, {})
        /\ Count(l, r, 1 + ((o + 1) \div T), (v + 1) \div T)

LEMMA KernelStep ==
  ASSUME NEW l \in Layouts, NEW s, NEW o \in Nat, NEW v \in Nat, v = KvaBase + o,
         l.text <= o, o < l.memTop,
         Mapped(l, s, Upto(l, v), {}, {}, {}),
         Count(l, s, 1 + (o \div T), v \div T),
         NEW r, r = Map4K(l, s, Dir(l), v, kva_to_pa(v), KRights(l, o))
  PROVE  KernelDone(l, s, r, o, v)
<1> DEFINE W == Upto(l, v)
           X == Upto(l, v + 1)
<1>1. v \in KAll(l) /\ v \in Pages /\ v \notin W /\ X = W \cup {v}
  BY KernelPage
<1>2. kva_to_pa(v) \in Int
  BY ConstFacts DEF kva_to_pa
<1>3. KRights(l, o) \in SUBSET USER_RWX
  BY PermTypes DEF KRights
<1>4. PICK n \in Int : n = 1 + (o \div T)
  BY DivMod
<1>5. PICK pa \in Int : pa = kva_to_pa(v)
  BY <1>2
<1>6. PICK perm \in SUBSET USER_RWX : perm = KRights(l, o)
  BY <1>3
<1>7. Space(l, s, W) /\ KernelAt(l, s, W) /\ UserAt(l, s, {})
  <2>1. W \cup {} \cup {} \cup {} = W
    OBVIOUS
  <2> QED
    BY <2>1 DEF Mapped
<1>8. Count(l, s, n, v \div T) /\ r = Map4K(l, s, Dir(l), v, pa, perm)
  BY <1>4, <1>5, <1>6
<1> HIDE DEF W, X
<1>9. Stopped(l, s, r, n) \/ Entered(l, s, r, W, v, Pte("leaf", pa, perm), n)
  BY <1>1, <1>7, <1>8, MapOne
<1>10. CASE Stopped(l, s, r, n)
  <2>1. W \in SUBSET Pages
    BY <1>7 DEF Space
  <2>2. Halt(l, s, r, W, n)
    BY <1>10, <2>1, StoppedHalts
  <2> QED
    BY <1>4, <2>2 DEF Halt, KernelDone
<1>11. CASE Entered(l, s, r, W, v, Pte("leaf", pa, perm), n)
  <2>1. /\ Space(l, r, X) /\ Keeps(l, s, r, W) /\ View(l, r, v) = Pte("leaf", pa, perm)
        /\ Count(l, r, n, v \div T) /\ Boot(l) - r.top <= n + 1
        /\ r.mem[Boot(l)] = s.mem[Boot(l)]
    BY <1>1, <1>11 DEF Entered
  <2>2. KernelAt(l, r, X)
    <3>1. v - KvaBase = o
      BY ConstFacts
    <3>2. \A w \in W : View(l, r, w) = View(l, s, w)
      BY <2>1 DEF Keeps
    <3> QED
      BY <1>1, <1>5, <1>6, <1>7, <2>1, <3>1, <3>2 DEF KernelAt
  <2>3. MmioAt(l, r, {}) /\ UserAt(l, r, {}) /\ FbAt(l, r, {})
    BY DEF MmioAt, UserAt, FbAt
  <2>4. Mapped(l, r, X, {}, {}, {})
    <3>1. X \cup {} \cup {} \cup {} = X
      OBVIOUS
    <3> QED
      BY <2>1, <2>2, <2>3, <3>1 DEF Mapped
  <2>5. Count(l, r, 1 + ((o + 1) \div T), (v + 1) \div T)
    <3>1. v \div T = (KvaBase \div T) + (o \div T)
      BY ConstFacts, Shift
    <3>2. PICK p \in Nat : p = o + 1
      OBVIOUS
    <3>3. (KvaBase + p) \div T = (KvaBase \div T) + (p \div T)
      BY ConstFacts, Shift
    <3>4. KvaBase + p = v + 1
      BY <3>2, ConstFacts
    <3>5. CASE (o + 1) \div T = o \div T
      <4>1. (v + 1) \div T = v \div T
        BY <3>1, <3>2, <3>3, <3>4, <3>5
      <4> QED
        BY <1>4, <2>1, <3>5, <4>1
    <3>6. CASE (o + 1) \div T = (o \div T) + 1
      <4>1. PICK m \in Int : m = 1 + ((o + 1) \div T)
        BY <3>6, DivMod
      <4>2. m = n + 1
        <5>1. o \div T \in Int
          BY DivMod
        <5> QED
          BY <1>4, <3>6, <4>1, <5>1
      <4>3. Boot(l) - r.top <= m + 0 /\ Boot(l) - r.top <= m + 1
        <5>1. Boot(l) \in Int /\ r.top \in Int
          BY <2>1, DirInRam, LayoutFacts DEF Space
        <5> QED
          BY <2>1, <4>2, <5>1
      <4>4. Count(l, r, m, (v + 1) \div T)
        BY <4>3 DEF Count
      <4> QED
        BY <4>1, <4>4
    <3> QED
      BY <3>5, <3>6, NextPage
  <2> QED
    BY <2>1, <2>4, <2>5 DEF X, KernelDone
<1> QED
  BY <1>9, <1>10, <1>11

\* The pages of a megapage.
LEMMA Mega ==
  ASSUME NEW v \in Nat, v % T = 0, NEW w \in Nat
  PROVE  /\ w \div T = v \div T <=> w \in v .. v + T - 1
         /\ w \div T = v \div T => v + (w % T) = w
<1>1. T \in Nat /\ v \div T \in Nat /\ v = T * (v \div T) + (v % T)
  BY TableSize, DivMod
<1>2. w \div T \in Nat /\ w % T \in 0..T-1 /\ w = T * (w \div T) + (w % T)
  BY DivMod
<1>3. w \div T = v \div T => v + (w % T) = w
  <2>1. T * (v \div T) \in Nat
    BY <1>1
  <2> QED
    BY <1>1, <1>2, <2>1
<1>4. w \div T = v \div T => w \in v .. v + T - 1
  <2>1. PICK k \in 0..T-1 : k = w % T
    BY <1>2
  <2> QED
    BY <1>1, <1>3, <2>1
<1>5. ASSUME w \in v .. v + T - 1 PROVE w \div T = v \div T
  <2>1. PICK k \in 0..T-1 : k = w - v
    BY <1>1, <1>5
  <2>2. k \in Nat /\ k \div T = 0 /\ v + k = w
    BY <2>1, Small
  <2>3. (v + k) \div T = (v \div T) + (k \div T)
    BY <2>2, Shift
  <2> QED
    BY <1>1, <2>2, <2>3
<1> QED
  BY <1>3, <1>4, <1>5

\* One pass of the loop over the rest of memory.
MegaDone(l, s, r, o, v) ==
  /\ Mapped(l, r, Upto(l, v + T), {}, {}, {})
  /\ r.top = s.top /\ r.panic = FALSE /\ r.mem[Boot(l)] = s.mem[Boot(l)]
  /\ o + T <= l.memTop /\ (o + T) % T = 0

LEMMA MegaStep ==
  ASSUME NEW l \in Layouts, NEW s, NEW o \in Nat, NEW v \in Nat, v = KvaBase + o,
         o % T = 0, l.data <= o, o < l.memTop,
         Mapped(l, s, Upto(l, v), {}, {}, {}),
         NEW r, r = vm_map_4m(s, Dir(l), v, kva_to_pa(v), KERNEL_RW)
  PROVE  MegaDone(l, s, r, o, v)
<1> DEFINE W == Upto(l, v)
           X == Upto(l, v + T)
           N == {w \in Pages : w \div T = v \div T}
<1>1. /\ KvaBase \in Nat /\ KpaBase \in Nat /\ l.text \in Nat /\ l.data \in Nat /\ l.rodata \in Nat
      /\ l.memTop \in Nat /\ T \in Nat /\ 0 < T /\ l.text <= o /\ l.rodata <= o /\ l.memTop % T = 0
  <2>1. /\ l.text \in Nat /\ l.data \in Nat /\ l.rodata \in Nat /\ l.memTop \in Nat
        /\ l.text < l.rodata /\ l.rodata <= l.data /\ l.memTop % T = 0
    BY LayoutFacts
  <2>2. l.text <= o /\ l.rodata <= o
    BY <2>1
  <2> QED
    BY <2>1, <2>2, ConstFacts, TableSize
<1>2. o + T <= l.memTop /\ (o + T) % T = 0
  <2>1. PICK m \in Nat : m = l.memTop /\ o < m /\ m % T = 0
    BY <1>1
  <2>2. o + T <= m
    BY <2>1, Apart
  <2>3. (T * 1 + 0) % T = 0
    BY <1>1, DivUnique
  <2>4. T % T = 0 /\ (o + T) % T = T % T
    BY <1>1, <2>3, Shift
  <2> QED
    BY <2>1, <2>2, <2>4
<1>3. PICK t \in Nat : t = KvaBase + l.text
  BY <1>1
<1>4. v >= t /\ v % T = 0
  <2>1. v >= t
    BY <1>1, <1>3
  <2>2. (KvaBase + o) % T = o % T
    BY <1>1, ConstFacts, Shift
  <2> QED
    BY <2>1, <2>2
<1>5. \A w \in Nat : w >= v /\ w < v + T => w \in Pages
  <2>1. PICK u \in Nat : u = KvaBase + l.memTop
    BY <1>1
  <2>2. KAll(l) = t..u-1
    <3>1. u - 1 = KvaBase + (l.memTop - 1)
      BY <1>1, <2>1
    <3> QED
      BY <1>3, <3>1, Zenon DEF KAll
  <2>3. v + T <= u
    BY <1>1, <1>2, <2>1
  <2>4. \A w \in Nat : w >= v /\ w < v + T => w \in KAll(l)
    BY <1>1, <1>4, <2>2, <2>3
  <2> QED
    BY <2>4, Regions
<1>6. N = v..v+T-1
  <2>1. \A w \in Nat : w \div T = v \div T <=> w \in v .. v + T - 1
    BY <1>4, Mega
  <2>2. \A w \in Pages : w \in Nat
    BY PageIndex
  <2>3. \A w \in v..v+T-1 : w \in Nat /\ w >= v /\ w < v + T
    BY <1>1
  <2> QED
    BY <1>5, <2>1, <2>2, <2>3
<1>7. W = t..v-1 /\ X = t..(v+T)-1
  BY <1>3 DEF Upto
<1>8. PICK pa \in Int : pa = kva_to_pa(v) /\ pa % T = 0
  <2>1. kva_to_pa(v) = KpaBase + o
    BY <1>1 DEF kva_to_pa
  <2>2. (KpaBase + o) % T = 0
    BY ConstFacts, Shift
  <2> QED
    BY <1>1, <2>1, <2>2
<1>9. Space(l, s, W) /\ KernelAt(l, s, W)
  <2>1. W \cup {} \cup {} \cup {} = W
    OBVIOUS
  <2> QED
    BY <2>1 DEF Mapped
<1> HIDE DEF W, X, N
<1>10. X = W \cup N /\ v \in N
  BY <1>1, <1>4, <1>6, <1>7
<1>11. \A w \in W : w \div T # v \div T
  <2> TAKE w \in W
  <2>1. w \in Nat /\ w < v
    BY <1>3, <1>7
  <2>2. w \notin v..v+T-1
    BY <2>1
  <2> QED
    BY <1>4, <2>1, <2>2, Mega
<1>12. v \in Pages
  BY <1>1, <1>5
<1>13. /\ Space(l, r, W \cup {w \in Pages : w \div T = v \div T}) /\ Keeps(l, s, r, W)
       /\ \A w \in Pages : w \div T = v \div T =>
            View(l, r, w) = Pte("leaf", pa + (w % T), KERNEL_RW)
       /\ r.top = s.top /\ r.panic = FALSE
       /\ r.mem[Boot(l)] = s.mem[Boot(l)]
  <2>1. KERNEL_RW \in SUBSET USER_RWX
    BY PermTypes
  <2>2. r = vm_map_4m(s, Dir(l), v, pa, KERNEL_RW)
    BY <1>8
  <2>3. Enlarged(l, s, r, W, v, pa, KERNEL_RW)
    BY <1>4, <1>8, <1>9, <1>11, <1>12, <2>1, <2>2, MapBig
  <2> QED
    BY <2>3 DEF Enlarged
<1>14. Space(l, r, X)
  BY <1>10, <1>13 DEF N
<1>15. KernelAt(l, r, X)
  <2> SUFFICES ASSUME NEW w \in X
               PROVE  View(l, r, w) = Pte("leaf", kva_to_pa(w), KRights(l, w - KvaBase))
    BY DEF KernelAt
  <2>1. CASE w \in W
    BY <1>9, <1>13, <2>1 DEF Keeps, KernelAt
  <2>2. CASE w \in N
    <3>1. w \in Pages /\ w \div T = v \div T /\ w \in Nat /\ w >= v
      BY <1>6, <2>2, PageIndex DEF N
    <3>2. v + (w % T) = w
      BY <1>4, <3>1, Mega
    <3>3. pa + (w % T) = kva_to_pa(w)
      <4>1. PICK k \in Int : k = w % T
        BY <3>1, PageIndex DEF Index
      <4>2. w = v + k
        BY <3>2, <4>1
      <4> QED
        BY <1>1, <1>8, <4>1, <4>2 DEF kva_to_pa
    <3>4. KRights(l, w - KvaBase) = KERNEL_RW
      <4>1. PICK k \in Int : k = w - KvaBase
        BY <1>1, <3>1
      <4>2. k >= l.data /\ k >= l.rodata
        BY <1>1, <3>1, <4>1
      <4>3. ~(k < l.rodata) /\ ~(k < l.data)
        BY <1>1, <4>2
      <4> QED
        BY <4>1, <4>3 DEF KRights
    <3> QED
      BY <1>13, <3>1, <3>3, <3>4
  <2> QED
    BY <1>10, <2>1, <2>2
<1>16. MmioAt(l, r, {}) /\ UserAt(l, r, {}) /\ FbAt(l, r, {})
  BY DEF MmioAt, UserAt, FbAt
<1>17. Mapped(l, r, X, {}, {}, {})
  <2>1. X \cup {} \cup {} \cup {} = X
    OBVIOUS
  <2> QED
    BY <1>14, <1>15, <1>16, <2>1 DEF Mapped
<1> QED
  BY <1>2, <1>13, <1>17 DEF X, MegaDone

LEMMA MmioStep ==
  ASSUME NEW l \in Layouts, NEW s, Mapped(l, s, KAll(l), {}, {}, {}),
         NEW r, r = vm_map_4m(s, Dir(l), MmioBase, MmioBase, KERNEL_RW)
  PROVE  /\ Mapped(l, r, KAll(l), MAll, {}, {})
         /\ r.top = s.top /\ r.panic = FALSE /\ r.mem[Boot(l)] = s.mem[Boot(l)]
<1> DEFINE N == {w \in Pages : w \div T = MmioBase \div T}
<1>1. MmioBase \in Pages /\ MmioBase \in Nat /\ MmioBase \in Int /\ MmioBase % T = 0
  BY ConstFacts
<1>2. \A w \in Nat : /\ w \div T = MmioBase \div T <=> w \in MAll
                     /\ w \div T = MmioBase \div T => MmioBase + (w % T) = w
  BY <1>1, Mega DEF MAll
<1>3. N = MAll
  BY <1>2, PageIndex, Regions
<1>4. Space(l, s, KAll(l)) /\ KernelAt(l, s, KAll(l))
  <2>1. KAll(l) \cup {} \cup {} \cup {} = KAll(l)
    OBVIOUS
  <2> QED
    BY <2>1 DEF Mapped
<1>5. \A w \in KAll(l) : w \div T # MmioBase \div T
  <2>1. \A w \in KAll(l) : w \in Nat /\ w < MmioBase
    BY Regions
  <2>2. \A w \in MAll : w >= MmioBase
    BY Regions
  <2> QED
    BY <1>1, <1>2, <2>1, <2>2
<1>6. KERNEL_RW \in SUBSET USER_RWX
  BY PermTypes
<1>7. /\ Space(l, r, KAll(l) \cup {w \in Pages : w \div T = MmioBase \div T})
      /\ Keeps(l, s, r, KAll(l))
      /\ \A w \in Pages : w \div T = MmioBase \div T =>
           View(l, r, w) = Pte("leaf", MmioBase + (w % T), KERNEL_RW)
      /\ r.top = s.top /\ r.panic = FALSE
      /\ r.mem[Boot(l)] = s.mem[Boot(l)]
  <2>1. Enlarged(l, s, r, KAll(l), MmioBase, MmioBase, KERNEL_RW)
    BY <1>1, <1>4, <1>5, <1>6, MapBig
  <2> QED
    BY <2>1 DEF Enlarged
<1>8. Space(l, r, KAll(l) \cup MAll \cup {} \cup {})
  <2>1. KAll(l) \cup MAll \cup {} \cup {} = KAll(l) \cup N
    BY <1>3
  <2> QED
    BY <1>7, <2>1
<1>9. KernelAt(l, r, KAll(l))
  BY <1>4, <1>7 DEF Keeps, KernelAt
<1>10. MmioAt(l, r, MAll)
  <2>1. \A w \in MAll : w \in Pages /\ w \div T = MmioBase \div T /\ MmioBase + (w % T) = w
    BY <1>2, Regions
  <2> QED
    BY <1>7, <2>1 DEF MmioAt
<1>11. UserAt(l, r, {}) /\ FbAt(l, r, {})
  BY DEF UserAt, FbAt
<1> QED
  BY <1>7, <1>8, <1>9, <1>10, <1>11 DEF Mapped

\* W keeps its meaning when only pages that are no tables are written.
LEMMA Untouched ==
  ASSUME NEW l \in Layouts, NEW s, NEW W, Space(l, s, W), NEW P, Dir(l) \notin P,
         \A i \in Index : DE(l, s, i).kind = "table" => DE(l, s, i).pa \notin P,
         NEW r \in Vms(l), r.top = s.top, r.panic = s.panic,
         \A q \in RamOf(l) \ P : r.mem[q] = s.mem[q]
  PROVE  Space(l, r, W) /\ Keeps(l, s, r, Pages)
<1>1. /\ Room(l, s) /\ TablesOK(l, s, s.top) /\ Tight(l, s) /\ W \subseteq Pages
      /\ \A w \in Pages \ W : View(l, s, w) = Invalid
  BY DEF Space
<1>2. Dir(l) \in RamOf(l)
  BY <1>1, DirInRam
<1>3. \A i \in Index : DE(l, r, i) = DE(l, s, i)
  BY <1>2 DEF DE
<1>4. \A i \in Index : DE(l, s, i).kind = "table" => r.mem[DE(l, s, i).pa] = s.mem[DE(l, s, i).pa]
  <2> TAKE i \in Index
  <2> HAVE DE(l, s, i).kind = "table"
  <2>1. PICK p \in RamOf(l) : p = DE(l, s, i).pa
    BY <1>1, TableAt, DirInRam
  <2> QED
    BY <2>1
<1>5. \A w \in Pages : View(l, r, w) = View(l, s, w)
  <2> TAKE w \in Pages
  <2>1. w \div T \in Index
    BY PageIndex
  <2> QED
    BY <1>3, <1>4, <2>1 DEF View
<1>6. TablesOK(l, r, r.top)
  BY <1>1, <1>3, <1>4 DEF TablesOK
<1>7. Tight(l, r)
  BY <1>1, <1>3, <1>5 DEF Tight
<1>8. Room(l, r)
  BY <1>1 DEF Room
<1>9. \A x : Owned(l, s, x) => Owned(l, r, x)
  BY <1>3 DEF Owned
<1> QED
  BY <1>1, <1>5, <1>6, <1>7, <1>8, <1>9 DEF Space, Keeps

\* A page and its frame are added for the user.
UserAdded(l, s, r, U, v, n) ==
  /\ Mapped(l, r, KAll(l), MAll, U \cup {v}, {})
  /\ Count(l, r, n + 1, v \div T) /\ Boot(l) - r.top <= n + 2
  /\ r.mem[Boot(l)] = s.mem[Boot(l)]

LEMMA UserStep ==
  ASSUME NEW l \in Layouts, NEW s, NEW U, U \subseteq UAll,
         Mapped(l, s, KAll(l), MAll, U, {}), NEW v \in UAll, v \notin U,
         NEW perm \in {USER_RWX, USER_RW}, NEW n \in Int, Count(l, s, n, v \div T),
         NEW a, a = AllocZ(l, s), NEW r, r = Map4K(l, a, Dir(l), v, a.top, perm)
  PROVE  Halt(l, s, r, KAll(l) \cup MAll, n + 1) \/ UserAdded(l, s, r, U, v, n)
<1> DEFINE W == KAll(l) \cup MAll \cup U \cup {}
<1>1. Space(l, s, W) /\ KernelAt(l, s, KAll(l)) /\ MmioAt(l, s, MAll) /\ UserAt(l, s, U)
  BY DEF Mapped
<1>2. v \in Pages /\ v \notin W
  <2>1. v \in Pages /\ v \in Nat /\ v < KvaBase /\ KvaBase < MmioBase /\ KvaBase \in Nat /\ MmioBase \in Nat
    BY Regions, ConstFacts
  <2>2. v \notin KAll(l) /\ v \notin MAll
    BY <2>1, Regions
  <2> QED
    BY <2>1, <2>2
<1>3. perm \in SUBSET USER_RWX /\ "U" \in perm
  BY DEF USER_RWX, USER_RW
<1>4. Halt(l, s, r, W, n + 1) \/ Granted(l, s, r, W, v, a.top, perm, n)
  BY <1>1, <1>2, <1>3, MapNewEffect
<1>5. CASE Halt(l, s, r, W, n + 1)
  BY <1>5 DEF Halt
<1>6. CASE Granted(l, s, r, W, v, a.top, perm, n)
  <2>1. PICK f \in Int : f = a.top
    BY <1>6 DEF Granted
  <2>2. /\ Space(l, r, W \cup {v}) /\ Keeps(l, s, r, W) /\ View(l, r, v) = Pte("leaf", f, perm)
        /\ Owned(l, r, f) /\ (\A x : Owned(l, s, x) => x # f)
    BY <1>6, <2>1 DEF Granted
  <2>3. KernelAt(l, r, KAll(l)) /\ MmioAt(l, r, MAll) /\ UserAt(l, r, U)
    <3>1. FbAt(l, s, {})
      BY DEF FbAt
    <3> QED
      BY <1>1, <2>2, <3>1, AtKept
  <2>4. View(l, r, v).pa = f /\ View(l, r, v).perm = perm
    BY <1>3, <2>2, PteType DEF Kinds
  <2>5. UserAt(l, r, U \cup {v})
    <3>1. \A w \in U : View(l, r, w) = View(l, s, w)
      BY <2>2 DEF Keeps
    <3>2. \A w \in U : View(l, r, w).pa # f
      BY <1>1, <2>2, <3>1 DEF UserAt
    <3> QED
      BY <1>3, <2>2, <2>3, <2>4, <3>2 DEF UserAt
  <2>6. FbAt(l, r, {})
    BY DEF FbAt
  <2>7. W \cup {v} = KAll(l) \cup MAll \cup (U \cup {v}) \cup {}
    OBVIOUS
  <2>8. Mapped(l, r, KAll(l), MAll, U \cup {v}, {})
    BY <2>2, <2>3, <2>5, <2>6, <2>7 DEF Mapped
  <2> QED
    BY <1>6, <2>8 DEF UserAdded, Granted
<1> QED
  BY <1>4, <1>5, <1>6

\* A page of the framebuffer is added.
FbAdded(l, s, r, F, v, n) ==
  /\ Mapped(l, r, KAll(l), MAll, UAll, F \cup {v})
  /\ Count(l, r, n, v \div T) /\ Boot(l) - r.top <= n + 1
  /\ r.mem[Boot(l)] = s.mem[Boot(l)]

LEMMA FbStep ==
  ASSUME NEW l \in Layouts, NEW s, NEW F, F \subseteq FAll,
         Mapped(l, s, KAll(l), MAll, UAll, F), NEW v \in FAll, v \notin F,
         NEW n \in Int, Count(l, s, n, v \div T),
         NEW pa \in Int, pa = KpaBase + l.fb + (v - FbVa),
         NEW r, r = Map4K(l, s, Dir(l), v, pa, USER_RW)
  PROVE  Halt(l, s, r, KAll(l) \cup MAll, n) \/ FbAdded(l, s, r, F, v, n)
<1> DEFINE W == KAll(l) \cup MAll \cup UAll \cup F
<1>1. /\ Space(l, s, W) /\ KernelAt(l, s, KAll(l)) /\ MmioAt(l, s, MAll) /\ UserAt(l, s, UAll)
      /\ FbAt(l, s, F) /\ W \in SUBSET Pages
  BY DEF Mapped, Space
<1>2. v \in Pages /\ v \notin W
  <2>1. v \in Pages /\ v \in Nat /\ v < KvaBase /\ KvaBase < MmioBase /\ KvaBase \in Nat /\ MmioBase \in Nat
    BY Regions, ConstFacts
  <2>2. v \notin KAll(l) /\ v \notin MAll
    BY <2>1, Regions
  <2>3. v \notin UAll
    BY Regions
  <2> QED
    BY <2>1, <2>2, <2>3
<1>3. USER_RW \in SUBSET USER_RWX
  BY PermTypes
<1> HIDE DEF W
<1>4. Stopped(l, s, r, n) \/ Entered(l, s, r, W, v, Pte("leaf", pa, USER_RW), n)
  BY <1>1, <1>2, <1>3, MapOne
<1>5. CASE Stopped(l, s, r, n)
  <2>1. Halt(l, s, r, W, n)
    BY <1>1, <1>5, StoppedHalts
  <2> QED
    BY <2>1 DEF Halt, W
<1>6. CASE Entered(l, s, r, W, v, Pte("leaf", pa, USER_RW), n)
  <2>1. /\ Space(l, r, W \cup {v}) /\ Keeps(l, s, r, W) /\ View(l, r, v) = Pte("leaf", pa, USER_RW)
    BY <1>6 DEF Entered
  <2>2. KernelAt(l, r, KAll(l)) /\ MmioAt(l, r, MAll) /\ UserAt(l, r, UAll) /\ FbAt(l, r, F)
    BY <1>1, <2>1, AtKept DEF W
  <2>3. FbAt(l, r, F \cup {v})
    BY <2>1, <2>2 DEF FbAt
  <2>4. W \cup {v} = KAll(l) \cup MAll \cup UAll \cup (F \cup {v})
    BY DEF W
  <2>5. Mapped(l, r, KAll(l), MAll, UAll, F \cup {v})
    BY <2>1, <2>2, <2>3, <2>4 DEF Mapped
  <2> QED
    BY <1>6, <2>5 DEF FbAdded, Entered
<1> QED
  BY <1>4, <1>5, <1>6

\* The user program is in place.
ImageAt(l, s) ==
  \A n \in 0..l.user-1 : s.mem[View(l, s, UserStart + n).pa] = Filled(Image(n))

LEMMA FrameFacts ==
  ASSUME NEW l \in Layouts, NEW s, Mapped(l, s, KAll(l), MAll, UAll, FAll), NEW v \in UAll
  PROVE  /\ View(l, s, v).pa \in RamOf(l) /\ View(l, s, v).pa \in Int
         /\ View(l, s, v).pa < Dir(l) /\ View(l, s, v).pa >= s.top
         /\ \A i \in Index : DE(l, s, i).kind = "table" => DE(l, s, i).pa # View(l, s, v).pa
<1>1. Owned(l, s, View(l, s, v).pa) /\ Room(l, s)
  BY DEF Mapped, UserAt, Space
<1>2. PICK x : x = View(l, s, v).pa
  OBVIOUS
<1>3. x \in s.top..Dir(l)-1 /\ \A i \in Index : DE(l, s, i).kind = "table" => DE(l, s, i).pa # x
  BY <1>1, <1>2 DEF Owned
<1>4. x \in Int /\ x < Dir(l) /\ x >= s.top
  BY <1>1, <1>3, DirInRam
<1>5. x \in RamOf(l)
  BY <1>1, <1>4, DirInRam
<1> QED
  BY <1>2, <1>3, <1>4, <1>5

\* The pages of the program, one by one.
LEMMA ProgramPage ==
  ASSUME NEW l \in Layouts, NEW n \in 0..l.user-1
  PROVE  /\ UserStart + n \in UAll /\ n \in Int /\ UserStart + n \in Pages
         /\ \A m \in 0..l.user-1 : m # n => UserStart + m # UserStart + n
<1>1. UserStart \in Nat /\ UserPages \in Nat /\ l.user \in Nat /\ l.user <= UserPages
  BY ConstFacts, LayoutFacts
<1>2. UserStart + n \in UAll /\ n \in Int
  BY <1>1 DEF UAll
<1>3. \A m \in 0..l.user-1 : m # n => UserStart + m # UserStart + n
  BY <1>1
<1> QED
  BY <1>2, <1>3, Regions

\* The frames of the program's pages are apart from each other and from the
\* page tables.
LEMMA Frames ==
  ASSUME NEW l \in Layouts, NEW s, Mapped(l, s, KAll(l), MAll, UAll, FAll), NEW n \in 0..l.user-1
  PROVE  /\ View(l, s, UserStart + n).pa \in RamOf(l)
         /\ View(l, s, UserStart + n).pa < Dir(l) /\ View(l, s, UserStart + n).pa \in Int
         /\ \A i \in Index : DE(l, s, i).kind = "table" =>
              DE(l, s, i).pa # View(l, s, UserStart + n).pa
         /\ \A k \in 0..l.user-1 : k # n =>
              View(l, s, UserStart + k).pa # View(l, s, UserStart + n).pa
<1>1. UserAt(l, s, UAll)
  BY DEF Mapped
<1>2. PICK v \in UAll : v = UserStart + n
  BY ProgramPage
<1>3. /\ View(l, s, v).pa \in RamOf(l) /\ View(l, s, v).pa \in Int /\ View(l, s, v).pa < Dir(l)
      /\ \A i \in Index : DE(l, s, i).kind = "table" => DE(l, s, i).pa # View(l, s, v).pa
  BY FrameFacts
<1>4. ASSUME NEW k \in 0..l.user-1, k # n
      PROVE  View(l, s, UserStart + k).pa # View(l, s, v).pa
  <2>1. PICK w \in UAll : w = UserStart + k
    BY ProgramPage
  <2>2. v # w
    BY <1>2, <1>4, <2>1, ProgramPage
  <2> QED
    BY <1>1, <2>1, <2>2 DEF UserAt
<1> QED
  BY <1>2, <1>3, <1>4

\* m is memory s with the program's pages copied over their frames.
Copied(l, s, m) ==
  /\ m = [p \in RamOf(l) |-> m[p]]
  /\ \A n \in 0..l.user-1 : m[View(l, s, UserStart + n).pa] = Filled(Image(n))
  /\ \A p \in RamOf(l) :
       (\A n \in 0..l.user-1 : View(l, s, UserStart + n).pa # p) => m[p] = s.mem[p]

CopyMade(l, s, r) ==
  /\ Mapped(l, r, KAll(l), MAll, UAll, FAll) /\ ImageAt(l, r)
  /\ r.top = s.top /\ r.panic = FALSE /\ r.mem[Boot(l)] = s.mem[Boot(l)]

LEMMA CopyStep ==
  ASSUME NEW l \in Layouts, NEW s, Mapped(l, s, KAll(l), MAll, UAll, FAll), NEW m,
         Copied(l, s, m), NEW r, r = [s EXCEPT !.mem = m]
  PROVE  CopyMade(l, s, r)
<1> DEFINE P == {View(l, s, UserStart + n).pa : n \in 0..l.user-1}
           W == KAll(l) \cup MAll \cup UAll \cup FAll
<1>1. Space(l, s, W) /\ s \in Vms(l) /\ s.panic = FALSE /\ UserAt(l, s, UAll)
  BY DEF Mapped, Space, Room
<1>2. ASSUME NEW n \in 0..l.user-1
      PROVE  /\ View(l, s, UserStart + n).pa \in RamOf(l)
             /\ View(l, s, UserStart + n).pa < Dir(l) /\ View(l, s, UserStart + n).pa \in Int
             /\ \A i \in Index : DE(l, s, i).kind = "table" =>
                  DE(l, s, i).pa # View(l, s, UserStart + n).pa
  BY Frames
<1>5. /\ \A n \in 0..l.user-1 : m[View(l, s, UserStart + n).pa] = Filled(Image(n))
      /\ \A p \in RamOf(l) : p \notin P => m[p] = s.mem[p]
  BY DEF Copied
<1>6. m \in [RamOf(l) -> [Index -> Ptes]]
  <2>1. ASSUME NEW n \in 0..l.user-1
        PROVE  Filled(Image(n)) \in [Index -> Ptes]
    <3>1. n \in Int
      BY ProgramPage
    <3>2. Image(n) \in Ptes
      BY <3>1, PteType DEF Image, Kinds
    <3> QED
      BY <3>2 DEF Filled
  <2>2. \A p \in RamOf(l) : s.mem[p] \in [Index -> Ptes]
    BY <1>1 DEF Vms
  <2>3. \A p \in RamOf(l) : m[p] \in [Index -> Ptes]
    BY <1>5, <2>1, <2>2
  <2>4. m = [p \in RamOf(l) |-> m[p]]
    BY DEF Copied
  <2> QED
    BY <2>3, <2>4
<1>7. r \in Vms(l) /\ r.top = s.top /\ r.panic = s.panic /\ r.mem = m
  BY <1>1, <1>6 DEF Vms
<1>8. Dir(l) \notin P /\ Boot(l) \notin P /\ Boot(l) \in RamOf(l)
  <2>1. Dir(l) \in Int /\ Boot(l) = Dir(l) + 1 /\ Boot(l) \in RamOf(l)
    BY LayoutFacts
  <2>2. \A p \in P : p \in Int /\ p < Dir(l)
    BY <1>2
  <2> QED
    BY <2>1, <2>2
<1>9. \A i \in Index : DE(l, s, i).kind = "table" => DE(l, s, i).pa \notin P
  BY <1>2
<1>10. \A q \in RamOf(l) \ P : r.mem[q] = s.mem[q]
  BY <1>5, <1>7
<1> HIDE DEF W
<1>11. Space(l, r, W) /\ Keeps(l, s, r, Pages)
  <2> HIDE DEF P
  <2> QED
    BY <1>1, <1>7, <1>8, <1>9, <1>10, Untouched
<1>12. Mapped(l, r, KAll(l), MAll, UAll, FAll)
  <2>1. W \subseteq Pages
    BY <1>1 DEF Space
  <2>2. Keeps(l, s, r, W)
    BY <1>11, <2>1 DEF Keeps
  <2> QED
    BY <1>11, <2>2, AtKept DEF Mapped, W
<1>13. ImageAt(l, r)
  <2> SUFFICES ASSUME NEW n \in 0..l.user-1
               PROVE  r.mem[View(l, r, UserStart + n).pa] = Filled(Image(n))
    BY DEF ImageAt
  <2>1. View(l, r, UserStart + n) = View(l, s, UserStart + n)
    BY <1>11, ProgramPage DEF Keeps
  <2> QED
    BY <1>5, <1>7, <2>1
<1>14. r.mem[Boot(l)] = s.mem[Boot(l)]
  BY <1>8, <1>10
<1> QED
  BY <1>1, <1>7, <1>12, <1>13, <1>14 DEF CopyMade

\* The kernel stack is taken and the first eframe_t written into it.
Ready(l, s) ==
  /\ Mapped(l, s, KAll(l), MAll, UAll, FAll) /\ ImageAt(l, s)
  /\ \A v \in UAll : View(l, s, v).pa # s.top
  /\ s.mem[s.top] = [Filled(Invalid) EXCEPT ![T-1] = EFrame]

LEMMA StackStep ==
  ASSUME NEW l \in Layouts, NEW s, Mapped(l, s, KAll(l), MAll, UAll, FAll), ImageAt(l, s),
         NEW n \in Int, Boot(l) - s.top <= n,
         NEW a, a = AllocZ(l, s), NEW r,
         r = IF a.panic THEN a ELSE Store(a, a.top, T-1, EFrame)
  PROVE  \/ Halt(l, s, r, KAll(l) \cup MAll, n)
         \/ Ready(l, r) /\ Boot(l) - r.top <= n + 1 /\ r.panic = FALSE
            /\ r.mem[Boot(l)] = s.mem[Boot(l)]
<1> DEFINE W == KAll(l) \cup MAll \cup UAll \cup FAll
<1>1. /\ Space(l, s, W) /\ KernelAt(l, s, KAll(l)) /\ MmioAt(l, s, MAll) /\ UserAt(l, s, UAll)
      /\ FbAt(l, s, FAll) /\ W \in SUBSET Pages
  BY DEF Mapped, Space
<1> HIDE DEF W
<1>2. Stopped(l, s, a, n) \/ Taken(l, s, a, W, n)
  BY <1>1, NewPage
<1>3. CASE Stopped(l, s, a, n)
  <2>1. Halt(l, s, a, W, n)
    BY <1>1, <1>3, StoppedHalts
  <2>2. a.panic = TRUE
    BY <2>1 DEF Halt
  <2>3. r = a
    BY <2>2
  <2> QED
    BY <2>1, <2>3 DEF Halt, W
<1>4. CASE Taken(l, s, a, W, n)
  <2>1. /\ Space(l, a, W) /\ Keeps(l, s, a, W) /\ a.top = s.top - 1 /\ a.top \in RamOf(l)
        /\ a.top \in Int /\ a.top < Dir(l) /\ Boot(l) - a.top <= n + 1
        /\ TablesOK(l, a, s.top) /\ a.mem[a.top] = Filled(Invalid)
        /\ \A q \in RamOf(l) \ {a.top} : a.mem[q] = s.mem[q]
        /\ \A x : Owned(l, s, x) => x # a.top
    BY <1>4 DEF Taken
  <2>2. a \in Vms(l) /\ a.panic = FALSE /\ Room(l, a)
    BY <2>1 DEF Space, Room
  <2>3. T-1 \in Index /\ EFrame \in Ptes
    <3>1. T-1 \in Index
      BY TableSize DEF Index
    <3>2. EFrame \in Ptes
      BY PteType DEF EFrame, Kinds
    <3> QED
      BY <3>1, <3>2
  <2>4. PICK t \in RamOf(l) : t = a.top
    BY <2>1
  <2>5. PICK i \in Index : i = T-1
    BY <2>3
  <2>6. r = Store(a, t, i, EFrame)
    BY <2>2, <2>4, <2>5
  <2>7. /\ r \in Vms(l) /\ r.top = a.top /\ r.panic = a.panic
        /\ \A q \in RamOf(l) \ {t} : r.mem[q] = a.mem[q]
    BY <2>2, <2>3, <2>6, StoreFacts
  <2>8. r.mem[t] = [Filled(Invalid) EXCEPT ![i] = EFrame]
    BY <2>1, <2>2, <2>4, <2>6 DEF Store, Vms
  <2>9. Space(l, r, W) /\ Keeps(l, a, r, Pages)
    <3>0. PICK P : P = {t}
      OBVIOUS
    <3>1. Dir(l) # t /\ Dir(l) \in Int /\ s.top \in Int
      BY <1>1, <2>1, <2>4, DirInRam, LayoutFacts DEF Space
    <3>2. \A j \in Index : DE(l, a, j).kind = "table" => DE(l, a, j).pa \notin {t}
      <4> TAKE j \in Index
      <4> HAVE DE(l, a, j).kind = "table"
      <4>1. PICK p \in RamOf(l) : p = DE(l, a, j).pa /\ p \in Int /\ p >= s.top
        BY <2>1, <2>2, <3>1, TableAt
      <4> QED
        BY <2>1, <2>4, <3>1, <4>1
    <3>3. /\ Space(l, a, W) /\ Dir(l) \notin P
          /\ \A j \in Index : DE(l, a, j).kind = "table" => DE(l, a, j).pa \notin P
          /\ r \in Vms(l) /\ r.top = a.top /\ r.panic = a.panic
          /\ \A q \in RamOf(l) \ P : r.mem[q] = a.mem[q]
      BY <2>1, <2>7, <3>0, <3>1, <3>2
    <3> QED
      BY <3>3, Untouched
  <2>10. Keeps(l, s, r, W)
    BY <1>1, <2>1, <2>9 DEF Keeps
  <2>11. Mapped(l, r, KAll(l), MAll, UAll, FAll)
    BY <1>1, <2>9, <2>10, AtKept DEF Mapped, W
  <2>12. ASSUME NEW v \in UAll
         PROVE  View(l, r, v) = View(l, s, v) /\ View(l, s, v).pa # t
    BY <1>1, <2>1, <2>4, <2>10 DEF UserAt, Keeps, W
  <2>13. ImageAt(l, r)
    <3> SUFFICES ASSUME NEW k \in 0..l.user-1
                 PROVE  r.mem[View(l, r, UserStart + k).pa] = Filled(Image(k))
      BY DEF ImageAt
    <3>1. PICK v \in UAll : v = UserStart + k
      BY ProgramPage
    <3>2. PICK p \in RamOf(l) : p = View(l, s, v).pa
      BY FrameFacts
    <3>3. r.mem[p] = s.mem[p]
      BY <2>1, <2>4, <2>7, <2>12, <3>2
    <3> QED
      BY <2>12, <3>1, <3>2, <3>3 DEF ImageAt
  <2>14. Ready(l, r)
    BY <2>4, <2>5, <2>7, <2>8, <2>11, <2>12, <2>13 DEF Ready
  <2>15. r.mem[Boot(l)] = s.mem[Boot(l)]
    <3>1. Boot(l) \in RamOf(l) /\ Boot(l) # t
      BY <2>1, <2>4, LayoutFacts
    <3> QED
      BY <2>1, <2>4, <2>7, <3>1
  <2> QED
    BY <2>1, <2>2, <2>7, <2>14, <2>15
<1> QED
  BY <1>2, <1>3, <1>4

-----------------------------------------------------------------------------
(* The boot directory.                                                     *)

BE(l, i) ==
  LET m == i - KvaBase \div T
  IN CASE i = KpaBase \div T -> Pte("leaf", KpaBase, KERNEL_RWX)
       [] m \in 0..l.memTop \div T - 1 -> Pte("leaf", KpaBase + m * T, KERNEL_RWX)
       [] i = MmioBase \div T -> Pte("leaf", MmioBase, KERNEL_RW)
       [] OTHER -> Invalid

BootOK(l, s) == \A i \in Index : s.mem[Boot(l)][i] = BE(l, i)

LEMMA SameBoot == \A i \in Index : BootEntry(i) = BE(layout, i)
BY DEF BootEntry, BE

\* The megapages named in start.S are different ones.
LEMMA BootIndex ==
  ASSUME NEW l \in Layouts
  PROVE  /\ KpaBase \div T \in Nat /\ KvaBase \div T \in Nat /\ MmioBase \div T \in Nat
         /\ l.memTop \div T \in Nat
         /\ KpaBase \div T < KvaBase \div T
         /\ (KvaBase \div T) + (l.memTop \div T) <= MmioBase \div T
<1>1. /\ KpaBase \in Nat /\ KvaBase \in Nat /\ MmioBase \in Nat /\ KvaBase % T = 0
      /\ MmioBase % T = 0 /\ KpaBase + T <= KvaBase /\ T \in Nat /\ 0 < T
  BY ConstFacts, TableSize
<1>2. PICK m \in Nat : m = l.memTop /\ m % T = 0 /\ KvaBase + m <= MmioBase
  BY LayoutFacts
<1>3. KpaBase \div T \in Nat /\ KvaBase \div T \in Nat /\ MmioBase \div T \in Nat /\ m \div T \in Nat
  BY <1>1, DivMod
<1>4. KpaBase \div T < KvaBase \div T
  <2>1. KpaBase < KvaBase
    BY <1>1
  <2> QED
    BY <1>1, <2>1, Below
<1>5. (KvaBase \div T) + (m \div T) <= MmioBase \div T
  <2>1. PICK w \in Nat : w = KvaBase + m
    BY <1>1
  <2>2. w \div T = (KvaBase \div T) + (m \div T) /\ w % T = m % T
    BY <1>1, <2>1, Shift
  <2>3. MmioBase < w <=> MmioBase \div T < w \div T
    BY <1>1, <1>2, <2>2, Below
  <2>4. ~(MmioBase < w)
    BY <1>1, <1>2, <2>1
  <2> QED
    BY <1>3, <2>2, <2>3, <2>4
<1> QED
  BY <1>2, <1>3, <1>4, <1>5

LEMMA BootEntries ==
  ASSUME NEW l \in Layouts, NEW i \in Index
  PROVE  BE(l, i) \in Ptes /\ BE(l, i).kind \in {"leaf", "invalid"}
<1>1. KERNEL_RWX \in SUBSET USER_RWX /\ KERNEL_RW \in SUBSET USER_RWX /\ "leaf" \in Kinds
  BY DEF KERNEL_RWX, KERNEL_RW, USER_RWX, Kinds
<1>2. KpaBase \in Int /\ MmioBase \in Int /\ i \in Int /\ T \in Int /\ KvaBase \div T \in Int
  BY ConstFacts, BootIndex, TableSize DEF Index
<1>3. PICK m \in Int : m = i - KvaBase \div T
  BY <1>2
<1>4. KpaBase + m * T \in Int
  BY <1>2
<1>5. /\ Pte("leaf", KpaBase, KERNEL_RWX) \in Ptes
      /\ Pte("leaf", KpaBase, KERNEL_RWX).kind = "leaf"
  BY <1>1, <1>2, PteType
<1>6. /\ Pte("leaf", KpaBase + m * T, KERNEL_RWX) \in Ptes
      /\ Pte("leaf", KpaBase + m * T, KERNEL_RWX).kind = "leaf"
  BY <1>1, <1>4, PteType
<1>7. /\ Pte("leaf", MmioBase, KERNEL_RW) \in Ptes
      /\ Pte("leaf", MmioBase, KERNEL_RW).kind = "leaf"
  BY <1>1, <1>2, PteType
<1>8. BE(l, i) \in {Pte("leaf", KpaBase, KERNEL_RWX), Pte("leaf", KpaBase + m * T, KERNEL_RWX),
                    Pte("leaf", MmioBase, KERNEL_RW), Invalid}
  BY <1>3 DEF BE
<1> QED
  BY <1>5, <1>6, <1>7, <1>8, InvalidType

LEMMA BootKernel ==
  ASSUME NEW l \in Layouts, NEW o \in Nat, o < l.memTop, NEW v \in Nat, v = KvaBase + o
  PROVE  BE(l, v \div T) = Pte("leaf", KpaBase + (o \div T) * T, KERNEL_RWX)
<1>1. v \div T = (KvaBase \div T) + (o \div T)
  BY ConstFacts, Shift
<1>2. PICK i \in Int : i = v \div T
  BY DivMod
<1>3. PICK m \in Nat : m = o \div T
  BY DivMod
<1>4. m < l.memTop \div T
  <2>1. PICK z \in Nat : z = l.memTop /\ z % T = 0
    BY LayoutFacts
  <2>2. o < z <=> o \div T < z \div T
    BY <2>1, Below
  <2> QED
    BY <1>3, <2>1, <2>2
<1>5. /\ KpaBase \div T \in Nat /\ KvaBase \div T \in Nat /\ MmioBase \div T \in Nat
      /\ l.memTop \div T \in Nat /\ KpaBase \div T < KvaBase \div T
      /\ (KvaBase \div T) + (l.memTop \div T) <= MmioBase \div T
  BY BootIndex
<1>6. i - KvaBase \div T = m /\ i # KpaBase \div T /\ i # MmioBase \div T
  BY <1>1, <1>2, <1>3, <1>4, <1>5
<1>7. m \in 0..l.memTop \div T - 1
  BY <1>4, <1>5
<1>8. BE(l, i) = Pte("leaf", KpaBase + m * T, KERNEL_RWX)
  BY <1>6, <1>7 DEF BE
<1> QED
  BY <1>2, <1>3, <1>8

LEMMA BootMmio ==
  ASSUME NEW l \in Layouts
  PROVE  BE(l, MmioBase \div T) = Pte("leaf", MmioBase, KERNEL_RW)
<1>1. /\ KpaBase \div T \in Nat /\ KvaBase \div T \in Nat /\ MmioBase \div T \in Nat
      /\ l.memTop \div T \in Nat /\ KpaBase \div T < KvaBase \div T
      /\ (KvaBase \div T) + (l.memTop \div T) <= MmioBase \div T
  BY BootIndex
<1>2. PICK i \in Int : i = MmioBase \div T
  BY <1>1
<1>3. i # KpaBase \div T /\ i - KvaBase \div T \notin 0..l.memTop \div T - 1
  BY <1>1, <1>2
<1>4. BE(l, i) = Pte("leaf", MmioBase, KERNEL_RW)
  BY <1>2, <1>3 DEF BE
<1> QED
  BY <1>2, <1>4

-----------------------------------------------------------------------------
(* The phases of the boot: what holds at a step c, with the loop cursor at *)
(* n, memory s, kpgdir = kp and satp = sp.                                 *)

\* Under the boot directory, while the new one is filled.
Building(l, s, kp, sp) == kp = Dir(l) /\ sp = Boot(l) /\ BootOK(l, s)

AtStart(l, s, kp, sp) == s \in Vms(l) /\ s.panic = FALSE /\ kp = NoDir /\ sp = NoDir

AtBoot(l, s, kp, sp) ==
  s \in Vms(l) /\ s.panic = FALSE /\ kp = NoDir /\ sp = Boot(l) /\ BootOK(l, s)

AtLoop(l, n, s, kp, sp, lo, hi) ==
  /\ Building(l, s, kp, sp)
  /\ \E o \in Nat : /\ n = KvaBase + o /\ lo <= o /\ o <= hi
                    /\ Count(l, s, 1 + (o \div T), n \div T)
  /\ Mapped(l, s, Upto(l, n), {}, {}, {})

AtMega(l, n, s, kp, sp) ==
  /\ Building(l, s, kp, sp)
  /\ \E o \in Nat : n = KvaBase + o /\ End(l) <= o /\ o <= l.memTop /\ o % T = 0
  /\ Mapped(l, s, Upto(l, n), {}, {}, {})
  /\ Boot(l) - s.top <= 1 + (End(l) \div T)

AtSwitch(l, s, kp, sp) ==
  /\ Building(l, s, kp, sp)
  /\ Mapped(l, s, KAll(l), MAll, {}, {})
  /\ Boot(l) - s.top <= 1 + (End(l) \div T)

AtUser(l, n, s, kp, sp) ==
  /\ kp = Dir(l) /\ sp = Dir(l) /\ n \in 0..UserPages
  /\ Mapped(l, s, KAll(l), MAll, UserStart .. (UserStart + n) - 1, {})
  /\ Count(l, s, (1 + (End(l) \div T)) + n, UserStart \div T)

AtFb(l, n, s, kp, sp) ==
  /\ kp = Dir(l) /\ sp = Dir(l) /\ n \in 0..FbPages
  /\ Mapped(l, s, KAll(l), MAll, UAll, FbVa .. (FbVa + n) - 1)
  /\ Count(l, s, (1 + (End(l) \div T)) + UserPages + 2, FbVa \div T)

AtStack(l, s, kp, sp) ==
  /\ kp = Dir(l) /\ sp = Dir(l)
  /\ Mapped(l, s, KAll(l), MAll, UAll, FAll) /\ ImageAt(l, s)
  /\ Boot(l) - s.top <= (1 + (End(l) \div T)) + UserPages + 3

AtEnd(l, s, kp, sp) ==
  kp = Dir(l) /\ sp = Dir(l) /\ Ready(l, s) /\ Boot(l) - s.top <= Needed(l)

AtPanic(l, s, sp) ==
  /\ Boot(l) - Low(l) < Needed(l)
  /\ \/ sp = Boot(l) /\ BootOK(l, s)
     \/ sp = Dir(l) /\ KernelAt(l, s, KAll(l)) /\ MmioAt(l, s, MAll)

Phase(l, c, n, s, kp, sp) ==
  /\ c \in {"_start", "start", "map_text", "map_rodata", "map_data",
            "map_mega", "satp", "user_pages", "map_framebuffer", "kstack",
            "user", "panic"}
  /\ c = "_start"          => AtStart(l, s, kp, sp)
  /\ c = "start"           => AtBoot(l, s, kp, sp)
  /\ c = "map_text"        => AtLoop(l, n, s, kp, sp, l.text, l.rodata)
  /\ c = "map_rodata"      => AtLoop(l, n, s, kp, sp, l.rodata, l.data)
  /\ c = "map_data"        => AtLoop(l, n, s, kp, sp, l.data, End(l))
  /\ c = "map_mega"        => AtMega(l, n, s, kp, sp)
  /\ c = "satp"            => AtSwitch(l, s, kp, sp)
  /\ c = "user_pages"      => AtUser(l, n, s, kp, sp)
  /\ c = "map_framebuffer" => AtFb(l, n, s, kp, sp)
  /\ c = "kstack"          => AtStack(l, s, kp, sp)
  /\ c = "user"            => AtEnd(l, s, kp, sp)
  /\ c = "panic"           => AtPanic(l, s, sp)

(* The inductive invariant.                                                *)
IInv == layout \in Layouts /\ Phase(layout, pc, va, vm, kpgdir, satp)

LEMMA NeededFacts ==
  ASSUME NEW l \in Layouts
  PROVE  \E k \in Nat : k = End(l) \div T /\ Needed(l) = k + UserPages + 5 /\ UserPages \in Nat
BY EndFacts, ConstFacts DEF Needed

LEMMA NotPanicked ==
  ASSUME NEW l, NEW s, NEW K, NEW M, NEW U, NEW F, Mapped(l, s, K, M, U, F)
  PROVE  s.panic = FALSE
BY DEF Mapped, Space, Room

LEMMA SameBootDir ==
  ASSUME NEW l, NEW s, NEW r, BootOK(l, s), r.mem[Boot(l)] = s.mem[Boot(l)]
  PROVE  BootOK(l, r)
BY DEF BootOK

LEMMA LoopNext ==
  ASSUME NEW l \in Layouts, NEW n, NEW s, NEW kp, NEW sp, NEW lo \in Nat, NEW hi \in Nat,
         AtLoop(l, n, s, kp, sp, lo, hi), l.text <= lo, hi <= End(l), n < KvaBase + hi,
         NEW perm, \A o \in Nat : lo <= o /\ o < hi => KRights(l, o) = perm,
         NEW r, r = Map4K(l, s, Dir(l), n, kva_to_pa(n), perm)
  PROVE  \/ r.panic = TRUE /\ AtPanic(l, r, sp)
         \/ r.panic = FALSE /\ AtLoop(l, n + 1, r, kp, sp, lo, hi)
<1>1. PICK o \in Nat : /\ n = KvaBase + o /\ lo <= o /\ o <= hi
                       /\ Count(l, s, 1 + (o \div T), n \div T)
  BY DEF AtLoop
<1>2. /\ KvaBase \in Nat /\ l.text \in Nat /\ l.memTop \in Nat /\ End(l) \in Nat
      /\ End(l) <= l.memTop /\ End(l) % T = 0
  BY ConstFacts, LayoutFacts, EndFacts
<1>3. n \in Nat /\ o < hi /\ l.text <= o /\ o < l.memTop /\ o < End(l)
  BY <1>1, <1>2
<1>4. KRights(l, o) = perm
  BY <1>1, <1>3
<1>5. Mapped(l, s, Upto(l, n), {}, {}, {}) /\ Building(l, s, kp, sp)
  BY DEF AtLoop
<1>6. \/ r.panic = TRUE /\ r.mem[Boot(l)] = s.mem[Boot(l)]
         /\ Boot(l) - Low(l) <= 1 + (o \div T)
      \/ /\ Mapped(l, r, Upto(l, n + 1), {}, {}, {})
         /\ Count(l, r, 1 + ((o + 1) \div T), (n + 1) \div T)
         /\ r.mem[Boot(l)] = s.mem[Boot(l)]
  <2>1. r = Map4K(l, s, Dir(l), n, kva_to_pa(n), KRights(l, o))
    BY <1>4
  <2>2. KernelDone(l, s, r, o, n)
    BY <1>1, <1>3, <1>5, <2>1, KernelStep
  <2> QED
    BY <2>2 DEF KernelDone
<1>7. CASE r.panic = TRUE /\ r.mem[Boot(l)] = s.mem[Boot(l)]
           /\ Boot(l) - Low(l) <= 1 + (o \div T)
  <2>1. PICK k \in Nat : k = End(l) \div T /\ Needed(l) = k + UserPages + 5 /\ UserPages \in Nat
    BY NeededFacts
  <2>2. o \div T \in Nat /\ o \div T < k
    BY <1>2, <1>3, <2>1, Below, DivMod
  <2>3. Boot(l) \in Int /\ Low(l) \in Int
    BY LayoutFacts
  <2>4. Boot(l) - Low(l) < Needed(l)
    BY <1>7, <2>1, <2>2, <2>3
  <2>5. BootOK(l, r) /\ sp = Boot(l)
    BY <1>5, <1>7, SameBootDir DEF Building
  <2> QED
    BY <1>7, <2>4, <2>5 DEF AtPanic
<1>8. CASE /\ Mapped(l, r, Upto(l, n + 1), {}, {}, {})
           /\ Count(l, r, 1 + ((o + 1) \div T), (n + 1) \div T)
           /\ r.mem[Boot(l)] = s.mem[Boot(l)]
  <2>1. Building(l, r, kp, sp)
    BY <1>5, <1>8, SameBootDir DEF Building
  <2>2. PICK p \in Nat : p = o + 1
    OBVIOUS
  <2>3. n + 1 = KvaBase + p /\ lo <= p /\ p <= hi
    BY <1>1, <1>2, <1>3, <2>2
  <2>4. Count(l, r, 1 + (p \div T), (n + 1) \div T)
    BY <1>8, <2>2
  <2>5. r.panic = FALSE
    BY <1>8, NotPanicked
  <2> QED
    BY <1>8, <2>1, <2>3, <2>4, <2>5 DEF AtLoop
<1> QED
  BY <1>6, <1>7, <1>8

LEMMA LoopOver ==
  ASSUME NEW l \in Layouts, NEW n, NEW s, NEW kp, NEW sp, NEW lo \in Nat, NEW hi \in Nat,
         NEW more \in Nat, hi <= more, AtLoop(l, n, s, kp, sp, lo, hi), n >= KvaBase + hi
  PROVE  AtLoop(l, n, s, kp, sp, hi, more)
<1>1. PICK o \in Nat : /\ n = KvaBase + o /\ lo <= o /\ o <= hi
                       /\ Count(l, s, 1 + (o \div T), n \div T)
  BY DEF AtLoop
<1>2. KvaBase \in Nat
  BY ConstFacts
<1>3. o = hi /\ o <= more
  BY <1>1, <1>2
<1>4. hi <= o
  BY <1>3
<1> QED
  BY <1>1, <1>3, <1>4 DEF AtLoop

LEMMA LoopsOver ==
  ASSUME NEW l \in Layouts, NEW n, NEW s, NEW kp, NEW sp,
         AtLoop(l, n, s, kp, sp, l.data, End(l)), n >= KvaBase + End(l)
  PROVE  AtMega(l, n, s, kp, sp)
<1>1. PICK o \in Nat : /\ n = KvaBase + o /\ l.data <= o /\ o <= End(l)
                       /\ Count(l, s, 1 + (o \div T), n \div T)
  BY DEF AtLoop
<1>2. /\ KvaBase \in Nat /\ End(l) \in Nat /\ End(l) <= l.memTop /\ End(l) % T = 0
      /\ KvaBase % T = 0 /\ l.memTop \in Nat /\ KvaBase + l.memTop <= MmioBase /\ MmioBase \in Nat
      /\ l.text \in Nat /\ End(l) \div T \in Nat
  BY ConstFacts, LayoutFacts, EndFacts
<1>3. o = End(l) /\ n \in Nat /\ n <= MmioBase
  BY <1>1, <1>2
<1>4. n % T = 0 /\ n \div T \in Index /\ n \in Pages
  <2>1. (KvaBase + o) % T = o % T
    BY <1>2, Shift
  <2>2. MmioBase \in 0..T*T-1
    BY ConstFacts DEF Pages
  <2>3. PICK z \in Nat : z = T*T
    BY TableSize
  <2>4. n \in Pages
    BY <1>3, <2>2, <2>3 DEF Pages
  <2> QED
    BY <1>1, <1>2, <1>3, <2>1, <2>4, PageIndex
<1>5. /\ Mapped(l, s, Upto(l, n), {}, {}, {}) /\ Building(l, s, kp, sp)
  BY DEF AtLoop
<1>6. DE(l, s, n \div T) = Invalid
  <2>1. PICK t \in Nat : t = KvaBase + l.text
    BY <1>2
  <2>2. Tight(l, s) /\ \A w \in Pages \ (t .. n - 1) : View(l, s, w) = Invalid
    BY <1>5, <2>1 DEF Mapped, Space, Upto
  <2>3. \A w \in Pages : w \div T = n \div T => w \notin t .. n - 1
    <3> TAKE w \in Pages
    <3> HAVE w \div T = n \div T
    <3>1. w \in Nat
      BY PageIndex
    <3>2. w \in n..n+T-1
      BY <1>3, <1>4, <3>1, Mega
    <3>3. w >= n
      BY <1>3, <3>2
    <3> QED
      BY <1>3, <3>1, <3>3
  <2> QED
    BY <1>4, <2>2, <2>3 DEF Tight
<1>7. Boot(l) - s.top <= (1 + (End(l) \div T)) + 0
  BY <1>1, <1>3, <1>6 DEF Count
<1>8. Boot(l) - s.top <= 1 + (End(l) \div T)
  BY <1>2, <1>7
<1>9. End(l) <= o /\ o <= l.memTop /\ o % T = 0
  BY <1>2, <1>3
<1> QED
  BY <1>1, <1>5, <1>8, <1>9 DEF AtMega

LEMMA MegaNext ==
  ASSUME NEW l \in Layouts, NEW n, NEW s, NEW kp, NEW sp, AtMega(l, n, s, kp, sp),
         n < KvaBase + l.memTop,
         NEW r, r = vm_map_4m(s, Dir(l), n, kva_to_pa(n), KERNEL_RW)
  PROVE  r.panic = FALSE /\ AtMega(l, n + T, r, kp, sp)
<1>1. PICK o \in Nat : n = KvaBase + o /\ End(l) <= o /\ o <= l.memTop /\ o % T = 0
  BY DEF AtMega
<1>2. /\ KvaBase \in Nat /\ End(l) \in Nat /\ l.memTop \in Nat /\ l.data \in Nat /\ l.imageEnd \in Nat
      /\ l.data <= l.imageEnd /\ l.imageEnd <= End(l) /\ T \in Nat
  BY ConstFacts, LayoutFacts, EndFacts, TableSize
<1>3. n \in Nat /\ o < l.memTop /\ l.data <= o
  BY <1>1, <1>2
<1>4. Mapped(l, s, Upto(l, n), {}, {}, {}) /\ Building(l, s, kp, sp)
      /\ Boot(l) - s.top <= 1 + (End(l) \div T)
  BY DEF AtMega
<1>5. /\ Mapped(l, r, Upto(l, n + T), {}, {}, {})
      /\ r.top = s.top /\ r.panic = FALSE /\ r.mem[Boot(l)] = s.mem[Boot(l)]
      /\ o + T <= l.memTop /\ (o + T) % T = 0
  <2>1. MegaDone(l, s, r, o, n)
    BY <1>1, <1>3, <1>4, MegaStep
  <2> QED
    BY <2>1 DEF MegaDone
<1>6. Building(l, r, kp, sp)
  BY <1>4, <1>5, SameBootDir DEF Building
<1>7. PICK p \in Nat : p = o + T
  BY <1>2
<1>8. n + T = KvaBase + p /\ End(l) <= p /\ p <= l.memTop /\ p % T = 0
  BY <1>1, <1>2, <1>5, <1>7
<1> QED
  BY <1>4, <1>5, <1>6, <1>8 DEF AtMega

LEMMA MegaOver ==
  ASSUME NEW l \in Layouts, NEW n, NEW s, NEW kp, NEW sp, AtMega(l, n, s, kp, sp),
         n >= KvaBase + l.memTop,
         NEW r, r = vm_map_4m(s, Dir(l), MmioBase, MmioBase, KERNEL_RW)
  PROVE  r.panic = FALSE /\ AtSwitch(l, r, kp, sp)
<1>1. PICK o \in Nat : n = KvaBase + o /\ End(l) <= o /\ o <= l.memTop /\ o % T = 0
  BY DEF AtMega
<1>2. KvaBase \in Nat /\ l.memTop \in Nat
  BY ConstFacts, LayoutFacts
<1>3. n - 1 = KvaBase + (l.memTop - 1)
  BY <1>1, <1>2
<1>4. Upto(l, n) = KAll(l)
  BY <1>3 DEF KAll, Upto
<1>5. Mapped(l, s, KAll(l), {}, {}, {}) /\ Building(l, s, kp, sp)
      /\ Boot(l) - s.top <= 1 + (End(l) \div T)
  BY <1>4 DEF AtMega
<1>6. /\ Mapped(l, r, KAll(l), MAll, {}, {})
      /\ r.top = s.top /\ r.panic = FALSE /\ r.mem[Boot(l)] = s.mem[Boot(l)]
  BY <1>5, MmioStep
<1>7. Building(l, r, kp, sp)
  BY <1>5, <1>6, SameBootDir DEF Building
<1> QED
  BY <1>5, <1>6, <1>7 DEF AtSwitch

LEMMA HaltPanics ==
  ASSUME NEW l, NEW s, NEW U, NEW F, Mapped(l, s, KAll(l), MAll, U, F),
         NEW r, NEW n, Halt(l, s, r, KAll(l) \cup MAll, n), Boot(l) - Low(l) < Needed(l)
  PROVE  r.panic = TRUE /\ AtPanic(l, r, Dir(l))
<1>1. KernelAt(l, s, KAll(l)) /\ MmioAt(l, s, MAll)
  BY DEF Mapped
<1>2. r.panic = TRUE /\ \A v \in KAll(l) \cup MAll : View(l, r, v) = View(l, s, v)
  BY DEF Halt
<1>3. KernelAt(l, r, KAll(l)) /\ MmioAt(l, r, MAll)
  BY <1>1, <1>2 DEF KernelAt, MmioAt
<1> QED
  BY <1>2, <1>3 DEF AtPanic

\* The pool ran out after at most k + UserPages + 4 pages.
LEMMA TooSmall ==
  ASSUME NEW l \in Layouts, NEW s, NEW r, NEW W, NEW n \in Int, Halt(l, s, r, W, n),
         n <= (End(l) \div T) + UserPages + 4
  PROVE  Boot(l) - Low(l) < Needed(l)
<1>1. PICK k \in Nat : k = End(l) \div T /\ Needed(l) = k + UserPages + 5 /\ UserPages \in Nat
  BY NeededFacts
<1>2. Boot(l) \in Int /\ Low(l) \in Int /\ Boot(l) - Low(l) <= n
  BY LayoutFacts DEF Halt
<1> QED
  BY <1>1, <1>2

LEMMA UserNext ==
  ASSUME NEW l \in Layouts, NEW n, NEW s, NEW kp, NEW sp, AtUser(l, n, s, kp, sp),
         n < UserPages, NEW v, v = UserStart + n, NEW a, a = AllocZ(l, s),
         NEW r, r = Map4K(l, a, Dir(l), v, a.top, USER_RWX)
  PROVE  \/ r.panic = TRUE /\ AtPanic(l, r, sp)
         \/ r.panic = FALSE /\ AtUser(l, n + 1, r, kp, sp)
<1>1. /\ UserStart \in Nat /\ UserPages \in Nat /\ UserPages < T /\ T \in Nat /\ UserStart % T = 0
  BY ConstFacts, TableSize
<1>2. PICK k \in Nat : k = End(l) \div T
  BY EndFacts
<1>3. n \in Nat /\ n <= UserPages /\ kp = Dir(l) /\ sp = Dir(l)
  BY <1>1 DEF AtUser
<1>4. PICK c \in Int : c = (1 + k) + n
  BY <1>3
<1>5. PICK U : U = UserStart .. (UserStart + n) - 1
  OBVIOUS
<1>6. Mapped(l, s, KAll(l), MAll, U, {}) /\ Count(l, s, c, UserStart \div T)
  BY <1>2, <1>4, <1>5 DEF AtUser
<1>7. v \div T = UserStart \div T
  <2>1. n \in 0..T-1
    BY <1>1, <1>3
  <2>2. n \div T = 0 /\ UserStart \div T \in Nat
    BY <1>1, <2>1, Small, DivMod
  <2>3. (UserStart + n) \div T = (UserStart \div T) + (n \div T)
    BY <1>1, <1>3, Shift
  <2> QED
    BY <2>2, <2>3
<1>8. U \subseteq UAll /\ v \in UAll /\ v \notin U
      /\ U \cup {v} = UserStart .. (UserStart + (n + 1)) - 1
  <2>1. PICK e \in Nat : e = UserStart + UserPages
    BY <1>1
  <2>2. UAll = (UserStart .. e - 1) \cup {UserStack - 1}
    <3>1. e - 1 = UserStart + (UserPages - 1)
      BY <1>1, <2>1
    <3> QED
      BY <3>1 DEF UAll
  <2>3. U \subseteq UserStart .. e - 1 /\ v \in UserStart .. e - 1 /\ v \notin U
    BY <1>1, <1>3, <1>5, <2>1
  <2>4. U \cup {v} = UserStart .. (UserStart + (n + 1)) - 1
    BY <1>1, <1>3, <1>5
  <2> QED
    BY <2>2, <2>3, <2>4
<1>9. Halt(l, s, r, KAll(l) \cup MAll, c + 1) \/ UserAdded(l, s, r, U, v, c)
  BY <1>6, <1>7, <1>8, UserStep
<1>10. CASE Halt(l, s, r, KAll(l) \cup MAll, c + 1)
  <2>1. PICK d \in Int : d = c + 1
    OBVIOUS
  <2>2. d <= (End(l) \div T) + UserPages + 4
    BY <1>1, <1>2, <1>3, <1>4, <2>1
  <2>3. Boot(l) - Low(l) < Needed(l)
    BY <1>10, <2>1, <2>2, TooSmall
  <2> QED
    BY <1>3, <1>6, <1>10, <2>3, HaltPanics
<1>11. CASE UserAdded(l, s, r, U, v, c)
  <2>1. Mapped(l, r, KAll(l), MAll, UserStart .. (UserStart + (n + 1)) - 1, {})
    BY <1>8, <1>11 DEF UserAdded
  <2>2. Count(l, r, (1 + (End(l) \div T)) + (n + 1), UserStart \div T)
    <3>1. c + 1 = (1 + (End(l) \div T)) + (n + 1)
      BY <1>2, <1>3, <1>4
    <3> QED
      BY <1>7, <1>11, <3>1 DEF UserAdded
  <2>3. n + 1 \in 0..UserPages /\ r.panic = FALSE
    <3>1. n + 1 \in 0..UserPages
      BY <1>1, <1>3
    <3>2. r.panic = FALSE
      BY <2>1 DEF Mapped, Space, Room
    <3> QED
      BY <3>1, <3>2
  <2> QED
    BY <1>3, <2>1, <2>2, <2>3 DEF AtUser
<1> QED
  BY <1>9, <1>10, <1>11

LEMMA UserOver ==
  ASSUME NEW l \in Layouts, NEW s, NEW kp, NEW sp, AtUser(l, UserPages, s, kp, sp),
         NEW v, v = UserStack - 1, NEW a, a = AllocZ(l, s),
         NEW r, r = Map4K(l, a, Dir(l), v, a.top, USER_RW)
  PROVE  \/ r.panic = TRUE /\ AtPanic(l, r, sp)
         \/ r.panic = FALSE /\ AtFb(l, 0, r, kp, sp)
<1>1. /\ UserStart \in Nat /\ UserPages \in Nat /\ UserPages < T /\ T \in Nat /\ UserStart % T = 0
      /\ UserStack = UserStart + T /\ FbVa \in Nat /\ 0 < T /\ FbPages \in Nat
  BY ConstFacts, TableSize
<1>2. PICK k \in Nat : k = End(l) \div T
  BY EndFacts
<1>3. kp = Dir(l) /\ sp = Dir(l)
  BY DEF AtUser
<1>4. PICK c \in Int : c = (1 + k) + UserPages
  BY <1>1
<1>5. PICK U : U = UserStart .. (UserStart + UserPages) - 1
  OBVIOUS
<1>6. Mapped(l, s, KAll(l), MAll, U, {}) /\ Count(l, s, c, UserStart \div T)
  BY <1>2, <1>4, <1>5 DEF AtUser
<1>7. v \div T = UserStart \div T
  <2>1. PICK o \in 0..T-1 : o = T - 1
    BY <1>1
  <2>2. o \div T = 0 /\ UserStart \div T \in Nat /\ o \in Nat
    BY <1>1, <2>1, Small, DivMod
  <2>3. (UserStart + o) \div T = (UserStart \div T) + (o \div T)
    BY <1>1, <2>2, Shift
  <2>4. v = UserStart + o
    BY <1>1, <2>1
  <2> QED
    BY <2>2, <2>3, <2>4
<1>8. U \subseteq UAll /\ v \in UAll /\ v \notin U /\ U \cup {v} = UAll
  <2>1. (UserStart + UserPages) - 1 = UserStart + (UserPages - 1)
    BY <1>1
  <2>2. UAll = U \cup {v}
    BY <1>5, <2>1 DEF UAll
  <2>3. v \notin U
    BY <1>1, <1>5
  <2> QED
    BY <2>2, <2>3
<1>9. Halt(l, s, r, KAll(l) \cup MAll, c + 1) \/ UserAdded(l, s, r, U, v, c)
  BY <1>6, <1>7, <1>8, UserStep
<1>10. CASE Halt(l, s, r, KAll(l) \cup MAll, c + 1)
  <2>1. PICK d \in Int : d = c + 1
    OBVIOUS
  <2>2. d <= (End(l) \div T) + UserPages + 4
    BY <1>1, <1>2, <1>4, <2>1
  <2>3. Boot(l) - Low(l) < Needed(l)
    BY <1>10, <2>1, <2>2, TooSmall
  <2> QED
    BY <1>3, <1>6, <1>10, <2>3, HaltPanics
<1>11. CASE UserAdded(l, s, r, U, v, c)
  <2>1. Mapped(l, r, KAll(l), MAll, UAll, {}) /\ Boot(l) - r.top <= c + 2
    BY <1>8, <1>11 DEF UserAdded
  <2>2. FbVa .. (FbVa + 0) - 1 = {}
    BY <1>1
  <2>3. PICK d \in Int : d = (1 + (End(l) \div T)) + UserPages + 2
    BY <1>1, <1>2
  <2>4. Boot(l) - r.top <= d + 0 /\ Boot(l) - r.top <= d + 1
    <3>1. Boot(l) \in Int /\ r.top \in Int
      BY <2>1, DirInRam, LayoutFacts DEF Mapped, Space
    <3> QED
      BY <1>1, <1>2, <1>4, <2>1, <2>3, <3>1
  <2>5. Count(l, r, d, FbVa \div T)
    BY <2>4 DEF Count
  <2>6. 0 \in 0..FbPages /\ r.panic = FALSE
    <3>1. 0 \in 0..FbPages
      BY <1>1
    <3>2. r.panic = FALSE
      BY <2>1 DEF Mapped, Space, Room
    <3> QED
      BY <3>1, <3>2
  <2> QED
    BY <1>3, <2>1, <2>2, <2>3, <2>5, <2>6 DEF AtFb
<1> QED
  BY <1>9, <1>10, <1>11

LEMMA FbNext ==
  ASSUME NEW l \in Layouts, NEW n, NEW s, NEW kp, NEW sp, AtFb(l, n, s, kp, sp),
         n < FbPages, NEW v, v = FbVa + n, NEW pa, pa = KpaBase + l.fb + n,
         NEW r, r = Map4K(l, s, Dir(l), v, pa, USER_RW)
  PROVE  \/ r.panic = TRUE /\ AtPanic(l, r, sp)
         \/ r.panic = FALSE /\ AtFb(l, n + 1, r, kp, sp)
<1>1. /\ FbVa \in Nat /\ FbPages \in Nat /\ FbPages <= T /\ T \in Nat /\ FbVa % T = 0
      /\ KpaBase \in Nat /\ l.fb \in Nat /\ UserPages \in Nat
  BY ConstFacts, TableSize, LayoutFacts
<1>2. PICK k \in Nat : k = End(l) \div T
  BY EndFacts
<1>3. n \in Nat /\ n <= FbPages /\ kp = Dir(l) /\ sp = Dir(l)
  BY <1>1 DEF AtFb
<1>4. PICK c \in Int : c = (1 + k) + UserPages + 2
  BY <1>1
<1>5. PICK F : F = FbVa .. (FbVa + n) - 1
  OBVIOUS
<1>6. Mapped(l, s, KAll(l), MAll, UAll, F) /\ Count(l, s, c, FbVa \div T)
  BY <1>2, <1>4, <1>5 DEF AtFb
<1>7. v \div T = FbVa \div T
  <2>1. n \in 0..T-1
    BY <1>1, <1>3
  <2>2. n \div T = 0 /\ FbVa \div T \in Nat
    BY <1>1, <2>1, Small, DivMod
  <2>3. (FbVa + n) \div T = (FbVa \div T) + (n \div T)
    BY <1>1, <1>3, Shift
  <2> QED
    BY <2>2, <2>3
<1>8. F \subseteq FAll /\ v \in FAll /\ v \notin F
      /\ F \cup {v} = FbVa .. (FbVa + (n + 1)) - 1
  <2>1. PICK e \in Nat : e = FbVa + FbPages
    BY <1>1
  <2>2. FAll = FbVa .. e - 1
    <3>1. e - 1 = FbVa + (FbPages - 1)
      BY <1>1, <2>1
    <3> QED
      BY <3>1 DEF FAll
  <2>3. F \subseteq FbVa .. e - 1 /\ v \in FbVa .. e - 1 /\ v \notin F
    BY <1>1, <1>3, <1>5, <2>1
  <2>4. F \cup {v} = FbVa .. (FbVa + (n + 1)) - 1
    BY <1>1, <1>3, <1>5
  <2> QED
    BY <2>2, <2>3, <2>4
<1>9. pa \in Int /\ pa = KpaBase + l.fb + (v - FbVa)
  BY <1>1, <1>3
<1>10. Halt(l, s, r, KAll(l) \cup MAll, c) \/ FbAdded(l, s, r, F, v, c)
  BY <1>6, <1>7, <1>8, <1>9, FbStep
<1>11. CASE Halt(l, s, r, KAll(l) \cup MAll, c)
  <2>1. c <= (End(l) \div T) + UserPages + 4
    BY <1>1, <1>2, <1>4
  <2>2. Boot(l) - Low(l) < Needed(l)
    BY <1>11, <2>1, TooSmall
  <2> QED
    BY <1>3, <1>6, <1>11, <2>2, HaltPanics
<1>12. CASE FbAdded(l, s, r, F, v, c)
  <2>1. Mapped(l, r, KAll(l), MAll, UAll, FbVa .. (FbVa + (n + 1)) - 1)
    BY <1>8, <1>12 DEF FbAdded
  <2>2. Count(l, r, (1 + (End(l) \div T)) + UserPages + 2, FbVa \div T)
    BY <1>2, <1>4, <1>7, <1>12 DEF FbAdded
  <2>3. n + 1 \in 0..FbPages /\ r.panic = FALSE
    <3>1. n + 1 \in 0..FbPages
      BY <1>1, <1>3
    <3>2. r.panic = FALSE
      BY <2>1 DEF Mapped, Space, Room
    <3> QED
      BY <3>1, <3>2
  <2> QED
    BY <1>3, <2>1, <2>2, <2>3 DEF AtFb
<1> QED
  BY <1>10, <1>11, <1>12

LEMMA FbOver ==
  ASSUME NEW l \in Layouts, NEW s, NEW kp, NEW sp, AtFb(l, FbPages, s, kp, sp)
  PROVE  /\ kp = Dir(l) /\ sp = Dir(l) /\ Mapped(l, s, KAll(l), MAll, UAll, FAll)
         /\ Boot(l) - s.top <= (1 + (End(l) \div T)) + UserPages + 3
<1>1. FbVa \in Nat /\ FbPages \in Nat /\ UserPages \in Nat
  BY ConstFacts
<1>2. PICK k \in Nat : k = End(l) \div T
  BY EndFacts
<1>3. (FbVa + FbPages) - 1 = FbVa + (FbPages - 1)
  BY <1>1
<1>4. Mapped(l, s, KAll(l), MAll, UAll, FAll)
  BY <1>3 DEF AtFb, FAll
<1>5. PICK c \in Int : c = (1 + k) + UserPages + 2
  BY <1>1
<1>6. Count(l, s, c, FbVa \div T)
  BY <1>2, <1>5 DEF AtFb
<1>7. Boot(l) - s.top <= c + 0 \/ Boot(l) - s.top <= c + 1
  BY <1>6 DEF Count
<1>8. Boot(l) \in Int /\ s.top \in Int
  BY <1>4, DirInRam, LayoutFacts DEF Mapped, Space
<1>9. Boot(l) - s.top <= (1 + k) + UserPages + 3
  BY <1>1, <1>5, <1>7, <1>8
<1> QED
  BY <1>2, <1>4, <1>9 DEF AtFb

LEMMA Go ==
  ASSUME NEW l, NEW n, NEW r, NEW kp, NEW sp, NEW next,
         \/ r.panic = TRUE /\ AtPanic(l, r, sp)
         \/ r.panic = FALSE /\ Phase(l, next, n, r, kp, sp),
         NEW c, c = IF r.panic THEN "panic" ELSE next
  PROVE  Phase(l, c, n, r, kp, sp)
<1>1. CASE r.panic = TRUE /\ AtPanic(l, r, sp)
  <2>1. c = "panic"
    BY <1>1
  <2> QED
    BY <1>1, <2>1 DEF Phase
<1>2. CASE r.panic = FALSE /\ Phase(l, next, n, r, kp, sp)
  <2>1. c = next
    BY <1>2
  <2> QED
    BY <1>2, <2>1
<1> QED
  BY <1>1, <1>2

\* start.S has filled the boot directory.
LEMMA BootDone ==
  ASSUME NEW l \in Layouts, NEW s, NEW kp, NEW sp, AtStart(l, s, kp, sp),
         NEW r, r = [s EXCEPT !.mem[Boot(l)] = [i \in Index |-> BE(l, i)]]
  PROVE  AtBoot(l, r, kp, Boot(l))
<1>1. s \in Vms(l) /\ s.panic = FALSE /\ kp = NoDir
  BY DEF AtStart
<1>2. PICK b \in RamOf(l) : b = Boot(l)
  BY LayoutFacts
<1>3. PICK d \in [Index -> Ptes] : d = [i \in Index |-> BE(l, i)]
  BY BootEntries
<1>4. r = [s EXCEPT !.mem[b] = d]
  BY <1>2, <1>3
<1>5. r \in Vms(l) /\ r.panic = s.panic /\ r.mem[b] = d
  BY <1>1, <1>4 DEF Vms
<1>6. \A i \in Index : d[i] = BE(l, i)
  BY <1>3
<1>7. BootOK(l, r)
  BY <1>2, <1>5, <1>6 DEF BootOK
<1> QED
  BY <1>1, <1>5, <1>7 DEF AtBoot

\* vmm_init() and the kernel's directory.
LEMMA InitDone ==
  ASSUME NEW l \in Layouts, NEW s, NEW kp, NEW sp, AtBoot(l, s, kp, sp),
         NEW z, z = [s EXCEPT !.top = Boot(l)], NEW r, r = AllocZ(l, z)
  PROVE  \/ r.panic = TRUE /\ AtPanic(l, r, sp)
         \/ r.panic = FALSE /\ AtLoop(l, KvaBase + l.text, r, r.top, sp, l.text, l.rodata)
<1>1. s \in Vms(l) /\ s.panic = FALSE /\ sp = Boot(l) /\ BootOK(l, s)
  BY DEF AtBoot
<1>2. Boot(l) \in Int /\ Low(l) \in Int /\ Dir(l) \in Int /\ Dir(l) = Boot(l) - 1
      /\ Boot(l) \in RamOf(l) /\ Low(l) <= Boot(l)
  <2>1. /\ Boot(l) = KpaBase + l.memTop - 2 /\ KpaBase \in Nat /\ l.memTop \in Nat
        /\ l.imageEnd \in Nat /\ l.imageEnd <= l.memTop - 2
    BY LayoutFacts, ConstFacts
  <2>2. Low(l) <= Boot(l)
    BY <2>1 DEF Low
  <2> QED
    BY <2>2, LayoutFacts
<1>3. z \in Vms(l) /\ z.top = Boot(l) /\ z.panic = FALSE /\ z.mem = s.mem
  BY <1>1, <1>2 DEF Vms
<1>4. CASE Low(l) = Boot(l)
  <2>1. r = [z EXCEPT !.panic = TRUE]
    BY <1>3, <1>4 DEF AllocZ
  <2>2. r.mem = s.mem /\ r.panic = TRUE
    BY <1>3, <2>1 DEF Vms
  <2>3. BootOK(l, r)
    BY <1>1, <2>2 DEF BootOK
  <2>4. Boot(l) - Low(l) < Needed(l)
    <3>1. PICK k \in Nat : Needed(l) = k + UserPages + 5 /\ UserPages \in Nat
      BY NeededFacts
    <3> QED
      BY <1>2, <1>4, <3>1
  <2> QED
    BY <1>1, <2>2, <2>3, <2>4 DEF AtPanic
<1>5. CASE Low(l) # Boot(l)
  <2>1. Dir(l) \in RamOf(l) /\ Low(l) <= Dir(l) /\ Boot(l) # Dir(l)
    BY <1>2, <1>5, LayoutFacts
  <2>2. z.top - 1 \in RamOf(l) /\ z.top # Low(l) /\ z.top - 1 = Dir(l)
    BY <1>2, <1>3, <1>5, <2>1
  <2>3. /\ r \in Vms(l) /\ r.top = Dir(l) /\ r.panic = FALSE
        /\ \A k \in Index : r.mem[Dir(l)][k] = Invalid
        /\ \A q \in RamOf(l) \ {Dir(l)} : r.mem[q] = s.mem[q]
    <3>0. Fresh(l, z, r)
      BY <1>3, <2>2, AllocFacts
    <3>1. /\ r \in Vms(l) /\ r.top = z.top - 1 /\ r.panic = z.panic
          /\ \A k \in Index : r.mem[r.top][k] = Invalid
          /\ \A q \in RamOf(l) \ {r.top} : r.mem[q] = z.mem[q]
      BY <3>0 DEF Fresh
    <3>2. r.top = Dir(l)
      BY <2>2, <3>1
    <3> QED
      BY <1>3, <3>1, <3>2
  <2>4. \A i \in Index : DE(l, r, i) = Invalid
    BY <2>3 DEF DE
  <2>5. \A v \in Pages : View(l, r, v) = Invalid
    <3> TAKE v \in Pages
    <3>1. v \div T \in Index
      BY PageIndex
    <3> QED
      BY <2>4, <3>1, InvalidType DEF View
  <2>6. Room(l, r)
    BY <1>2, <2>1, <2>3 DEF Room
  <2>7. TablesOK(l, r, r.top) /\ Tight(l, r)
    BY <2>4, InvalidType DEF TablesOK, Tight
  <2>8. Space(l, r, {})
    BY <2>5, <2>6, <2>7 DEF Space
  <2>9. PICK n \in Nat : n = KvaBase + l.text /\ l.text \in Nat /\ l.text <= l.rodata
    BY ConstFacts, LayoutFacts
  <2>10. Upto(l, n) = {}
    BY <2>9 DEF Upto
  <2>11. Mapped(l, r, Upto(l, n), {}, {}, {})
    <3>1. {} \cup {} \cup {} \cup {} = {}
      OBVIOUS
    <3>2. KernelAt(l, r, {}) /\ MmioAt(l, r, {}) /\ UserAt(l, r, {}) /\ FbAt(l, r, {})
      BY DEF KernelAt, MmioAt, UserAt, FbAt
    <3> QED
      BY <2>8, <2>10, <3>1, <3>2 DEF Mapped
  <2>12. Count(l, r, 1 + (l.text \div T), n \div T)
    <3>1. PICK k \in Nat : k = l.text \div T
      BY <2>9, DivMod
    <3>2. Boot(l) - r.top = 1
      BY <1>2, <2>3
    <3>3. Boot(l) - r.top <= (1 + k) + 0 /\ Boot(l) - r.top <= (1 + k) + 1
      BY <3>2
    <3> QED
      BY <3>1, <3>3 DEF Count
  <2>13. BootOK(l, r)
    BY <1>1, <1>2, <2>1, <2>3 DEF BootOK
  <2>14. \E o \in Nat : /\ n = KvaBase + o /\ l.text <= o /\ o <= l.rodata
                        /\ Count(l, r, 1 + (o \div T), n \div T)
    BY <2>9, <2>12
  <2> QED
    BY <1>1, <2>3, <2>9, <2>11, <2>13, <2>14 DEF AtLoop, Building
<1> QED
  BY <1>4, <1>5

LEMMA SwitchDone ==
  ASSUME NEW l \in Layouts, NEW s, NEW kp, NEW sp, AtSwitch(l, s, kp, sp)
  PROVE  AtUser(l, 0, s, kp, kp)
<1>1. /\ kp = Dir(l) /\ Mapped(l, s, KAll(l), MAll, {}, {})
      /\ Boot(l) - s.top <= 1 + (End(l) \div T)
  BY DEF AtSwitch, Building
<1>2. UserStart \in Nat /\ UserPages \in Nat
  BY ConstFacts
<1>3. UserStart .. (UserStart + 0) - 1 = {}
  BY <1>2
<1>4. PICK k \in Nat : k = End(l) \div T
  BY EndFacts
<1>5. Boot(l) \in Int /\ s.top \in Int
  BY <1>1, DirInRam, LayoutFacts DEF Mapped, Space
<1>6. Boot(l) - s.top <= ((1 + k) + 0) + 0 /\ Boot(l) - s.top <= ((1 + k) + 0) + 1
  BY <1>1, <1>4, <1>5
<1>7. Count(l, s, (1 + k) + 0, UserStart \div T)
  BY <1>6 DEF Count
<1>8. 0 \in 0..UserPages
  BY <1>2
<1> QED
  BY <1>1, <1>3, <1>4, <1>7, <1>8 DEF AtUser

LEMMA StackDone ==
  ASSUME NEW l \in Layouts, NEW s, NEW kp, NEW sp, AtStack(l, s, kp, sp),
         NEW a, a = AllocZ(l, s), NEW r,
         r = IF a.panic THEN a ELSE Store(a, a.top, T-1, EFrame)
  PROVE  \/ r.panic = TRUE /\ AtPanic(l, r, sp)
         \/ r.panic = FALSE /\ AtEnd(l, r, kp, sp)
<1>1. PICK k \in Nat : k = End(l) \div T /\ Needed(l) = k + UserPages + 5 /\ UserPages \in Nat
  BY NeededFacts
<1>2. PICK c \in Int : c = (1 + k) + UserPages + 3
  BY <1>1
<1>3. /\ kp = Dir(l) /\ sp = Dir(l) /\ Mapped(l, s, KAll(l), MAll, UAll, FAll)
      /\ ImageAt(l, s) /\ Boot(l) - s.top <= c
  BY <1>1, <1>2 DEF AtStack
<1>4. \/ Halt(l, s, r, KAll(l) \cup MAll, c)
      \/ Ready(l, r) /\ Boot(l) - r.top <= c + 1 /\ r.panic = FALSE
         /\ r.mem[Boot(l)] = s.mem[Boot(l)]
  BY <1>3, StackStep
<1>5. CASE Halt(l, s, r, KAll(l) \cup MAll, c)
  <2>1. c <= (End(l) \div T) + UserPages + 4
    BY <1>1, <1>2
  <2>2. Boot(l) - Low(l) < Needed(l)
    BY <1>5, <2>1, TooSmall
  <2> QED
    BY <1>3, <1>5, <2>2, HaltPanics
<1>6. CASE Ready(l, r) /\ Boot(l) - r.top <= c + 1 /\ r.panic = FALSE
  <2>1. c + 1 = Needed(l)
    BY <1>1, <1>2
  <2> QED
    BY <1>3, <1>6, <2>1 DEF AtEnd
<1> QED
  BY <1>4, <1>5, <1>6

-----------------------------------------------------------------------------
(* The invariant holds.                                                    *)

LEMMA InitInv == Init => IInv
<1> SUFFICES ASSUME Init PROVE IInv
  OBVIOUS
<1>1. layout \in Layouts /\ pc = "_start" /\ kpgdir = NoDir /\ satp = NoDir
  BY DEF Init
<1>2. PICK l \in Layouts : l = layout
  BY <1>1
<1>3. vm = [mem |-> [p \in RamOf(l) |-> Filled(Junk)], top |-> 0, panic |-> FALSE]
  BY <1>2 DEF Init, Ram, RamOf
<1>4. Filled(Junk) \in [Index -> Ptes]
  <2>1. Junk \in Ptes
    BY PteType DEF Junk, Kinds
  <2> QED
    BY <2>1 DEF Filled
<1>5. vm \in Vms(l) /\ vm.panic = FALSE
  BY <1>3, <1>4 DEF Vms
<1>6. AtStart(l, vm, kpgdir, satp)
  BY <1>1, <1>5 DEF AtStart
<1> QED
  BY <1>1, <1>2, <1>6 DEF IInv, Phase

\* The rights of the pages from lo to hi.
Uniform(l, lo, hi, perm) == \A o \in Nat : lo <= o /\ o < hi => KRights(l, o) = perm

LoopMade(l, n, r, kp, sp, lo, hi) ==
  \/ r.panic = TRUE /\ AtPanic(l, r, sp)
  \/ r.panic = FALSE /\ AtLoop(l, n, r, kp, sp, lo, hi)

\* One pass of a kernel loop, as the action takes it.
LEMMA LoopAction ==
  ASSUME NEW l \in Layouts, NEW n, NEW s, NEW kp, NEW sp, NEW lo \in Nat, NEW hi \in Nat,
         AtLoop(l, n, s, kp, sp, lo, hi), l.text <= lo, hi <= End(l), n < KvaBase + hi,
         NEW perm, Uniform(l, lo, hi, perm),
         NEW r, r = Map4K(l, s, kp, n, kva_to_pa(n), perm)
  PROVE  LoopMade(l, n + 1, r, kp, sp, lo, hi)
<1>1. kp = Dir(l)
  BY DEF AtLoop, Building
<1>2. r = Map4K(l, s, Dir(l), n, kva_to_pa(n), perm)
  BY <1>1
<1>3. \A o \in Nat : lo <= o /\ o < hi => KRights(l, o) = perm
  BY DEF Uniform
<1>4. \/ r.panic = TRUE /\ AtPanic(l, r, sp)
      \/ r.panic = FALSE /\ AtLoop(l, n + 1, r, kp, sp, lo, hi)
  BY <1>2, <1>3, LoopNext
<1> QED
  BY <1>4 DEF LoopMade

\* The bounds and the rights of the three kernel loops.
LEMMA LoopBounds ==
  ASSUME NEW l \in Layouts
  PROVE  /\ l.text \in Nat /\ l.rodata \in Nat /\ l.data \in Nat /\ End(l) \in Nat
         /\ l.text <= l.rodata /\ l.text <= l.data /\ l.rodata <= l.data
         /\ l.data <= End(l) /\ l.rodata <= End(l)
         /\ Uniform(l, l.text, l.rodata, KERNEL_RX)
         /\ Uniform(l, l.rodata, l.data, KERNEL_RO)
         /\ Uniform(l, l.data, End(l), KERNEL_RW)
<1>1. /\ l.text \in Nat /\ l.rodata \in Nat /\ l.data \in Nat /\ l.imageEnd \in Nat /\ End(l) \in Nat
      /\ l.text < l.rodata /\ l.rodata <= l.data /\ l.data <= l.imageEnd /\ l.imageEnd <= End(l)
  BY LayoutFacts, EndFacts
<1>2. /\ l.text <= l.rodata /\ l.text <= l.data /\ l.data <= End(l) /\ l.rodata <= End(l)
  BY <1>1
<1>3. \A o \in Nat : o < l.rodata => KRights(l, o) = KERNEL_RX
  BY DEF KRights
<1>4. \A o \in Nat : l.rodata <= o /\ o < l.data => KRights(l, o) = KERNEL_RO
  BY <1>1 DEF KRights
<1>5. \A o \in Nat : l.data <= o => KRights(l, o) = KERNEL_RW
  <2> TAKE o \in Nat
  <2> HAVE l.data <= o
  <2>1. ~(o < l.rodata) /\ ~(o < l.data)
    BY <1>1
  <2> QED
    BY <2>1 DEF KRights
<1> QED
  BY <1>1, <1>2, <1>3, <1>4, <1>5 DEF Uniform

\* What the phase lemmas say, as statements about the phase of the next label.
LEMMA Labels ==
  ASSUME NEW l, NEW n, NEW s, NEW kp, NEW sp
  PROVE  /\ AtBoot(l, s, kp, sp) => Phase(l, "start", n, s, kp, sp)
         /\ AtLoop(l, n, s, kp, sp, l.text, l.rodata) => Phase(l, "map_text", n, s, kp, sp)
         /\ AtLoop(l, n, s, kp, sp, l.rodata, l.data) => Phase(l, "map_rodata", n, s, kp, sp)
         /\ AtLoop(l, n, s, kp, sp, l.data, End(l)) => Phase(l, "map_data", n, s, kp, sp)
         /\ AtMega(l, n, s, kp, sp) => Phase(l, "map_mega", n, s, kp, sp)
         /\ AtSwitch(l, s, kp, sp) => Phase(l, "satp", n, s, kp, sp)
         /\ AtUser(l, n, s, kp, sp) => Phase(l, "user_pages", n, s, kp, sp)
         /\ AtFb(l, n, s, kp, sp) => Phase(l, "map_framebuffer", n, s, kp, sp)
         /\ AtStack(l, s, kp, sp) => Phase(l, "kstack", n, s, kp, sp)
         /\ AtEnd(l, s, kp, sp) => Phase(l, "user", n, s, kp, sp)
         /\ AtPanic(l, s, sp) => Phase(l, "panic", n, s, kp, sp)
BY DEF Phase

\* What the hardware sees through the kernel's directory.
LEMMA WalkView ==
  ASSUME NEW l, NEW v PROVE Walk(Dir(l), v) = View(l, vm, v)
BY DEF Walk, View, DE

\* What memcpy() leaves in memory.
LEMMA CopyFacts ==
  ASSUME NEW l \in Layouts, l = layout, satp = Dir(l), Mapped(l, vm, KAll(l), MAll, UAll, FAll), CopyUser
  PROVE  \E m : Copied(l, vm, m) /\ vm' = [vm EXCEPT !.mem = m]
<1> DEFINE Frame(n) == Walk(satp, UserStart + n).pa
           Who(p) == CHOOSE n \in 0..l.user-1 : Frame(n) = p
           m == [p \in RamOf(l) |-> IF \E n \in 0..l.user-1 : Frame(n) = p
                                    THEN Filled(Image(Who(p))) ELSE vm.mem[p]]
<1>1. vm' = [vm EXCEPT !.mem = m]
  <2>1. Ram = RamOf(layout)
    BY DEF Ram, RamOf
  <2> QED
    BY <2>1 DEF CopyUser
<1>2. \A n : Frame(n) = View(l, vm, UserStart + n).pa
  BY WalkView
<1> HIDE DEF Frame
<1>3. \A n \in 0..l.user-1 : Who(Frame(n)) \in 0..l.user-1 /\ Frame(Who(Frame(n))) = Frame(n)
  BY Zenon
<1>4. \A n \in 0..l.user-1 : Who(Frame(n)) = n
  <2> TAKE n \in 0..l.user-1
  <2>1. PICK k \in 0..l.user-1 : k = Who(Frame(n))
    BY <1>3
  <2>2. Frame(k) = Frame(n)
    BY <1>3, <2>1
  <2>3. \A j \in 0..l.user-1 : j # n => Frame(j) # Frame(n)
    BY <1>2, Frames
  <2> QED
    BY <2>1, <2>2, <2>3
<1> HIDE DEF Who
<1>5. \A n \in 0..l.user-1 : Frame(n) \in RamOf(l)
  BY <1>2, Frames
<1>6. m = [p \in RamOf(l) |-> m[p]]
  OBVIOUS
<1>7. ASSUME NEW n \in 0..l.user-1 PROVE m[Frame(n)] = Filled(Image(n))
  BY <1>4, <1>5
<1>8. ASSUME NEW p \in RamOf(l), \A n \in 0..l.user-1 : Frame(n) # p PROVE m[p] = vm.mem[p]
  BY <1>8
<1> HIDE DEF m
<1>9. Copied(l, vm, m)
  BY <1>2, <1>6, <1>7, <1>8 DEF Copied
<1> QED
  BY <1>1, <1>9

LEMMA NextInv == IInv /\ [Next]_vars => IInv'
<1> SUFFICES ASSUME IInv, [Next]_vars PROVE IInv'
  OBVIOUS
<1>1. PICK l \in Layouts : l = layout
  BY DEF IInv
<1>2. Phase(l, pc, va, vm, kpgdir, satp)
  BY <1>1 DEF IInv
<1>3. BootDir = Boot(l) /\ Ram = RamOf(l) /\ DataEnd = End(l)
  BY <1>1 DEF BootDir, Boot, Ram, RamOf, DataEnd
<1>4. /\ \A s : ppage_alloc_z(s) = AllocZ(l, s)
      /\ \A s, d, v, pa, perm : vm_map_4k(s, d, v, pa, perm) = Map4K(l, s, d, v, pa, perm)
  BY <1>1, SameVmm
<1>5. ASSUME layout' = layout, Phase(l, pc', va', vm', kpgdir', satp') PROVE IInv'
  BY <1>1, <1>5 DEF IInv
<1>6. CASE BootPaging
  <2>1. /\ pc = "_start" /\ pc' = "start" /\ layout' = layout /\ va' = va /\ kpgdir' = kpgdir
        /\ satp' = Boot(l) /\ vm' = [vm EXCEPT !.mem[Boot(l)] = [i \in Index |-> BootEntry(i)]]
    BY <1>3, <1>6 DEF BootPaging
  <2>2. [i \in Index |-> BootEntry(i)] = [i \in Index |-> BE(l, i)]
    BY <1>1, SameBoot
  <2>3. AtStart(l, vm, kpgdir, satp)
    BY <1>2, <2>1 DEF Phase
  <2>4. AtBoot(l, vm', kpgdir', satp')
    BY <2>1, <2>2, <2>3, BootDone
  <2> QED
    BY <1>5, <2>1, <2>4, Labels
<1>7. CASE VmmInit
  <2>1. PICK z : z = [vm EXCEPT !.top = Boot(l)]
    OBVIOUS
  <2>2. PICK r : r = AllocZ(l, z)
    OBVIOUS
  <2>3. /\ pc = "start" /\ layout' = layout /\ va' = KvaBase + l.text /\ kpgdir' = r.top
        /\ satp' = satp /\ vm' = r /\ pc' = IF r.panic THEN "panic" ELSE "map_text"
    BY <1>1, <1>3, <1>4, <1>7, <2>1, <2>2 DEF VmmInit, Then
  <2>4. AtBoot(l, vm, kpgdir, satp)
    BY <1>2, <2>3 DEF Phase
  <2>5. \/ r.panic = TRUE /\ AtPanic(l, r, satp)
        \/ r.panic = FALSE /\ AtLoop(l, KvaBase + l.text, r, r.top, satp, l.text, l.rodata)
    BY <2>1, <2>2, <2>4, InitDone
  <2>6. \/ r.panic = TRUE /\ AtPanic(l, r, satp)
        \/ r.panic = FALSE /\ Phase(l, "map_text", va', r, r.top, satp)
    BY <2>3, <2>5, Labels
  <2>7. Phase(l, pc', va', r, r.top, satp)
    BY <2>3, <2>6, Go
  <2> QED
    BY <1>5, <2>3, <2>7
<1>8. ASSUME NEW lo \in Nat, NEW hi \in Nat, NEW perm, MapPages(hi, perm), l.text <= lo, hi <= End(l),
             AtLoop(l, va, vm, kpgdir, satp, lo, hi),
             Uniform(l, lo, hi, perm),
             \A n, s, kp, sp : AtLoop(l, n, s, kp, sp, lo, hi) => Phase(l, pc, n, s, kp, sp)
      PROVE  layout' = layout /\ Phase(l, pc', va', vm', kpgdir', satp')
  <2>1. PICK r : r = Map4K(l, vm, kpgdir, va, kva_to_pa(va), perm)
    OBVIOUS
  <2>2. /\ va < KvaBase + hi /\ layout' = layout /\ va' = va + 1 /\ kpgdir' = kpgdir /\ satp' = satp
        /\ vm' = r /\ pc' = IF r.panic THEN "panic" ELSE pc
    BY <1>4, <1>8, <2>1 DEF MapPages, Then
  <2>3. \/ r.panic = TRUE /\ AtPanic(l, r, satp)
        \/ r.panic = FALSE /\ AtLoop(l, va + 1, r, kpgdir, satp, lo, hi)
    <3>1. LoopMade(l, va + 1, r, kpgdir, satp, lo, hi)
      BY <1>8, <2>1, <2>2, LoopAction
    <3> QED
      BY <3>1 DEF LoopMade
  <2>4. \/ r.panic = TRUE /\ AtPanic(l, r, satp)
        \/ r.panic = FALSE /\ Phase(l, pc, va', r, kpgdir, satp)
    BY <1>8, <2>2, <2>3
  <2>5. Phase(l, pc', va', r, kpgdir, satp)
    BY <2>2, <2>4, Go
  <2> QED
    BY <2>2, <2>5
<1>9. CASE MapText
  <2>1. pc = "map_text" /\ MapPages(l.rodata, KERNEL_RX)
    BY <1>1, <1>9 DEF MapText
  <2>2. AtLoop(l, va, vm, kpgdir, satp, l.text, l.rodata)
    BY <1>2, <2>1 DEF Phase
  <2>3. \A n, s, kp, sp : AtLoop(l, n, s, kp, sp, l.text, l.rodata) => Phase(l, pc, n, s, kp, sp)
    BY <2>1, Labels
  <2>4. /\ l.text \in Nat /\ l.rodata \in Nat /\ l.text <= l.text /\ l.rodata <= End(l)
        /\ Uniform(l, l.text, l.rodata, KERNEL_RX)
    BY LoopBounds
  <2> QED
    BY <1>5, <1>8, <2>1, <2>2, <2>3, <2>4
<1>10. CASE MapRodata
  <2>1. pc = "map_rodata" /\ MapPages(l.data, KERNEL_RO)
    BY <1>1, <1>10 DEF MapRodata
  <2>2. AtLoop(l, va, vm, kpgdir, satp, l.rodata, l.data)
    BY <1>2, <2>1 DEF Phase
  <2>3. \A n, s, kp, sp : AtLoop(l, n, s, kp, sp, l.rodata, l.data) => Phase(l, pc, n, s, kp, sp)
    BY <2>1, Labels
  <2>4. /\ l.rodata \in Nat /\ l.data \in Nat /\ l.text <= l.rodata /\ l.data <= End(l)
        /\ Uniform(l, l.rodata, l.data, KERNEL_RO)
    BY LoopBounds
  <2> QED
    BY <1>5, <1>8, <2>1, <2>2, <2>3, <2>4
<1>11. CASE MapData
  <2>1. pc = "map_data" /\ MapPages(End(l), KERNEL_RW)
    BY <1>3, <1>11 DEF MapData
  <2>2. AtLoop(l, va, vm, kpgdir, satp, l.data, End(l))
    BY <1>2, <2>1 DEF Phase
  <2>3. \A n, s, kp, sp : AtLoop(l, n, s, kp, sp, l.data, End(l)) => Phase(l, pc, n, s, kp, sp)
    BY <2>1, Labels
  <2>4. PICK e \in Nat : e = End(l)
    BY LoopBounds
  <2>5. /\ l.data \in Nat /\ l.text <= l.data /\ e <= e
        /\ Uniform(l, l.data, e, KERNEL_RW)
    BY <2>4, LoopBounds
  <2> QED
    BY <1>5, <1>8, <2>1, <2>2, <2>3, <2>4, <2>5
<1>12. CASE MapTextDone
  <2>1. /\ pc = "map_text" /\ va >= KvaBase + l.rodata /\ pc' = "map_rodata" /\ layout' = layout
        /\ va' = va /\ vm' = vm /\ kpgdir' = kpgdir /\ satp' = satp
    BY <1>1, <1>12 DEF MapTextDone, LoopDone
  <2>2. AtLoop(l, va, vm, kpgdir, satp, l.text, l.rodata)
    BY <1>2, <2>1 DEF Phase
  <2>3. l.text \in Nat /\ l.rodata \in Nat /\ l.data \in Nat /\ l.rodata <= l.data
    BY LoopBounds
  <2>4. AtLoop(l, va, vm, kpgdir, satp, l.rodata, l.data)
    BY <2>1, <2>2, <2>3, LoopOver
  <2> QED
    BY <1>5, <2>1, <2>4, Labels
<1>13. CASE MapRodataDone
  <2>1. /\ pc = "map_rodata" /\ va >= KvaBase + l.data /\ pc' = "map_data" /\ layout' = layout
        /\ va' = va /\ vm' = vm /\ kpgdir' = kpgdir /\ satp' = satp
    BY <1>1, <1>13 DEF MapRodataDone, LoopDone
  <2>2. AtLoop(l, va, vm, kpgdir, satp, l.rodata, l.data)
    BY <1>2, <2>1 DEF Phase
  <2>3. l.rodata \in Nat /\ l.data \in Nat /\ End(l) \in Nat /\ l.data <= End(l)
    BY LoopBounds
  <2>4. AtLoop(l, va, vm, kpgdir, satp, l.data, End(l))
    BY <2>1, <2>2, <2>3, LoopOver
  <2> QED
    BY <1>5, <2>1, <2>4, Labels
<1>14. CASE MapDataDone
  <2>1. /\ pc = "map_data" /\ va >= KvaBase + End(l) /\ pc' = "map_mega" /\ layout' = layout
        /\ va' = va /\ vm' = vm /\ kpgdir' = kpgdir /\ satp' = satp
    BY <1>3, <1>14 DEF MapDataDone, LoopDone
  <2>2. AtLoop(l, va, vm, kpgdir, satp, l.data, End(l))
    BY <1>2, <2>1 DEF Phase
  <2>3. AtMega(l, va, vm, kpgdir, satp)
    BY <2>1, <2>2, LoopsOver
  <2> QED
    BY <1>5, <2>1, <2>3, Labels
<1>15. CASE MapMega
  <2>1. PICK r : r = vm_map_4m(vm, kpgdir, va, kva_to_pa(va), KERNEL_RW)
    OBVIOUS
  <2>2. /\ pc = "map_mega" /\ va < KvaBase + l.memTop /\ layout' = layout /\ va' = va + T
        /\ kpgdir' = kpgdir /\ satp' = satp /\ vm' = r /\ pc' = IF r.panic THEN "panic" ELSE pc
    BY <1>1, <1>15, <2>1 DEF MapMega, Then
  <2>3. AtMega(l, va, vm, kpgdir, satp)
    BY <1>2, <2>2 DEF Phase
  <2>4. kpgdir = Dir(l)
    BY <2>3 DEF AtMega, Building
  <2>5. r = vm_map_4m(vm, Dir(l), va, kva_to_pa(va), KERNEL_RW)
    BY <2>1, <2>4
  <2>6. r.panic = FALSE /\ AtMega(l, va + T, r, kpgdir, satp)
    BY <2>2, <2>3, <2>5, MegaNext
  <2>7. pc' = "map_mega"
    BY <2>2, <2>6
  <2>8. AtMega(l, va', vm', kpgdir', satp')
    BY <2>2, <2>6
  <2> QED
    BY <1>5, <2>2, <2>7, <2>8, Labels
<1>16. CASE MapMmio
  <2>1. PICK r : r = vm_map_4m(vm, kpgdir, MmioBase, MmioBase, KERNEL_RW)
    OBVIOUS
  <2>2. /\ pc = "map_mega" /\ va >= KvaBase + l.memTop /\ layout' = layout /\ va' = va
        /\ kpgdir' = kpgdir /\ satp' = satp /\ vm' = r /\ pc' = IF r.panic THEN "panic" ELSE "satp"
    BY <1>1, <1>16, <2>1 DEF MapMmio, Then
  <2>3. AtMega(l, va, vm, kpgdir, satp)
    BY <1>2, <2>2 DEF Phase
  <2>4. kpgdir = Dir(l)
    BY <2>3 DEF AtMega, Building
  <2>5. r = vm_map_4m(vm, Dir(l), MmioBase, MmioBase, KERNEL_RW)
    BY <2>1, <2>4
  <2>6. r.panic = FALSE /\ AtSwitch(l, r, kpgdir, satp)
    BY <2>2, <2>3, <2>5, MegaOver
  <2>7. pc' = "satp"
    BY <2>2, <2>6
  <2>8. AtSwitch(l, vm', kpgdir', satp')
    BY <2>2, <2>6
  <2> QED
    BY <1>5, <2>2, <2>7, <2>8, Labels
<1>17. CASE SwitchSatp
  <2>1. /\ pc = "satp" /\ layout' = layout /\ va' = 0 /\ vm' = vm /\ kpgdir' = kpgdir
        /\ satp' = kpgdir /\ pc' = "user_pages"
    BY <1>17 DEF SwitchSatp
  <2>2. AtSwitch(l, vm, kpgdir, satp)
    BY <1>2, <2>1 DEF Phase
  <2>3. AtUser(l, 0, vm, kpgdir, kpgdir)
    BY <2>2, SwitchDone
  <2>4. AtUser(l, va', vm', kpgdir', satp')
    BY <2>1, <2>3
  <2> QED
    BY <1>5, <2>1, <2>4, Labels
<1>18. CASE UserPage
  <2>1. PICK a : a = AllocZ(l, vm)
    OBVIOUS
  <2>2. PICK v : v = UserStart + va
    OBVIOUS
  <2>3. PICK r : r = Map4K(l, a, kpgdir, v, a.top, USER_RWX)
    OBVIOUS
  <2>4. MapNew(UserStart + va, USER_RWX) = r
    BY <1>4, <2>1, <2>2, <2>3 DEF MapNew
  <2>5. /\ pc = "user_pages" /\ va < UserPages /\ layout' = layout /\ va' = va + 1
        /\ kpgdir' = kpgdir /\ satp' = satp /\ vm' = r /\ pc' = IF r.panic THEN "panic" ELSE pc
    BY <1>18, <2>4 DEF UserPage, Then
  <2>6. AtUser(l, va, vm, kpgdir, satp)
    BY <1>2, <2>5 DEF Phase
  <2>7. kpgdir = Dir(l)
    BY <2>6 DEF AtUser
  <2>8. r = Map4K(l, a, Dir(l), v, a.top, USER_RWX)
    BY <2>3, <2>7
  <2>9. \/ r.panic = TRUE /\ AtPanic(l, r, satp)
        \/ r.panic = FALSE /\ AtUser(l, va + 1, r, kpgdir, satp)
    BY <2>1, <2>2, <2>5, <2>6, <2>8, UserNext
  <2>10. \/ r.panic = TRUE /\ AtPanic(l, r, satp)
         \/ r.panic = FALSE /\ Phase(l, pc, va', r, kpgdir, satp)
    BY <2>5, <2>9, Labels
  <2>11. Phase(l, pc', va', r, kpgdir, satp)
    BY <2>5, <2>10, Go
  <2> QED
    BY <1>5, <2>5, <2>11
<1>19. CASE UserStackPage
  <2>1. PICK a : a = AllocZ(l, vm)
    OBVIOUS
  <2>2. PICK v : v = UserStack - 1
    OBVIOUS
  <2>3. PICK r : r = Map4K(l, a, kpgdir, v, a.top, USER_RW)
    OBVIOUS
  <2>4. MapNew(UserStack - 1, USER_RW) = r
    BY <1>4, <2>1, <2>2, <2>3 DEF MapNew
  <2>5. /\ pc = "user_pages" /\ va = UserPages /\ layout' = layout /\ va' = 0
        /\ kpgdir' = kpgdir /\ satp' = satp /\ vm' = r
        /\ pc' = IF r.panic THEN "panic" ELSE "map_framebuffer"
    BY <1>19, <2>4 DEF UserStackPage, Then
  <2>6. AtUser(l, UserPages, vm, kpgdir, satp)
    BY <1>2, <2>5 DEF Phase
  <2>7. kpgdir = Dir(l)
    BY <2>6 DEF AtUser
  <2>8. r = Map4K(l, a, Dir(l), v, a.top, USER_RW)
    BY <2>3, <2>7
  <2>9. \/ r.panic = TRUE /\ AtPanic(l, r, satp)
        \/ r.panic = FALSE /\ AtFb(l, 0, r, kpgdir, satp)
    BY <2>1, <2>2, <2>6, <2>8, UserOver
  <2>10. \/ r.panic = TRUE /\ AtPanic(l, r, satp)
         \/ r.panic = FALSE /\ Phase(l, "map_framebuffer", va', r, kpgdir, satp)
    BY <2>5, <2>9, Labels
  <2>11. Phase(l, pc', va', r, kpgdir, satp)
    BY <2>5, <2>10, Go
  <2> QED
    BY <1>5, <2>5, <2>11
<1>20. CASE MapFramebuffer
  <2>1. PICK pa : pa = KpaBase + l.fb + va
    OBVIOUS
  <2>2. PICK v : v = FbVa + va
    OBVIOUS
  <2>3. PICK r : r = Map4K(l, vm, kpgdir, v, pa, USER_RW)
    OBVIOUS
  <2>4. vm_map_4k(vm, kpgdir, FbVa + va, KpaBase + layout.fb + va, USER_RW) = r
    BY <1>1, <1>4, <2>1, <2>2, <2>3
  <2>5. /\ pc = "map_framebuffer" /\ va < FbPages /\ layout' = layout /\ va' = va + 1
        /\ kpgdir' = kpgdir /\ satp' = satp /\ vm' = r /\ pc' = IF r.panic THEN "panic" ELSE pc
    BY <1>20, <2>4 DEF MapFramebuffer, Then
  <2>6. AtFb(l, va, vm, kpgdir, satp)
    BY <1>2, <2>5 DEF Phase
  <2>7. kpgdir = Dir(l)
    BY <2>6 DEF AtFb
  <2>8. r = Map4K(l, vm, Dir(l), v, pa, USER_RW)
    BY <2>3, <2>7
  <2>9. \/ r.panic = TRUE /\ AtPanic(l, r, satp)
        \/ r.panic = FALSE /\ AtFb(l, va + 1, r, kpgdir, satp)
    BY <2>1, <2>2, <2>5, <2>6, <2>8, FbNext
  <2>10. \/ r.panic = TRUE /\ AtPanic(l, r, satp)
         \/ r.panic = FALSE /\ Phase(l, pc, va', r, kpgdir, satp)
    BY <2>5, <2>9, Labels
  <2>11. Phase(l, pc', va', r, kpgdir, satp)
    BY <2>5, <2>10, Go
  <2> QED
    BY <1>5, <2>5, <2>11
<1>21. CASE CopyUser
  <2>1. /\ pc = "map_framebuffer" /\ va = FbPages /\ pc' = "kstack" /\ layout' = layout
        /\ va' = va /\ kpgdir' = kpgdir /\ satp' = satp
    BY <1>21 DEF CopyUser
  <2>2. AtFb(l, FbPages, vm, kpgdir, satp)
    BY <1>2, <2>1 DEF Phase
  <2>3. /\ kpgdir = Dir(l) /\ satp = Dir(l) /\ Mapped(l, vm, KAll(l), MAll, UAll, FAll)
        /\ Boot(l) - vm.top <= (1 + (End(l) \div T)) + UserPages + 3
    BY <2>2, FbOver
  <2>4. PICK m : Copied(l, vm, m) /\ vm' = [vm EXCEPT !.mem = m]
    BY <1>1, <1>21, <2>3, CopyFacts
  <2>6. PICK r : r = [vm EXCEPT !.mem = m]
    OBVIOUS
  <2>7. CopyMade(l, vm, r)
    BY <2>3, <2>4, <2>6, CopyStep
  <2>8. Mapped(l, r, KAll(l), MAll, UAll, FAll) /\ ImageAt(l, r) /\ r.top = vm.top
    BY <2>7 DEF CopyMade
  <2>9. AtStack(l, r, kpgdir, satp)
    BY <2>3, <2>8 DEF AtStack
  <2> QED
    BY <1>5, <2>1, <2>4, <2>6, <2>9, Labels
<1>22. CASE KernelStack
  <2>1. PICK a : a = AllocZ(l, vm)
    OBVIOUS
  <2>2. PICK r : r = IF a.panic THEN a ELSE Store(a, a.top, T-1, EFrame)
    OBVIOUS
  <2>3. /\ pc = "kstack" /\ layout' = layout /\ va' = va /\ kpgdir' = kpgdir /\ satp' = satp
        /\ vm' = r /\ pc' = IF r.panic THEN "panic" ELSE "user"
    BY <1>4, <1>22, <2>1, <2>2 DEF KernelStack, Then, Store
  <2>4. AtStack(l, vm, kpgdir, satp)
    BY <1>2, <2>3 DEF Phase
  <2>5. \/ r.panic = TRUE /\ AtPanic(l, r, satp)
        \/ r.panic = FALSE /\ AtEnd(l, r, kpgdir, satp)
    BY <2>1, <2>2, <2>4, StackDone
  <2>6. \/ r.panic = TRUE /\ AtPanic(l, r, satp)
        \/ r.panic = FALSE /\ Phase(l, "user", va', r, kpgdir, satp)
    BY <2>5, Labels
  <2>7. Phase(l, pc', va', r, kpgdir, satp)
    BY <2>3, <2>6, Go
  <2> QED
    BY <1>5, <2>3, <2>7
<1>23. CASE Halted \/ UNCHANGED vars
  BY <1>2, <1>5, <1>23 DEF Halted, vars
<1> QED
  BY <1>6, <1>7, <1>9, <1>10, <1>11, <1>12, <1>13, <1>14, <1>15, <1>16, <1>17, <1>18, <1>19,
     <1>20, <1>21, <1>22, <1>23 DEF Next


-----------------------------------------------------------------------------
(* What the invariant says of the four properties.                         *)

\* The active directory: none, the boot directory or the kernel's.
Active(l, s, sp) ==
  \/ sp = NoDir
  \/ sp = Boot(l) /\ BootOK(l, s)
  \/ sp = Dir(l) /\ KernelAt(l, s, KAll(l)) /\ MmioAt(l, s, MAll)

\* The directory being built or in use, in every phase that has one.
InUse(l, s, sp, K, M, U, F) ==
  /\ Mapped(l, s, K, M, U, F) /\ U \subseteq UAll /\ F \subseteq FAll
  /\ sp = Dir(l) \/ (sp = Boot(l) /\ BootOK(l, s))
  /\ F = {} \/ Boot(l) - s.top <= Needed(l)

LEMMA ActiveDir ==
  ASSUME NEW l, NEW c, NEW n, NEW s, NEW kp, NEW sp, Phase(l, c, n, s, kp, sp)
  PROVE  Active(l, s, sp)
<1>1. CASE c = "_start"
  BY <1>1 DEF Phase, AtStart, Active
<1>2. CASE c = "start"
  BY <1>2 DEF Phase, AtBoot, Active
<1>3. CASE c = "map_text"
  BY <1>3 DEF Phase, AtLoop, Building, Active
<1>4. CASE c = "map_rodata"
  BY <1>4 DEF Phase, AtLoop, Building, Active
<1>5. CASE c = "map_data"
  BY <1>5 DEF Phase, AtLoop, Building, Active
<1>6. CASE c = "map_mega"
  BY <1>6 DEF Phase, AtMega, Building, Active
<1>7. CASE c = "satp"
  BY <1>7 DEF Phase, AtSwitch, Building, Active
<1>8. CASE c = "user_pages"
  BY <1>8 DEF Phase, AtUser, Mapped, Active
<1>9. CASE c = "map_framebuffer"
  BY <1>9 DEF Phase, AtFb, Mapped, Active
<1>10. CASE c = "kstack"
  BY <1>10 DEF Phase, AtStack, Mapped, Active
<1>11. CASE c = "user"
  BY <1>11 DEF Phase, AtEnd, Ready, Mapped, Active
<1>12. CASE c = "panic"
  BY <1>12 DEF Phase, AtPanic, Active
<1> QED
  BY <1>1, <1>2, <1>3, <1>4, <1>5, <1>6, <1>7, <1>8, <1>9, <1>10, <1>11, <1>12 DEF Phase

LEMMA DirInUse ==
  ASSUME NEW l \in Layouts, NEW c, NEW n, NEW s, NEW kp, NEW sp, Phase(l, c, n, s, kp, sp),
         kp # NoDir, c # "panic"
  PROVE  kp = Dir(l) /\ \E K, M, U, F : InUse(l, s, sp, K, M, U, F)
<1>1. PICK k \in Nat : k = End(l) \div T /\ Needed(l) = k + UserPages + 5 /\ UserPages \in Nat
  BY NeededFacts
<1>2. ASSUME NEW lo, NEW hi, AtLoop(l, n, s, kp, sp, lo, hi)
      PROVE  kp = Dir(l) /\ InUse(l, s, sp, Upto(l, n), {}, {}, {})
  BY <1>2 DEF AtLoop, Building, InUse
<1>3. CASE c \in {"_start", "start"}
  BY <1>3 DEF Phase, AtStart, AtBoot
<1>4. CASE c = "map_text"
  BY <1>2, <1>4 DEF Phase
<1>5. CASE c = "map_rodata"
  BY <1>2, <1>5 DEF Phase
<1>6. CASE c = "map_data"
  BY <1>2, <1>6 DEF Phase
<1>7. CASE c = "map_mega"
  <2>1. AtMega(l, n, s, kp, sp)
    BY <1>7 DEF Phase
  <2>2. kp = Dir(l) /\ InUse(l, s, sp, Upto(l, n), {}, {}, {})
    BY <2>1 DEF AtMega, Building, InUse
  <2> QED
    BY <2>2
<1>8. CASE c = "satp"
  <2>1. AtSwitch(l, s, kp, sp)
    BY <1>8 DEF Phase
  <2>2. kp = Dir(l) /\ InUse(l, s, sp, KAll(l), MAll, {}, {})
    BY <2>1 DEF AtSwitch, Building, InUse
  <2> QED
    BY <2>2
<1>9. CASE c = "user_pages"
  <2>1. AtUser(l, n, s, kp, sp)
    BY <1>9 DEF Phase
  <2>2. PICK U : U = UserStart .. (UserStart + n) - 1
    OBVIOUS
  <2>3. U \subseteq UAll
    <3>1. UserStart \in Nat /\ UserPages \in Nat /\ n \in 0..UserPages
      BY <2>1, ConstFacts DEF AtUser
    <3> QED
      BY <2>2, <3>1 DEF UAll
  <2>4. kp = Dir(l) /\ InUse(l, s, sp, KAll(l), MAll, U, {})
    BY <2>1, <2>2, <2>3 DEF AtUser, InUse
  <2> QED
    BY <2>4
<1>10. CASE c = "map_framebuffer"
  <2>1. AtFb(l, n, s, kp, sp)
    BY <1>10 DEF Phase
  <2>2. PICK F : F = FbVa .. (FbVa + n) - 1
    OBVIOUS
  <2>3. F \subseteq FAll
    <3>1. FbVa \in Nat /\ FbPages \in Nat /\ n \in 0..FbPages
      BY <2>1, ConstFacts DEF AtFb
    <3> QED
      BY <2>2, <3>1 DEF FAll
  <2>4. kp = Dir(l) /\ sp = Dir(l) /\ Mapped(l, s, KAll(l), MAll, UAll, F)
    BY <2>1, <2>2 DEF AtFb
  <2>5. Boot(l) - s.top <= Needed(l)
    <3>1. Boot(l) \in Int /\ s.top \in Int
      BY <2>4, DirInRam, LayoutFacts DEF Mapped, Space
    <3>2. Count(l, s, (1 + k) + UserPages + 2, FbVa \div T)
      BY <1>1, <2>1 DEF AtFb
    <3>3. Boot(l) - s.top <= ((1 + k) + UserPages + 2) + 1
      BY <1>1, <3>1, <3>2 DEF Count
    <3> QED
      BY <1>1, <3>1, <3>3
  <2>6. InUse(l, s, sp, KAll(l), MAll, UAll, F)
    BY <2>3, <2>4, <2>5 DEF InUse
  <2> QED
    BY <2>4, <2>6
<1>11. CASE c = "kstack"
  <2>1. AtStack(l, s, kp, sp)
    BY <1>11 DEF Phase
  <2>2. kp = Dir(l) /\ sp = Dir(l) /\ Mapped(l, s, KAll(l), MAll, UAll, FAll)
        /\ Boot(l) - s.top <= (1 + k) + UserPages + 3
    BY <1>1, <2>1 DEF AtStack
  <2>3. Boot(l) - s.top <= Needed(l)
    <3>1. Boot(l) \in Int /\ s.top \in Int
      BY <2>2, DirInRam, LayoutFacts DEF Mapped, Space
    <3> QED
      BY <1>1, <2>2, <3>1
  <2>4. InUse(l, s, sp, KAll(l), MAll, UAll, FAll)
    BY <2>2, <2>3 DEF InUse
  <2> QED
    BY <2>2, <2>4
<1>12. CASE c = "user"
  <2>1. AtEnd(l, s, kp, sp)
    BY <1>12 DEF Phase
  <2>2. kp = Dir(l) /\ InUse(l, s, sp, KAll(l), MAll, UAll, FAll)
    BY <2>1 DEF AtEnd, Ready, InUse
  <2> QED
    BY <2>2
<1> QED
  BY <1>3, <1>4, <1>5, <1>6, <1>7, <1>8, <1>9, <1>10, <1>11, <1>12 DEF Phase


\* The boot directory maps kernel addresses by megapages.
LEMMA BootWalk ==
  ASSUME NEW l \in Layouts, BootOK(l, vm), NEW v \in Pages, NEW b \in Int, NEW perm \in SUBSET USER_RWX,
         BE(l, v \div T) = Pte("leaf", b, perm)
  PROVE  Walk(Boot(l), v) = Pte("leaf", b + (v % T), perm)
<1>1. v \div T \in Index
  BY PageIndex
<1>2. vm.mem[Boot(l)][v \div T] = Pte("leaf", b, perm)
  BY <1>1 DEF BootOK
<1> QED
  BY <1>2 DEF Walk, Pte

LEMMA MappedInv == IInv => KernelStaysMapped
<1> SUFFICES ASSUME IInv, satp # NoDir PROVE KernelStaysMapped
  BY DEF KernelStaysMapped
<1>1. PICK l \in Layouts : l = layout
  BY DEF IInv
<1>2. Active(l, vm, satp)
  BY <1>1, ActiveDir DEF IInv
<1>3. /\ l.memTop \in Nat /\ l.text \in Nat /\ KvaBase \in Nat /\ KpaBase \in Nat /\ KpaBase % T = 0
      /\ KvaBase % T = 0 /\ MmioBase \in Pages /\ MmioBase % T = 0 /\ MmioBase \in Nat /\ MmioBase \in MAll
  <2>1. MmioBase \in MAll
    BY ConstFacts, TableSize DEF MAll
  <2> QED
    BY <2>1, LayoutFacts, ConstFacts
<1>4. BootDir = Boot(l) /\ Boot(l) # Dir(l)
  <2>1. Boot(l) \in Nat /\ Dir(l) = Boot(l) - 1
    BY LayoutFacts
  <2> QED
    BY <1>1, <2>1 DEF BootDir, Boot
<1>5. ASSUME NEW o \in l.text..l.memTop-1
      PROVE  \E v : v = KvaBase + o /\ v \in KAll(l) /\ v \in Pages /\ v \in Nat /\ o \in Nat /\ o < l.memTop
  <2>1. KvaBase + o \in KAll(l) /\ o \in Nat /\ o < l.memTop
    BY <1>3 DEF KAll
  <2> QED
    BY <2>1, Regions
<1>6. CASE satp = Boot(l) /\ BootOK(l, vm)
  <2>1. ASSUME NEW o \in l.text..l.memTop-1
        PROVE  Walk(satp, KvaBase + o) = Pte("leaf", KpaBase + o, Rights(o))
    <3>1. PICK v : v = KvaBase + o /\ v \in Pages /\ v \in Nat /\ o \in Nat /\ o < l.memTop
      BY <1>5
    <3>2. BE(l, v \div T) = Pte("leaf", KpaBase + (o \div T) * T, KERNEL_RWX)
      BY <3>1, BootKernel
    <3>3. /\ o \div T \in Nat /\ o % T \in 0..T-1 /\ o = T * (o \div T) + (o % T) /\ T \in Nat
          /\ v % T = o % T
      BY <1>3, <3>1, DivMod, Shift, TableSize
    <3>4. PICK b \in Int : b = KpaBase + (o \div T) * T
      BY <1>3, <3>3
    <3>5. b + (v % T) = KpaBase + o
      <4>1. PICK y \in Nat : y = (o \div T) * T /\ y = T * (o \div T)
        BY <3>3
      <4>2. b = KpaBase + y /\ o = y + (o % T) /\ o % T \in Int
        BY <3>3, <3>4, <4>1
      <4> QED
        BY <1>3, <3>3, <4>1, <4>2
    <3>6. KERNEL_RWX \in SUBSET USER_RWX
      BY DEF KERNEL_RWX, USER_RWX
    <3>7. Walk(Boot(l), v) = Pte("leaf", b + (v % T), KERNEL_RWX)
      BY <1>6, <3>1, <3>2, <3>4, <3>6, BootWalk
    <3>8. Rights(o) = KERNEL_RWX
      BY <1>4, <1>6 DEF Rights
    <3> QED
      BY <1>6, <3>1, <3>5, <3>7, <3>8
  <2>2. Walk(satp, MmioBase) = Pte("leaf", MmioBase, KERNEL_RW)
    <3>1. BE(l, MmioBase \div T) = Pte("leaf", MmioBase, KERNEL_RW)
      BY BootMmio
    <3>2. KERNEL_RW \in SUBSET USER_RWX
      BY PermTypes
    <3>3. MmioBase + (MmioBase % T) = MmioBase /\ MmioBase \in Int
      BY <1>3
    <3> QED
      BY <1>3, <1>6, <3>1, <3>2, <3>3, BootWalk
  <2> QED
    BY <1>1, <2>1, <2>2 DEF KernelStaysMapped
<1>7. CASE satp = Dir(l) /\ KernelAt(l, vm, KAll(l)) /\ MmioAt(l, vm, MAll)
  <2>1. ASSUME NEW o \in l.text..l.memTop-1
        PROVE  Walk(satp, KvaBase + o) = Pte("leaf", KpaBase + o, Rights(o))
    <3>1. PICK v : v = KvaBase + o /\ v \in KAll(l) /\ v \in Nat /\ o \in Nat
      BY <1>5
    <3>2. View(l, vm, v) = Pte("leaf", kva_to_pa(v), KRights(l, v - KvaBase))
      BY <1>7, <3>1 DEF KernelAt
    <3>3. kva_to_pa(v) = KpaBase + o /\ v - KvaBase = o
      BY <1>3, <3>1 DEF kva_to_pa
    <3>4. Rights(o) = KRights(l, o)
      BY <1>1, <1>4, <1>7 DEF Rights, KRights
    <3> QED
      BY <1>7, <3>1, <3>2, <3>3, <3>4, WalkView
  <2>2. Walk(satp, MmioBase) = Pte("leaf", MmioBase, KERNEL_RW)
    BY <1>3, <1>7, WalkView DEF MmioAt
  <2> QED
    BY <1>1, <2>1, <2>2 DEF KernelStaysMapped
<1> QED
  BY <1>2, <1>6, <1>7 DEF Active

\* The pages the hardware walks.
LEMMA WalkedPages ==
  ASSUME NEW l \in Layouts, kpgdir = Dir(l), satp = Dir(l) \/ (satp = Boot(l) /\ BootOK(l, vm)),
         NEW p \in Walked
  PROVE  \/ p = Dir(l)
         \/ p = Boot(l) /\ BootOK(l, vm)
         \/ \E i \in Index : DE(l, vm, i).kind = "table" /\ p = DE(l, vm, i).pa
<1>1. \A d \in Tables : d = Dir(l) \/ (d = Boot(l) /\ BootOK(l, vm))
  BY DEF Tables
<1>2. CASE p \in Tables
  BY <1>1, <1>2
<1>3. CASE p \notin Tables
  <2>1. PICK d \in Tables, i \in Index : vm.mem[d][i].kind = "table" /\ p = vm.mem[d][i].pa
    BY <1>3 DEF Walked
  <2>2. CASE d = Dir(l)
    BY <2>1, <2>2 DEF DE
  <2>3. CASE d = Boot(l) /\ BootOK(l, vm)
    <3>1. vm.mem[d][i] = BE(l, i)
      BY <2>3 DEF BootOK
    <3>2. BE(l, i).kind # "table"
      BY BootEntries
    <3> QED
      BY <2>1, <3>1, <3>2
  <2> QED
    BY <1>1, <2>2, <2>3
<1> QED
  BY <1>2, <1>3

LEMMA IntactInv == IInv => TablesIntact
<1> SUFFICES ASSUME IInv, kpgdir # NoDir, pc # "panic", NEW p \in Walked, NEW i \in Index
             PROVE  vm.mem[p][i].kind \in {"invalid", "table", "leaf"}
  BY DEF TablesIntact
<1>1. PICK l \in Layouts : l = layout
  BY DEF IInv
<1>2. kpgdir = Dir(l) /\ \E K, M, U, F : InUse(l, vm, satp, K, M, U, F)
  BY <1>1, DirInUse DEF IInv
<1>3. PICK K, M, U, F : InUse(l, vm, satp, K, M, U, F)
  BY <1>2
<1>4. TablesOK(l, vm, vm.top) /\ (satp = Dir(l) \/ (satp = Boot(l) /\ BootOK(l, vm)))
  BY <1>3 DEF InUse, Mapped, Space
<1>5. \/ p = Dir(l)
      \/ p = Boot(l) /\ BootOK(l, vm)
      \/ \E k \in Index : DE(l, vm, k).kind = "table" /\ p = DE(l, vm, k).pa
  BY <1>2, <1>4, WalkedPages
<1>6. CASE p = Dir(l)
  <2>1. vm.mem[p][i] = Invalid \/ vm.mem[p][i].kind \in {"table", "leaf"}
    BY <1>4, <1>6 DEF TablesOK, DE
  <2> QED
    BY <2>1, InvalidType
<1>7. CASE p = Boot(l) /\ BootOK(l, vm)
  <2>1. vm.mem[p][i] = BE(l, i)
    BY <1>7 DEF BootOK
  <2> QED
    BY <2>1, BootEntries
<1>8. ASSUME NEW k \in Index, DE(l, vm, k).kind = "table", p = DE(l, vm, k).pa
      PROVE  vm.mem[p][i].kind \in {"invalid", "table", "leaf"}
  <2>1. vm.mem[p][i] = Invalid \/ vm.mem[p][i].kind = "leaf"
    BY <1>4, <1>8 DEF TablesOK
  <2> QED
    BY <2>1, InvalidType
<1> QED
  BY <1>5, <1>6, <1>7, <1>8


\* A user page is one of U or F.
LEMMA Viewed ==
  ASSUME NEW l \in Layouts, NEW s, NEW K, NEW M, NEW U, NEW F, Mapped(l, s, K, M, U, F),
         NEW v \in Pages
  PROVE  "U" \in View(l, s, v).perm <=> v \in U \cup F
<1>1. "U" \notin KERNEL_RX /\ "U" \notin KERNEL_RO /\ "U" \notin KERNEL_RW /\ "U" \in USER_RW
  BY DEF KERNEL_RX, KERNEL_RO, KERNEL_RW, USER_RW
<1>2. CASE v \in U
  BY <1>2 DEF Mapped, UserAt
<1>3. CASE v \in F
  <2>1. View(l, s, v).perm = USER_RW
    BY <1>3 DEF Mapped, FbAt, Pte
  <2> QED
    BY <1>1, <1>3, <2>1
<1>4. CASE v \notin U \cup F
  <2>1. CASE v \in K
    <3>1. View(l, s, v).perm = KRights(l, v - KvaBase)
      BY <2>1 DEF Mapped, KernelAt, Pte
    <3> QED
      BY <1>1, <1>4, <3>1 DEF KRights
  <2>2. CASE v \in M
    <3>1. View(l, s, v).perm = KERNEL_RW
      BY <2>2 DEF Mapped, MmioAt, Pte
    <3> QED
      BY <1>1, <1>4, <3>1
  <2>3. CASE v \notin K \cup M
    <3>1. View(l, s, v) = Invalid
      BY <1>4, <2>3 DEF Mapped, Space
    <3> QED
      BY <1>4, <3>1, InvalidType
  <2> QED
    BY <2>1, <2>2, <2>3
<1> QED
  BY <1>2, <1>3, <1>4

\* The pages of the framebuffer are below the pages handed out and above the
\* image, or beyond memory.
Outside(l, s, p) == p \in Int /\ p >= Low(l) /\ (p < s.top \/ p > Boot(l) + 1)

LEMMA FbFrames ==
  ASSUME NEW l \in Layouts, NEW s, Room(l, s), Boot(l) - s.top <= Needed(l), NEW v \in FAll,
         NEW p, p = KpaBase + l.fb + (v - FbVa)
  PROVE  Outside(l, s, p)
<1>1. /\ l.fb \in Nat /\ l.memTop \in Nat /\ l.imageEnd \in Nat /\ l.imageEnd <= l.memTop - 2
  BY LayoutFacts
<1>2. \/ l.fb >= l.memTop
      \/ l.imageEnd <= l.fb /\ l.fb + FbPages <= l.memTop - 2 - Needed(l)
  BY VmmAssumption
<1>3. KpaBase \in Nat /\ FbVa \in Nat /\ FbPages \in Nat
  BY ConstFacts
<1>4. PICK d \in Nat : d = v - FbVa /\ d < FbPages
  BY <1>3 DEF FAll
<1>5. PICK k \in Int : k = Needed(l)
  BY NeededFacts
<1>6. Boot(l) = KpaBase + l.memTop - 2 /\ Low(l) = KpaBase + l.imageEnd /\ s.top \in Int
  BY DirInRam DEF Boot, Low
<1>7. p = KpaBase + l.fb + d
  BY <1>4
<1>8. CASE l.fb >= l.memTop
  BY <1>1, <1>3, <1>6, <1>7, <1>8 DEF Outside
<1>9. CASE l.imageEnd <= l.fb /\ l.fb + FbPages <= l.memTop - 2 - k
  <2>1. Boot(l) - s.top <= k
    BY <1>5
  <2> QED
    BY <1>1, <1>3, <1>4, <1>6, <1>7, <1>9, <2>1 DEF Outside
<1> QED
  BY <1>2, <1>5, <1>8, <1>9

LEMMA IsolatedInv == IInv => UserIsolated
<1> SUFFICES ASSUME IInv, kpgdir # NoDir, pc # "panic" PROVE UserIsolated
  BY DEF UserIsolated
<1>1. PICK l \in Layouts : l = layout
  BY DEF IInv
<1>2. kpgdir = Dir(l) /\ \E K, M, U, F : InUse(l, vm, satp, K, M, U, F)
  BY <1>1, DirInUse DEF IInv
<1>3. PICK K, M, U, F : InUse(l, vm, satp, K, M, U, F)
  BY <1>2
<1>4. /\ Mapped(l, vm, K, M, U, F) /\ Room(l, vm) /\ TablesOK(l, vm, vm.top) /\ UserAt(l, vm, U)
      /\ FbAt(l, vm, F) /\ U \subseteq UAll /\ F \subseteq FAll
      /\ F = {} \/ Boot(l) - vm.top <= Needed(l)
      /\ satp = Dir(l) \/ (satp = Boot(l) /\ BootOK(l, vm))
  BY <1>3 DEF InUse, Mapped, Space
<1>5. /\ Low(l) \in Int /\ Dir(l) \in Int /\ Boot(l) \in Int /\ Boot(l) = Dir(l) + 1
      /\ vm.top \in Int /\ Low(l) <= vm.top /\ vm.top <= Dir(l)
  BY <1>4, DirInRam, LayoutFacts DEF Room
<1>6. \A v : UserFrame(v) = View(l, vm, v).pa
  BY <1>2, WalkView DEF UserFrame
<1>7. \A v \in UserView : v \in U \cup F
  <2> TAKE v \in UserView
  <2>1. v \in Pages /\ "U" \in View(l, vm, v).perm
    BY <1>2, WalkView DEF UserView, Pages
  <2> QED
    BY <1>4, <2>1, Viewed
<1>8. ASSUME NEW v \in U
      PROVE  \E p \in Int : /\ p = UserFrame(v) /\ p >= vm.top /\ p < Dir(l)
                            /\ \A i \in Index : DE(l, vm, i).kind = "table" => DE(l, vm, i).pa # p
  <2>1. PICK p : p = View(l, vm, v).pa
    OBVIOUS
  <2>2. p \in vm.top..Dir(l)-1 /\ \A i \in Index : DE(l, vm, i).kind = "table" => DE(l, vm, i).pa # p
    BY <1>4, <2>1 DEF UserAt, Owned
  <2> QED
    BY <1>5, <1>6, <2>1, <2>2
<1>9. ASSUME NEW v \in F
      PROVE  /\ Outside(l, vm, UserFrame(v)) /\ UserFrame(v) = KpaBase + l.fb + (v - FbVa)
             /\ v \in FbVa..FbVa+FbPages-1
  <2>1. v \in FAll /\ Boot(l) - vm.top <= Needed(l)
    BY <1>4
  <2>2. UserFrame(v) = KpaBase + l.fb + (v - FbVa)
    BY <1>4, <1>6 DEF FbAt, Pte
  <2> QED
    BY <1>4, <2>1, <2>2, FbFrames DEF FAll
<1>10. ASSUME NEW v \in UserView, NEW w \in UserView, v # w PROVE UserFrame(v) # UserFrame(w)
  <2>1. CASE v \in U /\ w \in U
    BY <1>4, <1>6, <1>10, <2>1 DEF UserAt
  <2>2. CASE v \in U /\ w \in F
    BY <1>5, <1>8, <1>9, <2>2 DEF Outside
  <2>3. CASE v \in F /\ w \in U
    BY <1>5, <1>8, <1>9, <2>3 DEF Outside
  <2>4. CASE v \in F /\ w \in F
    <3>1. /\ UserFrame(v) = KpaBase + l.fb + (v - FbVa) /\ v \in FbVa..FbVa+FbPages-1
          /\ UserFrame(w) = KpaBase + l.fb + (w - FbVa) /\ w \in FbVa..FbVa+FbPages-1
      BY <1>9, <2>4
    <3>2. KpaBase \in Nat /\ FbVa \in Nat /\ FbPages \in Nat /\ l.fb \in Nat
      BY ConstFacts, LayoutFacts
    <3> QED
      BY <1>10, <3>1, <3>2
  <2> QED
    BY <1>7, <2>1, <2>2, <2>3, <2>4
<1>11. \A q \in Walked : \/ q = Dir(l) \/ q = Boot(l)
                         \/ \E i \in Index : DE(l, vm, i).kind = "table" /\ q = DE(l, vm, i).pa
  BY <1>2, <1>4, WalkedPages
<1>12. ASSUME NEW i \in Index, DE(l, vm, i).kind = "table"
       PROVE  DE(l, vm, i).pa \in vm.top..Dir(l)-1
  BY <1>4, <1>12 DEF TablesOK
<1>13. ASSUME NEW v \in UserView
       PROVE  LET p == UserFrame(v)
              IN /\ p \notin Walked
                 /\ p - KpaBase \notin
                      0..layout.imageEnd-1 \cup layout.memTop-2..layout.memTop-1
                 /\ pc = "user" => p # vm.top
                 /\ v \notin FbVa..FbVa+FbPages-1 => p >= vm.top
                 /\ v \in FbVa..FbVa+FbPages-1 =>
                      p < vm.top \/ p >= KpaBase + layout.memTop
  <2>1. /\ KpaBase \in Int /\ l.imageEnd \in Int /\ l.memTop \in Int /\ l.imageEnd <= l.memTop - 2
        /\ Boot(l) = KpaBase + l.memTop - 2 /\ Low(l) = KpaBase + l.imageEnd
    BY ConstFacts, LayoutFacts DEF Low
  <2>2. CASE v \in U
    <3>1. PICK p \in Int : /\ p = UserFrame(v) /\ p >= vm.top /\ p < Dir(l)
                           /\ \A i \in Index : DE(l, vm, i).kind = "table" => DE(l, vm, i).pa # p
      BY <1>8, <2>2
    <3>2. p \notin Walked
      BY <1>5, <1>11, <3>1
    <3>3. p - KpaBase \notin 0..l.imageEnd-1 \cup l.memTop-2..l.memTop-1
      BY <1>5, <2>1, <3>1
    <3>4. pc = "user" => p # vm.top
      <4>1. ASSUME pc = "user" PROVE p # vm.top
        <5>1. Ready(l, vm)
          BY <1>1, <4>1 DEF IInv, Phase, AtEnd
        <5> QED
          BY <1>4, <1>6, <2>2, <3>1, <5>1 DEF Ready
      <4> QED
        BY <4>1
    <3>5. v \notin FbVa..FbVa+FbPages-1
      BY <1>4, <2>2, Regions DEF FAll
    <3> QED
      BY <1>1, <3>1, <3>2, <3>3, <3>4, <3>5
  <2>3. CASE v \in F
    <3>1. PICK p \in Int : p = UserFrame(v) /\ p >= Low(l) /\ (p < vm.top \/ p > Boot(l) + 1)
      BY <1>9, <2>3 DEF Outside
    <3>2. p \notin Walked
      <4>1. p # Dir(l) /\ p # Boot(l) /\ p \notin vm.top..Dir(l)-1
        BY <1>5, <3>1
      <4> QED
        BY <1>11, <1>12, <4>1
    <3>3. p - KpaBase \notin 0..l.imageEnd-1 \cup l.memTop-2..l.memTop-1
      BY <1>5, <2>1, <3>1
    <3>4. p # vm.top
      BY <1>5, <3>1
    <3>5. v \in FbVa..FbVa+FbPages-1 /\ (p < vm.top \/ p >= KpaBase + l.memTop)
      BY <1>9, <2>1, <2>3, <3>1
    <3> QED
      BY <1>1, <3>1, <3>2, <3>3, <3>4, <3>5
  <2> QED
    BY <1>7, <2>2, <2>3
<1> QED
  BY <1>10, <1>13 DEF UserIsolated

LEMMA ReadyInv == IInv => UserReady
<1> SUFFICES ASSUME IInv PROVE UserReady
  OBVIOUS
<1>1. PICK l \in Layouts : l = layout
  BY DEF IInv
<1>2. ASSUME pc = "user"
      PROVE  /\ UserView = UserStart..UserStart+UserPages-1 \cup {UserStack-1} \cup
                           FbVa..FbVa+FbPages-1
             /\ \A n \in 0..l.user-1 :
                  vm.mem[UserFrame(UserStart + n)] = Filled(Image(n))
             /\ vm.mem[vm.top] = [Filled(Invalid) EXCEPT ![T-1] = EFrame]
  <2>1. kpgdir = Dir(l) /\ Ready(l, vm)
    BY <1>1, <1>2 DEF IInv, Phase, AtEnd
  <2>2. Mapped(l, vm, KAll(l), MAll, UAll, FAll)
    BY <2>1 DEF Ready
  <2>3. \A v : Walk(kpgdir, v) = View(l, vm, v)
    BY <2>1, WalkView
  <2>4. \A v \in UAll \cup FAll : v \in Pages
    BY Regions
  <2>5. \A v \in Pages : "U" \in Walk(kpgdir, v).perm <=> v \in UAll \cup FAll
    BY <2>2, <2>3, Viewed
  <2>6. UserView = UAll \cup FAll
    BY <2>4, <2>5 DEF UserView, Pages
  <2>7. \A n \in 0..l.user-1 : vm.mem[UserFrame(UserStart + n)] = Filled(Image(n))
    BY <2>1, <2>3 DEF Ready, ImageAt, UserFrame
  <2>8. vm.mem[vm.top] = [Filled(Invalid) EXCEPT ![T-1] = EFrame]
    BY <2>1 DEF Ready
  <2> QED
    BY <2>6, <2>7, <2>8 DEF UAll, FAll
<1>3. ASSUME pc = "panic" PROVE l.imageEnd + Needed(l) > l.memTop - 2
  <2>1. Boot(l) - Low(l) < Needed(l)
    BY <1>1, <1>3 DEF IInv, Phase, AtPanic
  <2>2. PICK k \in Int : k = Needed(l)
    BY NeededFacts
  <2>3. l.imageEnd \in Nat /\ l.memTop \in Nat /\ KpaBase \in Nat
    BY LayoutFacts, ConstFacts
  <2> QED
    BY <2>1, <2>2, <2>3 DEF Boot, Low
<1> QED
  BY <1>1, <1>2, <1>3 DEF UserReady

-----------------------------------------------------------------------------
(* The theorems.                                                           *)

(* Kernel addresses keep their meaning from the moment start.S turns       *)
(* paging on, through every vm_map_4k() and vm_map_4m() of start() and the *)
(* switch of satp: text is executable, the rest of memory is where         *)
(* pa_to_kva() says, MMIO is there, and nothing under the kernel's own     *)
(* directory is both writable and executable.                              *)
THEOREM KernelAlwaysMapped == Spec => []KernelStaysMapped
<1>1. Init => IInv
  BY InitInv
<1>2. IInv /\ [Next]_vars => IInv'
  BY NextInv
<1>3. IInv => KernelStaysMapped
  BY MappedInv
<1> QED
  BY <1>1, <1>2, <1>3, PTL DEF Spec

(* Every entry of a page directory or table in use was cleared by          *)
(* ppage_alloc_z() or written by start.S, vm_map_4k() or vm_map_4m().      *)
THEOREM TablesAlwaysIntact == Spec => []TablesIntact
<1>1. Init => IInv
  BY InitInv
<1>2. IInv /\ [Next]_vars => IInv'
  BY NextInv
<1>3. IInv => TablesIntact
  BY IntactInv
<1> QED
  BY <1>1, <1>2, <1>3, PTL DEF Spec

(* The pages start_user_program() makes accessible to the program are      *)
(* never a page table, the kernel image, the boot stack or the kernel      *)
(* stack, and no two of them are the same frame.  Its own pages and its    *)
(* stack have been taken from the pool; the framebuffer's have not, and    *)
(* are not in use for anything else either.                                *)
THEOREM UserAlwaysIsolated == Spec => []UserIsolated
<1>1. Init => IInv
  BY InitInv
<1>2. IInv /\ [Next]_vars => IInv'
  BY NextInv
<1>3. IInv => UserIsolated
  BY IsolatedInv
<1> QED
  BY <1>1, <1>2, <1>3, PTL DEF Spec

(* start_user_program() enters the program with exactly its pages, its     *)
(* stack and the framebuffer mapped and the image copied to them, and      *)
(* panic() is reached only when memory has fewer pages than the boot       *)
(* needs.                                                                  *)
THEOREM UserEnteredReady == Spec => []UserReady
<1>1. Init => IInv
  BY InitInv
<1>2. IInv /\ [Next]_vars => IInv'
  BY NextInv
<1>3. IInv => UserReady
  BY ReadyInv
<1> QED
  BY <1>1, <1>2, <1>3, PTL DEF Spec

===============================================================================
