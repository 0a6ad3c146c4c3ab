----------------------------- MODULE PagingProofs -----------------------------
(***************************************************************************)
(* What holds in every reachable state of Paging, for every number of      *)
(* entries per table, every pool of frames and every sequence of calls.    *)
(***************************************************************************)
EXTENDS PagingSteps, FiniteSetTheorems, WellFoundedInduction

\* A nonempty set of natural numbers has a smallest element: pmm_alloc_frame returns
\* a free frame.
LEMMA MinMember ==
  ASSUME NEW S \in SUBSET Nat, S # {}
  PROVE  Min(S) \in S
<1> DEFINE less == {ss \in Nat \X Nat : ss[1] < ss[2]}
<1>1. IsWellFoundedOn(less, Nat)
  BY NatLessThanWellFounded, Zenon DEF OpToRel
<1>2. PICK x \in S : \A y \in S : ~(<<y, x>> \in less)
  <2> HIDE DEF less
  <2> QED BY <1>1, WFMin, Zenon
<1>3. ASSUME NEW y \in S PROVE x <= y
  <2>1. <<y, x>> \in Nat \X Nat /\ <<y, x>>[1] = y /\ <<y, x>>[2] = x /\ x \in Nat /\ y \in Nat
    BY Zenon
  <2>2. <<y, x>> \notin less
    BY <1>2, Zenon
  <2>3. ~(y < x)
    BY <2>1, <2>2, Zenon
  <2> QED BY <2>1, <2>3
<1> QED BY <1>3, Zenon DEF Min

\* The frames are numbers, so a free frame is found.
LEMMA FreeFrame == MinIsFree
  BY MinMember, Sets, Zenon DEF MinIsFree

\* The invariant: the tables form a forest, in every state that paging_init and the
\* calls after it reach.
THEOREM PagingInvariant == Spec => []IInv
<1>1. Init => IInv
  BY InitIInv, Zenon
<1>2. IInv /\ [Next]_vars => IInv'
  BY FreeFrame, NextIInv, Zenon
<1> QED BY <1>1, <1>2, PTL DEF Spec

-------------------------------------------------------------------------------
(* FrameOwnership *)

\* The links are the present entries that may own a table.
Linking(lev, links) ==
  \A e : e \in links <=>
    e \in Pool \X Indices /\ Slot(lev, kernel_pml4, e[1], e[2]) /\ Present(mem[e[1]][e[2]])

\* The PDPTs are those of the user halves and of the kernel's half.
LEMMA PdptsAre ==
  ASSUME NEW lev, NEW owner, Good(mem, free, live, kernel_pml4, lev, owner),
         NEW S, S = TablesBelow(live, UserIndices) \cup TablesBelow({kernel_pml4}, KernelIndices)
  PROVE  \A x : x \in S <=> x \in Pool /\ lev[x] = "PDPT"
<1> DEFINE k == kernel_pml4
           users == TablesBelow(live, UserIndices)
           kernels == TablesBelow({k}, KernelIndices)
<1>1. /\ live \in SUBSET Pool /\ k \in live /\ \A x \in Pool : lev[x] = "PML4" <=> x \in live
  BY LevelsOf DEF Good, Half
<1>2. (\A i \in UserIndices : i \in Indices /\ i \notin KernelIndices) /\ KernelIndices \subseteq Indices
      /\ \A i \in Indices : i \in UserIndices \/ i \in KernelIndices
  BY Sets, Zenon DEF KernelIndices
<1>3. Children(lev, owner, users, live, UserIndices)
  <2>1. \A t \in live, i \in UserIndices : t \in Pool /\ Slot(lev, k, t, i)
    BY <1>1, <1>2, Zenon DEF Slot, Upper
  <2> QED BY <2>1, BelowOwned, Zenon
<1>4. Children(lev, owner, kernels, {k}, KernelIndices)
  <2>1. \A t \in {k}, i \in KernelIndices : t \in Pool /\ Slot(lev, k, t, i)
    BY <1>1, <1>2, Zenon DEF Slot, Upper
  <2> QED BY <2>1, BelowOwned, Zenon
<1>5. \A x : x \in S <=> x \in users \/ x \in kernels
  BY Zenon
<1> HIDE DEF users, kernels
<1>6. ASSUME NEW x, x \in S PROVE x \in Pool /\ lev[x] = "PDPT"
  <2>1. x \in Pool /\ lev[x] \in Lower /\ owner[x][1] \in live
    BY <1>1, <1>3, <1>4, <1>5, <1>6, Zenon DEF Children
  <2>2. Rank(lev[x], lev[owner[x][1]]) /\ lev[owner[x][1]] = "PML4"
    BY <1>1, <2>1, OwnerRank, Zenon
  <2> QED BY <2>1, <2>2, Zenon DEF Rank
<1>7. ASSUME NEW x, x \in Pool, lev[x] = "PDPT" PROVE x \in S
  <2>1. lev[x] \in Lower
    BY <1>7, Zenon DEF Lower
  <2>2. /\ owner[x][1] \in Pool /\ owner[x][2] \in Indices
        /\ Rank(lev[x], lev[owner[x][1]]) /\ Slot(lev, k, owner[x][1], owner[x][2])
    BY <1>7, <2>1, OwnerRank, Zenon
  <2>3. lev[owner[x][1]] = "PML4"
    BY <1>7, <2>2, Zenon DEF Rank
  <2>4. owner[x][1] \in live /\ (owner[x][2] \in KernelIndices => owner[x][1] = k)
    BY <1>1, <2>2, <2>3, Zenon DEF Slot
  <2> QED BY <1>2, <1>3, <1>4, <1>5, <1>7, <2>1, <2>2, <2>4, Zenon DEF Children
<1> QED BY <1>6, <1>7, Zenon

\* The PDs are the tables below the PDPTs.
LEMMA PdsAre ==
  ASSUME NEW lev, NEW owner, Good(mem, free, live, kernel_pml4, lev, owner),
         NEW T, \A x : x \in T <=> x \in Pool /\ lev[x] = "PDPT", NEW S, S = TablesBelow(T, Indices)
  PROVE  \A x : x \in S <=> x \in Pool /\ lev[x] = "PD"
<1>1. Generation(lev, owner, S, T, "PDPT")
  BY ChildrenOfKind, Zenon
<1>2. ASSUME NEW x, x \in Pool, lev[x] = "PD" PROVE x \in S
  <2>1. lev[x] \in Lower
    BY <1>2, Zenon DEF Lower
  <2>2. owner[x][1] \in Pool /\ lev[owner[x][1]] = "PDPT"
    BY <1>2, <2>1, OwnerRank DEF Rank
  <2> QED BY <1>1, <1>2, <2>1, <2>2, Zenon DEF Generation
<1>3. ASSUME NEW x, x \in S PROVE x \in Pool /\ lev[x] = "PD"
  BY <1>1, <1>3, Zenon DEF Generation, Rank
<1> QED BY <1>2, <1>3, Zenon

\* The links that FrameOwnership counts are the entries that own tables.
LEMMA LinksAre ==
  ASSUME NEW lev, NEW owner, Good(mem, free, live, kernel_pml4, lev, owner),
         NEW upper, \A x : x \in upper <=> x \in Pool /\ lev[x] \in {"PDPT", "PD"},
         NEW links,
         links = Links(live, UserIndices) \cup Links({kernel_pml4}, KernelIndices) \cup Links(upper, Indices)
  PROVE  Linking(lev, links)
<1> DEFINE k == kernel_pml4
           Fine(t, i) == t \in Pool /\ i \in Indices /\ Slot(lev, k, t, i)
<1>1. /\ live \in SUBSET Pool /\ k \in live /\ \A x \in Pool : lev[x] = "PML4" <=> x \in live
  BY LevelsOf DEF Good, Half
<1>2. (\A i \in UserIndices : i \in Indices /\ i \notin KernelIndices) /\ KernelIndices \subseteq Indices
      /\ \A i \in Indices : i \in UserIndices \/ i \in KernelIndices
  BY Sets, Zenon DEF KernelIndices
<1>3. \A t, i : Fine(t, i) <=> \/ t \in live /\ i \in UserIndices
                               \/ t = k /\ i \in KernelIndices
                               \/ t \in upper /\ i \in Indices
  BY <1>1, <1>2, Zenon DEF Slot, Upper
<1> HIDE DEF Fine
<1>4. ASSUME NEW e, e \in links
      PROVE  e \in Pool \X Indices /\ Slot(lev, k, e[1], e[2]) /\ Present(mem[e[1]][e[2]])
  <2>1. /\ Present(mem[e[1]][e[2]])
        /\ e \in live \X UserIndices \/ e \in {k} \X KernelIndices \/ e \in upper \X Indices
    BY <1>4, Zenon DEF Links
  <2>2. Fine(e[1], e[2]) /\ e = <<e[1], e[2]>>
    BY <1>3, <2>1
  <2> QED BY <2>1, <2>2, Zenon DEF Fine
<1>5. ASSUME NEW e, e \in Pool \X Indices, Slot(lev, k, e[1], e[2]), Present(mem[e[1]][e[2]])
      PROVE  e \in links
  <2>1. PICK t \in Pool, i \in Indices : e = <<t, i>>
    BY <1>5
  <2>2. Fine(t, i)
    BY <1>5, <2>1, Zenon DEF Fine
  <2>3. e \in live \X UserIndices \/ e \in {k} \X KernelIndices \/ e \in upper \X Indices
    BY <1>3, <2>1, <2>2, Zenon
  <2> QED BY <1>5, <2>3, Zenon DEF Links
<1> QED BY <1>4, <1>5, Zenon DEF Linking

\* Links and tables belong to each other one to one, and the tables are those below
\* the PML4s.
OneToOne(lev, owner, links, tables) ==
  /\ \A x : x \in tables <=> x \in Pool /\ lev[x] \in Lower
  /\ \A x \in tables : owner[x] \in links /\ mem[owner[x][1]][owner[x][2]].addr = x
  /\ \A e \in links : mem[e[1]][e[2]].addr \in tables /\ owner[mem[e[1]][e[2]].addr] = e

\* The tables that the links point to.
LEMMA TablesAre ==
  ASSUME NEW lev, NEW owner, Good(mem, free, live, kernel_pml4, lev, owner),
         NEW links, Linking(lev, links),
         NEW tables, tables = {mem[e[1]][e[2]].addr : e \in links}
  PROVE  OneToOne(lev, owner, links, tables)
<1>1. Forest(mem, free, live, kernel_pml4, lev, owner)
  BY Zenon DEF Good
<1>2. ASSUME NEW e \in links
      PROVE  LET x == mem[e[1]][e[2]].addr
             IN  x \in tables /\ x \in Pool /\ lev[x] \in Lower /\ owner[x] = e
  <2>1. e \in Pool \X Indices /\ Slot(lev, kernel_pml4, e[1], e[2]) /\ Present(mem[e[1]][e[2]])
    BY Zenon DEF Linking
  <2>2. PICK t \in Pool, i \in Indices : e = <<t, i>>
    BY <2>1
  <2>3. Slot(lev, kernel_pml4, t, i) /\ Present(mem[t][i]) /\ e[1] = t /\ e[2] = i
    BY <2>1, <2>2, Zenon
  <2>4. Owns(mem, lev, owner, t, i)
    BY <1>1, <2>3, Zenon DEF Forest
  <2>5. mem[t][i].addr \in Pool /\ owner[mem[t][i].addr] = <<t, i>> /\ lev[mem[t][i].addr] \in Lower
    BY <2>4, Zenon DEF Owns, Rank, Lower
  <2>6. mem[e[1]][e[2]].addr \in tables
    BY Zenon
  <2> QED BY <2>2, <2>3, <2>5, <2>6, Zenon
<1>3. ASSUME NEW x \in Pool, lev[x] \in Lower
      PROVE  owner[x] \in links /\ mem[owner[x][1]][owner[x][2]].addr = x /\ x \in tables
  <2>0. Owned(mem, kernel_pml4, lev, owner, x)
    BY <1>1, <1>3, OwnerOf, Zenon
  <2>1. PICK a \in Pool, b \in Indices :
          owner[x] = <<a, b>> /\ Slot(lev, kernel_pml4, a, b) /\ Present(mem[a][b]) /\ mem[a][b].addr = x
    BY <2>0, Zenon DEF Owned
  <2>2. owner[x] \in Pool \X Indices /\ owner[x][1] = a /\ owner[x][2] = b
    BY <2>1
  <2>3. owner[x] \in links
    BY <2>1, <2>2, Zenon DEF Linking
  <2>4. mem[owner[x][1]][owner[x][2]].addr = x
    BY <2>1, <2>2, Zenon
  <2> QED BY <2>3, <2>4, Zenon
<1>4. ASSUME NEW x \in tables PROVE x \in Pool /\ lev[x] \in Lower
  <2>1. PICK e \in links : x = mem[e[1]][e[2]].addr
    BY Zenon
  <2> QED BY <1>2, <2>1, Zenon
<1>5. \A x : x \in tables <=> x \in Pool /\ lev[x] \in Lower
  BY <1>3, <1>4, Zenon
<1>6. \A x \in tables : owner[x] \in links /\ mem[owner[x][1]][owner[x][2]].addr = x
  BY <1>3, <1>4, Zenon
<1>7. \A e \in links : mem[e[1]][e[2]].addr \in tables /\ owner[mem[e[1]][e[2]].addr] = e
  BY <1>2, Zenon
<1> QED BY <1>5, <1>6, <1>7, Zenon DEF OneToOne

\* There are as many tables as links.
LEMMA AsManyTables ==
  ASSUME NEW tables, NEW links, NEW lev, NEW owner, OneToOne(lev, owner, links, tables)
  PROVE  Cardinality(tables) = Cardinality(links)
<1> DEFINE g == [x \in tables |-> owner[x]]
<1>0. /\ tables \in SUBSET Pool
      /\ \A x \in tables : owner[x] \in links /\ mem[owner[x][1]][owner[x][2]].addr = x
      /\ \A e \in links : mem[e[1]][e[2]].addr \in tables /\ owner[mem[e[1]][e[2]].addr] = e
  BY Zenon DEF OneToOne
<1>1. g \in [tables -> links] /\ \A x \in tables : g[x] = owner[x]
  BY <1>0, Zenon
<1>2. \A x, y \in tables : g[x] = g[y] => x = y
  BY <1>0, <1>1, Zenon
<1>3. ASSUME NEW e \in links PROVE \E x \in tables : g[x] = e
  <2>1. mem[e[1]][e[2]].addr \in tables /\ owner[mem[e[1]][e[2]].addr] = e
    BY <1>0, Zenon
  <2> HIDE DEF g
  <2> QED BY <1>1, <2>1, Zenon
<1> HIDE DEF g
<1>4. g \in Surjection(tables, links) /\ g \in Injection(tables, links)
  <2>1. \A e \in links : \E x \in tables : g[x] = e
    BY <1>3, Zenon
  <2>2. g \in [tables -> links]
    BY <1>1, Zenon
  <2>3. g \in Surjection(tables, links)
    BY <2>1, <2>2, Zenon DEF Surjection
  <2>4. g \in Injection(tables, links)
    BY <1>2, <2>2, Zenon DEF Injection, IsInjective
  <2> QED BY <2>3, <2>4, Zenon
<1>5. IsFiniteSet(tables)
  <2>1. MemSize \in Nat /\ \A x \in Pool : x \in Nat /\ x <= MemSize
    BY PagingAssumption DEF Frames
  <2>2. tables \in SUBSET Nat /\ \A x \in tables : x <= MemSize
    BY <1>0, <2>1, Zenon
  <2> QED BY <2>1, <2>2, FS_BoundedSetOfNaturals, Zenon
<1> QED BY <1>4, <1>5, FS_Surjection, Zenon

\* FrameOwnership follows from the forest.
LEMMA ForestOwns ==
  ASSUME IInv
  PROVE  FrameOwnership
<1> SUFFICES ASSUME live # {} PROVE FrameOwnership
  BY Zenon DEF FrameOwnership
<1> DEFINE pdpts == TablesBelow(live, UserIndices) \cup TablesBelow({kernel_pml4}, KernelIndices)
           pds == TablesBelow(pdpts, Indices)
           upper == pdpts \cup pds
           links == Links(live, UserIndices) \cup Links({kernel_pml4}, KernelIndices) \cup Links(upper, Indices)
           tables == {mem[e[1]][e[2]].addr : e \in links}
<1>1. PICK lev, owner : Good(mem, free, live, kernel_pml4, lev, owner)
  BY Running, Zenon
<1>2. \A x : x \in pdpts <=> x \in Pool /\ lev[x] = "PDPT"
  BY <1>1, PdptsAre, Zenon
<1>3. \A x : x \in pds <=> x \in Pool /\ lev[x] = "PD"
  <2> HIDE DEF pdpts
  <2> QED BY <1>1, <1>2, PdsAre, Zenon
<1>4. \A x : x \in upper <=> x \in Pool /\ lev[x] \in {"PDPT", "PD"}
  <2> HIDE DEF pdpts, pds
  <2> QED BY <1>2, <1>3, Zenon
<1>5. Linking(lev, links)
  <2> HIDE DEF upper
  <2> QED BY <1>1, <1>4, LinksAre, Zenon
<1>6. OneToOne(lev, owner, links, tables)
  <2> HIDE DEF links
  <2> QED BY <1>1, <1>5, TablesAre, Zenon
<1>7. Cardinality(tables) = Cardinality(links)
  <2> HIDE DEF links, tables
  <2> QED BY <1>6, AsManyTables, Zenon
<1>8. tables \cap live = {} /\ (tables \cup live) \cap free = {} /\ tables \cup live \cup free = Pool
  <2> HIDE DEF tables
  <2>1. /\ lev \in [Pool -> Kinds] /\ live \in SUBSET Pool /\ free \in SUBSET Pool
        /\ \A t \in Pool : (lev[t] = "free" <=> t \in free) /\ (lev[t] = "PML4" <=> t \in live)
    BY <1>1, LevelsOf DEF Good
  <2>2. \A t \in Pool : lev[t] \in {"free", "PML4"} \cup Lower
    BY <2>1, Zenon DEF Kinds, Lower
  <2>3. "free" \notin Lower /\ "PML4" \notin Lower
    BY Zenon DEF Lower
  <2> QED BY <1>6, <2>1, <2>2, <2>3 DEF OneToOne
<1> QED BY <1>7, <1>8, Zenon DEF FrameOwnership

\* No frame is lost or used twice, through any sequence of create, map, unmap and
\* destroy: every frame of the pool is free or exactly one table.
THEOREM PagingFrameOwnership == Spec => []FrameOwnership
<1>1. IInv => FrameOwnership
  BY ForestOwns, Zenon
<1> QED BY <1>1, PagingInvariant, PTL

-------------------------------------------------------------------------------
(* KernelHalfShared *)

\* The kernel half looks the same from every address space, in every reachable state:
\* the PDPTs made by paging_init are never replaced.
THEOREM PagingKernelHalf == Spec => []KernelHalfShared
<1>1. IInv => KernelHalfShared
  BY IsShared, HalvesAgree, Zenon
<1> QED BY <1>1, PagingInvariant, PTL

-------------------------------------------------------------------------------
(* What the processor sees *)

\* What the processor sees, in every reachable state: the user halves hold no global
\* pages, the tables show what paging_init set out to map, and the cache agrees with
\* the tables.
THEOREM PagingSeen == Spec => []ViewInv
<1>1. Init => ViewInv
  BY Zenon DEF Init, ViewInv, NoGlobals, Runs, Booted, TlbCoherent
<1>2. IInv /\ ViewInv /\ [Next]_vars => ViewInv'
  BY FreeFrame, NextViews, IsShared, GrowViews, StillViews, PageViews, Zenon
<1> QED BY <1>1, <1>2, PagingInvariant, PTL DEF Spec

\* The processor never uses a translation that the tables no longer hold, whatever it
\* caches and whenever: paging_map and paging_unmap drop the page they change, and what
\* survives a change of address space is global, so of the kernel half.
THEOREM PagingTlbCoherent == Spec => []TlbCoherent
<1>1. ViewInv => TlbCoherent
  BY Zenon DEF ViewInv
<1> QED BY <1>1, PagingSeen, PTL

\* The kernel goes on running in every address space, whatever is created, mapped,
\* unmapped or destroyed: the HHDM and the sections of the image keep their frames and
\* rights.
THEOREM PagingKernelMapped == Spec => []KernelAlwaysMapped
<1>1. IInv /\ ViewInv => KernelAlwaysMapped
  BY IsShared, ViewMapsKernel, Zenon
<1> QED BY <1>1, PagingInvariant, PagingSeen, PTL

\* Every page of a range call is mapped to the frame and with exactly the rights that were
\* asked for, however many tables had to be made on the way, and no level above the page
\* takes a right away.
THEOREM PagingMapsAsAsked == Spec => MapsAsAsked
<1> DEFINE Maps == \A r \in {todo[i] : i \in 1 .. Len(todo)} :
                     r = Head(todo) /\ r.op = "map" /\ phase' # "panic" =>
                       \A p \in IF IsUser(r.va) THEN {r.pml4} ELSE live' :
                         Translate(mem', p, r.va) =
                           IF "P" \in r.flags THEN {Entry(r.pa, r.flags)} ELSE {}
<1>1. IInv /\ [Next]_vars => [Maps]_todo
  <2> SUFFICES ASSUME IInv, [Next]_vars, todo' # todo, NEW r \in {todo[i] : i \in 1 .. Len(todo)},
                      r = Head(todo), r.op = "map", phase' # "panic",
                      NEW p \in IF IsUser(r.va) THEN {r.pml4} ELSE live'
               PROVE  Translate(mem', p, r.va) = IF "P" \in r.flags THEN {Entry(r.pa, r.flags)} ELSE {}
    BY Zenon
  <2>1. todo # <<>>
    <3>1. 1 .. Len(<<>>) = {}
      OBVIOUS
    <3> QED BY <3>1, Zenon
  <2>2. RangeStep
    BY <2>1, TodoChanges, Zenon
  <2> QED BY <2>2, FreeFrame, RangeMaps, Zenon
<1> QED BY <1>1, PagingInvariant, PTL DEF Spec, MapsAsAsked

-------------------------------------------------------------------------------
(* The tables implement AddressSpaces *)

\* Paging gives every address space user mappings of its own and all of them one kernel
\* half: creating one starts it empty, destroying one takes nothing from the others, and
\* mapping a page changes that page alone, although the address spaces share tables and
\* frames are reused.
THEOREM PagingImplements == Spec => ImplementsAddressSpaces
<1>1. Init => AS!ASInit
  BY Zenon DEF Init, AS!ASInit, KernelView
<1>2. IInv => Shared
  BY IsShared, Zenon
<1>3. IInv /\ Shared /\ Shared' /\ [Next]_vars => [AS!ASNext]_(AS!asVars)
  BY FreeFrame, NextViews, GrowImplements, StillImplements, PageImplements, Zenon
<1> QED BY <1>1, <1>2, <1>3, PagingInvariant, PTL DEF Spec, ImplementsAddressSpaces, AS!ASSpec
===============================================================================
