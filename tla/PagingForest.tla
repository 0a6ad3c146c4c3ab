----------------------------- MODULE PagingForest -----------------------------
(***************************************************************************)
(* The tables of Paging, for every number of entries per table and every   *)
(* pool of frames: a level for every frame of the pool and an owner for    *)
(* every table, the one entry that points to it.  The first part says what *)
(* linking a new table does to them.  The second is about what the         *)
(* processor finds: a page has at most one page table, found through the   *)
(* owners; the levels above it never take a right away; and paging_map and *)
(* paging_unmap change what one page shows and nothing else.               *)
(***************************************************************************)
EXTENDS TableViews, TLAPS

Memory == [Frames -> [Indices -> Entries]]

\* A frame of the pool is free or a table of a kind.
Kinds == {"free", "PT", "PD", "PDPT", "PML4"}
Lower == {"PT", "PD", "PDPT"}
Upper == {"PD", "PDPT", "PML4"}

\* Entries of tables of the kind above point to tables of the kind below.
Rank(below, above) ==
  \/ above = "PML4" /\ below = "PDPT"
  \/ above = "PDPT" /\ below = "PD"
  \/ above = "PD" /\ below = "PT"

\* The entries that may own a table: those of PML4s, PDPTs and PDs, but for the kernel
\* half of PML4s other than the kernel's.
Slot(lev, k, t, i) ==
  lev[t] \in Upper /\ i \in Indices /\ (lev[t] = "PML4" /\ i \in KernelIndices => t = k)

\* The kinds of the frames.
Levels(fr, lv, lev, owner) ==
  /\ lev \in [Pool -> Kinds] /\ owner \in [Pool -> Pool \X Indices]
  /\ \A t \in Pool : (lev[t] = "free" <=> t \in fr) /\ (lev[t] = "PML4" <=> t \in lv)

\* The table t is owned by an entry, of a table of the kind above, that points to it.
HasOwner(m, k, lev, owner, t) ==
  LET a == owner[t][1]
      b == owner[t][2]
  IN  Rank(lev[t], lev[a]) /\ Slot(lev, k, a, b) /\ Present(m[a][b]) /\ m[a][b].addr = t

\* Entry i of t points to a table of the kind below, and owns it.
Owns(m, lev, owner, t, i) ==
  LET x == m[t][i].addr
  IN  x \in Pool /\ Rank(lev[x], lev[t]) /\ owner[x] = <<t, i>>

Forest(m, fr, lv, k, lev, owner) ==
  /\ Levels(fr, lv, lev, owner)
  /\ \A t \in Pool : lev[t] \in Lower => HasOwner(m, k, lev, owner, t)
  /\ \A t \in Pool, i \in Indices : Slot(lev, k, t, i) /\ Present(m[t][i]) => Owns(m, lev, owner, t, i)

\* All address spaces have the kernel half of the kernel's.
Half(m, lv, k) ==
  /\ k \in lv
  /\ \A p \in lv, i \in KernelIndices : m[p][i] = m[k][i]
  /\ \A i \in KernelIndices : Present(m[k][i]) => m[k][i].flags = {"P", "W"}

Full(m, k) == \A i \in KernelIndices : Present(m[k][i])

\* The entry that owns t opens to users what these flags do.
Allowed(m, owner, t, fl) == "U" \in fl => "U" \in m[owner[t][1]][owner[t][2]].flags

\* Entries that point to tables grant writing, and user access if anything below does.
Rights(m, k, lev, owner) ==
  /\ \A t \in Pool, i \in Indices : Slot(lev, k, t, i) /\ Present(m[t][i]) => "W" \in m[t][i].flags
  /\ \A t \in Pool, i \in Indices :
       lev[t] \in Lower /\ Present(m[t][i]) => Allowed(m, owner, t, m[t][i].flags)

-------------------------------------------------------------------------------
\* The sets of frames and of indices.
LEMMA Sets ==
  /\ RADIX \in Nat \ {0, 1} /\ PAGE_SIZE \in Nat \ {0} /\ Pool \subseteq Frames /\ Pool \subseteq Nat
  /\ Zero \in Entries /\ ZeroTable \in [Indices -> Entries] /\ ~Present(Zero)
  /\ UserIndices \subseteq Indices /\ KernelIndices \subseteq Indices
<1>1. RADIX \in Nat \ {0, 1} /\ PAGE_SIZE \in Nat \ {0} /\ Pool \subseteq Frames /\ Frames \subseteq Nat
  BY PagingAssumption, PageSizeAssumption DEF Frames
<1>2. Zero \in Entries /\ ~Present(Zero)
  BY Zenon DEF Zero, Entry, Entries, Present
<1>3. ZeroTable \in [Indices -> Entries]
  BY <1>2, Zenon DEF ZeroTable
<1>4. UserIndices \subseteq Indices
  <2>1. RADIX \div 2 <= RADIX /\ RADIX \div 2 \in Nat
    BY <1>1
  <2> QED BY <1>1, <2>1 DEF UserIndices, Indices
<1> QED BY <1>1, <1>2, <1>3, <1>4, Zenon DEF KernelIndices

\* A digit of an address.
LEMMA Digit ==
  ASSUME NEW a \in Nat, NEW d \in Nat \ {0}, NEW r \in Nat \ {0}
  PROVE  (a \div d) % r \in 0 .. (r - 1)
<1>1. a \div d \in Nat
  OBVIOUS
<1> QED BY <1>1

\* A product of sizes is a size.
LEMMA Product == ASSUME NEW a \in Nat \ {0}, NEW b \in Nat \ {0} PROVE a * b \in Nat \ {0}
  OBVIOUS

\* The four indices of an address.
LEMMA IndexTypes ==
  ASSUME NEW va \in Nat
  PROVE  /\ PML4_INDEX(va) \in Indices /\ PDPT_INDEX(va) \in Indices
         /\ PD_INDEX(va) \in Indices /\ PT_INDEX(va) \in Indices
<1>1. RADIX \in Nat \ {0} /\ PAGE_SIZE \in Nat \ {0}
  BY Sets, Zenon
<1>2. PAGE_SIZE * RADIX \in Nat \ {0}
  BY <1>1, Product, Zenon
<1>3. PAGE_SIZE * RADIX * RADIX \in Nat \ {0}
  BY <1>1, <1>2, Product, Zenon
<1>4. PAGE_SIZE * RADIX * RADIX * RADIX \in Nat \ {0}
  BY <1>1, <1>3, Product, Zenon
<1> QED BY <1>1, <1>2, <1>3, <1>4, Digit, Zenon DEF PML4_INDEX, PDPT_INDEX, PD_INDEX, PT_INDEX, Indices

-------------------------------------------------------------------------------
(* The forest of tables *)

\* The entry that owns a table, as a pair.
Owned(m, k, lev, owner, t) ==
  \E a \in Pool, b \in Indices :
    /\ owner[t] = <<a, b>> /\ Rank(lev[t], lev[a]) /\ Slot(lev, k, a, b)
    /\ Present(m[a][b]) /\ m[a][b].addr = t

\* The entry that owns a table.
LEMMA OwnerOf ==
  ASSUME NEW m, NEW fr, NEW lv, NEW k, NEW lev, NEW owner, Forest(m, fr, lv, k, lev, owner),
         NEW t \in Pool, lev[t] \in Lower
  PROVE  Owned(m, k, lev, owner, t)
<1>1. owner[t] \in Pool \X Indices
  BY Zenon DEF Forest, Levels
<1>2. HasOwner(m, k, lev, owner, t)
  BY Zenon DEF Forest
<1> QED BY <1>1, <1>2 DEF HasOwner, Owned

\* The levels.
LEMMA LevelsOf ==
  ASSUME NEW m, NEW fr, NEW lv, NEW k, NEW lev, NEW owner, Forest(m, fr, lv, k, lev, owner)
  PROVE  /\ lev \in [Pool -> Kinds] /\ owner \in [Pool -> Pool \X Indices]
         /\ \A t \in Pool : (lev[t] = "free" <=> t \in fr) /\ (lev[t] = "PML4" <=> t \in lv)
BY Zenon DEF Forest, Levels

\* Entries that point to no table, and the rights of those that do, do not matter.
LEMMA SameLinks ==
  ASSUME NEW m, NEW m2, NEW fr, NEW lv, NEW k, NEW lev, NEW owner,
         Forest(m, fr, lv, k, lev, owner),
         \A t \in Pool, i \in Indices : Slot(lev, k, t, i) =>
           /\ Present(m2[t][i]) <=> Present(m[t][i])
           /\ m2[t][i].addr = m[t][i].addr
  PROVE  Forest(m2, fr, lv, k, lev, owner)
<1>1. Levels(fr, lv, lev, owner)
  BY Zenon DEF Forest
<1>2. ASSUME NEW t \in Pool, lev[t] \in Lower
      PROVE  HasOwner(m2, k, lev, owner, t)
  <2>0. Owned(m, k, lev, owner, t)
    BY <1>2, OwnerOf, Zenon
  <2>1. PICK a \in Pool, b \in Indices :
           /\ owner[t] = <<a, b>> /\ Rank(lev[t], lev[a]) /\ Slot(lev, k, a, b)
           /\ Present(m[a][b]) /\ m[a][b].addr = t
    BY <2>0, Zenon DEF Owned
  <2> QED BY <2>1 DEF HasOwner
<1>3. ASSUME NEW t \in Pool, NEW i \in Indices, Slot(lev, k, t, i), Present(m2[t][i])
      PROVE  Owns(m2, lev, owner, t, i)
  <2>1. Owns(m, lev, owner, t, i)
    BY <1>3, Zenon DEF Forest
  <2> QED BY <1>3, <2>1, Zenon DEF Owns
<1> QED BY <1>1, <1>2, <1>3, Zenon DEF Forest

\* What a memory is after rights are granted in an entry.
Granted(m, m2, t, i, fl) ==
  /\ m2 \in Memory
  /\ m2[t][i].addr = m[t][i].addr /\ m2[t][i].flags = m[t][i].flags \cup fl
  /\ \A x \in Pool, j \in Indices : <<x, j>> # <<t, i>> => m2[x][j] = m[x][j]

\* What a memory is after an entry is given a new table.
Linked(m, m2, t, i, c, fl) ==
  /\ m2 \in Memory
  /\ m2[t][i].addr = c /\ m2[t][i].flags = fl
  /\ c # t => \A j \in Indices : m2[c][j] = Zero
  /\ \A x \in Pool, j \in Indices : x # c /\ <<x, j>> # <<t, i>> => m2[x][j] = m[x][j]

\* A free frame becomes a table and an entry its owner.
LEMMA AddLink ==
  ASSUME NEW m, NEW m2, NEW fr, NEW lv, NEW k, NEW lev, NEW owner, NEW t \in Pool, NEW i \in Indices, NEW c,
         Forest(m, fr, lv, k, lev, owner), Slot(lev, k, t, i), ~Present(m[t][i]), c \in fr, fr \in SUBSET Pool,
         NEW fl, "P" \in fl, Linked(m, m2, t, i, c, fl), NEW n, Rank(n, lev[t])
  PROVE  Forest(m2, fr \ {c}, lv, k, [lev EXCEPT ![c] = n], [owner EXCEPT ![c] = <<t, i>>])
<1> DEFINE lev2 == [lev EXCEPT ![c] = n]
           owner2 == [owner EXCEPT ![c] = <<t, i>>]
<1>1. lev \in [Pool -> Kinds] /\ owner \in [Pool -> Pool \X Indices]
      /\ \A x \in Pool : (lev[x] = "free" <=> x \in fr) /\ (lev[x] = "PML4" <=> x \in lv)
  BY LevelsOf
<1>2. c \in Pool /\ lev[c] = "free" /\ lev[t] \in Upper /\ c # t
  BY <1>1, Zenon DEF Slot, Upper, Lower, Kinds, Rank
<1>3. Present(m2[t][i]) /\ m2[t][i].addr = c
  BY Zenon DEF Linked, Present
<1>4. \A j \in Indices : ~Present(m2[c][j])
  BY <1>2, Sets, Zenon DEF Linked
<1>5. \A x \in Pool, j \in Indices : x # c /\ <<x, j>> # <<t, i>> => m2[x][j] = m[x][j]
  BY Zenon DEF Linked
<1>6. /\ lev2 \in [Pool -> Kinds] /\ owner2 \in [Pool -> Pool \X Indices]
      /\ lev2[c] = n /\ owner2[c] = <<t, i>>
      /\ \A x \in Pool : x # c => lev2[x] = lev[x] /\ owner2[x] = owner[x]
  BY <1>1, <1>2, Zenon DEF Upper, Lower, Kinds, Rank
<1> HIDE DEF lev2, owner2
<1>7. Levels(fr \ {c}, lv, lev2, owner2)
  BY <1>1, <1>2, <1>6, Zenon DEF Levels, Upper, Lower, Kinds, Rank
<1>8. \A x \in Pool, j \in Indices : x # c => (Slot(lev2, k, x, j) <=> Slot(lev, k, x, j))
  BY <1>6, Zenon DEF Slot
<1>9. ASSUME NEW x \in Pool, lev2[x] \in Lower
      PROVE  HasOwner(m2, k, lev2, owner2, x)
  <2>1. CASE x = c
    BY <1>1, <1>2, <1>6, <1>8, <1>3, <2>1 DEF HasOwner
  <2>2. CASE x # c
    <3>1. lev2[x] = lev[x] /\ owner2[x] = owner[x]
      BY <1>6, <2>2, Zenon
    <3>0. Owned(m, k, lev, owner, x)
      BY <1>9, <3>1, OwnerOf, Zenon
    <3>2. PICK a \in Pool, b \in Indices :
           /\ owner[x] = <<a, b>> /\ Rank(lev[x], lev[a]) /\ Slot(lev, k, a, b)
           /\ Present(m[a][b]) /\ m[a][b].addr = x
      BY <3>0, Zenon DEF Owned
    <3>3. a # c /\ <<a, b>> # <<t, i>>
      BY <1>2, <1>9, <3>1, <3>2, Zenon DEF Upper, Lower, Kinds, Rank
    <3>4. m2[a][b] = m[a][b] /\ lev2[a] = lev[a] /\ Slot(lev2, k, a, b)
      BY <1>6, <1>8, <1>5, <3>2, <3>3, Zenon
    <3> QED BY <3>1, <3>2, <3>4 DEF HasOwner
  <2> QED BY <2>1, <2>2, Zenon
<1>10. ASSUME NEW x \in Pool, NEW j \in Indices, Slot(lev2, k, x, j), Present(m2[x][j])
      PROVE  Owns(m2, lev2, owner2, x, j)
  <2>1. x # c
    BY <1>10, <1>4, Zenon
  <2>2. CASE <<x, j>> = <<t, i>>
    BY <1>2, <1>6, <1>3, <2>1, <2>2, Zenon DEF Owns
  <2>3. CASE <<x, j>> # <<t, i>>
    <3>1. m2[x][j] = m[x][j] /\ Slot(lev, k, x, j) /\ lev2[x] = lev[x]
      BY <1>6, <1>8, <1>10, <1>5, <2>1, <2>3, Zenon
    <3>2. Owns(m, lev, owner, x, j)
      BY <1>10, <3>1, Zenon DEF Forest
    <3>3. lev[x] # "PT"
      BY <3>1, Zenon DEF Slot, Upper, Lower, Kinds, Rank
    <3>4. m[x][j].addr # c
      BY <1>1, <1>2, <3>2, <3>3, Zenon DEF Owns, Upper, Lower, Kinds, Rank
    <3> QED BY <1>6, <3>1, <3>2, <3>4, Zenon DEF Owns
  <2> QED BY <2>2, <2>3, Zenon
<1>11. Forest(m2, fr \ {c}, lv, k, lev2, owner2)
  BY <1>7, <1>9, <1>10, Zenon DEF Forest
<1> QED BY <1>11, Zenon DEF lev2, owner2

\* A free frame becomes the PML4 of a new address space.
LEMMA AddSpace ==
  ASSUME NEW m, NEW m2, NEW fr, NEW lv, NEW k, NEW lev, NEW owner, NEW c,
         Forest(m, fr, lv, k, lev, owner), c \in fr, fr \subseteq Pool, k \in lv, k \in Pool,
         \A j \in UserIndices : ~Present(m2[c][j]),
         \A x \in Pool : x # c => m2[x] = m[x]
  PROVE  Forest(m2, fr \ {c}, lv \cup {c}, k, [lev EXCEPT ![c] = "PML4"], owner)
<1> DEFINE lev2 == [lev EXCEPT ![c] = "PML4"]
<1>1. lev \in [Pool -> Kinds] /\ owner \in [Pool -> Pool \X Indices]
      /\ \A x \in Pool : (lev[x] = "free" <=> x \in fr) /\ (lev[x] = "PML4" <=> x \in lv)
  BY LevelsOf
<1>2. c \in Pool /\ lev[c] = "free" /\ c # k
  BY <1>1, Zenon
<1>3. /\ lev2 \in [Pool -> Kinds] /\ lev2[c] = "PML4"
      /\ \A x \in Pool : x # c => lev2[x] = lev[x]
  BY <1>1, <1>2, Zenon
<1> HIDE DEF lev2
<1>4. Levels(fr \ {c}, lv \cup {c}, lev2, owner)
  BY <1>1, <1>2, <1>3, Zenon DEF Levels
<1>5. \A x \in Pool, j \in Indices : x # c => (Slot(lev2, k, x, j) <=> Slot(lev, k, x, j))
  BY <1>3, Zenon DEF Slot
<1>6. ASSUME NEW x \in Pool, lev2[x] \in Lower
      PROVE  HasOwner(m2, k, lev2, owner, x)
  <2>1. x # c /\ lev2[x] = lev[x]
    BY <1>3, <1>6, Zenon DEF Upper, Lower, Kinds, Rank
  <2>0. Owned(m, k, lev, owner, x)
    BY <1>6, <2>1, OwnerOf, Zenon
  <2>2. PICK a \in Pool, b \in Indices :
           /\ owner[x] = <<a, b>> /\ Rank(lev[x], lev[a]) /\ Slot(lev, k, a, b)
           /\ Present(m[a][b]) /\ m[a][b].addr = x
    BY <2>0, Zenon DEF Owned
  <2>3. a # c
    BY <1>2, <1>6, <2>1, <2>2, Zenon DEF Upper, Lower, Kinds, Rank
  <2>4. m2[a][b] = m[a][b] /\ lev2[a] = lev[a] /\ Slot(lev2, k, a, b)
    BY <1>3, <1>5, <2>2, <2>3, Zenon
  <2> QED BY <2>1, <2>2, <2>4 DEF HasOwner
<1>7. ASSUME NEW x \in Pool, NEW j \in Indices, Slot(lev2, k, x, j), Present(m2[x][j])
      PROVE  Owns(m2, lev2, owner, x, j)
  <2>1. x # c
    <3>1. x = c => j \in UserIndices
      BY <1>2, <1>3, <1>7, Zenon DEF Slot, KernelIndices
    <3> QED BY <1>7, <3>1, Zenon
  <2>2. m2[x][j] = m[x][j] /\ Slot(lev, k, x, j) /\ lev2[x] = lev[x]
    BY <1>3, <1>5, <1>7, <2>1, Zenon
  <2>3. Owns(m, lev, owner, x, j)
    BY <1>7, <2>2, Zenon DEF Forest
  <2>4. lev[x] # "PT"
    BY <2>2, Zenon DEF Slot, Upper, Lower, Kinds, Rank
  <2>5. m[x][j].addr # c
    BY <1>1, <1>2, <2>3, <2>4, Zenon DEF Owns, Upper, Lower, Kinds, Rank
  <2> QED BY <1>3, <2>2, <2>3, <2>5, Zenon DEF Owns
<1>8. Forest(m2, fr \ {c}, lv \cup {c}, k, lev2, owner)
  BY <1>4, <1>6, <1>7, Zenon DEF Forest
<1> QED BY <1>8, Zenon DEF lev2

\* The PML4 p and, of the other tables, exactly those whose owners are in the set.
Subtree(lev, owner, p, D) ==
  /\ D \in SUBSET Pool /\ p \in D
  /\ \A x \in D : x # p => lev[x] \in Lower /\ owner[x][1] \in D
  /\ \A x \in Pool : lev[x] \in Lower /\ owner[x][1] \in D => x \in D

Freed(lev, D) == [x \in Pool |-> IF x \in D THEN "free" ELSE lev[x]]

\* paging_destroy_pml4 frees a PML4 and the tables that its entries own.
LEMMA DropSpace ==
  ASSUME NEW m, NEW fr, NEW lv, NEW k, NEW lev, NEW owner, NEW p \in Pool, NEW D,
         Forest(m, fr, lv, k, lev, owner), p \in lv, p # k, Subtree(lev, owner, p, D)
  PROVE  Forest(m, fr \cup D, lv \ {p}, k, Freed(lev, D), owner)
<1> DEFINE lev2 == Freed(lev, D)
<1>0. /\ D \in SUBSET Pool /\ p \in D
      /\ \A x \in D : x # p => lev[x] \in Lower /\ owner[x][1] \in D
      /\ \A x \in Pool : lev[x] \in Lower /\ owner[x][1] \in D => x \in D
  BY Zenon DEF Subtree
<1>1. lev \in [Pool -> Kinds] /\ owner \in [Pool -> Pool \X Indices]
      /\ \A x \in Pool : (lev[x] = "free" <=> x \in fr) /\ (lev[x] = "PML4" <=> x \in lv)
  BY LevelsOf
<1>2. /\ lev2 \in [Pool -> Kinds]
      /\ \A x \in Pool : (x \in D => lev2[x] = "free") /\ (x \notin D => lev2[x] = lev[x])
  BY <1>1, Zenon DEF Freed, Kinds
<1> HIDE DEF lev2
<1>3. Levels(fr \cup D, lv \ {p}, lev2, owner)
  BY <1>0, <1>1, <1>2, Zenon DEF Levels, Upper, Lower, Kinds, Rank
<1>4. \A x \in Pool, j \in Indices : x \notin D => (Slot(lev2, k, x, j) <=> Slot(lev, k, x, j))
  BY <1>2, Zenon DEF Slot
<1>5. ASSUME NEW x \in Pool, lev2[x] \in Lower
      PROVE  HasOwner(m, k, lev2, owner, x)
  <2>1. x \notin D /\ lev2[x] = lev[x]
    BY <1>2, <1>5, Zenon DEF Upper, Lower, Kinds, Rank
  <2>0. Owned(m, k, lev, owner, x)
    BY <1>5, <2>1, OwnerOf, Zenon
  <2>2. PICK a \in Pool, b \in Indices :
           /\ owner[x] = <<a, b>> /\ Rank(lev[x], lev[a]) /\ Slot(lev, k, a, b)
           /\ Present(m[a][b]) /\ m[a][b].addr = x
    BY <2>0, Zenon DEF Owned
  <2>3. a \notin D
    BY <1>0, <1>5, <2>1, <2>2
  <2>4. lev2[a] = lev[a] /\ Slot(lev2, k, a, b)
    BY <1>2, <1>4, <2>2, <2>3, Zenon
  <2> QED BY <2>1, <2>2, <2>4 DEF HasOwner
<1>6. ASSUME NEW x \in Pool, NEW j \in Indices, Slot(lev2, k, x, j), Present(m[x][j])
      PROVE  Owns(m, lev2, owner, x, j)
  <2>1. x \notin D
    BY <1>2, <1>6, Zenon DEF Slot, Upper, Lower, Kinds, Rank
  <2>2. Slot(lev, k, x, j) /\ lev2[x] = lev[x]
    BY <1>2, <1>4, <1>6, <2>1, Zenon
  <2>3. Owns(m, lev, owner, x, j)
    BY <1>6, <2>2, Zenon DEF Forest
  <2>4. m[x][j].addr \notin D
    <3>1. m[x][j].addr \in D => m[x][j].addr = p
      BY <1>0, <2>1, <2>3 DEF Owns
    <3>2. lev[p] = "PML4" /\ lev[x] \in Kinds
      BY <1>1, Zenon
    <3> QED BY <2>3, <3>1, <3>2, Zenon DEF Owns, Upper, Lower, Kinds, Rank
  <2> QED BY <1>2, <2>2, <2>3, <2>4, Zenon DEF Owns
<1>7. Forest(m, fr \cup D, lv \ {p}, k, lev2, owner)
  BY <1>3, <1>5, <1>6, Zenon DEF Forest
<1> QED BY <1>7, Zenon DEF lev2

-------------------------------------------------------------------------------
(* paging_map and paging_unmap *)

\* The tables in order, of the spaces lv and the kernel's k.
Good(m, fr, lv, k, lev, owner) ==
  /\ m \in Memory /\ fr \in SUBSET Pool /\ lv \in SUBSET Pool
  /\ Half(m, lv, k) /\ Forest(m, fr, lv, k, lev, owner) /\ Rights(m, k, lev, owner)

\* pmm_alloc_frame returns a free frame.
MinIsFree == \A fr \in SUBSET Pool : fr # {} => Min(fr) \in fr

States == [mem : Memory, free : SUBSET Pool, oom : BOOLEAN]

\* One entry is written.
LEMMA WriteEntry ==
  ASSUME NEW m \in Memory, NEW t \in Pool, NEW i \in Indices, NEW e \in Entries
  PROVE  /\ [m EXCEPT ![t][i] = e] \in Memory
         /\ [m EXCEPT ![t][i] = e][t][i] = e
         /\ \A x \in Pool, j \in Indices : <<x, j>> # <<t, i>> => [m EXCEPT ![t][i] = e][x][j] = m[x][j]
<1>1. Pool \subseteq Frames
  BY Sets, Zenon
<1>2. [m[t] EXCEPT ![i] = e] \in [Indices -> Entries]
  BY <1>1, Zenon DEF Memory
<1>3. [m EXCEPT ![t][i] = e] \in Memory
  BY <1>1, <1>2, Zenon DEF Memory
<1>4. [m EXCEPT ![t][i] = e][t] = [m[t] EXCEPT ![i] = e]
      /\ \A x \in Pool : x # t => [m EXCEPT ![t][i] = e][x] = m[x]
  BY <1>1, Zenon DEF Memory
<1>5. [m[t] EXCEPT ![i] = e][i] = e /\ \A j \in Indices : j # i => [m[t] EXCEPT ![i] = e][j] = m[t][j]
  BY <1>1, Zenon DEF Memory
<1> QED BY <1>3, <1>4, <1>5, Zenon

\* The rights of an entry are extended.
LEMMA WriteFlags ==
  ASSUME NEW m \in Memory, NEW t \in Pool, NEW i \in Indices, NEW fl \in SUBSET Flags
  PROVE  /\ m[t][i] \in Entries
         /\ [m[t][i] EXCEPT !.flags = @ \cup fl] \in Entries
         /\ [m[t][i] EXCEPT !.flags = @ \cup fl].addr = m[t][i].addr
         /\ [m[t][i] EXCEPT !.flags = @ \cup fl].flags = m[t][i].flags \cup fl
         /\ [m EXCEPT ![t][i].flags = @ \cup fl] = [m EXCEPT ![t][i] = [m[t][i] EXCEPT !.flags = @ \cup fl]]
<1>1. m[t][i] \in Entries
  BY Sets, Zenon DEF Memory
<1>2. ASSUME NEW e \in Entries
      PROVE  /\ [e EXCEPT !.flags = @ \cup fl] \in Entries
             /\ [e EXCEPT !.flags = @ \cup fl].addr = e.addr
             /\ [e EXCEPT !.flags = @ \cup fl].flags = e.flags \cup fl
  BY Zenon DEF Entries
<1>3. [m EXCEPT ![t][i].flags = @ \cup fl] = [m EXCEPT ![t][i] = [m[t][i] EXCEPT !.flags = @ \cup fl]]
  BY Zenon
<1> QED BY <1>1, <1>2, <1>3, Zenon

\* Grant writes the flags of one entry and nothing else.
LEMMA GrantedMem ==
  ASSUME NEW m \in Memory, NEW t \in Pool, NEW i \in Indices, NEW fl \in SUBSET Flags
  PROVE  Granted(m, [m EXCEPT ![t][i].flags = @ \cup fl], t, i, fl)
<1> DEFINE e == [m[t][i] EXCEPT !.flags = @ \cup fl]
           m2 == [m EXCEPT ![t][i] = e]
<1>1. e \in Entries /\ e.addr = m[t][i].addr /\ e.flags = m[t][i].flags \cup fl
      /\ [m EXCEPT ![t][i].flags = @ \cup fl] = m2
  BY WriteFlags
<1> HIDE DEF e
<1>2. m2 \in Memory /\ m2[t][i] = e
      /\ \A x \in Pool, j \in Indices : <<x, j>> # <<t, i>> => m2[x][j] = m[x][j]
  BY <1>1, WriteEntry
<1> HIDE DEF m2
<1>3. Granted(m, m2, t, i, fl)
  BY <1>1, <1>2, Zenon DEF Granted
<1> QED BY <1>1, <1>3, Zenon

\* AllocTable clears one frame and makes one entry point to it.
LEMMA LinkedMem ==
  ASSUME NEW m \in Memory, NEW t \in Pool, NEW i \in Indices, NEW fl \in SUBSET Flags, NEW c \in Pool,
         NEW m1, m1 = [m EXCEPT ![c] = ZeroTable, ![t][i] = Entry(c, {})]
  PROVE  m1 \in Memory /\ Linked(m, m1, t, i, c, {})
<1> DEFINE m0 == [m EXCEPT ![c] = ZeroTable]
           n == [m0 EXCEPT ![t][i] = Entry(c, {})]
<1>1. m1 = n
  BY Zenon
<1>2. m0 \in Memory /\ m0[c] = ZeroTable /\ \A x \in Pool : x # c => m0[x] = m[x]
  BY Sets, Zenon DEF Memory
<1>3. Entry(c, {}) \in Entries /\ Entry(c, {}).addr = c /\ Entry(c, {}).flags = {}
  BY Sets, Zenon DEF Entry, Entries
<1> HIDE DEF m0
<1>4. n \in Memory /\ n[t][i] = Entry(c, {})
      /\ \A x \in Pool, j \in Indices : <<x, j>> # <<t, i>> => n[x][j] = m0[x][j]
  BY <1>2, <1>3, WriteEntry
<1> HIDE DEF n
<1>5. \A j \in Indices : ZeroTable[j] = Zero
  BY Zenon DEF ZeroTable
<1>6. c # t => \A j \in Indices : n[c][j] = Zero
  BY <1>2, <1>4, <1>5, Zenon
<1>7. \A x \in Pool, j \in Indices : x # c /\ <<x, j>> # <<t, i>> => n[x][j] = m[x][j]
  BY <1>2, <1>4, Zenon
<1>8. Linked(m, n, t, i, c, {})
  BY <1>3, <1>4, <1>6, <1>7, Zenon DEF Linked
<1> QED BY <1>1, <1>4, <1>8, Zenon

\* AllocTable and then Grant: a new table, and the rights of the entry that owns it.
LEMMA LinkedGranted ==
  ASSUME NEW m, NEW m1, NEW m2, NEW t \in Pool, NEW i \in Indices, NEW fl, NEW c \in Pool,
         Linked(m, m1, t, i, c, {}), Granted(m1, m2, t, i, fl)
  PROVE  Linked(m, m2, t, i, c, fl)
<1>1. m2[t][i].addr = c /\ m2[t][i].flags = fl /\ m2 \in Memory
  BY Zenon DEF Linked, Granted
<1>2. c # t => \A j \in Indices : m2[c][j] = Zero
  BY Zenon DEF Linked, Granted
<1>3. \A x \in Pool, j \in Indices : x # c /\ <<x, j>> # <<t, i>> => m2[x][j] = m[x][j]
  BY DEF Linked, Granted
<1> QED BY <1>1, <1>2, <1>3, Zenon DEF Linked

\* The three outcomes of EnsureTable: rights added, a panic, a new empty table.
LEMMA EnsureCases ==
  ASSUME MinIsFree, NEW s \in States, ~s.oom, NEW t \in Pool, NEW i \in Indices, NEW fl \in SUBSET Flags,
         NEW s2, s2 = EnsureTable(s, t, i, fl)
  PROVE  /\ s2 \in States
         /\ \/ /\ Present(s.mem[t][i]) /\ ~s2.oom /\ s2.free = s.free
               /\ Granted(s.mem, s2.mem, t, i, fl)
            \/ /\ ~Present(s.mem[t][i]) /\ s2.oom /\ s2.mem = s.mem /\ s2.free = s.free
            \/ /\ ~Present(s.mem[t][i]) /\ ~s2.oom
               /\ \E c \in s.free : s2.free = s.free \ {c} /\ Linked(s.mem, s2.mem, t, i, c, fl)
<1>1. s.mem \in Memory /\ s.free \in SUBSET Pool /\ s.oom \in BOOLEAN
  BY Zenon DEF States
<1>2. ASSUME NEW r \in States
      PROVE  /\ r.mem \in Memory
             /\ Grant(r, t, i, fl) \in States
             /\ Grant(r, t, i, fl).oom = r.oom /\ Grant(r, t, i, fl).free = r.free
             /\ Granted(r.mem, Grant(r, t, i, fl).mem, t, i, fl)
  <2>1. r.mem \in Memory
    BY Zenon DEF States
  <2> DEFINE n == [r.mem EXCEPT ![t][i].flags = @ \cup fl]
  <2>2. Granted(r.mem, n, t, i, fl)
    BY <2>1, GrantedMem, Zenon
  <2>3. Grant(r, t, i, fl) = [r EXCEPT !.mem = n]
    BY Zenon DEF Grant
  <2> HIDE DEF n
  <2>5. n \in Memory
    BY <2>2, Zenon DEF Granted
  <2>4. [r EXCEPT !.mem = n] \in States /\ [r EXCEPT !.mem = n].mem = n
        /\ [r EXCEPT !.mem = n].free = r.free /\ [r EXCEPT !.mem = n].oom = r.oom
    BY <2>5, Zenon DEF States
  <2> QED BY <2>1, <2>2, <2>3, <2>4, Zenon
<1>3. CASE Present(s.mem[t][i])
  <2>1. s2 = Grant(s, t, i, fl)
    BY <1>3, Zenon DEF EnsureTable
  <2> QED BY <1>2, <1>3, <2>1, Zenon
<1>4. CASE ~Present(s.mem[t][i]) /\ s.free = {}
  <2>1. s2 = [s EXCEPT !.oom = TRUE]
    BY <1>4, Zenon DEF EnsureTable, OutOfFrames
  <2> QED BY <1>4, <2>1, Zenon DEF States
<1>5. CASE ~Present(s.mem[t][i]) /\ s.free # {}
  <2> DEFINE c == Min(s.free)
  <2>1. c \in s.free
    BY <1>1, <1>5, Zenon DEF MinIsFree
  <2>2. s2 = Grant(AllocTable(s, t, i), t, i, fl)
    BY <1>5, Zenon DEF EnsureTable, OutOfFrames
  <2> DEFINE n == [s.mem EXCEPT ![c] = ZeroTable, ![t][i] = Entry(c, {})]
             r == AllocTable(s, t, i)
  <2>3. n \in Memory /\ Linked(s.mem, n, t, i, c, {})
    BY <1>1, <2>1, LinkedMem, Zenon
  <2>4. r = [s EXCEPT !.mem = n, !.free = s.free \ {c}]
    BY Zenon DEF AllocTable
  <2> HIDE DEF n, c, r
  <2>5. r \in States /\ r.mem = n /\ r.free = s.free \ {c} /\ r.oom = s.oom
    BY <1>1, <2>3, <2>4, Zenon DEF States
  <2>6. s2 \in States /\ s2.oom = r.oom /\ s2.free = r.free /\ Granted(n, s2.mem, t, i, fl)
    BY <1>2, <2>2, <2>5, Zenon DEF r
  <2>7. c \in Pool
    BY <1>1, <2>1, Zenon
  <2>8. Linked(s.mem, s2.mem, t, i, c, fl)
    BY <2>3, <2>6, <2>7, LinkedGranted, Zenon
  <2> QED BY <1>5, <2>1, <2>5, <2>6, <2>8, Zenon
<1> QED BY <1>3, <1>4, <1>5, Zenon

\* Tables keep their levels and owners, page tables their entries, and the kernel half
\* what it has; new page tables are empty.
Keeps(m, m2, k, lev, lev2, owner, owner2) ==
  /\ \A x \in Pool : lev[x] # "free" => lev2[x] = lev[x] /\ owner2[x] = owner[x]
  /\ \A x \in Pool, j \in Indices :
       lev2[x] = "PT" => IF lev[x] = "PT" THEN m2[x][j] = m[x][j] ELSE ~Present(m2[x][j])
  /\ \A j \in KernelIndices : Present(m[k][j]) => m2[k][j] = m[k][j]

\* The kernel half of an unchanged kernel half.
LEMMA HalfKept ==
  ASSUME NEW m, NEW m2, NEW lv, NEW k, Half(m, lv, k),
         \A p \in lv, j \in KernelIndices : m2[p][j] = m[p][j]
  PROVE  Half(m2, lv, k) /\ \A j \in KernelIndices : m2[k][j] = m[k][j]
BY DEF Half

\* An entry is its address and its flags.
LEMMA SameEntry ==
  ASSUME NEW e \in Entries, NEW f \in Entries, e.addr = f.addr, e.flags = f.flags
  PROVE  e = f
BY DEF Entries

\* Entry i of t points to a table of the kind n, which entry i of o owns, with these rights.
Points(m, lev, owner, o, t, i, n, fl) ==
  LET x == m[t][i].addr
  IN  x \in Pool /\ lev[x] = n /\ owner[x] = <<o, i>> /\ Allowed(m, owner, x, fl)

\* The tables are in order and entry i of t points to one of the kind n.
Tabled(m, m2, fr2, lv, k, lev, owner, t, i, n, fl) ==
  \E lev2, owner2 :
    /\ Good(m2, fr2, lv, k, lev2, owner2) /\ Keeps(m, m2, k, lev, lev2, owner, owner2)
    /\ Points(m2, lev2, owner2, t, t, i, n, fl)

\* More rights in an entry.
LEMMA GrantRights ==
  ASSUME NEW m, NEW fr, NEW lv, NEW k, NEW lev, NEW owner, Good(m, fr, lv, k, lev, owner),
         NEW t \in Pool, NEW i \in Indices, Present(m[t][i]),
         NEW fl, "W" \in fl, lev[t] \in Lower => Allowed(m, owner, t, fl), NEW m2, Granted(m, m2, t, i, fl)
  PROVE  Rights(m2, k, lev, owner)
<1>1. Rights(m, k, lev, owner) /\ owner \in [Pool -> Pool \X Indices]
  BY LevelsOf DEF Good
<1>2. m2[t][i].flags = m[t][i].flags \cup fl
      /\ \A x \in Pool, j \in Indices : <<x, j>> # <<t, i>> => m2[x][j] = m[x][j]
  BY Zenon DEF Granted
<1>3. ASSUME NEW x \in Pool, NEW j \in Indices, Slot(lev, k, x, j), Present(m2[x][j])
      PROVE  "W" \in m2[x][j].flags
  BY <1>1, <1>2, <1>3 DEF Rights
<1>4. \A x \in Pool, j \in Indices : \A f : f \in m[x][j].flags => f \in m2[x][j].flags
  BY <1>2
<1>5. ASSUME NEW x \in Pool, NEW j \in Indices, lev[x] \in Lower, Present(m2[x][j])
      PROVE  Allowed(m2, owner, x, m2[x][j].flags)
  <2>1. owner[x][1] \in Pool /\ owner[x][2] \in Indices
    BY <1>1
  <2>2. Allowed(m, owner, x, m[x][j].flags) \/ ~Present(m[x][j])
    BY <1>1, <1>5 DEF Rights
  <2>3. CASE <<x, j>> # <<t, i>>
    BY <1>2, <1>4, <1>5, <2>1, <2>2, <2>3 DEF Allowed
  <2>4. CASE <<x, j>> = <<t, i>>
    BY <1>2, <1>4, <1>5, <2>1, <2>2, <2>4 DEF Allowed
  <2> QED BY <2>3, <2>4
<1> QED BY <1>3, <1>5 DEF Rights

\* Frames other than c keep their kinds and owners.
SameBut(c, lev, lev2, owner, owner2) ==
  \A x \in Pool : x # c => lev2[x] = lev[x] /\ owner2[x] = owner[x]

\* A new table in an entry.
LEMMA LinkRights ==
  ASSUME NEW m, NEW fr, NEW lv, NEW k, NEW lev, NEW owner, Good(m, fr, lv, k, lev, owner),
         NEW t \in Pool, NEW i \in Indices, ~Present(m[t][i]), NEW c \in fr, lev[t] \in Upper,
         NEW fl, "W" \in fl, lev[t] \in Lower => Allowed(m, owner, t, fl), NEW m2, Linked(m, m2, t, i, c, fl),
         NEW lev2, NEW owner2, SameBut(c, lev, lev2, owner, owner2)
  PROVE  Rights(m2, k, lev2, owner2)
<1>1. /\ Rights(m, k, lev, owner) /\ Forest(m, fr, lv, k, lev, owner) /\ c \in Pool /\ lev[c] = "free"
      /\ lev \in [Pool -> Kinds]
  BY LevelsOf DEF Good
<1>2. c # t
  BY <1>1 DEF Upper
<1>3. m2[t][i].flags = fl
      /\ \A x \in Pool, j \in Indices : x # c /\ <<x, j>> # <<t, i>> => m2[x][j] = m[x][j]
  BY Zenon DEF Linked
<1>4. \A j \in Indices : ~Present(m2[c][j])
  BY <1>2, Sets, Zenon DEF Linked
<1>5. ASSUME NEW x \in Pool, NEW j \in Indices, Slot(lev2, k, x, j), Present(m2[x][j])
      PROVE  "W" \in m2[x][j].flags
  <2>1. x # c /\ Slot(lev, k, x, j)
    BY <1>4, <1>5 DEF Slot, SameBut
  <2> QED BY <1>1, <1>3, <1>5, <2>1 DEF Rights
<1>6. ASSUME NEW x \in Pool, NEW j \in Indices, lev2[x] \in Lower, Present(m2[x][j])
      PROVE  Allowed(m2, owner2, x, m2[x][j].flags)
  <2>1. x # c /\ lev[x] \in Lower /\ owner2[x] = owner[x]
    BY <1>4, <1>6 DEF SameBut
  <2>0. Owned(m, k, lev, owner, x)
    BY <1>1, <2>1, OwnerOf, Zenon
  <2>2. PICK a \in Pool, b \in Indices : owner[x] = <<a, b>> /\ Rank(lev[x], lev[a]) /\ Present(m[a][b])
    BY <2>0, Zenon DEF Owned
  <2>3. a # c /\ <<a, b>> # <<t, i>>
    BY <1>1, <2>2 DEF Rank
  <2>4. m2[a][b] = m[a][b] /\ owner[x][1] = a /\ owner[x][2] = b
    BY <1>3, <2>2, <2>3
  <2>5. CASE <<x, j>> # <<t, i>>
    <3>1. Allowed(m, owner, x, m[x][j].flags) /\ m2[x][j] = m[x][j]
      BY <1>1, <1>3, <1>6, <2>1, <2>5 DEF Rights
    <3> QED BY <2>1, <2>4, <3>1 DEF Allowed
  <2>6. CASE <<x, j>> = <<t, i>>
    <3>1. Allowed(m, owner, x, m2[x][j].flags)
      BY <1>3, <2>1, <2>6
    <3> QED BY <2>1, <2>4, <3>1 DEF Allowed
  <2> QED BY <2>5, <2>6
<1> QED BY <1>5, <1>6 DEF Rights

\* More rights in an entry of a table.
LEMMA GrantKeeps ==
  ASSUME NEW m, NEW fr, NEW lv, NEW k, NEW lev, NEW owner, Good(m, fr, lv, k, lev, owner),
         NEW t \in Pool, NEW i \in Indices, Slot(lev, k, t, i), Present(m[t][i]),
         NEW fl, "W" \in fl, t = k /\ i \in KernelIndices => fl = {"P", "W"},
         lev[t] \in Lower => Allowed(m, owner, t, fl),
         NEW m2, Granted(m, m2, t, i, fl), NEW n, Rank(n, lev[t])
  PROVE  Tabled(m, m2, fr, lv, k, lev, owner, t, i, n, fl)
<1>1. m \in Memory /\ Half(m, lv, k) /\ Forest(m, fr, lv, k, lev, owner) /\ fr \in SUBSET Pool /\ lv \in SUBSET Pool
  BY Zenon DEF Good
<1>2. m2 \in Memory /\ m2[t][i].addr = m[t][i].addr /\ m2[t][i].flags = m[t][i].flags \cup fl
      /\ \A x \in Pool, j \in Indices : <<x, j>> # <<t, i>> => m2[x][j] = m[x][j]
  BY Zenon DEF Granted
<1>3. ASSUME t = k, i \in KernelIndices
      PROVE  m2[t][i] = m[t][i]
  <2>1. m[t][i] \in Entries /\ m2[t][i] \in Entries
    BY <1>1, <1>2, Sets DEF Memory
  <2>2. m[t][i].flags = {"P", "W"} /\ fl = {"P", "W"}
    BY <1>1, <1>3, Zenon DEF Half
  <2>3. m2[t][i].flags = m[t][i].flags
    BY <1>2, <2>2, Zenon
  <2> QED BY <1>2, <2>1, <2>3, SameEntry, Zenon
<1>5. Present(m2[t][i])
  BY <1>2, Zenon DEF Present
<1>6. Forest(m2, fr, lv, k, lev, owner)
  <2>1. \A x \in Pool, j \in Indices : Slot(lev, k, x, j) =>
           (Present(m2[x][j]) <=> Present(m[x][j])) /\ m2[x][j].addr = m[x][j].addr
    BY <1>2, <1>5, Zenon
  <2> QED BY <1>1, <2>1, SameLinks
<1>7. \A p \in lv, j \in KernelIndices : m2[p][j] = m[p][j]
  <2> TAKE p \in lv, j \in KernelIndices
  <2>1. p \in Pool /\ j \in Indices /\ lev[p] = "PML4"
    BY <1>1, Sets, LevelsOf
  <2>2. CASE <<p, j>> # <<t, i>>
    BY <1>2, <2>1, <2>2, Zenon
  <2>3. CASE <<p, j>> = <<t, i>>
    <3>1. p = t /\ j = i
      BY <2>3, Zenon
    <3>2. t = k
      BY <2>1, <3>1, Zenon DEF Slot
    <3> QED BY <1>3, <3>1, <3>2, Zenon
  <2> QED BY <2>2, <2>3, Zenon
<1>8. Half(m2, lv, k) /\ \A j \in KernelIndices : m2[k][j] = m[k][j]
  BY <1>1, <1>7, HalfKept
<1>9. Owns(m, lev, owner, t, i)
  BY <1>1, Zenon DEF Forest
<1>10. Points(m2, lev, owner, t, t, i, n, fl)
  <2>1. m2[t][i].addr \in Pool /\ lev[m2[t][i].addr] = n /\ owner[m2[t][i].addr] = <<t, i>>
    BY <1>2, <1>9, Zenon DEF Owns, Rank
  <2>2. Allowed(m2, owner, m2[t][i].addr, fl)
    BY <1>2, <2>1 DEF Allowed
  <2> QED BY <2>1, <2>2, Zenon DEF Points
<1>11. Rights(m2, k, lev, owner)
  BY GrantRights, Zenon
<1>12. Keeps(m, m2, k, lev, lev, owner, owner)
  <2>1. lev[t] # "PT"
    BY Zenon DEF Slot, Upper
  <2>2. \A x \in Pool, j \in Indices : lev[x] = "PT" => m2[x][j] = m[x][j]
    BY <1>2, <2>1, Zenon
  <2> QED BY <1>8, <2>2, Zenon DEF Keeps
<1> QED BY <1>1, <1>2, <1>6, <1>8, <1>10, <1>11, <1>12, Zenon DEF Good, Tabled

\* A new table in an entry of a table; in the kernel half only while the kernel's
\* address space is the only one.
LEMMA AllocKeeps ==
  ASSUME NEW m, NEW fr, NEW lv, NEW k, NEW lev, NEW owner, Good(m, fr, lv, k, lev, owner),
         NEW t \in Pool, NEW i \in Indices, Slot(lev, k, t, i), ~Present(m[t][i]),
         NEW fl, "P" \in fl, "W" \in fl, t = k /\ i \in KernelIndices => fl = {"P", "W"} /\ lv = {k},
         lev[t] \in Lower => Allowed(m, owner, t, fl), NEW c \in fr,
         NEW m2, Linked(m, m2, t, i, c, fl), NEW n, Rank(n, lev[t])
  PROVE  Tabled(m, m2, fr \ {c}, lv, k, lev, owner, t, i, n, fl)
<1>1. m \in Memory /\ Half(m, lv, k) /\ Forest(m, fr, lv, k, lev, owner) /\ fr \in SUBSET Pool /\ lv \in SUBSET Pool
  BY Zenon DEF Good
<1>2. lev \in [Pool -> Kinds] /\ \A x \in Pool : (lev[x] = "free" <=> x \in fr) /\ (lev[x] = "PML4" <=> x \in lv)
  BY <1>1, LevelsOf
<1>3. c \in Pool /\ lev[c] = "free" /\ c # t /\ c \notin lv /\ lev[t] \in Upper
  BY <1>1, <1>2, Zenon DEF Slot, Upper, Lower, Kinds, Rank
<1>4. m2 \in Memory /\ m2[t][i].addr = c /\ m2[t][i].flags = fl
      /\ \A x \in Pool, j \in Indices : x # c /\ <<x, j>> # <<t, i>> => m2[x][j] = m[x][j]
  BY Zenon DEF Linked
<1>11. \A j \in Indices : ~Present(m2[c][j])
  BY <1>3, Sets, Zenon DEF Linked
<1>12. Present(m2[t][i]) /\ m2[t][i].addr = c
  BY <1>4, Zenon DEF Present
<1> DEFINE lev2 == [lev EXCEPT ![c] = n]
           owner2 == [owner EXCEPT ![c] = <<t, i>>]
<1>13. Forest(m2, fr \ {c}, lv, k, lev2, owner2)
  BY <1>1, AddLink, Zenon
<1>14. /\ lev2[c] = n /\ owner2[c] = <<t, i>>
       /\ \A x \in Pool : x # c => lev2[x] = lev[x] /\ owner2[x] = owner[x]
  BY <1>1, <1>3, LevelsOf
<1> HIDE DEF lev2, owner2
<1>15. k \in lv /\ k \in Pool /\ k # c
  BY <1>1, <1>3, Zenon DEF Half
<1>16. Half(m2, lv, k)
  <2>1. CASE t = k /\ i \in KernelIndices
    <3>1. ASSUME NEW j \in KernelIndices, Present(m2[k][j])
          PROVE  m2[k][j].flags = {"P", "W"}
      <4>1. CASE j = i
        BY <1>4, <2>1, <4>1, Zenon
      <4>2. CASE j # i
        <5>1. m2[k][j] = m[k][j]
          BY <1>4, <1>15, <2>1, <4>2, Sets, Zenon
        <5> QED BY <1>1, <3>1, <5>1, Zenon DEF Half
      <4> QED BY <4>1, <4>2, Zenon
    <3> QED BY <1>15, <2>1, <3>1, Zenon DEF Half
  <2>2. CASE ~(t = k /\ i \in KernelIndices)
    <3>1. \A p \in lv, j \in KernelIndices : p # c /\ <<p, j>> # <<t, i>> /\ p \in Pool /\ j \in Indices
      BY <1>1, <1>2, <1>3, <2>2, Sets, Zenon DEF Slot
    <3>2. \A p \in lv, j \in KernelIndices : m2[p][j] = m[p][j]
      BY <1>4, <3>1, Zenon
    <3> QED BY <1>1, <3>2, HalfKept, Zenon
  <2> QED BY <2>1, <2>2, Zenon
<1>17. \A j \in KernelIndices : Present(m[k][j]) => m2[k][j] = m[k][j]
  BY <1>4, <1>15, Sets, Zenon
<1>18. Rights(m2, k, lev2, owner2)
  <2>1. SameBut(c, lev, lev2, owner, owner2)
    BY <1>14, Zenon DEF SameBut
  <2> QED BY <1>3, <2>1, LinkRights, Zenon
<1>19. Points(m2, lev2, owner2, t, t, i, n, fl)
  <2>1. Allowed(m2, owner2, c, fl)
    BY <1>4, <1>14 DEF Allowed
  <2> QED BY <1>3, <1>4, <1>14, <2>1, Zenon DEF Points
<1>20. Keeps(m, m2, k, lev, lev2, owner, owner2)
  <2>1. lev[t] # "PT"
    BY <1>3, Zenon DEF Upper
  <2>2. \A x \in Pool : lev[x] # "free" => lev2[x] = lev[x] /\ owner2[x] = owner[x]
    BY <1>3, <1>14, Zenon
  <2>3. ASSUME NEW x \in Pool, NEW j \in Indices, lev2[x] = "PT"
        PROVE  IF lev[x] = "PT" THEN m2[x][j] = m[x][j] ELSE ~Present(m2[x][j])
    BY <1>3, <1>4, <1>11, <1>14, <2>1, <2>3, Zenon
  <2> QED BY <1>17, <2>2, <2>3, Zenon DEF Keeps
<1>21. fr \ {c} \in SUBSET Pool
  BY <1>1, Zenon
<1> QED BY <1>1, <1>4, <1>13, <1>16, <1>18, <1>19, <1>20, <1>21, Zenon DEF Good, Tabled

\* EnsureTable on entry i of t ended in the state s2, with a table of the kind n there
\* unless memory ran out, owned by entry i of o.
Outcome(s, s2, lv, k, lev, owner, o, t, i, n, fl) ==
  \E lev2, owner2 :
    /\ Good(s2.mem, s2.free, lv, k, lev2, owner2) /\ Keeps(s.mem, s2.mem, k, lev, lev2, owner, owner2)
    /\ ~s2.oom => Points(s2.mem, lev2, owner2, o, t, i, n, fl)

\* EnsureTable may be called on entry i of t, for a table of the kind n.
Ready(s, t, i, fl, lv, k, lev, owner, n) ==
  /\ s \in States /\ ~s.oom /\ t \in Pool /\ i \in Indices /\ fl \in SUBSET Flags /\ {"P", "W"} \subseteq fl
  /\ lev[t] \in Lower => Allowed(s.mem, owner, t, fl)
  /\ Good(s.mem, s.free, lv, k, lev, owner) /\ Slot(lev, k, t, i) /\ Rank(n, lev[t])
  /\ t = k /\ i \in KernelIndices => fl = {"P", "W"} /\ (Present(s.mem[t][i]) \/ lv = {k})

\* EnsureTable on an entry that may own a table.
LEMMA EnsureSlot ==
  ASSUME MinIsFree, NEW s, NEW t, NEW i, NEW fl, NEW lv, NEW k, NEW lev, NEW owner, NEW n,
         Ready(s, t, i, fl, lv, k, lev, owner, n), NEW s2, s2 = EnsureTable(s, t, i, fl)
  PROVE  s2 \in States /\ Outcome(s, s2, lv, k, lev, owner, t, t, i, n, fl)
<1> DEFINE m == s.mem
           fr == s.free
           m2 == s2.mem
<1>0. /\ s \in States /\ ~s.oom /\ t \in Pool /\ i \in Indices /\ fl \in SUBSET Flags /\ "P" \in fl /\ "W" \in fl
      /\ Slot(lev, k, t, i) /\ Rank(n, lev[t])
  BY Zenon DEF Ready
<1>1. /\ s2 \in States
      /\ \/ Present(m[t][i]) /\ ~s2.oom /\ s2.free = fr /\ Granted(m, m2, t, i, fl)
         \/ ~Present(m[t][i]) /\ s2.oom /\ m2 = m /\ s2.free = fr
         \/ /\ ~Present(m[t][i]) /\ ~s2.oom
            /\ \E c \in fr : s2.free = fr \ {c} /\ Linked(m, m2, t, i, c, fl)
  BY <1>0, EnsureCases, Zenon
<1>2. Good(m, fr, lv, k, lev, owner) /\ (lev[t] \in Lower => Allowed(m, owner, t, fl))
  BY Zenon DEF Ready
<1>3. t = k /\ i \in KernelIndices => fl = {"P", "W"} /\ (Present(m[t][i]) \/ lv = {k})
  BY Zenon DEF Ready
<1> HIDE DEF m, fr, m2
<1>4. CASE Present(m[t][i]) /\ ~s2.oom /\ s2.free = fr /\ Granted(m, m2, t, i, fl)
  <2>1. Tabled(m, m2, fr, lv, k, lev, owner, t, i, n, fl)
    BY <1>0, <1>2, <1>3, <1>4, GrantKeeps, Zenon
  <2> QED BY <1>1, <1>4, <2>1, Zenon DEF Outcome, Tabled, m, m2
<1>5. CASE s2.oom /\ m2 = m /\ s2.free = fr
  <2>1. Keeps(m, m2, k, lev, lev, owner, owner)
    BY <1>5, Zenon DEF Keeps
  <2> QED BY <1>1, <1>2, <1>5, <2>1, Zenon DEF Outcome, m, m2
<1>6. CASE ~Present(m[t][i]) /\ ~s2.oom /\ \E c \in fr : s2.free = fr \ {c} /\ Linked(m, m2, t, i, c, fl)
  <2>1. PICK c \in fr : s2.free = fr \ {c} /\ Linked(m, m2, t, i, c, fl)
    BY <1>6, Zenon
  <2>2. Tabled(m, m2, fr \ {c}, lv, k, lev, owner, t, i, n, fl)
    <3>1. ~Present(m[t][i])
      BY <1>6, Zenon
    <3>2. t = k /\ i \in KernelIndices => fl = {"P", "W"} /\ lv = {k}
      BY <1>3, <3>1, Zenon
    <3> QED BY <1>0, <1>2, <2>1, <3>1, <3>2, AllocKeeps, Zenon
  <2> QED BY <1>1, <2>1, <2>2, Zenon DEF Outcome, Tabled, m, m2
<1> QED BY <1>1, <1>4, <1>5, <1>6, Zenon

\* The table whose entry owns the table at entry i of the PML4 p.
Root(k, p, i) == IF i \in UserIndices THEN p ELSE k

\* EnsureTable on an entry of a PML4, the kernel half being full.
LEMMA EnsurePml4 ==
  ASSUME MinIsFree, NEW s \in States, ~s.oom, NEW i \in Indices, NEW fl \in SUBSET Flags, {"P", "W"} \subseteq fl,
         NEW lv, NEW k, NEW lev, NEW owner, Good(s.mem, s.free, lv, k, lev, owner), Full(s.mem, k),
         NEW p \in lv, NEW s2, s2 = EnsureTable(s, p, i, fl),
         i \in KernelIndices => fl = {"P", "W"}
  PROVE  s2 \in States /\ Outcome(s, s2, lv, k, lev, owner, Root(k, p, i), p, i, "PDPT", fl)
<1> DEFINE m == s.mem
           fr == s.free
           m2 == s2.mem
<1>1. m \in Memory /\ Half(m, lv, k) /\ Forest(m, fr, lv, k, lev, owner) /\ lv \in SUBSET Pool /\ fr \in SUBSET Pool
  BY Zenon DEF Good
<1>2. p \in Pool /\ k \in Pool /\ lev[p] = "PML4" /\ lev[k] = "PML4" /\ k \in lv
  BY <1>1, LevelsOf DEF Half
<1>3. CASE i \notin KernelIndices \/ p = k
  <2>1. Slot(lev, k, p, i)
    BY <1>2, <1>3, Zenon DEF Slot, Upper, Lower, Kinds, Rank
  <2>2. p = k /\ i \in KernelIndices => fl = {"P", "W"} /\ (Present(s.mem[p][i]) \/ lv = {k})
    BY Zenon DEF Full
  <2>3. s2 \in States /\ Outcome(s, s2, lv, k, lev, owner, p, p, i, "PDPT", fl)
    <3>1. Ready(s, p, i, fl, lv, k, lev, owner, "PDPT")
      BY <1>2, <2>1, <2>2, Zenon DEF Rank, Ready, Lower
    <3> QED BY <3>1, EnsureSlot, Zenon
  <2>4. Root(k, p, i) = p
    BY <1>3, Zenon DEF Root, KernelIndices
  <2> QED BY <2>3, <2>4, Zenon
<1>4. CASE i \in KernelIndices /\ p # k
  <2>1. m[p][i] = m[k][i] /\ Present(m[k][i]) /\ m[k][i].flags = {"P", "W"}
    BY <1>1, <1>4, Zenon DEF Half, Full
  <2>2. Slot(lev, k, k, i)
    BY <1>2, Zenon DEF Slot, Upper, Lower, Kinds, Rank
  <2>3. Owns(m, lev, owner, k, i)
    BY <1>1, <1>2, <2>1, <2>2, Zenon DEF Forest
  <2>4. s2 \in States /\ ~s2.oom /\ s2.free = fr /\ Granted(m, m2, p, i, fl)
    <3>1. /\ s2 \in States
          /\ \/ Present(m[p][i]) /\ ~s2.oom /\ s2.free = fr /\ Granted(m, m2, p, i, fl)
             \/ ~Present(m[p][i])
      BY <1>2, EnsureCases
    <3> QED BY <2>1, <3>1, Zenon
  <2> HIDE DEF m, fr, m2
  <2>5. m2 \in Memory /\ m2[p][i].addr = m[p][i].addr /\ m2[p][i].flags = m[p][i].flags \cup fl
        /\ \A x \in Pool, j \in Indices : <<x, j>> # <<p, i>> => m2[x][j] = m[x][j]
    BY <2>4, Zenon DEF Granted
  <2>6. m2[p][i] = m[p][i]
    <3>1. m[p][i] \in Entries /\ m2[p][i] \in Entries
      BY <1>1, <1>2, <2>5, Sets DEF Memory
    <3>2. m2[p][i].flags = m[p][i].flags
      BY <1>4, <2>1, <2>5, Zenon
    <3> QED BY <2>5, <3>1, <3>2, SameEntry, Zenon
  <2>7. \A x \in Pool, j \in Indices : m2[x][j] = m[x][j]
    BY <2>5, <2>6, Zenon
  <2>8. Forest(m2, fr, lv, k, lev, owner)
    BY <1>1, <2>7, SameLinks
  <2>9. Half(m2, lv, k) /\ \A j \in KernelIndices : m2[k][j] = m[k][j]
    <3>1. \A q \in lv, j \in KernelIndices : m2[q][j] = m[q][j]
      BY <1>1, <2>7, Sets, Zenon
    <3> QED BY <1>1, <3>1, HalfKept
  <2>10. Rights(m2, k, lev, owner)
    <3>1. lev[p] \notin Lower /\ Present(m[p][i]) /\ "W" \in fl
      BY <1>2, <2>1, Zenon DEF Lower
    <3> QED BY <1>2, <2>4, <3>1, GrantRights, Zenon DEF m, fr
  <2>11. Good(m2, fr, lv, k, lev, owner) /\ Keeps(m, m2, k, lev, lev, owner, owner)
    BY <1>1, <2>5, <2>7, <2>8, <2>9, <2>10, Zenon DEF Good, Keeps
  <2>12. Points(m2, lev, owner, k, p, i, "PDPT", fl)
    <3>1. m2[p][i].addr \in Pool /\ lev[m2[p][i].addr] = "PDPT" /\ owner[m2[p][i].addr] = <<k, i>>
      BY <1>2, <2>1, <2>3, <2>6, Zenon DEF Owns, Upper, Lower, Kinds, Rank
    <3>2. "U" \notin fl
      BY <1>4
    <3> QED BY <3>1, <3>2, Zenon DEF Points, Allowed
  <2>13. Root(k, p, i) = k
    BY <1>4, Zenon DEF Root, KernelIndices
  <2> QED BY <2>4, <2>11, <2>12, <2>13, Zenon DEF Outcome, m, fr, m2
<1> QED BY <1>3, <1>4, Zenon

-------------------------------------------------------------------------------
(* The tables on the way to a page, from the PML4 r that owns them. *)

PdptAt(lev, owner, r, va, a) ==
  a \in Pool /\ lev[a] = "PDPT" /\ owner[a] = <<r, PML4_INDEX(va)>>

PdAt(lev, owner, r, va, b) ==
  b \in Pool /\ lev[b] = "PD" /\ \E a : PdptAt(lev, owner, r, va, a) /\ owner[b] = <<a, PDPT_INDEX(va)>>

PtAt(lev, owner, r, va, t) ==
  t \in Pool /\ lev[t] = "PT" /\ \E b : PdAt(lev, owner, r, va, b) /\ owner[t] = <<b, PD_INDEX(va)>>

RootOf(k, p, va) == Root(k, p, PML4_INDEX(va))

\* The entry that the owners lead to.
Leaf(m, lev, owner, r, va, e) ==
  \E t : PtAt(lev, owner, r, va, t) /\ e = m[t][PT_INDEX(va)] /\ Present(e)

\* The table x hangs from entry i of t.
Link(m, lev, owner, t, i, x) ==
  /\ x \in Pool /\ Rank(lev[x], lev[t]) /\ owner[x] = <<t, i>>
  /\ Present(m[t][i]) /\ m[t][i].addr = x /\ "W" \in m[t][i].flags

\* The entry i of t, when it is present.
LEMMA SlotLink ==
  ASSUME NEW m, NEW fr, NEW lv, NEW k, NEW lev, NEW owner, Good(m, fr, lv, k, lev, owner),
         NEW t \in Pool, NEW i \in Indices, Slot(lev, k, t, i), Present(m[t][i]), NEW x, x = m[t][i].addr
  PROVE  Link(m, lev, owner, t, i, x)
<1>1. Owns(m, lev, owner, t, i) /\ "W" \in m[t][i].flags
  BY Zenon DEF Good, Forest, Rights
<1> QED BY <1>1, Zenon DEF Owns, Link

\* The entry that owns a table.
LEMMA UpLink ==
  ASSUME NEW m, NEW fr, NEW lv, NEW k, NEW lev, NEW owner, Good(m, fr, lv, k, lev, owner),
         NEW x \in Pool, lev[x] \in Lower, NEW t, NEW i, owner[x] = <<t, i>>
  PROVE  t \in Pool /\ i \in Indices /\ Slot(lev, k, t, i) /\ Link(m, lev, owner, t, i, x)
<1>1. Forest(m, fr, lv, k, lev, owner)
  BY Zenon DEF Good
<1>0. Owned(m, k, lev, owner, x)
  BY <1>1, OwnerOf, Zenon
<1>2. PICK a \in Pool, b \in Indices :
        /\ owner[x] = <<a, b>> /\ Rank(lev[x], lev[a]) /\ Slot(lev, k, a, b)
        /\ Present(m[a][b]) /\ m[a][b].addr = x
  BY <1>0, Zenon DEF Owned
<1>3. a = t /\ b = i
  BY <1>2
<1> QED BY <1>2, <1>3, SlotLink, Zenon

\* The entry i of the PML4 p is that of r.
Rooted(m, k, lev, p, i, r) ==
  r \in Pool /\ lev[r] = "PML4" /\ m[p][i] = m[r][i] /\ Slot(lev, k, r, i)

\* The entry of a PML4: its own, or in the kernel half the kernel's.
LEMMA RootLink ==
  ASSUME NEW m, NEW fr, NEW lv, NEW k, NEW lev, NEW owner, Good(m, fr, lv, k, lev, owner),
         NEW p \in lv, NEW i \in Indices, NEW r, r = Root(k, p, i)
  PROVE  Rooted(m, k, lev, p, i, r)
<1>1. p \in Pool /\ k \in Pool /\ k \in lv /\ lev[p] = "PML4" /\ lev[k] = "PML4"
  BY LevelsOf DEF Good, Half
<1>2. i \notin UserIndices => i \in KernelIndices /\ m[p][i] = m[k][i]
  BY Zenon DEF KernelIndices, Good, Half
<1>3. i \in UserIndices => i \notin KernelIndices
  BY Zenon DEF KernelIndices
<1>4. CASE i \in UserIndices
  BY <1>1, <1>3, <1>4, Zenon DEF Root, Rooted, Slot, Upper
<1>5. CASE i \notin UserIndices
  BY <1>1, <1>2, <1>5, Zenon DEF Root, Rooted, Slot, Upper
<1> QED BY <1>4, <1>5, Zenon

-------------------------------------------------------------------------------
(* The walk *)

\* The walk for an address passes the tables a, b and t.
Chain(m, p, va, a, b, t) ==
  /\ Present(m[p][PML4_INDEX(va)]) /\ m[p][PML4_INDEX(va)].addr = a
  /\ Present(m[a][PDPT_INDEX(va)]) /\ m[a][PDPT_INDEX(va)].addr = b
  /\ Present(m[b][PD_INDEX(va)]) /\ m[b][PD_INDEX(va)].addr = t

\* The tables a, b and t hang from r, whose entry p has.
Walked(m, lev, owner, p, va, r, a, b, t) ==
  /\ Link(m, lev, owner, r, PML4_INDEX(va), a) /\ Link(m, lev, owner, a, PDPT_INDEX(va), b)
  /\ Link(m, lev, owner, b, PD_INDEX(va), t)
  /\ lev[r] = "PML4" /\ m[p][PML4_INDEX(va)] = m[r][PML4_INDEX(va)]

\* The walk goes where the owners lead.
LEMMA ChainDown ==
  ASSUME NEW m, NEW fr, NEW lv, NEW k, NEW lev, NEW owner, Good(m, fr, lv, k, lev, owner),
         NEW p \in lv, NEW va \in Nat, NEW a, NEW b, NEW t, Chain(m, p, va, a, b, t),
         NEW r, r = RootOf(k, p, va)
  PROVE  Walked(m, lev, owner, p, va, r, a, b, t)
<1> DEFINE i4 == PML4_INDEX(va)
           i3 == PDPT_INDEX(va)
           i2 == PD_INDEX(va)
<1>1. i4 \in Indices /\ i3 \in Indices /\ i2 \in Indices
  BY IndexTypes, Zenon
<1>2. /\ Present(m[p][i4]) /\ m[p][i4].addr = a /\ Present(m[a][i3]) /\ m[a][i3].addr = b
      /\ Present(m[b][i2]) /\ m[b][i2].addr = t /\ r = Root(k, p, i4)
  BY Zenon DEF Chain, RootOf
<1> HIDE DEF i4, i3, i2
<1>3. r \in Pool /\ lev[r] = "PML4" /\ m[p][i4] = m[r][i4] /\ Slot(lev, k, r, i4)
  BY <1>1, <1>2, RootLink, Zenon DEF Rooted
<1>4. Link(m, lev, owner, r, i4, a)
  BY <1>1, <1>2, <1>3, SlotLink, Zenon
<1>5. a \in Pool /\ lev[a] = "PDPT"
  BY <1>3, <1>4, Zenon DEF Link, Rank
<1>6. Link(m, lev, owner, a, i3, b)
  <2>1. Slot(lev, k, a, i3)
    BY <1>1, <1>5, Zenon DEF Slot, Upper
  <2> QED BY <1>1, <1>2, <1>5, <2>1, SlotLink, Zenon
<1>7. b \in Pool /\ lev[b] = "PD"
  BY <1>5, <1>6, Zenon DEF Link, Rank
<1>8. Link(m, lev, owner, b, i2, t)
  <2>1. Slot(lev, k, b, i2)
    BY <1>1, <1>7, Zenon DEF Slot, Upper
  <2> QED BY <1>1, <1>2, <1>7, <2>1, SlotLink, Zenon
<1> QED BY <1>3, <1>4, <1>6, <1>8, Zenon DEF Walked, i4, i3, i2

\* The page table of an address.
LEMMA ChainAt ==
  ASSUME NEW m, NEW fr, NEW lv, NEW k, NEW lev, NEW owner, Good(m, fr, lv, k, lev, owner),
         NEW p \in lv, NEW va \in Nat, NEW a, NEW b, NEW t, Chain(m, p, va, a, b, t)
  PROVE  PtAt(lev, owner, RootOf(k, p, va), va, t)
<1> DEFINE r == RootOf(k, p, va)
<1>0. Walked(m, lev, owner, p, va, r, a, b, t)
  BY ChainDown, Zenon
<1>1. /\ Link(m, lev, owner, r, PML4_INDEX(va), a) /\ Link(m, lev, owner, a, PDPT_INDEX(va), b)
      /\ Link(m, lev, owner, b, PD_INDEX(va), t) /\ lev[r] = "PML4"
  BY <1>0, Zenon DEF Walked
<1> HIDE DEF r
<1>2. a \in Pool /\ lev[a] = "PDPT" /\ owner[a] = <<r, PML4_INDEX(va)>>
  BY <1>1, Zenon DEF Link, Rank
<1>3. b \in Pool /\ lev[b] = "PD" /\ owner[b] = <<a, PDPT_INDEX(va)>>
  BY <1>1, <1>2, Zenon DEF Link, Rank
<1>4. t \in Pool /\ lev[t] = "PT" /\ owner[t] = <<b, PD_INDEX(va)>>
  BY <1>1, <1>3, Zenon DEF Link, Rank
<1>5. PtAt(lev, owner, r, va, t)
  BY <1>2, <1>3, <1>4, Zenon DEF PdptAt, PdAt, PtAt
<1> QED BY <1>5, Zenon DEF r

\* The owners lead where the walk goes.
LEMMA AtChain ==
  ASSUME NEW m, NEW fr, NEW lv, NEW k, NEW lev, NEW owner, Good(m, fr, lv, k, lev, owner),
         NEW p \in lv, NEW va \in Nat, NEW t, PtAt(lev, owner, RootOf(k, p, va), va, t)
  PROVE  \E a, b : Chain(m, p, va, a, b, t)
<1> DEFINE i4 == PML4_INDEX(va)
           r == Root(k, p, i4)
<1>1. PICK b : PdAt(lev, owner, r, va, b) /\ owner[t] = <<b, PD_INDEX(va)>>
  BY Zenon DEF PtAt, RootOf
<1>2. PICK a : PdptAt(lev, owner, r, va, a) /\ owner[b] = <<a, PDPT_INDEX(va)>>
  BY <1>1, Zenon DEF PdAt
<1>3. t \in Pool /\ lev[t] \in Lower /\ b \in Pool /\ lev[b] \in Lower /\ a \in Pool /\ lev[a] \in Lower
      /\ owner[a] = <<r, i4>>
  BY <1>1, <1>2, Zenon DEF PtAt, PdAt, PdptAt, Lower
<1>4. i4 \in Indices
  BY IndexTypes, Zenon
<1> HIDE DEF i4
<1>5. m[p][i4] = m[r][i4]
  <2>1. Rooted(m, k, lev, p, i4, r)
    BY <1>4, RootLink, Zenon
  <2> QED BY <2>1, Zenon DEF Rooted
<1> HIDE DEF r
<1>6. Link(m, lev, owner, r, i4, a) /\ Link(m, lev, owner, a, PDPT_INDEX(va), b)
      /\ Link(m, lev, owner, b, PD_INDEX(va), t)
  BY <1>1, <1>2, <1>3, UpLink, Zenon
<1>7. Chain(m, p, va, a, b, t)
  BY <1>5, <1>6, Zenon DEF Chain, Link, i4
<1> QED BY <1>7, Zenon

\* What lies below one entry.
LEMMA BelowOne ==
  ASSUME NEW m, NEW es, NEW f, NEW i, NEW x, es = {f}, Present(f), f.addr = x
  PROVE  Below(m, es, i) = {m[x][i]}
BY DEF Below

\* The entries that the walk finds in the tables a, b and t.
Finds(m, p, va, a, b, t) ==
  /\ PdptEntries(m, p, va) = {m[a][PDPT_INDEX(va)]}
  /\ PdEntries(m, p, va) = {m[b][PD_INDEX(va)]}
  /\ PtEntries(m, p, va) = {m[t][PT_INDEX(va)]}

\* The entries on a walk that gets to a page table.
LEMMA ChainSets ==
  ASSUME NEW m, NEW p, NEW va, NEW a, NEW b, NEW t, Chain(m, p, va, a, b, t)
  PROVE  Finds(m, p, va, a, b, t)
<1> DEFINE f3 == m[p][PML4_INDEX(va)]
           f2 == m[a][PDPT_INDEX(va)]
           f1 == m[b][PD_INDEX(va)]
<1>1. Present(f3) /\ f3.addr = a /\ Present(f2) /\ f2.addr = b /\ Present(f1) /\ f1.addr = t
  BY Zenon DEF Chain
<1>2. Pml4Entries(m, p, va) = {f3}
  BY Zenon DEF Pml4Entries
<1> HIDE DEF f3
<1>3. PdptEntries(m, p, va) = {f2}
  BY <1>1, <1>2, BelowOne DEF PdptEntries
<1> HIDE DEF f2
<1>4. PdEntries(m, p, va) = {f1}
  BY <1>1, <1>3, BelowOne DEF PdEntries
<1> HIDE DEF f1
<1>5. PtEntries(m, p, va) = {m[t][PT_INDEX(va)]}
  BY <1>1, <1>4, BelowOne DEF PtEntries
<1> QED BY <1>3, <1>4, <1>5, Zenon DEF Finds, f2, f1

\* A walk that finds an entry of a page table passes three tables.
LEMMA FoundChain ==
  ASSUME NEW m, NEW p, NEW va, NEW e \in PtEntries(m, p, va)
  PROVE  \E a, b, t : Chain(m, p, va, a, b, t)
<1>1. PICK e1 \in PdEntries(m, p, va) : Present(e1)
  BY DEF PtEntries, Below
<1>2. PICK e2 \in PdptEntries(m, p, va) : Present(e2) /\ e1 = m[e2.addr][PD_INDEX(va)]
  BY <1>1 DEF PdEntries, Below
<1>3. PICK e3 \in Pml4Entries(m, p, va) : Present(e3) /\ e2 = m[e3.addr][PDPT_INDEX(va)]
  BY <1>2 DEF PdptEntries, Below
<1>4. Chain(m, p, va, e3.addr, e2.addr, e1.addr)
  BY <1>1, <1>2, <1>3, Zenon DEF Pml4Entries, Chain
<1> QED BY <1>4, Zenon

\* The flags that all levels above the entry grant.
Through(m, p, va, e) ==
  {f \in e.flags : f \in {"W", "U"} =>
     \A g \in Pml4Entries(m, p, va) \cup PdptEntries(m, p, va) \cup PdEntries(m, p, va) : f \in g.flags}

\* The translation of the processor.
LEMMA TranslateIs ==
  ASSUME NEW m, NEW p, NEW va
  PROVE  Translate(m, p, va) = {Entry(e.addr, Through(m, p, va, e)) : e \in {l \in PtEntries(m, p, va) : Present(l)}}
BY Zenon DEF Translate, Through, PtEntries, PdEntries, PdptEntries

\* The rights of a page are not cut by the levels above it.
LEMMA Unfiltered ==
  ASSUME NEW m, NEW fr, NEW lv, NEW k, NEW lev, NEW owner, Good(m, fr, lv, k, lev, owner),
         NEW p \in lv, NEW va \in Nat, NEW a, NEW b, NEW t, Chain(m, p, va, a, b, t),
         NEW e, e = m[t][PT_INDEX(va)], Present(e)
  PROVE  Entry(e.addr, Through(m, p, va, e)) = e
<1> DEFINE r == RootOf(k, p, va)
           i4 == PML4_INDEX(va)
           i3 == PDPT_INDEX(va)
           i2 == PD_INDEX(va)
           i1 == PT_INDEX(va)
<1>1. i3 \in Indices /\ i2 \in Indices /\ i1 \in Indices
  BY IndexTypes, Zenon
<1>2. Walked(m, lev, owner, p, va, r, a, b, t)
  BY ChainDown, Zenon
<1>3. m[p][i4] = m[r][i4] /\ Link(m, lev, owner, r, i4, a) /\ Link(m, lev, owner, a, i3, b)
      /\ Link(m, lev, owner, b, i2, t) /\ lev[r] = "PML4"
  BY <1>2, Zenon DEF Walked
<1>4. Pml4Entries(m, p, va) = {m[r][i4]} /\ PdptEntries(m, p, va) = {m[a][i3]} /\ PdEntries(m, p, va) = {m[b][i2]}
  <2>1. Finds(m, p, va, a, b, t)
    BY ChainSets, Zenon
  <2> QED BY <1>3, <2>1, Zenon DEF Pml4Entries, Finds
<1> HIDE DEF r, i4, i3, i2, i1
<1>5. "W" \in m[r][i4].flags /\ "W" \in m[a][i3].flags /\ "W" \in m[b][i2].flags
  BY <1>3, Zenon DEF Link
<1>6. /\ a \in Pool /\ lev[a] = "PDPT" /\ owner[a] = <<r, i4>> /\ Present(m[a][i3])
      /\ b \in Pool /\ lev[b] = "PD" /\ owner[b] = <<a, i3>> /\ Present(m[b][i2])
      /\ t \in Pool /\ lev[t] = "PT" /\ owner[t] = <<b, i2>>
  BY <1>3, Zenon DEF Link, Rank
<1>7. /\ Allowed(m, owner, t, e.flags) /\ Allowed(m, owner, b, m[b][i2].flags)
      /\ Allowed(m, owner, a, m[a][i3].flags)
  BY <1>1, <1>6, Zenon DEF Good, Rights, Lower, i1
<1>8. /\ "U" \in e.flags => "U" \in m[b][i2].flags
      /\ "U" \in m[b][i2].flags => "U" \in m[a][i3].flags
      /\ "U" \in m[a][i3].flags => "U" \in m[r][i4].flags
  BY <1>6, <1>7 DEF Allowed
<1>9. Through(m, p, va, e) = e.flags
  BY <1>4, <1>5, <1>8 DEF Through
<1>10. e \in Entries
  <2>1. t \in Frames /\ m \in Memory
    BY <1>6, Sets, Zenon DEF Good
  <2> QED BY <1>1, <2>1, Zenon DEF Memory, i1
<1> QED BY <1>9, <1>10 DEF Entries, Entry

\* The processor finds what the owners lead to, and so does paging_get_physical.
LEMMA View ==
  ASSUME NEW m, NEW fr, NEW lv, NEW k, NEW lev, NEW owner, Good(m, fr, lv, k, lev, owner),
         NEW p \in lv, NEW va \in Nat
  PROVE  /\ \A e : e \in Translate(m, p, va) <=> Leaf(m, lev, owner, RootOf(k, p, va), va, e)
         /\ Translate(m, p, va) = {e \in PtEntries(m, p, va) : Present(e)}
<1> DEFINE r == RootOf(k, p, va)
           found == {e \in PtEntries(m, p, va) : Present(e)}
<1>1. ASSUME NEW e \in found
      PROVE  Leaf(m, lev, owner, r, va, e) /\ Entry(e.addr, Through(m, p, va, e)) = e
  <2>1. PICK a, b, t : Chain(m, p, va, a, b, t)
    BY FoundChain
  <2>2. PtEntries(m, p, va) = {m[t][PT_INDEX(va)]}
    BY <2>1, ChainSets DEF Finds
  <2>3. e = m[t][PT_INDEX(va)] /\ Present(e)
    BY <2>2, Zenon
  <2>4. PtAt(lev, owner, r, va, t)
    BY <2>1, ChainAt, Zenon
  <2> QED BY <2>1, <2>3, <2>4, Unfiltered, Zenon DEF Leaf
<1>2. ASSUME NEW e, Leaf(m, lev, owner, r, va, e)
      PROVE  e \in found
  <2>1. PICK t : PtAt(lev, owner, r, va, t) /\ e = m[t][PT_INDEX(va)] /\ Present(e)
    BY <1>2, Zenon DEF Leaf
  <2>2. PICK a, b : Chain(m, p, va, a, b, t)
    BY <2>1, AtChain, Zenon
  <2>3. PtEntries(m, p, va) = {m[t][PT_INDEX(va)]}
    BY <2>2, ChainSets DEF Finds
  <2> QED BY <2>1, <2>3, Zenon
<1>3. Translate(m, p, va) = {Entry(e.addr, Through(m, p, va, e)) : e \in found}
  BY TranslateIs, Zenon
<1> HIDE DEF found, r
<1>4. Translate(m, p, va) = found
  BY <1>1, <1>3
<1>5. \A e : e \in found <=> Leaf(m, lev, owner, r, va, e)
  BY <1>1, <1>2, Zenon
<1> QED BY <1>4, <1>5, Zenon DEF found, r

-------------------------------------------------------------------------------
(* What a change of the tables does to the views *)

\* One page table belongs to one page directory entry of one PML4.
LEMMA PtSame ==
  ASSUME NEW lev, NEW owner, NEW r, NEW r2, NEW va, NEW vb, NEW t,
         PtAt(lev, owner, r, va, t), PtAt(lev, owner, r2, vb, t)
  PROVE  r = r2 /\ SamePt(va, vb)
<1>1. PICK b : PdAt(lev, owner, r, va, b) /\ owner[t] = <<b, PD_INDEX(va)>>
  BY Zenon DEF PtAt
<1>2. PICK b2 : PdAt(lev, owner, r2, vb, b2) /\ owner[t] = <<b2, PD_INDEX(vb)>>
  BY Zenon DEF PtAt
<1>3. b = b2 /\ PD_INDEX(va) = PD_INDEX(vb)
  BY <1>1, <1>2
<1>4. PICK a : PdptAt(lev, owner, r, va, a) /\ owner[b] = <<a, PDPT_INDEX(va)>>
  BY <1>1, Zenon DEF PdAt
<1>5. PICK a2 : PdptAt(lev, owner, r2, vb, a2) /\ owner[b] = <<a2, PDPT_INDEX(vb)>>
  BY <1>2, <1>3, Zenon DEF PdAt
<1>6. a = a2 /\ PDPT_INDEX(va) = PDPT_INDEX(vb)
  BY <1>4, <1>5
<1>7. r = r2 /\ PML4_INDEX(va) = PML4_INDEX(vb)
  BY <1>4, <1>5, <1>6 DEF PdptAt
<1> QED BY <1>3, <1>6, <1>7, Zenon DEF SamePt

\* The page table of an address is that of the other addresses under it.
LEMMA PtShared ==
  ASSUME NEW lev, NEW owner, NEW r, NEW va, NEW vb, NEW t, PtAt(lev, owner, r, va, t), SamePt(va, vb)
  PROVE  PtAt(lev, owner, r, vb, t)
<1>1. PICK b : PdAt(lev, owner, r, va, b) /\ owner[t] = <<b, PD_INDEX(va)>>
  BY Zenon DEF PtAt
<1>2. PICK a : PdptAt(lev, owner, r, va, a) /\ owner[b] = <<a, PDPT_INDEX(va)>>
  BY <1>1, Zenon DEF PdAt
<1>3. PdptAt(lev, owner, r, vb, a)
  BY <1>2, Zenon DEF PdptAt, SamePt
<1>4. PdAt(lev, owner, r, vb, b)
  BY <1>1, <1>2, <1>3, Zenon DEF PdAt, SamePt
<1> QED BY <1>1, <1>4, Zenon DEF PtAt, SamePt

\* A page has one page table.
LEMMA PtUnique ==
  ASSUME NEW m, NEW fr, NEW lv, NEW k, NEW lev, NEW owner, Good(m, fr, lv, k, lev, owner),
         NEW r, NEW va, NEW t, NEW t2, PtAt(lev, owner, r, va, t), PtAt(lev, owner, r, va, t2)
  PROVE  t = t2
<1>0. ASSUME NEW x \in Pool, NEW y \in Pool, lev[x] \in Lower, lev[y] \in Lower,
             NEW u, NEW i, owner[x] = <<u, i>>, owner[y] = <<u, i>>
      PROVE  x = y
  <2>1. Link(m, lev, owner, u, i, x) /\ Link(m, lev, owner, u, i, y)
    BY <1>0, UpLink, Zenon
  <2> QED BY <2>1, Zenon DEF Link
<1>1. PICK b : PdAt(lev, owner, r, va, b) /\ owner[t] = <<b, PD_INDEX(va)>>
  BY Zenon DEF PtAt
<1>2. PICK b2 : PdAt(lev, owner, r, va, b2) /\ owner[t2] = <<b2, PD_INDEX(va)>>
  BY Zenon DEF PtAt
<1>3. PICK a : PdptAt(lev, owner, r, va, a) /\ owner[b] = <<a, PDPT_INDEX(va)>>
  BY <1>1, Zenon DEF PdAt
<1>4. PICK a2 : PdptAt(lev, owner, r, va, a2) /\ owner[b2] = <<a2, PDPT_INDEX(va)>>
  BY <1>2, Zenon DEF PdAt
<1>5. /\ a \in Pool /\ lev[a] \in Lower /\ a2 \in Pool /\ lev[a2] \in Lower
      /\ b \in Pool /\ lev[b] \in Lower /\ b2 \in Pool /\ lev[b2] \in Lower
      /\ t \in Pool /\ lev[t] \in Lower /\ t2 \in Pool /\ lev[t2] \in Lower
      /\ owner[a] = <<r, PML4_INDEX(va)>> /\ owner[a2] = <<r, PML4_INDEX(va)>>
  BY <1>1, <1>2, <1>3, <1>4, Zenon DEF PtAt, PdAt, PdptAt, Lower
<1>6. a = a2
  BY <1>0, <1>5, Zenon
<1>7. b = b2
  BY <1>0, <1>3, <1>4, <1>5, <1>6, Zenon
<1> QED BY <1>0, <1>1, <1>2, <1>5, <1>7, Zenon

\* The tables on the way stay where they are.
LEMMA KeepsAt ==
  ASSUME NEW m, NEW m2, NEW k, NEW lev, NEW lev2, NEW owner, NEW owner2,
         Keeps(m, m2, k, lev, lev2, owner, owner2), NEW r, NEW va
  PROVE  /\ \A a : PdptAt(lev, owner, r, va, a) => PdptAt(lev2, owner2, r, va, a)
         /\ \A b : PdAt(lev, owner, r, va, b) => PdAt(lev2, owner2, r, va, b)
         /\ \A t : PtAt(lev, owner, r, va, t) => PtAt(lev2, owner2, r, va, t)
<1>1. \A a : PdptAt(lev, owner, r, va, a) => PdptAt(lev2, owner2, r, va, a)
  BY Zenon DEF PdptAt, Keeps
<1>2. \A b : PdAt(lev, owner, r, va, b) => PdAt(lev2, owner2, r, va, b)
  BY <1>1, Zenon DEF PdAt, Keeps
<1>3. \A t : PtAt(lev, owner, r, va, t) => PtAt(lev2, owner2, r, va, t)
  BY <1>2, Zenon DEF PtAt, Keeps
<1> QED BY <1>1, <1>2, <1>3, Zenon

\* New tables show nothing.
LEMMA KeepsView ==
  ASSUME NEW m, NEW fr, NEW lv, NEW k, NEW lev, NEW owner, Good(m, fr, lv, k, lev, owner),
         NEW m2, NEW fr2, NEW lv2, NEW lev2, NEW owner2, Good(m2, fr2, lv2, k, lev2, owner2),
         Keeps(m, m2, k, lev, lev2, owner, owner2), lv \subseteq lv2
  PROVE  SameView(m, m2, lv)
<1> SUFFICES ASSUME NEW p \in lv, NEW va \in Nat
             PROVE  Translate(m2, p, va) = Translate(m, p, va)
  BY Zenon DEF SameView
<1> DEFINE r == RootOf(k, p, va)
           i == PT_INDEX(va)
<1>1. i \in Indices /\ p \in lv2
  BY IndexTypes, Zenon
<1>2. \A e : e \in Translate(m, p, va) <=> Leaf(m, lev, owner, r, va, e)
  BY View, Zenon
<1>3. \A e : e \in Translate(m2, p, va) <=> Leaf(m2, lev2, owner2, r, va, e)
  BY <1>1, View, Zenon
<1> HIDE DEF r, i
<1>4. ASSUME NEW e, Leaf(m, lev, owner, r, va, e) PROVE Leaf(m2, lev2, owner2, r, va, e)
  <2>1. PICK t : PtAt(lev, owner, r, va, t) /\ e = m[t][i] /\ Present(e)
    BY <1>4, Zenon DEF Leaf, i
  <2>2. PtAt(lev2, owner2, r, va, t)
    BY <2>1, KeepsAt, Zenon
  <2>3. m2[t][i] = m[t][i]
    BY <1>1, <2>1, <2>2, Zenon DEF PtAt, Keeps
  <2> QED BY <2>1, <2>2, <2>3, Zenon DEF Leaf, i
<1>5. ASSUME NEW e, Leaf(m2, lev2, owner2, r, va, e) PROVE Leaf(m, lev, owner, r, va, e)
  <2>1. PICK t : PtAt(lev2, owner2, r, va, t) /\ e = m2[t][i] /\ Present(e)
    BY <1>5, Zenon DEF Leaf, i
  <2>2. PICK b : PdAt(lev2, owner2, r, va, b) /\ owner2[t] = <<b, PD_INDEX(va)>>
    BY <2>1, Zenon DEF PtAt
  <2>3. PICK a : PdptAt(lev2, owner2, r, va, a) /\ owner2[b] = <<a, PDPT_INDEX(va)>>
    BY <2>2, Zenon DEF PdAt
  <2>4. t \in Pool /\ lev[t] = "PT" /\ m2[t][i] = m[t][i]
    BY <1>1, <2>1, Zenon DEF PtAt, Keeps
  <2>5. owner[t] = <<b, PD_INDEX(va)>>
    BY <2>2, <2>4, Zenon DEF Keeps
  <2>6. b \in Pool /\ lev[b] = "PD"
    <3>1. b \in Pool /\ Link(m, lev, owner, b, PD_INDEX(va), t)
      BY <2>4, <2>5, UpLink, Zenon DEF Lower
    <3> QED BY <2>4, <3>1, Zenon DEF Link, Rank
  <2>7. owner[b] = <<a, PDPT_INDEX(va)>>
    BY <2>3, <2>6, Zenon DEF Keeps
  <2>8. a \in Pool /\ lev[a] = "PDPT"
    <3>1. a \in Pool /\ Link(m, lev, owner, a, PDPT_INDEX(va), b)
      BY <2>6, <2>7, UpLink, Zenon DEF Lower
    <3> QED BY <2>6, <3>1, Zenon DEF Link, Rank
  <2>9. owner[a] = <<r, PML4_INDEX(va)>>
    BY <2>3, <2>8, Zenon DEF PdptAt, Keeps
  <2>10. PtAt(lev, owner, r, va, t)
    BY <2>4, <2>5, <2>6, <2>7, <2>8, <2>9, Zenon DEF PtAt, PdAt, PdptAt
  <2> QED BY <2>1, <2>4, <2>10, Zenon DEF Leaf, i
<1>6. \A e : e \in Translate(m2, p, va) <=> e \in Translate(m, p, va)
  BY <1>2, <1>3, <1>4, <1>5, Zenon
<1> QED BY <1>6

\* All entries but entry i of t are what they were.
Rewritten(m, m2, t, i) ==
  m2 \in Memory /\ \A x \in Pool, j \in Indices : <<x, j>> # <<t, i>> => m2[x][j] = m[x][j]

\* What an entry of a page table shows.
Shows(e, new) == \A f : f \in new <=> f = e /\ Present(f)

\* The entry of a page changes what that page shows.
LEMMA LeafChange ==
  ASSUME NEW m, NEW fr, NEW lv, NEW k, NEW lev, NEW owner, Good(m, fr, lv, k, lev, owner),
         NEW m2, Good(m2, fr, lv, k, lev, owner), NEW p \in lv, NEW va \in Nat,
         NEW t, PtAt(lev, owner, RootOf(k, p, va), va, t), Rewritten(m, m2, t, PT_INDEX(va)),
         NEW new, Shows(m2[t][PT_INDEX(va)], new)
  PROVE  Changed(m, m2, lv, p, va, new)
<1> SUFFICES ASSUME NEW q \in lv, NEW vb \in Nat
             PROVE  Translate(m2, q, vb) = IF SamePage(p, va, q, vb) THEN new ELSE Translate(m, q, vb)
  BY Zenon DEF Changed
<1> DEFINE r == RootOf(k, p, va)
           r2 == RootOf(k, q, vb)
           j == PT_INDEX(vb)
<1>1. \A e : e \in Translate(m, q, vb) <=> Leaf(m, lev, owner, r2, vb, e)
  BY View, Zenon
<1>2. \A e : e \in Translate(m2, q, vb) <=> Leaf(m2, lev, owner, r2, vb, e)
  BY View, Zenon
<1>3. CASE SamePage(p, va, q, vb)
  <2>1. r2 = r
    BY <1>3, Zenon DEF SamePage, SamePt, IsUser, RootOf, Root
  <2>2. j = PT_INDEX(va)
    BY <1>3, Zenon DEF SamePage
  <2> HIDE DEF r, r2, j
  <2>3. PtAt(lev, owner, r2, vb, t)
    <3>1. PtAt(lev, owner, r, va, t)
      BY Zenon DEF r
    <3> QED BY <1>3, <2>1, <3>1, PtShared, Zenon DEF SamePage
  <2>4. ASSUME NEW e, Leaf(m2, lev, owner, r2, vb, e) PROVE e \in new
    <3>1. PICK t2 : PtAt(lev, owner, r2, vb, t2) /\ e = m2[t2][j] /\ Present(e)
      BY <2>4, Zenon DEF Leaf, j
    <3>2. t2 = t
      BY <2>3, <3>1, PtUnique
    <3> QED BY <2>2, <3>1, <3>2, Zenon DEF Shows
  <2>5. ASSUME NEW e \in new PROVE Leaf(m2, lev, owner, r2, vb, e)
    <3>1. e = m2[t][PT_INDEX(vb)] /\ Present(e)
      BY <2>2, <2>5, Zenon DEF j, Shows
    <3> QED BY <2>3, <3>1, Zenon DEF Leaf
  <2>6. \A e : e \in Translate(m2, q, vb) <=> e \in new
    BY <1>2, <2>4, <2>5, Zenon DEF r2
  <2> QED BY <1>3, <2>6
<1>4. CASE ~SamePage(p, va, q, vb)
  <2>1. ASSUME NEW t2, PtAt(lev, owner, r2, vb, t2) PROVE m2[t2][j] = m[t2][j]
    <3>1. <<t2, j>> # <<t, PT_INDEX(va)>>
      <4> SUFFICES ASSUME t2 = t, j = PT_INDEX(va) PROVE FALSE
        BY Zenon
      <4>1. PtAt(lev, owner, r, va, t) /\ PtAt(lev, owner, r2, vb, t)
        BY <2>1, Zenon
      <4> HIDE DEF r, r2
      <4>2. r = r2 /\ SamePt(va, vb)
        BY <4>1, PtSame, Zenon
      <4>3. IsUser(va) => p = q
        BY <4>2, Zenon DEF SamePt, IsUser, r, r2, RootOf, Root
      <4> QED BY <1>4, <4>2, <4>3, Zenon DEF SamePage
    <3>2. t2 \in Pool /\ j \in Indices
      BY <2>1, IndexTypes, Zenon DEF PtAt
    <3> QED BY <3>1, <3>2, Zenon DEF Rewritten
  <2>2. \A e : Leaf(m2, lev, owner, r2, vb, e) <=> Leaf(m, lev, owner, r2, vb, e)
    BY <2>1, Zenon DEF Leaf
  <2>3. \A e : e \in Translate(m2, q, vb) <=> e \in Translate(m, q, vb)
    BY <1>1, <1>2, <2>2, Zenon
  <2> QED BY <1>4, <2>3, Zenon
<1> QED BY <1>3, <1>4, Zenon

-------------------------------------------------------------------------------
(* paging_map and paging_unmap *)

\* The kernel half of the kernel's own PML4.
Kept(m, m2, k) == \A j \in KernelIndices : m2[k][j] = m[k][j]

\* The entry of a page is written.
LEMMA LeafKeeps ==
  ASSUME NEW m, NEW fr, NEW lv, NEW k, NEW lev, NEW owner, Good(m, fr, lv, k, lev, owner),
         NEW m2, NEW t \in Pool, lev[t] = "PT", NEW i, Rewritten(m, m2, t, i),
         NEW fl, fl = m2[t][i].flags, Allowed(m, owner, t, fl)
  PROVE  Good(m2, fr, lv, k, lev, owner) /\ Kept(m, m2, k)
<1>1. /\ m \in Memory /\ Half(m, lv, k) /\ Forest(m, fr, lv, k, lev, owner) /\ lv \in SUBSET Pool
      /\ fr \in SUBSET Pool /\ Rights(m, k, lev, owner)
  BY Zenon DEF Good
<1>2. m2 \in Memory /\ \A x \in Pool, j \in Indices : <<x, j>> # <<t, i>> => m2[x][j] = m[x][j]
  BY Zenon DEF Rewritten
<1>3. \A x \in Pool, j \in Indices : lev[x] # "PT" => m2[x][j] = m[x][j]
  BY <1>2, Zenon
<1>4. \A x \in Pool, j \in Indices : Slot(lev, k, x, j) => m2[x][j] = m[x][j]
  BY <1>3, Zenon DEF Slot, Upper
<1>5. Forest(m2, fr, lv, k, lev, owner)
  <2>1. \A x \in Pool, j \in Indices : Slot(lev, k, x, j) =>
          (Present(m2[x][j]) <=> Present(m[x][j])) /\ m2[x][j].addr = m[x][j].addr
    BY <1>4, Zenon
  <2> QED BY <1>1, <2>1, SameLinks, Zenon
<1>6. \A q \in lv, j \in KernelIndices : m2[q][j] = m[q][j]
  <2>1. \A q \in lv : q \in Pool /\ lev[q] = "PML4"
    BY <1>1, LevelsOf
  <2> QED BY <1>3, <2>1, Sets, Zenon
<1>7. Half(m2, lv, k) /\ Kept(m, m2, k)
  BY <1>1, <1>6, HalfKept DEF Kept
<1>8. ASSUME NEW x \in Pool, NEW j \in Indices, lev[x] \in Lower, Present(m2[x][j])
      PROVE  Allowed(m2, owner, x, m2[x][j].flags)
  <2>0. Owned(m, k, lev, owner, x)
    BY <1>1, <1>8, OwnerOf, Zenon
  <2>1. PICK a \in Pool, b \in Indices : owner[x] = <<a, b>> /\ Slot(lev, k, a, b)
    BY <2>0, Zenon DEF Owned
  <2>2. m2[a][b] = m[a][b] /\ owner[x][1] = a /\ owner[x][2] = b
    BY <1>4, <2>1
  <2>3. Allowed(m, owner, x, m2[x][j].flags)
    <3>1. CASE <<x, j>> # <<t, i>>
      BY <1>1, <1>2, <1>8, <3>1, Zenon DEF Rights
    <3>2. CASE <<x, j>> = <<t, i>>
      <4>1. x = t /\ j = i
        BY <3>2, Zenon
      <4> QED BY <4>1, Zenon
    <3> QED BY <3>1, <3>2, Zenon
  <2> QED BY <2>2, <2>3, Zenon DEF Allowed
<1>9. Rights(m2, k, lev, owner)
  BY <1>1, <1>4, <1>8, Zenon DEF Rights
<1> QED BY <1>1, <1>2, <1>5, <1>7, <1>9, Zenon DEF Good

\* What a step of paging_map or paging_unmap leaves.
Done ==
  /\ \E lev2, owner2 : Good(mem', free', live, kernel_pml4, lev2, owner2)
  /\ Kept(mem, mem', kernel_pml4) /\ phase' \in {phase, "panic"}

\* The kernel half stays full, and the PML4s stay PML4s.
LEMMA KeepsFull ==
  ASSUME NEW m, NEW m2, NEW k, NEW lev, NEW lev2, NEW owner, NEW owner2,
         Full(m, k), Keeps(m, m2, k, lev, lev2, owner, owner2)
  PROVE  Full(m2, k) /\ Kept(m, m2, k)
BY Zenon DEF Full, Keeps, Kept

\* What is kept twice is kept.
LEMMA KeepsTwice ==
  ASSUME NEW m, NEW m2, NEW m3, NEW k, NEW lev, NEW lev2, NEW lev3, NEW owner, NEW owner2, NEW owner3,
         Keeps(m, m2, k, lev, lev2, owner, owner2), Keeps(m2, m3, k, lev2, lev3, owner2, owner3)
  PROVE  Keeps(m, m3, k, lev, lev3, owner, owner3)
<1>1. \A x \in Pool : lev[x] # "free" => lev3[x] = lev[x] /\ owner3[x] = owner[x]
  BY Zenon DEF Keeps
<1>2. ASSUME NEW x \in Pool, NEW j \in Indices, lev3[x] = "PT"
      PROVE  IF lev[x] = "PT" THEN m3[x][j] = m[x][j] ELSE ~Present(m3[x][j])
  BY <1>2, Zenon DEF Keeps
<1>3. \A j \in KernelIndices : Present(m[k][j]) => m3[k][j] = m[k][j]
  BY Zenon DEF Keeps
<1> QED BY <1>1, <1>2, <1>3, Zenon DEF Keeps

\* The table t of the kind n is on the way to a page.
At(lev, owner, r, va, n, t) ==
  \/ n = "PDPT" /\ PdptAt(lev, owner, r, va, t)
  \/ n = "PD" /\ PdAt(lev, owner, r, va, t)
  \/ n = "PT" /\ PtAt(lev, owner, r, va, t)

\* The index of a page in its tables of a kind.
IndexIn(n, va) == IF n = "PDPT" THEN PDPT_INDEX(va) ELSE PD_INDEX(va)

\* Under way in paging_map: the tables are in order, those there were at the call still
\* show the same, and t is the table of the kind n for the page unless memory ran out.
Reached(m, lev0, owner0, s, lv, k, r, va, fl, n, t) ==
  /\ s \in States /\ Full(s.mem, k) /\ Kept(m, s.mem, k)
  /\ \E lev, owner : /\ Good(s.mem, s.free, lv, k, lev, owner)
                     /\ Keeps(m, s.mem, k, lev0, lev, owner0, owner)
                     /\ ~s.oom => At(lev, owner, r, va, n, t) /\ Allowed(s.mem, owner, t, fl)

\* The PDPT of a page.
LEMMA EnsureTop ==
  ASSUME MinIsFree, NEW s \in States, ~s.oom, NEW va \in Nat, NEW fl \in SUBSET Flags, {"P", "W"} \subseteq fl,
         NEW lv, NEW k, NEW lev, NEW owner, Good(s.mem, s.free, lv, k, lev, owner), Full(s.mem, k),
         NEW p \in lv, NEW i, i = PML4_INDEX(va), i \in KernelIndices => fl = {"P", "W"},
         NEW s2, s2 = EnsureTable(s, p, i, fl), NEW t2, t2 = s2.mem[p][i].addr
  PROVE  Reached(s.mem, lev, owner, s2, lv, k, RootOf(k, p, va), va, fl, "PDPT", t2)
<1> DEFINE r == Root(k, p, i)
<1>0. i \in Indices
  BY IndexTypes, Zenon
<1>1. s2 \in States /\ Outcome(s, s2, lv, k, lev, owner, r, p, i, "PDPT", fl)
  BY <1>0, EnsurePml4, Zenon
<1>2. PICK lev2, owner2 :
        /\ Good(s2.mem, s2.free, lv, k, lev2, owner2) /\ Keeps(s.mem, s2.mem, k, lev, lev2, owner, owner2)
        /\ ~s2.oom => Points(s2.mem, lev2, owner2, r, p, i, "PDPT", fl)
  BY <1>1, Zenon DEF Outcome
<1>3. Full(s2.mem, k) /\ Kept(s.mem, s2.mem, k)
  BY <1>2, KeepsFull, Zenon
<1>4. r = RootOf(k, p, va)
  BY Zenon DEF RootOf
<1> HIDE DEF r
<1>5. ~s2.oom => At(lev2, owner2, r, va, "PDPT", t2) /\ Allowed(s2.mem, owner2, t2, fl)
  BY <1>2, Zenon DEF Points, At, PdptAt
<1> QED BY <1>1, <1>2, <1>3, <1>4, <1>5, Zenon DEF Reached

\* One level further down.
LEMMA AtBelow ==
  ASSUME NEW lev, NEW owner, NEW r, NEW va, NEW n, NEW t, At(lev, owner, r, va, n, t), NEW n2, Rank(n2, n),
         NEW x \in Pool, lev[x] = n2, NEW i, i = IndexIn(n, va), owner[x] = <<t, i>>
  PROVE  At(lev, owner, r, va, n2, x)
<1>1. CASE n = "PDPT"
  BY <1>1, Zenon DEF At, Rank, IndexIn, PdAt
<1>2. CASE n = "PD"
  BY <1>2, Zenon DEF At, Rank, IndexIn, PtAt
<1> QED BY <1>1, <1>2, Zenon DEF At, Rank

\* The table below one that is not a PML4.
LEMMA EnsureBelow ==
  ASSUME MinIsFree, NEW m, NEW lev0, NEW owner0, NEW s, NEW lv, NEW k, NEW r, NEW va \in Nat, NEW t, NEW n,
         NEW fl \in SUBSET Flags, {"P", "W"} \subseteq fl, Reached(m, lev0, owner0, s, lv, k, r, va, fl, n, t),
         NEW n2, n # "PML4", Rank(n2, n), NEW i, i = IndexIn(n, va),
         NEW s2, s2 = EnsureTable(s, t, i, fl), NEW t2, ~s2.oom => t2 = s2.mem[t][i].addr
  PROVE  Reached(m, lev0, owner0, s2, lv, k, r, va, fl, n2, t2)
<1>0. i \in Indices
  BY IndexTypes, Zenon DEF IndexIn
<1>1. PICK lev, owner : /\ Good(s.mem, s.free, lv, k, lev, owner)
                        /\ Keeps(m, s.mem, k, lev0, lev, owner0, owner)
                        /\ ~s.oom => At(lev, owner, r, va, n, t) /\ Allowed(s.mem, owner, t, fl)
  BY Zenon DEF Reached
<1>2. s \in States /\ Full(s.mem, k) /\ Kept(m, s.mem, k)
  BY Zenon DEF Reached
<1>3. CASE s.oom
  <2>1. s2 = s
    BY <1>3, Zenon DEF EnsureTable
  <2> QED BY <1>1, <1>2, <1>3, <2>1, Zenon DEF Reached
<1>4. CASE ~s.oom
  <2>0. At(lev, owner, r, va, n, t) /\ t \in Pool /\ lev[t] = n /\ Allowed(s.mem, owner, t, fl)
    BY <1>1, <1>4, Zenon DEF At, PdptAt, PdAt, PtAt
  <2>1. lev[k] = "PML4" /\ t # k
    <3>1. k \in lv /\ k \in Pool /\ Levels(s.free, lv, lev, owner)
      BY <1>1, Zenon DEF Good, Half, Forest
    <3>2. lev[k] = "PML4"
      BY <3>1, Zenon DEF Levels
    <3> QED BY <2>0, <3>2, Zenon
  <2>2. Ready(s, t, i, fl, lv, k, lev, owner, n2)
    <3>1. Slot(lev, k, t, i)
      BY <1>0, <2>0, Zenon DEF Slot, Rank, Upper
    <3>2. Rank(n2, lev[t])
      BY <2>0, Zenon
    <3> QED BY <1>0, <1>1, <1>2, <1>4, <2>0, <2>1, <3>1, <3>2, Zenon DEF Ready
  <2>3. s2 \in States /\ Outcome(s, s2, lv, k, lev, owner, t, t, i, n2, fl)
    BY <2>2, EnsureSlot, Zenon
  <2>4. PICK lev2, owner2 :
          /\ Good(s2.mem, s2.free, lv, k, lev2, owner2) /\ Keeps(s.mem, s2.mem, k, lev, lev2, owner, owner2)
          /\ ~s2.oom => Points(s2.mem, lev2, owner2, t, t, i, n2, fl)
    BY <2>3, Zenon DEF Outcome
  <2>5. Full(s2.mem, k) /\ Kept(s.mem, s2.mem, k)
    BY <1>2, <2>4, KeepsFull, Zenon
  <2>6. Kept(m, s2.mem, k)
    BY <1>2, <2>5, Zenon DEF Kept
  <2>7. Keeps(m, s2.mem, k, lev0, lev2, owner0, owner2)
    BY <1>1, <2>4, KeepsTwice, Zenon
  <2>8. At(lev2, owner2, r, va, n, t)
    <3>1. /\ \A a : PdptAt(lev, owner, r, va, a) => PdptAt(lev2, owner2, r, va, a)
          /\ \A b : PdAt(lev, owner, r, va, b) => PdAt(lev2, owner2, r, va, b)
          /\ \A x : PtAt(lev, owner, r, va, x) => PtAt(lev2, owner2, r, va, x)
      BY <2>4, KeepsAt, Zenon
    <3> QED BY <2>0, <3>1, Zenon DEF At
  <2>9. ASSUME ~s2.oom PROVE At(lev2, owner2, r, va, n2, t2) /\ Allowed(s2.mem, owner2, t2, fl)
    <3>1. t2 \in Pool /\ lev2[t2] = n2 /\ owner2[t2] = <<t, i>> /\ Allowed(s2.mem, owner2, t2, fl)
      BY <2>4, <2>9, Zenon DEF Points
    <3> QED BY <2>8, <3>1, AtBelow, Zenon
  <2> QED BY <2>3, <2>4, <2>5, <2>6, <2>7, <2>9, Zenon DEF Reached
<1> QED BY <1>3, <1>4, Zenon

\* The views are what they were, or one page shows something else and the processor has
\* been told.
Remapped(p, va, new) == Done /\ ViewChange(p, va, new)

\* MapTables, from the bottom up: the entry is written, the page table is made sure of,
\* the page directory is made sure of.
Inter(flags) == {"P", "W"} \cup (flags \cap {"U"})

Written(s, pd, va, pa, flags) ==
  /\ free' = s.free
  /\ \/ /\ s.oom
        /\ mem' = s.mem
        /\ phase' = "panic"
        /\ UNCHANGED tlb
     \/ /\ ~s.oom
        /\ mem' = [s.mem EXCEPT ![s.mem[pd][PD_INDEX(va)].addr][PT_INDEX(va)] = Entry(pa, flags)]
        /\ tlb' = Invalidate(va)
        /\ UNCHANGED phase

PtWritten(s, pd, va, pa, flags) ==
  \E s1 \in {EnsureTable(s, pd, PD_INDEX(va), Inter(flags))} : Written(s1, pd, va, pa, flags)

PdWritten(s, pdpt, va, pa, flags) ==
  \E s2 \in {EnsureTable(s, pdpt, PDPT_INDEX(va), Inter(flags))} :
  \E pd \in {IF s2.oom THEN pdpt ELSE s2.mem[pdpt][PDPT_INDEX(va)].addr} :
    PtWritten(s2, pd, va, pa, flags)

\* paging_map has run to its end.
Mapped(p, va, pa, flags) ==
  /\ Remapped(p, va, Shown(Entry(pa, flags)))
  /\ phase' # "panic" => Changed(mem, mem', live, p, va, Shown(Entry(pa, flags)))

\* Entry i of t has been written.
Wrote(m, m2, t, i, e) == Rewritten(m, m2, t, i) /\ m2[t][i] = e

\* What writing an entry does to the memory.
LEMMA Write ==
  ASSUME NEW m \in Memory, NEW t \in Pool, NEW i \in Indices, NEW e \in Entries
  PROVE  Wrote(m, [m EXCEPT ![t][i] = e], t, i, e)
BY WriteEntry DEF Wrote, Rewritten

\* What changes after tables were added to a memory changes in that memory.
LEMMA ChangedAfter ==
  ASSUME NEW m, NEW m1, NEW m2, NEW lv, NEW p, NEW va, NEW new,
         SameView(m, m1, lv), Changed(m1, m2, lv, p, va, new)
  PROVE  Changed(m, m2, lv, p, va, new)
BY Zenon DEF SameView, Changed

\* What is written in the end.
LEMMA WrittenStep ==
  ASSUME NEW lev0, NEW owner0, Good(mem, free, live, kernel_pml4, lev0, owner0),
         NEW p \in live, NEW s, NEW pd, NEW va \in Nat, NEW pa \in Nat, NEW flags \in SUBSET Flags,
         Reached(mem, lev0, owner0, s, live, kernel_pml4, RootOf(kernel_pml4, p, va), va, Inter(flags), "PT",
                 s.mem[pd][PD_INDEX(va)].addr),
         Written(s, pd, va, pa, flags), IS_PAGE_ALIGNED(va)
  PROVE  Mapped(p, va, pa, flags)
<1> DEFINE k == kernel_pml4
           pt == s.mem[pd][PD_INDEX(va)].addr
           i == PT_INDEX(va)
           e == Entry(pa, flags)
           r == RootOf(k, p, va)
<1>1. PICK lev, owner : /\ Good(s.mem, s.free, live, k, lev, owner)
                        /\ Keeps(mem, s.mem, k, lev0, lev, owner0, owner)
                        /\ ~s.oom => At(lev, owner, r, va, "PT", pt) /\ Allowed(s.mem, owner, pt, Inter(flags))
  BY Zenon DEF Reached
<1>2. s \in States /\ Kept(mem, s.mem, k)
  BY Zenon DEF Reached
<1>3. free' = s.free
  BY Zenon DEF Written
<1>4. SameView(mem, s.mem, live)
  <2>1. live \subseteq live
    BY Zenon
  <2> HIDE DEF k
  <2> QED BY <1>1, <2>1, KeepsView, Zenon DEF k
<1>5. CASE s.oom /\ mem' = s.mem /\ phase' = "panic" /\ tlb' = tlb
  BY <1>1, <1>2, <1>3, <1>4, <1>5, Zenon DEF Done, Mapped, Remapped, ViewChange
<1>6. CASE ~s.oom /\ mem' = [s.mem EXCEPT ![pt][i] = e] /\ phase' = phase /\ tlb' = Invalidate(va)
  <2>1. PtAt(lev, owner, r, va, pt) /\ Allowed(s.mem, owner, pt, Inter(flags))
    BY <1>1, <1>6, Zenon DEF At
  <2>2. pt \in Pool /\ lev[pt] = "PT" /\ s.mem \in Memory /\ Pool \subseteq Frames
    BY <1>1, <2>1, Sets, Zenon DEF Good, PtAt
  <2>3. e \in Entries /\ i \in Indices /\ e.flags = flags
    BY IndexTypes, Zenon DEF Entry, Entries
  <2>4. Allowed(s.mem, owner, pt, flags)
    BY <2>1, Zenon DEF Allowed, Inter
  <2> HIDE DEF pt, i, e, k, r
  <2>5. Rewritten(s.mem, mem', pt, i) /\ mem'[pt][i] = e
    <3>1. Wrote(s.mem, [s.mem EXCEPT ![pt][i] = e], pt, i, e)
      BY <2>2, <2>3, Write, Zenon
    <3> QED BY <1>6, <3>1, Zenon DEF Wrote
  <2>6. Good(mem', s.free, live, k, lev, owner) /\ Kept(s.mem, mem', k)
    <3>1. flags = mem'[pt][i].flags
      BY <2>3, <2>5, Zenon
    <3>2. Good(s.mem, s.free, live, k, lev, owner) /\ pt \in Pool /\ lev[pt] = "PT"
          /\ Rewritten(s.mem, mem', pt, i) /\ Allowed(s.mem, owner, pt, flags)
      BY <1>1, <2>2, <2>4, <2>5, Zenon
    <3> QED BY <3>1, <3>2, LeafKeeps, Zenon
  <2>7. Kept(mem, mem', k)
    BY <1>2, <2>6, Zenon DEF Kept
  <2>8. Changed(s.mem, mem', live, p, va, Shown(e))
    <3>1. Shows(mem'[pt][i], Shown(e))
      BY <2>5, Zenon DEF Shown, Shows
    <3>2. /\ PtAt(lev, owner, RootOf(k, p, va), va, pt) /\ Rewritten(s.mem, mem', pt, PT_INDEX(va))
          /\ Shows(mem'[pt][PT_INDEX(va)], Shown(e))
      BY <2>1, <2>5, <3>1, Zenon DEF i, r
    <3> QED BY <1>1, <2>6, <3>2, LeafChange, Zenon
  <2>9. Changed(mem, mem', live, p, va, Shown(e))
    BY <1>4, <2>8, ChangedAfter, Zenon
  <2>10. Done
    BY <1>3, <1>6, <2>6, <2>7, Zenon DEF Done, k
  <2> QED BY <1>6, <2>9, <2>10, Zenon DEF Mapped, Remapped, ViewChange, e
<1> QED BY <1>5, <1>6, Zenon DEF Written

\* paging_map of a page, after its check of the arguments.
LEMMA MapTablesStep ==
  ASSUME MinIsFree, NEW lev, NEW owner, Good(mem, free, live, kernel_pml4, lev, owner), Full(mem, kernel_pml4),
         NEW p \in live, NEW va \in Nat, NEW pa \in Nat, NEW flags \in SUBSET Flags, IS_PAGE_ALIGNED(va),
         ~IsUser(va) => "U" \notin flags, MapTables(p, va, pa, flags)
  PROVE  Mapped(p, va, pa, flags)
<1> DEFINE k == kernel_pml4
           i4 == PML4_INDEX(va)
           r == RootOf(k, p, va)
           fl == Inter(flags)
<1>1. i4 \in Indices
  BY IndexTypes, Zenon
<1>2. fl \in SUBSET Flags /\ {"P", "W"} \subseteq fl /\ (i4 \in KernelIndices => fl = {"P", "W"})
  BY Zenon DEF Inter, IsUser, KernelIndices, Flags
<1>3. NoOom \in States /\ ~NoOom.oom /\ NoOom.mem = mem /\ NoOom.free = free
  BY Zenon DEF NoOom, States, Good
<1>4. PICK s3, pdpt : /\ s3 = EnsureTable(NoOom, p, i4, fl)
                      /\ pdpt = s3.mem[p][i4].addr
                      /\ PdWritten(s3, pdpt, va, pa, flags)
  <2>1. \E s3 \in {EnsureTable(NoOom, p, i4, fl)} : \E pdpt \in {s3.mem[p][i4].addr} :
          PdWritten(s3, pdpt, va, pa, flags)
    BY Zenon DEF MapTables, PdWritten, PtWritten, Written, Inter
  <2> QED BY <2>1, Zenon
<1> HIDE DEF fl
<1>5. Reached(mem, lev, owner, s3, live, k, r, va, fl, "PDPT", pdpt)
  <2>1. Good(NoOom.mem, NoOom.free, live, k, lev, owner) /\ Full(NoOom.mem, k) /\ i4 = PML4_INDEX(va)
    BY <1>3, Zenon
  <2> HIDE DEF i4
  <2>2. Reached(NoOom.mem, lev, owner, s3, live, k, r, va, fl, "PDPT", pdpt)
    BY <1>1, <1>2, <1>3, <1>4, <2>1, EnsureTop, Zenon
  <2> QED BY <1>3, <2>2, Zenon
<1>6. PICK s2, pd : /\ s2 = EnsureTable(s3, pdpt, PDPT_INDEX(va), fl)
                    /\ pd = IF s2.oom THEN pdpt ELSE s2.mem[pdpt][PDPT_INDEX(va)].addr
                    /\ PtWritten(s2, pd, va, pa, flags)
  BY <1>4, Zenon DEF PdWritten, fl
<1> HIDE DEF r, k
<1>7. Reached(mem, lev, owner, s2, live, k, r, va, fl, "PD", pd)
  <2>1. /\ Rank("PD", "PDPT") /\ (~s2.oom => pd = s2.mem[pdpt][PDPT_INDEX(va)].addr)
        /\ PDPT_INDEX(va) = IndexIn("PDPT", va) /\ "PDPT" # "PML4"
    BY <1>6, Zenon DEF Rank, IndexIn
  <2> QED BY <1>2, <1>5, <1>6, <2>1, EnsureBelow, Zenon
<1>8. PICK s1 : /\ s1 = EnsureTable(s2, pd, PD_INDEX(va), fl)
                /\ Written(s1, pd, va, pa, flags)
  BY <1>6, Zenon DEF PtWritten, fl
<1>9. Reached(mem, lev, owner, s1, live, k, r, va, fl, "PT", s1.mem[pd][PD_INDEX(va)].addr)
  <2>1. Rank("PT", "PD") /\ PD_INDEX(va) = IndexIn("PD", va) /\ "PD" # "PML4"
    BY Zenon DEF Rank, IndexIn
  <2> QED BY <1>2, <1>7, <1>8, <2>1, EnsureBelow, Zenon
<1> QED BY <1>8, <1>9, WrittenStep, Zenon DEF fl, r, k

\* paging_map, with its early return.
LEMMA MapPageStep ==
  ASSUME MinIsFree, NEW lev, NEW owner, Good(mem, free, live, kernel_pml4, lev, owner), Full(mem, kernel_pml4),
         NEW p \in live, NEW va \in Nat, NEW pa \in Nat, NEW flags \in SUBSET Flags,
         ~IsUser(va) => "U" \notin flags, MapPage(p, va, pa, flags)
  PROVE  /\ Remapped(p, va, Shown(Entry(pa, flags)))
         /\ Aligned(p, va, pa) => Mapped(p, va, pa, flags)
<1>1. CASE Aligned(p, va, pa) /\ MapTables(p, va, pa, flags)
  <2>1. IS_PAGE_ALIGNED(va)
    BY <1>1, Zenon DEF Aligned
  <2>2. Mapped(p, va, pa, flags)
    BY <1>1, <2>1, MapTablesStep, Zenon
  <2> QED BY <2>2, Zenon DEF Mapped
<1>2. CASE ~Aligned(p, va, pa) /\ UNCHANGED <<mem, free, phase, tlb>>
  BY <1>2, Zenon DEF Done, Kept, Remapped, ViewChange, SameView
<1> QED BY <1>1, <1>2, Zenon DEF MapPage

\* Clearing the entry of a page that is mapped.
LEMMA UnmapMem ==
  ASSUME NEW m, NEW fr, NEW lv, NEW k, NEW lev, NEW owner, Good(m, fr, lv, k, lev, owner),
         NEW p \in lv, NEW va \in Nat, paging_is_mapped(m, p, va)
  PROVE  \E t : PtAt(lev, owner, RootOf(k, p, va), va, t) /\ Wrote(m, Unmap(m, p, va), t, PT_INDEX(va), Zero)
<1> DEFINE pts == {e.addr : e \in {f \in PdEntries(m, p, va) : Present(f)}}
           i == PT_INDEX(va)
           u == [t \in DOMAIN m |-> IF t \in pts THEN [m[t] EXCEPT ![i] = Zero] ELSE m[t]]
<1>1. Unmap(m, p, va) = u
  BY Zenon DEF Unmap
<1>2. PICK a, b, t : Chain(m, p, va, a, b, t)
  BY FoundChain, Zenon DEF paging_is_mapped
<1>3. PtAt(lev, owner, RootOf(k, p, va), va, t)
  BY <1>2, ChainAt, Zenon
<1>4. pts = {t}
  <2>1. Finds(m, p, va, a, b, t)
    BY <1>2, ChainSets, Zenon
  <2>2. PdEntries(m, p, va) = {m[b][PD_INDEX(va)]}
    BY <2>1, Zenon DEF Finds
  <2>3. Present(m[b][PD_INDEX(va)]) /\ m[b][PD_INDEX(va)].addr = t
    BY <1>2, Zenon DEF Chain
  <2> QED BY <2>2, <2>3, Zenon
<1>5. m \in Memory /\ i \in Indices /\ Zero \in Entries /\ t \in Pool /\ t \in Frames
  BY <1>3, IndexTypes, Sets, Zenon DEF Good, PtAt
<1>6. DOMAIN m = Frames
  BY <1>5, Zenon DEF Memory
<1> HIDE DEF pts, i
<1>7. u = [m EXCEPT ![t][i] = Zero]
  BY <1>4, <1>5, <1>6, Zenon
<1>8. Wrote(m, [m EXCEPT ![t][i] = Zero], t, i, Zero)
  BY <1>5, Write, Zenon
<1>9. Wrote(m, Unmap(m, p, va), t, i, Zero)
  BY <1>1, <1>7, <1>8, Zenon
<1> QED BY <1>3, <1>9, Zenon DEF i

\* paging_unmap of a page.
LEMMA UnmapPageStep ==
  ASSUME NEW lev, NEW owner, Good(mem, free, live, kernel_pml4, lev, owner),
         NEW p \in live, NEW va \in Nat, UnmapPage(p, va)
  PROVE  Remapped(p, va, {})
<1>1. free' = free /\ phase' = phase
  BY Zenon DEF UnmapPage
<1>2. CASE mem' = mem /\ tlb' = tlb
  BY <1>1, <1>2, Zenon DEF Done, Kept, Remapped, ViewChange, SameView
<1>3. CASE Aligned(p, va, 0) /\ paging_is_mapped(mem, p, va) /\ mem' = Unmap(mem, p, va) /\ tlb' = Invalidate(va)
  <2> DEFINE k == kernel_pml4
             i == PT_INDEX(va)
  <2>1. PICK t : PtAt(lev, owner, RootOf(k, p, va), va, t) /\ Wrote(mem, mem', t, i, Zero)
    BY <1>3, UnmapMem, Zenon
  <2>2. t \in Pool /\ lev[t] = "PT"
    BY <2>1, Zenon DEF PtAt
  <2>3. Rewritten(mem, mem', t, i) /\ mem'[t][i] = Zero
    BY <2>1, Zenon DEF Wrote
  <2>4. Shows(mem'[t][i], {})
    <3>1. ~Present(Zero)
      BY DEF Present, Zero, Entry
    <3> QED BY <2>3, <3>1, Zenon DEF Shows
  <2>5. mem'[t][i].flags = {} /\ Allowed(mem, owner, t, {})
    <3>1. Zero.flags = {}
      BY DEF Zero, Entry
    <3> QED BY <2>3, <3>1, Zenon DEF Allowed
  <2>6. Good(mem', free, live, k, lev, owner) /\ Kept(mem, mem', k)
    <3> DEFINE fl == mem'[t][i].flags
    <3>1. fl = mem'[t][i].flags /\ Allowed(mem, owner, t, fl)
      BY <2>5, Zenon
    <3> HIDE DEF fl, i, k
    <3> QED BY <2>2, <2>3, <3>1, LeafKeeps, Zenon DEF k
  <2>7. Changed(mem, mem', live, p, va, {})
    BY <2>1, <2>3, <2>4, <2>6, LeafChange, Zenon
  <2>8. IS_PAGE_ALIGNED(va)
    BY <1>3, Zenon DEF Aligned
  <2> QED BY <1>1, <1>3, <2>6, <2>7, <2>8, Zenon DEF Done, Remapped, ViewChange
<1> QED BY <1>2, <1>3, Zenon DEF UnmapPage

-------------------------------------------------------------------------------
(* New address spaces, and the tables of one that is destroyed *)

\* Below an entry that is not present nothing is found.
LEMMA NothingBelow ==
  ASSUME NEW m, NEW p, NEW va \in Nat, ~Present(m[p][PML4_INDEX(va)])
  PROVE  Translate(m, p, va) = {}
<1>1. ASSUME NEW e \in PtEntries(m, p, va) PROVE FALSE
  <2>1. \E a, b, t : Chain(m, p, va, a, b, t)
    BY FoundChain, Zenon
  <2> QED BY <2>1, Zenon DEF Chain
<1>2. PtEntries(m, p, va) = {}
  BY <1>1, Zenon
<1> QED BY <1>2, TranslateIs, Zenon

\* The kernel's PML4 is the first table.
LEMMA FirstSpace ==
  ASSUME NEW m \in Memory, NEW c \in Pool, NEW m2, m2 = [m EXCEPT ![c] = ZeroTable]
  PROVE  \E lev, owner : Good(m2, Pool \ {c}, {c}, c, lev, owner)
<1> DEFINE lev == [x \in Pool |-> IF x = c THEN "PML4" ELSE "free"]
           owner == [x \in Pool |-> <<c, 0>>]
<1>1. c \in Frames /\ ZeroTable \in [Indices -> Entries] /\ 0 \in Indices /\ KernelIndices \subseteq Indices
      /\ ~Present(Zero)
  <2>1. 0 \in Indices
    BY Sets DEF Indices
  <2> QED BY <2>1, Sets, Zenon
<1>2. m2 \in Memory /\ m2[c] = ZeroTable
  BY <1>1, Zenon DEF Memory
<1>3. \A i \in Indices : ~Present(m2[c][i])
  BY <1>1, <1>2, Zenon DEF ZeroTable
<1>4. /\ lev \in [Pool -> Kinds] /\ owner \in [Pool -> Pool \X Indices]
      /\ \A x \in Pool : lev[x] = IF x = c THEN "PML4" ELSE "free"
  BY <1>1, Zenon DEF Kinds
<1> HIDE DEF lev, owner
<1>5. Levels(Pool \ {c}, {c}, lev, owner)
  BY <1>4, Zenon DEF Levels
<1>6. \A t \in Pool : lev[t] \notin Lower
  BY <1>4, Zenon DEF Lower
<1>7. \A t \in Pool, i \in Indices : Slot(lev, c, t, i) => ~Present(m2[t][i])
  BY <1>3, <1>4, Zenon DEF Slot, Upper
<1>8. Forest(m2, Pool \ {c}, {c}, c, lev, owner)
  BY <1>5, <1>6, <1>7, Zenon DEF Forest
<1>9. Half(m2, {c}, c)
  BY <1>1, <1>3, Zenon DEF Half
<1>10. Rights(m2, c, lev, owner)
  BY <1>6, <1>7, Zenon DEF Rights
<1> QED BY <1>2, <1>8, <1>9, <1>10, Zenon DEF Good

\* The first contents of a PML4: an empty user half and the kernel half of the kernel's.
NewTable(m, k, table) ==
  /\ table \in [Indices -> Entries] /\ \A i \in UserIndices : table[i] = Zero
  /\ \A i \in KernelIndices : table[i] = m[k][i]

\* Kinds and owners can be found for these frames.
Fits(m, fr, lv, k) == \E lev, owner : Good(m, fr, lv, k, lev, owner)

\* The table t is what it was.
SameTable(m, m2, t) == m2[t] = m[t]

\* The free frame c becomes a PML4 with these contents.
Created(m, fr, lv, m2, fr2, lv2, c, table) ==
  /\ c \in fr /\ fr2 = fr \ {c} /\ lv2 = lv \cup {c}
  /\ m2 = [m EXCEPT ![c] = table]

\* A free frame becomes an address space.
LEMMA NewSpace ==
  ASSUME NEW m, NEW fr, NEW lv, NEW k, NEW lev, NEW owner, Good(m, fr, lv, k, lev, owner),
         NEW table, NewTable(m, k, table),
         NEW m2, NEW fr2, NEW lv2, NEW c, Created(m, fr, lv, m2, fr2, lv2, c, table)
  PROVE  /\ Fits(m2, fr2, lv2, k) /\ SameTable(m, m2, k) /\ SameView(m, m2, lv)
         /\ \A va \in Nat : IsUser(va) => Translate(m2, c, va) = {}
<1> DEFINE lev2 == [lev EXCEPT ![c] = "PML4"]
<1>0. c \in fr /\ fr2 = fr \ {c} /\ lv2 = lv \cup {c} /\ m2 = [m EXCEPT ![c] = table]
  BY Zenon DEF Created
<1>1. /\ m \in Memory /\ Half(m, lv, k) /\ Forest(m, fr, lv, k, lev, owner) /\ lv \in SUBSET Pool
      /\ fr \in SUBSET Pool /\ Rights(m, k, lev, owner)
  BY Zenon DEF Good
<1>2. k \in lv /\ k \in Pool /\ c \in Pool /\ c \in Frames /\ c # k
  <2>1. k \in lv /\ k \in Pool /\ c \in Pool /\ c \in Frames
    BY <1>1, Sets, <1>0, Zenon DEF Half
  <2>2. lev[k] = "PML4" /\ lev[c] = "free"
    BY <1>0, <1>1, <2>1, LevelsOf
  <2> QED BY <2>1, <2>2, Zenon
<1>3. m2 \in Memory /\ m2[c] = table /\ \A x \in Pool : x # c => m2[x] = m[x]
  BY <1>1, <1>2, <1>0, Sets, Zenon DEF Memory, NewTable
<1>4. Forest(m2, fr \ {c}, lv \cup {c}, k, lev2, owner)
  <2>1. \A j \in UserIndices : ~Present(m2[c][j])
    BY <1>3, Sets, Zenon DEF NewTable
  <2> QED BY <1>0, <1>1, <1>2, <1>3, <2>1, AddSpace, Zenon
<1>5. Half(m2, lv \cup {c}, k)
  <2>1. \A p \in lv : p \in Pool
    BY <1>1, Zenon
  <2>3. m2[k] = m[k]
    BY <1>2, <1>3, Zenon
  <2>4. ASSUME NEW p \in lv, NEW i \in KernelIndices  PROVE m2[p][i] = m2[k][i]
    <3>1. m2[p] = m[p] \/ p = c
      BY <1>3, <2>1, Zenon
    <3>2. m[p][i] = m[k][i]
      BY <1>1, Zenon DEF Half
    <3>3. p # c
      <4>1. lev[p] = "PML4" /\ lev[c] = "free"
        BY <1>0, <1>1, <1>2, <2>1, LevelsOf
      <4> QED BY <4>1, Zenon
    <3> QED BY <2>3, <3>1, <3>2, <3>3, Zenon
  <2>5. ASSUME NEW i \in KernelIndices  PROVE m2[c][i] = m2[k][i]
    BY <1>3, <2>3, Zenon DEF NewTable
  <2>2. \A p \in lv \cup {c}, i \in KernelIndices : m2[p][i] = m2[k][i]
    BY <2>4, <2>5, Zenon
  <2> QED BY <1>1, <1>2, <2>2, <2>3, Zenon DEF Half
<1>6. fr \ {c} \in SUBSET Pool /\ lv \cup {c} \in SUBSET Pool
  BY <1>1, <1>2, Zenon
<1>7. /\ \A x \in Pool : x # c => lev2[x] = lev[x]
      /\ lev2[c] = "PML4" /\ lev[c] = "free"
  <2>1. lev \in [Pool -> Kinds] /\ lev[c] = "free"
    BY <1>0, <1>1, <1>2, LevelsOf
  <2> QED BY <1>2, <2>1, Zenon
<1> HIDE DEF lev2
<1>8. \A i \in UserIndices : ~Present(m2[c][i])
  BY <1>3, Sets, Zenon DEF NewTable
<1>9. Rights(m2, k, lev2, owner)
  <2>1. ASSUME NEW t \in Pool, NEW i \in Indices, Slot(lev2, k, t, i), Present(m2[t][i])
        PROVE  "W" \in m2[t][i].flags
    <3>1. t # c
      <4>1. t = c => i \in UserIndices
        BY <1>2, <1>7, <2>1, Zenon DEF Slot, KernelIndices
      <4> QED BY <1>8, <2>1, <4>1, Zenon
    <3>2. m2[t] = m[t] /\ Slot(lev, k, t, i)
      BY <1>3, <1>7, <2>1, <3>1, Zenon DEF Slot
    <3> QED BY <1>1, <2>1, <3>2, Zenon DEF Rights
  <2>2. ASSUME NEW t \in Pool, NEW i \in Indices, lev2[t] \in Lower, Present(m2[t][i])
        PROVE  Allowed(m2, owner, t, m2[t][i].flags)
    <3>1. t # c
      BY <1>7, <2>2, Zenon DEF Lower
    <3>2. m2[t] = m[t] /\ lev[t] \in Lower
      BY <1>3, <1>7, <2>2, <3>1, Zenon
    <3>0. Owned(m, k, lev, owner, t)
      BY <1>1, <3>2, OwnerOf, Zenon
    <3>3. PICK a \in Pool, b \in Indices : owner[t] = <<a, b>> /\ Slot(lev, k, a, b)
      BY <3>0, Zenon DEF Owned
    <3>4. a # c
      BY <1>7, <3>3, Zenon DEF Slot, Upper
    <3>5. owner[t][1] = a /\ m2[a] = m[a]
      <4>1. owner[t] = <<a, b>>
        BY <3>3, Zenon
      <4>2. owner[t][1] = a
        BY <4>1
      <4> QED BY <1>3, <3>4, <4>2, Zenon
    <3>6. Allowed(m, owner, t, m[t][i].flags)
      BY <1>1, <2>2, <3>2, Zenon DEF Rights
    <3> QED BY <3>2, <3>5, <3>6, Zenon DEF Allowed
  <2> QED BY <2>1, <2>2, Zenon DEF Rights
<1>10. Good(m2, fr2, lv2, k, lev2, owner)
  BY <1>0, <1>3, <1>4, <1>5, <1>6, <1>9, Zenon DEF Good
<1>11. SameView(m, m2, lv)
  <2>1. Keeps(m, m2, k, lev, lev2, owner, owner)
    BY <1>2, <1>3, <1>7, Zenon DEF Keeps
  <2>2. lv \subseteq lv2
    BY <1>0, Zenon
  <2> QED BY <1>10, <2>1, <2>2, KeepsView, Zenon
<1>12. ASSUME NEW va \in Nat, IsUser(va) PROVE Translate(m2, c, va) = {}
  BY <1>8, <1>12, NothingBelow, Zenon DEF IsUser
<1> QED BY <1>2, <1>3, <1>10, <1>11, <1>12, Zenon DEF Fits, SameTable

\* S holds the tables that the entries with indices I of the tables T own.
Children(lev, owner, S, T, I) ==
  \A x : x \in S <=> x \in Pool /\ lev[x] \in Lower /\ owner[x][1] \in T /\ owner[x][2] \in I

\* What TablesBelow finds.
LEMMA BelowOwned ==
  ASSUME NEW lev, NEW owner, Good(mem, free, live, kernel_pml4, lev, owner),
         NEW T, NEW I, \A t \in T, i \in I : t \in Pool /\ Slot(lev, kernel_pml4, t, i)
  PROVE  Children(lev, owner, TablesBelow(T, I), T, I)
<1>1. Forest(mem, free, live, kernel_pml4, lev, owner)
  BY Zenon DEF Good
<1>2. ASSUME NEW x \in TablesBelow(T, I)
      PROVE  x \in Pool /\ lev[x] \in Lower /\ owner[x][1] \in T /\ owner[x][2] \in I
  <2>1. PICK e \in T \X I : Present(mem[e[1]][e[2]]) /\ x = mem[e[1]][e[2]].addr
    BY Zenon DEF TablesBelow, Links
  <2>2. PICK t \in T, i \in I : e = <<t, i>>
    BY <2>1
  <2>3. Present(mem[t][i]) /\ x = mem[t][i].addr
    BY <2>1, <2>2, Zenon
  <2>4. t \in Pool /\ i \in Indices /\ Slot(lev, kernel_pml4, t, i)
    BY Zenon DEF Slot
  <2>5. Owns(mem, lev, owner, t, i)
    BY <1>1, <2>3, <2>4, Zenon DEF Forest
  <2>6. x \in Pool /\ owner[x] = <<t, i>> /\ Rank(lev[x], lev[t])
    BY <2>3, <2>5, Zenon DEF Owns
  <2>7. lev[x] \in Lower
    BY <2>6, Zenon DEF Rank, Lower
  <2> QED BY <2>6, <2>7
<1>3. ASSUME NEW x \in Pool, lev[x] \in Lower, owner[x][1] \in T, owner[x][2] \in I
      PROVE  x \in TablesBelow(T, I)
  <2>0. Owned(mem, kernel_pml4, lev, owner, x)
    BY <1>1, <1>3, OwnerOf, Zenon
  <2>1. PICK a \in Pool, b \in Indices :
          owner[x] = <<a, b>> /\ Present(mem[a][b]) /\ mem[a][b].addr = x
    BY <2>0, Zenon DEF Owned
  <2>2. a \in T /\ b \in I
    BY <1>3, <2>1
  <2>3. <<a, b>> \in Links(T, I)
    BY <2>1, <2>2, Zenon DEF Links
  <2> QED BY <2>1, <2>3 DEF TablesBelow
<1> QED BY <1>2, <1>3, Zenon DEF Children

\* The owner of a table.
LEMMA OwnerRank ==
  ASSUME NEW m, NEW fr, NEW lv, NEW k, NEW lev, NEW owner, Good(m, fr, lv, k, lev, owner),
         NEW x \in Pool, lev[x] \in Lower
  PROVE  /\ owner[x][1] \in Pool /\ owner[x][2] \in Indices
         /\ Rank(lev[x], lev[owner[x][1]]) /\ Slot(lev, k, owner[x][1], owner[x][2])
<1>1. Forest(m, fr, lv, k, lev, owner)
  BY Zenon DEF Good
<1>0. Owned(m, k, lev, owner, x)
  BY <1>1, OwnerOf, Zenon
<1>2. PICK a \in Pool, b \in Indices : owner[x] = <<a, b>> /\ Rank(lev[x], lev[a]) /\ Slot(lev, k, a, b)
  BY <1>0, Zenon DEF Owned
<1> QED BY <1>2

\* S holds the tables that the tables T, of the kind n, own.
Generation(lev, owner, S, T, n) ==
  /\ \A x \in S : x \in Pool /\ Rank(lev[x], n) /\ owner[x][1] \in T
  /\ \A x \in Pool : lev[x] \in Lower /\ owner[x][1] \in T => x \in S

\* The tables below tables of a kind are of the kind below.
LEMMA ChildrenOfKind ==
  ASSUME NEW lev, NEW owner, Good(mem, free, live, kernel_pml4, lev, owner), NEW T, NEW n, n \in {"PDPT", "PD"},
         \A t \in T : t \in Pool /\ lev[t] = n, NEW S, S = TablesBelow(T, Indices)
  PROVE  Generation(lev, owner, S, T, n)
<1>1. \A t \in T, i \in Indices : t \in Pool /\ Slot(lev, kernel_pml4, t, i)
  BY Zenon DEF Slot, Upper
<1>2. Children(lev, owner, S, T, Indices)
  BY <1>1, BelowOwned, Zenon
<1>3. \A x \in Pool : lev[x] \in Lower => owner[x][2] \in Indices /\ Rank(lev[x], lev[owner[x][1]])
  BY OwnerRank, Zenon
<1>4. ASSUME NEW x \in S PROVE x \in Pool /\ Rank(lev[x], n) /\ owner[x][1] \in T
  <2>1. x \in Pool /\ lev[x] \in Lower /\ owner[x][1] \in T
    BY <1>2, Zenon DEF Children
  <2> QED BY <1>3, <2>1, Zenon
<1>5. ASSUME NEW x \in Pool, lev[x] \in Lower, owner[x][1] \in T PROVE x \in S
  <2>1. owner[x][2] \in Indices
    BY <1>3, <1>5, Zenon
  <2> QED BY <1>2, <1>5, <2>1, Zenon DEF Children
<1> QED BY <1>4, <1>5, Zenon DEF Generation

\* The tables that paging_destroy_pml4 frees are exactly those whose owners it frees.
LEMMA UserTablesOwned ==
  ASSUME NEW lev, NEW owner, Good(mem, free, live, kernel_pml4, lev, owner),
         NEW p \in live, p # kernel_pml4, NEW D, D = UserTables(p) \cup {p}
  PROVE  Subtree(lev, owner, p, D)
<1> DEFINE pdpts == TablesBelow({p}, UserIndices)
           pds == TablesBelow(pdpts, Indices)
           pts == TablesBelow(pds, Indices)
<1>1. p \in Pool /\ lev[p] = "PML4"
  BY LevelsOf DEF Good
<1>2. /\ \A x \in pdpts : x \in Pool /\ lev[x] = "PDPT" /\ owner[x][1] = p
      /\ \A x \in Pool : lev[x] \in Lower /\ owner[x][1] = p => x \in pdpts
  <2>1. \A i \in UserIndices : i \in Indices /\ i \notin KernelIndices
    BY Sets, Zenon DEF KernelIndices
  <2>2. \A t \in {p}, i \in UserIndices : t \in Pool /\ Slot(lev, kernel_pml4, t, i)
    BY <1>1, <2>1, Zenon DEF Slot, Upper
  <2>3. Children(lev, owner, pdpts, {p}, UserIndices)
    BY <2>2, BelowOwned, Zenon
  <2>4. ASSUME NEW x \in Pool, lev[x] \in Lower, owner[x][1] = p
        PROVE  owner[x][2] \in UserIndices /\ lev[x] = "PDPT"
    <3>1. owner[x][2] \in Indices /\ Rank(lev[x], lev[p]) /\ Slot(lev, kernel_pml4, p, owner[x][2])
      BY <2>4, OwnerRank, Zenon
    <3> QED BY <1>1, <3>1, Zenon DEF Slot, Rank, KernelIndices
  <2> QED BY <2>3, <2>4, Zenon DEF Children
<1>3. /\ \A x \in pds : x \in Pool /\ lev[x] = "PD" /\ owner[x][1] \in pdpts
      /\ \A x \in Pool : lev[x] \in Lower /\ owner[x][1] \in pdpts => x \in pds
  <2> HIDE DEF pdpts
  <2>1. (\A t \in pdpts : t \in Pool /\ lev[t] = "PDPT") /\ "PDPT" \in {"PDPT", "PD"}
    BY <1>2, Zenon
  <2>2. Generation(lev, owner, pds, pdpts, "PDPT")
    BY <2>1, ChildrenOfKind, Zenon
  <2> QED BY <2>2, Zenon DEF Generation, Rank
<1>4. /\ \A x \in pts : x \in Pool /\ lev[x] = "PT" /\ owner[x][1] \in pds
      /\ \A x \in Pool : lev[x] \in Lower /\ owner[x][1] \in pds => x \in pts
  <2> HIDE DEF pds
  <2>1. (\A t \in pds : t \in Pool /\ lev[t] = "PD") /\ "PD" \in {"PDPT", "PD"}
    BY <1>3, Zenon
  <2>2. Generation(lev, owner, pts, pds, "PD")
    BY <2>1, ChildrenOfKind, Zenon
  <2> QED BY <2>2, Zenon DEF Generation, Rank
<1>5. \A x \in Pool : lev[x] \in Lower => owner[x][1] \notin pts
  <2>1. \A x \in Pool : lev[x] \in Lower => lev[owner[x][1]] # "PT"
    BY OwnerRank DEF Rank
  <2> QED BY <1>4, <2>1, Zenon
<1>6. D = pdpts \cup pds \cup pts \cup {p}
  BY Zenon DEF UserTables
<1> HIDE DEF pdpts, pds, pts
<1>7. "PDPT" \in Lower /\ "PD" \in Lower /\ "PT" \in Lower
  BY Zenon DEF Lower
<1> QED BY <1>1, <1>2, <1>3, <1>4, <1>5, <1>6, <1>7, Zenon DEF Subtree
===============================================================================
