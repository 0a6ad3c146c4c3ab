----------------------------- MODULE PagingViews ------------------------------
(***************************************************************************)
(* What the processor sees of the tables of Paging, for every number of    *)
(* entries per table and every address: which pages paging_init sets out   *)
(* to map, what a walk finds, and that steps which add address spaces, map *)
(* or unmap one page, or leave the tables alone keep the cache coherent    *)
(* and the kernel mapped, and are steps of AddressSpaces.                  *)
(***************************************************************************)
EXTENDS Paging, TableViews, TLAPS

-------------------------------------------------------------------------------
(* Addresses *)

\* The sizes of a table and of a page, and the frames of the pool.
LEMMA Units == RADIX \in Nat \ {0, 1} /\ PAGE_SIZE \in Nat \ {0} /\ Pool \subseteq Frames /\ Pool \subseteq Nat
BY PagingAssumption, PageSizeAssumption DEF Frames

\* Division with remainder.
LEMMA DivMod ==
  ASSUME NEW a \in Nat, NEW d \in Nat \ {0}
  PROVE  a \div d \in Nat /\ a % d \in 0 .. (d - 1) /\ a = d * (a \div d) + (a % d)
OBVIOUS

\* Quotient and remainder are unique.
LEMMA DivUnique ==
  ASSUME NEW d \in Nat \ {0}, NEW q \in Nat, NEW r \in 0 .. (d - 1), NEW s \in Nat, NEW t \in 0 .. (d - 1),
         d * q + r = d * s + t
  PROVE  q = s /\ r = t
<1>1. ~(q < s)
  <2> SUFFICES ASSUME q < s PROVE FALSE
    BY Zenon
  <2>1. q + 1 <= s
    OBVIOUS
  <2>2. d * (q + 1) <= d * s
    BY <2>1
  <2>3. d * (q + 1) = d * q + d
    OBVIOUS
  <2> QED BY <2>2, <2>3
<1>2. ~(s < q)
  <2> SUFFICES ASSUME s < q PROVE FALSE
    BY Zenon
  <2>1. s + 1 <= q
    OBVIOUS
  <2>2. d * (s + 1) <= d * q
    BY <2>1
  <2>3. d * (s + 1) = d * s + d
    OBVIOUS
  <2> QED BY <2>2, <2>3
<1>3. q = s
  BY <1>1, <1>2
<1> QED BY <1>3

\* Dividing twice.
LEMMA DivDiv ==
  ASSUME NEW a \in Nat, NEW c \in Nat \ {0}, NEW d \in Nat \ {0}
  PROVE  a \div (c * d) = (a \div c) \div d
<1> DEFINE q == a \div c
           x == q \div d
           y == q % d
           z == a % c
           e == c * d
<1>1. q \in Nat /\ z \in 0 .. (c - 1) /\ a = c * q + z
  BY DivMod, Zenon
<1>2. x \in Nat /\ y \in 0 .. (d - 1) /\ q = d * x + y
  <2> HIDE DEF q
  <2> QED BY <1>1, DivMod, Zenon
<1>3. e \in Nat \ {0}
  OBVIOUS
<1>4. a \div e \in Nat /\ a % e \in 0 .. (e - 1) /\ a = e * (a \div e) + (a % e)
  <2> HIDE DEF e
  <2> QED BY <1>3, DivMod, Zenon
<1> DEFINE w == c * y + z
<1> HIDE DEF q, x, y, z
<1>5. w \in 0 .. (e - 1)
  <2>1. c * (y + 1) <= c * d /\ c * (y + 1) = c * y + c
    BY <1>2
  <2>2. c * y \in Nat /\ c * d \in Nat
    BY <1>2
  <2> QED BY <1>1, <2>1, <2>2
<1>6. a = e * x + w
  <2>1. c * (d * x + y) = (c * d) * x + c * y
    BY <1>2
  <2>2. c * y \in Nat /\ (c * d) * x \in Nat
    BY <1>2
  <2> QED BY <1>1, <1>2, <2>1, <2>2
<1> DEFINE u == a \div e
           v == a % e
<1> HIDE DEF e, w, u, v
<1>7. u = x
  <2>1. u \in Nat /\ v \in 0 .. (e - 1) /\ e * u + v = e * x + w
    BY <1>4, <1>6, Zenon DEF u, v
  <2> QED BY <1>2, <1>3, <1>5, <2>1, DivUnique, Zenon
<1> QED BY <1>7, Zenon DEF u, x, e, q

\* A digit more.
LEMMA SameDigit ==
  ASSUME NEW a \in Nat, NEW b \in Nat, NEW c \in Nat \ {0}, NEW r \in Nat \ {0},
         a \div (c * r) = b \div (c * r), (a \div c) % r = (b \div c) % r
  PROVE  a \div c = b \div c
<1>1. a \div c \in Nat /\ b \div c \in Nat
  BY DivMod, Zenon
<1>2. (a \div c) \div r = (b \div c) \div r
  BY DivDiv, Zenon
<1> DEFINE x == a \div c
           y == b \div c
<1> HIDE DEF x, y
<1>3. x = r * (x \div r) + (x % r) /\ y = r * (y \div r) + (y % r)
  BY <1>1, DivMod, Zenon DEF x, y
<1> QED BY <1>2, <1>3, Zenon DEF x, y

\* The highest digit.
LEMMA LastDigit ==
  ASSUME NEW a \in Nat, NEW c \in Nat \ {0}, NEW r \in Nat \ {0}, a < c * r
  PROVE  (a \div c) % r = a \div c
<1> DEFINE x == a \div c
<1>1. x \in Nat /\ a >= c * x
  BY DivMod
<1> HIDE DEF x
<1>2. x < r
  <2> SUFFICES ASSUME x >= r PROVE FALSE
    BY <1>1
  <2>1. c * x >= c * r
    BY <1>1
  <2>2. c * x \in Nat /\ c * r \in Nat
    BY <1>1
  <2> QED BY <1>1, <2>1, <2>2
<1>3. x % r = x
  BY <1>1, <1>2
<1> QED BY <1>3, Zenon DEF x

\* A product of sizes is a size.
LEMMA Factor == ASSUME NEW a \in Nat \ {0}, NEW b \in Nat \ {0} PROVE a * b \in Nat \ {0}
  OBVIOUS

\* A page is found by its four indices.
LEMMA SamePlace ==
  ASSUME NEW va \in Nat, NEW vb \in Nat, va < Top, vb < Top, IS_PAGE_ALIGNED(va), IS_PAGE_ALIGNED(vb),
         SamePt(va, vb), PT_INDEX(va) = PT_INDEX(vb)
  PROVE  va = vb
<1> DEFINE P == PAGE_SIZE
           R == RADIX
           c1 == P * R
           c2 == P * R * R
           c3 == P * R * R * R
<1>1. R \in Nat \ {0} /\ P \in Nat \ {0}
  BY Units, Zenon
<1>2. c1 \in Nat \ {0}
  BY <1>1, Factor, Zenon
<1>3. c2 \in Nat \ {0}
  BY <1>1, <1>2, Factor, Zenon
<1>4. c3 \in Nat \ {0}
  BY <1>1, <1>3, Factor, Zenon
<1>5. va < c3 * R /\ vb < c3 * R /\ c3 = c2 * R /\ c2 = c1 * R /\ c1 = P * R
  BY Zenon DEF Top
<1>6. /\ (va \div c3) % R = (vb \div c3) % R /\ (va \div c2) % R = (vb \div c2) % R
      /\ (va \div c1) % R = (vb \div c1) % R /\ (va \div P) % R = (vb \div P) % R
  BY Zenon DEF SamePt, PML4_INDEX, PDPT_INDEX, PD_INDEX, PT_INDEX
<1>7. va % P = 0 /\ vb % P = 0
  BY Zenon DEF IS_PAGE_ALIGNED
<1> HIDE DEF P, R, c1, c2, c3
<1>8. va \div c3 = vb \div c3
  <2>1. (va \div c3) % R = va \div c3
    BY <1>1, <1>4, <1>5, LastDigit, Zenon
  <2>2. (vb \div c3) % R = vb \div c3
    BY <1>1, <1>4, <1>5, LastDigit, Zenon
  <2> QED BY <1>6, <2>1, <2>2, Zenon
<1>9. va \div c2 = vb \div c2
  BY <1>1, <1>3, <1>5, <1>6, <1>8, SameDigit, Zenon
<1>10. va \div c1 = vb \div c1
  BY <1>1, <1>2, <1>5, <1>6, <1>9, SameDigit, Zenon
<1>11. va \div P = vb \div P
  BY <1>1, <1>5, <1>6, <1>10, SameDigit, Zenon
<1>12. va = P * (va \div P) + (va % P) /\ vb = P * (vb \div P) + (vb % P)
  BY <1>1, DivMod, Zenon
<1> QED BY <1>7, <1>11, <1>12, Zenon

\* The size of an address space.
LEMMA TopSize == Top \in Nat \ {0}
<1>1. RADIX \in Nat \ {0} /\ PAGE_SIZE \in Nat \ {0}
  BY Units, Zenon
<1>2. PAGE_SIZE * RADIX \in Nat \ {0}
  BY <1>1, Factor, Zenon
<1>3. PAGE_SIZE * RADIX * RADIX \in Nat \ {0}
  BY <1>1, <1>2, Factor, Zenon
<1>4. PAGE_SIZE * RADIX * RADIX * RADIX \in Nat \ {0}
  BY <1>1, <1>3, Factor, Zenon
<1> QED BY <1>1, <1>4, Factor, Zenon DEF Top

\* The multiples of the page size.
LEMMA Multiple ==
  ASSUME NEW a \in Nat
  PROVE  IS_PAGE_ALIGNED(a) <=> \E x \in Nat : a = PAGE_SIZE * x
<1> DEFINE P == PAGE_SIZE
<1>1. P \in Nat \ {0}
  BY Units, Zenon
<1> HIDE DEF P
<1>2. a \div P \in Nat /\ a % P \in 0 .. (P - 1) /\ a = P * (a \div P) + (a % P)
  BY <1>1, DivMod, Zenon
<1>3. a % P = 0 => a = P * (a \div P)
  BY <1>1, <1>2
<1>4. ASSUME NEW x \in Nat, a = P * x PROVE a % P = 0
  <2> DEFINE q == a \div P
             r == a % P
  <2>1. q \in Nat /\ r \in 0 .. (P - 1) /\ 0 \in 0 .. (P - 1) /\ P * x + 0 = P * q + r
    BY <1>1, <1>2, <1>4
  <2> HIDE DEF q, r
  <2>2. r = 0
    BY <1>1, <2>1, DivUnique, Zenon
  <2> QED BY <2>2, Zenon DEF r
<1> QED BY <1>2, <1>3, <1>4, Zenon DEF IS_PAGE_ALIGNED, P

\* Sums of multiples of the page size.
LEMMA AlignedSum ==
  ASSUME NEW a \in Nat, NEW b \in Nat, IS_PAGE_ALIGNED(a)
  PROVE  /\ IS_PAGE_ALIGNED(a + PAGE_SIZE)
         /\ IS_PAGE_ALIGNED(b) => IS_PAGE_ALIGNED(a + b) /\ (b <= a => IS_PAGE_ALIGNED(a - b))
<1>1. PAGE_SIZE \in Nat \ {0}
  BY Units, Zenon
<1>2. PICK x \in Nat : a = PAGE_SIZE * x
  BY Multiple, Zenon
<1>3. a + PAGE_SIZE \in Nat /\ x + 1 \in Nat /\ a + PAGE_SIZE = PAGE_SIZE * (x + 1)
  BY <1>1, <1>2
<1>4. ASSUME NEW y \in Nat, b = PAGE_SIZE * y PROVE a + b \in Nat /\ x + y \in Nat /\ a + b = PAGE_SIZE * (x + y)
  BY <1>1, <1>2, <1>4
<1>5. ASSUME NEW y \in Nat, b = PAGE_SIZE * y, b <= a
      PROVE  a - b \in Nat /\ x - y \in Nat /\ a - b = PAGE_SIZE * (x - y)
  <2>1. ~(x < y)
    <3> SUFFICES ASSUME x + 1 <= y PROVE FALSE
      OBVIOUS
    <3>1. PAGE_SIZE * (x + 1) <= PAGE_SIZE * y
      BY <1>1
    <3> QED BY <1>1, <1>2, <1>5, <3>1
  <2> QED BY <1>1, <1>2, <1>5, <2>1
<1>6. IS_PAGE_ALIGNED(a + PAGE_SIZE)
  BY <1>3, Multiple, Zenon
<1>7. IS_PAGE_ALIGNED(b) => \E y \in Nat : b = PAGE_SIZE * y
  BY Multiple, Zenon
<1>8. IS_PAGE_ALIGNED(b) => IS_PAGE_ALIGNED(a + b)
  BY <1>4, <1>7, Multiple, Zenon
<1>9. IS_PAGE_ALIGNED(b) /\ b <= a => IS_PAGE_ALIGNED(a - b)
  BY <1>5, <1>7, Multiple, Zenon
<1> QED BY <1>6, <1>8, <1>9, Zenon

\* The pages of a size.
LEMMA PagesOfSize ==
  ASSUME NEW size \in Nat
  PROVE  /\ \A j \in 0 .. (PAGE_COUNT(size) - 1) : j * PAGE_SIZE \in Nat /\ j * PAGE_SIZE < size
         /\ \A off \in Nat : IS_PAGE_ALIGNED(off) /\ off < size =>
              \E j \in 0 .. (PAGE_COUNT(size) - 1) : off = j * PAGE_SIZE
<1> DEFINE P == PAGE_SIZE
           n == PAGE_COUNT(size)
<1>1. P \in Nat \ {0}
  BY Units, Zenon
<1>2. n \in Nat /\ P * n <= size + P - 1 /\ size <= P * n
  <2> DEFINE s == size + P - 1
  <2> HIDE DEF P
  <2>1. s \in Nat
    BY <1>1
  <2>2. n = s \div P
    BY Zenon DEF PAGE_COUNT, P
  <2> HIDE DEF n, s
  <2>3. s \div P \in Nat /\ s % P \in 0 .. (P - 1) /\ s = P * (s \div P) + (s % P)
    BY <1>1, <2>1, DivMod, Zenon
  <2> QED BY <1>1, <2>1, <2>2, <2>3 DEF s
<1> HIDE DEF P, n
<1>3. ASSUME NEW j \in 0 .. (n - 1) PROVE j * P \in Nat /\ j * P < size
  <2>1. P * (j + 1) <= P * n /\ P * (j + 1) = j * P + P /\ j * P \in Nat /\ P * n \in Nat
    BY <1>1, <1>2
  <2> QED BY <1>1, <1>2, <2>1
<1>4. ASSUME NEW off \in Nat, IS_PAGE_ALIGNED(off), off < size PROVE \E j \in 0 .. (n - 1) : off = j * P
  <2>1. PICK j \in Nat : off = P * j
    BY <1>4, Multiple, Zenon DEF P
  <2>2. j < n
    <3> SUFFICES ASSUME n <= j PROVE FALSE
      BY <1>2
    <3>1. P * n <= P * j
      BY <1>1, <1>2
    <3> QED BY <1>1, <1>2, <1>4, <2>1, <3>1
  <2>3. j \in 0 .. (n - 1) /\ off = j * P
    BY <1>1, <1>2, <2>1, <2>2
  <2> QED BY <2>3, Zenon
<1> QED BY <1>3, <1>4, Zenon DEF P, n

\* A size that is not zero has pages.
LEMMA PageCountPositive ==
  ASSUME NEW size \in Nat \ {0}
  PROVE  PAGE_COUNT(size) \in Nat \ {0}
<1>1. PAGE_SIZE \in Nat \ {0}
  BY Units, Zenon
<1>2. size + PAGE_SIZE - 1 >= PAGE_SIZE /\ size + PAGE_SIZE - 1 \in Nat
  BY <1>1
<1>3. (size + PAGE_SIZE - 1) \div PAGE_SIZE \in Nat
      /\ (size + PAGE_SIZE - 1) \div PAGE_SIZE >= 1
  BY <1>1, <1>2
<1> QED BY <1>3 DEF PAGE_COUNT

-------------------------------------------------------------------------------
(* What paging_init maps, and the range calls under way *)

RangeRecords ==
  [op : {"map", "unmap"}, pml4 : Pool, va : Nat, pa : Nat, pages : Nat \ {0}, flags : SUBSET Flags]

\* The mapping that paging_init makes for a page of the HHDM or of a section.
Wanted(v, e) ==
  \/ v \in HHDM .. (HHDM + MemSize - 1) /\ e = Entry(v - HHDM, HhdmFlags)
  \/ \E name \in DOMAIN Segments :
       /\ v \in Segments[name].start .. (Segments[name].end - 1)
       /\ e = Entry((v - KernelVirt) + KernelPhys, SegmentFlags[name])

\* What callers owe for a page that is still to be mapped or unmapped: user pages are not
\* global and kernel pages not open to users, paging_init maps what is wanted there, and
\* later calls leave that alone.
PageFine(ph, k, op, p, v, pa, flags) ==
  /\ v < Top
  /\ IF IsUser(v) THEN "G" \notin flags ELSE "U" \notin flags
  /\ ph = "ranges" => op = "map" /\ p = k /\ Wanted(v, Entry(pa, flags))
  /\ ph = "up" => ~BootMapped(v)

Proper(ph, k, r) ==
  /\ Aligned(r.pml4, r.va, r.pa)
  /\ \A j \in 0 .. (r.pages - 1) :
       PageFine(ph, k, r.op, r.pml4, r.va + j * PAGE_SIZE, r.pa + j * PAGE_SIZE, r.flags)

\* The page v is one of the range r.
InRange(r, v) == \E j \in 0 .. (r.pages - 1) : v = r.va + j * PAGE_SIZE

\* Among the sequence t of ranges is one with the page v.
Pending(t, v) == \E n \in 1 .. Len(t) : InRange(t[n], v)

\* What paging_init wants to be mapped, as a set of pages.
LEMMA WantedPage ==
  ASSUME NEW v \in Nat, NEW e, Wanted(v, e)
  PROVE  v < Top /\ BootMapped(v) /\ ~IsUser(v) /\ Present(e)
<1>1. PICK size \in Nat, start \in Nat :
        v \in start .. (start + size - 1) /\ start + size <= Top
  <2>1. CASE v \in HHDM .. (HHDM + MemSize - 1)
    <3>1. HHDM \in Nat /\ MemSize \in Nat /\ HHDM + MemSize <= Top
      BY PagingAssumption, AddressAssumption, Zenon
    <3> QED BY <2>1, <3>1, Zenon
  <2>2. ASSUME NEW name \in DOMAIN Segments, v \in Segments[name].start .. (Segments[name].end - 1)
        PROVE  \E size \in Nat, start \in Nat :
                 v \in start .. (start + size - 1) /\ start + size <= Top
    <3>1. /\ Segments[name].start \in Nat /\ Segments[name].end \in Nat
          /\ Segments[name].start < Segments[name].end /\ Segments[name].end <= Top
      BY PagingAssumption, AddressAssumption, Zenon
    <3>2. /\ Segments[name].end - Segments[name].start \in Nat
          /\ v \in Segments[name].start .. (Segments[name].start + (Segments[name].end - Segments[name].start) - 1)
          /\ Segments[name].start + (Segments[name].end - Segments[name].start) <= Top
      BY <2>2, <3>1, TopSize
    <3> QED BY <3>1, <3>2, Zenon
  <2> QED BY <2>1, <2>2, Zenon DEF Wanted
<1>2. v < Top /\ v \in 0 .. (Top - 1)
  BY <1>1, TopSize
<1>3. BootMapped(v)
  BY Zenon DEF Wanted, BootMapped
<1>4. ~IsUser(v)
  BY <1>2, <1>3, AddressAssumption, Zenon
<1>5. Present(e)
  <2>1. "P" \in HhdmFlags /\ \A name \in DOMAIN Segments : "P" \in SegmentFlags[name]
    <3>1. DOMAIN Segments = {"limine", "text", "rodata", "data"}
      BY PagingAssumption, Zenon
    <3> QED BY <3>1 DEF HhdmFlags, SegmentFlags
  <2>2. PICK addr, flags : e = Entry(addr, flags) /\ "P" \in flags
    BY <2>1, Zenon DEF Wanted
  <2> QED BY <2>2 DEF Present, Entry
<1> QED BY <1>2, <1>3, <1>4, <1>5, Zenon

\* No page is wanted twice: the HHDM and the sections lie apart.
LEMMA WantedOnce ==
  ASSUME NEW v \in Nat, NEW e, NEW f, Wanted(v, e), Wanted(v, f)
  PROVE  e = f
<1> DEFINE inHhdm == v \in HHDM .. (HHDM + MemSize - 1)
           In(name) == v \in Segments[name].start .. (Segments[name].end - 1)
<1>1. HHDM \in Nat /\ MemSize \in Nat
      /\ \A name \in DOMAIN Segments : Segments[name].start \in Nat /\ Segments[name].end \in Nat
  BY PagingAssumption, Zenon
<1>2. ASSUME NEW a \in DOMAIN Segments, In(a) PROVE ~inHhdm
  <2>1. HHDM + MemSize <= Segments[a].start \/ Segments[a].end <= HHDM
    BY AddressAssumption, Zenon
  <2> QED BY <1>1, <1>2, <2>1
<1>3. ASSUME NEW a \in DOMAIN Segments, NEW b \in DOMAIN Segments, In(a), In(b) PROVE a = b
  <2>1. a # b => Segments[a].end <= Segments[b].start \/ Segments[b].end <= Segments[a].start
    BY AddressAssumption, Zenon
  <2>2. a # b => FALSE
    BY <1>1, <1>3, <2>1
  <2> QED BY <2>2, Zenon
<1> HIDE DEF inHhdm, In
<1>4. \A g : Wanted(v, g) => \/ inHhdm /\ g = Entry(v - HHDM, HhdmFlags)
                             \/ \E name \in DOMAIN Segments :
                                  In(name) /\ g = Entry((v - KernelVirt) + KernelPhys, SegmentFlags[name])
  BY Zenon DEF Wanted, inHhdm, In
<1>5. CASE inHhdm
  <2>1. e = Entry(v - HHDM, HhdmFlags) /\ f = Entry(v - HHDM, HhdmFlags)
    BY <1>2, <1>4, <1>5, Zenon
  <2> QED BY <2>1, Zenon
<1>6. CASE ~inHhdm
  <2>1. PICK a \in DOMAIN Segments : In(a) /\ e = Entry((v - KernelVirt) + KernelPhys, SegmentFlags[a])
    BY <1>4, <1>6, Zenon
  <2>2. PICK b \in DOMAIN Segments : In(b) /\ f = Entry((v - KernelVirt) + KernelPhys, SegmentFlags[b])
    BY <1>4, <1>6, Zenon
  <2>3. a = b
    BY <1>3, <2>1, <2>2, Zenon
  <2> QED BY <2>1, <2>2, <2>3, Zenon
<1> QED BY <1>5, <1>6, Zenon

\* A block of addresses that paging_init maps.
BootBlock(va, pa, size, flags) ==
  \A off \in 0 .. (size - 1) :
    va + off < Top /\ BootMapped(va + off) /\ Wanted(va + off, Entry(pa + off, flags))

\* A range that maps these addresses, and all of them.
Covers(r, va, size) ==
  \A v \in Nat : IS_PAGE_ALIGNED(v) /\ va <= v /\ v < va + size => InRange(r, v)

\* A range of paging_init.
LEMMA BlockRange ==
  ASSUME NEW k \in Pool, NEW va \in Nat, NEW pa \in Nat, NEW size \in Nat \ {0}, NEW flags \in SUBSET Flags,
         "U" \notin flags, IS_PAGE_ALIGNED(va), IS_PAGE_ALIGNED(pa), BootBlock(va, pa, size, flags),
         NEW r, r = PageRange("map", k, va, pa, size, flags)
  PROVE  r \in RangeRecords /\ r.pml4 = k /\ Proper("ranges", k, r) /\ Covers(r, va, size)
<1>1. PAGE_COUNT(size) \in Nat \ {0}
  BY PageCountPositive, Zenon
<1>2. /\ r.op = "map" /\ r.pml4 = k /\ r.va = va /\ r.pa = pa /\ r.pages = PAGE_COUNT(size) /\ r.flags = flags
      /\ r \in RangeRecords
  BY <1>1, Zenon DEF PageRange, RangeRecords
<1>3. Aligned(r.pml4, r.va, r.pa)
  <2>1. IS_PAGE_ALIGNED(k)
    BY Units, Zenon DEF Frames
  <2> QED BY <1>2, <2>1, Zenon DEF Aligned
<1>4. ASSUME NEW j \in 0 .. (PAGE_COUNT(size) - 1)
      PROVE  PageFine("ranges", k, "map", k, va + j * PAGE_SIZE, pa + j * PAGE_SIZE, flags)
  <2>1. j * PAGE_SIZE \in Nat /\ j * PAGE_SIZE < size
    BY PagesOfSize, Zenon
  <2> DEFINE off == j * PAGE_SIZE
  <2> HIDE DEF off
  <2>2. off \in 0 .. (size - 1) /\ va + off \in Nat
    BY <2>1 DEF off
  <2>3. va + off < Top /\ BootMapped(va + off) /\ Wanted(va + off, Entry(pa + off, flags))
    BY <2>2, Zenon DEF BootBlock
  <2>4. ~IsUser(va + off)
    <3>1. va + off \in 0 .. (Top - 1)
      BY <2>2, <2>3, TopSize
    <3> QED BY <2>3, <3>1, AddressAssumption, Zenon
  <2> QED BY <2>3, <2>4, Zenon DEF PageFine, off
<1>5. ASSUME NEW v \in Nat, IS_PAGE_ALIGNED(v), va <= v, v < va + size
      PROVE  InRange(r, v)
  <2>1. v - va \in Nat /\ v - va < size
    BY <1>5
  <2>2. IS_PAGE_ALIGNED(v - va)
    BY <1>5, AlignedSum, Zenon
  <2>3. PICK j \in 0 .. (PAGE_COUNT(size) - 1) : v - va = j * PAGE_SIZE
    BY <2>1, <2>2, PagesOfSize, Zenon
  <2>4. j * PAGE_SIZE \in Nat
    BY PagesOfSize, Zenon
  <2>5. v = va + j * PAGE_SIZE
    BY <2>3, <2>4
  <2> QED BY <1>2, <2>5, Zenon DEF InRange
<1> QED BY <1>2, <1>3, <1>4, <1>5, Zenon DEF Proper, Covers

\* The HHDM is such a block.
LEMMA HhdmBlock == BootBlock(HHDM, 0, MemSize, HhdmFlags)
<1> SUFFICES ASSUME NEW off \in 0 .. (MemSize - 1)
             PROVE  /\ HHDM + off < Top /\ BootMapped(HHDM + off)
                    /\ Wanted(HHDM + off, Entry(0 + off, HhdmFlags))
  BY Zenon DEF BootBlock
<1>1. HHDM \in Nat /\ MemSize \in Nat \ {0} /\ HHDM + MemSize <= Top /\ Top \in Nat
  BY PagingAssumption, AddressAssumption, TopSize, Zenon
<1>2. /\ HHDM + off \in HHDM .. (HHDM + MemSize - 1) /\ HHDM + off < Top
      /\ (HHDM + off) - HHDM = 0 + off
  BY <1>1
<1> QED BY <1>2, Zenon DEF BootMapped, Wanted

\* So is every section.
LEMMA SegmentBlock ==
  ASSUME NEW name \in DOMAIN Segments
  PROVE  /\ BootBlock(Segments[name].start, SegmentPhys(name), Segments[name].end - Segments[name].start,
                      SegmentFlags[name])
         /\ Segments[name].start \in Nat /\ SegmentPhys(name) \in Nat
         /\ Segments[name].end - Segments[name].start \in Nat \ {0}
         /\ IS_PAGE_ALIGNED(Segments[name].start) /\ IS_PAGE_ALIGNED(SegmentPhys(name))
<1> DEFINE a == Segments[name].start
           b == Segments[name].end
<1>1. /\ a \in Nat /\ b \in Nat /\ KernelVirt <= a /\ a < b /\ KernelVirt \in Nat /\ KernelPhys \in Nat
      /\ IS_PAGE_ALIGNED(a) /\ IS_PAGE_ALIGNED(KernelVirt) /\ IS_PAGE_ALIGNED(KernelPhys)
  BY PagingAssumption, Zenon
<1>2. b <= Top /\ Top \in Nat
  BY AddressAssumption, TopSize, Zenon
<1>3. SegmentPhys(name) = (a - KernelVirt) + KernelPhys
  BY Zenon DEF SegmentPhys
<1> HIDE DEF a, b
<1>4. b - a \in Nat \ {0} /\ a - KernelVirt \in Nat
  BY <1>1
<1>5. SegmentPhys(name) \in Nat /\ IS_PAGE_ALIGNED(SegmentPhys(name))
  <2>1. IS_PAGE_ALIGNED(a - KernelVirt)
    BY <1>1, AlignedSum, Zenon
  <2>2. IS_PAGE_ALIGNED((a - KernelVirt) + KernelPhys)
    BY <1>1, <1>4, <2>1, AlignedSum, Zenon
  <2> QED BY <1>1, <1>3, <1>4, <2>2
<1>6. ASSUME NEW off \in 0 .. ((b - a) - 1)
      PROVE  /\ a + off < Top /\ BootMapped(a + off)
             /\ Wanted(a + off, Entry(SegmentPhys(name) + off, SegmentFlags[name]))
  <2>1. /\ a + off \in a .. (b - 1) /\ a + off < Top
        /\ ((a + off) - KernelVirt) + KernelPhys = SegmentPhys(name) + off
    BY <1>1, <1>2, <1>3, <1>4
  <2> QED BY <2>1, Zenon DEF BootMapped, Wanted, a, b
<1> QED BY <1>1, <1>4, <1>5, <1>6, Zenon DEF BootBlock, a, b

\* What paging_init maps: the HHDM and the sections, and nothing of them is left out.
LEMMA BootRangesOf ==
  ASSUME kernel_pml4 \in Pool
  PROVE  /\ BootRanges \in Seq(RangeRecords)
         /\ \A n \in 1 .. Len(BootRanges) :
              BootRanges[n].pml4 = kernel_pml4 /\ Proper("ranges", kernel_pml4, BootRanges[n])
         /\ \A v \in Nat : \A e : IS_PAGE_ALIGNED(v) /\ Wanted(v, e) => Pending(BootRanges, v)
<1> DEFINE k == kernel_pml4
           h == PageRange("map", k, HHDM, 0, MemSize, HhdmFlags)
           Fine(r) == r \in RangeRecords /\ r.pml4 = k /\ Proper("ranges", k, r)
<1>1. Fine(h) /\ Covers(h, HHDM, MemSize)
  <2>1. HHDM \in Nat /\ 0 \in Nat /\ MemSize \in Nat \ {0} /\ IS_PAGE_ALIGNED(HHDM)
    BY PagingAssumption, Zenon
  <2>2. HhdmFlags \in SUBSET Flags /\ "U" \notin HhdmFlags
    BY Zenon DEF HhdmFlags, Flags
  <2>3. IS_PAGE_ALIGNED(0)
    BY Units DEF IS_PAGE_ALIGNED
  <2> QED BY <2>1, <2>2, <2>3, HhdmBlock, BlockRange, Zenon
<1>2. ASSUME NEW name \in {"limine", "text", "rodata", "data"}
      PROVE  /\ Fine(SegmentRange(name))
             /\ Covers(SegmentRange(name), Segments[name].start, Segments[name].end - Segments[name].start)
  <2>1. name \in DOMAIN Segments
    BY PagingAssumption, Zenon
  <2>2. SegmentFlags[name] \in SUBSET Flags /\ "U" \notin SegmentFlags[name]
    BY DEF SegmentFlags, Flags
  <2> DEFINE a == Segments[name].start
             c == SegmentPhys(name)
             d == Segments[name].end - Segments[name].start
             fl == SegmentFlags[name]
  <2>3. /\ a \in Nat /\ c \in Nat /\ d \in Nat \ {0} /\ IS_PAGE_ALIGNED(a) /\ IS_PAGE_ALIGNED(c)
        /\ BootBlock(a, c, d, fl) /\ SegmentRange(name) = PageRange("map", k, a, c, d, fl)
    BY <2>1, SegmentBlock, Zenon DEF SegmentRange
  <2> HIDE DEF a, c, d, fl
  <2>4. fl \in SUBSET Flags /\ "U" \notin fl
    BY <2>2, Zenon DEF fl
  <2>5. Fine(SegmentRange(name)) /\ Covers(SegmentRange(name), a, d)
    BY <2>3, <2>4, BlockRange, Zenon
  <2> QED BY <2>5, Zenon DEF a, d
<1> HIDE DEF Fine
<1>3. /\ BootRanges[1] = h /\ BootRanges[2] = SegmentRange("limine") /\ BootRanges[3] = SegmentRange("text")
      /\ BootRanges[4] = SegmentRange("rodata") /\ BootRanges[5] = SegmentRange("data") /\ Len(BootRanges) = 5
  BY Zenon DEF BootRanges
<1>4. \A n \in 1 .. 5 : n \in {1, 2, 3, 4, 5}
  OBVIOUS
<1> HIDE DEF h
<1>5. \A n \in 1 .. 5 : Fine(BootRanges[n])
  BY <1>1, <1>2, <1>3, <1>4, Zenon
<1>6. BootRanges \in Seq(RangeRecords)
  BY <1>1, <1>2 DEF BootRanges, Fine, h
<1>7. ASSUME NEW v \in Nat, NEW e, IS_PAGE_ALIGNED(v), Wanted(v, e)
      PROVE  Pending(BootRanges, v)
  <2>1. CASE v \in HHDM .. (HHDM + MemSize - 1)
    <3>1. HHDM <= v /\ v < HHDM + MemSize
      BY <2>1, PagingAssumption
    <3>2. InRange(BootRanges[1], v) /\ 1 \in 1 .. Len(BootRanges)
      BY <1>1, <1>3, <1>7, <3>1 DEF Covers
    <3> QED BY <3>2, Zenon DEF Pending
  <2>2. ASSUME NEW name \in DOMAIN Segments, v \in Segments[name].start .. (Segments[name].end - 1)
        PROVE  Pending(BootRanges, v)
    <3>1. /\ name \in {"limine", "text", "rodata", "data"}
          /\ Segments[name].start \in Nat /\ Segments[name].end \in Nat
      BY PagingAssumption, Zenon
    <3>2. /\ Segments[name].start <= v
          /\ v < Segments[name].start + (Segments[name].end - Segments[name].start)
      BY <2>2, <3>1
    <3>3. InRange(SegmentRange(name), v)
      BY <1>2, <1>7, <3>1, <3>2, Zenon DEF Covers
    <3>4. \E n \in 1 .. Len(BootRanges) : BootRanges[n] = SegmentRange(name)
      <4>1. 2 \in 1 .. 5 /\ 3 \in 1 .. 5 /\ 4 \in 1 .. 5 /\ 5 \in 1 .. 5
        OBVIOUS
      <4> QED BY <1>3, <3>1, <4>1, Zenon
    <3> QED BY <3>3, <3>4, Zenon DEF Pending
  <2> QED BY <1>7, <2>1, <2>2, Zenon DEF Wanted
<1> QED BY <1>3, <1>5, <1>6, <1>7, Zenon DEF Fine

\* What is left of a range after a page.
LEMMA NextPageOf ==
  ASSUME NEW r \in RangeRecords, r.pages # 1, NEW ph, NEW k, Proper(ph, k, r), NEW q, q = NextPage(r)
  PROVE  q \in RangeRecords /\ q.pml4 = r.pml4 /\ Proper(ph, k, q)
<1>1. r.va \in Nat /\ r.pa \in Nat /\ r.pages \in Nat \ {0} /\ PAGE_SIZE \in Nat
  BY Units, Zenon DEF RangeRecords
<1>2. /\ q.op = r.op /\ q.pml4 = r.pml4 /\ q.flags = r.flags
      /\ q.va = r.va + PAGE_SIZE /\ q.pa = r.pa + PAGE_SIZE /\ q.pages = r.pages - 1
  BY Zenon DEF NextPage, RangeRecords
<1>4. q \in RangeRecords
  <2> DEFINE a == r.va + PAGE_SIZE
             b == r.pa + PAGE_SIZE
             c == r.pages - 1
  <2>1. a \in Nat /\ b \in Nat /\ c \in Nat \ {0}
    BY <1>1
  <2>2. q = [r EXCEPT !.va = a, !.pa = b, !.pages = c]
    BY Zenon DEF NextPage
  <2> HIDE DEF a, b, c
  <2> QED BY <2>1, <2>2, Zenon DEF RangeRecords
<1>3. ASSUME NEW j \in 0 .. (q.pages - 1)
      PROVE  PageFine(ph, k, q.op, q.pml4, q.va + j * PAGE_SIZE, q.pa + j * PAGE_SIZE, q.flags)
  <2>1. j + 1 \in 0 .. (r.pages - 1)
    BY <1>1, <1>2
  <2>2. /\ q.va + j * PAGE_SIZE = r.va + (j + 1) * PAGE_SIZE
        /\ q.pa + j * PAGE_SIZE = r.pa + (j + 1) * PAGE_SIZE
    BY <1>1, <1>2
  <2> QED BY <1>2, <2>1, <2>2, Zenon DEF Proper
<1>5. Aligned(q.pml4, q.va, q.pa)
  <2>1. IS_PAGE_ALIGNED(r.pml4) /\ IS_PAGE_ALIGNED(r.va) /\ IS_PAGE_ALIGNED(r.pa)
    BY Zenon DEF Proper, Aligned
  <2>2. IS_PAGE_ALIGNED(r.va + PAGE_SIZE) /\ IS_PAGE_ALIGNED(r.pa + PAGE_SIZE)
    BY <1>1, <2>1, AlignedSum, Zenon
  <2> QED BY <1>2, <2>1, <2>2, Zenon DEF Aligned
<1> QED BY <1>2, <1>3, <1>4, <1>5, Zenon DEF Proper

\* What a range call still has to do after a page.
LEMMA RangesLeft ==
  ASSUME NEW lv, NEW ph, NEW k, todo \in Seq(RangeRecords), todo # <<>>,
         \A n \in 1 .. Len(todo) : todo[n].pml4 \in lv /\ Proper(ph, k, todo[n]),
         NEW t, t = IF Head(todo).pages = 1 THEN Tail(todo) ELSE [todo EXCEPT ![1] = NextPage(Head(todo))]
  PROVE  t \in Seq(RangeRecords) /\ \A n \in 1 .. Len(t) : t[n].pml4 \in lv /\ Proper(ph, k, t[n])
<1>1. Len(todo) \in Nat /\ Len(todo) >= 1 /\ Head(todo) = todo[1] /\ todo[1] \in RangeRecords
      /\ todo[1].pml4 \in lv /\ Proper(ph, k, todo[1])
  OBVIOUS
<1>2. CASE Head(todo).pages = 1
  <2>1. t = Tail(todo)
    BY <1>2, Zenon
  <2>2. t \in Seq(RangeRecords) /\ Len(t) = Len(todo) - 1 /\ \A n \in 1 .. Len(t) : t[n] = todo[n + 1]
    BY <1>1, <2>1
  <2>3. \A n \in 1 .. Len(t) : n + 1 \in 1 .. Len(todo)
    BY <1>1, <2>2
  <2> QED BY <2>2, <2>3, Zenon
<1>3. CASE Head(todo).pages # 1
  <2> DEFINE q == NextPage(Head(todo))
  <2>1. q \in RangeRecords /\ q.pml4 = Head(todo).pml4 /\ Proper(ph, k, q)
    BY <1>1, <1>3, NextPageOf, Zenon
  <2> HIDE DEF q
  <2>2. t = [todo EXCEPT ![1] = q]
    BY <1>3, Zenon DEF q
  <2>3. t \in Seq(RangeRecords) /\ Len(t) = Len(todo) /\ t[1] = q
        /\ \A n \in 1 .. Len(todo) : n # 1 => t[n] = todo[n]
    BY <1>1, <2>1, <2>2
  <2> QED BY <1>1, <2>1, <2>3, Zenon
<1> QED BY <1>2, <1>3, Zenon

\* An iteration does the first page, and leaves the others to be done.
LEMMA PendingLeft ==
  ASSUME todo \in Seq(RangeRecords), todo # <<>>, NEW v \in Nat, Pending(todo, v),
         NEW t, t = IF Head(todo).pages = 1 THEN Tail(todo) ELSE [todo EXCEPT ![1] = NextPage(Head(todo))]
  PROVE  v = Head(todo).va \/ Pending(t, v)
<1> DEFINE r == Head(todo)
<1>1. Len(todo) \in Nat \ {0} /\ r = todo[1] /\ r \in RangeRecords
  OBVIOUS
<1>2. r.va \in Nat /\ r.pages \in Nat \ {0} /\ PAGE_SIZE \in Nat \ {0}
  BY <1>1, Units, Zenon DEF RangeRecords
<1>3. PICK n \in 1 .. Len(todo) : InRange(todo[n], v)
  BY Zenon DEF Pending
<1>4. CASE n = 1
  <2>1. PICK j \in 0 .. (r.pages - 1) : v = r.va + j * PAGE_SIZE
    BY <1>1, <1>3, <1>4, Zenon DEF InRange
  <2>2. CASE j = 0
    BY <1>2, <2>1, <2>2
  <2>3. CASE j # 0
    <3>1. r.pages # 1 /\ j - 1 \in 0 .. ((r.pages - 1) - 1)
      BY <1>2, <2>3
    <3>2. t = [todo EXCEPT ![1] = NextPage(r)]
      BY <3>1, Zenon
    <3>3. Len(t) = Len(todo) /\ t[1] = NextPage(r)
      BY <1>1, <3>2
    <3>4. t[1].va = r.va + PAGE_SIZE /\ t[1].pages = r.pages - 1
      BY <1>1, <3>3, Zenon DEF NextPage, RangeRecords
    <3>5. v = (r.va + PAGE_SIZE) + (j - 1) * PAGE_SIZE
      BY <1>2, <2>1
    <3>6. InRange(t[1], v)
      BY <3>1, <3>4, <3>5, Zenon DEF InRange
    <3>7. 1 \in 1 .. Len(t)
      BY <1>1, <3>3
    <3> QED BY <3>6, <3>7, Zenon DEF Pending
  <2> QED BY <2>2, <2>3, Zenon
<1>5. CASE n # 1
  <2>1. CASE r.pages = 1
    <3>1. t = Tail(todo)
      BY <2>1, Zenon
    <3>2. n - 1 \in 1 .. Len(t) /\ t[n - 1] = todo[n]
      BY <1>1, <1>5, <3>1
    <3> QED BY <1>3, <3>2, Zenon DEF Pending
  <2>2. CASE r.pages # 1
    <3>1. t = [todo EXCEPT ![1] = NextPage(r)]
      BY <2>2, Zenon
    <3>2. n \in 1 .. Len(t) /\ t[n] = todo[n]
      BY <1>1, <1>5, <3>1
    <3> QED BY <1>3, <3>2, Zenon DEF Pending
  <2> QED BY <2>1, <2>2, Zenon
<1> QED BY <1>4, <1>5, Zenon

\* After a panic less is asked of the ranges.
LEMMA ProperPanic ==
  ASSUME NEW ph, NEW ph2 \in {ph, "panic"}, NEW k, NEW r, Proper(ph, k, r)
  PROVE  Proper(ph2, k, r)
BY Zenon DEF Proper, PageFine

\* A page that a caller may change.
LEMMA CallFine ==
  ASSUME NEW va \in Nat, va < Top, NEW flags, MayChange(va, flags), NEW k, NEW op, NEW p, NEW pa
  PROVE  PageFine("up", k, op, p, va, pa, flags)
<1>1. IsUser(va) => ~BootMapped(va)
  <2>1. va \in 0 .. (Top - 1)
    BY TopSize
  <2> QED BY <2>1, AddressAssumption, Zenon
<1> QED BY <1>1, Zenon DEF MayChange, PageFine

-------------------------------------------------------------------------------
(* The walk of the processor *)

AtMostOne(S) == \A x \in S, y \in S : x = y

\* One entry leads to one entry at most.
LEMMA OneBelow ==
  ASSUME NEW m, NEW es, NEW i, AtMostOne(es)
  PROVE  AtMostOne(Below(m, es, i))
BY Zenon DEF AtMostOne, Below

\* e is the one entry that the processor finds, with some of its rights.
Single(m, p, va, e) ==
  /\ Translate(m, p, va) = {e}
  /\ \E l, fl : PtEntries(m, p, va) = {l} /\ Present(l) /\ e = Entry(l.addr, fl)

\* The processor finds one entry at most.
LEMMA OneFound ==
  ASSUME NEW m, NEW p, NEW va, NEW e \in Translate(m, p, va)
  PROVE  Single(m, p, va, e)
<1> DEFINE Filtered(l) ==
             Entry(l.addr,
               {f \in l.flags : f \in {"W", "U"} =>
                  \A g \in Pml4Entries(m, p, va) \cup PdptEntries(m, p, va) \cup PdEntries(m, p, va) : f \in g.flags})
<1>1. Translate(m, p, va) = {Filtered(l) : l \in {x \in PtEntries(m, p, va) : Present(x)}}
  BY Zenon DEF Translate, PtEntries, PdEntries, PdptEntries
<1>2. AtMostOne(Pml4Entries(m, p, va))
  BY Zenon DEF AtMostOne, Pml4Entries
<1>3. AtMostOne(PdptEntries(m, p, va))
  BY <1>2, OneBelow, Zenon DEF PdptEntries
<1>4. AtMostOne(PdEntries(m, p, va))
  BY <1>3, OneBelow, Zenon DEF PdEntries
<1>5. AtMostOne(PtEntries(m, p, va))
  BY <1>4, OneBelow, Zenon DEF PtEntries
<1>6. PICK l \in PtEntries(m, p, va) : Present(l) /\ e = Filtered(l)
  BY <1>1, Zenon
<1>7. PtEntries(m, p, va) = {l}
  BY <1>5, <1>6, Zenon DEF AtMostOne
<1>8. \E fl : e = Entry(l.addr, fl)
  BY <1>6, Zenon
<1> HIDE DEF Filtered
<1>9. Translate(m, p, va) = {e}
  BY <1>1, <1>6, <1>7, Zenon
<1> QED BY <1>6, <1>7, <1>8, <1>9, Zenon DEF Single

\* It is the translation.
LEMMA TranslateOne ==
  ASSUME NEW m, NEW p, NEW va, NEW e \in Translate(m, p, va)
  PROVE  Translate(m, p, va) = {Entry(e.addr, e.flags)}
<1>0. Single(m, p, va, e)
  BY OneFound, Zenon
<1>1. PICK l, fl : e = Entry(l.addr, fl)
  BY <1>0, Zenon DEF Single
<1>2. e = Entry(e.addr, e.flags)
  BY <1>1 DEF Entry
<1> QED BY <1>0, <1>2, Zenon DEF Single

\* paging_get_physical returns what the processor uses.
LEMMA PhysicalIs ==
  ASSUME NEW m, NEW p, NEW va, NEW e \in Translate(m, p, va)
  PROVE  paging_get_physical(m, p, va) = e.addr + (va % PAGE_SIZE)
<1>0. Single(m, p, va, e)
  BY OneFound, Zenon
<1>1. PICK l, fl : PtEntries(m, p, va) = {l} /\ Present(l) /\ e = Entry(l.addr, fl)
  BY <1>0, Zenon DEF Single
<1>2. {x \in PtEntries(m, p, va) : Present(x)} = {l}
  BY <1>1, Zenon
<1>3. (CHOOSE x \in {l} : TRUE) = l
  BY Zenon
<1>4. paging_get_physical(m, p, va) = l.addr + (va % PAGE_SIZE)
  BY <1>2, <1>3, Zenon DEF paging_get_physical
<1>5. e.addr = l.addr
  BY <1>1 DEF Entry
<1> QED BY <1>4, <1>5, Zenon

-------------------------------------------------------------------------------
(* What a step does to the views: it may add address spaces, map or unmap one page, or
   leave the tables alone. *)

\* Two pages with the same tables and index are one.
LEMMA OnePage ==
  ASSUME NEW p, NEW va \in Nat, NEW q, NEW vb \in Nat, SamePage(p, va, q, vb),
         va < Top, vb < Top, IS_PAGE_ALIGNED(va), IS_PAGE_ALIGNED(vb)
  PROVE  va = vb
BY SamePlace, Zenon DEF SamePage

\* What a range call or a call of paging_map or paging_unmap makes of a page.
Asked(op, pa, flags) == IF op = "map" THEN Shown(Entry(pa, flags)) ELSE {}

\* New address spaces show nothing of their own, the others what they showed.
Grown ==
  /\ live \subseteq live' /\ SameView(mem, mem', live)
  /\ \A p \in live' \ live, va \in Nat : IsUser(va) \/ live = {} => Translate(mem', p, va) = {}

GrowStep ==
  /\ Grown /\ UNCHANGED <<cr3, nxe, tlb>>
  /\ phase \in {"boot", "tables", "up"} /\ phase' \in {phase, "tables", "panic"}
  /\ live # {} => kernel_pml4' = kernel_pml4

\* The page of va in p; in paging_init it is one of those still to be mapped.
PageStep(p, va, op, pa, flags) ==
  /\ p \in live /\ va \in Nat /\ pa \in Nat /\ phase \in {"ranges", "up"}
  /\ ViewChange(p, va, Asked(op, pa, flags)) /\ PageFine(phase, kernel_pml4, op, p, va, pa, flags)
  /\ UNCHANGED <<live, kernel_pml4, cr3, nxe>> /\ phase' \in {phase, "panic"}
  /\ phase = "ranges" => /\ phase' # "panic" => Changed(mem, mem', live, p, va, Shown(Entry(pa, flags)))
                         /\ \A v \in Nat : Pending(todo, v) => v = va \/ Pending(todo', v)

\* What the processor does with its cache while the tables stay as they are.
CacheStep ==
  \/ UNCHANGED <<cr3, tlb>> /\ (cr3 \in live => cr3 \in live')
  \/ \E p \in live' : LoadCr3(p)
  \/ cr3' = cr3 /\ live' = live /\ \E va \in TlbPages : TlbFill(va)

StillStep ==
  /\ mem' = mem /\ live' \subseteq live /\ (live # {} => live' # {}) /\ kernel_pml4' = kernel_pml4
  /\ CacheStep
  /\ \/ nxe' = nxe /\ phase' \in {phase, "panic"} /\ (phase = "ranges" => todo' = todo)
     \/ InitRanges /\ \A v \in Nat : \A e : IS_PAGE_ALIGNED(v) /\ Wanted(v, e) => Pending(todo', v)
     \/ InitSnapshot
     \/ InitSwitch

-------------------------------------------------------------------------------
(* What the processor sees *)

\* The kernel's PML4 is one of the address spaces, and they share the kernel half.
Shared ==
  /\ live # {} => kernel_pml4 \in live
  /\ phase = "up" => live # {}
  /\ phase = "switch" => live = {kernel_pml4}
  /\ \A p \in live, q \in live, va \in Nat : ~IsUser(va) => Translate(mem, p, va) = Translate(mem, q, va)

\* User pages are not global.
NoGlobals ==
  \A p \in live, va \in Nat : IsUser(va) => \A e \in Translate(mem, p, va) : "G" \notin e.flags

\* The processor runs on an address space that exists.
Runs == phase = "up" \/ tlb # {} => cr3 \in live

\* Every page wanted by paging_init is mapped as it is wanted, or still to be mapped.
Booted ==
  phase \in {"ranges", "switch", "up"} =>
    \A v \in Nat : \A e :
      IS_PAGE_ALIGNED(v) /\ Wanted(v, e) =>
        \/ Translate(mem, kernel_pml4, v) = {e}
        \/ phase = "ranges" /\ Pending(todo, v)

ViewInv ==
  /\ NoGlobals /\ Runs /\ Booted /\ TlbCoherent
  /\ \A e \in tlb : e.va \in TlbPages
  /\ phase \in {"switch", "up"} => nxe

\* Address spaces are added.
LEMMA GrowViews ==
  ASSUME Shared, ViewInv, GrowStep
  PROVE  ViewInv'
<1>1. /\ live \subseteq live' /\ SameView(mem, mem', live) /\ UNCHANGED <<cr3, nxe, tlb>>
      /\ \A p \in live' \ live, va \in Nat : IsUser(va) \/ live = {} => Translate(mem', p, va) = {}
      /\ phase \in {"boot", "tables", "up"} /\ phase' \in {phase, "tables", "panic"}
      /\ live # {} => kernel_pml4' = kernel_pml4
  BY Zenon DEF GrowStep, Grown
<1>2. NoGlobals'
  <2> SUFFICES ASSUME NEW p \in live', NEW va \in Nat, IsUser(va), NEW e \in Translate(mem', p, va)
               PROVE  "G" \notin e.flags
    BY Zenon DEF NoGlobals
  <2>1. p \in live /\ Translate(mem', p, va) = Translate(mem, p, va)
    BY <1>1, Zenon DEF SameView
  <2> QED BY <2>1, Zenon DEF ViewInv, NoGlobals
<1>3. Runs'
  BY <1>1, Zenon DEF ViewInv, Runs
<1>4. Booted'
  <2>1. CASE phase' \in {"ranges", "switch", "up"}
    <3>1. phase = "up" /\ phase' = "up"
      BY <1>1, <2>1, Zenon
    <3>2. kernel_pml4 \in live /\ kernel_pml4' = kernel_pml4
      BY <1>1, <3>1, Zenon DEF Shared
    <3> QED BY <1>1, <3>1, <3>2, Zenon DEF Booted, ViewInv, SameView
  <2> QED BY <2>1, Zenon DEF Booted
<1>5. TlbCoherent'
  <2> SUFFICES ASSUME NEW e \in tlb PROVE Translate(mem', cr3, e.va) = {Entry(e.addr, e.flags)}
    BY <1>1, Zenon DEF TlbCoherent
  <2>1. cr3 \in live /\ e.va \in Nat
    BY PagingAssumption, Zenon DEF ViewInv, Runs
  <2> QED BY <1>1, <2>1, Zenon DEF ViewInv, TlbCoherent, SameView
<1> QED BY <1>1, <1>2, <1>3, <1>4, <1>5, Zenon DEF ViewInv

\* The tables stay as they are.
LEMMA StillViews ==
  ASSUME Shared, ViewInv, StillStep
  PROVE  ViewInv'
<1>1. /\ mem' = mem /\ live' \subseteq live /\ (live # {} => live' # {}) /\ kernel_pml4' = kernel_pml4 /\ CacheStep
      /\ \/ nxe' = nxe /\ phase' \in {phase, "panic"} /\ (phase = "ranges" => todo' = todo)
         \/ InitRanges /\ \A v \in Nat : \A e : IS_PAGE_ALIGNED(v) /\ Wanted(v, e) => Pending(todo', v)
         \/ InitSnapshot \/ InitSwitch
  BY Zenon DEF StillStep
<1>2. NoGlobals'
  BY <1>1, Zenon DEF NoGlobals, ViewInv
<1>3. phase' \in {"switch", "up"} => nxe'
  <2>1. phase \in {"switch", "up"} => nxe
    BY Zenon DEF ViewInv
  <2>2. \/ nxe' = nxe /\ phase' \in {phase, "panic"}
        \/ phase' = "ranges"
        \/ nxe'
        \/ nxe' = nxe /\ phase = "switch"
    BY <1>1, Zenon DEF InitRanges, InitSnapshot, InitSwitch
  <2> QED BY <2>1, <2>2, Zenon
<1>4. Booted'
  <2>1. CASE nxe' = nxe /\ phase' \in {phase, "panic"} /\ (phase = "ranges" => todo' = todo)
    BY <1>1, <2>1, Zenon DEF Booted, ViewInv
  <2>2. CASE InitRanges /\ \A v \in Nat : \A e : IS_PAGE_ALIGNED(v) /\ Wanted(v, e) => Pending(todo', v)
    <3>1. phase' = "ranges"
      BY <2>2, Zenon DEF InitRanges
    <3> QED BY <2>2, <3>1, Zenon DEF Booted
  <2>3. CASE InitSnapshot
    <3>1. todo = <<>>
      BY <2>3, Zenon DEF InitSnapshot
    <3>2. \A v : ~Pending(todo, v)
      BY <3>1 DEF Pending
    <3> QED BY <1>1, <2>3, <3>2, Zenon DEF Booted, ViewInv, InitSnapshot
  <2>4. CASE InitSwitch
    BY <1>1, <2>4, Zenon DEF Booted, ViewInv, InitSwitch
  <2> QED BY <1>1, <2>1, <2>2, <2>3, <2>4, Zenon
<1>5. CASE UNCHANGED <<cr3, tlb>> /\ (cr3 \in live => cr3 \in live')
  <2>1. TlbCoherent' /\ \A e \in tlb' : e.va \in TlbPages
    BY <1>1, <1>5, Zenon DEF TlbCoherent, ViewInv
  <2>2. Runs'
    <3>1. phase' = "up" => phase = "up" \/ InitSwitch
      BY <1>1, Zenon DEF InitRanges, InitSnapshot
    <3>2. InitSwitch => cr3 \in live
      <4>1. InitSwitch => cr3' = kernel_pml4 /\ live = {kernel_pml4}
        BY Zenon DEF InitSwitch, LoadCr3, Shared
      <4> QED BY <1>5, <4>1, Zenon
    <3> QED BY <1>5, <3>1, <3>2, Zenon DEF Runs, ViewInv
  <2> QED BY <1>2, <1>3, <1>4, <2>1, <2>2, Zenon DEF ViewInv
<1>6. ASSUME NEW p \in live', LoadCr3(p) PROVE ViewInv'
  <2>1. cr3' = p /\ tlb' = {e \in tlb : "G" \in e.flags}
    BY <1>6, Zenon DEF LoadCr3
  <2>2. ASSUME NEW e \in tlb'
        PROVE  e.va \in TlbPages /\ Translate(mem, p, e.va) = {Entry(e.addr, e.flags)}
    <3>1. e \in tlb /\ "G" \in e.flags
      BY <2>1, Zenon
    <3>2. /\ e.va \in TlbPages /\ e.va \in Nat /\ cr3 \in live
          /\ Translate(mem, cr3, e.va) = {Entry(e.addr, e.flags)}
      BY <3>1, PagingAssumption, Zenon DEF ViewInv, Runs, TlbCoherent
    <3>3. ~IsUser(e.va)
      <4>1. Entry(e.addr, e.flags) \in Translate(mem, cr3, e.va) /\ "G" \in Entry(e.addr, e.flags).flags
        BY <3>1, <3>2 DEF Entry
      <4> QED BY <3>2, <4>1, Zenon DEF ViewInv, NoGlobals
    <3>4. p \in live
      BY <1>1, Zenon
    <3> QED BY <3>2, <3>3, <3>4, Zenon DEF Shared
  <2>3. TlbCoherent'
    BY <1>1, <2>1, <2>2, Zenon DEF TlbCoherent
  <2>4. Runs'
    BY <2>1, Zenon DEF Runs
  <2> QED BY <1>2, <1>3, <1>4, <2>2, <2>3, <2>4, Zenon DEF ViewInv
<1>7. ASSUME cr3' = cr3, live' = live, NEW va \in TlbPages, TlbFill(va) PROVE ViewInv'
  <2>1. phase = "up" /\ phase' = "up"
    BY <1>7, Zenon DEF TlbFill
  <2>2. PICK e \in Translate(mem, cr3, va) : tlb' = tlb \cup {[va |-> va, addr |-> e.addr, flags |-> e.flags]}
    BY <1>7, Zenon DEF TlbFill
  <2>3. Translate(mem, cr3, va) = {Entry(e.addr, e.flags)}
    BY TranslateOne, Zenon
  <2> DEFINE new == [va |-> va, addr |-> e.addr, flags |-> e.flags]
  <2>4. new.va = va /\ new.addr = e.addr /\ new.flags = e.flags
    BY Zenon
  <2> HIDE DEF new
  <2>5. ASSUME NEW f \in tlb' PROVE f.va \in TlbPages /\ Translate(mem, cr3, f.va) = {Entry(f.addr, f.flags)}
    <3>1. f \in tlb \/ f = new
      BY <2>2, Zenon DEF new
    <3>2. CASE f \in tlb
      BY <3>2, Zenon DEF ViewInv, TlbCoherent
    <3>3. CASE f = new
      BY <2>3, <2>4, <3>3, Zenon
    <3> QED BY <3>1, <3>2, <3>3, Zenon
  <2>6. TlbCoherent'
    BY <1>1, <1>7, <2>5, Zenon DEF TlbCoherent
  <2>7. Runs'
    BY <1>7, <2>1, Zenon DEF Runs, ViewInv
  <2> QED BY <1>2, <1>3, <1>4, <2>5, <2>6, <2>7, Zenon DEF ViewInv
<1> QED BY <1>1, <1>5, <1>6, <1>7, Zenon DEF CacheStep

\* A page is mapped or unmapped: the others keep their translations.
LEMMA PageViews ==
  ASSUME Shared, ViewInv, NEW p, NEW va, NEW op, NEW pa, NEW flags, PageStep(p, va, op, pa, flags)
  PROVE  ViewInv'
<1> DEFINE new == Asked(op, pa, flags)
<1>1. /\ p \in live /\ va \in Nat /\ pa \in Nat /\ phase \in {"ranges", "up"}
      /\ ViewChange(p, va, new) /\ PageFine(phase, kernel_pml4, op, p, va, pa, flags)
      /\ UNCHANGED <<live, kernel_pml4, cr3, nxe>> /\ phase' \in {phase, "panic"}
      /\ phase = "ranges" => /\ phase' # "panic" => Changed(mem, mem', live, p, va, Shown(Entry(pa, flags)))
                             /\ \A v \in Nat : Pending(todo, v) => v = va \/ Pending(todo', v)
  BY Zenon DEF PageStep
<1>2. /\ phase' \in {phase, "panic"} /\ va < Top
      /\ \/ SameView(mem, mem', live) /\ tlb' = tlb
         \/ Changed(mem, mem', live, p, va, new) /\ tlb' = Invalidate(va) /\ IS_PAGE_ALIGNED(va)
  BY <1>1, Zenon DEF ViewChange, PageFine
<1>3. tlb' \subseteq tlb
  BY <1>2, Zenon DEF Invalidate
<1>4. NoGlobals'
  <2> SUFFICES ASSUME NEW q \in live, NEW vb \in Nat, IsUser(vb), NEW e \in Translate(mem', q, vb)
               PROVE  "G" \notin e.flags
    BY <1>1, Zenon DEF NoGlobals
  <2>1. CASE e \in Translate(mem, q, vb)
    BY <2>1, Zenon DEF ViewInv, NoGlobals
  <2>2. CASE e \notin Translate(mem, q, vb)
    <3>1. SamePage(p, va, q, vb) /\ e \in new
      BY <1>2, <2>2, Zenon DEF SameView, Changed
    <3>2. e = Entry(pa, flags)
      BY <3>1, Zenon DEF Asked, Shown
    <3>3. IsUser(va)
      BY <3>1, Zenon DEF SamePage, SamePt, IsUser
    <3>4. "G" \notin flags
      BY <1>1, <3>3, Zenon DEF PageFine
    <3> QED BY <3>2, <3>4 DEF Entry
  <2> QED BY <2>1, <2>2, Zenon
<1>5. Runs'
  BY <1>1, <1>2, <1>3, Zenon DEF Runs, ViewInv
<1>6. TlbCoherent'
  <2> SUFFICES ASSUME NEW e \in tlb' PROVE Translate(mem', cr3, e.va) = {Entry(e.addr, e.flags)}
    BY <1>1, Zenon DEF TlbCoherent
  <2>1. e \in tlb
    BY <1>3, Zenon
  <2>2. e.va \in TlbPages /\ cr3 \in live /\ Translate(mem, cr3, e.va) = {Entry(e.addr, e.flags)}
    BY <2>1, Zenon DEF ViewInv, Runs, TlbCoherent
  <2>3. e.va \in Nat /\ e.va < Top /\ IS_PAGE_ALIGNED(e.va)
    BY <2>2, PagingAssumption, AddressAssumption, Zenon
  <2>4. Translate(mem', cr3, e.va) = Translate(mem, cr3, e.va)
    <3>1. CASE SameView(mem, mem', live)
      BY <2>2, <2>3, <3>1, Zenon DEF SameView
    <3>2. CASE Changed(mem, mem', live, p, va, new) /\ tlb' = Invalidate(va) /\ IS_PAGE_ALIGNED(va)
      <4>1. e.va # va
        BY <3>2, Zenon DEF Invalidate
      <4>2. ~SamePage(p, va, cr3, e.va)
        BY <1>1, <1>2, <2>3, <3>2, <4>1, OnePage, Zenon
      <4> QED BY <2>2, <2>3, <3>2, <4>2, Zenon DEF Changed
    <3> QED BY <1>2, <3>1, <3>2, Zenon
  <2> QED BY <2>2, <2>4, Zenon
<1>7. kernel_pml4 \in live
  BY <1>1, Zenon DEF Shared
<1>8. ASSUME phase' = phase, NEW v \in Nat, NEW e, IS_PAGE_ALIGNED(v), Wanted(v, e)
      PROVE  Translate(mem', kernel_pml4, v) = {e} \/ (phase = "ranges" /\ Pending(todo', v))
  <2>1. v < Top /\ BootMapped(v) /\ ~IsUser(v) /\ Present(e)
    BY <1>8, WantedPage, Zenon
  <2>2. Translate(mem, kernel_pml4, v) = {e} \/ (phase = "ranges" /\ Pending(todo, v))
    BY <1>1, <1>8, Zenon DEF ViewInv, Booted
  <2>3. CASE v = va
    <3>1. phase = "ranges" /\ op = "map" /\ p = kernel_pml4 /\ Wanted(va, Entry(pa, flags))
      BY <1>1, <2>1, <2>3, Zenon DEF PageFine
    <3>2. e = Entry(pa, flags)
      BY <1>8, <2>3, <3>1, WantedOnce, Zenon
    <3>3. Changed(mem, mem', live, p, va, Shown(e))
      BY <1>1, <1>8, <3>1, <3>2, Zenon
    <3>4. SamePage(p, va, kernel_pml4, v)
      BY <2>3, <3>1, Zenon DEF SamePage, SamePt
    <3>5. Translate(mem', kernel_pml4, v) = Shown(e)
      BY <1>7, <3>3, <3>4, Zenon DEF Changed
    <3> QED BY <2>1, <3>5, Zenon DEF Shown
  <2>4. CASE v # va
    <3>1. Translate(mem', kernel_pml4, v) = Translate(mem, kernel_pml4, v)
      <4>1. CASE SameView(mem, mem', live)
        BY <1>7, <4>1, Zenon DEF SameView
      <4>2. CASE Changed(mem, mem', live, p, va, new) /\ IS_PAGE_ALIGNED(va)
        <5>1. ~SamePage(p, va, kernel_pml4, v)
          BY <1>1, <1>2, <1>8, <2>1, <2>4, <4>2, OnePage, Zenon
        <5> QED BY <1>7, <4>2, <5>1, Zenon DEF Changed
      <4> QED BY <1>2, <4>1, <4>2, Zenon
    <3>2. phase = "ranges" /\ Pending(todo, v) => Pending(todo', v)
      BY <1>1, <2>4, Zenon
    <3> QED BY <2>2, <3>1, <3>2, Zenon
  <2> QED BY <2>3, <2>4, Zenon
<1>9. Booted'
  <2>1. phase' \in {"ranges", "switch", "up"} => phase' = phase
    BY <1>2, Zenon
  <2> QED BY <1>1, <1>8, <2>1, Zenon DEF Booted
<1> QED BY <1>1, <1>2, <1>3, <1>4, <1>5, <1>6, <1>9, Zenon DEF ViewInv

\* A page that paging_init mapped is found in every address space.
LEMMA StillMapped ==
  ASSUME Shared, ViewInv, phase = "up", NEW p \in live, NEW v \in Nat, IS_PAGE_ALIGNED(v),
         NEW pa \in Nat, NEW flags, Wanted(v, Entry(pa, flags))
  PROVE  paging_get_physical(mem, p, v) = pa /\ \A e \in Translate(mem, p, v) : e.flags = flags
<1> DEFINE w == Entry(pa, flags)
<1>1. w.addr = pa /\ w.flags = flags
  BY DEF Entry
<1>2. ~IsUser(v) /\ kernel_pml4 \in live
  BY WantedPage, Zenon DEF Shared
<1> HIDE DEF w
<1>3. Translate(mem, kernel_pml4, v) = {w}
  BY Zenon DEF ViewInv, Booted, w
<1>4. Translate(mem, p, v) = {w}
  BY <1>2, <1>3, Zenon DEF Shared
<1>5. w \in Translate(mem, p, v)
  BY <1>4, Zenon
<1>6. paging_get_physical(mem, p, v) = w.addr + (v % PAGE_SIZE)
  BY <1>5, PhysicalIs, Zenon
<1>7. v % PAGE_SIZE = 0
  BY Zenon DEF IS_PAGE_ALIGNED
<1>8. paging_get_physical(mem, p, v) = pa
  BY <1>1, <1>6, <1>7
<1> QED BY <1>1, <1>4, <1>8, Zenon

\* KernelAlwaysMapped follows from the view.
LEMMA ViewMapsKernel ==
  ASSUME Shared, ViewInv
  PROVE  KernelAlwaysMapped
<1> SUFFICES ASSUME phase = "up" PROVE KernelAlwaysMapped
  BY Zenon DEF KernelAlwaysMapped
<1> DEFINE Sees(p, va, pa, rights) ==
             /\ paging_get_physical(mem, p, va) = pa
             /\ \A e \in Translate(mem, p, va) : e.flags \cap {"W", "U", "NX"} = rights
           PagesOf(name) == {va \in Segments[name].start .. (Segments[name].end - 1) : IS_PAGE_ALIGNED(va)}
           SegmentRights(name) == CASE name = "text" -> {} [] name = "data" -> {"W", "NX"} [] OTHER -> {"NX"}
<1>1. ASSUME NEW p \in live, NEW f \in Frames PROVE Sees(p, HHDM + f, f, {"W", "NX"})
  <2>1. f \in 0 .. (MemSize - 1) /\ IS_PAGE_ALIGNED(f) /\ HHDM \in Nat /\ IS_PAGE_ALIGNED(HHDM) /\ MemSize \in Nat
    BY PagingAssumption, Zenon DEF Frames
  <2>2. f \in Nat /\ HHDM + f \in Nat /\ HHDM + f \in HHDM .. (HHDM + MemSize - 1) /\ (HHDM + f) - HHDM = f
    BY <2>1
  <2>3. IS_PAGE_ALIGNED(HHDM + f)
    BY <2>1, <2>2, AlignedSum, Zenon
  <2>4. Wanted(HHDM + f, Entry(f, HhdmFlags))
    BY <2>2, Zenon DEF Wanted
  <2>5. /\ paging_get_physical(mem, p, HHDM + f) = f
        /\ \A e \in Translate(mem, p, HHDM + f) : e.flags = HhdmFlags
    BY <2>2, <2>3, <2>4, StillMapped, Zenon
  <2>6. HhdmFlags \cap {"W", "U", "NX"} = {"W", "NX"}
    BY DEF HhdmFlags
  <2> QED BY <2>5, <2>6, Zenon
<1>2. ASSUME NEW p \in live, NEW name \in DOMAIN Segments, NEW va \in PagesOf(name)
      PROVE  Sees(p, va, (va - KernelVirt) + KernelPhys, SegmentRights(name))
  <2>1. /\ Segments[name].start \in Nat /\ Segments[name].end \in Nat /\ KernelVirt <= Segments[name].start
        /\ KernelVirt \in Nat /\ KernelPhys \in Nat /\ DOMAIN Segments = {"limine", "text", "rodata", "data"}
        /\ va \in Segments[name].start .. (Segments[name].end - 1) /\ IS_PAGE_ALIGNED(va)
    BY PagingAssumption, Zenon
  <2>2. va \in Nat /\ (va - KernelVirt) + KernelPhys \in Nat
    BY <2>1
  <2>3. Wanted(va, Entry((va - KernelVirt) + KernelPhys, SegmentFlags[name]))
    BY <2>1, Zenon DEF Wanted
  <2>4. /\ paging_get_physical(mem, p, va) = (va - KernelVirt) + KernelPhys
        /\ \A e \in Translate(mem, p, va) : e.flags = SegmentFlags[name]
    BY <2>1, <2>2, <2>3, StillMapped, Zenon
  <2>5. SegmentFlags[name] \cap {"W", "U", "NX"} = SegmentRights(name)
    BY <2>1 DEF SegmentFlags
  <2> QED BY <2>4, <2>5, Zenon
<1>3. nxe
  BY Zenon DEF ViewInv
<1> QED BY <1>1, <1>2, <1>3, Zenon DEF KernelAlwaysMapped

\* The kernel half of every address space is that of the kernel's.
LEMMA HalvesAgree ==
  ASSUME Shared
  PROVE  KernelHalfShared
<1> SUFFICES ASSUME phase = "up", NEW p \in live, NEW va \in KernelPages
             PROVE  Translate(mem, p, va) = Translate(mem, kernel_pml4, va)
  BY Zenon DEF KernelHalfShared
<1>1. va \in Nat /\ ~IsUser(va)
  BY PagingAssumption, Zenon DEF KernelPages, UserPages
<1>2. kernel_pml4 \in live
  BY Zenon DEF Shared
<1> QED BY <1>1, <1>2, Zenon DEF Shared

-------------------------------------------------------------------------------
(* The tables implement AddressSpaces *)

UserView == [p \in live |-> [va \in UserPages |-> Translate(mem, p, va)]]

\* The pages that the properties watch.
LEMMA WatchedPages ==
  /\ \A va \in UserPages : va \in Nat /\ va < Top /\ IS_PAGE_ALIGNED(va) /\ IsUser(va)
  /\ \A va \in KernelPages : va \in Nat /\ va < Top /\ IS_PAGE_ALIGNED(va) /\ ~IsUser(va)
BY PagingAssumption, AddressAssumption, Zenon DEF UserPages, KernelPages

\* What the abstract variables change.
LEMMA ChangesAre ==
  /\ \A c : c \in AS!UserChanges <=>
       \E p \in live \cap live', va \in UserPages :
         c = <<p, va>> /\ Translate(mem', p, va) # Translate(mem, p, va)
  /\ \A va : va \in AS!KernelChanges <=> va \in KernelPages /\ KernelView'[va] # KernelView[va]
  /\ AS!asVars = <<live, UserView, KernelView>>
<1>1. AS!asVars = <<live, UserView, KernelView>>
  BY Zenon DEF AS!asVars, UserView
<1>2. AS!UserChanges = {c \in (live \cap live') \X UserPages : UserView'[c[1]][c[2]] # UserView[c[1]][c[2]]}
  BY Zenon DEF AS!UserChanges, UserView
<1>3. \A p \in live \cap live', va \in UserPages :
        UserView'[p][va] = Translate(mem', p, va) /\ UserView[p][va] = Translate(mem, p, va)
  BY Zenon DEF UserView
<1>4. ASSUME NEW c, c \in AS!UserChanges
      PROVE  \E p \in live \cap live', va \in UserPages :
               c = <<p, va>> /\ Translate(mem', p, va) # Translate(mem, p, va)
  <2>1. PICK p \in live \cap live', va \in UserPages : c = <<p, va>> /\ UserView'[c[1]][c[2]] # UserView[c[1]][c[2]]
    BY <1>2, <1>4
  <2>2. c[1] = p /\ c[2] = va
    BY <2>1
  <2> QED BY <1>3, <2>1, <2>2, Zenon
<1>5. ASSUME NEW c, NEW p \in live \cap live', NEW va \in UserPages,
             c = <<p, va>>, Translate(mem', p, va) # Translate(mem, p, va)
      PROVE  c \in AS!UserChanges
  <2>1. c \in (live \cap live') \X UserPages /\ c[1] = p /\ c[2] = va
    BY <1>5
  <2>2. UserView'[p][va] = Translate(mem', p, va) /\ UserView[p][va] = Translate(mem, p, va)
    BY <1>3, Zenon
  <2>3. UserView'[p][va] # UserView[p][va]
    BY <1>5, <2>2, Zenon
  <2>4. UserView'[c[1]][c[2]] # UserView[c[1]][c[2]]
    BY <2>1, <2>3, Zenon
  <2> QED BY <1>2, <2>1, <2>4, Zenon
<1>6. \A va : va \in AS!KernelChanges <=> va \in KernelPages /\ KernelView'[va] # KernelView[va]
  BY Zenon DEF AS!KernelChanges
<1> QED BY <1>1, <1>4, <1>5, <1>6, Zenon

\* Nothing changes in the address spaces that were there.
Undisturbed == AS!UserChanges = {} /\ AS!KernelChanges = {}

\* Then, if they are the same, the step is invisible.
LEMMA Stutter ==
  ASSUME Undisturbed, live' = live
  PROVE  UNCHANGED AS!asVars
<1>1. \A p \in live, va \in UserPages : Translate(mem', p, va) = Translate(mem, p, va)
  BY ChangesAre, Zenon DEF Undisturbed
<1>2. UserView' = UserView
  BY <1>1, Zenon DEF UserView
<1>3. \A va \in KernelPages : KernelView'[va] = KernelView[va]
  BY ChangesAre, Zenon DEF Undisturbed
<1>4. KernelView' = KernelView
  BY <1>3 DEF KernelView
<1>5. AS!asVars = <<live, UserView, KernelView>> /\ (AS!asVars)' = <<live, UserView, KernelView>>'
  BY Zenon DEF AS!asVars, UserView
<1> QED BY <1>2, <1>4, <1>5, Zenon

\* Spaces that come show nothing of their own.
LEMMA CreateOrStutter ==
  ASSUME Undisturbed, live \subseteq live',
         \A p \in live' \ live, va \in UserPages : Translate(mem', p, va) = {}
  PROVE  [AS!ASNext]_(AS!asVars)
<1>1. CASE live' = live
  BY <1>1, Stutter, Zenon
<1>2. CASE live' # live
  <2>1. AS!Create
    BY <1>2, Zenon DEF AS!Create, Undisturbed
  <2> QED BY <2>1, Zenon DEF AS!ASNext
<1> QED BY <1>1, <1>2, Zenon

\* Spaces that go take nothing from the others.
LEMMA DestroyOrStutter ==
  ASSUME Undisturbed, live' \subseteq live
  PROVE  [AS!ASNext]_(AS!asVars)
<1>1. CASE live' = live
  BY <1>1, Stutter, Zenon
<1>2. CASE live' # live
  <2>1. AS!Destroy
    BY <1>2, Zenon DEF AS!Destroy, Undisturbed
  <2> QED BY <2>1, Zenon DEF AS!ASNext
<1> QED BY <1>1, <1>2, Zenon

\* The only change, if any, is in one user page of one address space or in one kernel page.
LEMMA SetOrStutter ==
  ASSUME live' = live, NEW p, NEW va,
         \/ AS!UserChanges \subseteq {<<p, va>>} /\ AS!KernelChanges = {}
         \/ AS!UserChanges = {} /\ AS!KernelChanges \subseteq {va}
  PROVE  [AS!ASNext]_(AS!asVars)
<1>1. CASE Undisturbed
  BY <1>1, Stutter, Zenon
<1>2. CASE ~Undisturbed
  <2>1. \/ AS!UserChanges = {<<p, va>>} /\ AS!KernelChanges = {}
        \/ AS!UserChanges = {} /\ AS!KernelChanges = {va}
    BY <1>2, Zenon DEF Undisturbed
  <2>2. AS!SetPage
    BY <2>1, Zenon DEF AS!SetPage
  <2> QED BY <2>2, Zenon DEF AS!ASNext
<1> QED BY <1>1, <1>2, Zenon

\* Address spaces are added.
LEMMA GrowImplements ==
  ASSUME Shared, Shared', GrowStep
  PROVE  [AS!ASNext]_(AS!asVars)
<1>1. /\ live \subseteq live' /\ SameView(mem, mem', live)
      /\ \A p \in live' \ live, va \in Nat : IsUser(va) \/ live = {} => Translate(mem', p, va) = {}
      /\ live # {} => kernel_pml4' = kernel_pml4
  BY Zenon DEF GrowStep, Grown
<1>2. \A va \in KernelPages :
        (IF live' = {} THEN {} ELSE Translate(mem', kernel_pml4', va))
          = (IF live = {} THEN {} ELSE Translate(mem, kernel_pml4, va))
  <2>1. CASE live = {}
    <3>1. live' # {} => kernel_pml4' \in live'
      BY Zenon DEF Shared
    <3> QED BY <1>1, <2>1, <3>1, WatchedPages, Zenon
  <2>2. CASE live # {}
    <3>1. kernel_pml4 \in live /\ kernel_pml4' = kernel_pml4 /\ live' # {}
      BY <1>1, <2>2, Zenon DEF Shared
    <3> QED BY <1>1, <2>2, <3>1, WatchedPages, Zenon DEF SameView
  <2> QED BY <2>1, <2>2, Zenon
<1>3. KernelView' = KernelView
  BY <1>2, Zenon DEF KernelView
<1>4. Undisturbed
  <2>1. \A p \in live, va \in UserPages : Translate(mem', p, va) = Translate(mem, p, va)
    BY <1>1, WatchedPages, Zenon DEF SameView
  <2> QED BY <1>3, <2>1, ChangesAre, Zenon DEF Undisturbed
<1> QED BY <1>1, <1>4, WatchedPages, CreateOrStutter, Zenon

\* The tables stay as they are.
LEMMA StillImplements ==
  ASSUME StillStep
  PROVE  [AS!ASNext]_(AS!asVars)
<1>1. mem' = mem /\ live' \subseteq live /\ (live # {} => live' # {}) /\ kernel_pml4' = kernel_pml4
  BY Zenon DEF StillStep
<1>2. KernelView' = KernelView
  BY <1>1, Zenon DEF KernelView
<1>3. Undisturbed
  BY <1>1, <1>2, ChangesAre, Zenon DEF Undisturbed
<1> QED BY <1>1, <1>3, DestroyOrStutter, Zenon

\* A page is mapped or unmapped.
LEMMA PageImplements ==
  ASSUME Shared, NEW p, NEW va, NEW op, NEW pa, NEW flags, PageStep(p, va, op, pa, flags)
  PROVE  [AS!ASNext]_(AS!asVars)
<1> DEFINE new == Asked(op, pa, flags)
<1>1. p \in live /\ va \in Nat /\ va < Top /\ live' = live /\ kernel_pml4' = kernel_pml4 /\ kernel_pml4 \in live
  BY Zenon DEF PageStep, PageFine, Shared
<1>2. \/ SameView(mem, mem', live)
      \/ Changed(mem, mem', live, p, va, new) /\ IS_PAGE_ALIGNED(va)
  BY Zenon DEF PageStep, ViewChange
<1>3. ASSUME NEW q \in live, NEW vb \in Nat, vb < Top, IS_PAGE_ALIGNED(vb),
             Translate(mem', q, vb) # Translate(mem, q, vb)
      PROVE  vb = va /\ (IsUser(va) => q = p)
  <2>1. SamePage(p, va, q, vb) /\ IS_PAGE_ALIGNED(va)
    BY <1>2, <1>3, Zenon DEF SameView, Changed
  <2>2. vb = va
    BY <1>1, <1>3, <2>1, OnePage, Zenon
  <2> QED BY <2>1, <2>2, Zenon DEF SamePage
<1>4. ASSUME NEW c \in AS!UserChanges PROVE IsUser(va) /\ c = <<p, va>>
  <2>1. PICK q \in live, vb \in UserPages : c = <<q, vb>> /\ Translate(mem', q, vb) # Translate(mem, q, vb)
    BY <1>1, ChangesAre, Zenon
  <2>2. vb = va /\ (IsUser(va) => q = p) /\ IsUser(vb)
    BY <1>3, <2>1, WatchedPages, Zenon
  <2> QED BY <2>1, <2>2, Zenon
<1>5. ASSUME NEW vb \in AS!KernelChanges PROVE ~IsUser(va) /\ vb = va
  <2>0. vb \in KernelPages /\ KernelView'[vb] # KernelView[vb]
    BY ChangesAre, Zenon
  <2>1. vb \in KernelPages /\ Translate(mem', kernel_pml4, vb) # Translate(mem, kernel_pml4, vb)
    BY <1>1, <2>0, Zenon DEF KernelView
  <2>2. vb = va /\ ~IsUser(vb)
    BY <1>1, <1>3, <2>1, WatchedPages, Zenon
  <2> QED BY <2>2, Zenon
<1>6. \/ AS!UserChanges \subseteq {<<p, va>>} /\ AS!KernelChanges = {}
      \/ AS!UserChanges = {} /\ AS!KernelChanges \subseteq {va}
  BY <1>4, <1>5, Zenon
<1> QED BY <1>1, <1>6, SetOrStutter, Zenon
===============================================================================
