--------------------------- MODULE InterruptsProofs ---------------------------
(***************************************************************************)
(* Interrupts for every set of vectors, every placement of the stubs and   *)
(* every depth of nesting that the stack has room for.  The inductive      *)
(* invariant relates each state of the processor with the one that the     *)
(* last interrupt interrupted: the words pushed so far are on the stack,   *)
(* and what the interrupted code uses has not changed.  It says so of the  *)
(* current state and of every interrupted one.                             *)
(***************************************************************************)
EXTENDS Interrupts, TLAPS

Addrs == 0 .. (StackWords - 1)

\* The words that registers and stack may hold.
Words ==
  ({"num", "rsp", "error", "stub", "numbered", "push", "pop"} \X Int)
    \cup ({"kmain"} \X (GeneralRegs \cup {"word"}))
    \cup {<<"junk">>, <<"rflags">>, <<"kmain">>, <<"mov">>, <<"call">>, <<"isr_handler">>,
          <<"add">>, <<"iretq">>, <<"panic">>, <<"reset">>}

\* The states of the processor, as Deliver records them.
States ==
  [vector : Vectors, gpr : [GeneralRegs -> Words], rip : Words, cs : Words, rflags : Words,
   ss : Words, rsp : Int, stack : [Addrs -> Words]]

\* The current state (its vector is not used).
Now(v) ==
  [vector |-> v, gpr |-> gpr, rip |-> rip, cs |-> cs, rflags |-> rflags,
   ss |-> ss, rsp |-> rsp, stack |-> stack]

\* Where the frame of an interrupt begins, and the words that it and the common
\* path push, the first one highest.
Base(was) == was.rsp - (was.rsp % 2)

ErrorWord(was) == IF was.vector \in CpuErrorVectors THEN <<"error", was.vector>> ELSE Num(0)

Saved(was, n) ==
  CASE n = 1 -> was.ss
    [] n = 2 -> <<"rsp", was.rsp>>
    [] n = 3 -> was.rflags
    [] n = 4 -> was.cs
    [] n = 5 -> was.rip
    [] n = 6 -> ErrorWord(was)
    [] n = 7 -> Num(was.vector)
    [] OTHER -> was.gpr[Pushes[n - 7]]

Intact(words, was, count) == \A n \in 1 .. count : words[Base(was) - n] = Saved(was, n)

\* The words that the interrupted code was using.
Untouched(words, was) == \A a \in was.rsp .. (StackWords - 1) : words[a] = was.stack[a]

\* On the entry path nothing but the stack has changed; on the exit path, when
\* every register has been restored.
Same(m, was, count) ==
  m.gpr = was.gpr /\ m.rsp = Base(was) - count /\ Intact(m.stack, was, count)

Called(m, was, count) ==
  m.gpr["rdi"] = <<"rsp", Base(was) - 22>> /\ m.rsp = Base(was) - count /\ Intact(m.stack, was, 22)

Restored(m, was, k) ==
  /\ \A j \in 1 .. (k - 1) : m.gpr[Pops[j]] = was.gpr[Pops[j]]
  /\ m.rsp = Base(was) - 23 + k /\ Intact(m.stack, was, 23 - k)

\* A state m on the paths of the interrupt that interrupted the state was.
OnPath(m, was) ==
  \/ m.rip = <<"stub", was.vector>> /\ Same(m, was, IF was.vector \in ErrorStubs THEN 6 ELSE 5)
  \/ m.rip = <<"numbered", was.vector>> /\ was.vector \notin ErrorStubs /\ Same(m, was, 6)
  \/ \E k \in 1 .. 15 : m.rip = <<"push", k>> /\ Same(m, was, 6 + k)
  \/ m.rip = <<"mov">> /\ Same(m, was, 22)
  \/ m.rip = <<"call">> /\ Called(m, was, 22)
  \/ m.rip = <<"isr_handler">> /\ Called(m, was, 23) /\ m.stack[m.rsp] = <<"pop", 1>>
  \/ \E k \in 1 .. 15 : m.rip = <<"pop", k>> /\ Restored(m, was, k)
  \/ m.rip = <<"add">> /\ Same(m, was, 7)
  \/ m.rip = <<"iretq">> /\ Same(m, was, 5)
  \/ m.rip = <<"panic">>

Nested(m, was) ==
  m.rsp <= was.rsp /\ m.rsp >= was.rsp - 24 /\ Untouched(m.stack, was) /\ OnPath(m, was)

\* The code that nothing has interrupted.
Outermost(m) ==
  m.rip \in {<<"kmain">>, <<"reset">>} /\ m.rsp \in (StackWords - 3) .. (StackWords - 2)

Depth == Len(interrupted)

TypeOK ==
  /\ gpr \in [GeneralRegs -> Words] /\ rip \in Words /\ cs \in Words /\ rflags \in Words
  /\ ss \in Words /\ rsp \in Int /\ stack \in [Addrs -> Words]
  /\ interrupted \in Seq(States) /\ arrived \in 0 .. MaxInterrupts

Gates == idtr => idt = isr_init

\* The stack does not overflow.
Room ==
  /\ Depth <= arrived /\ rsp >= StackWords - 3 - 24 * Depth /\ rsp <= StackWords - 2
  /\ \A k \in 1 .. Depth : /\ interrupted[k].rsp >= StackWords - 3 - 24 * (Depth - k)
                           /\ interrupted[k].rsp <= StackWords - 2

Chain ==
  /\ IF Depth = 0 THEN Outermost(Now(0)) ELSE Nested(Now(0), interrupted[1])
  /\ \A k \in 1 .. Depth :
       IF k = Depth THEN Outermost(interrupted[k]) ELSE Nested(interrupted[k], interrupted[k + 1])

IInv == TypeOK /\ Gates /\ Room /\ Chain

-------------------------------------------------------------------------------
\* The pops are the pushes backwards, and so are the fields of struct Registers.
LEMMA RegisterOrder ==
  /\ Len(Pushes) = 15 /\ Len(Pops) = 15
  /\ \A k \in 1 .. 15 : Pushes[k] \in GeneralRegs /\ Pops[k] = Pushes[16 - k]
  /\ \A r \in GeneralRegs : \E k \in 1 .. 15 : r = Pops[k]
<1>1. Len(Pushes) = 15 /\ Len(Pops) = 15
  BY Zenon DEF Pushes, Pops
<1>2. \A k \in 1 .. 15 : Pops[k] = Pushes[16 - k]
  BY DEF Pushes, Pops
<1>3. DOMAIN Pushes = 1 .. 15
  BY DEF Pushes
<1>4. \A k \in 1 .. 15 : Pushes[k] \in GeneralRegs
  BY <1>3, Zenon DEF GeneralRegs
<1>5. ASSUME NEW r \in GeneralRegs PROVE \E k \in 1 .. 15 : r = Pops[k]
  <2>1. PICK k \in 1 .. 15 : r = Pushes[k]
    BY <1>3, Zenon DEF GeneralRegs
  <2>2. 16 - k \in 1 .. 15 /\ 16 - (16 - k) = k
    OBVIOUS
  <2>3. r = Pops[16 - k]
    BY <1>2, <2>1, <2>2, Zenon
  <2> QED BY <2>2, <2>3, Zenon
<1> QED BY <1>1, <1>2, <1>4, <1>5, Zenon

\* A number whose digits to the base H are h, m and l.
LEMMA ThreeDigits ==
  ASSUME NEW H \in Nat \ {0}, NEW h \in Nat, NEW m \in 0 .. (H - 1), NEW l \in 0 .. (H - 1)
  PROVE  (H * (H * h + m) + l) \div (H * H) = h
<1> DEFINE S == H * H
           r == H * m + l
<1>1. H * m <= H * (H - 1) /\ H * (H - 1) = S - H /\ H * m \in Nat
  OBVIOUS
<1>2. S \in Nat \ {0} /\ r \in Nat /\ r < S
  BY <1>1
<1>3. H * (H * h + m) + l = S * h + r
  OBVIOUS
<1>4. (S * h + r) \div S = h
  <2> HIDE DEF S, r
  <2> QED BY <1>2
<1> QED BY <1>3, <1>4, Zenon

\* An address is put together again from the three parts in a gate.
LEMMA AddressParts ==
  ASSUME NEW a \in Nat
  PROVE  (a % HALF) + HALF * ((a \div HALF) % HALF) + HALF * HALF * (a \div (HALF * HALF)) = a
<1> DEFINE q == a \div HALF
           l == a % HALF
           h == q \div HALF
           m == q % HALF
<1>1. HALF \in Nat \ {0}
  BY InterruptsAssumption, Zenon
<1>2. q \in Nat /\ l \in 0 .. (HALF - 1) /\ a = HALF * q + l
  BY <1>1
<1>3. h \in Nat /\ m \in 0 .. (HALF - 1) /\ q = HALF * h + m
  BY <1>1, <1>2
<1> HIDE DEF q, l, h, m
<1>4. a \div (HALF * HALF) = h
  BY <1>1, <1>2, <1>3, ThreeDigits, Zenon
<1>5. l + HALF * m + HALF * HALF * h = HALF * (HALF * h + m) + l
  BY <1>1, <1>2, <1>3
<1> QED BY <1>2, <1>3, <1>4, <1>5, Zenon DEF q, l, m

\* Every gate leads to the stub of its vector, in the kernel's code segment.
LEMMA GateOfVector ==
  ASSUME Gates, idtr, NEW v \in Vectors
  PROVE  GateTarget(idt[v]) = {<<"stub", v>>} /\ idt[v].kernel_cs = Num(8)
<1>1. idt[v] = idt_set_gate(StubAddr(v))
  BY Zenon DEF Gates, isr_init
<1>2. StubAddr(v) \in Nat /\ \A w \in Vectors : StubAddr(w) = StubAddr(v) <=> w = v
  BY InterruptsAssumption, Zenon
<1>3. LET g == idt[v]
      IN g.addr_low + HALF * g.addr_mid + HALF * HALF * g.addr_high = StubAddr(v)
  BY <1>1, <1>2, AddressParts DEF idt_set_gate
<1>4. {w \in Vectors : StubAddr(w) = StubAddr(v)} = {v}
  BY <1>2, Zenon
<1> QED BY <1>1, <1>3, <1>4 DEF GateTarget, idt_set_gate

\* The parts of a recorded state.
LEMMA StateParts ==
  ASSUME NEW m \in States
  PROVE  /\ m.vector \in Vectors /\ m.gpr \in [GeneralRegs -> Words] /\ m.rip \in Words
         /\ m.cs \in Words /\ m.rflags \in Words /\ m.ss \in Words
         /\ m.rsp \in Int /\ m.stack \in [Addrs -> Words]
<1> DEFINE GR == [GeneralRegs -> Words]
           ST == [Addrs -> Words]
           I == Int
<1>1. m \in [vector : Vectors, gpr : GR, rip : Words, cs : Words, rflags : Words, ss : Words, rsp : I, stack : ST]
  BY Zenon DEF States
<1> HIDE DEF GR, ST, I
<1>2. /\ m.vector \in Vectors /\ m.gpr \in GR /\ m.rip \in Words
      /\ m.cs \in Words /\ m.rflags \in Words /\ m.ss \in Words
      /\ m.rsp \in I /\ m.stack \in ST
  BY <1>1, Zenon
<1> QED BY <1>2, Zenon DEF GR, ST, I

\* The frame of the latest interrupt, and all that the paths push, is on the stack.
LEMMA FrameBounds ==
  ASSUME TypeOK, Room, Depth # 0
  PROVE  /\ interrupted[1] \in States /\ interrupted[1].rsp \in Int
         /\ Base(interrupted[1]) \in 24 .. (StackWords - 2) /\ Base(interrupted[1]) % 2 = 0
         /\ Base(interrupted[1]) \in (interrupted[1].rsp - 1) .. interrupted[1].rsp
         /\ StackWords \in Nat
<1>1. Depth \in Nat /\ 1 \in 1 .. Depth /\ Depth <= MaxInterrupts
  BY InterruptsAssumption DEF TypeOK, Room, Depth
<1>2. interrupted[1] \in States /\ interrupted[1].rsp \in Int
  BY <1>1, StateParts DEF TypeOK, Depth
<1>3. StackWords \in Nat /\ MaxInterrupts \in Nat /\ StackWords >= 24 * MaxInterrupts + 4
  BY InterruptsAssumption, Zenon
<1>4. /\ interrupted[1].rsp >= StackWords - 3 - 24 * (Depth - 1)
      /\ interrupted[1].rsp <= StackWords - 2
  BY <1>1, Zenon DEF Room
<1>5. interrupted[1].rsp >= 25
  BY <1>1, <1>2, <1>3, <1>4
<1> QED BY <1>2, <1>3, <1>4, <1>5 DEF Base

\* A push stores one word and leaves the others.
LEMMA PushWord ==
  ASSUME TypeOK, NEW word \in Words, rsp - 1 \in Addrs, Push(word)
  PROVE  /\ rsp' = rsp - 1 /\ stack' \in [Addrs -> Words] /\ stack'[rsp - 1] = word
         /\ \A a \in Addrs : a # rsp - 1 => stack'[a] = stack[a]
<1>1. rsp' = rsp - 1 /\ rsp \in Int /\ DOMAIN stack = Addrs
  BY Zenon DEF Push, TypeOK
<1>2. stack' = [a \in Addrs |-> IF a \in (rsp - 1) .. (rsp - 1) THEN <<word>>[rsp - a] ELSE stack[a]]
  BY <1>1, Zenon DEF Push, Pushed
<1>3. \A a \in Addrs : a \in (rsp - 1) .. (rsp - 1) <=> a = rsp - 1
  BY <1>1 DEF Addrs
<1>4. stack'[rsp - 1] = word
  BY <1>1, <1>2, <1>3
<1>5. \A a \in Addrs : a # rsp - 1 => stack'[a] = stack[a]
  BY <1>2, <1>3, Zenon
<1>6. \A a \in Addrs : stack'[a] \in Words
  BY <1>4, <1>5, Zenon DEF TypeOK
<1> QED BY <1>1, <1>2, <1>4, <1>5, <1>6, Zenon

\* What the paths push is a word.
LEMMA SavedType ==
  ASSUME NEW was \in States, NEW n \in 1 .. 22
  PROVE  Saved(was, n) \in Words
<1>1. was.vector \in Nat
  <2>1. was.vector \in Vectors /\ Vectors \subseteq Nat
    BY StateParts, InterruptsAssumption, Zenon
  <2> QED BY <2>1, Zenon
<1>4. was.rsp \in Int
  BY StateParts, Zenon
<1>2. ErrorWord(was) \in Words /\ Num(was.vector) \in Words /\ <<"rsp", was.rsp>> \in Words
  BY <1>1, <1>4 DEF ErrorWord, Num, Words
<1>3. n \in 8 .. 22 => was.gpr[Pushes[n - 7]] \in Words
  BY RegisterOrder, StateParts
<1> QED BY <1>2, <1>3, StateParts DEF Saved

\* Pushing the next word of the frame.
LEMMA PushSaved ==
  ASSUME TypeOK, Room, Depth # 0, NEW n \in 4 .. 21,
         rsp = Base(interrupted[1]) - n, Intact(stack, interrupted[1], n),
         Untouched(stack, interrupted[1]), Push(Saved(interrupted[1], n + 1))
  PROVE  /\ rsp' = Base(interrupted[1]) - (n + 1) /\ stack' \in [Addrs -> Words]
         /\ Intact(stack', interrupted[1], n + 1) /\ Untouched(stack', interrupted[1])
<1> DEFINE was == interrupted[1]
           b == Base(was)
<1>1. /\ was \in States /\ b \in 24 .. (StackWords - 2) /\ was.rsp \in b .. (b + 1)
      /\ StackWords \in Nat
  BY FrameBounds
<1>2. rsp - 1 \in Addrs /\ Saved(was, n + 1) \in Words
  BY <1>1, SavedType DEF Addrs
<1>3. /\ rsp' = rsp - 1 /\ stack' \in [Addrs -> Words] /\ stack'[rsp - 1] = Saved(was, n + 1)
      /\ \A a \in Addrs : a # rsp - 1 => stack'[a] = stack[a]
  BY <1>2, PushWord, Zenon
<1> HIDE DEF b
<1>4. Intact(stack', was, n + 1)
  <2> SUFFICES ASSUME NEW j \in 1 .. (n + 1) PROVE stack'[b - j] = Saved(was, j)
    BY Zenon DEF Intact, b
  <2>1. CASE j = n + 1
    BY <1>1, <1>3, <2>1 DEF b
  <2>2. CASE j \in 1 .. n
    <3>1. b - j \in Addrs /\ b - j # rsp - 1
      BY <1>1, <2>2 DEF Addrs, b
    <3> QED BY <1>3, <2>2, <3>1, Zenon DEF Intact, b
  <2> QED BY <2>1, <2>2
<1>5. Untouched(stack', was)
  <2> SUFFICES ASSUME NEW a \in was.rsp .. (StackWords - 1) PROVE stack'[a] = stack[a]
    BY Zenon DEF Untouched
  <2>1. a \in Addrs /\ a # rsp - 1
    BY <1>1 DEF Addrs, b
  <2> QED BY <1>3, <2>1, Zenon
<1> QED BY <1>1, <1>3, <1>4, <1>5 DEF b

\* What holds at each place of the paths.
LEMMA AtPlace ==
  ASSUME NEW m, NEW was, OnPath(m, was)
  PROVE  /\ m.rip[1] \notin {"kmain", "reset"}
         /\ m.rip[1] = "stub" => /\ m.rip = <<"stub", was.vector>>
                                 /\ Same(m, was, IF was.vector \in ErrorStubs THEN 6 ELSE 5)
         /\ m.rip[1] = "numbered" => m.rip = <<"numbered", was.vector>> /\ Same(m, was, 6)
         /\ m.rip[1] = "push" => \E k \in 1 .. 15 : m.rip = <<"push", k>> /\ Same(m, was, 6 + k)
         /\ m.rip = <<"mov">> => Same(m, was, 22)
         /\ m.rip = <<"call">> => Called(m, was, 22)
         /\ m.rip = <<"isr_handler">> => Called(m, was, 23) /\ m.stack[m.rsp] = <<"pop", 1>>
         /\ m.rip[1] = "pop" => \E k \in 1 .. 15 : m.rip = <<"pop", k>> /\ Restored(m, was, k)
         /\ m.rip = <<"add">> => Same(m, was, 7)
         /\ m.rip = <<"iretq">> => Same(m, was, 5)
BY DEF OnPath

\* The words below rsp do not matter to the code that runs.
LEMMA WordsInUse ==
  ASSUME NEW m, NEW m2, NEW was, Nested(m, was), m.rsp \in Int, was.rsp \in Int,
         StackWords \in Nat, was.rsp <= StackWords - 2,
         m2.gpr = m.gpr, m2.rip = m.rip, m2.rsp = m.rsp,
         \A a \in m.rsp .. (StackWords - 1) : m2.stack[a] = m.stack[a]
  PROVE  Nested(m2, was)
<1> DEFINE b == Base(was)
<1>1. b \in Int /\ b <= StackWords - 2
  BY DEF Base
<1> HIDE DEF b
<1>2. m2.rsp <= was.rsp /\ m2.rsp >= was.rsp - 24 /\ Untouched(m2.stack, was)
  BY DEF Nested, Untouched
<1>3. ASSUME NEW n \in Nat, Intact(m.stack, was, n), b - n >= m.rsp
      PROVE  Intact(m2.stack, was, n)
  <2> SUFFICES ASSUME NEW j \in 1 .. n PROVE m2.stack[b - j] = m.stack[b - j]
    BY <1>3, Zenon DEF Intact, b
  <2> QED BY <1>1, <1>3
<1>4. ASSUME NEW n \in Nat, Same(m, was, n) PROVE Same(m2, was, n)
  BY <1>1, <1>3, <1>4 DEF Same, b
<1>5. ASSUME NEW n \in {22, 23}, Called(m, was, n) PROVE Called(m2, was, n)
  BY <1>1, <1>3, <1>5 DEF Called, b
<1>6. ASSUME NEW k \in 1 .. 15, Restored(m, was, k) PROVE Restored(m2, was, k)
  BY <1>1, <1>3, <1>6 DEF Restored, b
<1>7. m.rip = <<"isr_handler">> /\ Called(m, was, 23) => m2.stack[m2.rsp] = m.stack[m.rsp]
  BY <1>1 DEF Called, b
<1>8. OnPath(m2, was)
  <2>1. OnPath(m, was)
    BY Zenon DEF Nested
  <2>2. CASE m.rip = <<"stub", was.vector>> /\ Same(m, was, IF was.vector \in ErrorStubs THEN 6 ELSE 5)
    BY <1>4, <2>2, Zenon DEF OnPath
  <2>3. CASE m.rip = <<"numbered", was.vector>> /\ was.vector \notin ErrorStubs /\ Same(m, was, 6)
    BY <1>4, <2>3, Zenon DEF OnPath
  <2>4. CASE \E k \in 1 .. 15 : m.rip = <<"push", k>> /\ Same(m, was, 6 + k)
    BY <1>4, <2>4 DEF OnPath
  <2>5. CASE m.rip = <<"mov">> /\ Same(m, was, 22)
    BY <1>4, <2>5, Zenon DEF OnPath
  <2>6. CASE m.rip = <<"call">> /\ Called(m, was, 22)
    BY <1>5, <2>6, Zenon DEF OnPath
  <2>7. CASE m.rip = <<"isr_handler">> /\ Called(m, was, 23) /\ m.stack[m.rsp] = <<"pop", 1>>
    BY <1>5, <1>7, <2>7, Zenon DEF OnPath
  <2>8. CASE \E k \in 1 .. 15 : m.rip = <<"pop", k>> /\ Restored(m, was, k)
    BY <1>6, <2>8, Zenon DEF OnPath
  <2>9. CASE m.rip = <<"add">> /\ Same(m, was, 7)
    BY <1>4, <2>9, Zenon DEF OnPath
  <2>10. CASE m.rip = <<"iretq">> /\ Same(m, was, 5)
    BY <1>4, <2>10, Zenon DEF OnPath
  <2>11. CASE m.rip = <<"panic">>
    BY <2>11, Zenon DEF OnPath
  <2> QED BY <2>1, <2>2, <2>3, <2>4, <2>5, <2>6, <2>7, <2>8, <2>9, <2>10, <2>11, Zenon DEF OnPath
<1> QED BY <1>2, <1>8, Zenon DEF Nested

\* The parts of the current state.
LEMMA NowParts ==
  /\ Now(0).gpr = gpr /\ Now(0).rip = rip /\ Now(0).rsp = rsp /\ Now(0).stack = stack
  /\ Now(0)'.gpr = gpr' /\ Now(0)'.rip = rip' /\ Now(0)'.rsp = rsp' /\ Now(0)'.stack = stack'
BY Zenon DEF Now

\* Code other than kmain runs on the paths of an interrupt.
LEMMA InPath ==
  ASSUME IInv, rip[1] \notin {"kmain", "reset"}
  PROVE  /\ Depth # 0 /\ OnPath(Now(0), interrupted[1]) /\ Untouched(stack, interrupted[1])
         /\ TypeOK /\ Room
<1>1. rip \notin {<<"kmain">>, <<"reset">>}
  OBVIOUS
<1>2. ~Outermost(Now(0))
  BY <1>1, NowParts, Zenon DEF Outermost
<1>3. Depth # 0 /\ Nested(Now(0), interrupted[1])
  BY <1>2, Zenon DEF IInv, Chain
<1> QED BY <1>3, NowParts, Zenon DEF IInv, Nested

\* A step on the paths keeps the invariant if it stays on them.
LEMMA PathStep ==
  ASSUME IInv, Depth # 0, Keep,
         gpr' \in [GeneralRegs -> Words], rip' \in Words, rsp' \in Int, stack' \in [Addrs -> Words],
         rsp' <= interrupted[1].rsp, rsp' >= interrupted[1].rsp - 24,
         Untouched(stack', interrupted[1]), OnPath(Now(0)', interrupted[1])
  PROVE  IInv'
<1>1. UNCHANGED <<cs, rflags, ss, idt, idtr, interrupted, arrived>> /\ Depth' = Depth
  BY Zenon DEF Keep, Depth
<1>2. TypeOK'
  BY <1>1, Zenon DEF IInv, TypeOK
<1>3. Gates'
  BY <1>1, Zenon DEF IInv, Gates, isr_init
<1>4. Room'
  <2>1. Depth \in Nat /\ 1 \in 1 .. Depth
    BY DEF Depth, IInv, TypeOK
  <2>2. /\ interrupted[1].rsp >= StackWords - 3 - 24 * (Depth - 1)
        /\ interrupted[1].rsp <= StackWords - 2
    BY <2>1, Zenon DEF IInv, Room
  <2>3. interrupted[1].rsp \in Int /\ StackWords \in Nat
    BY FrameBounds, Zenon DEF IInv
  <2>4. rsp' >= StackWords - 3 - 24 * Depth /\ rsp' <= StackWords - 2
    BY <2>1, <2>2, <2>3
  <2> QED BY <1>1, <2>4, Zenon DEF IInv, Room
<1>5. Chain'
  <2>1. Nested(Now(0)', interrupted[1])
    BY NowParts, Zenon DEF Nested
  <2> QED BY <1>1, <2>1, Zenon DEF IInv, Chain
<1> QED BY <1>2, <1>3, <1>4, <1>5, Zenon DEF IInv

-------------------------------------------------------------------------------
\* The stubs: after the dummy error code, or without one, the frame has the same shape.
LEMMA StubStep ==
  ASSUME IInv, Stub
  PROVE  IInv'
<1> DEFINE was == interrupted[1]
<1>1. rip[1] \in {"stub", "numbered"} /\ gpr' = gpr /\ Keep
  BY Zenon DEF Stub
<1>2. /\ Depth # 0 /\ OnPath(Now(0), was) /\ Untouched(stack, was) /\ TypeOK /\ Room
  BY <1>1, InPath, Zenon
<1>3. was \in States /\ Base(was) \in (was.rsp - 1) .. was.rsp /\ was.rsp \in Int
  BY <1>2, FrameBounds, Zenon
<1>4. was.vector \in Nat /\ (was.vector \in CpuErrorVectors <=> was.vector \in ErrorStubs)
  <2>1. was.vector \in Vectors
    BY <1>3, StateParts, Zenon
  <2> QED BY <2>1, InterruptsAssumption, Zenon DEF ErrorStubs
<1>5. gpr' \in [GeneralRegs -> Words]
  BY <1>1, <1>2, Zenon DEF TypeOK
<1>6. CASE rip[1] = "stub" /\ was.vector \notin ErrorStubs
  <2>1. rip = <<"stub", was.vector>> /\ Same(Now(0), was, 5)
    BY <1>2, <1>6, AtPlace, NowParts, Zenon
  <2>2. gpr = was.gpr /\ rsp = Base(was) - 5 /\ Intact(stack, was, 5)
    BY <2>1, NowParts, Zenon DEF Same
  <2>3. Push(Num(0)) /\ rip' = <<"numbered", was.vector>>
    BY <1>6, <2>1, Zenon DEF Stub
  <2>4. Saved(was, 5 + 1) = Num(0)
    BY <1>4, <1>6 DEF Saved, ErrorWord
  <2>5. /\ rsp' = Base(was) - (5 + 1) /\ stack' \in [Addrs -> Words]
        /\ Intact(stack', was, 5 + 1) /\ Untouched(stack', was)
    BY <1>2, <2>2, <2>3, <2>4, PushSaved
  <2>6. Same(Now(0)', was, 6)
    BY <1>1, <2>2, <2>5, NowParts DEF Same
  <2>7. OnPath(Now(0)', was)
    BY <1>6, <2>3, <2>6, NowParts, Zenon DEF OnPath
  <2>8. rip' \in Words
    BY <1>4, <2>3 DEF Words
  <2>9. rsp' \in Int /\ rsp' <= was.rsp /\ rsp' >= was.rsp - 24
    BY <1>3, <2>5
  <2> QED BY <1>1, <1>2, <1>5, <2>5, <2>7, <2>8, <2>9, PathStep, Zenon
<1>7. CASE ~(rip[1] = "stub" /\ was.vector \notin ErrorStubs)
  <2>1. rip[2] = was.vector /\ Same(Now(0), was, 6)
    BY <1>1, <1>2, <1>7, AtPlace, NowParts
  <2>2. gpr = was.gpr /\ rsp = Base(was) - 6 /\ Intact(stack, was, 6)
    BY <2>1, NowParts, Zenon DEF Same
  <2>3. Push(Num(was.vector)) /\ rip' = <<"push", 1>>
    BY <1>7, <2>1, Zenon DEF Stub
  <2>4. Saved(was, 6 + 1) = Num(was.vector)
    BY DEF Saved
  <2>5. /\ rsp' = Base(was) - (6 + 1) /\ stack' \in [Addrs -> Words]
        /\ Intact(stack', was, 6 + 1) /\ Untouched(stack', was)
    BY <1>2, <2>2, <2>3, <2>4, PushSaved
  <2>6. Same(Now(0)', was, 6 + 1)
    BY <1>1, <2>2, <2>5, NowParts, Zenon DEF Same
  <2>7. OnPath(Now(0)', was)
    BY <2>3, <2>6, NowParts DEF OnPath
  <2>8. rip' \in Words
    BY <2>3 DEF Words
  <2>9. rsp' \in Int /\ rsp' <= was.rsp /\ rsp' >= was.rsp - 24
    BY <1>3, <2>5
  <2> QED BY <1>1, <1>2, <1>5, <2>5, <2>7, <2>8, <2>9, PathStep, Zenon
<1> QED BY <1>6, <1>7, Zenon

\* The pushes of _isr_common.
LEMMA PushRegisterStep ==
  ASSUME IInv, PushRegister
  PROVE  IInv'
<1> DEFINE was == interrupted[1]
<1>1. rip[1] = "push" /\ gpr' = gpr /\ Keep
  BY Zenon DEF PushRegister
<1>2. /\ Depth # 0 /\ OnPath(Now(0), was) /\ Untouched(stack, was) /\ TypeOK /\ Room
  BY <1>1, InPath, Zenon
<1>3. Base(was) \in (was.rsp - 1) .. was.rsp /\ was.rsp \in Int
  BY <1>2, FrameBounds, Zenon
<1>4. PICK k \in 1 .. 15 : rip = <<"push", k>> /\ Same(Now(0), was, 6 + k)
  BY <1>1, <1>2, AtPlace, NowParts, Zenon
<1>5. gpr = was.gpr /\ rsp = Base(was) - (6 + k) /\ Intact(stack, was, 6 + k)
  BY <1>4, NowParts, Zenon DEF Same
<1>6. Push(gpr[Pushes[k]]) /\ rip' = IF k < 15 THEN <<"push", k + 1>> ELSE <<"mov">>
  BY <1>4, RegisterOrder, Zenon DEF PushRegister
<1>7. (6 + k) + 1 \notin 1 .. 7 /\ ((6 + k) + 1) - 7 = k /\ 6 + k \in 4 .. 21
  OBVIOUS
<1>8. Saved(was, (6 + k) + 1) = gpr[Pushes[k]]
  BY <1>5, <1>7 DEF Saved
<1>9. /\ rsp' = Base(was) - ((6 + k) + 1) /\ stack' \in [Addrs -> Words]
      /\ Intact(stack', was, (6 + k) + 1) /\ Untouched(stack', was)
  BY <1>2, <1>5, <1>6, <1>7, <1>8, PushSaved, Zenon
<1>10. Same(Now(0)', was, (6 + k) + 1)
  BY <1>1, <1>5, <1>9, NowParts, Zenon DEF Same
<1>11. OnPath(Now(0)', was) /\ rip' \in Words
  <2>1. CASE k < 15
    <3>1. k + 1 \in 1 .. 15 /\ 6 + (k + 1) = (6 + k) + 1 /\ rip' = <<"push", k + 1>>
      BY <1>6, <2>1
    <3>2. rip' \in Words
      BY <3>1 DEF Words
    <3> QED BY <1>10, <3>1, <3>2, NowParts, Zenon DEF OnPath
  <2>2. CASE k = 15
    <3>1. (6 + k) + 1 = 22 /\ rip' = <<"mov">>
      BY <1>6, <2>2
    <3>2. rip' \in Words
      BY <3>1, Zenon DEF Words
    <3> QED BY <1>10, <3>1, <3>2, NowParts, Zenon DEF OnPath
  <2> QED BY <2>1, <2>2
<1>12. gpr' \in [GeneralRegs -> Words]
  BY <1>1, <1>2, Zenon DEF TypeOK
<1>13. rsp' \in Int /\ rsp' <= was.rsp /\ rsp' >= was.rsp - 24
  BY <1>3, <1>7, <1>9
<1> QED BY <1>1, <1>2, <1>9, <1>11, <1>12, <1>13, PathStep, Zenon

\* mov rdi, rsp
LEMMA PassRegistersStep ==
  ASSUME IInv, PassRegisters
  PROVE  IInv'
<1> DEFINE was == interrupted[1]
<1>1. /\ rip = <<"mov">> /\ rsp' = rsp /\ stack' = stack /\ rip' = <<"call">> /\ Keep
      /\ gpr' = [gpr EXCEPT !["rdi"] = <<"rsp", rsp>>]
  BY Zenon DEF PassRegisters
<1>2. /\ Depth # 0 /\ OnPath(Now(0), was) /\ Untouched(stack, was) /\ TypeOK /\ Room
  BY <1>1, InPath, Zenon
<1>3. Base(was) \in (was.rsp - 1) .. was.rsp /\ was.rsp \in Int
  BY <1>2, FrameBounds, Zenon
<1>4. Same(Now(0), was, 22)
  BY <1>1, <1>2, AtPlace, NowParts, Zenon
<1>5. rsp = Base(was) - 22 /\ Intact(stack, was, 22)
  BY <1>4, NowParts, Zenon DEF Same
<1>6. gpr' \in [GeneralRegs -> Words] /\ gpr'["rdi"] = <<"rsp", rsp>>
  <2>1. Pushes[6] = "rdi" /\ "rdi" \in GeneralRegs
    BY RegisterOrder DEF Pushes
  <2>2. <<"rsp", rsp>> \in Words
    BY <1>2, Zenon DEF Words, TypeOK
  <2>3. gpr \in [GeneralRegs -> Words]
    BY <1>2, Zenon DEF TypeOK
  <2> QED BY <1>1, <2>1, <2>2, <2>3, Zenon
<1>7. Called(Now(0)', was, 22)
  BY <1>1, <1>5, <1>6, NowParts, Zenon DEF Called
<1>8. OnPath(Now(0)', was)
  BY <1>1, <1>7, NowParts, Zenon DEF OnPath
<1>9. rip' \in Words
  BY <1>1, Zenon DEF Words
<1>10. rsp' \in Int /\ rsp' <= was.rsp /\ rsp' >= was.rsp - 24
  BY <1>1, <1>3, <1>5
<1>11. stack' \in [Addrs -> Words]
  BY <1>1, <1>2, Zenon DEF TypeOK
<1> QED BY <1>1, <1>2, <1>6, <1>8, <1>9, <1>10, <1>11, PathStep, Zenon

\* call isr_handler
LEMMA CallHandlerStep ==
  ASSUME IInv, CallHandler
  PROVE  IInv'
<1> DEFINE was == interrupted[1]
           b == Base(was)
<1>1. rip = <<"call">> /\ Push(<<"pop", 1>>) /\ rip' = <<"isr_handler">> /\ gpr' = gpr /\ Keep
  BY Zenon DEF CallHandler
<1>2. /\ Depth # 0 /\ OnPath(Now(0), was) /\ Untouched(stack, was) /\ TypeOK /\ Room
  BY <1>1, InPath, Zenon
<1>3. StackWords \in Nat /\ b \in 24 .. (StackWords - 2) /\ was.rsp \in b .. (b + 1)
  BY <1>2, FrameBounds
<1>4. Called(Now(0), was, 22)
  BY <1>1, <1>2, AtPlace, NowParts, Zenon
<1>5. rsp = b - 22 /\ gpr["rdi"] = <<"rsp", b - 22>> /\ Intact(stack, was, 22)
  BY <1>4, NowParts, Zenon DEF Called
<1> HIDE DEF b
<1>6. rsp - 1 \in Addrs /\ <<"pop", 1>> \in Words /\ rip' \in Words
  BY <1>1, <1>3, <1>5 DEF Addrs, Words
<1>7. /\ rsp' = rsp - 1 /\ stack' \in [Addrs -> Words] /\ stack'[rsp - 1] = <<"pop", 1>>
      /\ \A a \in Addrs : a # rsp - 1 => stack'[a] = stack[a]
  BY <1>1, <1>2, <1>6, PushWord, Zenon
<1>8. Intact(stack', was, 22)
  <2> SUFFICES ASSUME NEW j \in 1 .. 22 PROVE stack'[b - j] = stack[b - j]
    BY <1>5, Zenon DEF Intact, b
  <2>1. b - j \in Addrs /\ b - j # rsp - 1
    BY <1>3, <1>5 DEF Addrs
  <2> QED BY <1>7, <2>1, Zenon
<1>9. Untouched(stack', was)
  <2> SUFFICES ASSUME NEW a \in was.rsp .. (StackWords - 1) PROVE stack'[a] = stack[a]
    BY <1>2, Zenon DEF Untouched
  <2>1. a \in Addrs /\ a # rsp - 1
    BY <1>3, <1>5 DEF Addrs
  <2> QED BY <1>7, <2>1, Zenon
<1>10. rsp' = b - 23 /\ rsp' \in Int /\ rsp' <= was.rsp /\ rsp' >= was.rsp - 24
  BY <1>3, <1>5, <1>7
<1>11. Called(Now(0)', was, 23) /\ stack'[rsp'] = <<"pop", 1>>
  BY <1>1, <1>5, <1>7, <1>8, <1>10, NowParts, Zenon DEF Called, b
<1>12. OnPath(Now(0)', was)
  BY <1>1, <1>11, NowParts, Zenon DEF OnPath
<1>13. gpr' \in [GeneralRegs -> Words]
  BY <1>1, <1>2, Zenon DEF TypeOK
<1> QED BY <1>1, <1>2, <1>6, <1>7, <1>9, <1>10, <1>12, <1>13, PathStep, Zenon

\* isr_handler, which returns or panics: its caller's frame is above its own.
LEMMA HandlerStepStep ==
  ASSUME IInv, isr_handler
  PROVE  IInv'
<1> DEFINE was == interrupted[1]
           b == Base(was)
<1>1. /\ rip = <<"isr_handler">> /\ Keep
      /\ stack' = [a \in DOMAIN stack |-> IF a < rsp THEN Junk ELSE stack[a]]
  BY Zenon DEF isr_handler
<1>2. /\ Depth # 0 /\ OnPath(Now(0), was) /\ Untouched(stack, was) /\ TypeOK /\ Room
  BY <1>1, InPath, Zenon
<1>3. StackWords \in Nat /\ b \in 24 .. (StackWords - 2) /\ was.rsp \in b .. (b + 1)
  BY <1>2, FrameBounds
<1>4. Called(Now(0), was, 23) /\ stack[rsp] = <<"pop", 1>>
  BY <1>1, <1>2, AtPlace, NowParts, Zenon
<1>5. rsp = b - 23 /\ Intact(stack, was, 22)
  BY <1>4, NowParts, Zenon DEF Called
<1> HIDE DEF b
<1>6. gpr \in [GeneralRegs -> Words] /\ stack \in [Addrs -> Words] /\ Junk \in Words
  <2>1. Junk \in Words
    BY Zenon DEF Junk, Words
  <2> QED BY <1>2, <2>1, Zenon DEF TypeOK
<1>7. stack' \in [Addrs -> Words] /\ \A a \in Addrs : ~(a < rsp) => stack'[a] = stack[a]
  BY <1>1, <1>6, Zenon
<1>8. Untouched(stack', was)
  <2> SUFFICES ASSUME NEW a \in was.rsp .. (StackWords - 1) PROVE stack'[a] = stack[a]
    BY <1>2, Zenon DEF Untouched
  <2>1. a \in Addrs /\ ~(a < rsp)
    BY <1>3, <1>5 DEF Addrs
  <2> QED BY <1>7, <2>1, Zenon
<1>9. Intact(stack', was, 22)
  <2> SUFFICES ASSUME NEW j \in 1 .. 22 PROVE stack'[b - j] = stack[b - j]
    BY <1>5, Zenon DEF Intact, b
  <2>1. b - j \in Addrs /\ ~(b - j < rsp)
    BY <1>3, <1>5 DEF Addrs
  <2> QED BY <1>7, <2>1, Zenon
<1>10. CASE rip' = stack[rsp] /\ rsp' = rsp + 1
            /\ gpr' = [r \in GeneralRegs |-> IF r \in CallerSaved THEN Junk ELSE gpr[r]]
  <2>1. rip' = <<"pop", 1>> /\ rip' \in Words
    BY <1>4, <1>10 DEF Words
  <2>2. gpr' \in [GeneralRegs -> Words]
    BY <1>6, <1>10, Zenon
  <2>3. rsp' = b - 22 /\ rsp' \in Int /\ rsp' <= was.rsp /\ rsp' >= was.rsp - 24
    BY <1>3, <1>5, <1>10
  <2>4. Restored(Now(0)', was, 1)
    BY <1>3, <1>9, <2>3, NowParts DEF Restored, b
  <2>5. OnPath(Now(0)', was)
    BY <2>1, <2>4, NowParts DEF OnPath
  <2> QED BY <1>1, <1>2, <1>7, <1>8, <2>1, <2>2, <2>3, <2>5, PathStep, Zenon
<1>11. CASE rip' = <<"panic">> /\ UNCHANGED <<gpr, rsp>>
  <2>1. rip' \in Words /\ gpr' \in [GeneralRegs -> Words]
    BY <1>6, <1>11, Zenon DEF Words
  <2>2. OnPath(Now(0)', was)
    BY <1>11, NowParts, Zenon DEF OnPath
  <2>3. rsp' \in Int /\ rsp' <= was.rsp /\ rsp' >= was.rsp - 24
    BY <1>3, <1>5, <1>11
  <2> QED BY <1>1, <1>2, <1>7, <1>8, <2>1, <2>2, <2>3, PathStep, Zenon
<1> QED BY <1>10, <1>11, Zenon DEF isr_handler

\* A pop brings one more register back.
LEMMA PopRegisterStep ==
  ASSUME IInv, PopRegister
  PROVE  IInv'
<1> DEFINE was == interrupted[1]
           b == Base(was)
<1>1. rip[1] = "pop" /\ rsp' = rsp + 1 /\ stack' = stack /\ Keep
  BY Zenon DEF PopRegister
<1>2. /\ Depth # 0 /\ OnPath(Now(0), was) /\ Untouched(stack, was) /\ TypeOK /\ Room
  BY <1>1, InPath, Zenon
<1>3. /\ StackWords \in Nat /\ b \in 24 .. (StackWords - 2) /\ was.rsp \in b .. (b + 1)
      /\ was \in States
  BY <1>2, FrameBounds
<1>4. PICK k \in 1 .. 15 : rip = <<"pop", k>> /\ Restored(Now(0), was, k)
  BY <1>1, <1>2, AtPlace, NowParts, Zenon
<1>5. /\ rsp = b - 23 + k /\ Intact(stack, was, 23 - k)
      /\ \A j \in 1 .. (k - 1) : gpr[Pops[j]] = was.gpr[Pops[j]]
  BY <1>4, NowParts, Zenon DEF Restored
<1> HIDE DEF b
<1>6. /\ gpr' = [gpr EXCEPT ![Pops[k]] = stack[rsp]]
      /\ rip' = IF k < 15 THEN <<"pop", k + 1>> ELSE <<"add">>
  BY <1>4, RegisterOrder, Zenon DEF PopRegister
<1>7. gpr \in [GeneralRegs -> Words] /\ stack \in [Addrs -> Words] /\ Pops[k] \in GeneralRegs
  <2>1. Pops[k] \in GeneralRegs
    BY RegisterOrder
  <2> QED BY <1>2, <2>1, Zenon DEF TypeOK
<1>8. stack[rsp] = was.gpr[Pops[k]] /\ stack[rsp] \in Words
  <2>1. 23 - k \in 1 .. (23 - k) /\ b - (23 - k) = rsp /\ rsp \in Addrs
    BY <1>3, <1>5 DEF Addrs
  <2>2. stack[rsp] = Saved(was, 23 - k)
    BY <1>5, <2>1, Zenon DEF Intact, b
  <2>3. 23 - k \notin 1 .. 7 /\ (23 - k) - 7 = 16 - k
    OBVIOUS
  <2>4. Saved(was, 23 - k) = was.gpr[Pushes[16 - k]]
    BY <2>3 DEF Saved
  <2>5. Pops[k] = Pushes[16 - k]
    BY RegisterOrder, Zenon
  <2> QED BY <1>7, <2>1, <2>2, <2>4, <2>5, Zenon
<1>9. gpr' \in [GeneralRegs -> Words] /\ gpr'[Pops[k]] = was.gpr[Pops[k]]
  BY <1>6, <1>7, <1>8, Zenon
<1>10. \A j \in 1 .. k : gpr'[Pops[j]] = was.gpr[Pops[j]]
  <2> SUFFICES ASSUME NEW j \in 1 .. k PROVE gpr'[Pops[j]] = was.gpr[Pops[j]]
    BY Zenon
  <2>1. Pops[j] \in GeneralRegs /\ (j # k => j \in 1 .. (k - 1))
    BY RegisterOrder
  <2> QED BY <1>5, <1>6, <1>7, <1>9, <2>1, Zenon
<1>11. /\ Intact(stack', was, 22 - k) /\ rsp' = b - 22 + k
       /\ rsp' \in Int /\ rsp' <= was.rsp /\ rsp' >= was.rsp - 24
  BY <1>1, <1>3, <1>5 DEF Intact
<1>12. OnPath(Now(0)', was) /\ rip' \in Words
  <2>1. CASE k < 15
    <3>1. k + 1 \in 1 .. 15 /\ rip' = <<"pop", k + 1>> /\ (k + 1) - 1 = k
          /\ 23 - (k + 1) = 22 - k /\ b - 23 + (k + 1) = b - 22 + k
      BY <1>3, <1>6, <2>1
    <3>2. Restored(Now(0)', was, k + 1)
      BY <1>10, <1>11, <3>1, NowParts, Zenon DEF Restored, b
    <3>3. rip' \in Words
      BY <3>1 DEF Words
    <3> QED BY <3>1, <3>2, <3>3, NowParts, Zenon DEF OnPath
  <2>2. CASE k = 15
    <3>1. \A r \in GeneralRegs : gpr'[r] = was.gpr[r]
      BY <1>10, <2>2, RegisterOrder
    <3>2. was.gpr \in [GeneralRegs -> Words]
      BY <1>3, StateParts, Zenon
    <3>3. gpr' = was.gpr
      BY <1>9, <3>1, <3>2
    <3>4. 22 - k = 7 /\ b - 22 + k = b - 7 /\ rip' = <<"add">>
      BY <1>3, <1>6, <2>2
    <3>5. Same(Now(0)', was, 7)
      BY <1>11, <3>3, <3>4, NowParts, Zenon DEF Same, b
    <3>6. rip' \in Words
      BY <3>4, Zenon DEF Words
    <3> QED BY <3>4, <3>5, <3>6, NowParts, Zenon DEF OnPath
  <2> QED BY <2>1, <2>2
<1> QED BY <1>1, <1>2, <1>7, <1>9, <1>11, <1>12, PathStep, Zenon

\* add rsp, 16
LEMMA DropCodesStep ==
  ASSUME IInv, DropCodes
  PROVE  IInv'
<1> DEFINE was == interrupted[1]
           b == Base(was)
<1>1. rip = <<"add">> /\ gpr' = gpr /\ stack' = stack /\ rsp' = rsp + 2 /\ rip' = <<"iretq">> /\ Keep
  BY Zenon DEF DropCodes
<1>2. /\ Depth # 0 /\ OnPath(Now(0), was) /\ Untouched(stack, was) /\ TypeOK /\ Room
  BY <1>1, InPath, Zenon
<1>3. b \in Int /\ was.rsp \in b .. (b + 1)
  BY <1>2, FrameBounds
<1>4. Same(Now(0), was, 7)
  BY <1>1, <1>2, AtPlace, NowParts, Zenon
<1>5. gpr = was.gpr /\ rsp = b - 7 /\ Intact(stack, was, 7)
  BY <1>4, NowParts, Zenon DEF Same
<1> HIDE DEF b
<1>6. /\ Intact(stack', was, 5) /\ rsp' = b - 5
      /\ rsp' \in Int /\ rsp' <= was.rsp /\ rsp' >= was.rsp - 24
  BY <1>1, <1>3, <1>5 DEF Intact
<1>7. Same(Now(0)', was, 5)
  BY <1>1, <1>5, <1>6, NowParts, Zenon DEF Same, b
<1>8. OnPath(Now(0)', was)
  BY <1>1, <1>7, NowParts, Zenon DEF OnPath
<1>9. rip' \in Words /\ gpr' \in [GeneralRegs -> Words] /\ stack' \in [Addrs -> Words]
  BY <1>1, <1>2, Zenon DEF Words, TypeOK
<1> QED BY <1>1, <1>2, <1>6, <1>8, <1>9, PathStep, Zenon

\* The frame that the processor pushes on delivery.
LEMMA DeliverFrame ==
  ASSUME IInv, NEW v \in Vectors, Deliver(v)
  PROVE  /\ Now(v) \in States /\ rip' = <<"stub", v>> /\ cs' = Num(8)
         /\ stack' \in [Addrs -> Words] /\ rsp' \in Int
         /\ Nested(Now(0)', Now(v))
<1> DEFINE sp == rsp - (rsp % 2)
           was == Now(v)
           code == IF v \in CpuErrorVectors THEN << <<"error", v>> >> ELSE <<>>
           words == <<ss, <<"rsp", rsp>>, rflags, cs, rip>> \o code
           n == IF v \in CpuErrorVectors THEN 6 ELSE 5
<1>1. TypeOK /\ Room /\ Gates /\ arrived < MaxInterrupts /\ idtr
  BY Zenon DEF IInv, Deliver
<1>2. was \in States
  BY <1>1, Zenon DEF Now, States, TypeOK
<1>3. was.gpr = gpr /\ was.rsp = rsp /\ was.stack = stack /\ was.vector = v /\ Base(was) = sp
  BY Zenon DEF Now, Base
<1>4. rip' = <<"stub", v>> /\ cs' = Num(8) /\ gpr' = gpr
  BY <1>1, GateOfVector, Zenon DEF Deliver
<1>5. Len(words) = n /\ \A j \in 1 .. n : words[j] = Saved(was, j)
  <2>1. CASE v \in CpuErrorVectors
    BY <2>1 DEF Saved, ErrorWord, Now
  <2>2. CASE v \notin CpuErrorVectors
    BY <2>2 DEF Saved, Now
  <2> QED BY <2>1, <2>2, Zenon
<1>6. stack' = [a \in DOMAIN stack |-> IF a \in (sp - Len(words)) .. (sp - 1) THEN words[sp - a] ELSE stack[a]]
      /\ rsp' = sp - Len(words)
  BY Zenon DEF Deliver, Pushed
<1>7. /\ sp \in Int /\ sp >= 24 /\ sp \in (rsp - 1) .. rsp /\ rsp \in Int /\ rsp <= StackWords - 2
      /\ StackWords \in Nat /\ DOMAIN stack = Addrs
  <2>1. Depth \in Nat /\ Depth <= arrived /\ rsp >= StackWords - 3 - 24 * Depth /\ rsp <= StackWords - 2
    BY <1>1 DEF Room, TypeOK, Depth
  <2>2. rsp \in Int /\ arrived \in Nat /\ DOMAIN stack = Addrs
    BY <1>1, InterruptsAssumption DEF TypeOK
  <2>3. StackWords \in Nat /\ MaxInterrupts \in Nat /\ StackWords >= 24 * MaxInterrupts + 4
    BY InterruptsAssumption, Zenon
  <2>4. rsp >= 25
    BY <1>1, <2>1, <2>2, <2>3
  <2> QED BY <2>1, <2>2, <2>3, <2>4
<1>8. n \in 5 .. 6
  OBVIOUS
<1> HIDE DEF words, n, sp, was
<1>9. Intact(stack', was, n)
  <2> SUFFICES ASSUME NEW j \in 1 .. n PROVE stack'[sp - j] = Saved(was, j)
    BY <1>3, Zenon DEF Intact
  <2>1. sp - j \in Addrs /\ sp - j \in (sp - n) .. (sp - 1) /\ sp - (sp - j) = j
    BY <1>7, <1>8 DEF Addrs
  <2> QED BY <1>5, <1>6, <1>7, <2>1, Zenon
<1>10. Untouched(stack', was)
  <2> SUFFICES ASSUME NEW a \in rsp .. (StackWords - 1) PROVE stack'[a] = stack[a]
    BY <1>3, Zenon DEF Untouched
  <2>1. a \in Addrs /\ a \notin (sp - n) .. (sp - 1)
    BY <1>7, <1>8 DEF Addrs
  <2> QED BY <1>5, <1>6, <1>7, <2>1, Zenon
<1>11. stack' \in [Addrs -> Words]
  <2> SUFFICES ASSUME NEW a \in Addrs PROVE stack'[a] \in Words
    BY <1>6, <1>7, Zenon
  <2>1. CASE a \in (sp - n) .. (sp - 1)
    <3>1. sp - a \in 1 .. n /\ sp - a \in 1 .. 22
      BY <1>7, <1>8, <2>1
    <3> QED BY <1>2, <1>5, <1>6, <1>7, <2>1, <3>1, SavedType, Zenon
  <2>2. CASE a \notin (sp - n) .. (sp - 1)
    BY <1>1, <1>5, <1>6, <1>7, <2>2, Zenon DEF TypeOK
  <2> QED BY <2>1, <2>2, Zenon
<1>12. v \in ErrorStubs <=> v \in CpuErrorVectors
  BY InterruptsAssumption, Zenon DEF ErrorStubs
<1>13. Same(Now(0)', was, n) /\ rsp' = sp - n
  BY <1>3, <1>4, <1>5, <1>6, <1>9, NowParts, Zenon DEF Same
<1>14. n = IF was.vector \in ErrorStubs THEN 6 ELSE 5
  BY <1>3, <1>12, Zenon DEF n
<1>15. OnPath(Now(0)', was)
  BY <1>3, <1>4, <1>13, <1>14, NowParts, Zenon DEF OnPath
<1>16. Nested(Now(0)', was)
  <2>1. rsp' <= was.rsp /\ rsp' >= was.rsp - 24
    BY <1>3, <1>7, <1>8, <1>13
  <2> QED BY <1>10, <1>15, <2>1, NowParts, Zenon DEF Nested
<1> QED BY <1>2, <1>4, <1>7, <1>8, <1>11, <1>13, <1>16 DEF was

\* An interrupt at any instruction: the state it interrupts joins the others.
LEMMA DeliverStep ==
  ASSUME IInv, NEW v \in Vectors, Deliver(v)
  PROVE  IInv'
<1>1. /\ Now(v) \in States /\ rip' = <<"stub", v>> /\ cs' = Num(8)
      /\ stack' \in [Addrs -> Words] /\ rsp' \in Int
      /\ Nested(Now(0)', Now(v))
  BY DeliverFrame, Zenon
<1>2. interrupted' = <<Now(v)>> \o interrupted /\ arrived' = arrived + 1 /\ UNCHANGED <<gpr, rflags, ss, idt, idtr>>
  BY Zenon DEF Deliver, Now
<1>3. interrupted \in Seq(States) /\ Depth \in Nat
  BY DEF IInv, TypeOK, Depth
<1>4. /\ interrupted' \in Seq(States) /\ Depth' = Depth + 1 /\ interrupted'[1] = Now(v)
      /\ \A k \in 1 .. Depth : interrupted'[k + 1] = interrupted[k]
  BY <1>1, <1>2, <1>3 DEF Depth
<1>5. \A k \in 2 .. (Depth + 1) : k - 1 \in 1 .. Depth /\ interrupted'[k] = interrupted[k - 1]
  <2> TAKE k \in 2 .. (Depth + 1)
  <2>1. k - 1 \in 1 .. Depth /\ (k - 1) + 1 = k
    BY <1>3
  <2> QED BY <1>4, <2>1, Zenon
<1>6. TypeOK'
  <2>1. v \in Nat
    BY InterruptsAssumption, Zenon
  <2>2. rip' \in Words /\ cs' \in Words
    BY <1>1, <2>1 DEF Words, Num
  <2>3. arrived' \in 0 .. MaxInterrupts
    BY <1>2, InterruptsAssumption DEF IInv, TypeOK, Deliver
  <2> QED BY <1>1, <1>2, <1>4, <2>2, <2>3, Zenon DEF IInv, TypeOK
<1>7. Gates'
  BY <1>2, Zenon DEF IInv, Gates, isr_init
<1>8. Room'
  <2>1. Depth + 1 <= arrived'
    <3>1. Depth <= arrived /\ arrived \in 0 .. MaxInterrupts /\ MaxInterrupts \in Nat
      BY InterruptsAssumption, Zenon DEF IInv, Room, TypeOK
    <3> QED BY <1>2, <1>3, <3>1
  <2>2. /\ rsp' <= rsp /\ rsp' >= rsp - 24 /\ rsp \in Int
        /\ rsp >= StackWords - 3 - 24 * Depth /\ rsp <= StackWords - 2 /\ StackWords \in Nat
    <3>1. rsp' <= rsp /\ rsp' >= rsp - 24
      <4>1. Now(v).rsp = rsp
        BY Zenon DEF Now
      <4> QED BY <1>1, <4>1, NowParts, Zenon DEF Nested
    <3> QED BY <3>1, InterruptsAssumption, Zenon DEF IInv, TypeOK, Room
  <2>3. rsp' >= StackWords - 3 - 24 * (Depth + 1) /\ rsp' <= StackWords - 2
    BY <1>1, <1>3, <2>2
  <2>4. ASSUME NEW k \in 1 .. (Depth + 1)
        PROVE  /\ interrupted'[k].rsp >= StackWords - 3 - 24 * ((Depth + 1) - k)
               /\ interrupted'[k].rsp <= StackWords - 2
    <3>1. CASE k = 1
      <4>1. interrupted'[1].rsp = rsp /\ (Depth + 1) - 1 = Depth
        BY <1>3, <1>4 DEF Now
      <4> QED BY <2>2, <3>1, <4>1, Zenon
    <3>2. CASE k # 1
      <4>1. k - 1 \in 1 .. Depth /\ interrupted'[k] = interrupted[k - 1] /\ (Depth + 1) - k = Depth - (k - 1)
        BY <1>3, <1>5, <3>2
      <4> QED BY <4>1, Zenon DEF IInv, Room
    <3> QED BY <3>1, <3>2, Zenon
  <2> QED BY <1>4, <2>1, <2>3, <2>4, Zenon DEF Room
<1>9. Chain'
  <2>1. Depth' # 0 /\ Nested(Now(0), interrupted[1])'
    BY <1>1, <1>3, <1>4
  <2>2. ASSUME NEW k \in 1 .. (Depth + 1)
        PROVE  IF k = Depth + 1 THEN Outermost(interrupted'[k]) ELSE Nested(interrupted'[k], interrupted'[k + 1])
    <3>1. CASE k = 1 /\ Depth = 0
      <4>1. Outermost(Now(0))
        BY <3>1, Zenon DEF IInv, Chain
      <4>2. Outermost(Now(v))
        BY <4>1, Zenon DEF Outermost, Now
      <4> QED BY <1>4, <3>1, <4>2
    <3>2. CASE k = 1 /\ Depth # 0
      <4>1. Nested(Now(0), interrupted[1]) /\ interrupted[1].rsp \in Int /\ rsp \in Int
            /\ interrupted[1].rsp <= StackWords - 2 /\ StackWords \in Nat
        <5>1. 1 \in 1 .. Depth
          BY <1>3, <3>2
        <5>2. interrupted[1].rsp <= StackWords - 2
          BY <5>1, Zenon DEF IInv, Room
        <5>3. Nested(Now(0), interrupted[1])
          BY <3>2, Zenon DEF IInv, Chain
        <5>4. interrupted[1].rsp \in Int /\ StackWords \in Nat
          BY <3>2, FrameBounds, Zenon DEF IInv
        <5>5. rsp \in Int
          BY Zenon DEF IInv, TypeOK
        <5> QED BY <5>2, <5>3, <5>4, <5>5, Zenon
      <4>2. Nested(Now(v), interrupted[1])
        <5>1. /\ Now(v).gpr = Now(0).gpr /\ Now(v).rip = Now(0).rip /\ Now(v).rsp = Now(0).rsp
              /\ Now(v).stack = Now(0).stack /\ Now(0).rsp = rsp
          BY Zenon DEF Now
        <5> QED BY <4>1, <5>1, WordsInUse, Zenon
      <4>3. 1 \in 1 .. Depth /\ interrupted'[2] = interrupted[1]
        BY <1>3, <1>4, <3>2
      <4> QED BY <1>3, <1>4, <3>2, <4>2, <4>3
    <3>3. CASE k # 1
      <4>1. k - 1 \in 1 .. Depth /\ interrupted'[k] = interrupted[k - 1]
        BY <1>5, <3>3
      <4>2. k # Depth + 1 => interrupted'[k + 1] = interrupted[(k - 1) + 1] /\ k - 1 # Depth
        BY <1>3, <1>4, <3>3, <4>1
      <4>3. k = Depth + 1 => k - 1 = Depth
        BY <1>3
      <4> QED BY <4>1, <4>2, <4>3, Zenon DEF IInv, Chain
    <3> QED BY <3>1, <3>2, <3>3, Zenon
  <2> QED BY <1>4, <2>1, <2>2, Zenon DEF Chain
<1> QED BY <1>6, <1>7, <1>8, <1>9, Zenon DEF IInv

\* What iretq loads is the state that was interrupted.
LEMMA IretqLoads ==
  ASSUME IInv, Iretq
  PROVE  /\ Depth # 0 /\ interrupted[1] \in States
         /\ gpr' = interrupted[1].gpr /\ rip' = interrupted[1].rip /\ cs' = interrupted[1].cs
         /\ rflags' = interrupted[1].rflags /\ ss' = interrupted[1].ss /\ rsp' = interrupted[1].rsp
         /\ \A a \in rsp' .. (StackWords - 1) : stack'[a] = interrupted[1].stack[a]
<1> DEFINE was == interrupted[1]
           b == Base(was)
<1>1. rip = <<"iretq">>
  BY Zenon DEF Iretq
<1>2. Depth # 0 /\ OnPath(Now(0), was) /\ Untouched(stack, was) /\ TypeOK /\ Room
  BY <1>1, InPath, Zenon
<1>3. was \in States /\ b \in Int
  BY <1>2, FrameBounds
<1> HIDE DEF was, b
<1>5. Same(Now(0), was, 5)
  BY <1>1, <1>2, AtPlace, NowParts, Zenon
<1>6. gpr = was.gpr /\ rsp = b - 5 /\ \A n \in 1 .. 5 : stack[b - n] = Saved(was, n)
  BY <1>5, NowParts, Zenon DEF Same, Intact, b
<1>7. rsp = b - 5 /\ rsp + 1 = b - 4 /\ rsp + 2 = b - 3 /\ rsp + 3 = b - 2 /\ rsp + 4 = b - 1
  BY <1>3, <1>6
<1>8. /\ stack[b - 5] = was.rip /\ stack[b - 4] = was.cs /\ stack[b - 3] = was.rflags
      /\ stack[b - 2] = <<"rsp", was.rsp>> /\ stack[b - 1] = was.ss
  BY <1>6 DEF Saved
<1>9. /\ rip' = was.rip /\ cs' = was.cs /\ rflags' = was.rflags /\ rsp' = was.rsp /\ ss' = was.ss
      /\ gpr' = gpr /\ stack' = stack
  BY <1>7, <1>8 DEF Iretq
<1> QED BY <1>2, <1>3, <1>6, <1>9, Zenon DEF Untouched, was

\* The end of an interrupt: the processor is in the state that was interrupted,
\* but for the words below its stack.
LEMMA IretqStep ==
  ASSUME IInv, Iretq
  PROVE  IInv'
<1> DEFINE was == interrupted[1]
<1>1. /\ Depth # 0 /\ was \in States
      /\ gpr' = was.gpr /\ rip' = was.rip /\ cs' = was.cs /\ rflags' = was.rflags
      /\ ss' = was.ss /\ rsp' = was.rsp
      /\ \A a \in rsp' .. (StackWords - 1) : stack'[a] = was.stack[a]
  BY IretqLoads, Zenon
<1>2. interrupted' = Tail(interrupted) /\ UNCHANGED <<stack, idt, idtr, arrived>>
  BY Zenon DEF Iretq
<1>3. interrupted \in Seq(States) /\ Depth \in Nat /\ 1 \in 1 .. Depth
  BY <1>1 DEF IInv, TypeOK, Depth
<1>4. /\ interrupted' \in Seq(States) /\ Depth' = Depth - 1
      /\ \A k \in 1 .. (Depth - 1) : interrupted'[k] = interrupted[k + 1]
  BY <1>1, <1>2, <1>3 DEF Depth
<1>5. TypeOK'
  <2>1. /\ was.gpr \in [GeneralRegs -> Words] /\ was.rip \in Words /\ was.cs \in Words
        /\ was.rflags \in Words /\ was.ss \in Words /\ was.rsp \in Int
    BY <1>1, StateParts, Zenon
  <2>2. stack' \in [Addrs -> Words] /\ arrived' \in 0 .. MaxInterrupts
    BY <1>2, Zenon DEF IInv, TypeOK
  <2> HIDE DEF was
  <2> QED BY <1>1, <1>4, <2>1, <2>2, Zenon DEF TypeOK
<1>6. Gates'
  BY <1>2, Zenon DEF IInv, Gates, isr_init
<1>7. was.rsp >= StackWords - 3 - 24 * (Depth - 1) /\ was.rsp <= StackWords - 2 /\ Depth <= arrived
  BY <1>3, Zenon DEF IInv, Room
<1>8. Room'
  <2>1. ASSUME NEW k \in 1 .. (Depth - 1)
        PROVE  /\ interrupted'[k].rsp >= StackWords - 3 - 24 * ((Depth - 1) - k)
               /\ interrupted'[k].rsp <= StackWords - 2
    <3>1. k + 1 \in 1 .. Depth /\ (Depth - 1) - k = Depth - (k + 1)
      BY <1>3
    <3> QED BY <1>4, <3>1, Zenon DEF IInv, Room
  <2>2. Depth' <= arrived'
    BY <1>2, <1>3, <1>4, <1>7, InterruptsAssumption DEF IInv, TypeOK
  <2> HIDE DEF was
  <2> QED BY <1>1, <1>4, <1>7, <2>1, <2>2, Zenon DEF Room
<1>9. Chain'
  <2>1. ASSUME NEW k \in 1 .. (Depth - 1)
        PROVE  IF k = Depth - 1 THEN Outermost(interrupted'[k])
               ELSE Nested(interrupted'[k], interrupted'[k + 1])
    <3>1. k + 1 \in 1 .. Depth /\ interrupted'[k] = interrupted[k + 1] /\ (k = Depth - 1 <=> k + 1 = Depth)
      BY <1>3, <1>4
    <3>2. k # Depth - 1 => interrupted'[k + 1] = interrupted[(k + 1) + 1]
      BY <1>3, <1>4, SMTT(20)
    <3> QED BY <3>1, <3>2, Zenon DEF IInv, Chain
  <2>2. CASE Depth = 1
    <3>1. Outermost(was)
      BY <2>2 DEF IInv, Chain
    <3>2. Outermost(Now(0)')
      <4> HIDE DEF was
      <4> QED BY <1>1, <3>1, NowParts, Zenon DEF Outermost
    <3> QED BY <1>3, <1>4, <2>1, <2>2, <3>2 DEF Chain
  <2>3. CASE Depth # 1
    <3>1. 1 \in 1 .. (Depth - 1) /\ 2 \in 1 .. Depth /\ interrupted'[1] = interrupted[2]
      BY <1>3, <1>4, <2>3
    <3>2. Nested(was, interrupted[2])
      BY <1>3, <2>3 DEF IInv, Chain
    <3>3. interrupted[2].rsp <= StackWords - 2
      BY <3>1, Zenon DEF IInv, Room
    <3>4. interrupted[2].rsp \in Int /\ was.rsp \in Int
      BY <1>1, <1>3, <3>1, StateParts DEF Depth
    <3>5. StackWords \in Nat
      BY InterruptsAssumption, Zenon
    <3>6. /\ Now(0)'.gpr = was.gpr /\ Now(0)'.rip = was.rip /\ Now(0)'.rsp = was.rsp
          /\ \A a \in was.rsp .. (StackWords - 1) : Now(0)'.stack[a] = was.stack[a]
      BY <1>1, NowParts, Zenon
    <3>7. Nested(Now(0)', interrupted[2])
      <4> HIDE DEF was
      <4> QED BY <3>2, <3>3, <3>4, <3>5, <3>6, WordsInUse, Zenon
    <3>8. Depth' # 0 /\ Nested(Now(0), interrupted[1])'
      BY <1>3, <1>4, <2>3, <3>1, <3>7
    <3> QED BY <1>4, <2>1, <3>8, Zenon DEF Chain
  <2> QED BY <2>2, <2>3, Zenon
<1> QED BY <1>5, <1>6, <1>8, <1>9, Zenon DEF IInv

-------------------------------------------------------------------------------
\* The steps of kmain, and those that change nothing the invariant is about.
LEMMA KernelSteps ==
  ASSUME IInv, idt_init \/ (\E v \in Handled : isr_register_handler(v)) \/ KernelStep \/ Reset
  PROVE  IInv'
<1>1. rip = <<"kmain">>
  BY Zenon DEF idt_init, isr_register_handler, KernelStep, Reset
<1>2. Depth = 0 /\ Outermost(Now(0))
  <2>1. ~Nested(Now(0), interrupted[1])
    <3>1. rip[1] = "kmain"
      BY <1>1, Zenon
    <3>2. ~OnPath(Now(0), interrupted[1])
      BY <3>1, NowParts, AtPlace, Zenon
    <3> QED BY <3>2, Zenon DEF Nested
  <2> QED BY <2>1, Zenon DEF IInv, Chain
<1>3. /\ UNCHANGED <<gpr, cs, rflags, ss, stack, interrupted, arrived>>
      /\ rip' \in {<<"kmain">>, <<"reset">>}
      /\ rsp' \in (StackWords - 3) .. (StackWords - 2)
  <2>1. rsp \in (StackWords - 3) .. (StackWords - 2)
    BY <1>2, NowParts, Zenon DEF Outermost
  <2> QED BY <1>1, <2>1, Zenon DEF idt_init, isr_register_handler, KernelStep, Reset, cpu
<1>4. TypeOK'
  <2>1. rip' \in Words
    BY <1>3, Zenon DEF Words
  <2>2. rsp' \in Int
    BY <1>3, InterruptsAssumption
  <2> QED BY <1>3, <2>1, <2>2, Zenon DEF IInv, TypeOK
<1>5. Gates'
  BY Zenon DEF IInv, Gates, isr_init, idt_init, isr_register_handler, KernelStep, Reset
<1>6. Depth' = 0 /\ Depth' <= arrived'
  BY <1>2, <1>3, Zenon DEF Depth, IInv, Room
<1>7. Room'
  BY <1>3, <1>6, InterruptsAssumption DEF Room
<1>8. Chain'
  <2>1. Outermost(Now(0)')
    BY <1>3, NowParts, Zenon DEF Outermost
  <2> QED BY <1>6, <2>1 DEF Chain
<1> QED BY <1>4, <1>5, <1>7, <1>8, Zenon DEF IInv

\* kmain starts with the invariant.
LEMMA InitIInv == Init => IInv
<1> SUFFICES ASSUME Init PROVE IInv
  BY Zenon
<1>1. TypeOK
  <2>1. /\ \A r \in GeneralRegs : <<"kmain", r>> \in Words
        /\ rip \in Words /\ cs \in Words /\ rflags \in Words /\ ss \in Words
        /\ <<"kmain", "word">> \in Words
    BY DEF Init, Words, Num
  <2>2. gpr \in [GeneralRegs -> Words] /\ stack \in [Addrs -> Words]
    BY <2>1, Zenon DEF Init, Addrs
  <2>3. rsp \in Int /\ interrupted \in Seq(States) /\ arrived \in 0 .. MaxInterrupts
    BY InterruptsAssumption DEF Init
  <2> QED BY <2>1, <2>2, <2>3, Zenon DEF TypeOK
<1>2. Gates
  BY Zenon DEF Init, Gates
<1>3. Depth = 0
  BY Zenon DEF Init, Depth
<1>4. Room
  BY <1>3, InterruptsAssumption DEF Init, Room
<1>5. Chain
  <2>1. rip = <<"kmain">> /\ rsp = StackWords - 2 /\ StackWords \in Nat
    BY InterruptsAssumption, Zenon DEF Init
  <2> QED BY <1>3, <2>1, NowParts DEF Chain, Outermost
<1> QED BY <1>1, <1>2, <1>4, <1>5, Zenon DEF IInv

\* Every step keeps it.
LEMMA StepIInv == IInv /\ [Next]_vars => IInv'
<1> SUFFICES ASSUME IInv, [Next]_vars PROVE IInv'
  BY Zenon
<1>1. CASE idt_init \/ (\E v \in Handled : isr_register_handler(v)) \/ KernelStep \/ Reset
  BY <1>1, KernelSteps, Zenon
<1>2. CASE \E v \in Vectors : Deliver(v)
  BY <1>2, DeliverStep, Zenon
<1>3. CASE EntryStep
  BY <1>3, StubStep, PushRegisterStep, PassRegistersStep, CallHandlerStep, Zenon DEF EntryStep
<1>4. CASE HandlerStep
  BY <1>4, HandlerStepStep, Zenon DEF HandlerStep
<1>5. CASE ExitStep
  BY <1>5, PopRegisterStep, DropCodesStep, IretqStep, Zenon DEF ExitStep
<1>6. CASE UNCHANGED vars
  <2>1. /\ UNCHANGED <<gpr, rip, cs, rflags, ss, rsp, stack, idt, idtr, interrupted, arrived>>
        /\ Depth' = Depth /\ Now(0)' = Now(0)
    BY <1>6, Zenon DEF vars, cpu, Depth, Now
  <2>2. TypeOK' /\ Gates'
    BY <2>1, Zenon DEF IInv, TypeOK, Gates, isr_init
  <2>3. Room' /\ Chain'
    BY <2>1, Zenon DEF IInv, Room, Chain
  <2> QED BY <2>2, <2>3, Zenon DEF IInv
<1> QED BY <1>1, <1>2, <1>3, <1>4, <1>5, <1>6, Zenon DEF Next

\* Every state of the processor and every interrupted one has below it exactly the
\* words that the interrupt and the common path have pushed so far, and the stack
\* never overflows, for every depth of nesting.
THEOREM InterruptsInvariant == Spec => []IInv
<1> QED BY InitIInv, StepIInv, PTL DEF Spec

\* iretq resumes the interrupted code with every register and every word of the
\* stack in use as they were.
THEOREM ResumeTheorem == Spec => ResumesExactly
<1>1. IInv /\ Iretq => LET was == Head(interrupted)
                       IN /\ gpr' = was.gpr /\ rip' = was.rip /\ cs' = was.cs
                          /\ rflags' = was.rflags /\ ss' = was.ss /\ rsp' = was.rsp
                          /\ \A a \in rsp' .. (StackWords - 1) : stack'[a] = was.stack[a]
  <2>1. Head(interrupted) = interrupted[1]
    OBVIOUS
  <2> QED BY <2>1, IretqLoads, Zenon
<1> QED BY <1>1, InterruptsInvariant, PTL DEF ResumesExactly

\* A name of struct Registers stands for one field.
LEMMA FieldAt ==
  ASSUME NEW k \in 1 .. 22, NEW p
  PROVE  Field(p, Registers[k]) = stack[p + k - 1]
<1>1. DOMAIN Registers = 1 .. 22
  BY DEF Registers
<1>2. \A j \in 1 .. 22 : Registers[j] = Registers[k] => j = k
  BY DEF Registers
<1>3. (CHOOSE j \in DOMAIN Registers : Registers[j] = Registers[k]) = k
  BY <1>1, <1>2, Zenon
<1> QED BY <1>3, Zenon DEF Field

\* The fields of struct Registers that follow the general registers, and the order
\* of those.
LEMMA RegisterNames ==
  /\ Registers[16] = "interrupt_num" /\ Registers[17] = "error_code" /\ Registers[18] = "rip"
  /\ Registers[19] = "cs" /\ Registers[20] = "rflags" /\ Registers[21] = "rsp" /\ Registers[22] = "ss"
  /\ \A k \in 1 .. 15 : Registers[k] = Pushes[16 - k]
<1>1. \A k \in 1 .. 15 : Registers[k] = Pushes[16 - k]
  BY DEF Registers, Pushes
<1> QED BY <1>1, Zenon DEF Registers

\* The struct that isr_handler is given holds the interrupted state, for every
\* interrupt at every depth, and the stack is aligned at the call.
THEOREM HandlerTheorem == Spec => []HandlerSeesRegisters
<1>1. IInv => HandlerSeesRegisters
  <2> DEFINE was == interrupted[1]
             b == Base(was)
             p == gpr["rdi"][2]
  <2> SUFFICES ASSUME IInv, rip = <<"call">>
               PROVE  /\ \A r \in GeneralRegs : Field(p, r) = was.gpr[r]
                      /\ Field(p, "interrupt_num") = Num(was.vector)
                      /\ Field(p, "error_code") = ErrorWord(was)
                      /\ Field(p, "rip") = was.rip /\ Field(p, "cs") = was.cs
                      /\ Field(p, "rflags") = was.rflags
                      /\ Field(p, "rsp") = <<"rsp", was.rsp>> /\ Field(p, "ss") = was.ss
                      /\ rsp % 2 = 0
    <3>1. Head(interrupted) = interrupted[1]
      OBVIOUS
    <3> QED BY <3>1, Zenon DEF HandlerSeesRegisters, ErrorWord
  <2>2. Depth # 0 /\ OnPath(Now(0), was) /\ TypeOK /\ Room
    BY InPath, Zenon
  <2>3. b \in Int /\ b % 2 = 0
    BY <2>2, FrameBounds
  <2>4. Called(Now(0), was, 22)
    BY <2>2, AtPlace, NowParts, Zenon
  <2>5. p = b - 22 /\ rsp = b - 22 /\ \A n \in 1 .. 22 : stack[b - n] = Saved(was, n)
    <3>1. gpr["rdi"] = <<"rsp", b - 22>> /\ rsp = b - 22 /\ Intact(stack, was, 22)
      BY <2>4, NowParts, Zenon DEF Called
    <3>2. p = b - 22
      BY <3>1
    <3> QED BY <3>1, <3>2, Zenon DEF Intact
  <2> HIDE DEF was, b, p
  <2>6. rsp % 2 = 0
    BY <2>3, <2>5
  <2>7. ASSUME NEW k \in 1 .. 22 PROVE Field(p, Registers[k]) = Saved(was, 23 - k)
    <3>1. p + k - 1 = b - (23 - k) /\ 23 - k \in 1 .. 22
      BY <2>3, <2>5
    <3> QED BY <2>5, <3>1, FieldAt, Zenon
  <2>8. /\ Field(p, "interrupt_num") = Saved(was, 7) /\ Field(p, "error_code") = Saved(was, 6)
        /\ Field(p, "rip") = Saved(was, 5) /\ Field(p, "cs") = Saved(was, 4)
        /\ Field(p, "rflags") = Saved(was, 3) /\ Field(p, "rsp") = Saved(was, 2)
        /\ Field(p, "ss") = Saved(was, 1)
    BY <2>7, RegisterNames
  <2>9. ASSUME NEW r \in GeneralRegs PROVE Field(p, r) = was.gpr[r]
    <3>1. PICK k \in 1 .. 15 : r = Pops[k]
      BY RegisterOrder, Zenon
    <3>2. r = Registers[k] /\ r = Pushes[16 - k]
      BY <3>1, RegisterOrder, RegisterNames
    <3>3. k \in 1 .. 22 /\ 23 - k \notin 1 .. 7 /\ (23 - k) - 7 = 16 - k
      OBVIOUS
    <3>4. Field(p, r) = Saved(was, 23 - k)
      BY <2>7, <3>2, <3>3, Zenon
    <3>5. Saved(was, 23 - k) = was.gpr[Pushes[16 - k]]
      BY <3>3 DEF Saved
    <3> QED BY <3>2, <3>4, <3>5, Zenon
  <2> QED BY <2>6, <2>8, <2>9 DEF Saved
<1> QED BY <1>1, InterruptsInvariant, PTL
===============================================================================
