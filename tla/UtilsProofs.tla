----------------------------- MODULE UtilsProofs ------------------------------
(***************************************************************************)
(* The routines of src/utils, for every instance.  Console, for every      *)
(* number of sinks, characters, calls and nested interrupts: the default   *)
(* sink is the right one at every depth, the text of log messages and      *)
(* panics reaches only the debug sink, and the ids of sinks keep their     *)
(* meaning.  MemOps, for every memory size, byte and quadword width: the   *)
(* loop invariants are inductive and give the results.                     *)
(***************************************************************************)
EXTENDS Console, MemOps, TLAPS

IdOrNone == -1 .. (SINK_MAX - 1)
Place(a) ==
  \/ a.op = "kprintf" /\ a.at = "text"
  \/ a.op = "klogf" /\ a.at \in {"save", "set", "text"}
  \/ a.op = "panic" /\ a.at \in {"set", "text", "hlt"}
  \/ a.op = "isr" /\ a.at \in {"handler", "log", "other", "exception", "panic", "return"}
Ops == {"kprintf", "klogf", "panic", "isr"}
Places == {"save", "set", "text", "hlt", "handler", "log", "other", "exception", "panic", "return"}
Activations ==
  {a \in [op : Ops, at : Places, left : Int, prev : IdOrNone] : Place(a)}

TypeOK ==
  /\ sinks \in [Ids -> Callbacks \cup {NULL}] /\ curr_idx \in IdOrNone
  /\ default_sink \in IdOrNone /\ chosen \in IdOrNone /\ debug_sink \in IdOrNone
  /\ serial_result \in [ok : BOOLEAN, id : IdOrNone]
  /\ current_level \in Int /\ wild \in BOOLEAN
  /\ stack \in Seq(Activations)

\* While kmain boots, nothing else runs.
BootFirst == boot # <<>> => stack = <<>>

\* Activation a has the default sink set to the debug sink.
Writing(a) ==
  \/ a.op = "klogf" /\ a.at = "text"
  \/ a.op = "panic" /\ a.at # "set"

\* Some activation of s below the first k has done so.
Borrowed(s, k) == \E j \in DOMAIN s : j > k /\ Writing(s[j])

\* The default sink that those activations leave.
Left(s, k) == IF Borrowed(s, k) THEN debug_sink ELSE chosen

\* Activation a holds the default sink that it is to restore.
Holds(a) == a.op = "klogf" /\ a.at \in {"set", "text"}

\* Each log message holds what the activations below it have left.
Nested(s) == \A k \in DOMAIN s : Holds(s[k]) => s[k].prev = Left(s, k)

\* Slots above curr_idx are unused; the debug sink is registered when the boot
\* ends, and its slot is its own.
Registered ==
  /\ \A id \in Ids : id > curr_idx => sinks[id] = NULL
  /\ boot \in {<<"serial_init", "set_default_sink", "klog_set_level">>,
               <<"set_default_sink", "klog_set_level">>, <<"klog_set_level">>, <<>>}
  /\ Len(boot) = 3 => curr_idx = -1
  /\ boot # <<>> => curr_idx <= 0 /\ debug_sink = -1
  /\ boot = <<>> => /\ debug_sink >= 0 /\ debug_sink <= curr_idx
                    /\ sinks[debug_sink] \in {"debug_sink_write", NULL}

\* After a wild call nothing follows.
WildEnds == \A r \in received : r[1] = "wild" => wild

IInv == /\ TypeOK /\ BootFirst /\ SinkDiscipline /\ Nested(stack)
        /\ Registered /\ WildEnds /\ RightReceiver

-------------------------------------------------------------------------------
\* A stack with one more activation on top.
LEMMA Push ==
  ASSUME NEW S, NEW s \in Seq(S), NEW x \in S
  PROVE  /\ <<x>> \o s \in Seq(S)
         /\ Len(<<x>> \o s) = Len(s) + 1
         /\ DOMAIN (<<x>> \o s) = 1 .. (Len(s) + 1)
         /\ (<<x>> \o s)[1] = x
         /\ \A k \in 1 .. Len(s) : (<<x>> \o s)[k + 1] = s[k]
         /\ <<x>> \o s # <<>>
         /\ Head(<<x>> \o s) = x
         /\ Tail(<<x>> \o s) = s
OBVIOUS

\* A stack that is not empty is its head on top of its tail.
LEMMA Pop ==
  ASSUME NEW S, NEW s \in Seq(S), s # <<>>
  PROVE  /\ Head(s) \in S
         /\ Tail(s) \in Seq(S)
         /\ s = <<Head(s)>> \o Tail(s)
OBVIOUS

\* What one more activation on top changes of Borrowed.
LEMMA PushBorrowed ==
  ASSUME NEW s \in Seq(Activations), NEW x \in Activations
  PROVE  /\ Borrowed(<<x>> \o s, 0) <=> Writing(x) \/ Borrowed(s, 0)
         /\ \A k \in 0 .. Len(s) : Borrowed(<<x>> \o s, k + 1) <=> Borrowed(s, k)
<1> DEFINE t == <<x>> \o s
<1>1. /\ Len(t) = Len(s) + 1 /\ DOMAIN t = 1 .. (Len(s) + 1) /\ t[1] = x
      /\ \A k \in 1 .. Len(s) : t[k + 1] = s[k]
  BY Push
<1>2. DOMAIN s = 1 .. Len(s) /\ Len(s) \in Nat
  OBVIOUS
<1> HIDE DEF t
<1>3. ASSUME NEW j \in 1 .. (Len(s) + 1), j # 1
      PROVE  j - 1 \in 1 .. Len(s) /\ t[j] = s[j - 1]
  <2>1. j - 1 \in 1 .. Len(s) /\ (j - 1) + 1 = j
    BY <1>2, <1>3
  <2> QED BY <2>1, <1>1, Zenon
<1>4. ASSUME NEW k \in 0 .. Len(s), Borrowed(t, k + 1) PROVE Borrowed(s, k)
  <2>1. PICK j \in DOMAIN t : j > k + 1 /\ Writing(t[j])
    BY <1>4, Zenon DEF Borrowed
  <2>2. j \in 1 .. (Len(s) + 1) /\ j # 1
    BY <2>1, <1>1, <1>2
  <2>3. j - 1 \in DOMAIN s /\ j - 1 > k /\ Writing(s[j - 1])
    BY <2>1, <2>2, <1>2, <1>3
  <2> QED BY <2>3, Zenon DEF Borrowed
<1>5. ASSUME NEW k \in 0 .. Len(s), Borrowed(s, k) PROVE Borrowed(t, k + 1)
  <2>1. PICK j \in DOMAIN s : j > k /\ Writing(s[j])
    BY <1>5, Zenon DEF Borrowed
  <2>2. j + 1 \in DOMAIN t /\ j + 1 > k + 1 /\ t[j + 1] = s[j]
    BY <2>1, <1>1, <1>2
  <2> QED BY <2>1, <2>2, Zenon DEF Borrowed
<1>6. Borrowed(t, 0) <=> Writing(x) \/ Borrowed(t, 1)
  <2>1. ASSUME Borrowed(t, 0), ~Writing(x) PROVE Borrowed(t, 1)
    <3>1. PICK j \in DOMAIN t : j > 0 /\ Writing(t[j])
      BY <2>1, Zenon DEF Borrowed
    <3>2. j > 1
      BY <3>1, <2>1, <1>1, <1>2
    <3> QED BY <3>1, <3>2, Zenon DEF Borrowed
  <2>2. ASSUME Writing(x) PROVE Borrowed(t, 0)
    BY <2>2, <1>1, <1>2 DEF Borrowed
  <2>3. ASSUME Borrowed(t, 1) PROVE Borrowed(t, 0)
    <3>1. PICK j \in DOMAIN t : j > 1 /\ Writing(t[j])
      BY <2>3, Zenon DEF Borrowed
    <3>2. j > 0
      BY <3>1, <1>1, <1>2
    <3> QED BY <3>1, <3>2, Zenon DEF Borrowed
  <2> QED BY <2>1, <2>2, <2>3, Zenon
<1>7. Borrowed(t, 1) <=> Borrowed(s, 0)
  <2>1. 0 \in 0 .. Len(s) /\ 0 + 1 = 1
    BY <1>2
  <2> QED BY <2>1, <1>4, <1>5, Zenon
<1> QED BY <1>4, <1>5, <1>6, <1>7, Zenon DEF t

\* What one more activation on top changes of Nested.
LEMMA PushNested ==
  ASSUME NEW s \in Seq(Activations), NEW x \in Activations
  PROVE  Nested(<<x>> \o s) <=> Nested(s) /\ (Holds(x) => x.prev = Left(s, 0))
<1> DEFINE t == <<x>> \o s
<1>1. /\ Len(t) = Len(s) + 1 /\ DOMAIN t = 1 .. (Len(s) + 1) /\ t[1] = x
      /\ \A k \in 1 .. Len(s) : t[k + 1] = s[k]
  BY Push
<1>2. DOMAIN s = 1 .. Len(s) /\ Len(s) \in Nat
  OBVIOUS
<1>3. \A k \in 0 .. Len(s) : Left(t, k + 1) = Left(s, k)
  BY PushBorrowed, Zenon DEF Left
<1> HIDE DEF t
<1>4. Left(t, 1) = Left(s, 0)
  <2>1. 0 \in 0 .. Len(s) /\ 0 + 1 = 1
    BY <1>2
  <2> QED BY <2>1, <1>3, Zenon
<1>5. ASSUME Nested(t) PROVE Nested(s) /\ (Holds(x) => x.prev = Left(s, 0))
  <2>1. ASSUME NEW k \in DOMAIN s, Holds(s[k]) PROVE s[k].prev = Left(s, k)
    <3>1. k \in 1 .. Len(s) /\ k \in 0 .. Len(s) /\ k + 1 \in DOMAIN t
      BY <1>1, <1>2
    <3> QED BY <3>1, <2>1, <1>1, <1>3, <1>5, Zenon DEF Nested
  <2>2. 1 \in DOMAIN t
    BY <1>1, <1>2
  <2> QED BY <2>1, <2>2, <1>1, <1>4, <1>5, Zenon DEF Nested
<1>6. ASSUME Nested(s), Holds(x) => x.prev = Left(s, 0) PROVE Nested(t)
  <2>1. ASSUME NEW k \in DOMAIN t, Holds(t[k]) PROVE t[k].prev = Left(t, k)
    <3>1. CASE k = 1
      BY <3>1, <2>1, <1>1, <1>4, <1>6, Zenon
    <3>2. CASE k # 1
      <4>1. k - 1 \in DOMAIN s /\ k - 1 \in 0 .. Len(s) /\ (k - 1) + 1 = k /\ k - 1 \in 1 .. Len(s)
        BY <3>2, <1>1, <1>2
      <4>2. t[k] = s[k - 1] /\ Left(t, k) = Left(s, k - 1)
        BY <4>1, <1>1, <1>3, Zenon
      <4> QED BY <4>1, <4>2, <2>1, <1>6, Zenon DEF Nested
    <3> QED BY <3>1, <3>2, Zenon
  <2> QED BY <2>1, Zenon DEF Nested
<1> QED BY <1>5, <1>6, Zenon DEF t

-------------------------------------------------------------------------------
\* SinkDiscipline in terms of Left.
LEMMA DisciplineIsLeft ==
  ASSUME stack \in Seq(Activations)
  PROVE  SinkDiscipline <=> default_sink = Left(stack, 0)
<1>1. DOMAIN stack = 1 .. Len(stack) /\ Len(stack) \in Nat
  OBVIOUS
<1>2. Borrowed(stack, 0) <=> \E k \in DOMAIN stack : Writing(stack[k])
  BY <1>1 DEF Borrowed
<1> QED BY <1>2, Zenon DEF SinkDiscipline, Left, Writing

\* A step that leaves the debug sink and the choice of kmain alone, and the
\* default sink as its new stack wants it.
LEMMA StackStep ==
  ASSUME stack' \in Seq(Activations), UNCHANGED <<debug_sink, chosen>>,
         default_sink' = Left(stack', 0), Nested(stack')
  PROVE  SinkDiscipline' /\ Nested(stack)'
<1>1. \A k : Left(stack, k)' = Left(stack', k)
  BY Zenon DEF Left, Borrowed
<1>2. Nested(stack)'
  BY <1>1, Zenon DEF Nested
<1>3. DOMAIN stack' = 1 .. Len(stack') /\ Len(stack') \in Nat
  OBVIOUS
<1>4. Borrowed(stack', 0) <=> \E k \in DOMAIN stack' : Writing(stack'[k])
  BY <1>3 DEF Borrowed
<1> QED BY <1>2, <1>4, Zenon DEF SinkDiscipline, Left, Writing

\* New activations are activations; none of them has touched the default sink.
LEMMA ActFacts ==
  /\ Act("kprintf", "text") \in Activations
  /\ Act("klogf", "save") \in Activations
  /\ Act("panic", "set") \in Activations
  /\ \A kind \in {"handler", "other", "exception"} : Act("isr", kind) \in Activations
  /\ \A o, at : Act(o, at).op = o /\ Act(o, at).at = at
<1>1. -1 \in IdOrNone /\ Chars \in Int
  BY ConsoleAssumption DEF IdOrNone
<1>2. ASSUME NEW o \in Ops, NEW at \in Places
      PROVE  Act(o, at) \in [op : Ops, at : Places, left : Int, prev : IdOrNone]
  BY <1>1, Zenon DEF Act
<1>3. \A o, at : Act(o, at).op = o /\ Act(o, at).at = at
  BY Zenon DEF Act
<1>4. ASSUME NEW o \in Ops, NEW at \in Places, Place(Act(o, at))
      PROVE  Act(o, at) \in Activations
  BY <1>2, <1>4, Zenon DEF Activations
<1>5. /\ Place(Act("kprintf", "text")) /\ Place(Act("klogf", "save")) /\ Place(Act("panic", "set"))
      /\ \A kind \in {"handler", "other", "exception"} : Place(Act("isr", kind))
  BY <1>3 DEF Place
<1>6. /\ Act("kprintf", "text") \in Activations /\ Act("klogf", "save") \in Activations
      /\ Act("panic", "set") \in Activations
  BY <1>4, <1>5, Zenon DEF Ops, Places
<1>7. \A kind \in {"handler", "other", "exception"} : Act("isr", kind) \in Activations
  BY <1>4, <1>5, Zenon DEF Ops, Places
<1> QED BY <1>3, <1>6, <1>7, Zenon

\* A new activation on top that neither writes nor holds a sink.
LEMMA PushIdle ==
  ASSUME NEW s \in Seq(Activations), NEW x \in Activations, Nested(s), ~Writing(x), ~Holds(x)
  PROVE  /\ <<x>> \o s \in Seq(Activations)
         /\ Nested(<<x>> \o s)
         /\ Left(<<x>> \o s, 0) = Left(s, 0)
         /\ <<x>> \o s # <<>>
BY Push, PushBorrowed, PushNested, Zenon DEF Left

\* The stack after a call of klogf.
LEMMA KlogfStack ==
  ASSUME NEW s \in Seq(Activations), Nested(s), NEW level
  PROVE  /\ klogf(level, s) \in Seq(Activations)
         /\ Nested(klogf(level, s))
         /\ Left(klogf(level, s), 0) = Left(s, 0)
<1>1. /\ Act("klogf", "save") \in Activations /\ ~Writing(Act("klogf", "save"))
      /\ ~Holds(Act("klogf", "save"))
  BY ActFacts DEF Writing, Holds
<1>2. /\ Act("panic", "set") \in Activations /\ ~Writing(Act("panic", "set"))
      /\ ~Holds(Act("panic", "set"))
  BY ActFacts, Zenon DEF Writing, Holds
<1> QED BY <1>1, <1>2, PushIdle, Zenon DEF klogf

\* The top of the stack, and what the invariant says of it.
LEMMA TopFacts ==
  ASSUME IInv, stack # <<>>
  PROVE  /\ Head(stack) \in Activations /\ Tail(stack) \in Seq(Activations)
         /\ Nested(Tail(stack)) /\ (Holds(Head(stack)) => Head(stack).prev = Left(Tail(stack), 0))
         /\ default_sink = IF Writing(Head(stack)) THEN debug_sink ELSE Left(Tail(stack), 0)
         /\ boot = <<>>
<1>1. /\ Head(stack) \in Activations /\ Tail(stack) \in Seq(Activations)
      /\ stack = <<Head(stack)>> \o Tail(stack)
  BY Pop, Zenon DEF IInv, TypeOK
<1>2. Nested(Tail(stack)) /\ (Holds(Head(stack)) => Head(stack).prev = Left(Tail(stack), 0))
  BY <1>1, PushNested, Zenon DEF IInv
<1>3. Borrowed(stack, 0) <=> Writing(Head(stack)) \/ Borrowed(Tail(stack), 0)
  BY <1>1, PushBorrowed, Zenon
<1>4. default_sink = Left(stack, 0)
  BY DisciplineIsLeft, Zenon DEF IInv, TypeOK
<1>5. default_sink = IF Writing(Head(stack)) THEN debug_sink ELSE Left(Tail(stack), 0)
  BY <1>3, <1>4, Zenon DEF Left
<1>6. boot = <<>>
  BY Zenon DEF IInv, BootFirst
<1> QED BY <1>1, <1>2, <1>5, <1>6, Zenon

-------------------------------------------------------------------------------
\* The default sink that a well-typed stack wants is a sink or none.
LEMMA LeftType ==
  ASSUME TypeOK, NEW s
  PROVE  Left(s, 0) \in IdOrNone
BY Zenon DEF Left, TypeOK

\* A step of running code: only the stack, the default sink and the port change.
LEMMA RunningStep ==
  ASSUME IInv, boot = <<>>, stack' \in Seq(Activations), Nested(stack'),
         default_sink' = Left(stack', 0),
         UNCHANGED <<registry, logging, hist, received, wild>>
  PROVE  IInv'
<1> USE DEF registry, logging, hist
<1>1. default_sink' \in IdOrNone
  BY LeftType, Zenon DEF IInv
<1>2. TypeOK'
  BY <1>1, Zenon DEF IInv, TypeOK
<1>3. SinkDiscipline' /\ Nested(stack)'
  BY StackStep, Zenon
<1>4. BootFirst'
  BY Zenon DEF BootFirst
<1>5. Registered'
  BY Zenon DEF IInv, Registered
<1>6. WildEnds' /\ RightReceiver'
  BY Zenon DEF IInv, WildEnds, RightReceiver
<1> QED BY <1>2, <1>3, <1>4, <1>5, <1>6, Zenon DEF IInv

\* klogf saves the default sink.
LEMMA SaveSinkStep == ASSUME IInv, SaveSink PROVE IInv'
<1> DEFINE h == Head(stack)
           t == Tail(stack)
           x == [At("set") EXCEPT !.prev = default_sink]
<1>1. h \in Activations /\ h.op = "klogf" /\ h.at = "save" /\ stack # <<>>
  BY TopFacts, Zenon DEF SaveSink
<1>2. /\ t \in Seq(Activations) /\ Nested(t) /\ boot = <<>>
      /\ default_sink = Left(t, 0)
  BY <1>1, TopFacts, Zenon DEF Writing
<1>3. x \in Activations /\ Holds(x) /\ ~Writing(x) /\ x.prev = default_sink
  BY <1>1, Zenon DEF At, Activations, Place, Ops, Places, Holds, Writing, IInv, TypeOK
<1>4. /\ stack' = <<x>> \o t /\ UNCHANGED default_sink
      /\ UNCHANGED <<registry, logging, hist, received, wild>>
  BY Zenon DEF SaveSink
<1> HIDE DEF h, t, x
<1>5. stack' \in Seq(Activations) /\ Nested(stack') /\ default_sink' = Left(stack', 0)
  BY <1>2, <1>3, <1>4, Push, PushBorrowed, PushNested, Zenon DEF Left
<1> QED BY <1>2, <1>4, <1>5, RunningStep, Zenon

\* klogf or a panic selects the debug sink.
LEMMA SetSinkStep == ASSUME IInv, SetSink PROVE IInv'
<1> DEFINE h == Head(stack)
           t == Tail(stack)
           x == At("text")
<1>1. h \in Activations /\ h.op \in {"klogf", "panic"} /\ h.at = "set" /\ stack # <<>>
  BY TopFacts, Zenon DEF SetSink, Activations, Place
<1>2. /\ t \in Seq(Activations) /\ Nested(t) /\ boot = <<>>
      /\ (Holds(h) => h.prev = Left(t, 0))
  BY <1>1, TopFacts, Zenon
<1>3. x \in Activations /\ (Holds(x) => Holds(h)) /\ Writing(x) /\ x.prev = h.prev
  BY <1>1, Zenon DEF At, Activations, Place, Ops, Places, Holds, Writing
<1>4. /\ stack' = <<x>> \o t /\ default_sink' = debug_sink
      /\ UNCHANGED <<registry, logging, hist, received, wild>>
  BY Zenon DEF SetSink
<1> HIDE DEF h, t, x
<1>5. stack' \in Seq(Activations) /\ Nested(stack') /\ default_sink' = Left(stack', 0)
  BY <1>2, <1>3, <1>4, Push, PushBorrowed, PushNested, Zenon DEF Left
<1> QED BY <1>2, <1>4, <1>5, RunningStep, Zenon

\* The end of a message.
LEMMA TextEndStep == ASSUME IInv, TextEnd PROVE IInv'
<1> DEFINE h == Head(stack)
           t == Tail(stack)
           x == At("hlt")
<1>1. h \in Activations /\ h.op \in {"kprintf", "klogf", "panic"} /\ h.at = "text" /\ stack # <<>>
  BY TopFacts, Zenon DEF TextEnd, Activations, Place
<1>2. /\ t \in Seq(Activations) /\ Nested(t) /\ boot = <<>>
      /\ (Holds(h) => h.prev = Left(t, 0))
      /\ default_sink = IF Writing(h) THEN debug_sink ELSE Left(t, 0)
  BY <1>1, TopFacts, Zenon
<1>3. UNCHANGED <<registry, logging, hist, received, wild>>
  BY Zenon DEF TextEnd
<1>4. CASE h.op = "panic"
  <2>1. x \in Activations /\ ~Holds(x) /\ Writing(x) /\ Writing(h)
    BY <1>1, <1>4, Zenon DEF At, Activations, Place, Ops, Places, Holds, Writing
  <2>2. stack' = <<x>> \o t /\ default_sink' = debug_sink
    BY <1>2, <1>4, <2>1, Zenon DEF TextEnd
  <2> HIDE DEF h, t, x
  <2>3. stack' \in Seq(Activations) /\ Nested(stack') /\ default_sink' = Left(stack', 0)
    BY <1>2, <2>1, <2>2, Push, PushBorrowed, PushNested, Zenon DEF Left
  <2> QED BY <1>2, <1>3, <2>3, RunningStep, Zenon
<1>5. CASE h.op # "panic"
  <2>1. stack' = t /\ default_sink' = Left(t, 0)
    BY <1>1, <1>2, <1>5, Zenon DEF TextEnd, Writing, Holds
  <2> QED BY <1>2, <1>3, <2>1, RunningStep, Zenon
<1> QED BY <1>4, <1>5, Zenon

\* An interrupt comes.
LEMMA InterruptStep == ASSUME IInv, Interrupt PROVE IInv'
<1>1. PICK kind \in {"handler", "other", "exception"} : stack' = <<Act("isr", kind)>> \o stack
  BY Zenon DEF Interrupt
<1> DEFINE x == Act("isr", kind)
<1>2. x \in Activations /\ ~Holds(x) /\ ~Writing(x)
  BY ActFacts DEF Holds, Writing
<1>3. default_sink = Left(stack, 0) /\ stack \in Seq(Activations) /\ Nested(stack)
  BY DisciplineIsLeft, Zenon DEF IInv, TypeOK
<1> HIDE DEF x
<1>4. stack' \in Seq(Activations) /\ Nested(stack') /\ Left(stack', 0) = Left(stack, 0)
  BY <1>1, <1>2, <1>3, PushIdle, Zenon DEF x
<1>5. /\ boot = <<>> /\ boot' = <<>>
      /\ UNCHANGED <<registry, logging, default_sink, received, wild, chosen, serial_result>>
  BY Zenon DEF Interrupt
<1> USE DEF registry, logging
<1>6. SinkDiscipline' /\ Nested(stack)'
  BY <1>3, <1>4, <1>5, StackStep, Zenon
<1>7. TypeOK' /\ BootFirst' /\ Registered' /\ WildEnds' /\ RightReceiver'
  BY <1>4, <1>5, Zenon DEF IInv, TypeOK, BootFirst, Registered, WildEnds, RightReceiver
<1> QED BY <1>6, <1>7, Zenon DEF IInv

\* The next statement of isr_handler.
LEMMA IsrStep == ASSUME IInv, isr_handler PROVE IInv'
<1> DEFINE h == Head(stack)
           t == Tail(stack)
           then(at) == <<At(at)>> \o t
<1>1. h \in Activations /\ h.op = "isr" /\ stack # <<>>
  BY TopFacts, Zenon DEF isr_handler
<1>2. t \in Seq(Activations) /\ Nested(t) /\ boot = <<>> /\ default_sink = Left(t, 0)
  BY <1>1, TopFacts, Zenon DEF Writing
<1>3. /\ UNCHANGED <<registry, logging, hist, received, wild>> /\ default_sink' = default_sink
  BY Zenon DEF isr_handler
<1>4. ASSUME NEW at \in {"log", "return", "panic"}
      PROVE  then(at) \in Seq(Activations) /\ Nested(then(at)) /\ Left(then(at), 0) = Left(t, 0)
  <2>1. At(at) \in Activations /\ ~Holds(At(at)) /\ ~Writing(At(at))
    BY <1>1, Zenon DEF At, Activations, Place, Ops, Places, Holds, Writing
  <2> QED BY <2>1, <1>2, PushIdle, Zenon
<1>5. ASSUME NEW at \in {"log", "return", "panic"}
      PROVE  LET s == <<Act("kprintf", "text")>> \o then(at)
             IN  s \in Seq(Activations) /\ Nested(s) /\ Left(s, 0) = Left(t, 0)
  <2> HIDE DEF then
  <2>1. ~Holds(Act("kprintf", "text")) /\ ~Writing(Act("kprintf", "text"))
    BY ActFacts, Zenon DEF Holds, Writing
  <2> QED BY <2>1, <1>4, ActFacts, PushIdle, Zenon
<1>6. ASSUME NEW at \in {"log", "return", "panic"}, NEW level
      PROVE  LET s == klogf(level, then(at))
             IN  s \in Seq(Activations) /\ Nested(s) /\ Left(s, 0) = Left(t, 0)
  <2> HIDE DEF then
  <2> QED BY <1>4, KlogfStack, Zenon
<1>7. \/ \E at \in {"log", "return", "panic"} :
           \/ stack' = then(at)
           \/ stack' = <<Act("kprintf", "text")>> \o then(at)
           \/ \E level \in {DEBUG, INFO, WARN, PANIC} : stack' = klogf(level, then(at))
      \/ stack' = t
  BY Zenon DEF isr_handler
<1> HIDE DEF t, then
<1>8. stack' \in Seq(Activations) /\ Nested(stack') /\ Left(stack', 0) = Left(t, 0)
  BY <1>2, <1>4, <1>5, <1>6, <1>7, Zenon
<1> QED BY <1>2, <1>3, <1>8, RunningStep, Zenon

\* A character of a message.
LEMMA PutcharStep == ASSUME IInv, ~wild, Putchar PROVE IInv'
<1> DEFINE h == Head(stack)
           t == Tail(stack)
           x == [h EXCEPT !.left = @ - 1]
<1>1. /\ h \in Activations /\ h.op \in {"kprintf", "klogf", "panic"} /\ h.at = "text"
      /\ stack # <<>>
  BY TopFacts, Zenon DEF Putchar, Activations, Place
<1>2. /\ t \in Seq(Activations) /\ Nested(t) /\ boot = <<>>
      /\ (Holds(h) => h.prev = Left(t, 0))
      /\ default_sink = IF Writing(h) THEN debug_sink ELSE Left(t, 0)
  BY <1>1, TopFacts, Zenon
<1>3. x \in Activations /\ (Holds(x) <=> Holds(h)) /\ (Writing(x) <=> Writing(h)) /\ x.prev = h.prev
  BY <1>1 DEF Activations, Place, Holds, Writing
<1>4. PICK to \in sink_write(default_sink) :
        received' = received \cup {<<to, h.op>>} /\ wild' = (to = "wild")
  BY Zenon DEF Putchar
<1>5. /\ stack' = <<x>> \o t /\ UNCHANGED <<registry, default_sink, logging, hist>>
  BY Zenon DEF Putchar
<1> USE DEF registry, logging, hist
<1>6. /\ debug_sink \in Ids /\ chosen \in IdOrNone /\ sinks \in [Ids -> Callbacks \cup {NULL}]
      /\ sinks[debug_sink] \in {"debug_sink_write", NULL} /\ default_sink \in IdOrNone
  BY <1>2 DEF IInv, TypeOK, Registered, Ids, IdOrNone
<1>7. h.op \in {"klogf", "panic"} => to \in {"debug_sink_write", NULL}
  <2> SUFFICES ASSUME h.op \in {"klogf", "panic"} PROVE to \in {"debug_sink_write", NULL}
    BY Zenon
  <2>1. default_sink = debug_sink
    BY <1>1, <1>2, Zenon DEF Writing
  <2> HIDE DEF h
  <2> QED BY <2>1, <1>4, <1>6, ConsoleAssumption DEF sink_write, Ids
<1>8. to = "wild" => h.op = "kprintf" /\ chosen = -1
  <2> SUFFICES ASSUME to = "wild" PROVE h.op = "kprintf" /\ chosen = -1
    BY Zenon
  <2>1. h.op = "kprintf"
    BY <1>1, <1>7, Zenon DEF NULL
  <2>2. default_sink < 0
    BY <1>4, <1>6, ConsoleAssumption DEF sink_write, Ids, IdOrNone, Callbacks, NULL
  <2>3. default_sink \in {debug_sink, chosen}
    BY <1>2, Zenon DEF Left
  <2> QED BY <2>1, <2>2, <2>3, <1>6, ConsoleAssumption DEF Ids, IdOrNone
<1> HIDE DEF h, t, x
<1>9. stack' \in Seq(Activations) /\ Nested(stack') /\ default_sink' = Left(stack', 0)
  BY <1>2, <1>3, <1>5, Push, PushBorrowed, PushNested, Zenon DEF Left
<1>10. SinkDiscipline' /\ Nested(stack)'
  BY <1>5, <1>9, StackStep, Zenon
<1>11. TypeOK' /\ BootFirst' /\ Registered'
  BY <1>2, <1>4, <1>5, <1>9, Zenon DEF IInv, TypeOK, BootFirst, Registered
<1>12. RightReceiver'
  <2>1. ASSUME NEW r \in received'
        PROVE  /\ r[2] \in {"klogf", "panic"} => r[1] \in {"debug_sink_write", NULL}
               /\ r[1] = "wild" => r[2] = "kprintf" /\ chosen' = -1
    <3>1. r \in received \/ r = <<to, h.op>>
      BY <1>4, <2>1, Zenon
    <3>2. CASE r \in received
      BY <3>2, <1>5, Zenon DEF IInv, RightReceiver
    <3>3. CASE r = <<to, h.op>>
      BY <3>3, <1>5, <1>7, <1>8, Zenon
    <3> QED BY <3>1, <3>2, <3>3, Zenon
  <2> QED BY <2>1, Zenon DEF RightReceiver
<1>13. WildEnds'
  <2>1. ASSUME NEW r \in received', r[1] = "wild" PROVE wild'
    <3>1. r \notin received
      BY <2>1, Zenon DEF IInv, WildEnds
    <3>2. r = <<to, h.op>>
      BY <1>4, <2>1, <3>1, Zenon
    <3>3. to = "wild"
      BY <2>1, <3>2, Zenon
    <3> QED BY <1>4, <3>3, Zenon
  <2> QED BY <2>1, Zenon DEF WildEnds
<1> QED BY <1>10, <1>11, <1>12, <1>13, Zenon DEF IInv

-------------------------------------------------------------------------------
\* sink_register takes the slot above curr_idx or changes nothing.
LEMMA Registration ==
  ASSUME TypeOK, NEW callback \in Callbacks, sink_register(callback)
  PROVE  /\ RegisterResult \in IdOrNone
         /\ sinks' \in [Ids -> Callbacks \cup {NULL}] /\ curr_idx' \in IdOrNone
         /\ curr_idx' >= curr_idx /\ curr_idx' <= curr_idx + 1
         /\ \A id \in Ids : id # RegisterResult => sinks'[id] = sinks[id]
         /\ RegisterResult # -1 => /\ RegisterResult = curr_idx + 1 /\ curr_idx' = RegisterResult
                                  /\ RegisterResult \in Ids /\ sinks'[RegisterResult] = callback
<1> USE ConsoleAssumption
<1>1. CASE RegisterResult = -1
  BY <1>1 DEF sink_register, registry, TypeOK, IdOrNone
<1>2. CASE RegisterResult # -1
  <2>1. RegisterResult = curr_idx + 1 /\ curr_idx + 1 < SINK_MAX
    BY <1>2 DEF RegisterResult, TypeOK, IdOrNone
  <2>2. RegisterResult \in Ids /\ RegisterResult \in IdOrNone
    BY <2>1 DEF TypeOK, IdOrNone, Ids
  <2> QED BY <1>2, <2>1, <2>2 DEF sink_register, TypeOK, IdOrNone
<1> QED BY <1>1, <1>2, Zenon

\* Slots above curr_idx stay unused, and the debug sink's slot keeps its callback.
LEMMA SlotsKept ==
  ASSUME TypeOK, \A id \in Ids : id > curr_idx => sinks[id] = NULL,
         NEW callback \in Callbacks, sink_register(callback)
  PROVE  /\ \A id \in Ids : id > curr_idx' => sinks'[id] = NULL
         /\ \A id \in Ids : id <= curr_idx => sinks'[id] = sinks[id]
<1>1. ASSUME NEW id \in Ids, id > curr_idx' PROVE sinks'[id] = NULL
  BY <1>1, Registration, ConsoleAssumption DEF TypeOK, IdOrNone, Ids
<1>2. ASSUME NEW id \in Ids, id <= curr_idx PROVE sinks'[id] = sinks[id]
  BY <1>2, Registration, ConsoleAssumption DEF TypeOK, IdOrNone, Ids
<1> QED BY <1>1, <1>2, Zenon

\* With an empty stack the default sink is the chosen one.
LEMMA EmptyStack ==
  ASSUME stack = <<>>
  PROVE  /\ SinkDiscipline <=> default_sink = chosen
         /\ Nested(stack) /\ stack \in Seq(Activations)
BY DEF SinkDiscipline, Nested

\* A step that leaves the stack empty.
LEMMA IdleStep ==
  ASSUME IInv, stack = <<>>, stack' = <<>>, TypeOK', Registered', default_sink' = chosen',
         received' = received, wild' = wild, ~wild
  PROVE  IInv'
<1>1. SinkDiscipline' /\ Nested(stack)' /\ BootFirst'
  BY DEF SinkDiscipline, Nested, BootFirst
<1>2. WildEnds' /\ RightReceiver'
  BY Zenon DEF IInv, WildEnds, RightReceiver
<1> QED BY <1>1, <1>2, Zenon DEF IInv

\* The statements of kmain that come first.
LEMMA BootStep == ASSUME IInv, ~wild, Boot PROVE IInv'
<1> USE DEF registry, logging
<1>1. stack = <<>> /\ default_sink = chosen
  BY EmptyStack, Zenon DEF IInv, BootFirst, Boot
<1>2. debug_sink = -1 /\ curr_idx <= 0 /\ (Len(boot) = 3 => curr_idx = -1) /\ TypeOK
  BY Zenon DEF IInv, Registered, Boot
<1>3. \/ boot = <<"serial_init", "set_default_sink", "klog_set_level">>
      \/ boot = <<"set_default_sink", "klog_set_level">>
      \/ boot = <<"klog_set_level">>
  BY Zenon DEF IInv, Registered, Boot
<1>4. CASE boot = <<"serial_init", "set_default_sink", "klog_set_level">>
  <2>1. boot' = <<"set_default_sink", "klog_set_level">> /\ serial_init
    BY <1>4 DEF Boot
  <2>2. curr_idx = -1
    BY <1>2, <1>4, Zenon
  <2>3. /\ stack' = <<>> /\ default_sink' = chosen' /\ received' = received /\ wild' = wild
        /\ UNCHANGED <<debug_sink, default_sink, chosen, current_level>>
    BY <1>1, <2>1, Zenon DEF serial_init
  <2>4. \/ /\ sink_register("serial_sink_write")
           /\ serial_result' = [ok |-> TRUE, id |-> RegisterResult]
        \/ serial_result' = [ok |-> FALSE, id |-> -1] /\ UNCHANGED registry
    BY <2>1, Zenon DEF serial_init
  <2>5. TypeOK'
    <3>1. "serial_sink_write" \in Callbacks /\ -1 \in IdOrNone
      BY ConsoleAssumption DEF Callbacks, IdOrNone
    <3>2. /\ serial_result' \in [ok : BOOLEAN, id : IdOrNone]
          /\ sinks' \in [Ids -> Callbacks \cup {NULL}] /\ curr_idx' \in IdOrNone
      <4>1. CASE UNCHANGED registry /\ serial_result' = [ok |-> FALSE, id |-> -1]
        BY <1>2, <3>1, <4>1, Zenon DEF TypeOK
      <4>2. CASE /\ sink_register("serial_sink_write")
                 /\ serial_result' = [ok |-> TRUE, id |-> RegisterResult]
        BY <1>2, <3>1, <4>2, Registration, Zenon
      <4> QED BY <2>4, <4>1, <4>2, Zenon
    <3> QED BY <1>1, <1>2, <2>3, <3>2, Zenon DEF TypeOK
  <2>6. (\A id \in Ids : id > curr_idx => sinks[id] = NULL)' /\ curr_idx' <= 0
    BY <1>2, <2>2, <2>4, Registration, SlotsKept, SMTT(60) DEF IInv, Registered, Callbacks, TypeOK, IdOrNone
  <2>7. Registered'
    BY <2>1, <2>3, <2>6, <1>2 DEF Registered
  <2> QED BY <1>1, <2>3, <2>5, <2>7, IdleStep, Zenon
<1>5. CASE boot = <<"set_default_sink", "klog_set_level">>
  <2>1. boot' = <<"klog_set_level">> /\ kprintf_set_default_sink(serial_result.id)
    BY <1>5 DEF Boot
  <2>2. TypeOK'
    BY <2>1, Zenon DEF IInv, TypeOK, kprintf_set_default_sink
  <2>3. Registered'
    BY <2>1, <1>2 DEF IInv, Registered, kprintf_set_default_sink
  <2> QED BY <1>1, <2>1, <2>2, <2>3, IdleStep, Zenon DEF kprintf_set_default_sink
<1>6. CASE boot = <<"klog_set_level">>
  <2>1. boot' = <<>> /\ klog_set_level(DEBUG)
    BY <1>6 DEF Boot
  <2>2. /\ sink_register("debug_sink_write") /\ debug_sink' = RegisterResult
        /\ current_level' = DEBUG
    BY <1>2, <2>1 DEF klog_set_level
  <2>3. RegisterResult # -1
    <3>1. curr_idx + 1 < SINK_MAX /\ curr_idx + 1 \in Ids
      BY <1>2, ConsoleAssumption DEF TypeOK, IdOrNone, Ids
    <3>2. sinks[curr_idx + 1] = NULL
      BY <3>1 DEF IInv, Registered, TypeOK, IdOrNone
    <3> QED BY <1>2, <3>1, <3>2, ConsoleAssumption DEF RegisterResult, TypeOK, IdOrNone
  <2>4. "debug_sink_write" \in Callbacks
    BY Zenon DEF Callbacks
  <2>5. TypeOK'
    BY <1>2, <2>1, <2>2, <2>4, Registration DEF TypeOK, klog_set_level, DEBUG
  <2>6. \A id \in Ids : id > curr_idx' => sinks'[id] = NULL
    BY <1>2, <2>2, <2>4, SlotsKept, Zenon DEF IInv, Registered
  <2>7. /\ debug_sink' >= 0 /\ debug_sink' <= curr_idx'
        /\ sinks'[debug_sink'] = "debug_sink_write"
    BY <1>2, <2>2, <2>3, <2>4, Registration DEF Ids
  <2>8. Registered'
    BY <2>1, <2>6, <2>7 DEF Registered
  <2> QED BY <1>1, <2>1, <2>5, <2>8, IdleStep, Zenon DEF klog_set_level
<1> QED BY <1>3, <1>4, <1>5, <1>6, Zenon

\* A call that registers a sink after the boot, or none.
LEMMA RegisteredKept ==
  ASSUME IInv, boot = <<>>, boot' = <<>>, debug_sink' = debug_sink,
         \/ \E callback \in Callbacks : sink_register(callback)
         \/ UNCHANGED registry
  PROVE  /\ Registered'
         /\ sinks' \in [Ids -> Callbacks \cup {NULL}] /\ curr_idx' \in IdOrNone
<1>1. /\ TypeOK /\ debug_sink \in Ids /\ debug_sink <= curr_idx
      /\ sinks[debug_sink] \in {"debug_sink_write", NULL}
      /\ \A id \in Ids : id > curr_idx => sinks[id] = NULL
  BY DEF IInv, Registered, TypeOK, Ids, IdOrNone
<1>2. CASE UNCHANGED registry
  BY <1>1, <1>2 DEF registry, Registered, TypeOK, Ids
<1>3. CASE \E callback \in Callbacks : sink_register(callback)
  <2>1. PICK callback \in Callbacks : sink_register(callback)
    BY <1>3, Zenon
  <2>2. /\ sinks' \in [Ids -> Callbacks \cup {NULL}] /\ curr_idx' \in IdOrNone
        /\ curr_idx' >= curr_idx
    BY <1>1, <2>1, Registration, Zenon
  <2>3. /\ \A id \in Ids : id > curr_idx' => sinks'[id] = NULL
        /\ sinks'[debug_sink] = sinks[debug_sink]
    BY <1>1, <2>1, SlotsKept, Zenon
  <2>4. debug_sink >= 0 /\ debug_sink <= curr_idx'
    BY <1>1, <2>2, ConsoleAssumption DEF TypeOK, Ids, IdOrNone
  <2> QED BY <1>1, <2>2, <2>3, <2>4 DEF Registered
<1> QED BY <1>2, <1>3, Zenon

\* The calls that kmain or the code after it may make.
LEMMA CallStep == ASSUME IInv, ~wild, Call PROVE IInv'
<1> USE DEF registry, logging
<1>1. /\ boot = <<>> /\ boot' = <<>> /\ stack = <<>> /\ default_sink = chosen /\ TypeOK
      /\ debug_sink \in Ids
  BY EmptyStack, ConsoleAssumption DEF Call, IInv, TypeOK, Registered, Ids, IdOrNone
<1>2. CASE serial_init
  <2>1. \/ \E callback \in Callbacks : sink_register(callback)
        \/ UNCHANGED registry
    BY <1>2, Zenon DEF serial_init, Callbacks
  <2>2. /\ stack' = <<>> /\ UNCHANGED <<debug_sink, default_sink, chosen, current_level>>
        /\ received' = received /\ wild' = wild
    BY <1>1, <1>2, Zenon DEF serial_init
  <2>3. serial_result' \in [ok : BOOLEAN, id : IdOrNone]
    <3>1. "serial_sink_write" \in Callbacks /\ -1 \in IdOrNone
      BY ConsoleAssumption DEF Callbacks, IdOrNone
    <3>2. CASE serial_result' = [ok |-> FALSE, id |-> -1]
      BY <3>1, <3>2, Zenon
    <3>3. CASE /\ sink_register("serial_sink_write")
               /\ serial_result' = [ok |-> TRUE, id |-> RegisterResult]
      BY <1>1, <3>1, <3>3, Registration, Zenon
    <3> QED BY <1>2, <3>2, <3>3, Zenon DEF serial_init
  <2>4. Registered' /\ sinks' \in [Ids -> Callbacks \cup {NULL}] /\ curr_idx' \in IdOrNone
    BY <1>1, <2>1, <2>2, RegisteredKept, Zenon
  <2>5. TypeOK'
    BY <1>1, <2>2, <2>3, <2>4, Zenon DEF TypeOK
  <2> QED BY <1>1, <2>2, <2>4, <2>5, IdleStep, Zenon
<1>3. ASSUME NEW level \in {DEBUG, WARN}, klog_set_level(level) PROVE IInv'
  <2>1. /\ UNCHANGED <<registry, debug_sink, default_sink, chosen, serial_result, received, wild>>
        /\ stack' = <<>> /\ current_level' \in Int
    BY <1>1, <1>3, ConsoleAssumption DEF klog_set_level, Ids, DEBUG, WARN
  <2>2. Registered'
    BY <1>1, <2>1, RegisteredKept, Zenon
  <2>3. TypeOK'
    BY <1>1, <2>1, Zenon DEF TypeOK
  <2> QED BY <1>1, <2>1, <2>2, <2>3, IdleStep, Zenon
<1>4. ASSUME NEW id \in 0 .. curr_idx, kprintf_set_default_sink(id) PROVE IInv'
  <2>1. id \in IdOrNone
    BY <1>1, ConsoleAssumption DEF TypeOK, IdOrNone
  <2>2. /\ UNCHANGED <<registry, debug_sink, current_level, serial_result, received, wild>>
        /\ stack' = <<>> /\ default_sink' = id /\ chosen' = id
    BY <1>1, <1>4, Zenon DEF kprintf_set_default_sink
  <2>3. Registered'
    BY <1>1, <2>2, RegisteredKept, Zenon
  <2>4. TypeOK'
    BY <1>1, <2>1, <2>2, Zenon DEF TypeOK
  <2> QED BY <1>1, <2>2, <2>3, <2>4, IdleStep, Zenon
<1>5. ASSUME NEW id \in 0 .. curr_idx, sink_remove(id) PROVE IInv'
  <2>1. /\ sinks' = [sinks EXCEPT ![id] = NULL]
        /\ UNCHANGED <<curr_idx, debug_sink, current_level, default_sink, chosen, serial_result,
                       received, wild>>
        /\ stack' = <<>>
    BY <1>1, <1>5, Zenon DEF sink_remove
  <2>2. sinks' \in [Ids -> Callbacks \cup {NULL}] /\ \A j \in Ids : sinks'[j] \in {sinks[j], NULL}
    BY <1>1, <2>1, Zenon DEF TypeOK
  <2>3. TypeOK'
    BY <1>1, <2>1, <2>2, Zenon DEF TypeOK
  <2>4. Registered'
    BY <1>1, <2>1, <2>2, Zenon DEF IInv, Registered
  <2> QED BY <1>1, <2>1, <2>3, <2>4, IdleStep, Zenon
<1>6. CASE RegisterOther
  <2>1. /\ \E callback \in Callbacks : sink_register(callback)
        /\ UNCHANGED <<debug_sink, current_level, default_sink, chosen, serial_result, received, wild>>
        /\ stack' = <<>>
    BY <1>1, <1>6, Zenon DEF RegisterOther, Callbacks
  <2>2. Registered' /\ sinks' \in [Ids -> Callbacks \cup {NULL}] /\ curr_idx' \in IdOrNone
    BY <1>1, <2>1, RegisteredKept, Zenon
  <2>3. TypeOK'
    BY <1>1, <2>1, <2>2, Zenon DEF TypeOK
  <2> QED BY <1>1, <2>1, <2>2, <2>3, IdleStep, Zenon
<1>7. CASE Message
  <2>1. UNCHANGED <<registry, logging, default_sink, chosen, serial_result, received, wild>>
    BY <1>7, Zenon DEF Message
  <2>2. <<>> \in Seq(Activations) /\ Nested(<<>>) /\ Left(<<>>, 0) = chosen
    BY DEF Nested, Left, Borrowed
  <2>3. stack' \in Seq(Activations) /\ Nested(stack') /\ Left(stack', 0) = chosen
    <3>1. CASE stack' = <<Act("kprintf", "text")>>
      <4>1. <<Act("kprintf", "text")>> = <<Act("kprintf", "text")>> \o <<>>
        BY ActFacts
      <4>2. ~Holds(Act("kprintf", "text")) /\ ~Writing(Act("kprintf", "text"))
        BY ActFacts DEF Holds, Writing
      <4> QED BY <2>2, <3>1, <4>1, <4>2, ActFacts, PushIdle, Zenon
    <3>2. ASSUME NEW level \in Levels, stack' = klogf(level, <<>>)
          PROVE  stack' \in Seq(Activations) /\ Nested(stack') /\ Left(stack', 0) = chosen
      BY <2>2, <3>2, KlogfStack, Zenon
    <3> QED BY <1>7, <3>1, <3>2, Zenon DEF Message
  <2>4. SinkDiscipline' /\ Nested(stack)'
    BY <1>1, <2>1, <2>3, StackStep, Zenon
  <2>5. TypeOK' /\ BootFirst' /\ Registered' /\ WildEnds' /\ RightReceiver'
    BY <1>1, <2>1, <2>3, Zenon DEF IInv, TypeOK, BootFirst, Registered, WildEnds, RightReceiver
  <2> QED BY <2>4, <2>5, Zenon DEF IInv
<1> QED BY <1>2, <1>3, <1>4, <1>5, <1>6, <1>7, Zenon DEF Call

-------------------------------------------------------------------------------
\* The invariant holds when the kernel boots.
LEMMA InitInv == Init => IInv
<1> SUFFICES ASSUME Init PROVE IInv
  BY Zenon
<1> USE DEF Init, Statics
<1>1. -1 \in IdOrNone /\ stack \in Seq(Activations)
  BY ConsoleAssumption DEF IdOrNone
<1>2. TypeOK
  <2>1. sinks \in [Ids -> Callbacks \cup {NULL}]
    BY Zenon
  <2>2. serial_result \in [ok : BOOLEAN, id : IdOrNone]
    BY <1>1, Zenon
  <2>3. wild \in BOOLEAN
    BY Zenon
  <2>4. current_level \in Int
    BY DEF INFO
  <2> QED BY <1>1, <2>1, <2>2, <2>3, <2>4, Zenon DEF TypeOK
<1>3. SinkDiscipline /\ Nested(stack)
  BY EmptyStack, Zenon
<1>4. Registered
  BY DEF Registered
<1>5. BootFirst /\ WildEnds /\ RightReceiver
  BY Zenon DEF BootFirst, WildEnds, RightReceiver
<1> QED BY <1>2, <1>3, <1>4, <1>5, Zenon DEF IInv

\* Every step keeps it.
LEMMA NextInv == IInv /\ [Next]_vars => IInv'
<1> SUFFICES ASSUME IInv, [Next]_vars PROVE IInv'
  BY Zenon
<1>1. CASE ~wild /\ Boot
  BY <1>1, BootStep, Zenon
<1>2. CASE ~wild /\ Call
  BY <1>2, CallStep, Zenon
<1>3. CASE ~wild /\ Interrupt
  BY <1>3, InterruptStep, Zenon
<1>4. CASE ~wild /\ Running
  BY <1>4, SaveSinkStep, SetSinkStep, PutcharStep, TextEndStep, IsrStep, Zenon DEF Running
<1>5. CASE Transmit \/ UNCHANGED vars
  <2>1. UNCHANGED <<registry, logging, hist, received, wild, default_sink, stack>>
    BY <1>5, Zenon DEF Transmit, vars
  <2> QED BY <2>1, Zenon DEF IInv, TypeOK, BootFirst, SinkDiscipline, Nested, Left, Borrowed, Registered,
                      WildEnds, RightReceiver, registry, logging, hist
<1> QED BY <1>1, <1>2, <1>3, <1>4, <1>5, Zenon DEF Next, Halt

\* At every depth of interrupts in log messages, each log message holds what
\* the activations below it have left, and the rest of the invariant.
THEOREM ConsoleInvariant == Spec => []IInv
BY InitInv, NextInv, PTL DEF Spec

\* The default sink is the debug sink exactly while a log message or a panic is
\* being written (klog.c), however deep the interrupts nest.
THEOREM ConsoleSinkDiscipline == Spec => []SinkDiscipline
<1>1. IInv => SinkDiscipline
  BY Zenon DEF IInv
<1> QED BY <1>1, ConsoleInvariant, PTL

\* The text of klogf and of a panic reaches only the sink of klog.c, and only
\* kprintf without a port calls a pointer from outside sinks.
THEOREM ConsoleRightReceiver == Spec => []RightReceiver
<1>1. IInv => RightReceiver
  BY Zenon DEF IInv
<1> QED BY <1>1, ConsoleInvariant, PTL

\* A step gives no id that sink_register has returned another callback.
LEMMA IdsKept ==
  IInv /\ [Next]_vars => [\A id \in 0 .. curr_idx : sinks'[id] \in {sinks[id], NULL}]_vars
<1> SUFFICES ASSUME IInv, Next, NEW id \in 0 .. curr_idx PROVE sinks'[id] \in {sinks[id], NULL}
  BY Zenon
<1>1. TypeOK /\ id \in Ids /\ id <= curr_idx
  BY ConsoleAssumption DEF IInv, TypeOK, IdOrNone, Ids
<1>2. \A j \in Ids : j > curr_idx => sinks[j] = NULL
  BY Zenon DEF IInv, Registered
<1>3. ASSUME NEW callback \in Callbacks, sink_register(callback) PROVE sinks'[id] = sinks[id]
  BY <1>1, <1>2, <1>3, SlotsKept, Zenon
<1>4. CASE Boot
  <2>1. \/ \E callback \in Callbacks : sink_register(callback)
        \/ sinks' = sinks
    BY <1>4, Zenon DEF Boot, serial_init, kprintf_set_default_sink, klog_set_level, registry, Callbacks
  <2> QED BY <2>1, <1>3, Zenon
<1>5. CASE Call
  <2>1. \/ \E callback \in Callbacks : sink_register(callback)
        \/ sinks' = sinks
        \/ \E j \in 0 .. curr_idx : sink_remove(j)
    BY <1>5, Zenon DEF Call, serial_init, kprintf_set_default_sink, klog_set_level, RegisterOther, Message,
                registry, Callbacks
  <2>2. ASSUME NEW j \in 0 .. curr_idx, sink_remove(j) PROVE sinks'[id] \in {sinks[id], NULL}
    BY <2>2, <1>1, Zenon DEF sink_remove, TypeOK
  <2> QED BY <2>1, <2>2, <1>3, Zenon
<1>6. CASE Interrupt \/ Running \/ Transmit \/ UNCHANGED vars
  BY <1>6, Zenon DEF Interrupt, Running, SaveSink, SetSink, Putchar, TextEnd, isr_handler, Transmit, vars,
              registry
<1> QED BY <1>4, <1>5, <1>6, Zenon DEF Next, Halt

\* An id that sink_register has returned never comes to mean another callback
\* (sink.c), whatever is removed and registered later.
THEOREM ConsoleIdsStayTheirs == Spec => IdsStayTheirs
BY ConsoleInvariant, IdsKept, PTL DEF Spec, IdsStayTheirs

-------------------------------------------------------------------------------
(* The memory routines *)

\* The whole quadwords of n bytes end inside them, and one more fits after any
\* q of them but the last: the count / 8 moves of memcpy never pass its areas.
LEMMA QuadsFit ==
  ASSUME NEW w \in Nat \ {0}, NEW n \in Nat, NEW q \in 0 .. (n \div w)
  PROVE  /\ n \div w \in Nat
         /\ w * q \in Nat
         /\ w * (n \div w) \in Nat
         /\ w * (n \div w) <= n
         /\ w * (n \div w) + (n % w) = n
         /\ w * q < w * (n \div w) => /\ q + 1 \in 0 .. (n \div w)
                                      /\ w * q + w = w * (q + 1)
                                      /\ w * q + w <= n
<1>1. n \div w \in Nat /\ w * (n \div w) \in Nat /\ w * (n \div w) <= n
  OBVIOUS
<1>2. w * (n \div w) + (n % w) = n
  OBVIOUS
<1>3. w * q \in Nat
  BY <1>1
<1>4. ASSUME w * q < w * (n \div w)
      PROVE  /\ q + 1 \in 0 .. (n \div w)
             /\ w * q + w = w * (q + 1)
             /\ w * q + w <= n
  <2>1. q < n \div w
    BY <1>1, <1>4
  <2>2. q + 1 \in 0 .. (n \div w)
    BY <1>1, <2>1
  <2>3. w * q + w = w * (q + 1)
    OBVIOUS
  <2>4. w * (q + 1) <= w * (n \div w)
    BY <1>1, <2>2
  <2> QED BY <1>1, <1>3, <2>2, <2>3, <2>4
<1> QED BY <1>1, <1>2, <1>3, <1>4, Zenon

\* A byte of an int argument is a byte.
LEMMA ByteValues ==
  ASSUME NEW v \in Int
  PROVE  v % BYTE \in Bytes /\ (v \div BYTE) % BYTE \in Bytes
BY MemAssumption DEF Bytes

\* Copying byte k of the source area extends the bytes below k, or those above
\* it, that have been copied.
LEMMA CopyNextUp ==
  ASSUME NEW k \in Nat, dest \in Nat, dest + k \in Addrs
  PROVE  [CopyOf(0, k) EXCEPT ![dest + k] = start[src + k]] = CopyOf(0, k + 1)
<1> DEFINE f == [CopyOf(0, k) EXCEPT ![dest + k] = start[src + k]]
<1>1. ASSUME NEW a \in Addrs
      PROVE  f[a] = CopyOf(0, k + 1)[a]
  <2>1. /\ a \in (dest + 0) .. (dest + (k + 1) - 1)
            <=> a \in (dest + 0) .. (dest + k - 1) \/ a = dest + k
        /\ a = dest + k => a - dest = k
    BY DEF Addrs
  <2> QED BY <2>1, Zenon DEF CopyOf
<1> QED BY <1>1, Zenon DEF CopyOf

LEMMA CopyNextDown ==
  ASSUME NEW k \in Nat, NEW hi \in Nat, k < hi, dest \in Nat, dest + k \in Addrs
  PROVE  [CopyOf(k + 1, hi) EXCEPT ![dest + k] = start[src + k]] = CopyOf(k, hi)
<1> DEFINE f == [CopyOf(k + 1, hi) EXCEPT ![dest + k] = start[src + k]]
<1>1. ASSUME NEW a \in Addrs
      PROVE  f[a] = CopyOf(k, hi)[a]
  <2>1. /\ a \in (dest + k) .. (dest + hi - 1)
            <=> a \in (dest + (k + 1)) .. (dest + hi - 1) \/ a = dest + k
        /\ a = dest + k => a - dest = k
    BY DEF Addrs
  <2> QED BY <2>1, Zenon DEF CopyOf
<1> QED BY <1>1, Zenon DEF CopyOf

-------------------------------------------------------------------------------
\* The loop invariants hold when a routine is called.
LEMMA MemInitInv == MemInit => MemInv
<1> SUFFICES ASSUME MemInit PROVE MemInv
  BY Zenon
<1>1. MemTypeOK
  BY MemAssumption DEF MemInit, MemTypeOK, Addrs, Bytes
<1> QED
  BY <1>1, Zenon DEF MemInit, MemInv, CopiesSource, FillsExactly, ComparesFirst

\* A step of memmove keeps them: the byte it reads has not been written yet.
LEMMA MoveInv ==
  ASSUME MemInv, MoveDirection \/ MoveUp \/ MoveDown
  PROVE  MemInv'
<1> USE DEF MemTypeOK, ValidCall, Fits, args
<1>1. CASE MoveDirection
  <2>1. mem = CopyOf(0, 0) /\ mem = CopyOf(count, count)
    BY <1>1 DEF MoveDirection, MemInv, CopyOf, Addrs
  <2>2. MemTypeOK'
    BY <1>1, Zenon DEF MoveDirection, MemInv
  <2>3. CASE (dest < src \/ dest >= src + count) /\ pc' = "up" /\ i' = 0
    BY <1>1, <2>1, <2>2, <2>3 DEF MoveDirection, MemInv, CopyOf, CopiesSource, FillsExactly,
       ComparesFirst
  <2>4. CASE ~(dest < src \/ dest >= src + count) /\ pc' = "down" /\ i' = count
    BY <1>1, <2>1, <2>2, <2>4 DEF MoveDirection, MemInv, CopyOf, CopiesSource, FillsExactly,
       ComparesFirst
  <2> QED BY <1>1, <2>3, <2>4, Zenon DEF MoveDirection
<1>2. CASE MoveUp
  <2>1. dest + i \in Addrs /\ src + i \in Addrs
    BY <1>2, MemAssumption DEF MoveUp, MemInv, Addrs
  <2>2. mem[src + i] = start[src + i]
    BY <1>2, <2>1 DEF MoveUp, MemInv, CopyOf, Addrs
  <2>3. mem' = [mem EXCEPT ![dest + i] = start[src + i]] /\ i' = i + 1
    BY <1>2, <2>2, Zenon DEF MoveUp, Store
  <2>4. mem = CopyOf(0, i) /\ i \in Nat /\ dest \in Nat /\ src \in Nat
    BY <1>2, Zenon DEF MoveUp, MemInv
  <2>6. mem' = CopyOf(0, i + 1)
    BY <2>1, <2>3, <2>4, CopyNextUp, Zenon
  <2>7. mem' = CopyOf(0, i)'
    BY <1>2, <2>3, <2>6, Zenon DEF MoveUp, CopyOf
  <2>8. MemTypeOK'
    BY <1>2, <2>1, <2>3 DEF MoveUp, MemInv
  <2>9. i' <= count' /\ (dest' < src' \/ dest' >= src' + count') /\ op' = "memmove" /\ pc' = "up"
    BY <1>2, <2>3 DEF MoveUp, MemInv
  <2> QED
    BY <2>7, <2>8, <2>9, Zenon DEF MemInv, CopiesSource, FillsExactly, ComparesFirst
<1>3. CASE MoveDown
  <2>1. dest + i - 1 \in Addrs /\ src + i - 1 \in Addrs
    BY <1>3, MemAssumption DEF MoveDown, MemInv, Addrs
  <2>2. mem[src + i - 1] = start[src + i - 1]
    BY <1>3, <2>1 DEF MoveDown, MemInv, CopyOf, Addrs
  <2>3. mem' = [mem EXCEPT ![dest + i - 1] = start[src + i - 1]] /\ i' = i - 1
    BY <1>3, <2>2, Zenon DEF MoveDown, Store
  <2>4. mem = CopyOf(i, count) /\ i \in Nat \ {0} /\ dest \in Nat /\ src \in Nat
        /\ count \in Nat /\ i <= count
    BY <1>3, Zenon DEF MoveDown, MemInv
  <2>5. /\ dest + (i - 1) = dest + i - 1 /\ src + (i - 1) = src + i - 1
        /\ i - 1 \in Nat /\ i - 1 < count /\ (i - 1) + 1 = i
    BY <2>4
  <2>6. [CopyOf((i - 1) + 1, count) EXCEPT ![dest + (i - 1)] = start[src + (i - 1)]]
          = CopyOf(i - 1, count)
    BY <2>1, <2>4, <2>5, CopyNextDown, Zenon
  <2>7. mem' = CopyOf(i - 1, count)
    BY <2>3, <2>4, <2>5, <2>6, Zenon
  <2>8. mem' = CopyOf(i, count)'
    BY <1>3, <2>3, <2>7, Zenon DEF MoveDown, CopyOf, args
  <2>9. MemTypeOK'
    BY <1>3, <2>1, <2>3 DEF MoveDown, MemInv
  <2>10. i' <= count' /\ src' <= dest' /\ op' = "memmove" /\ pc' = "down"
    BY <1>3, <2>3, <2>4 DEF MoveDown, MemInv
  <2> QED
    BY <2>8, <2>9, <2>10, Zenon DEF MemInv, CopiesSource, FillsExactly, ComparesFirst
<1> QED BY <1>1, <1>2, <1>3, Zenon

\* A step of memset, memsetw or memcmp keeps them.
LEMMA LoopInv ==
  ASSUME MemInv, StartLoop \/ SetByte \/ SetWord \/ Compare
  PROVE  MemInv'
<1> USE DEF MemTypeOK, ValidCall, Fits, args
<1>1. CASE StartLoop
  <2>1. mem = BytesOf(0) /\ mem = WordsOf(0)
    BY <1>1 DEF StartLoop, MemInv, BytesOf, WordsOf, Addrs
  <2>2. MemTypeOK'
    BY <1>1, Zenon DEF StartLoop, MemInv
  <2> QED
    BY <1>1, <2>1, <2>2 DEF StartLoop, MemInv, BytesOf, WordsOf, CopiesSource, FillsExactly,
       ComparesFirst
<1>2. CASE SetByte
  <2>1. dest + i \in Addrs
    BY <1>2, MemAssumption DEF SetByte, MemInv, Addrs
  <2>2. mem' = BytesOf(i + 1) /\ i' = i + 1
    <3>1. mem = BytesOf(i) /\ i \in Nat /\ dest \in Nat
      BY <1>2, Zenon DEF SetByte, MemInv
    <3>2. mem' = [mem EXCEPT ![dest + i] = value % BYTE] /\ i' = i + 1
      BY <1>2, Zenon DEF SetByte, Store
    <3>3. ASSUME NEW a \in Addrs
          PROVE  mem'[a] = BytesOf(i + 1)[a]
      <4>1. a \in dest .. (dest + (i + 1) - 1) <=> a \in dest .. (dest + i - 1) \/ a = dest + i
        BY <3>1 DEF Addrs
      <4> QED BY <3>1, <3>2, <4>1, Zenon DEF BytesOf
    <3> QED BY <3>1, <3>2, <3>3, Zenon DEF BytesOf
  <2>3. mem' \in [Addrs -> Bytes]
    BY <1>2, <2>1, ByteValues, Zenon DEF SetByte, Store, MemInv
  <2>4. mem' = BytesOf(i)'
    BY <1>2, <2>2, Zenon DEF SetByte, BytesOf
  <2>5. i' <= count' /\ op' = "memset" /\ pc' = "up" /\ MemTypeOK'
    BY <1>2, <2>2, <2>3 DEF SetByte, MemInv
  <2> QED
    BY <2>4, <2>5, Zenon DEF MemInv, CopiesSource, FillsExactly, ComparesFirst
<1>3. CASE SetWord
  <2>1. dest + 2 * i \in Addrs /\ dest + 2 * i + 1 \in Addrs
    BY <1>3, MemAssumption DEF SetWord, MemInv, Addrs
  <2> DEFINE lo == value % BYTE
             hi == (value \div BYTE) % BYTE
  <2>2. lo \in Bytes /\ hi \in Bytes
    BY <1>3, ByteValues, Zenon DEF MemInv
  <2>3. i \in Nat /\ dest \in Nat /\ mem = WordsOf(i) /\ mem \in [Addrs -> Bytes]
    BY <1>3, Zenon DEF SetWord, MemInv
  <2>4. mem' = [mem EXCEPT ![dest + 2 * i] = lo, ![dest + 2 * i + 1] = hi] /\ i' = i + 1
    BY <1>3, Zenon DEF SetWord
  <2>5. ASSUME NEW a \in Addrs
        PROVE  mem'[a] = WordsOf(i + 1)[a]
    <3>1. CASE a = dest + 2 * i
      BY <2>1, <2>3, <2>4, <3>1 DEF WordsOf, Addrs
    <3>2. CASE a = dest + 2 * i + 1
      BY <2>1, <2>3, <2>4, <3>2 DEF WordsOf, Addrs
    <3>3. CASE a # dest + 2 * i /\ a # dest + 2 * i + 1
      <4>1. mem'[a] = mem[a]
        BY <2>3, <2>4, <3>3, Zenon
      <4>2. a \in dest .. (dest + 2 * i - 1) <=> a \in dest .. (dest + 2 * (i + 1) - 1)
        BY <2>3, <3>3 DEF Addrs
      <4> QED BY <2>3, <4>1, <4>2, Zenon DEF WordsOf
    <3> QED BY <3>1, <3>2, <3>3, Zenon
  <2>6. mem' = WordsOf(i + 1)
    BY <2>3, <2>4, <2>5, Zenon DEF WordsOf
  <2>7. mem' \in [Addrs -> Bytes]
    BY <2>1, <2>2, <2>3, <2>4, Zenon
  <2>8. mem' = WordsOf(i)'
    BY <1>3, <2>4, <2>6, Zenon DEF SetWord, WordsOf
  <2>9. i' <= count' /\ op' = "memsetw" /\ pc' = "up" /\ MemTypeOK'
    BY <1>3, <2>4, <2>7 DEF SetWord, MemInv
  <2> QED
    BY <2>8, <2>9, Zenon DEF MemInv, CopiesSource, FillsExactly, ComparesFirst
<1>4. CASE Compare
  <2>1. dest + i \in Addrs /\ src + i \in Addrs
    BY <1>4, MemAssumption DEF Compare, MemInv, Addrs
  <2>2. MemTypeOK'
    BY <1>4, <2>1, MemAssumption DEF Compare, MemInv, Bytes
  <2>3. CASE mem[dest + i] # mem[src + i]
    <3>1. ComparesFirst'
      <4>1. i \in 0 .. (count - 1) /\ \A j \in 0 .. (i - 1) : mem[dest + j] = mem[src + j]
        BY <1>4 DEF Compare, MemInv
      <4> QED BY <1>4, <2>3, <4>1, Zenon DEF Compare, MemInv, ComparesFirst
    <3> QED BY <1>4, <2>2, <2>3, <3>1, Zenon DEF Compare, MemInv, CopiesSource, FillsExactly
  <2>4. CASE mem[dest + i] = mem[src + i]
    <3>1. \A k \in 0 .. i : mem[dest + k] = mem[src + k]
      BY <1>4, <2>4 DEF Compare, MemInv
    <3> QED
      BY <1>4, <2>2, <2>4, <3>1, SMTT(60) DEF Compare, MemInv, CopiesSource, FillsExactly, ComparesFirst
  <2> QED BY <2>3, <2>4, Zenon
<1> QED BY <1>1, <1>2, <1>3, <1>4, Zenon

\* A step of memcpy keeps them.
LEMMA CopyInv ==
  ASSUME MemInv, StartCopy \/ MoveQuad \/ QuadsDone \/ MoveByte
  PROVE  MemInv'
<1> USE DEF MemTypeOK, ValidCall, Fits, Disjoint, args
<1>1. CASE StartCopy
  <2>1. mem = CopyOf(0, 0)
    BY <1>1 DEF StartCopy, MemInv, CopyOf, Addrs
  <2>2. 0 \in 0 .. (count \div WORD) /\ 0 = WORD * 0
    BY MemAssumption, <1>1 DEF MemInv
  <2>3. MemTypeOK'
    BY <1>1, Zenon DEF StartCopy, MemInv
  <2>4. pc' = "words" /\ i' = 0 /\ op' = "memcpy" /\ count' = count /\ mem' = CopyOf(0, 0)'
    BY <1>1, <2>1, Zenon DEF StartCopy, CopyOf
  <2>5. \E q \in 0 .. (count' \div WORD) : i' = WORD * q
    BY <2>2, <2>4, Zenon
  <2> QED
    BY <2>3, <2>4, <2>5, Zenon DEF MemInv, CopiesSource, FillsExactly, ComparesFirst
<1>2. CASE MoveQuad
  <2>1. PICK q \in 0 .. (count \div WORD) : i = WORD * q
    BY <1>2, Zenon DEF MoveQuad, MemInv
  <2>2. i < WORD * (count \div WORD) /\ count \in Nat /\ WORD \in Nat \ {0}
    BY <1>2, MemAssumption, Zenon DEF MoveQuad, MemInv
  <2>3. q + 1 \in 0 .. (count \div WORD) /\ i + WORD = WORD * (q + 1) /\ i + WORD <= count
    BY <2>1, <2>2, QuadsFit, Zenon
  <2>4. mem = CopyOf(0, i) /\ op = "memcpy" /\ i \in Nat /\ dest \in Nat /\ src \in Nat
        /\ dest + count <= Size /\ src + count <= Size
        /\ (dest + count <= src \/ src + count <= dest)
        /\ start \in [Addrs -> Bytes] /\ mem \in [Addrs -> Bytes]
    BY <1>2 DEF MoveQuad, MemInv
  <2>5. ASSUME NEW a \in Addrs
        PROVE  mem'[a] = CopyOf(0, i + WORD)[a] /\ mem'[a] \in Bytes
    <3>1. CASE a \in (dest + i) .. (dest + i + WORD - 1)
      <4>1. src + (a - dest) \in Addrs /\ src + (a - dest) \notin dest .. (dest + i - 1)
        BY <2>2, <2>3, <2>4, <3>1, MemAssumption DEF Addrs
      <4>2. mem'[a] = start[src + (a - dest)]
        BY <1>2, <2>4, <3>1, <4>1 DEF MoveQuad, CopyOf
      <4>3. a \in (dest + 0) .. (dest + (i + WORD) - 1)
        BY <2>2, <2>4, <3>1 DEF Addrs
      <4> QED BY <2>4, <4>1, <4>2, <4>3, Zenon DEF CopyOf
    <3>2. CASE a \notin (dest + i) .. (dest + i + WORD - 1)
      <4>1. mem'[a] = mem[a]
        BY <1>2, <3>2, Zenon DEF MoveQuad
      <4>2. a \in (dest + 0) .. (dest + i - 1) <=> a \in (dest + 0) .. (dest + (i + WORD) - 1)
        BY <2>2, <2>4, <3>2 DEF Addrs
      <4> QED BY <2>4, <4>1, <4>2, Zenon DEF CopyOf
    <3> QED BY <3>1, <3>2, Zenon
  <2>6. mem' = CopyOf(0, i + WORD) /\ mem' \in [Addrs -> Bytes]
    BY <1>2, <2>5, Zenon DEF MoveQuad, CopyOf
  <2>7. i' = i + WORD /\ i' \in Nat /\ pc' = "words" /\ UNCHANGED <<args, result>>
    BY <1>2, <2>2, <2>4 DEF MoveQuad, MemInv
  <2>8. mem' = CopyOf(0, i)'
    BY <2>6, <2>7, Zenon DEF CopyOf
  <2>9. \E r \in 0 .. (count' \div WORD) : i' = WORD * r
    BY <2>3, <2>7, Zenon
  <2>10. MemTypeOK'
    BY <1>2, <2>6, <2>7, Zenon DEF MemInv
  <2> QED
    BY <2>4, <2>7, <2>8, <2>9, <2>10, Zenon DEF MemInv, CopiesSource, FillsExactly, ComparesFirst
<1>3. CASE QuadsDone
  <2>1. PICK q \in 0 .. (count \div WORD) : i = WORD * q
    BY <1>3, Zenon DEF QuadsDone, MemInv
  <2>2. count \in Nat /\ WORD \in Nat \ {0} /\ i >= WORD * (count \div WORD)
    BY <1>3, MemAssumption, Zenon DEF QuadsDone, MemInv
  <2>3. count \div WORD \in Nat /\ WORD * (count \div WORD) <= count /\ WORD * (count \div WORD) \in Nat
    BY <2>1, <2>2, QuadsFit, Zenon
  <2>4. WORD * q <= WORD * (count \div WORD)
    BY <2>1, <2>2, <2>3
  <2>5. i <= count
    BY <2>1, <2>2, <2>3, <2>4
  <2>6. MemTypeOK'
    BY <1>3, Zenon DEF QuadsDone, MemInv
  <2> QED
    BY <1>3, <2>5, <2>6, Zenon DEF QuadsDone, MemInv, CopyOf, CopiesSource, FillsExactly, ComparesFirst
<1>4. CASE MoveByte
  <2>1. i < count
    <3>1. count \in Nat /\ WORD \in Nat \ {0} /\ 0 \in 0 .. (count \div WORD)
      BY <1>4, MemAssumption DEF MemInv
    <3>2. WORD * (count \div WORD) + (count % WORD) = count
      BY <3>1, QuadsFit, Zenon
    <3> QED BY <1>4, <3>2, Zenon DEF MoveByte
  <2>2. dest + i \in Addrs /\ src + i \in Addrs
    BY <1>4, <2>1, MemAssumption DEF MoveByte, MemInv, Addrs
  <2>3. mem[src + i] = start[src + i]
    BY <1>4, <2>1, <2>2 DEF MoveByte, MemInv, CopyOf, Addrs
  <2>4. mem' = [mem EXCEPT ![dest + i] = start[src + i]] /\ i' = i + 1
    BY <1>4, <2>3, Zenon DEF MoveByte, Store
  <2>5. mem = CopyOf(0, i) /\ i \in Nat /\ dest \in Nat /\ src \in Nat
    BY <1>4, Zenon DEF MoveByte, MemInv
  <2>7. mem' = CopyOf(0, i + 1)
    BY <2>2, <2>4, <2>5, CopyNextUp, Zenon
  <2>8. mem' = CopyOf(0, i)'
    BY <1>4, <2>4, <2>7, Zenon DEF MoveByte, CopyOf
  <2>9. MemTypeOK'
    BY <1>4, <2>2, <2>4 DEF MoveByte, MemInv
  <2>10. i' <= count' /\ op' = "memcpy" /\ pc' = "up"
    BY <1>4, <2>1, <2>4, <2>5 DEF MoveByte, MemInv
  <2> QED
    BY <2>8, <2>9, <2>10, Zenon DEF MemInv, CopiesSource, FillsExactly, ComparesFirst
<1> QED BY <1>1, <1>2, <1>3, <1>4, Zenon

\* The return keeps them: the loop is at its end.
LEMMA ReturnInv ==
  ASSUME MemInv, Return
  PROVE  MemInv'
<1>1. MemTypeOK'
  BY Zenon DEF Return, MemInv, MemTypeOK, ValidCall, Fits, Disjoint, args
<1>2. pc' = "done" /\ UNCHANGED <<args, mem, i, result>>
  BY Zenon DEF Return
<1>3. CopiesSource'
  BY <1>2 DEF Return, MemInv, MemTypeOK, CopiesSource, CopyOf, args
<1>4. FillsExactly'
  BY <1>2 DEF Return, MemInv, MemTypeOK, FillsExactly, BytesOf, WordsOf, args
<1>5. ComparesFirst'
  BY <1>2 DEF Return, MemInv, MemTypeOK, ComparesFirst, args
<1> QED BY <1>1, <1>2, <1>3, <1>4, <1>5, Zenon DEF MemInv

-------------------------------------------------------------------------------
\* The loop invariants of all five routines hold for every memory size, byte
\* width and valid call.
THEOREM MemInvariant == MemSpec => []MemInv
<1>1. MemInit => MemInv
  BY MemInitInv, Zenon
<1>2. MemInv /\ [MemNext]_memVars => MemInv'
  <2> SUFFICES ASSUME MemInv, [MemNext]_memVars PROVE MemInv'
    BY Zenon
  <2>1. CASE UNCHANGED memVars
    <3>1. MemTypeOK'
      BY <2>1 DEF memVars, MemInv, MemTypeOK, ValidCall, Fits, Disjoint
    <3>2. CopiesSource' /\ FillsExactly' /\ ComparesFirst'
      BY <2>1, Zenon DEF memVars, MemInv, CopiesSource, FillsExactly, ComparesFirst, CopyOf, BytesOf, WordsOf
    <3> QED BY <2>1, <3>1, <3>2, Zenon DEF memVars, MemInv, CopyOf, BytesOf, WordsOf
  <2>2. CASE Returned
    BY <2>1, <2>2, Zenon DEF Returned
  <2> QED
    BY <2>1, <2>2, MoveInv, LoopInv, CopyInv, ReturnInv, Zenon DEF MemNext, MemStep
<1> QED BY <1>1, <1>2, PTL DEF MemSpec

\* memmove and memcpy copy the source area as it was at the call, for every
\* overlap that their callers may pass, and change nothing else.
THEOREM MemCopiesSource == MemSpec => []CopiesSource
<1>1. MemInv => CopiesSource
  BY Zenon DEF MemInv
<1> QED BY <1>1, MemInvariant, PTL

\* memset and memsetw fill exactly what they were asked to.
THEOREM MemFillsExactly == MemSpec => []FillsExactly
<1>1. MemInv => FillsExactly
  BY Zenon DEF MemInv
<1> QED BY <1>1, MemInvariant, PTL

\* memcmp returns the first difference.
THEOREM MemComparesFirst == MemSpec => []ComparesFirst
<1>1. MemInv => ComparesFirst
  BY Zenon DEF MemInv
<1> QED BY <1>1, MemInvariant, PTL
===============================================================================
