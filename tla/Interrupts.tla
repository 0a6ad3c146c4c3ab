------------------------------ MODULE Interrupts ------------------------------
(***************************************************************************)
(* Interrupt delivery: the gates (src/cpu/idt.c, isr_gen.c), the entry     *)
(* stubs and the common path (isr.asm, isr_gen.inc), instruction by        *)
(* instruction, and isr_handler (isr.c).  The kernel never executes sti,   *)
(* so what arrives are exceptions, int instructions and NMIs: they do not  *)
(* wait for IF and may hit any instruction, those of the entry and exit    *)
(* paths included.                                                         *)
(*                                                                         *)
(* Every word is a tuple with a tag; the stack is an array of words, rsp   *)
(* the index of its lowest word in use, and 16-byte alignment means an     *)
(* even rsp.                                                               *)
(***************************************************************************)
EXTENDS Integers, Sequences

CONSTANTS
  Vectors,          \* the vectors that occur
  CpuErrorVectors,  \* those for which the processor pushes an error code
  Handled,          \* those a handler may be registered for
  StackWords,       \* the words of the stack
  MaxInterrupts,    \* bound on the interrupts of a behaviour
  HALF,             \* 2^16: the unit in which a gate splits an address
  StubAddr(_)       \* the address of the stub of a vector

\* The stubs lie at different addresses; the processor pushes an error code for the
\* eight vectors of the manual (two more, 29 and 30, are left to virtual machines and
\* do not occur); the stack has room for the interrupts, at most 24 words each.
ASSUME InterruptsAssumption ==
  /\ HALF \in Nat \ {0} /\ Vectors \subseteq Nat
  /\ \A v \in Vectors : StubAddr(v) \in Nat
  /\ \A v, w \in Vectors : StubAddr(v) = StubAddr(w) => v = w
  /\ \A v \in Vectors : v \in CpuErrorVectors <=> v \in {8, 10, 11, 12, 13, 14, 17, 21}
  /\ MaxInterrupts \in Nat /\ StackWords \in Nat /\ StackWords >= 24 * MaxInterrupts + 4

VARIABLES
  gpr,           \* the general registers other than rsp
  rip, cs, rflags, ss, rsp,
  stack,         \* the words of the stack
  idt,           \* the gates that have been set
  idtr,          \* TRUE when the processor uses idt
  isr_handlers,  \* the vectors that have a handler
  interrupted,   \* what each pending interrupt interrupted, the latest first (history)
  arrived        \* the interrupts so far

cpu == <<gpr, rip, cs, rflags, ss, rsp, stack>>
vars == <<cpu, idt, idtr, isr_handlers, interrupted, arrived>>

Num(n) == <<"num", n>>
Junk == <<"junk">>

\* The registers that _isr_common saves, in the order of its pushes, and
\* restores, in the order of its pops.
Pushes == <<"rax", "rbx", "rcx", "rdx", "rsi", "rdi", "rbp", "r8",
            "r9", "r10", "r11", "r12", "r13", "r14", "r15">>

Pops == <<"r15", "r14", "r13", "r12", "r11", "r10", "r9", "r8",
          "rbp", "rdi", "rsi", "rdx", "rcx", "rbx", "rax">>

\* The fields of struct Registers, from its lowest address.
Registers == <<"r15", "r14", "r13", "r12", "r11", "r10", "r9", "r8",
               "rbp", "rdi", "rsi", "rdx", "rcx", "rbx", "rax",
               "interrupt_num", "error_code", "rip", "cs", "rflags", "rsp", "ss">>

GeneralRegs == {Pushes[k] : k \in DOMAIN Pushes}

\* Those a C function may change.
CallerSaved == {"rax", "rcx", "rdx", "rsi", "rdi", "r8", "r9", "r10", "r11"}

\* Mutant: the page fault is taken for a vector without an error code.
ErrorStubsFewer == {8, 10, 11, 12, 13, 17, 21}

\* The vectors whose stub is an ISR_ERROR.
ErrorStubs == {8, 10, 11, 12, 13, 14, 17, 21}

\* A field of the struct at address p.
Field(p, name) == stack[p + (CHOOSE k \in DOMAIN Registers : Registers[k] = name) - 1]

-------------------------------------------------------------------------------
(* The gates *)

idt_set_gate(addr) ==
  [addr_low |-> addr % HALF, addr_mid |-> (addr \div HALF) % HALF,
   addr_high |-> addr \div (HALF * HALF), kernel_cs |-> Num(8)]

\* The code the processor finds at the address of a gate.
GateTarget(gate) ==
  LET addr == gate.addr_low + HALF * gate.addr_mid + HALF * HALF * gate.addr_high
  IN {<<"stub", v>> : v \in {v \in Vectors : StubAddr(v) = addr}}

\* kmain runs on an aligned stack; its registers hold words of its own.
Init ==
  /\ gpr = [r \in GeneralRegs |-> <<"kmain", r>>]
  /\ rip = <<"kmain">> /\ cs = Num(8) /\ rflags = <<"rflags">> /\ ss = Num(16)
  /\ rsp = StackWords - 2 /\ stack = [a \in 0 .. (StackWords - 1) |-> <<"kmain", "word">>]
  /\ idt = [v \in {} |-> 0] /\ idtr = FALSE
  /\ isr_handlers = {}
  /\ interrupted = <<>> /\ arrived = 0

\* The gates of all vectors.
isr_init == [v \in Vectors |-> idt_set_gate(StubAddr(v))]

\* idt_init: all gates, then lidt.
idt_init ==
  /\ rip = <<"kmain">> /\ ~idtr
  /\ idt' = isr_init
  /\ idtr' = TRUE
  /\ UNCHANGED <<cpu, isr_handlers, interrupted, arrived>>

isr_register_handler(v) ==
  /\ rip = <<"kmain">>
  /\ isr_handlers' = isr_handlers \cup {v}
  /\ UNCHANGED <<cpu, idt, idtr, interrupted, arrived>>

\* The rest of kmain moves rsp by pushes and pops.
KernelStep ==
  /\ rip = <<"kmain">>
  /\ rsp' \in {rsp - 1, rsp + 1} /\ rsp' \in (StackWords - 3) .. (StackWords - 2)
  /\ UNCHANGED <<gpr, rip, cs, rflags, ss, stack, idt, idtr, isr_handlers, interrupted, arrived>>

-------------------------------------------------------------------------------
(* The processor *)

\* stack after pushing words at sp, the first one highest.
Pushed(sp, words) ==
  [a \in DOMAIN stack |-> IF a \in (sp - Len(words)) .. (sp - 1) THEN words[sp - a] ELSE stack[a]]

\* Delivery: align rsp, push the interrupted state and, for some vectors, an
\* error code, and go to the gate's code.  An interrupt gate also clears IF,
\* which is clear already.
Deliver(v) ==
  /\ idtr /\ arrived < MaxInterrupts
  /\ rip' \in GateTarget(idt[v])
  /\ LET sp == rsp - (rsp % 2)
         frame == <<ss, <<"rsp", rsp>>, rflags, cs, rip>>
                  \o (IF v \in CpuErrorVectors THEN << <<"error", v>> >> ELSE <<>>)
     IN stack' = Pushed(sp, frame) /\ rsp' = sp - Len(frame)
  /\ cs' = idt[v].kernel_cs
  /\ interrupted' = <<[vector |-> v, gpr |-> gpr, rip |-> rip, cs |-> cs, rflags |-> rflags,
                       ss |-> ss, rsp |-> rsp, stack |-> stack]>> \o interrupted
  /\ arrived' = arrived + 1
  /\ UNCHANGED <<gpr, rflags, ss, idt, idtr, isr_handlers>>

\* Without an IDT of the kernel's own the machine resets.
Reset ==
  /\ ~idtr /\ rip = <<"kmain">>
  /\ rip' = <<"reset">>
  /\ UNCHANGED <<gpr, cs, rflags, ss, rsp, stack, idt, idtr, isr_handlers, interrupted, arrived>>

Keep == UNCHANGED <<cs, rflags, ss, idt, idtr, isr_handlers, interrupted, arrived>>

Push(word) == stack' = Pushed(rsp, <<word>>) /\ rsp' = rsp - 1

-------------------------------------------------------------------------------
(* isr.asm *)

\* ISR_NO_ERROR pushes a dummy error code first; both push the vector.
Stub ==
  /\ rip[1] \in {"stub", "numbered"}
  /\ \/ rip[1] = "stub" /\ rip[2] \notin ErrorStubs /\ Push(Num(0))
        /\ rip' = <<"numbered", rip[2]>>
     \/ (rip[1] = "numbered" \/ rip[2] \in ErrorStubs) /\ Push(Num(rip[2]))
        /\ rip' = <<"push", 1>>
  /\ UNCHANGED gpr /\ Keep

\* The pushes of _isr_common.
PushRegister ==
  /\ rip[1] = "push"
  /\ Push(gpr[Pushes[rip[2]]])
  /\ rip' = IF rip[2] < Len(Pushes) THEN <<"push", rip[2] + 1>> ELSE <<"mov">>
  /\ UNCHANGED gpr /\ Keep

\* mov rdi, rsp
PassRegisters ==
  /\ rip = <<"mov">>
  /\ gpr' = [gpr EXCEPT !["rdi"] = <<"rsp", rsp>>]
  /\ rip' = <<"call">>
  /\ UNCHANGED <<rsp, stack>> /\ Keep

CallHandler ==
  /\ rip = <<"call">>
  /\ Push(<<"pop", 1>>)
  /\ rip' = <<"isr_handler">>
  /\ UNCHANGED gpr /\ Keep

\* Mutant: the handler is looked up by the error code.
isr_handler_by_error ==
  /\ rip = <<"isr_handler">>
  /\ LET num == Field(gpr["rdi"][2], "error_code")[2]
     IN IF num \in isr_handlers \/ num >= 32
        THEN /\ rip' = stack[rsp] /\ rsp' = rsp + 1
             /\ gpr' = [r \in GeneralRegs |-> IF r \in CallerSaved THEN Junk ELSE gpr[r]]
        ELSE rip' = <<"panic">> /\ UNCHANGED <<gpr, rsp>>
  /\ stack' = [a \in DOMAIN stack |-> IF a < rsp THEN Junk ELSE stack[a]]
  /\ Keep

\* isr_handler returns when the vector has a handler, or is no exception, and
\* panics otherwise.  It may use the registers of its caller and the stack below.
isr_handler ==
  /\ rip = <<"isr_handler">>
  /\ LET num == Field(gpr["rdi"][2], "interrupt_num")[2]
     IN IF num \in isr_handlers \/ num >= 32
        THEN /\ rip' = stack[rsp] /\ rsp' = rsp + 1
             /\ gpr' = [r \in GeneralRegs |-> IF r \in CallerSaved THEN Junk ELSE gpr[r]]
        ELSE rip' = <<"panic">> /\ UNCHANGED <<gpr, rsp>>
  /\ stack' = [a \in DOMAIN stack |-> IF a < rsp THEN Junk ELSE stack[a]]
  /\ Keep

\* Mutant: two pops are swapped.
PopSwapped ==
  /\ rip[1] = "pop"
  /\ LET swapped == [Pops EXCEPT ![10] = Pops[11], ![11] = Pops[10]]
     IN gpr' = [gpr EXCEPT ![swapped[rip[2]]] = stack[rsp]]
  /\ rsp' = rsp + 1
  /\ rip' = IF rip[2] < Len(Pops) THEN <<"pop", rip[2] + 1>> ELSE <<"add">>
  /\ UNCHANGED stack /\ Keep

PopRegister ==
  /\ rip[1] = "pop"
  /\ gpr' = [gpr EXCEPT ![Pops[rip[2]]] = stack[rsp]]
  /\ rsp' = rsp + 1
  /\ rip' = IF rip[2] < Len(Pops) THEN <<"pop", rip[2] + 1>> ELSE <<"add">>
  /\ UNCHANGED stack /\ Keep

\* add rsp, 16
DropCodes ==
  /\ rip = <<"add">>
  /\ rsp' = rsp + 2
  /\ rip' = <<"iretq">>
  /\ UNCHANGED <<gpr, stack>> /\ Keep

\* iretq loads what Deliver pushed.
Iretq ==
  /\ rip = <<"iretq">>
  /\ rip' = stack[rsp] /\ cs' = stack[rsp + 1] /\ rflags' = stack[rsp + 2]
  /\ rsp' = stack[rsp + 3][2] /\ ss' = stack[rsp + 4]
  /\ interrupted' = Tail(interrupted)
  /\ UNCHANGED <<gpr, stack, idt, idtr, isr_handlers, arrived>>

EntryStep == Stub \/ PushRegister \/ PassRegisters \/ CallHandler
HandlerStep == isr_handler
ExitStep == PopRegister \/ DropCodes \/ Iretq

Stopped == rip[1] \in {"panic", "reset"}

Next ==
  \/ idt_init
  \/ \E v \in Handled : isr_register_handler(v)
  \/ KernelStep \/ Reset
  \/ rip # <<"reset">> /\ \E v \in Vectors : Deliver(v)
  \/ EntryStep \/ HandlerStep \/ ExitStep
  \/ Stopped /\ UNCHANGED vars

\* The processor executes the paths it is on: fairness.
Spec == Init /\ [][Next]_vars /\ WF_vars(EntryStep \/ HandlerStep \/ ExitStep)

-------------------------------------------------------------------------------
\* When isr_handler is called, rdi points to a struct Registers that holds the
\* vector, the error code (0 when the processor gives none) and the interrupted
\* registers, each in its field; and the stack is 16-byte aligned, whatever it was when
\* the interrupt came.
HandlerSeesRegisters ==
  rip = <<"call">> =>
    LET was == Head(interrupted)
        p == gpr["rdi"][2]
    IN /\ \A r \in GeneralRegs : Field(p, r) = was.gpr[r]
       /\ Field(p, "interrupt_num") = Num(was.vector)
       /\ Field(p, "error_code") =
            IF was.vector \in CpuErrorVectors THEN <<"error", was.vector>> ELSE Num(0)
       /\ Field(p, "rip") = was.rip /\ Field(p, "cs") = was.cs
       /\ Field(p, "rflags") = was.rflags
       /\ Field(p, "rsp") = <<"rsp", was.rsp>> /\ Field(p, "ss") = was.ss
       /\ rsp % 2 = 0

\* iretq resumes the code that was interrupted, in any nesting, with every
\* register, and every word of the stack that code was using, as it was.
ResumesExactly ==
  [][Iretq => LET was == Head(interrupted)
              IN /\ gpr' = was.gpr /\ rip' = was.rip /\ cs' = was.cs
                 /\ rflags' = was.rflags /\ ss' = was.ss /\ rsp' = was.rsp
                 /\ \A a \in rsp' .. (StackWords - 1) : stack'[a] = was.stack[a]]_vars

\* An exception without a handler is under way.
Fatal ==
  \E k \in DOMAIN interrupted : interrupted[k].vector < 32 /\ interrupted[k].vector \notin isr_handlers

\* However interrupts nest, an exception that has no handler ends in a panic before
\* anything resumes the code it hit, and without one kmain goes on: handled exceptions
\* and interrupts neither panic nor lose their way back (the decision of isr_handler, on
\* the number that the stub has pushed).
InterruptsEnd ==
  /\ Fatal ~> Fatal /\ rip = <<"panic">>
  /\ interrupted # <<>> ~> Fatal \/ (interrupted = <<>> /\ rip = <<"kmain">>)
===============================================================================
