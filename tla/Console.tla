-------------------------------- MODULE Console -------------------------------
(***************************************************************************)
(* Text output: sinks (src/utils/sink.c), the serial port                  *)
(* (src/drivers/serial/serial.c), the default sink of kprintf (printf.c),  *)
(* klogf and the panic path (klog.c), and the output of isr_handler        *)
(* (src/cpu/isr.c).  Interrupts may come between any two steps, also in    *)
(* the middle of a message; the activations of the code that is running    *)
(* form a stack.  A message is a number of characters.                     *)
(***************************************************************************)
EXTENDS Integers, Sequences

CONSTANTS
  SINK_MAX,
  Chars,          \* the characters of a message
  MaxCalls,       \* bound on the calls kmain makes
  MaxInterrupts   \* bound on the interrupts

ASSUME ConsoleAssumption ==
  SINK_MAX \in Nat \ {0, 1} /\ Chars \in Nat \ {0} /\ MaxCalls \in Nat /\ MaxInterrupts \in Nat

\* enum klog_level
Levels == 0 .. 4
DEBUG == 0
INFO == 1
WARN == 2
PANIC == 4

NULL == "NULL"
Callbacks == {"serial_sink_write", "debug_sink_write", "other"}
Ids == 0 .. (SINK_MAX - 1)

VARIABLES
  sinks, curr_idx,              \* sink.c
  isInitialied,                 \* serial.c
  default_sink,                 \* printf.c
  current_level, debug_sink,    \* klog.c
  thr_empty,                    \* the transmit register of the port is empty
  stack,                        \* the running activations, the latest first
  boot,                         \* the statements of kmain that come first
  serial_result,                \* whether the last serial_init found a port; its result
  chosen,                       \* the default sink kmain has chosen (history)
  received,                     \* which callback got characters of what (history)
  wild,                         \* a pointer from outside sinks has been called
  calls, interrupts

registry == <<sinks, curr_idx>>
logging == <<current_level, debug_sink>>
hist == <<serial_result, chosen, boot, calls, interrupts>>
vars == <<registry, isInitialied, default_sink, logging, thr_empty, stack, hist, received, wild>>

\* An activation of op that is at one of its statements.
Act(op, at) == [op |-> op, at |-> at, left |-> Chars, prev |-> -1]

Statics ==
  /\ sinks = [id \in Ids |-> NULL] /\ curr_idx = -1
  /\ isInitialied = FALSE /\ thr_empty = TRUE
  /\ default_sink = -1 /\ current_level = INFO /\ debug_sink = -1
  /\ stack = <<>>
  /\ serial_result = [ok |-> FALSE, id |-> -1] /\ chosen = -1
  /\ received = {} /\ wild = FALSE
  /\ calls = 0 /\ interrupts = 0

\* The kernel boots.
Init == Statics /\ boot = <<"serial_init", "set_default_sink", "klog_set_level">>

-------------------------------------------------------------------------------
(* sink.c *)

\* Mutant: the slot of a removed sink is used again.
FirstFreeSlot ==
  IF \A id \in Ids : sinks[id] # NULL THEN -1
  ELSE CHOOSE id \in Ids : sinks[id] = NULL /\ \A j \in Ids : sinks[j] = NULL => id <= j

\* What sink_register returns.  (The first call also clears a part of sinks,
\* which is all NULL then.)
RegisterResult ==
  IF curr_idx + 1 >= SINK_MAX THEN -1
  ELSE IF sinks[curr_idx + 1] # NULL THEN -1 ELSE curr_idx + 1

sink_register(callback) ==
  IF RegisterResult = -1
  THEN UNCHANGED registry
  ELSE sinks' = [sinks EXCEPT ![RegisterResult] = callback] /\ curr_idx' = RegisterResult

\* The callbacks a character written to sink id may reach: none for an unused
\* or too large id; a negative id reads what lies before sinks in memory.
sink_write(id) ==
  IF id >= SINK_MAX THEN {NULL}
  ELSE IF id < 0 THEN {NULL, "wild"}
  ELSE {sinks[id]}

-------------------------------------------------------------------------------
(* serial.c *)

\* The loop-back test passes or fails; a second call fails at once.
serial_init ==
  /\ \/ /\ ~isInitialied
        /\ isInitialied' = TRUE
        /\ sink_register("serial_sink_write")
        /\ serial_result' = [ok |-> TRUE, id |-> RegisterResult]
     \/ /\ serial_result' = [ok |-> FALSE, id |-> -1]
        /\ UNCHANGED <<isInitialied, registry>>
  /\ UNCHANGED <<default_sink, logging, thr_empty, stack, chosen, received, wild>>

\* serial_write waits for the transmit register; both callbacks end there.  The wait and
\* the access to the port are one step: what a write between them does to the character
\* is not followed here.
serial_write ==
  IF isInitialied THEN thr_empty /\ thr_empty' = FALSE ELSE UNCHANGED thr_empty

\* The port sends the character.
Transmit ==
  /\ ~thr_empty /\ thr_empty' = TRUE
  /\ UNCHANGED <<registry, isInitialied, default_sink, logging, stack, hist, received, wild>>

-------------------------------------------------------------------------------
(* kprintf_set_default_sink, klog_set_level, klogf *)

kprintf_set_default_sink(id) ==
  /\ default_sink' = id /\ chosen' = id
  /\ UNCHANGED <<registry, isInitialied, logging, thr_empty, stack, serial_result, received, wild>>

klog_set_level(level) ==
  /\ current_level' = level
  /\ IF debug_sink < 0
     THEN sink_register("debug_sink_write") /\ debug_sink' = RegisterResult
     ELSE UNCHANGED <<registry, debug_sink>>
  /\ UNCHANGED <<isInitialied, default_sink, thr_empty, stack, serial_result, chosen,
                 received, wild>>

\* The activations after a call of klogf.
klogf(level, rest) ==
  IF level < current_level THEN rest
  ELSE IF level = PANIC THEN <<Act("panic", "set")>> \o rest
  ELSE IF debug_sink < 0 THEN rest
  ELSE <<Act("klogf", "save")>> \o rest

At(where) == [Head(stack) EXCEPT !.at = where]

\* int prev_sink = kprintf_get_default_sink()
SaveSink ==
  /\ stack # <<>> /\ Head(stack).op = "klogf" /\ Head(stack).at = "save"
  /\ stack' = <<[At("set") EXCEPT !.prev = default_sink]>> \o Tail(stack)
  /\ UNCHANGED <<registry, isInitialied, default_sink, logging, thr_empty, hist, received, wild>>

\* Mutant: the message goes to the current default sink.
SetSinkSkipped ==
  /\ stack # <<>> /\ Head(stack).at = "set"
  /\ stack' = <<At("text")>> \o Tail(stack)
  /\ UNCHANGED <<registry, isInitialied, default_sink, logging, thr_empty, hist, received, wild>>

\* klogf and the panic path select the debug sink.
SetSink ==
  /\ stack # <<>> /\ Head(stack).at = "set"
  /\ default_sink' = debug_sink
  /\ stack' = <<At("text")>> \o Tail(stack)
  /\ UNCHANGED <<registry, isInitialied, logging, thr_empty, hist, received, wild>>

\* Mutant: the character is written over and over.
PutcharStuck ==
  /\ stack # <<>> /\ Head(stack).at = "text" /\ Head(stack).left > 0
  /\ \E to \in sink_write(default_sink) :
       /\ IF to \in {"serial_sink_write", "debug_sink_write"} THEN serial_write
          ELSE UNCHANGED thr_empty
       /\ received' = received \cup {<<to, Head(stack).op>>}
       /\ wild' = (to = "wild")
  /\ UNCHANGED <<registry, isInitialied, default_sink, logging, hist, stack>>

\* One character of a message, through the default sink.
Putchar ==
  /\ stack # <<>> /\ Head(stack).at = "text" /\ Head(stack).left > 0
  /\ \E to \in sink_write(default_sink) :
       /\ IF to \in {"serial_sink_write", "debug_sink_write"} THEN serial_write
          ELSE UNCHANGED thr_empty
       /\ received' = received \cup {<<to, Head(stack).op>>}
       /\ wild' = (to = "wild")
  /\ stack' = <<[Head(stack) EXCEPT !.left = @ - 1]>> \o Tail(stack)
  /\ UNCHANGED <<registry, isInitialied, default_sink, logging, hist>>

\* Mutant: the previous sink is not restored.
TextEndUnrestored ==
  /\ stack # <<>> /\ Head(stack).at = "text" /\ Head(stack).left = 0
  /\ stack' = IF Head(stack).op = "panic" THEN <<At("hlt")>> \o Tail(stack) ELSE Tail(stack)
  /\ UNCHANGED <<registry, isInitialied, default_sink, logging, thr_empty, hist, received, wild>>

\* The end of a message: kprintf returns, klogf restores the default sink and
\* returns, the panic path halts for good.
TextEnd ==
  /\ stack # <<>> /\ Head(stack).at = "text" /\ Head(stack).left = 0
  /\ stack' = IF Head(stack).op = "panic" THEN <<At("hlt")>> \o Tail(stack) ELSE Tail(stack)
  /\ default_sink' = IF Head(stack).op = "klogf" THEN Head(stack).prev ELSE default_sink
  /\ UNCHANGED <<registry, isInitialied, logging, thr_empty, hist, received, wild>>

-------------------------------------------------------------------------------
(* isr.c *)

\* An interrupt: one with a handler, one that is no exception, or an exception
\* without a handler.
Interrupt ==
  /\ boot = <<>> /\ interrupts < MaxInterrupts
  /\ interrupts' = interrupts + 1
  /\ \E kind \in {"handler", "other", "exception"} : stack' = <<Act("isr", kind)>> \o stack
  /\ UNCHANGED <<registry, isInitialied, default_sink, logging, thr_empty, serial_result, chosen,
                 boot, calls, received, wild>>

\* A handler may print and log.
isr_handler ==
  /\ stack # <<>> /\ Head(stack).op = "isr"
  /\ LET then(at) == <<At(at)>> \o Tail(stack)
     IN \/ /\ Head(stack).at = "handler"
           /\ stack' \in {then("log"), <<Act("kprintf", "text")>> \o then("log"),
                          klogf(INFO, then("log"))}
        \/ Head(stack).at = "log" /\ stack' = klogf(DEBUG, then("return"))
        \/ Head(stack).at = "other" /\ stack' = klogf(WARN, then("return"))
        \/ Head(stack).at = "exception"
           /\ stack' = <<Act("kprintf", "text")>> \o then("panic")
        \/ Head(stack).at = "panic" /\ stack' = klogf(PANIC, then("return"))
        \/ Head(stack).at = "return" /\ stack' = Tail(stack)
  /\ UNCHANGED <<registry, isInitialied, default_sink, logging, thr_empty, hist, received, wild>>

-------------------------------------------------------------------------------
(* kmain and the code after it *)

Boot ==
  /\ boot # <<>> /\ boot' = Tail(boot) /\ UNCHANGED <<calls, interrupts>>
  /\ \/ Head(boot) = "serial_init" /\ serial_init
     \/ Head(boot) = "set_default_sink" /\ kprintf_set_default_sink(serial_result.id)
     \/ Head(boot) = "klog_set_level" /\ klog_set_level(DEBUG)

sink_remove(id) ==
  /\ sinks' = [sinks EXCEPT ![id] = NULL]
  /\ UNCHANGED <<curr_idx, isInitialied, default_sink, logging, thr_empty, stack, serial_result,
                 chosen, received, wild>>

RegisterOther ==
  /\ sink_register("other")
  /\ UNCHANGED <<isInitialied, default_sink, logging, thr_empty, stack, serial_result, chosen,
                 received, wild>>

Message ==
  /\ \/ stack' = <<Act("kprintf", "text")>>
     \/ \E level \in Levels : stack' = klogf(level, <<>>)
  /\ UNCHANGED <<registry, isInitialied, default_sink, logging, thr_empty, serial_result, chosen,
                 received, wild>>

\* A default sink is an id that sink_register has returned.
Call ==
  /\ boot = <<>> /\ stack = <<>> /\ calls < MaxCalls
  /\ calls' = calls + 1 /\ UNCHANGED <<boot, interrupts>>
  /\ \/ serial_init
     \/ \E level \in {DEBUG, WARN} : klog_set_level(level)
     \/ \E id \in 0 .. curr_idx : kprintf_set_default_sink(id) \/ sink_remove(id)
     \/ RegisterOther
     \/ Message

Halt == boot = <<>> /\ stack = <<>> /\ UNCHANGED vars

Running == SaveSink \/ SetSink \/ Putchar \/ TextEnd \/ isr_handler

Halted == stack # <<>> /\ Head(stack).at = "hlt"

Next ==
  \/ ~wild /\ (Boot \/ Call \/ Interrupt \/ Running \/ Transmit)
  \/ Halt
  \/ (wild \/ Halted) /\ UNCHANGED vars

\* The processor executes the code it is on, and the port sends what it holds.
Spec == Init /\ [][Next]_vars /\ WF_vars(~wild /\ Running) /\ WF_vars(~wild /\ Transmit)

-------------------------------------------------------------------------------
\* The default sink is the debug sink exactly while a log message or a panic
\* is being written, and otherwise the one that was chosen last: no nesting of
\* interrupts in log messages leaves kprintf on the wrong sink.
SinkDiscipline ==
  default_sink =
    IF \E k \in DOMAIN stack : \/ stack[k].op = "klogf" /\ stack[k].at = "text"
                               \/ stack[k].op = "panic" /\ stack[k].at # "set"
    THEN debug_sink ELSE chosen

\* The text of klogf and of a panic reaches no sink but the one klog.c has
\* registered; a pointer from outside sinks is called only by kprintf, and only
\* while the default sink is the -1 that a failed serial_init has left.
RightReceiver ==
  \A r \in received :
    /\ r[2] \in {"klogf", "panic"} => r[1] \in {"debug_sink_write", NULL}
    /\ r[1] = "wild" => r[2] = "kprintf" /\ chosen = -1

\* An id that sink_register has returned never comes to mean another callback.
IdsStayTheirs ==
  [][\A id \in 0 .. curr_idx : sinks'[id] \in {sinks[id], NULL}]_vars

\* A panic gets its text out and halts, whatever it has interrupted and
\* whatever exceptions interrupt it.
PanicHalts == (\E k \in DOMAIN stack : stack[k].op = "panic") ~> (Halted \/ wild)
===============================================================================
