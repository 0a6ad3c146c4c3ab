--------------------------------- MODULE Uart ---------------------------------
(***************************************************************************)
(* The serial driver, src/drivers/serial/serial.c, access by access to the *)
(* ports of the UART, and the UART as far as the driver uses it: a divisor *)
(* latch behind the data port while DLAB is set, a transmit register, a    *)
(* receive register and a loop-back mode.  The UART moves a byte some time *)
(* after it was written.                                                   *)
(***************************************************************************)
EXTENDS Integers, Sequences, SequencesExt

CONSTANTS
  BYTE,       \* the number of values of a byte
  Test,       \* the byte 0xAE of the loop-back test
  Chars,      \* the characters that are written
  Divisors,   \* the divisors of direct calls of serial_configure_baud_rate
  MaxWrites, MaxInits  \* bounds on the calls

ASSUME UartAssumption ==
  /\ BYTE \in Nat \ {0, 1, 2, 3} /\ Test \in 0 .. (BYTE - 1)
  /\ Chars \subseteq 0 .. (BYTE - 1) /\ Divisors \subseteq 0 .. (BYTE * BYTE - 1)
  /\ MaxWrites \in Nat /\ MaxInits \in Nat

NONE == -1

VARIABLES
  present,                   \* there is a UART at the ports
  dlab, dll, dlm, loop,      \* its state
  thr, rbr,                  \* the byte to be sent, the byte received, or NONE
  line,                      \* what has left the port (history)
  isInitialied,
  todo,                      \* the port accesses the running call still has to make
  result,                    \* of the last serial_init, or NONE
  asked,                     \* the divisor that was asked for last (history)
  given,                     \* the characters given to serial_write after initialisation (history)
  inits

uart == <<dlab, dll, dlm, loop, thr, rbr, line>>
vars == <<present, uart, isInitialied, todo, result, asked, given, inits>>

\* The accesses of serial_configure_baud_rate.
serial_configure_baud_rate(divisor) ==
  << <<"LCR", TRUE>>, <<"DATA", divisor \div BYTE>>, <<"DATA", divisor % BYTE>> >>

\* Mutant: the FIFO is not cleared before the test.
PrepareUncleared ==
  << <<"LCR", FALSE>>, <<"MCR", FALSE>>, <<"MCR", TRUE>>, <<"DATA", Test>>, <<"TEST">> >>

\* The accesses of serial_init after the divisor, up to the test.
Prepare ==
  << <<"LCR", FALSE>>, <<"FCR">>, <<"MCR", FALSE>>, <<"MCR", TRUE>>, <<"DATA", Test>>, <<"TEST">> >>

Init ==
  /\ present \in BOOLEAN
  /\ dlab = FALSE /\ dll = 1 /\ dlm = 0 /\ loop = FALSE
  /\ thr = NONE /\ rbr \in {NONE, Test} /\ line = <<>>
  /\ isInitialied = FALSE /\ todo = <<>> /\ result = NONE
  /\ asked = 1 /\ given = <<>> /\ inits = 0

-------------------------------------------------------------------------------
(* The UART *)

\* A byte reaches its end: the receive register in loop-back mode, else the line.
Shift ==
  /\ present /\ thr # NONE
  /\ thr' = NONE
  /\ IF loop THEN rbr' = thr /\ UNCHANGED line ELSE line' = Append(line, thr) /\ UNCHANGED rbr
  /\ UNCHANGED <<present, dlab, dll, dlm, loop, isInitialied, todo, result, asked, given, inits>>

\* outb.  0xC7 in the FIFO control register clears both directions.
Out(access) ==
  IF ~present THEN UNCHANGED uart
  ELSE CASE access[1] = "LCR" -> dlab' = access[2] /\ UNCHANGED <<dll, dlm, loop, thr, rbr, line>>
         [] access[1] = "MCR" -> loop' = access[2] /\ UNCHANGED <<dlab, dll, dlm, thr, rbr, line>>
         [] access[1] = "FCR" -> thr' = NONE /\ rbr' = NONE /\ UNCHANGED <<dlab, dll, dlm, loop, line>>
         [] access[1] = "DATA" /\ dlab -> dll' = access[2] /\ UNCHANGED <<dlab, dlm, loop, thr, rbr, line>>
         [] access[1] = "DATA" /\ ~dlab -> thr' = access[2] /\ UNCHANGED <<dlab, dll, dlm, loop, rbr, line>>

\* The transmit-empty bit of the line status register; a port without a UART
\* reads as ones.
is_transmit_empty == ~present \/ thr = NONE

-------------------------------------------------------------------------------
(* The driver *)

serial_init ==
  /\ todo = <<>> /\ inits < MaxInits /\ inits' = inits + 1
  /\ \/ isInitialied /\ result' = -1 /\ UNCHANGED <<todo, asked>>
     \/ /\ ~isInitialied
        /\ todo' = serial_configure_baud_rate(3) \o Prepare
        /\ asked' = 3
        /\ UNCHANGED result
  /\ UNCHANGED <<present, uart, isInitialied, given>>

\* A direct call of the exported function.  It leaves DLAB set, so callers may
\* make it only before serial_init, which clears it.
Configure ==
  /\ todo = <<>> /\ ~isInitialied
  /\ \E divisor \in Divisors : todo' = serial_configure_baud_rate(divisor) /\ asked' = divisor
  /\ UNCHANGED <<present, uart, isInitialied, result, given, inits>>

\* The next outb of the running call.
Access ==
  /\ todo # <<>> /\ Head(todo)[1] \notin {"TEST", "WAIT"}
  /\ Out(Head(todo))
  /\ todo' = Tail(todo)
  /\ UNCHANGED <<present, isInitialied, result, asked, given, inits>>

\* Mutant: the port stays in loop-back mode.
LoopTestStays ==
  /\ todo # <<>> /\ Head(todo)[1] = "TEST"
  /\ \/ /\ present /\ rbr = Test
        /\ rbr' = NONE /\ result' = 0 /\ isInitialied' = TRUE /\ todo' = Tail(todo)
     \/ /\ ~(present /\ rbr = Test)
        /\ result' = -1 /\ todo' = <<>> /\ UNCHANGED <<rbr, isInitialied>>
  /\ UNCHANGED <<present, dlab, dll, dlm, loop, thr, line, asked, given, inits>>

\* inb of the data port, which is read whether or not a byte has come; then
\* normal mode.  A success is shown as 0 (see Console for the real result).
LoopTest ==
  /\ todo # <<>> /\ Head(todo)[1] = "TEST"
  /\ \/ /\ present /\ rbr = Test
        /\ rbr' = NONE /\ loop' = FALSE /\ result' = 0 /\ isInitialied' = TRUE /\ todo' = Tail(todo)
     \/ /\ ~(present /\ rbr = Test)
        /\ result' = -1 /\ todo' = <<>> /\ UNCHANGED <<rbr, loop, isInitialied>>
  /\ UNCHANGED <<present, dlab, dll, dlm, thr, line, asked, given, inits>>

serial_write ==
  /\ todo = <<>> /\ isInitialied /\ Len(given) < MaxWrites
  /\ \E c \in Chars : given' = Append(given, c) /\ todo' = << <<"WAIT">>, <<"DATA", c>> >>
  /\ UNCHANGED <<present, uart, isInitialied, result, asked, inits>>

\* Mutant: the transmit register is not waited for.
NoWait ==
  /\ todo # <<>> /\ Head(todo)[1] = "WAIT"
  /\ todo' = Tail(todo)
  /\ UNCHANGED <<present, uart, isInitialied, result, asked, given, inits>>

\* while (is_transmit_empty(current_com) == 0);
Wait ==
  /\ todo # <<>> /\ Head(todo)[1] = "WAIT" /\ is_transmit_empty
  /\ todo' = Tail(todo)
  /\ UNCHANGED <<present, uart, isInitialied, result, asked, given, inits>>

Idle == todo = <<>> /\ UNCHANGED vars

Next ==
  \/ Shift
  \/ serial_init \/ Configure \/ serial_write
  \/ Access \/ LoopTest \/ Wait
  \/ Idle

\* The processor executes the driver, and the UART sends what it holds.
Spec == Init /\ [][Next]_vars /\ WF_vars(Access \/ LoopTest \/ Wait) /\ WF_vars(Shift)

-------------------------------------------------------------------------------
\* What has left the port is a beginning of what serial_write was given, in
\* order, without loss: the test byte stays inside, and no character overtakes
\* or overwrites another.
LineInOrder == IsPrefix(line, given)

\* Everything that serial_write was given leaves the port.
AllSent == [](Len(given) > 0 => <>(line = given))

\* serial_init succeeds only if there is a UART that has looped this call's test
\* byte: an old byte in its receive register, of that value or not, is not
\* taken for it, so that the test byte is not still on its way.
TestIsGenuine == isInitialied => present /\ (given = <<>> => thr = NONE)

\* What serial.h says of serial_configure_baud_rate: the speed becomes the
\* default speed divided by the divisor that was asked for.
SpeedAsAsked == present /\ todo = <<>> => dlm * BYTE + dll = asked
===============================================================================
