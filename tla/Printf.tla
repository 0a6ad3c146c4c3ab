-------------------------------- MODULE Printf --------------------------------
(***************************************************************************)
(* The formatted output of src/utils/printf.c.  A format is a sequence of  *)
(* directives and plain characters, taken as parsed; each is converted as  *)
(* _vsnprintf and its helpers do it, and put out character by character.   *)
(* Floating point is disabled in the source.                               *)
(***************************************************************************)
EXTENDS Integers, Sequences, FiniteSetsExt, SequencesExt

CONSTANTS
  BUFFER,                                \* PRINTF_NTOA_BUFFER_SIZE
  CharBits, ShortBits, IntBits, LongBits, \* the widths of the integer types
  Calls                                  \* formats with their arguments, output, and count

Digits == <<"0", "1", "2", "3", "4", "5", "6", "7", "8", "9", "a", "b", "c", "d", "e", "f">>
NUL == "NUL"

VARIABLES
  format,      \* the directives still to come
  all,         \* the whole format (history)
  out, count,  \* the output function and "maxlen"
  buffer,      \* the caller's buffer, larger than count
  idx,
  text,        \* the characters converted so far (history)
  sent,        \* the characters that reached the output function of kprintf or fctprintf
  pc           \* "convert", "terminate", "done"

vars == <<format, all, out, count, buffer, idx, text, sent, pc>>

Spaces(n) == [k \in 1 .. n |-> " "]
Zeros(n) == [k \in 1 .. n |-> "0"]

\* The number of pad characters that bring len up to n.
Missing(len, n) == Max({n - len, 0})

-------------------------------------------------------------------------------
(* _ntoa_long, _ntoa_long_long *)

\* buf with zeros up to n, as far as the buffer reaches.
PadZeros(buf, n) == buf \o Zeros(Missing(Len(buf), Min({n, BUFFER})))

\* buf with one more character, if there is room.
Add(buf, char) == IF Len(buf) < BUFFER THEN Append(buf, char) ELSE buf

\* The digits of value, the lowest first, until the buffer is full.
DigitLoop(value, base) ==
  LET from[v \in 0 .. value] ==
        <<Digits[(v % base) + 1]>> \o (IF v \div base = 0 THEN <<>> ELSE from[v \div base])
  IN SubSeq(from[value], 1, Min({Len(from[value]), BUFFER}))

_out_rev(buf, width, flags) ==
  (IF {"LEFT", "ZEROPAD"} \cap flags = {} THEN Spaces(Missing(Len(buf), width)) ELSE <<>>)
  \o Reverse(buf)
  \o (IF "LEFT" \in flags THEN Spaces(Missing(Len(buf), width)) ELSE <<>>)

\* The prefix of an alternate form.  It takes the place of padding zeros, or
\* of digits, when the number is exactly as long as width or precision.
Hash(buf, base, prec, width, flags) ==
  LET replaces == "PRECISION" \notin flags /\ Len(buf) > 0
                  /\ (Len(buf) = prec \/ Len(buf) = width)
      short == IF ~replaces THEN buf
               ELSE IF base = 16 /\ Len(buf) > 1 THEN SubSeq(buf, 1, Len(buf) - 2)
               ELSE SubSeq(buf, 1, Len(buf) - 1)
      marked == IF base = 16 THEN Add(short, "x")
                ELSE IF base = 2 THEN Add(short, "b") ELSE short
  IN Add(marked, "0")

Sign(buf, negative, flags) ==
  IF negative THEN Add(buf, "-")
  ELSE IF "PLUS" \in flags THEN Add(buf, "+")
  ELSE IF "SPACE" \in flags THEN Add(buf, " ") ELSE buf

_ntoa_format(buf, negative, base, prec, width, flags) ==
  LET signed == negative \/ {"PLUS", "SPACE"} \cap flags # {}
      w == IF "LEFT" \notin flags /\ width > 0 /\ "ZEROPAD" \in flags /\ signed
           THEN width - 1 ELSE width
      padded == IF "LEFT" \in flags THEN buf
                ELSE PadZeros(PadZeros(buf, prec), IF "ZEROPAD" \in flags THEN w ELSE 0)
      hashed == IF "HASH" \in flags THEN Hash(padded, base, prec, w, flags) ELSE padded
  IN _out_rev(Sign(hashed, negative, flags), w, flags)

_ntoa(value, negative, base, prec, width, flags) ==
  _ntoa_format(IF "PRECISION" \in flags /\ value = 0 THEN <<>> ELSE DigitLoop(value, base),
               negative, base, prec, width, IF value = 0 THEN flags \ {"HASH"} ELSE flags)

-------------------------------------------------------------------------------
(* The directives *)

\* The value of the low bits of v, as an unsigned or as a signed integer.
Unsigned(v, bits) == v % 2 ^ bits
Signed(v, bits) == ((v + 2 ^ (bits - 1)) % 2 ^ bits) - 2 ^ (bits - 1)

BitsOf(length) ==
  CASE length = "hh" -> CharBits [] length = "h" -> ShortBits
    [] length \in {"l", "ll", "j", "z", "t"} -> LongBits [] OTHER -> IntBits

Base(spec) == CASE spec = "x" -> 16 [] spec = "o" -> 8 [] spec = "b" -> 2 [] OTHER -> 10

\* A negative "*" width is a LEFT flag; a precision, even an empty or a negative
\* one, sets PRECISION.
FlagsOf(d) ==
  d.flags \cup (IF d.width < 0 THEN {"LEFT"} ELSE {}) \cup (IF d.prec # <<>> THEN {"PRECISION"} ELSE {})
WidthOf(d) == IF d.width < 0 THEN -d.width ELSE d.width
PrecOf(d) == IF d.prec = <<>> THEN 0 ELSE Max({d.prec[1], 0})

\* Mutant: zero padding stays on beside a precision.
IntegerFlagsZeroKept(d) ==
  FlagsOf(d) \ ((IF Base(d.spec) = 10 THEN {"HASH"} ELSE {})
                 \cup (IF d.spec \in {"d", "i"} THEN {} ELSE {"PLUS", "SPACE"}))

\* The flags that count for an integer.
IntegerFlags(d) ==
  FlagsOf(d) \ ((IF Base(d.spec) = 10 THEN {"HASH"} ELSE {})
                 \cup (IF d.spec \in {"d", "i"} THEN {} ELSE {"PLUS", "SPACE"})
                 \cup (IF d.prec # <<>> THEN {"ZEROPAD"} ELSE {}))

\* d, i, u, x, X, o, b.  The magnitude 0 - value of the least value overflows its
\* signed type; the build (no optimisation) wraps it around, to the right value.
ConvertInteger(d) ==
  LET signed == d.spec \in {"d", "i"}
      bits == BitsOf(d.length)
      value == IF signed THEN Signed(d.arg, bits) ELSE Unsigned(d.arg, bits)
  IN _ntoa(Unsigned(IF value > 0 THEN value ELSE -value, bits), value < 0,
           Base(d.spec), PrecOf(d), WidthOf(d), IntegerFlags(d))

\* Padding on either side, for c and s.
Padded(chars, len, d) ==
  (IF "LEFT" \in FlagsOf(d) THEN <<>> ELSE Spaces(Missing(len, WidthOf(d))))
  \o chars
  \o (IF "LEFT" \in FlagsOf(d) THEN Spaces(Missing(len, WidthOf(d))) ELSE <<>>)

ConvertString(d) ==
  LET shown == IF d.prec = <<>> THEN d.arg ELSE SubSeq(d.arg, 1, Min({PrecOf(d), Len(d.arg)}))
  IN Padded(shown, Len(shown), d)

\* p: a number of full width in hexadecimal digits.
ConvertPointer(d) ==
  _ntoa(d.arg, FALSE, 16, PrecOf(d), LongBits \div 4, FlagsOf(d) \cup {"ZEROPAD"})

Convert(d) ==
  CASE d.spec \in {"d", "i", "u", "x", "o", "b"} -> ConvertInteger(d)
    [] d.spec = "c" -> Padded(<<d.arg>>, 1, d)
    [] d.spec = "s" -> ConvertString(d)
    [] d.spec = "p" -> ConvertPointer(d)
    [] d.spec = "plain" -> <<d.arg>>

-------------------------------------------------------------------------------
(* Output *)

\* chars go to out at idx and the following places: _out_buffer stores what lies
\* below maxlen; _out_char and _out_fct pass on all but the zero character;
\* _out_null drops everything.
Output(chars, at) ==
  /\ buffer' = IF out = "buffer"
               THEN [k \in DOMAIN buffer |->
                       IF k < count /\ k - at + 1 \in DOMAIN chars THEN chars[k - at + 1] ELSE buffer[k]]
               ELSE buffer
  /\ sent' = IF out = "function" THEN sent \o SelectSeq(chars, LAMBDA c : c # NUL) ELSE sent

Init ==
  /\ \E call \in Calls : all = call.format /\ out = call.out /\ count = call.count
  /\ format = all
  /\ buffer = [k \in 0 .. (count + 1) |-> "?"]
  /\ idx = 0 /\ text = <<>> /\ sent = <<>> /\ pc = "convert"

\* One turn of the loop of _vsnprintf.
Directive ==
  /\ pc = "convert" /\ format # <<>>
  /\ Output(Convert(Head(format)), idx)
  /\ text' = text \o Convert(Head(format))
  /\ idx' = idx + Len(Convert(Head(format)))
  /\ format' = Tail(format)
  /\ UNCHANGED <<all, out, count, pc>>

\* Mutant: the terminator goes behind the text.
TerminateAfter ==
  /\ pc = "convert" /\ format = <<>>
  /\ Output(<<NUL>>, idx)
  /\ pc' = "done"
  /\ UNCHANGED <<format, all, out, count, idx, text>>

\* The terminator: out((char)0, buffer, idx < maxlen ? idx : maxlen - 1U, maxlen).
Terminate ==
  /\ pc = "convert" /\ format = <<>>
  /\ Output(<<NUL>>, IF idx < count THEN idx ELSE count - 1)
  /\ pc' = "done"
  /\ UNCHANGED <<format, all, out, count, idx, text>>

Finished == pc = "done" /\ UNCHANGED vars

Next == Directive \/ Terminate \/ Finished

Spec == Init /\ [][Next]_vars

-------------------------------------------------------------------------------
\* ksnprintf stores the longest beginning of the text that leaves room for the
\* terminator, terminates it, and touches nothing else; with a count of 0 it
\* stores nothing.  The result is the length of the whole text, so that it is
\* less than count exactly when the text is complete.
SnprintfContract ==
  pc = "done" /\ out = "buffer" =>
    LET stored == Min({Len(text), count - 1})
    IN /\ idx = Len(text)
       /\ \A k \in DOMAIN buffer :
            buffer[k] = IF k < stored THEN text[k + 1]
                        ELSE IF k = stored THEN NUL ELSE "?"

\* The precision as C has it: a negative one counts as omitted.
CPrecision(d) == SelectSeq(d.prec, LAMBDA p : p >= 0)

\* What C specifies for an integer directive (b, which C lacks, by analogy with u).
Reference(d) ==
  LET prec == CPrecision(d)
      signed == d.spec \in {"d", "i"}
      bits == BitsOf(d.length)
      value == IF signed THEN Signed(d.arg, bits) ELSE Unsigned(d.arg, bits)
      abs == IF value < 0 THEN -value ELSE value
      high[v \in 0 .. abs] ==
        IF v = 0 THEN <<>> ELSE Append(high[v \div Base(d.spec)], Digits[(v % Base(d.spec)) + 1])
      natural == IF abs = 0 /\ prec = <<>> THEN <<"0">> ELSE high[abs]
      digits == Zeros(Missing(Len(natural), IF prec = <<>> THEN 0 ELSE prec[1])) \o natural
      sign == IF value < 0 THEN <<"-">>
              ELSE IF signed /\ "PLUS" \in d.flags THEN <<"+">>
              ELSE IF signed /\ "SPACE" \in d.flags THEN <<" ">> ELSE <<>>
      prefix == IF "HASH" \in d.flags /\ abs # 0 /\ d.spec = "x"
                THEN <<"0", "x">> ELSE <<>>
      fill == Missing(Len(sign \o prefix \o digits), WidthOf(d))
  IN IF "LEFT" \in FlagsOf(d) THEN sign \o prefix \o digits \o Spaces(fill)
     ELSE IF "ZEROPAD" \in d.flags /\ prec = <<>> THEN sign \o prefix \o Zeros(fill) \o digits
     ELSE Spaces(fill) \o sign \o prefix \o digits

IsInteger(d) == d.spec \in {"d", "i", "u", "x", "o", "b"}

\* Where the implementation follows C: the number fits its buffer; a
\* left-justified number has no precision; an alternate form is hexadecimal and,
\* without a precision, its width is not one or two characters less than the
\* prefixed number, for which the prefix overwrites digits; and a negative precision,
\* which the code takes for 0, meets neither the value 0 nor zero padding.
FollowsC(d) ==
  /\ Len(Reference(d)) <= BUFFER
  /\ "LEFT" \in FlagsOf(d) => PrecOf(d) = 0
  /\ "HASH" \in d.flags =>
       /\ d.spec = "x"
       /\ d.prec # <<>> \/ Len(Reference([d EXCEPT !.width = 0])) - WidthOf(d) \notin {1, 2}
  /\ CPrecision(d) # d.prec =>
       Unsigned(d.arg, BitsOf(d.length)) # 0 /\ ("ZEROPAD" \in d.flags => "LEFT" \in FlagsOf(d))

\* Integers are converted as C specifies, for every type, flag, width and
\* precision in that domain.
IntegersFollowC ==
  pc = "done" /\ Len(all) = 1 /\ IsInteger(all[1]) /\ FollowsC(all[1]) => text = Reference(all[1])
===============================================================================
