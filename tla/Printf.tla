-------------------------------- MODULE Printf --------------------------------
(***************************************************************************)
(* libc/src/printf.c as the targets build it (no floating point, no long   *)
(* long arithmetic): _printf_engine reads a format and its arguments and   *)
(* hands out text; vsnprintf keeps what fits.  Characters are one-letter   *)
(* strings, a format is a sequence of them.  An argument is an integer, or *)
(* a sequence of characters for %s (NullString for a null pointer).        *)
(***************************************************************************)
EXTENDS Integers, Sequences, SequencesExt, FiniteSetsExt

CONSTANTS Long, Short, Char   \* bits of long (and int), short, char: 32, 16, 8

ASSUME PrintfAssumption ==
  Char \in Nat \ {0} /\ Short \in Nat /\ Long \in Nat /\
  Char < Short /\ Short < Long

NUL == "nul"
NullString == <<"null">>

hextable == <<"0", "1", "2", "3", "4", "5", "6", "7", "8", "9",
              "a", "b", "c", "d", "e", "f">>
hextable_caps == SubSeq(hextable, 1, 10) \o <<"A", "B", "C", "D", "E", "F">>

\* The digits of n, least significant last.
RECURSIVE ToDigits(_, _, _)
ToDigits(n, base, table) ==
  (IF n < base THEN <<>> ELSE ToDigits(n \div base, base, table))
    \o <<table[(n % base) + 1]>>

Copies(n, c) == [i \in 1..Max({n, 0}) |-> c]

-----------------------------------------------------------------------------
(* One directive: what stands between the % and the conversion.            *)

NoFlags == [set |-> {}, num |-> 0]

Doubled == [l |-> "ll", h |-> "hh"]

Modifiers == {"-", "+", " ", "#", "z", "j", "t"}

\* Effect of one character on the flags and the field width.
Modify(f, c) ==
  CASE c \in {hextable[d] : d \in 1..10} ->
         [set |-> f.set \cup (IF c = "0" /\ f.num = 0 THEN {"0"} ELSE {}),
          num |-> f.num * 10 + SelectInSeq(hextable, LAMBDA d : d = c) - 1]
    [] c = "." -> f
    [] c \in {"l", "h"} ->
         [f EXCEPT !.set = @ \cup {c} \cup
                           (IF c \in f.set THEN {Doubled[c]} ELSE {})]
    [] OTHER -> [f EXCEPT !.set = @ \cup {c}]

\* Bits of the argument a conversion reads.
Width(f) == IF {"ll", "l"} \cap f.set # {} THEN Long
            ELSE IF "hh" \in f.set THEN Char
            ELSE IF "h" \in f.set THEN Short
            ELSE Long

\* The argument converted to the type the flags name and widened to a long.
Unsigned(f, arg) == arg % 2^Width(f)
Signed(f, arg) ==
  LET u == Unsigned(f, arg)
  IN (IF u >= 2^(Width(f) - 1) THEN u - 2^Width(f) ELSE u) % 2^Long

longlong_to_string(n, f, signed) ==
  LET negative == signed /\ n >= 2^(Long - 1)
  IN [text |-> ToDigits(IF negative THEN (-n) % 2^Long ELSE n, 10, hextable),
      sign |-> IF negative THEN <<"-">>
               ELSE IF "+" \in f.set THEN <<"+">>
               ELSE IF " " \in f.set THEN <<" ">>
               ELSE <<>>]

longlong_to_hexstring(n, caps) ==
  [text |-> ToDigits(n, 16, IF caps THEN hextable_caps ELSE hextable),
   sign |-> <<>>]

\* The shared output code.  Left-justified numbers get no sign.
_output_string(f, s, zero) ==
  LET num == IF s.sign # <<>> /\ f.num > 0 THEN f.num - 1 ELSE f.num
      pad == Copies(num - Len(s.text), IF zero THEN "0" ELSE " ")
  IN IF "-" \in f.set THEN s.text \o Copies(f.num - Len(s.text), " ")
     ELSE IF zero THEN s.sign \o pad \o s.text
     ELSE pad \o s.sign \o s.text

Conversions == {"%", "c", "s", "i", "d", "u", "p", "X", "x", "n"}

\* Text a conversion puts out for its argument.
Convert(f, c, arg) ==
  LET zero == "0" \in f.set
      hex(caps, g) ==
        (IF "#" \in g.set THEN <<"0", IF caps THEN "X" ELSE "x">> ELSE <<>>)
          \o _output_string(g, longlong_to_hexstring(Unsigned(g, arg), caps),
                            zero)
      text(s) == _output_string(f, [text |-> s, sign |-> <<>>], FALSE)
  IN CASE c = "%"         -> <<"%">>
       [] c = "c"         -> <<arg>>
       [] c = "s"         -> text(IF arg = NullString
                                  THEN <<"<", "n", "u", "l", "l", ">">>
                                  ELSE arg)
       [] c \in {"i", "d"} ->
            _output_string(f, longlong_to_string(Signed(f, arg), f, TRUE), zero)
       [] c = "u"         ->
            _output_string(f, longlong_to_string(Unsigned(f, arg), f, FALSE),
                           zero)
       [] c = "p"         -> hex(FALSE, [f EXCEPT !.set = @ \cup {"l", "#"}])
       [] c \in {"x", "X"} -> hex(c = "X", f)
       [] c = "n"         -> <<>>
       [] OTHER           -> <<"%", c>>

\* The engine at position i of the format, with the flags of a directive
\* that is under way (f # NoFlags only there), the arguments left, the text
\* handed out so far and the values stored through %n.
RECURSIVE Engine(_, _, _, _, _, _, _)
Engine(fmt, i, directive, f, args, out, counts) ==
  IF i > Len(fmt) THEN [out |-> out, counts |-> counts]
  ELSE LET c == fmt[i]
       IN IF ~directive /\ c = "%"
          THEN Engine(fmt, i + 1, TRUE, NoFlags, args, out, counts)
          ELSE IF ~directive
          THEN Engine(fmt, i + 1, FALSE, f, args, Append(out, c), counts)
          ELSE IF c \in Modifiers \cup {"l", "h", "."} \cup
                        {hextable[d] : d \in 1..10}
          THEN Engine(fmt, i + 1, TRUE, Modify(f, c), args, out, counts)
          ELSE IF c \in Conversions \ {"%"}
          THEN Engine(fmt, i + 1, FALSE, f, Tail(args),
                      out \o Convert(f, c, Head(args)),
                      IF c = "n" THEN Append(counts, Len(out) % 2^Width(f))
                      ELSE counts)
          ELSE Engine(fmt, i + 1, FALSE, f, args,
                      out \o Convert(f, c, NUL), counts)

_printf_engine(fmt, args) == Engine(fmt, 1, FALSE, NoFlags, args, <<>>, <<>>)

\* The output function of vsnprintf: what fits into len characters.
_vsnprintf_output(str, len, out) ==
  [i \in DOMAIN str |->
     IF i \in 1..Min({len, Len(out)}) THEN out[i] ELSE str[i]]

\* Mutant of Terminate: a text that just fills the buffer counts as short.
TerminatePast(str, len, wlen) ==
  [str EXCEPT ![IF wlen > len THEN len ELSE wlen + 1] = NUL]

Terminate(str, len, wlen) ==
  [str EXCEPT ![IF wlen >= len THEN len ELSE wlen + 1] = NUL]

\* str is the memory of the buffer (from 1 on), of the byte before it (0)
\* and of what lies behind it.  A buffer of no bytes is terminated at its
\* byte len - 1 like any other: at 0.
vsnprintf(str, len, fmt, args) ==
  LET engine == _printf_engine(fmt, args)
      wlen   == Len(engine.out)
  IN [str |-> Terminate(_vsnprintf_output(str, len, engine.out), len, wlen),
      wlen |-> wlen, counts |-> engine.counts]

-----------------------------------------------------------------------------
(* Reference: a format of one directive.                                   *)

Format(before, mods, c, after) == before \o <<"%">> \o mods \o <<c>> \o after

DigitOf(c) == CASE c \in Range(hextable) ->
                     SelectInSeq(hextable, LAMBDA d : d = c) - 1
                [] c \in Range(hextable_caps) ->
                     SelectInSeq(hextable_caps, LAMBDA d : d = c) - 1
                [] OTHER -> -1

\* The number a field shows: blanks, a sign and 0x are not digits.
Shows(field, base) ==
  LET body   == SelectSeq(field, LAMBDA c : c \notin {" ", "+", "-", "x", "X"})
      number == FoldLeft(LAMBDA n, c : n * base + DigitOf(c), 0, body)
  IN IF "-" \in Range(field) THEN -number ELSE number

\* The number an argument is, read as mods and the conversion say.
Denotes(mods, c, arg) ==
  LET h    == Len(SelectSeq(mods, LAMBDA m : m = "h"))
      bits == IF "l" \in Range(mods) \/ c = "p" \/ h = 0 THEN Long
              ELSE IF h = 1 THEN Short
              ELSE Char
      u    == arg % 2^bits
  IN IF c \in {"d", "i"} /\ u >= 2^(bits - 1) THEN u - 2^bits ELSE u

\* The width of a field: all the digits of the directive, those behind a
\* '.' too, since only the '.' itself is eaten.
FieldWidth(mods) ==
  FoldLeft(LAMBDA n, d : n * 10 + DigitOf(d), 0,
           SelectSeq(mods, LAMBDA d : DigitOf(d) \in 0..9))

LeftJustified(mods) == "-" \in Range(mods)

\* A number with all its digits and its sign, filling the width; a 0x in
\* front is not counted.  The exception: left-justified, no sign is shown.
NumberShown(field, mods, c, arg) ==
  LET left   == LeftJustified(mods)
      base   == IF c \in {"d", "i", "u"} THEN 10 ELSE 16
      value  == Denotes(mods, c, arg)
      size   == IF value < 0 THEN -value ELSE value
      signed == base = 10 /\ (value < 0 \/ {"+", " "} \cap Range(mods) # {})
      alt    == c = "p" \/ (base = 16 /\ "#" \in Range(mods))
      least  == Min({k \in 1..4 : size < base^k})
  IN /\ ~left => Shows(field, base) = value
     /\ left  => Shows(field, base) = size
     /\ Len(field) = Max({FieldWidth(mods),
                          least + (IF signed /\ ~left THEN 1 ELSE 0)})
                     + (IF alt THEN 2 ELSE 0)
     /\ field[IF left THEN 1 ELSE Len(field)] # " "
     /\ ~left /\ signed /\ value >= 0 /\ "+" \in Range(mods) =>
          "+" \in Range(field)

\* A text s at one end of the width, blanks in the rest of it.
TextPadded(field, mods, s) ==
  LET at == IF LeftJustified(mods) THEN 0 ELSE Len(field) - Len(s)
  IN /\ Len(field) = Max({FieldWidth(mods), Len(s)})
     /\ \A i \in DOMAIN field :
          field[i] = IF i \in at+1..at+Len(s) THEN s[i - at] ELSE " "

\* What must stand where the directive stood.
FieldExact(field, mods, c, arg) ==
  CASE c \in {"d", "i", "u", "x", "X", "p"} -> NumberShown(field, mods, c, arg)
    [] c = "s" -> TextPadded(field, mods,
                             IF arg = NullString
                             THEN <<"<", "n", "u", "l", "l", ">">> ELSE arg)
    [] c = "c" -> field = <<arg>>
    [] c = "%" -> field = <<"%">>
    [] c = "n" -> field = <<>>
    [] OTHER   -> field = <<"%", c>>

\* What vsnprintf(str, len, ...) must leave behind: a terminated prefix of
\* the text, nothing outside the buffer, and the length of the whole text.
\* The exception: without room for a terminator the byte before the buffer
\* is set to zero.
BufferExact(before, str, len, text, result) ==
  LET kept == Min({Len(text), len - 1})
  IN /\ result.wlen = Len(text)
     /\ len > 0 =>
          result.str = [i \in DOMAIN str |-> CASE i \in 1..kept -> text[i]
                                               [] i = kept + 1 -> NUL
                                               [] OTHER        -> str[i]]
     /\ len = 0 => result.str = [str EXCEPT ![0] = NUL]
     /\ \A n \in DOMAIN result.counts : result.counts[n] = Len(before)
===============================================================================
