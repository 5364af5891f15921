---------------------------- MODULE FormatNumber ----------------------------
(***************************************************************************)
(* The conversions of vsnprintf (src/vsnprintf.cpp): what a parsed         *)
(* directive and its argument become before the field is put into the      *)
(* buffer, and, for comparison, what the C standard says the field is.     *)
(*                                                                         *)
(* A directive is a record                                                 *)
(*   conv   one of Conversions, or "lit" for a byte of the format itself   *)
(*   flags  a subset of Flags                                              *)
(*   width  the field width, prec the precision; None when absent          *)
(*   star   which of "width" and "prec" are passed as arguments            *)
(*   len    the length modifier                                            *)
(*   arg    an integer, a pointer value or a string                        *)
(***************************************************************************)
EXTENDS Integers, SequencesExt

None == -1

Signed      == {"d", "i"}
Unsigned    == {"u", "o", "x", "X"}
Conversions == Signed \cup Unsigned \cup {"p", "c", "s", "n", "%"}

(* A conversion without flags, width, precision or length modifier.        *)
Plain(conv, arg) ==
  [conv |-> conv, flags |-> {}, width |-> None, prec |-> None, len |-> "none",
   arg |-> arg, star |-> {}]

Null == <<"(", "n", "u", "l", "l", ")">>
Nil  == <<"(", "n", "i", "l", ")">>

(* The argument of %s that is a null pointer.                              *)
Nullptr == <<"nullptr">>

Spaces(n) == [k \in 1 .. n |-> " "]
Zeros(n)  == [k \in 1 .. n |-> "0"]

LowerDigits == <<"0", "1", "2", "3", "4", "5", "6", "7",
                 "8", "9", "a", "b", "c", "d", "e", "f">>
UpperDigits == SubSeq(LowerDigits, 1, 10) \o <<"A", "B", "C", "D", "E", "F">>

Radix(conv) == IF conv = "o" THEN 8 ELSE IF conv \in {"x", "X", "p"} THEN 16 ELSE 10

DigitSymbols(conv) == IF conv = "X" THEN UpperDigits ELSE LowerDigits

(* The digits of number, most significant first; none for zero.            *)
DigitsOf(number, conv) ==
  LET r == Radix(conv)
      digits[n \in 0 .. number] ==
        IF n = 0 THEN <<>> ELSE Append(digits[n \div r], DigitSymbols(conv)[(n % r) + 1])
  IN  digits[number]

(* What the alternative form puts before the digits.                       *)
AltPrefix(conv) ==
  IF conv = "o" THEN <<"0">>
  ELSE IF conv = "x" THEN <<"0", "x">>
  ELSE IF conv = "X" THEN <<"0", "X">>
  ELSE <<>>

-----------------------------------------------------------------------------
FlagBytes == <<"-", "+", " ", "#", "0">>
Flags == {FlagBytes[k] : k \in DOMAIN FlagBytes}
DigitBytes == {LowerDigits[k] : k \in 1 .. 10}

(* The bytes of a directive behind its "%", as a client writes them, and   *)
(* the arguments its stars take.                                           *)
Written(number) == IF number = 0 THEN <<"0">> ELSE DigitsOf(number, "d")

Text(d) ==
  LET value(field, n) == IF field \in d.star THEN <<"*">> ELSE Written(n)
      letters == [none |-> <<>>, h |-> <<"h">>, hh |-> <<"h", "h">>, l |-> <<"l">>,
                  ll |-> <<"l", "l">>, z |-> <<"z">>, t |-> <<"t">>]
  IN  SelectSeq(FlagBytes, LAMBDA f : f \in d.flags)
      \o (IF d.width = None THEN <<>> ELSE value("width", d.width))
      \o (IF d.prec = None THEN <<>> ELSE <<".">> \o value("prec", d.prec))
      \o letters[d.len] \o <<d.conv>>

StarArguments(d) ==
  (IF "width" \in d.star THEN <<d.width>> ELSE <<>>)
    \o (IF "prec" \in d.star THEN <<d.prec>> ELSE <<>>)

(* The first byte of fmt from i on that is not in bytes.                   *)
Skip(fmt, i, bytes) == Min({k \in i .. Len(fmt) : fmt[k] \notin bytes})

ParseNumber(fmt, from, to) ==
  FoldLeft(LAMBDA v, c : v * 10 + (CHOOSE n \in 0 .. 9 : LowerDigits[n + 1] = c),
           0, SubSeq(fmt, from, to - 1))

(* parse_flags_fw_precision up to the precision.  The branch for a "-"     *)
(* behind the flags is never taken: the flags end at another byte.         *)
ParseFlags(fmt, ap) ==
  LET w == Skip(fmt, 1, Flags)
      e == Skip(fmt, w, DigitBytes)
      flags == {fmt[k] : k \in 1 .. w - 1}
  IN  IF fmt[w] = "*"
      THEN [flags |-> flags, width |-> Head(ap), next |-> w + 1, args |-> Tail(ap)]
      ELSE [flags |-> flags, width |-> IF e = w THEN None ELSE ParseNumber(fmt, w, e),
            next |-> e, args |-> ap]

(* The precision clears the zero flag; "." alone is a precision of 0.      *)
ParsePrecision(fmt, spec) ==
  LET p == spec.next + 1
      e == Skip(fmt, p, DigitBytes)
  IN  IF fmt[spec.next] # "." THEN [prec |-> None] @@ spec
      ELSE [[prec |-> IF fmt[p] = "*" THEN Head(spec.args)
                      ELSE IF fmt[p] = "-" THEN None ELSE ParseNumber(fmt, p, e)]
            @@ spec EXCEPT
              !.flags = @ \ {"0"},
              !.next = IF fmt[p] = "*" THEN p + 1
                       ELSE IF fmt[p] = "-" THEN Skip(fmt, p + 1, DigitBytes) ELSE e]

ParseSizeSpecifier(fmt, spec) ==
  LET c      == fmt[spec.next]
      double == c \in {"h", "l"} /\ fmt[spec.next + 1] = c
      len    == CASE c = "h" -> IF double THEN "hh" ELSE "h"
                  [] c = "l" -> IF double THEN "ll" ELSE "l"
                  [] c \in {"z", "t"} -> c
                  [] OTHER -> "none"
      skip   == IF len = "none" THEN 0 ELSE IF double THEN 2 ELSE 1
  IN  [len |-> len, conv |-> fmt[spec.next + skip]] @@ spec

(* A seeded bug: "-" leaves the zero flag alone.                           *)
ParsedKeepsZero(d) ==
  LET fmt == Text(d)
  IN  [arg |-> d.arg]
      @@ ParseSizeSpecifier(fmt, ParsePrecision(fmt, ParseFlags(fmt, StarArguments(d))))

(* What vsnprintf makes of the directive; "-" cancels the zero flag.       *)
Parsed(d) ==
  LET fmt  == Text(d)
      spec == ParseSizeSpecifier(fmt, ParsePrecision(fmt, ParseFlags(fmt, StarArguments(d))))
  IN  [arg |-> d.arg,
       flags |-> IF "-" \in spec.flags THEN spec.flags \ {"0"} ELSE spec.flags]
      @@ spec

(* read_signed_number, read_unsigned_number: only hh narrows the argument. *)
ReadNumber(d) ==
  CASE d.len = "hh" /\ d.conv \in Signed   -> ((d.arg + 128) % 256) - 128
    [] d.len = "hh" /\ d.conv \in Unsigned -> d.arg % 256
    [] OTHER                               -> d.arg

(* number_to_string.  Its 66 bytes are enough for every precision a client *)
(* passes (see ClientsAssumption in Vsnprintf).                          *)
NumberToString(number, spec) ==
  LET digits == IF number = 0 THEN <<"0">> ELSE DigitsOf(number, spec.conv)
      prefix == IF "#" \in spec.flags /\ number > 0 THEN AltPrefix(spec.conv) ELSE <<>>
      taken  == IF "0" \in spec.flags THEN Len(prefix) ELSE 0
      zeros  == Zeros(spec.prec - Len(digits) - taken)
  IN  IF spec.prec = 0 /\ number = 0 THEN <<>> ELSE prefix \o zeros \o digits

(* format_number: the sign, and the zero flag turned into a precision.     *)
Sign(negative, flags) ==
  IF negative THEN <<"-">>
  ELSE IF "+" \in flags THEN <<"+">>
  ELSE IF " " \in flags THEN <<" ">>
  ELSE <<>>

ZeroFlag(spec, sign) ==
  IF "0" \in spec.flags
  THEN LET wide == spec.prec < spec.width
           prec == IF wide THEN spec.width ELSE spec.prec
       IN  [spec EXCEPT !.prec = IF sign = <<>> THEN prec ELSE prec - 1,
                        !.width = IF wide THEN 0 ELSE @]
  ELSE spec

FormatNumber(negative, number, spec) ==
  LET sign   == Sign(negative, spec.flags)
      padded == ZeroFlag(spec, sign)
  IN  [text |-> sign \o NumberToString(number, padded), width |-> padded.width]

(* The flags each conversion drops before format_number.                   *)
Dropped(conv) ==
  IF conv \in Signed THEN {"#"}
  ELSE IF conv = "u" THEN {"#", " ", "+"}
  ELSE IF conv = "p" THEN {"0", " ", "+", "#"}
  ELSE {" ", "+"}

PointerDigits == 16

(* format_string: at most room bytes of the string are looked at.          *)
(* strnlen, which counts them, is modelled by its result.                  *)
FormatString(str, d, room) ==
  LET count == IF d.prec >= 0 /\ d.prec < room THEN d.prec ELSE room
  IN  [text |-> SubSeq(str, 1, IF Len(str) < count THEN Len(str) ELSE count),
       width |-> d.width]

(* The field a parsed directive puts into room bytes: its text and the     *)
(* width left to pad with spaces.                                          *)
Field(d, room) ==
  LET spec == [d EXCEPT !.flags = @ \ Dropped(d.conv)]
  IN  CASE d.conv \in Signed ->
             LET value == ReadNumber(d)
             IN  FormatNumber(value < 0, IF value < 0 THEN -value ELSE value, spec)
        [] d.conv \in Unsigned -> FormatNumber(FALSE, ReadNumber(d), spec)
        [] d.conv = "p" /\ d.arg # 0 ->
             FormatNumber(FALSE, d.arg,
                          IF d.prec = None /\ d.width = None
                          THEN [spec EXCEPT !.prec = PointerDigits] ELSE spec)
        [] d.conv = "p" /\ d.arg = 0 -> FormatString(Nil, d, room)
        [] d.conv = "c" -> [text |-> d.arg, width |-> d.width]
        [] d.conv = "s" -> FormatString(IF d.arg = Nullptr THEN Null ELSE d.arg, d, room)

-----------------------------------------------------------------------------
(* What C says, written independently of the code above.                   *)
NarrowedByC(d) ==
  LET w == IF d.len = "hh" THEN 256 ELSE 65536
  IN  IF d.len \notin {"h", "hh"} THEN d.arg
      ELSE IF d.conv \in Signed THEN ((d.arg + w \div 2) % w) - w \div 2
      ELSE d.arg % w

NumberByC(d) ==
  LET value  == NarrowedByC(d)
      number == IF value < 0 THEN -value ELSE value
      sign   == IF d.conv \notin Signed THEN <<>>
                ELSE IF value < 0 THEN <<"-">>
                ELSE IF "+" \in d.flags THEN <<"+">>
                ELSE IF " " \in d.flags THEN <<" ">> ELSE <<>>
      least  == IF d.prec = None THEN 1 ELSE d.prec
      plain  == DigitsOf(number, d.conv)
      digits == IF Len(plain) < least THEN Zeros(least - Len(plain)) \o plain ELSE plain
      prefix == IF "#" \notin d.flags \/ number = 0 \/ d.conv \notin {"o", "x", "X"} THEN <<>>
                ELSE IF d.conv = "o" /\ digits[1] = "0" THEN <<>>
                ELSE AltPrefix(d.conv)
      zeros  == IF "0" \in d.flags /\ "-" \notin d.flags /\ d.prec = None
                THEN Zeros(d.width - Len(sign \o prefix \o digits)) ELSE <<>>
  IN  sign \o prefix \o zeros \o digits

(* A precision cuts a string.                                              *)
CutByC(str, prec) == IF prec # None /\ prec < Len(str) THEN SubSeq(str, 1, prec) ELSE str

PointerByC(d) ==
  IF d.arg = 0 THEN CutByC(Nil, d.prec)
  ELSE LET plain == DigitsOf(d.arg, "p")
           least == IF d.prec # None THEN d.prec
                    ELSE IF d.width = None THEN PointerDigits ELSE 1
       IN  Zeros(least - Len(plain)) \o plain

StringByC(d) == CutByC(IF d.arg = Nullptr THEN Null ELSE d.arg, d.prec)

TextByC(d) ==
  CASE d.conv \in Signed \cup Unsigned -> NumberByC(d)
    [] d.conv = "p" -> PointerByC(d)
    [] d.conv = "s" -> StringByC(d)
    [] d.conv \in {"c", "lit"} -> d.arg
    [] d.conv = "n" -> <<>>
    [] d.conv = "%" -> <<"%">>

(* The whole field: the text, and spaces on the side the flags say.        *)
FieldByC(d) ==
  LET text == TextByC(d)
      pad  == IF d.conv \in {"lit", "n", "%"} THEN <<>> ELSE Spaces(d.width - Len(text))
  IN  IF "-" \in d.flags THEN text \o pad ELSE pad \o text
=============================================================================
