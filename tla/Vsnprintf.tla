----------------------------- MODULE Vsnprintf -----------------------------
(***************************************************************************)
(* vsnprintf (src/vsnprintf.cpp): the loop that copies the format into a   *)
(* buffer of max_size bytes and expands its directives.  The format is     *)
(* chosen as it is read: every iteration takes any directive of the        *)
(* client's, so the runs cover every format of so many directives.         *)
(*                                                                         *)
(* sprintf is vsnprintf with max_size 1024, snprintf hands max_size on.    *)
(***************************************************************************)
EXTENDS FormatNumber, FiniteSetsExt

CONSTANTS Bytes,      \* the characters
          Clients,    \* the callers
          IntMax      \* INT_MAX

(* What a caller does: the values of max_size it passes, the directives    *)
(* and literal bytes its formats are made of, how many, the memory from    *)
(* buf on (a bound), and what it makes sure of before every conversion:    *)
(* "text" that TextFits holds, "field" that FieldFits holds.               *)
ASSUME ClientsAssumption ==
  \A c \in DOMAIN Clients :
    /\ Clients[c].cells \in Nat /\ Clients[c].sizes \subseteq 0 .. Clients[c].cells - 1
    /\ Clients[c].length \in Nat /\ Clients[c].fit \subseteq {"text", "field"}
    /\ \A d \in Clients[c].directives :
         /\ d.conv \in Conversions \cup {"lit"}
         /\ d.prec \in None .. 32 /\ d.width \in None .. 32
         /\ d.conv = "s" => d.arg \in Seq(Bytes) \cup {Nullptr}
         /\ d.conv \in {"c", "lit"} => d.arg \in Seq(Bytes) /\ Len(d.arg) = 1
ASSUME BytesAssumption ==
  {" ", "%"} \cup {Null[k] : k \in DOMAIN Null} \cup {Nil[k] : k \in DOMAIN Nil} \subseteq Bytes
ASSUME IntMaxAssumption == IntMax \in Nat

VARIABLES client,
          running,    \* is the loop still running?
          maxSize,
          mem,        \* the memory at buf
          pos,        \* pos - buf
          written,    \* the bytes the loop has counted
          i,          \* how many directives and literal bytes have been taken
          total,      \* formatSpec.total
          counted,    \* what the last %n with a pointer stored
          expansion   \* for the properties: what C says the format expands to

vars == <<client, running, maxSize, mem, pos, written, i, total, counted, expansion>>

Untouched == "untouched"
NUL       == "NUL"
Clobbered == "clobbered"

size == maxSize - 1
room == size - written

Least(a, b) == IF a < b THEN a ELSE b

Init ==
  /\ client \in DOMAIN Clients
  /\ maxSize \in Clients[client].sizes
  /\ running = (0 < maxSize /\ maxSize < IntMax)
  /\ mem = [c \in 0 .. Clients[client].cells - 1 |-> Untouched]
  /\ pos = 0 /\ written = 0 /\ i = 0 /\ total = 0 /\ counted = 0
  /\ expansion = <<>>

(* mempcpy and memset: the bytes of s at offset off, the rest unchanged.   *)
WrittenTo(m, off, s) ==
  [c \in DOMAIN m |-> IF off <= c /\ c < off + Len(s) THEN s[c - off + 1] ELSE m[c]]

First(s, n) == SubSeq(s, 1, Least(Len(s), n))

Padding(field) ==
  IF field.width >= Len(field.text) THEN field.width - Len(field.text) ELSE 0

Put(minus, pad, fill, shown, count) ==
  /\ mem' = IF minus THEN WrittenTo(WrittenTo(mem, pos, shown), pos + Len(shown), fill)
                     ELSE WrittenTo(WrittenTo(mem, pos, fill), pos + pad, shown)
  /\ pos' = pos + pad + Len(shown)
  /\ total' = total + count

Rest(minus, pad, space) == IF minus THEN space ELSE Max({0, space - pad})

(* A seeded bug: text that does not fit is not counted.                    *)
PutCountsShown(field, minus, space) ==
  LET pad   == Padding(field)
      shown == First(field.text, Rest(minus, pad, space))
  IN  Put(minus, pad, First(Spaces(pad), space), shown, Len(shown))

(* A seeded bug: the padding gives way to the text.                        *)
PutTextFirst(field, minus, space) ==
  LET pad == Least(Padding(field), Max({0, space - Len(field.text)}))
  IN  Put(minus, pad, First(Spaces(pad), space),
          First(field.text, Rest(minus, pad, space)), pad + Len(field.text))

(* put_with_field_width(pos, text, len, formatSpec, space): padding before *)
(* or behind the text.  As a size_t a negative space is a length beyond    *)
(* all memory: memset, or mempcpy with "-", clobbers what it reaches.      *)
PutWithFieldWidth(field, minus, space) ==
  LET pad == Padding(field)
  IN  IF space < 0
      THEN /\ mem' = [c \in DOMAIN mem |-> IF c < pos THEN mem[c] ELSE Clobbered]
           /\ UNCHANGED <<pos, total>>
      ELSE Put(minus, pad, First(Spaces(pad), space),
               First(field.text, Rest(minus, pad, space)), pad + Len(field.text))

(* The space a conversion may use: a null pointer's is reckoned from the   *)
(* number of iterations, every other one's from the bytes written.         *)
Space(d) == IF d.conv = "p" /\ d.arg = 0 THEN size - i ELSE room

-----------------------------------------------------------------------------
(* The iterations of the loop; the program does not survive an overrun.    *)
Iterate(d) ==
  /\ running /\ room > 0 /\ i < Clients[client].length
  /\ running' = (Space(d) >= 0)
  /\ i' = i + 1
  /\ expansion' = expansion \o FieldByC(d)
  /\ UNCHANGED <<client, maxSize>>

(* A seeded bug: a byte of the format is stored but not counted.           *)
ByteUncounted(d) ==
  /\ d.conv \in {"lit", "%"}
  /\ Iterate(d)
  /\ mem' = WrittenTo(mem, pos, IF d.conv = "%" THEN <<"%">> ELSE d.arg)
  /\ pos' = pos + 1
  /\ written' = IF d.conv = "%" THEN pos' ELSE written
  /\ total' = total + 1
  /\ UNCHANGED counted

(* A byte of the format and "%%" store a byte without going through a      *)
(* field.  The former counts itself and goes on with the loop; all others  *)
(* end at written = pos - buf.                                             *)
Byte(d) ==
  /\ d.conv \in {"lit", "%"}
  /\ Iterate(d)
  /\ mem' = WrittenTo(mem, pos, IF d.conv = "%" THEN <<"%">> ELSE d.arg)
  /\ pos' = pos + 1
  /\ written' = IF d.conv = "%" THEN pos' ELSE written + 1
  /\ total' = total + 1
  /\ UNCHANGED counted

(* %n stores through its argument unless that is a null pointer.           *)
StoreCount(d) ==
  /\ d.conv = "n"
  /\ Iterate(d)
  /\ counted' = IF d.arg = 0 THEN counted ELSE written
  /\ written' = pos
  /\ UNCHANGED <<mem, pos, total>>

(* What a client may make sure of.  The text of a string that has a field  *)
(* width fits into what is left of the buffer, and a null pointer's field  *)
(* into the space it is given, where that is less.                         *)
TextFits(d) ==
  /\ d.conv \in {"s", "p"} /\ d.width # None => Len(TextByC(d)) <= room
  /\ Space(d) < room => Padding(Field(Parsed(d), Space(d))) + Len(Nil) <= Space(d)

(* The padding of the field fits as well, behind the text with that, and   *)
(* a null pointer's field fits whatever space it is given.                 *)
FieldFits(d) ==
  LET field == Field(Parsed(d), Space(d))
      pad   == Padding(field)
  IN  /\ pad > 0 => pad + (IF "-" \in d.flags THEN Len(field.text) ELSE 0) <= room
      /\ Space(d) # room => pad + Len(Nil) <= room

Convert(d) ==
  /\ d.conv \in Conversions \ {"n", "%"}
  /\ Iterate(d)
  /\ "text" \in Clients[client].fit => TextFits(d)
  /\ "field" \in Clients[client].fit => FieldFits(d)
  /\ PutWithFieldWidth(Field(Parsed(d), Space(d)), "-" \in Parsed(d).flags, Space(d))
  /\ written' = pos'
  /\ UNCHANGED counted

(* The loop ends with the format or with the space, and *pos = '\0'.       *)
Finish ==
  /\ running
  /\ running' = FALSE
  /\ mem' = WrittenTo(mem, pos, <<NUL>>)
  /\ UNCHANGED <<client, maxSize, pos, written, i, total, counted, expansion>>

Next ==
  \/ \E d \in Clients[client].directives : Byte(d) \/ Convert(d) \/ StoreCount(d)
  \/ Finish

Spec == Init /\ [][Next]_vars

-----------------------------------------------------------------------------
(* What of the expansion there is room for.                                *)
Shown == Least(Max({0, size}), Len(expansion))

(* The buffer holds as much of the expansion C prescribes as fits, whether *)
(* the conversion that fills it is cut inside its padding or its text, for *)
(* a client of strings that fit their space (TextFits, which leaves out no *)
(* number, byte or plain string).                                          *)
(* Where everything fits, and for a client whose padding does, nothing     *)
(* behind that is touched but for the NUL; where the padding itself is     *)
(* cut, vsnprintf leaves the buffer (see AlwaysTerminated).                *)
OutputIsExpansion ==
  /\ \A c \in DOMAIN mem : c < Shown => mem[c] = expansion[c + 1]
  /\ Len(expansion) <= size \/ "field" \in Clients[client].fit =>
       /\ pos = Shown
       /\ \A c \in DOMAIN mem : c >= Shown =>
            mem[c] = IF c = pos /\ ~running /\ 0 < maxSize /\ maxSize < IntMax THEN NUL
                     ELSE Untouched

(* The value returned is the length of the output when nothing was cut     *)
(* off, and at least the bytes stored when something was.                  *)
ReturnValue ==
  /\ pos <= total /\ total <= Len(expansion)
  /\ Len(expansion) <= size => total = Len(expansion)

(* What the conversions owe the loop: the directive is read as it was      *)
(* meant, and the text and the padding of a number are those of C.         *)
Converts(d) ==
  LET spec  == Parsed(d)
      field == Field(spec, 0)
      text  == TextByC(d)
  IN  /\ spec.conv = d.conv /\ spec.arg = d.arg
      /\ spec.width = d.width /\ spec.prec = d.prec
      /\ "-" \in spec.flags <=> "-" \in d.flags
      /\ d.conv \in Signed \cup Unsigned \/ (d.conv = "p" /\ d.arg # 0) =>
           /\ text \in Seq(Bytes) /\ field.text = text
           /\ Padding(field) = Max({0, d.width - Len(text)})

ClientsConvert ==
  \A c \in DOMAIN Clients :
    /\ "text" \in Clients[c].fit
    /\ \A d \in Clients[c].directives : d.conv \in Conversions \ {"n", "%"} => Converts(d)

(* What the loop relies on, and how far it has come.  The conversions do   *)
(* not change: looking at them once, before the first iteration, is enough.*)
FormatInv ==
  /\ i = 0 => ClientsConvert
  /\ client \in DOMAIN Clients /\ maxSize \in Clients[client].sizes
  /\ running => 0 < maxSize /\ maxSize < IntMax
  /\ running \in BOOLEAN /\ i \in Nat /\ total \in Int
  /\ expansion \in Seq(Bytes)
  /\ DOMAIN mem = 0 .. Clients[client].cells - 1
  /\ pos \in Nat /\ Shown <= pos /\ written = pos
  /\ OutputIsExpansion
  /\ ReturnValue

(* %n stores the number of bytes the format has produced up to there,      *)
(* although bytes of the format and conversions count in different places. *)
CountIsExact ==
  [][\A d \in Clients[client].directives :
       StoreCount(d) /\ d.arg # 0 => counted' = Len(expansion)]_vars

(* The output is terminated inside the buffer, even when it was truncated. *)
AlwaysTerminated ==
  (~running /\ 0 < maxSize /\ maxSize < IntMax) =>
     \E c \in 0 .. size : mem[c] = NUL
=============================================================================
