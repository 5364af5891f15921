------------------------------- MODULE Strtok -------------------------------
(***************************************************************************)
(* strtok_r and strtok (src/cstring.cpp): clients that split strings in    *)
(* place, each with its own saved pointer.  strtok is strtok_r on one      *)
(* static saved pointer, so it is one more element of Slots.               *)
(*                                                                         *)
(* A string is a sequence of bytes ending in NUL; a pointer is a buffer    *)
(* and an offset into it.                                                  *)
(***************************************************************************)
EXTENDS Integers, Sequences, FiniteSetsExt

CONSTANTS Buffers,            \* the strings' memory
          Slots,              \* saved pointers: char *saveptr, or strtok's old_str
          Unsaved,            \* the slots of clients that pass a null saveptr
          Letters,            \* bytes a string is made of
          Delims,             \* the delimiter sets that are passed
          MaxLen,             \* bound: the length of a string
          Nullptr,
          ContinueAfterNull   \* do clients go on after nullptr is returned?

NUL == "NUL"

ASSUME BytesAssumption == NUL \notin Letters /\ Delims \subseteq SUBSET Letters
ASSUME SlotsAssumption == Unsaved \subseteq Slots
ASSUME MaxLenAssumption == MaxLen \in Nat
ASSUME NullptrAssumption == Nullptr \notin Buffers
ASSUME ClientAssumption == ContinueAfterNull \in BOOLEAN

VARIABLES text,    \* text[b]: the bytes in buffer b
          saved,   \* saved[s]: *saveptr
          \* the history of slot s, for the properties only:
          current, \* the string last passed in, or Nullptr
          orig,    \* its bytes when it was passed in
          tokens,  \* the tokens [buf, from, to, delim] returned for it since
          ended    \* did the last call return nullptr?

vars == <<text, saved, current, orig, tokens, ended>>

Strings == UNION {{Append(s, NUL) : s \in [1 .. n -> Letters]} : n \in 0 .. MaxLen}

Pointers == [buf : Buffers, off : 1 .. MaxLen + 1]

Init ==
  /\ text \in [Buffers -> Strings]
  /\ saved = [s \in Slots |-> Nullptr]
  /\ current = [s \in Slots |-> Nullptr]
  /\ orig = [s \in Slots |-> <<NUL>>]
  /\ tokens = [s \in Slots |-> <<>>]
  /\ ended = [s \in Slots |-> FALSE]

(* p + strspn(p, delim): the first byte from p on that is no delimiter.    *)
SkipDelims(p, delim) ==
  [p EXCEPT !.off = Min({i \in p.off .. Len(text[p.buf]) : text[p.buf][i] \notin delim})]

(* p + strcspn(p, delim): the first byte from p on that is a delimiter, or *)
(* the terminating NUL.                                                    *)
SkipToken(p, delim) ==
  [p EXCEPT !.off = Min({i \in p.off .. Len(text[p.buf]) :
                           text[p.buf][i] \in delim \cup {NUL}})]

Byte(p) == text[p.buf][p.off]

Advance(p) == [p EXCEPT !.off = @ + 1]

-----------------------------------------------------------------------------
(* saveptr ? *saveptr : nullptr                                            *)
OldStr(s) == IF s \in Unsaved THEN Nullptr ELSE saved[s]

(* if (saveptr) *saveptr = p                                               *)
Save(s, p) == saved' = IF s \in Unsaved THEN saved ELSE [saved EXCEPT ![s] = p]

(* strtok_r(str, delim, saveptr) up to where it starts searching.          *)
StartOf(s, str) ==
  IF str # Nullptr THEN [buf |-> str, off |-> 1] ELSE OldStr(s)

History(s, str) == IF str = Nullptr THEN tokens[s] ELSE <<>>

ReturnNullptr(s, str) ==
  /\ tokens' = [tokens EXCEPT ![s] = History(s, str)]
  /\ ended' = [ended EXCEPT ![s] = TRUE]
  /\ UNCHANGED <<text, saved>>

ReturnToken(s, str, delim, from, to) ==
  /\ tokens' = [tokens EXCEPT ![s] =
       Append(History(s, str),
              [buf |-> from.buf, from |-> from.off, to |-> to.off, delim |-> delim])]
  /\ ended' = [ended EXCEPT ![s] = FALSE]

(* The pointer saved behind a token that ends at to.                       *)
Behind(to) == IF Byte(to) = NUL THEN to ELSE Advance(to)

(* Three ways out: nothing to search, no token left, a token.              *)
NothingSaved(s, str) ==
  /\ StartOf(s, str) = Nullptr
  /\ ReturnNullptr(s, str)

NoToken(s, str, delim) ==
  /\ StartOf(s, str) # Nullptr
  /\ Byte(SkipDelims(StartOf(s, str), delim)) = NUL
  /\ ReturnNullptr(s, str)

(* Seeded bugs: the byte after the token is not overwritten; the saved     *)
(* pointer skips a byte past the terminator; one saved pointer is shared.  *)
TokenUnterminated(s, str, delim) ==
  LET from == SkipDelims(StartOf(s, str), delim)
      to   == SkipToken(Advance(from), delim)
  IN  /\ StartOf(s, str) # Nullptr
      /\ Byte(from) # NUL
      /\ Save(s, Behind(to))
      /\ ReturnToken(s, str, delim, from, to)
      /\ UNCHANGED text

TokenPassesEnd(s, str, delim) ==
  LET from == SkipDelims(StartOf(s, str), delim)
      to   == SkipToken(Advance(from), delim)
  IN  /\ StartOf(s, str) # Nullptr
      /\ Byte(from) # NUL
      /\ text' = [text EXCEPT ![to.buf][to.off] = NUL]
      /\ Save(s, Advance(to))
      /\ ReturnToken(s, str, delim, from, to)

TokenSharesPointer(s, str, delim) ==
  LET from == SkipDelims(StartOf(s, str), delim)
      to   == SkipToken(Advance(from), delim)
  IN  /\ StartOf(s, str) # Nullptr
      /\ Byte(from) # NUL
      /\ text' = [text EXCEPT ![to.buf][to.off] = NUL]
      /\ saved' = [r \in Slots |-> Behind(to)]
      /\ ReturnToken(s, str, delim, from, to)

Token(s, str, delim) ==
  LET from == SkipDelims(StartOf(s, str), delim)
      to   == SkipToken(Advance(from), delim)
  IN  /\ StartOf(s, str) # Nullptr
      /\ Byte(from) # NUL
      /\ text' = [text EXCEPT ![to.buf][to.off] = NUL]
      /\ Save(s, Behind(to))
      /\ ReturnToken(s, str, delim, from, to)

(* A call, by a client that owns the string it splits.                     *)
Call(s, str, delim) ==
  /\ str # Nullptr => \A r \in Slots \ {s} : current[r] # str
  /\ (str = Nullptr /\ ended[s]) => ContinueAfterNull
  /\ NothingSaved(s, str) \/ NoToken(s, str, delim) \/ Token(s, str, delim)
  /\ current' = [current EXCEPT ![s] = IF str = Nullptr THEN @ ELSE str]
  /\ orig' = [orig EXCEPT ![s] = IF str = Nullptr THEN @ ELSE text[str]]

Next == \E s \in Slots, str \in Buffers \cup {Nullptr}, delim \in Delims :
          Call(s, str, delim)

Spec == Init /\ [][Next]_vars

-----------------------------------------------------------------------------
TypeOK ==
  /\ text \in [Buffers -> Seq(Letters \cup {NUL})]
  /\ saved \in [Slots -> Pointers \cup {Nullptr}]
  /\ \A s \in Slots : saved[s] # Nullptr => saved[s].off <= Len(text[saved[s].buf])
  /\ current \in [Slots -> Buffers \cup {Nullptr}]
  /\ ended \in [Slots -> BOOLEAN]

Bytes(s, i, j) == {orig[s][k] : k \in i .. j}

(* The tokens of a string are the runs the delimiters passed to each call  *)
(* cut it into, in order, with nothing left out: a token holds none of its *)
(* delimiters, ends at one or at the end of the string, and only           *)
(* delimiters were skipped since the token before it.  Sequences of calls  *)
(* on different saved pointers do not disturb each other.                  *)
TokensCutString ==
  \A s \in Slots : \A k \in DOMAIN tokens[s] :
    LET tok   == tokens[s][k]
        start == IF k = 1 THEN 1 ELSE tokens[s][k - 1].to + 1
    IN  /\ tok.buf = current[s]
        /\ start <= tok.from /\ tok.from < tok.to
        /\ Bytes(s, start, tok.from - 1) \subseteq tok.delim
        /\ Bytes(s, tok.from, tok.to - 1) \cap (tok.delim \cup {NUL}) = {}
        /\ orig[s][tok.to] \in tok.delim \cup {NUL}

(* A token stays the same terminated string while later calls find the     *)
(* following ones: only the byte after each token is overwritten.          *)
TokensStayTerminated ==
  \A s \in Slots : current[s] # Nullptr =>
    \A i \in DOMAIN orig[s] :
      text[current[s]][i] =
        IF \E k \in DOMAIN tokens[s] : tokens[s][k].to = i THEN NUL ELSE orig[s][i]

(* Strings keep their terminator and their length.                         *)
Terminated(string) == Len(string) \in 1 .. MaxLen + 1 /\ string[Len(string)] = NUL

HistoryOK ==
  /\ orig \in [Slots -> Seq(Letters \cup {NUL})]
  /\ tokens \in [Slots -> Seq([buf : Buffers, from : Nat, to : Nat, delim : Delims])]
  /\ \A b \in Buffers : Terminated(text[b])
  /\ \A s \in Slots : current[s] # Nullptr => Len(orig[s]) = Len(text[current[s]])

(* A string is split by one client at a time.                              *)
StringsAreOwned ==
  \A r, s \in Slots : r # s /\ current[r] # Nullptr => current[r] # current[s]

TokensAscend ==
  \A s \in Slots : \A k \in 1 .. Len(tokens[s]) :
    /\ tokens[s][k].to \in 1 .. Len(orig[s])
    /\ \A j \in 1 .. k - 1 : tokens[s][j].to < tokens[s][k].to

(* A client that is not told to stop goes on behind its last token, if it  *)
(* gave a place to keep the pointer.                                       *)
SavedIsBehind ==
  \A s \in Slots \ Unsaved : ~ended[s] =>
    IF Len(tokens[s]) = 0 THEN saved[s] = Nullptr
    ELSE LET to == tokens[s][Len(tokens[s])].to
         IN  saved[s] = [buf |-> current[s],
                         off |-> IF orig[s][to] = NUL THEN to ELSE to + 1]

TokenizerInv ==
  /\ TypeOK
  /\ HistoryOK
  /\ StringsAreOwned
  /\ TokensAscend
  /\ SavedIsBehind
  /\ TokensCutString
  /\ TokensStayTerminated

(* Once nullptr has been returned, calls that go on with the same string   *)
(* return nullptr too.                                                     *)
NullptrIsFinal ==
  [][\A s \in Slots, delim \in Delims :
       ended[s] /\ Call(s, Nullptr, delim) => ended'[s]]_vars
=============================================================================
