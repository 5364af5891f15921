---------------------------- MODULE StringSearch ----------------------------
(***************************************************************************)
(* The functions that only look at their arguments: searching, measuring   *)
(* and comparing of src/cstring.cpp, the case-insensitive comparisons and  *)
(* ffs of posix/posix_strings.cpp with the aliases of posix_strings.h, the *)
(* character classes and strerror.  A step is one iteration of a loop; a   *)
(* function called inside it is modelled by its result.                    *)
(*                                                                         *)
(* A call is a record: fn, the arrays a and b (functions from offsets to   *)
(* chars, as long as what the caller owns), the count n, and the int c.    *)
(* chars are signed, as they are on x86.                                   *)
(***************************************************************************)
EXTENDS Integers, FiniteSetsExt, CType, StrError

CONSTANT Calls      \* the calls clients make

VARIABLES call,
          i,        \* how many iterations have been made
          last,     \* strrchr: the last match; ffs: what is left of val
          read,     \* the bytes that have been read, as <<array, offset>>
          running, result

vars == <<call, i, last, read, running, result>>

Nullptr == -1

Unsigned(char) == char % 256
Char(int)      == ((int + 128) % 256) - 128
Same(char)     == char

NULs(array) == {k \in DOMAIN array : array[k] = 0}

Searching == {"strchr", "index", "strrchr", "rindex", "strlen", "strnlen"}
Spanning  == {"strspn", "strcspn", "strpbrk", "strstr"}
Ffs       == {"ffs", "ffsl", "ffsll"}

(* What a caller owes: strings end with their terminator, the others are n *)
(* bytes long at least, or end where the search may end.  An array of n    *)
(* bytes is enough for strnlen, which is to look at no more of them.       *)
Owed(c) ==
  LET owns(array) == 0 .. c.n - 1 \subseteq DOMAIN array
  IN  CASE c.fn = "strnlen" -> owns(c.a) \/ NULs(c.a) # {}
        [] c.fn \in Searching \ {"strnlen"} -> NULs(c.a) # {}
        [] c.fn \in Spanning \cup {"strcmp", "strcasecmp"} -> NULs(c.a) # {} /\ NULs(c.b) # {}
        [] c.fn \in {"strncmp", "strncasecmp"} ->
             \A array \in {c.a, c.b} : owns(array) \/ NULs(array) # {}
        [] c.fn = "memchr" -> owns(c.a) \/ \E k \in DOMAIN c.a : Unsigned(c.a[k]) = c.c % 256
        [] c.fn = "memrchr" -> owns(c.a)
        [] c.fn = "memcmp" -> owns(c.a) /\ owns(c.b)
        [] c.fn \in Ffs -> c.c \in -(2 ^ (c.n - 1)) .. 2 ^ (c.n - 1) - 1
        [] c.fn \in {"ctype", "strerror"} -> c.c \in Int

ASSUME CallsAssumption == \A c \in Calls : Owed(c)

Chars == -128 .. 127

(* Arrays have no gaps; counts are not negative.                           *)
IsArray(array) ==
  \A k \in DOMAIN array : k \in Nat /\ 0 .. k \subseteq DOMAIN array /\ array[k] \in Chars

ASSUME ArgumentsAssumption ==
  \A c \in Calls : IsArray(c.a) /\ IsArray(c.b) /\ c.n \in Nat /\ c.c \in Int

Init ==
  /\ call \in Calls
  /\ i = 0 /\ read = {} /\ running = TRUE /\ result = Nullptr
  /\ last = IF call.fn \in Ffs THEN call.c ELSE Nullptr

(* The byte at offset k.  What lies behind an array happens to be 0, which *)
(* ends a loop that has run over the end at the first byte it may.         *)
A(k) == IF k \in DOMAIN call.a THEN call.a[k] ELSE 0
B(k) == IF k \in DOMAIN call.b THEN call.b[k] ELSE 0

In(names) == running /\ call.fn \in names /\ UNCHANGED call

Reads(cells) == read' = read \cup cells
Return(value) == running' = FALSE /\ result' = value /\ UNCHANGED i
(* Seeded bugs: the index is not moved; it is moved twice.                 *)
ContinueStands == UNCHANGED <<i, running, result>>

ContinueSkips == i' = i + 2 /\ UNCHANGED <<running, result>>

Continue == i' = i + 1 /\ UNCHANGED <<running, result>>

StringCells(array) == {<<array, k>> : k \in 0 .. Min(NULs(call[array]))}

-----------------------------------------------------------------------------
FindByte(at) ==
  /\ IF i = call.n THEN Return(Nullptr) /\ Reads({})
     ELSE /\ Reads({<<"a", at>>})
          /\ IF Unsigned(A(at)) = call.c % 256 THEN Return(at) ELSE Continue
  /\ UNCHANGED last

MemChr  == In({"memchr"}) /\ FindByte(i)
MemRChr == In({"memrchr"}) /\ FindByte(call.n - 1 - i)

FindFirst ==
  /\ Reads({<<"a", i>>})
  /\ IF A(i) = Char(call.c) THEN Return(i)
     ELSE IF A(i) = 0 THEN Return(Nullptr) ELSE Continue
  /\ UNCHANGED last

(* A seeded bug: the terminator is no longer part of the string.           *)
FindLastOmitsNUL ==
  /\ Reads({<<"a", i>>})
  /\ IF A(i) = 0 THEN Return(last) /\ UNCHANGED last
     ELSE last' = (IF A(i) = call.c THEN i ELSE last) /\ Continue

(* The needle is not converted to a char.                                  *)
FindLast ==
  /\ Reads({<<"a", i>>})
  /\ last' = IF A(i) = call.c THEN i ELSE last
  /\ IF A(i) = 0 THEN Return(last') ELSE Continue

StrChr  == In({"strchr"}) /\ FindFirst
Index   == In({"index"}) /\ FindFirst
StrRChr == In({"strrchr"}) /\ FindLast
RIndex  == In({"rindex"}) /\ FindLast

(* strnlen calls strlen, whatever max_len is.                              *)
StrLen ==
  /\ In({"strlen", "strnlen"})
  /\ Reads({<<"a", i>>})
  /\ IF A(i) # 0 THEN Continue
     ELSE Return(IF call.fn = "strlen" THEN i ELSE Min({i, call.n}))
  /\ UNCHANGED last

-----------------------------------------------------------------------------
(* What the comparisons compare.                                           *)
Key(fn, char) == CASE fn = "memcmp" -> Unsigned(char)
                   [] fn \in {"strcasecmp", "strncasecmp"} -> tolower(char)
                   [] OTHER -> char

KeyOfA == Key(call.fn, A(i))
KeyOfB == Key(call.fn, B(i))

(* A seeded bug: the count is only looked at when the bytes have been read.*)
CompareThenCount(counted, stops) ==
  /\ Reads({<<"a", i>>, <<"b", i>>})
  /\ IF counted /\ i = call.n THEN Return(0)
     ELSE IF KeyOfA # KeyOfB THEN Return(KeyOfA - KeyOfB)
     ELSE IF stops /\ 0 \in {A(i), B(i)} THEN Return(0) ELSE Continue
  /\ UNCHANGED last

Compare(counted, stops) ==
  /\ IF counted /\ i = call.n THEN Return(0) /\ Reads({})
     ELSE /\ Reads({<<"a", i>>, <<"b", i>>})
          /\ IF KeyOfA # KeyOfB THEN Return(KeyOfA - KeyOfB)
             ELSE IF stops /\ 0 \in {A(i), B(i)} THEN Return(0) ELSE Continue
  /\ UNCHANGED last

MemCmp      == In({"memcmp"}) /\ Compare(TRUE, FALSE)
StrCmp      == In({"strcmp"}) /\ Compare(FALSE, TRUE)
StrNCmp     == In({"strncmp"}) /\ Compare(TRUE, TRUE)
StrCaseCmp  == In({"strcasecmp"}) /\ Compare(FALSE, TRUE)
StrNCaseCmp == In({"strncasecmp"}) /\ Compare(TRUE, TRUE)

-----------------------------------------------------------------------------
(* strchr(accept, *str) != nullptr, of a byte that is not NUL.             *)
Accepts(byte) == byte \in {B(k) : k \in 0 .. Min(NULs(call.b))}

Span(accepted, atEnd) ==
  /\ IF A(i) = 0 THEN Return(atEnd) /\ Reads({<<"a", i>>})
     ELSE /\ Reads({<<"a", i>>} \cup StringCells("b"))
          /\ IF Accepts(A(i)) = accepted THEN Continue ELSE Return(i)
  /\ UNCHANGED last

StrSpn  == In({"strspn"}) /\ Span(TRUE, i)
StrCSpn == In({"strcspn"}) /\ Span(FALSE, i)
StrPBrk == In({"strpbrk"}) /\ Span(FALSE, Nullptr)

(* strncmp at every offset that leaves needle_len bytes of the haystack.   *)
StrStr ==
  /\ In({"strstr"})
  /\ Reads(StringCells("a") \cup StringCells("b"))
  /\ LET needle_len == Min(NULs(call.b))
     IN  IF i + needle_len > Min(NULs(call.a)) THEN Return(Nullptr)
         ELSE IF \A k \in 0 .. needle_len - 1 : A(i + k) = B(k) THEN Return(i) ELSE Continue
  /\ UNCHANGED last

-----------------------------------------------------------------------------
(* static_cast<unsigned>(val) >> 1, of a type with so many bits.           *)
ShiftRight(val, bits) == (val % 2 ^ bits) \div 2

FindFirstSet ==
  /\ In(Ffs)
  /\ IF call.c = 0 THEN Return(0) /\ UNCHANGED last
     ELSE IF last % 2 = 1 THEN Return(i + 1) /\ UNCHANGED last
     ELSE Continue /\ last' = ShiftRight(last, call.n)
  /\ UNCHANGED read

Classify ==
  /\ In({"ctype"})
  /\ Return([class |-> Class(call.c), ascii |-> toascii(call.c),
             lower |-> tolower(call.c), upper |-> toupper(call.c)])
  /\ UNCHANGED <<last, read>>

Describe ==
  /\ In({"strerror"})
  /\ Return(strerror(call.c))
  /\ UNCHANGED <<last, read>>

Next ==
  \/ MemChr \/ MemRChr \/ StrChr \/ Index \/ StrRChr \/ RIndex \/ StrLen
  \/ MemCmp \/ StrCmp \/ StrNCmp \/ StrCaseCmp \/ StrNCaseCmp
  \/ StrSpn \/ StrCSpn \/ StrPBrk \/ StrStr
  \/ FindFirstSet \/ Classify \/ Describe

Spec == Init /\ [][Next]_vars /\ WF_vars(Next)

-----------------------------------------------------------------------------
(* What the documents of the functions say of the whole arrays at once.    *)
(* Of strcspn this is its @brief, the length of the segment; that its      *)
(* @return asks for NULL in some cases is in SpanOrNull.                   *)
FirstOf(offsets) == IF offsets = {} THEN Nullptr ELSE Min(offsets)
LastOf(offsets)  == IF offsets = {} THEN Nullptr ELSE Max(offsets)

Length(array) == Min(NULs(array))
Offsets(array) == 0 .. Length(array)
BytesOf(array) == {array[k] : k \in 0 .. Length(array) - 1}

Needle(c, k) == (c.a[k] - c.c) % 256 = 0

(* -1 if the first array is less under the order of keys, 1 if it is       *)
(* greater, 0 if they are equal.  The order of chars is the signed one:    *)
(* the documents do not say.                                               *)
Order(c, key(_), counted) ==
  LET shared == DOMAIN c.a \cap DOMAIN c.b
      differ == {k \in shared : (counted => k < c.n) /\ key(c.a[k]) # key(c.b[k])}
      ends   == {k \in shared : c.fn # "memcmp" /\ c.a[k] = 0 /\ c.b[k] = 0}
  IN  IF differ = {} \/ \E e \in ends : e < Min(differ) THEN 0
      ELSE IF key(c.a[Min(differ)]) < key(c.b[Min(differ)]) THEN -1 ELSE 1

Promised(c) ==
  LET a == c.a
      b == c.b
  IN  CASE c.fn = "memchr"  -> FirstOf({k \in DOMAIN a : k < c.n /\ Needle(c, k)})
        [] c.fn = "memrchr" -> LastOf({k \in DOMAIN a : k < c.n /\ Needle(c, k)})
        [] c.fn \in {"strchr", "index"}   -> FirstOf({k \in Offsets(a) : Needle(c, k)})
        [] c.fn \in {"strrchr", "rindex"} -> LastOf({k \in Offsets(a) : Needle(c, k)})
        [] c.fn = "strlen"  -> Length(a)
        [] c.fn = "strnlen" -> IF \E k \in NULs(a) : k < c.n THEN Length(a) ELSE c.n
        [] c.fn = "memcmp"  -> Order(c, Unsigned, TRUE)
        [] c.fn = "strcmp"  -> Order(c, Same, FALSE)
        [] c.fn = "strncmp" -> Order(c, Same, TRUE)
        [] c.fn = "strcasecmp"  -> Order(c, tolower, FALSE)
        [] c.fn = "strncasecmp" -> Order(c, tolower, TRUE)
        [] c.fn = "strspn"  -> Min({k \in DOMAIN a : a[k] \notin BytesOf(b)})
        [] c.fn = "strcspn" -> Min({k \in DOMAIN a : a[k] \in BytesOf(b) \cup {0}})
        [] c.fn = "strpbrk" -> FirstOf({k \in Offsets(a) : a[k] \in BytesOf(b)})
        [] c.fn = "strstr"  ->
             FirstOf({k \in 0 .. Length(a) - Length(b) :
                        \A j \in 0 .. Length(b) - 1 : a[k + j] = b[j]})
        [] c.fn \in Ffs ->
             IF c.c = 0 THEN 0 ELSE Min({k \in 1 .. c.n : c.c % 2 ^ k # 0})

Comparing == {"memcmp", "strcmp", "strncmp", "strcasecmp", "strncasecmp"}
Backward  == {"strrchr", "rindex"}

(* Callers look at the sign of a comparison.                               *)
Sign(x) == IF x < 0 THEN -1 ELSE IF x > 0 THEN 1 ELSE 0
Meaning(fn, value) == IF fn \in Comparing THEN Sign(value) ELSE value

(* What a call returns is what its document says of the arrays it was      *)
(* given, however the loop got there: offsets, lengths, bits, and the sign *)
(* of every comparison.  A backward search is only judged when the needle  *)
(* is a char.  AsDocumented below has where the documents promise more.    *)
ResultAsPromised ==
  ~running /\ call.fn \notin {"ctype", "strerror"}
           /\ (call.fn \in Backward => call.c \in Chars) =>
    Meaning(call.fn, result) = Promised(call)

(* No byte is read that the caller does not own: behind a terminator,      *)
(* behind the n bytes of an array without one, or in front of an array.    *)
(* Only strnlen of an array without a terminator is not judged: it does    *)
(* read on, see LooksOnlyAtMax.                                            *)
ReadsInside ==
  (call.fn = "strnlen" => NULs(call.a) # {}) =>
    \A cell \in read : cell[2] \in DOMAIN call[cell[1]]

(* What is known of iteration k of a loop that went on behind it.          *)
Counted == {"memchr", "memrchr", "memcmp", "strncmp", "strncasecmp"}

Passed(c, k) ==
  LET a == c.a
      b == c.b
      among(names) == c.fn \in names
  IN  /\ among(Counted) => k < c.n
      /\ among({"memchr"} \cup Searching \cup {"strspn", "strcspn", "strpbrk"}) => k \in DOMAIN a
      /\ among(Searching \cup {"strspn", "strcspn", "strpbrk"}) => a[k] # 0
      /\ among({"memchr", "strchr", "index"}) => ~Needle(c, k)
      /\ among({"memrchr"}) => ~Needle(c, c.n - 1 - k)
      /\ among(Comparing) => k \in DOMAIN a /\ k \in DOMAIN b /\ Key(c.fn, a[k]) = Key(c.fn, b[k])
      /\ among(Comparing \ {"memcmp"}) => a[k] # 0 /\ b[k] # 0
      /\ among({"strspn"}) => a[k] \in BytesOf(b)
      /\ among({"strcspn", "strpbrk"}) => a[k] \notin BytesOf(b)
      /\ among({"strstr"}) => /\ k + Length(b) <= Length(a)
                              /\ \E j \in 0 .. Length(b) - 1 : a[k + j] # b[j]

(* The calls whose result is judged below: bits are the runs' business.    *)
Judged(c) == c.fn \notin Ffs

LastMatch(c, k) == LastOf({j \in 0 .. k - 1 : c.a[j] = c.c})

(* Every iteration so far has been passed for a reason; the last match of  *)
(* a backward search is kept.                                              *)
SearchInv ==
  /\ call \in Calls /\ i \in Nat /\ running \in BOOLEAN
  /\ \A k \in 0 .. i - 1 : Passed(call, k)
  /\ running /\ call.fn \in Backward => last = LastMatch(call, i)
  /\ ReadsInside
  /\ Judged(call) => ResultAsPromised

(* The class functions cut the characters into the same classes, and the   *)
(* case functions carry one case to the other and back.                    *)
ClassesAgree ==
  LET is == result.class
      c  == call.c
      one(f, g) == (f \in is) # (g \in is)
  IN  call.fn = "ctype" /\ ~running =>
        /\ "alpha" \in is <=> one("upper", "lower")
        /\ "alnum" \in is <=> one("alpha", "digit")
        /\ "graph" \in is <=> one("alnum", "punct")
        /\ "print" \in is <=> "graph" \in is \/ c = 32
        /\ "ascii" \in is <=> one("print", "cntrl")
        /\ "xdigit" \in is => "alnum" \in is
        /\ "digit" \in is => "xdigit" \in is
        /\ "blank" \in is => "space" \in is
        /\ "space" \in is => c = 32 \/ "cntrl" \in is
        /\ "upper" \in is <=> result.lower # c
        /\ "lower" \in is <=> result.upper # c
        /\ toupper(result.lower) = toupper(c) /\ tolower(result.upper) = tolower(c)
        /\ result.ascii \in isascii /\ ("ascii" \in is => result.ascii = c)

(* A text that strerror returns describes the error it was asked for, and  *)
(* where there is none errno says so.                                      *)
TextMatches ==
  call.fn = "strerror" /\ ~running =>
    /\ call.c \in Errors \cup {0} => result.text \in {call.c, NoText}
    /\ call.c \notin 0 .. 134 => result.text = NoText
    /\ (result.text = NoText) <=> (result.errno = EINVAL)

(* Every call returns.                                                     *)
SearchReturns == <>~running

-----------------------------------------------------------------------------
(* Where the documents promise more than the functions above keep.         *)

(* The comparisons of cstring.h return -1, 0 or 1, and nothing else.       *)
ComparesToOne ==
  call.fn \in {"memcmp", "strcmp", "strncmp"} /\ ~running => result = Promised(call)

(* strcspn returns NULL, as a size_t, when no byte is found.               *)
SpanOrNull ==
  call.fn = "strcspn" /\ ~running /\ BytesOf(call.a) \cap BytesOf(call.b) = {} => result = 0

(* A backward search looks for the needle converted to a char.             *)
NeedleIsConverted == call.fn \in Backward /\ ~running => result = Promised(call)

(* strnlen looks at the first max_len bytes and never beyond them.         *)
LooksOnlyAtMax == call.fn = "strnlen" => \A cell \in read : cell[2] < call.n

(* strerror has a text for every error number there is.                    *)
EveryErrorHasText ==
  call.fn = "strerror" /\ ~running /\ call.c \in Errors => result.text # NoText

(* What the documents say beyond ResultAsPromised and ReadsInside, of the  *)
(* results of the comparisons, strcspn, the backward searches and strerror *)
(* and of the bytes that strnlen looks at.                                 *)
AsDocumented ==
  ComparesToOne /\ SpanOrNull /\ NeedleIsConverted /\ LooksOnlyAtMax /\ EveryErrorHasText
=============================================================================
