-------------------------- MODULE VsnprintfProofs --------------------------
(***************************************************************************)
(* Proofs about the loop of vsnprintf and its field writer, for buffers of *)
(* any size and formats of any length, whose conversions do what C says    *)
(* and whose strings with a field width fit (ClientsConvert, TextFits);    *)
(* what needs the padding to fit as well (FieldFits) says so.              *)
(***************************************************************************)
EXTENDS Vsnprintf, SequenceTheorems, TLAPS

(* What Max of a set is, once a candidate is at hand.                      *)
LEMMA MaxIs ==
  ASSUME NEW S \in SUBSET Int, NEW m \in S, \A x \in S : x <= m
  PROVE  Max(S) = m
<1>1. \A x \in S : (\A y \in S : x >= y) => x = m
  <2> SUFFICES ASSUME NEW x \in S, \A y \in S : x >= y PROVE x = m
    OBVIOUS
  <2>1. x \in Int /\ m \in Int /\ x <= m /\ m <= x
    OBVIOUS
  <2> QED BY <2>1
<1> QED BY <1>1 DEF Max

Texts == Seq(Bytes)

Positive(x) == IF x > 0 THEN x ELSE 0

LEMMA MaxOfZero == ASSUME NEW x \in Int PROVE Max({0, x}) = Positive(x) /\ Positive(x) \in Nat
<1>1. {0, x} \in SUBSET Int
  OBVIOUS
<1>2. CASE x > 0
  <2>1. x \in {0, x} /\ \A y \in {0, x} : y <= x
    BY <1>2
  <2>2. Max({0, x}) = x
    BY <1>1, <2>1, MaxIs
  <2> QED BY <1>2, <2>2 DEF Positive
<1>3. CASE ~(x > 0)
  <2>1. 0 \in {0, x} /\ \A y \in {0, x} : y <= 0
    BY <1>3
  <2>2. Max({0, x}) = 0
    BY <1>1, <2>1, MaxIs
  <2> QED BY <1>3, <2>2 DEF Positive
<1> QED BY <1>2, <1>3

(* Texts, byte by byte.                                                    *)
LEMMA SpacesAre ==
  ASSUME NEW n \in Int
  PROVE  /\ Spaces(n) \in Texts /\ Len(Spaces(n)) = Positive(n)
         /\ \A k \in 1 .. Positive(n) : Spaces(n)[k] = " "
<1>1. Positive(n) \in Nat /\ 1 .. n = 1 .. Positive(n)
  BY DEF Positive
<1>2. Spaces(n) \in [1 .. Positive(n) -> Bytes]
  BY <1>1, BytesAssumption DEF Spaces
<1>3. Spaces(n) \in Texts /\ Len(Spaces(n)) = Positive(n)
  BY <1>1, <1>2, SeqDef, LenProperties DEF Texts
<1> QED BY <1>1, <1>3 DEF Spaces

LEMMA FirstBytes ==
  ASSUME NEW s \in Texts, NEW n \in Nat
  PROVE  /\ First(s, n) \in Texts /\ Len(First(s, n)) = Least(Len(s), n)
         /\ \A k \in 1 .. Least(Len(s), n) : First(s, n)[k] = s[k]
<1>1. Len(s) \in Nat /\ Least(Len(s), n) \in 0 .. Len(s)
  BY LenProperties DEF Least, Texts
<1>2. \A k \in 1 .. Len(s) : s[k] \in Bytes
  BY ElementOfSeq DEF Texts
<1> HIDE DEF Least
<1>3. First(s, n) = SubSeq(s, 1, Least(Len(s), n))
  BY DEF First
<1> QED BY <1>1, <1>2, <1>3, SubSeqProperties DEF Texts

LEMMA Joined ==
  ASSUME NEW s \in Texts, NEW t \in Texts
  PROVE  /\ s \o t \in Texts /\ Len(s) \in Nat /\ Len(t) \in Nat
         /\ Len(s \o t) = Len(s) + Len(t)
         /\ \A k \in 1 .. Len(s) : (s \o t)[k] = s[k]
         /\ \A k \in 1 .. Len(t) : (s \o t)[Len(s) + k] = t[k]
<1>1. Len(s) \in Nat /\ Len(t) \in Nat
  BY LenProperties DEF Texts
<1>2. /\ s \o t \in Texts /\ Len(s \o t) = Len(s) + Len(t)
      /\ \A k \in 1 .. Len(s) + Len(t) :
           (s \o t)[k] = IF k <= Len(s) THEN s[k] ELSE t[k - Len(s)]
  BY ConcatProperties DEF Texts
<1>3. ASSUME NEW k \in 1 .. Len(t) PROVE (s \o t)[Len(s) + k] = t[k]
  <2> DEFINE m == Len(s) + k
  <2>1. m \in 1 .. Len(s) + Len(t) /\ ~(m <= Len(s)) /\ m - Len(s) = k
    BY <1>1
  <2> HIDE DEF m
  <2>2. (s \o t)[m] = t[m - Len(s)]
    BY <1>2, <2>1
  <2> QED BY <2>1, <2>2 DEF m
<1>4. ASSUME NEW k \in 1 .. Len(s) PROVE (s \o t)[k] = s[k]
  BY <1>1, <1>2
<1> QED BY <1>1, <1>2, <1>3, <1>4

(* What is stored by memset and mempcpy, one after the other.              *)
LEMMA WrittenBytes ==
  ASSUME NEW m, NEW at, NEW s
  PROVE  /\ DOMAIN WrittenTo(m, at, s) = DOMAIN m
         /\ \A c \in DOMAIN m :
              WrittenTo(m, at, s)[c] = IF at <= c /\ c < at + Len(s) THEN s[c - at + 1] ELSE m[c]
BY DEF WrittenTo

Holds(w, m, at, b) ==
  /\ DOMAIN w = DOMAIN m
  /\ \A c \in DOMAIN m : w[c] = IF at <= c /\ c < at + Len(b) THEN b[c - at + 1] ELSE m[c]

LEMMA WrittenInTurn ==
  ASSUME NEW m, DOMAIN m \subseteq Nat, NEW at \in Nat, NEW s \in Texts, NEW t \in Texts
  PROVE  Holds(WrittenTo(WrittenTo(m, at, s), at + Len(s), t), m, at, s \o t)
<1> DEFINE u == WrittenTo(m, at, s)
           w == WrittenTo(u, at + Len(s), t)
           b == s \o t
<1>1. /\ Len(s) \in Nat /\ Len(t) \in Nat /\ Len(b) = Len(s) + Len(t)
      /\ \A k \in 1 .. Len(s) : b[k] = s[k]
      /\ \A k \in 1 .. Len(t) : b[Len(s) + k] = t[k]
  BY Joined
<1>2. /\ DOMAIN u = DOMAIN m
      /\ \A c \in DOMAIN m : u[c] = IF at <= c /\ c < at + Len(s) THEN s[c - at + 1] ELSE m[c]
  BY WrittenBytes
<1>3. /\ DOMAIN w = DOMAIN m
      /\ \A c \in DOMAIN m :
           w[c] = IF at + Len(s) <= c /\ c < at + Len(s) + Len(t)
                  THEN t[c - (at + Len(s)) + 1] ELSE u[c]
  BY <1>2, WrittenBytes
<1> HIDE DEF u, w, b
<1>4. ASSUME NEW c \in DOMAIN m
      PROVE  w[c] = IF at <= c /\ c < at + Len(b) THEN b[c - at + 1] ELSE m[c]
  <2>1. c \in Nat
    OBVIOUS
  <2>2. CASE at + Len(s) <= c /\ c < at + Len(s) + Len(t)
    <3> DEFINE k == c - (at + Len(s)) + 1
    <3>1. k \in 1 .. Len(t) /\ Len(s) + k = c - at + 1 /\ at <= c /\ c < at + Len(b)
      BY SMTT(30), <1>1, <2>1, <2>2
    <3>2. w[c] = t[k]
      BY <1>3, <2>2
    <3> HIDE DEF k
    <3>3. b[Len(s) + k] = t[k]
      BY <1>1, <3>1
    <3> QED BY <3>1, <3>2, <3>3
  <2>3. CASE ~(at + Len(s) <= c /\ c < at + Len(s) + Len(t))
    <3>1. w[c] = u[c]
      BY <1>3, <2>3
    <3>2. CASE at <= c /\ c < at + Len(s)
      <4>1. c - at + 1 \in 1 .. Len(s) /\ c < at + Len(b)
        BY <1>1, <2>1, <3>2
      <4> QED BY <1>1, <1>2, <3>1, <3>2, <4>1
    <3>3. CASE ~(at <= c /\ c < at + Len(s))
      <4>1. ~(at <= c /\ c < at + Len(b))
        BY <1>1, <2>1, <2>3, <3>3
      <4> QED BY <1>2, <3>1, <3>3, <4>1
    <3> QED BY <3>2, <3>3
  <2> QED BY <2>2, <2>3
<1>5. Holds(w, m, at, b)
  BY <1>3, <1>4 DEF Holds
<1> QED BY <1>5 DEF u, w, b

-----------------------------------------------------------------------------
(* The field of a directive: its text is the one C prescribes, or as much  *)
(* of it as there is space for.                                            *)
LEMMA SpecialTexts == Null \in Texts /\ Nil \in Texts /\ Len(Null) = 6 /\ Len(Nil) = 5
<1>1. Null \in Texts /\ Len(Null) = 6
  <2>1. DOMAIN Null = 1 .. 6
    BY DEF Null
  <2>2. \A k \in 1 .. 6 : Null[k] \in Bytes
    BY <2>1, BytesAssumption
  <2> QED BY <2>2 DEF Null, Texts
<1>2. Nil \in Texts /\ Len(Nil) = 5
  <2>1. DOMAIN Nil = 1 .. 5
    BY DEF Nil
  <2>2. \A k \in 1 .. 5 : Nil[k] \in Bytes
    BY <2>1, BytesAssumption
  <2> QED BY <2>2 DEF Nil, Texts
<1> QED BY <1>1, <1>2

LEMMA StringField ==
  ASSUME NEW str \in Texts, NEW spec, spec.prec \in Int, spec.prec >= None, NEW space \in Nat
  PROVE  LET f == FormatString(str, spec, space)
             t == CutByC(str, spec.prec)
         IN  /\ t \in Texts /\ Len(t) \in 0 .. Len(str)
             /\ f.text \in Texts /\ f.width = spec.width
             /\ Len(f.text) = Least(Len(t), space)
             /\ \A k \in 1 .. Len(f.text) : f.text[k] = t[k]
<1> DEFINE f == FormatString(str, spec, space)
           t == CutByC(str, spec.prec)
           count == IF spec.prec >= 0 /\ spec.prec < space THEN spec.prec ELSE space
           m == Least(Len(str), count)
           e == IF spec.prec # None /\ spec.prec < Len(str) THEN spec.prec ELSE Len(str)
<1>1. Len(str) \in Nat /\ \A k \in 1 .. Len(str) : str[k] \in Bytes
  BY LenProperties, ElementOfSeq DEF Texts
<1>2. count \in Nat /\ m \in 0 .. Len(str) /\ e \in 0 .. Len(str) /\ m = Least(e, space)
  BY <1>1 DEF Least, None
<1>3. f.text = SubSeq(str, 1, m) /\ f.width = spec.width
  BY DEF FormatString, Least
<1> HIDE DEF f, count, m
<1>4. f.text \in Texts /\ Len(f.text) = m /\ \A k \in 1 .. m : f.text[k] = str[k]
  <2>1. \A k \in 1 .. m : str[k] \in Bytes
    BY <1>1, <1>2
  <2> QED BY <1>2, <1>3, <2>1, SubSeqProperties DEF Texts
<1>5. t \in Texts /\ Len(t) = e /\ \A k \in 1 .. e : t[k] = str[k]
  <2>1. CASE spec.prec # None /\ spec.prec < Len(str)
    <3>1. t = SubSeq(str, 1, e) /\ \A k \in 1 .. e : str[k] \in Bytes
      BY <1>1, <1>2, <2>1 DEF CutByC
    <3> HIDE DEF t, e
    <3> QED BY <1>2, <3>1, SubSeqProperties DEF Texts
  <2>2. CASE ~(spec.prec # None /\ spec.prec < Len(str))
    BY <1>1, <2>2 DEF CutByC
  <2> QED BY <2>1, <2>2
<1> HIDE DEF t, e
<1>6. \A k \in 1 .. m : f.text[k] = t[k]
  BY <1>2, <1>4, <1>5 DEF Least
<1>7. /\ t \in Texts /\ Len(t) \in 0 .. Len(str)
      /\ f.text \in Texts /\ f.width = spec.width
      /\ Len(f.text) = Least(Len(t), space)
      /\ \A k \in 1 .. Len(f.text) : f.text[k] = t[k]
  BY <1>2, <1>3, <1>4, <1>5, <1>6
<1> QED BY <1>7 DEF f, t

IsString(d) == d.conv = "s" \/ (d.conv = "p" /\ d.arg = 0)

LEMMA FieldIs ==
  ASSUME ClientsConvert, NEW c \in DOMAIN Clients, NEW d \in Clients[c].directives,
         d.conv \in Conversions \ {"n", "%"}, NEW space \in Nat
  PROVE  LET f == Field(Parsed(d), space)
             t == TextByC(d)
         IN  /\ t \in Texts /\ f.text \in Texts
             /\ \A k \in 1 .. Len(f.text) : f.text[k] = t[k]
             /\ ~IsString(d) => /\ Len(f.text) = Len(t)
                                /\ Padding(f) = Positive(d.width - Len(t))
             /\ IsString(d) => /\ Len(f.text) = Least(Len(t), space)
                               /\ f.width = d.width
                               /\ d.conv = "p" => Len(t) <= Len(Nil)
<1> DEFINE spec == Parsed(d)
           f == Field(spec, space)
           t == TextByC(d)
<1>1. /\ d.prec \in Int /\ d.prec >= None /\ d.width \in Int
      /\ d.conv = "s" => d.arg \in Texts \cup {Nullptr}
      /\ d.conv \in {"c", "lit"} => d.arg \in Texts /\ Len(d.arg) = 1
  <2>1. /\ d.prec \in None .. 32 /\ d.width \in None .. 32
        /\ d.conv = "s" => d.arg \in Seq(Bytes) \cup {Nullptr}
        /\ d.conv \in {"c", "lit"} => d.arg \in Seq(Bytes) /\ Len(d.arg) = 1
    BY ClientsAssumption
  <2>2. \A x \in None .. 32 : x \in Int /\ x >= None
    BY DEF None
  <2> QED BY <2>1, <2>2 DEF Texts
<1>2. Converts(d)
  BY DEF ClientsConvert
<1>3. /\ spec.conv = d.conv /\ spec.arg = d.arg /\ spec.width = d.width /\ spec.prec = d.prec
  BY <1>2 DEF Converts
<1>4. CASE d.conv \in Signed \cup Unsigned \/ (d.conv = "p" /\ d.arg # 0)
  <2>1. /\ t \in Texts /\ Field(spec, 0).text = t
        /\ Padding(Field(spec, 0)) = Max({0, d.width - Len(t)})
    BY <1>2, <1>4 DEF Converts, Texts
  <2>2. f = Field(spec, 0)
    <3> HIDE DEF spec
    <3> QED BY <1>3, <1>4 DEF Field, Signed, Unsigned
  <2>3. Padding(f) = Positive(d.width - Len(t))
    <3>1. d.width - Len(t) \in Int
      BY <1>1, <2>1, LenProperties DEF Texts
    <3> HIDE DEF f, t, spec
    <3> QED BY <2>1, <2>2, <3>1, MaxOfZero
  <2>4. ~IsString(d)
    BY <1>4 DEF IsString, Signed, Unsigned
  <2> HIDE DEF f, t, spec
  <2>5. f.text = t
    BY <2>1, <2>2
  <2> QED BY <2>1, <2>3, <2>4, <2>5 DEF f, t, spec
<1>5. CASE d.conv = "c"
  <2>1. t = d.arg
    BY <1>5 DEF TextByC, Signed, Unsigned
  <2>2. f = [text |-> d.arg, width |-> d.width]
    <3> HIDE DEF spec
    <3> QED BY <1>3, <1>5 DEF Field, Signed, Unsigned
  <2> HIDE DEF f, t, spec
  <2>3. Padding(f) = Positive(d.width - Len(t))
    BY <1>1, <1>5, <2>1, <2>2 DEF Padding, Positive
  <2> QED BY <1>1, <1>5, <2>1, <2>2, <2>3 DEF IsString, f, t, spec
<1>6. CASE IsString(d)
  <2> DEFINE str == IF d.conv = "p" THEN Nil ELSE IF d.arg = Nullptr THEN Null ELSE d.arg
  <2>1. str \in Texts
    BY <1>1, <1>6, SpecialTexts DEF IsString
  <2>2. t = CutByC(str, d.prec)
    BY <1>6 DEF TextByC, PointerByC, StringByC, IsString, Signed, Unsigned
  <2>3. f = FormatString(str, spec, space)
    <3> HIDE DEF spec
    <3> QED BY <1>3, <1>6 DEF Field, IsString, Signed, Unsigned
  <2> HIDE DEF f, t, spec, str
  <2>4. /\ t \in Texts /\ f.text \in Texts /\ f.width = d.width /\ Len(t) <= Len(str)
        /\ Len(f.text) = Least(Len(t), space)
        /\ \A k \in 1 .. Len(f.text) : f.text[k] = t[k]
    BY <1>1, <1>3, <2>1, <2>2, <2>3, StringField
  <2> QED BY <1>6, <2>4 DEF f, t, spec, str
<1> QED BY <1>4, <1>5, <1>6 DEF IsString, Conversions

-----------------------------------------------------------------------------
(* What an iteration does to the buffer: it lays down bytes, as many as    *)
(* there is room for, and counts them.  Only a field whose padding is cut  *)
(* takes the cursor, and maybe more bytes, further than that.              *)
Fitting(bytes) == Least(Len(bytes), room)

InStep(bytes) == "field" \in Clients[client].fit \/ Len(bytes) <= room

Lays(bytes) ==
  /\ DOMAIN mem' = DOMAIN mem
  /\ pos' \in Nat /\ pos + Fitting(bytes) <= pos' /\ pos' <= pos + Len(bytes)
  /\ \A c \in DOMAIN mem : c < pos + Fitting(bytes) =>
       mem'[c] = IF pos <= c THEN bytes[c - pos + 1] ELSE mem[c]
  /\ InStep(bytes) =>
       /\ pos' = pos + Fitting(bytes)
       /\ \A c \in DOMAIN mem : c >= pos' => mem'[c] = mem[c]

Counts(bytes) ==
  /\ total' \in Int
  /\ total + (pos' - pos) <= total' /\ total' <= total + Len(bytes)
  /\ Len(bytes) <= room => total' = total + Len(bytes)

Begins(x, u) == Len(x) <= Len(u) /\ \A k \in 1 .. Len(x) : x[k] = u[k]

SameUpTo(n, x, u) == \A k \in 1 .. n : x[k] = u[k]

LEMMA JoinedBegin ==
  ASSUME NEW x \in Texts, NEW y \in Texts, NEW u \in Texts, NEW v \in Texts,
         Begins(x, u), Begins(y, v)
  PROVE  /\ Len(x \o y) = Len(x) + Len(y)
         /\ SameUpTo(Len(x), x \o y, u \o v)
         /\ Len(x) = Len(u) => SameUpTo(Len(x \o y), x \o y, u \o v)
<1>1. /\ Len(x) \in Nat /\ Len(y) \in Nat /\ Len(u) \in Nat /\ Len(v) \in Nat
      /\ Len(x \o y) = Len(x) + Len(y) /\ Len(u \o v) = Len(u) + Len(v)
      /\ \A k \in 1 .. Len(x) : (x \o y)[k] = x[k]
      /\ \A k \in 1 .. Len(y) : (x \o y)[Len(x) + k] = y[k]
      /\ \A k \in 1 .. Len(u) : (u \o v)[k] = u[k]
      /\ \A k \in 1 .. Len(v) : (u \o v)[Len(u) + k] = v[k]
  BY Joined
<1> DEFINE xy == x \o y
           uv == u \o v
<1> HIDE DEF xy, uv
<1>2. ASSUME NEW k \in 1 .. Len(x) PROVE xy[k] = uv[k]
  <2>1. k \in 1 .. Len(u)
    BY <1>1 DEF Begins
  <2> QED BY <1>1, <2>1 DEF Begins, xy, uv
<1>3. ASSUME Len(x) = Len(u), NEW k \in 1 .. Len(xy) PROVE xy[k] = uv[k]
  <2>1. CASE k <= Len(x)
    <3>1. k \in 1 .. Len(x)
      BY <1>1, <2>1
    <3> QED BY <1>2, <3>1
  <2>2. CASE ~(k <= Len(x))
    <3> DEFINE j == k - Len(x)
    <3>1. j \in 1 .. Len(y) /\ j \in 1 .. Len(v) /\ k = Len(x) + j
      BY <1>1, <2>2 DEF Begins, xy
    <3> HIDE DEF j
    <3>2. xy[k] = y[j] /\ uv[k] = v[j]
      BY <1>1, <1>3, <3>1 DEF xy, uv
    <3> QED BY <3>1, <3>2 DEF Begins
  <2> QED BY <2>1, <2>2
<1> QED BY <1>1, <1>2, <1>3 DEF xy, uv, SameUpTo

(* How many bytes are stored of a text of n bytes, of which the field has  *)
(* m, with p bytes of padding, in space s, where there is room for r.      *)
CutLengths(minus, n, m, p, s, r, l) ==
  /\ l \in Nat /\ l <= m /\ m <= n
  /\ Least(p + n, r) <= Least(p, s) + l /\ Least(p + n, r) <= p + l
  /\ minus /\ l # n => Least(p + n, r) <= l
  /\ ~minus /\ s < p => l = 0 /\ Least(p + n, r) <= s
  /\ p + n <= r => m = n

(* The field writer: text and padding share the space, and what is laid    *)
(* down is the beginning of the whole field.                               *)
LEMMA PutLays ==
  ASSUME DOMAIN mem \subseteq Nat, pos \in Nat, room \in Nat, total \in Int,
         NEW minus \in BOOLEAN, NEW field, NEW space \in Nat, NEW t \in Texts,
         NEW p \in Nat, p = Padding(field), field.text \in Texts, Begins(field.text, t),
         \/ Len(field.text) = Len(t)
         \/ Len(field.text) = Least(Len(t), space) /\ p = 0,
         room <= space \/ p + Len(t) <= space,
         "field" \in Clients[client].fit =>
           /\ p <= room /\ (minus /\ p > 0 => p + Len(t) <= room)
           /\ space = room \/ p + Len(t) <= room,
         PutWithFieldWidth(field, minus, space)
  PROVE  LET b == IF minus THEN t \o Spaces(p) ELSE Spaces(p) \o t
         IN  Lays(b) /\ Counts(b)
<1> DEFINE text  == field.text
           sp    == Spaces(p)
           fill  == First(sp, space)
           rest  == Rest(minus, p, space)
           shown == First(text, rest)
           b     == IF minus THEN t \o sp ELSE sp \o t
           x     == IF minus THEN shown \o fill ELSE fill \o shown
           n     == Len(t)
           l     == Len(shown)
<1>1. sp \in Texts /\ Len(sp) = p
  <2>1. p \in Int /\ Positive(p) = p
    BY DEF Positive
  <2> QED BY <2>1, SpacesAre
<1>2. /\ mem' = (IF minus THEN WrittenTo(WrittenTo(mem, pos, shown), pos + Len(shown), fill)
                          ELSE WrittenTo(WrittenTo(mem, pos, fill), pos + p, shown))
      /\ pos' = pos + p + l
      /\ total' = total + (p + Len(text))
  <2>1. ~(space < 0)
    OBVIOUS
  <2> QED BY <2>1 DEF PutWithFieldWidth, Put
<1> HIDE DEF sp
<1>3. fill \in Texts /\ Len(fill) = Least(p, space) /\ Begins(fill, sp)
  <2>1. /\ fill \in Texts /\ Len(fill) = Least(p, space)
        /\ \A k \in 1 .. Least(p, space) : fill[k] = sp[k]
    BY <1>1, FirstBytes
  <2>2. Least(p, space) <= p
    BY DEF Least
  <2> QED BY <1>1, <2>1, <2>2 DEF Begins
<1>4. rest = (IF minus THEN space ELSE Positive(space - p)) /\ rest \in Nat
  <2>1. space - p \in Int
    OBVIOUS
  <2> QED BY <2>1, MaxOfZero DEF Rest
<1>5. n \in Nat /\ Len(text) \in Nat /\ Len(text) <= n
  BY LenProperties DEF Texts, Begins
<1>6. shown \in Texts /\ l = Least(Len(text), rest) /\ Begins(shown, t)
  <2>1. /\ shown \in Texts /\ Len(shown) = Least(Len(text), rest)
        /\ \A k \in 1 .. Least(Len(text), rest) : shown[k] = text[k]
    BY <1>4, FirstBytes
  <2>2. Least(Len(text), rest) <= Len(text) /\ Least(Len(text), rest) \in Nat
    BY <1>4, <1>5 DEF Least
  <2> HIDE DEF shown, rest
  <2> QED BY SMTT(30), <1>5, <2>1, <2>2 DEF Begins
<1>7. /\ CutLengths(minus, n, Len(text), p, space, room, l)
      /\ p + n <= room => p <= space /\ l = n
      /\ "field" \in Clients[client].fit => p <= space /\ p + l = Least(p + n, room)
  <2>1. l = Least(Len(text), IF minus THEN space ELSE Positive(space - p))
    BY <1>4, <1>6
  <2>2. Len(text) = n \/ (Len(text) = Least(n, space) /\ p = 0)
    OBVIOUS
  <2>3. room <= space \/ p + n <= space
    OBVIOUS
  <2>4. "field" \in Clients[client].fit =>
          p <= room /\ (minus /\ p > 0 => p + n <= room) /\ (space = room \/ p + n <= room)
    OBVIOUS
  <2>5. Len(text) \in Nat /\ n \in Nat
    BY <1>5
  <2> HIDE DEF fill, rest, shown, text, n, l
  <2> DEFINE m == Len(text)
  <2> HIDE DEF m
  <2>6. m \in Nat /\ n \in Nat /\ l = Least(m, IF minus THEN space ELSE Positive(space - p))
    BY <2>1, <2>5 DEF m
  <2>7. CASE m = n
    <3>1. CASE minus
      BY <2>3, <2>4, <2>6, <2>7, <3>1 DEF CutLengths, Least, m
    <3>2. CASE ~minus
      BY SMTT(30), <2>3, <2>4, <2>6, <2>7, <3>2 DEF CutLengths, Least, Positive, m
    <3> QED BY <3>1, <3>2
  <2>8. CASE m = Least(n, space) /\ p = 0
    <3>1. CASE minus
      BY <2>3, <2>4, <2>6, <2>8, <3>1 DEF CutLengths, Least, m
    <3>2. CASE ~minus
      BY <2>3, <2>4, <2>6, <2>8, <3>2 DEF CutLengths, Least, Positive, m
    <3> QED BY <3>1, <3>2
  <2> QED BY <2>2, <2>7, <2>8 DEF m
<1> HIDE DEF fill, rest, shown, text, l, n
<1>8. x \in Texts /\ Len(x) = Least(p, space) + l /\ Len(b) = p + n
  <2>1. shown \o fill \in Texts /\ Len(shown \o fill) = l + Least(p, space)
    <3>1. shown \o fill \in Texts /\ Len(shown \o fill) = Len(shown) + Len(fill)
      BY <1>3, <1>6, Joined
    <3> QED BY <1>3, <3>1 DEF l
  <2>2. fill \o shown \in Texts /\ Len(fill \o shown) = Least(p, space) + l
    <3>1. fill \o shown \in Texts /\ Len(fill \o shown) = Len(fill) + Len(shown)
      BY <1>3, <1>6, Joined
    <3> QED BY <1>3, <3>1 DEF l
  <2>3. Len(t \o sp) = n + p /\ Len(sp \o t) = p + n
    <3>1. Len(t \o sp) = Len(t) + Len(sp) /\ Len(sp \o t) = Len(sp) + Len(t)
      BY <1>1, Joined
    <3> QED BY <1>1, <3>1 DEF n
  <2>4. l \in Nat /\ Least(p, space) \in Nat
    BY <1>7 DEF CutLengths, Least
  <2>5. CASE minus
    BY <1>5, <2>1, <2>3, <2>4, <2>5
  <2>6. CASE ~minus
    BY <1>5, <2>2, <2>3, <2>4, <2>6
  <2> QED BY <2>5, <2>6
<1>9. \A k \in 1 .. Least(p + n, room) : x[k] = b[k]
  <2>1. Least(p + n, room) \in Nat /\ Least(p + n, room) <= Least(p, space) + l
    BY <1>5, <1>7 DEF CutLengths, Least
  <2>2. CASE minus
    <3>1. /\ Len(shown \o fill) = Len(shown) + Len(fill)
          /\ SameUpTo(Len(shown), shown \o fill, t \o sp)
          /\ Len(shown) = Len(t) => SameUpTo(Len(shown \o fill), shown \o fill, t \o sp)
      <4>1. shown \in Texts /\ fill \in Texts /\ sp \in Texts /\ Begins(shown, t) /\ Begins(fill, sp)
        BY <1>1, <1>3, <1>6
      <4> QED BY <4>1, JoinedBegin
    <3>2. x = shown \o fill /\ b = t \o sp
      BY <2>2
    <3>3. l = n \/ Least(p + n, room) <= l
      BY <1>7, <2>2 DEF CutLengths
    <3> HIDE DEF x, b
    <3>4. l = n => SameUpTo(Len(x), x, b)
      BY <3>1, <3>2 DEF l, n
    <3>5. SameUpTo(l, x, b)
      BY <3>1, <3>2 DEF l
    <3>6. l \in Nat /\ Len(x) \in Nat /\ Least(p + n, room) <= Len(x)
      BY <1>7, <1>8, <2>1 DEF CutLengths, Least
    <3>7. CASE l = n
      BY <2>1, <3>4, <3>6, <3>7 DEF SameUpTo
    <3>8. CASE Least(p + n, room) <= l
      BY <2>1, <3>5, <3>6, <3>8 DEF SameUpTo
    <3> QED BY <3>3, <3>7, <3>8
  <2>3. CASE ~minus
    <3>1. /\ SameUpTo(Len(fill), fill \o shown, sp \o t)
          /\ Len(fill) = Len(sp) => SameUpTo(Len(fill \o shown), fill \o shown, sp \o t)
      <4>1. shown \in Texts /\ fill \in Texts /\ sp \in Texts /\ Begins(shown, t) /\ Begins(fill, sp)
        BY <1>1, <1>3, <1>6
      <4> QED BY <4>1, JoinedBegin
    <3>2. x = fill \o shown /\ b = sp \o t
      BY <2>3
    <3>3. Len(fill) = Len(sp) \/ Least(p + n, room) <= Len(fill)
      BY <1>1, <1>3, <1>7, <2>3 DEF CutLengths, Least
    <3> HIDE DEF x, b
    <3>4. Len(fill) = Len(sp) => SameUpTo(Len(x), x, b)
      BY <3>1, <3>2
    <3>5. SameUpTo(Len(fill), x, b)
      BY <3>1, <3>2
    <3>6. Len(x) \in Nat /\ Len(fill) \in Nat /\ Least(p + n, room) <= Len(x)
      BY <1>3, <1>8, <2>1, LenProperties DEF Texts
    <3>7. CASE Len(fill) = Len(sp)
      BY <2>1, <3>4, <3>6, <3>7 DEF SameUpTo
    <3>8. CASE Least(p + n, room) <= Len(fill)
      BY <2>1, <3>5, <3>6, <3>8 DEF SameUpTo
    <3> QED BY <3>3, <3>7, <3>8
  <2> QED BY <2>2, <2>3
<1>10. Holds(mem', mem, pos, x)
  <2>1. CASE minus
    <3>1. mem' = WrittenTo(WrittenTo(mem, pos, shown), pos + Len(shown), fill) /\ x = shown \o fill
      BY <1>2, <2>1
    <3> DEFINE w == WrittenTo(WrittenTo(mem, pos, shown), pos + Len(shown), fill)
    <3>2. Holds(w, mem, pos, shown \o fill)
      BY <1>3, <1>6, WrittenInTurn
    <3> HIDE DEF x, w
    <3>3. mem' = w
      BY <3>1 DEF w
    <3> QED BY <3>1, <3>2, <3>3
  <2>2. CASE ~minus /\ p <= space
    <3>1. mem' = WrittenTo(WrittenTo(mem, pos, fill), pos + Len(fill), shown) /\ x = fill \o shown
      <4>1. Len(fill) = p
        BY <1>3, <2>2 DEF Least
      <4> QED BY <1>2, <2>2, <4>1
    <3> DEFINE w == WrittenTo(WrittenTo(mem, pos, fill), pos + Len(fill), shown)
    <3>2. Holds(w, mem, pos, fill \o shown)
      BY <1>3, <1>6, WrittenInTurn
    <3> HIDE DEF x, w
    <3>3. mem' = w
      BY <3>1 DEF w
    <3> QED BY <3>1, <3>2, <3>3
  <2>3. CASE ~minus /\ ~(p <= space)
    <3> DEFINE u == WrittenTo(mem, pos, fill)
    <3>1. l = 0 /\ Len(x) = Len(fill) /\ Len(fill) \in Nat
      BY <1>3, <1>7, <1>8, <2>3 DEF CutLengths, Least
    <3>2. mem' = WrittenTo(u, pos + p, shown) /\ x = fill \o shown
      BY <1>2, <2>3
    <3>3. DOMAIN u = DOMAIN mem /\ \A c \in DOMAIN mem :
            u[c] = IF pos <= c /\ c < pos + Len(fill) THEN fill[c - pos + 1] ELSE mem[c]
      BY WrittenBytes
    <3>4. DOMAIN mem' = DOMAIN u /\ \A c \in DOMAIN u :
            mem'[c] = IF pos + p <= c /\ c < pos + p + l THEN shown[c - (pos + p) + 1] ELSE u[c]
      BY <3>2, WrittenBytes DEF l
    <3> HIDE DEF x, u
    <3>5. \A k \in 1 .. Len(fill) : x[k] = fill[k]
      <4>1. \A k \in 1 .. Len(fill) : (fill \o shown)[k] = fill[k]
        BY <1>3, <1>6, Joined
      <4> QED BY <3>2, <4>1
    <3>6. ASSUME NEW c \in DOMAIN mem
          PROVE  mem'[c] = IF pos <= c /\ c < pos + Len(x) THEN x[c - pos + 1] ELSE mem[c]
      <4>1. c \in Nat /\ ~(pos + p <= c /\ c < pos + p + l)
        BY <3>1
      <4>2. mem'[c] = u[c]
        BY <3>3, <3>4, <4>1
      <4>3. pos <= c /\ c < pos + Len(fill) => c - pos + 1 \in 1 .. Len(fill)
        BY <3>1, <4>1
      <4> QED BY <3>1, <3>3, <3>5, <4>2, <4>3
    <3> QED BY <3>3, <3>4, <3>6 DEF Holds
  <2> QED BY <2>1, <2>2, <2>3
<1> HIDE DEF x, b
<1>11. Fitting(b) = Least(p + n, room) /\ Fitting(b) \in Nat /\ l \in Nat
       /\ Fitting(b) <= Len(x) /\ Fitting(b) <= p + l /\ l <= Len(text) /\ Len(x) <= p + l
  BY <1>5, <1>7, <1>8 DEF Fitting, CutLengths, Least
<1>12. InStep(b) => p + l = Fitting(b) /\ Len(x) = Fitting(b)
  <2>1. CASE p + n <= room
    BY <1>5, <1>7, <1>8, <1>11, <2>1 DEF Least
  <2>2. CASE "field" \in Clients[client].fit
    BY <1>7, <1>8, <1>11, <2>2 DEF Least
  <2> QED BY <1>8, <2>1, <2>2 DEF InStep
<1>13. Lays(b)
  <2>1. pos' \in Nat /\ pos + Fitting(b) <= pos' /\ pos' <= pos + Len(b)
    <3>1. pos' = pos + p + l /\ Len(b) = p + n /\ l <= n /\ n \in Nat
      BY <1>5, <1>2, <1>7, <1>8 DEF CutLengths
    <3> HIDE DEF Fitting
    <3>2. Fitting(b) \in Nat /\ l \in Nat /\ Fitting(b) <= p + l
      BY <1>11
    <3>3. p + l \in Nat /\ p + l <= p + n
      BY <3>1, <3>2
    <3> QED BY <3>1, <3>2, <3>3, SMTT(30)
  <2>2. ASSUME NEW c \in DOMAIN mem, c < pos + Fitting(b)
        PROVE  mem'[c] = IF pos <= c THEN b[c - pos + 1] ELSE mem[c]
    <3>1. c \in Nat
      OBVIOUS
    <3>2. CASE pos <= c
      <4>1. c < pos + Len(x) /\ c - pos + 1 \in 1 .. Least(p + n, room)
        BY <1>8, <1>11, <2>2, <3>1, <3>2, SMTT(30)
      <4> QED BY <1>9, <1>10, <3>2, <4>1 DEF Holds
    <3>3. CASE ~(pos <= c)
      BY <1>10, <3>3 DEF Holds
    <3> QED BY <3>2, <3>3
  <2>3. ASSUME InStep(b)
        PROVE  pos' = pos + Fitting(b) /\ \A c \in DOMAIN mem : c >= pos' => mem'[c] = mem[c]
    <3>1. pos' = pos + Fitting(b) /\ pos' = pos + Len(x)
      <4>1. pos' = pos + p + l /\ p + l = Fitting(b) /\ Len(x) = Fitting(b) /\ l \in Nat
        BY <1>2, <1>11, <1>12, <2>3
      <4> HIDE DEF Fitting
      <4> QED BY <4>1
    <3>2. ASSUME NEW c \in DOMAIN mem, c >= pos' PROVE mem'[c] = mem[c]
      <4>1. ~(pos <= c /\ c < pos + Len(x))
        BY <2>1, <3>1, <3>2
      <4> QED BY <1>10, <4>1 DEF Holds
    <3> QED BY <3>1, <3>2
  <2> QED BY <1>10, <2>1, <2>2, <2>3 DEF Lays, Holds
<1>14. Counts(b)
  <2>1. total' = total + (p + Len(text)) /\ Len(text) <= n /\ pos' - pos = p + l
    <3>1. pos' = pos + p + l /\ l \in Nat
      BY <1>2, <1>11
    <3> QED BY <1>5, <1>2, <3>1
  <2>2. p + n <= room => Len(text) = n
    BY <1>7 DEF CutLengths
  <2> DEFINE m == Len(text)
  <2>3. m \in Nat /\ n \in Nat /\ l \in Nat /\ l <= m /\ Len(b) = p + n
    BY <1>5, <1>8, <1>11
  <2> HIDE DEF m
  <2>4. total' = total + (p + m) /\ m <= n /\ (p + n <= room => m = n)
    BY <2>1, <2>2 DEF m
  <2>5. /\ total' \in Int
        /\ total + (p + l) <= total' /\ total' <= total + Len(b)
        /\ Len(b) <= room => total' = total + Len(b)
    <3> DEFINE full == Len(b)
    <3> HIDE DEF full
    <3>1. full = p + n /\ full \in Nat
      BY <2>3 DEF full
    <3>2. total' \in Int /\ total + (p + l) <= total' /\ total' <= total + full
      <4>1. total' = total + (p + m)
        BY <2>4
      <4>2. /\ m \in Nat /\ n \in Nat /\ l \in Nat /\ l <= m /\ m <= n
            /\ full = p + n
        BY <2>3, <2>4, <3>1
      <4> DEFINE r == p + l
                 q == p + m
      <4>3. r \in Nat /\ q \in Nat /\ full \in Nat /\ r <= q /\ q <= full
        BY <4>2
      <4> HIDE DEF r, q
      <4>4. total + r <= total + q /\ total + q <= total + full /\ total + q \in Int
        BY <4>3
      <4> QED BY <4>1, <4>4 DEF r, q
    <3>3. full <= room => total' = total + full
      BY <2>3, <2>4, <3>1
    <3> QED BY <3>2, <3>3 DEF full
  <2> QED BY <2>1, <2>5 DEF Counts
<1> QED BY <1>13, <1>14 DEF b, sp

LEMMA FieldByCIs ==
  ASSUME NEW d, d.conv \in Conversions \ {"n", "%"}, d.width \in Int, TextByC(d) \in Texts,
         NEW p, p = Positive(d.width - Len(TextByC(d)))
  PROVE  FieldByC(d) = IF "-" \in d.flags THEN TextByC(d) \o Spaces(p) ELSE Spaces(p) \o TextByC(d)
<1> DEFINE x == d.width - Len(TextByC(d))
<1>1. x \in Int
  BY LenProperties DEF Texts
<1>2. Spaces(x) = Spaces(p)
  <2> HIDE DEF x
  <2>1. 1 .. x = 1 .. Positive(x)
    BY <1>1 DEF Positive
  <2>2. p = Positive(x)
    BY DEF x
  <2> QED BY <2>1, <2>2 DEF Spaces
<1>3. d.conv \notin {"lit", "n", "%"}
  BY DEF Conversions, Signed, Unsigned
<1> QED BY <1>2, <1>3 DEF FieldByC

(* Bytes of the format and %n have fields without padding.                 *)
LEMMA BareFields ==
  /\ \A d : d.conv = "lit" /\ d.arg \in Texts => FieldByC(d) = d.arg
  /\ \A d : d.conv = "%" => FieldByC(d) = <<"%">>
  /\ \A d : d.conv = "n" => FieldByC(d) = <<>>
<1>1. ASSUME NEW d, d.conv \in {"lit", "%", "n"}, TextByC(d) \in Texts
      PROVE  FieldByC(d) = TextByC(d)
  <2>1. FieldByC(d) = IF "-" \in d.flags THEN TextByC(d) \o <<>> ELSE <<>> \o TextByC(d)
    BY <1>1 DEF FieldByC
  <2>2. TextByC(d) \o <<>> = TextByC(d) /\ <<>> \o TextByC(d) = TextByC(d)
    BY <1>1, ConcatEmptySeq DEF Texts
  <2> QED BY <2>1, <2>2
<1>2. <<"%">> \in Texts /\ <<>> \in Texts
  <2>1. "%" \in Bytes
    BY BytesAssumption
  <2> QED BY <2>1 DEF Texts
<1>3. ASSUME NEW d, d.conv = "lit", d.arg \in Texts PROVE FieldByC(d) = d.arg
  <2>1. TextByC(d) = d.arg
    BY <1>3 DEF TextByC, Signed, Unsigned
  <2> QED BY <1>1, <1>3, <2>1
<1>4. ASSUME NEW d, d.conv = "%" PROVE FieldByC(d) = <<"%">>
  <2>1. TextByC(d) = <<"%">>
    BY <1>4 DEF TextByC, Signed, Unsigned
  <2> QED BY <1>1, <1>2, <1>4, <2>1
<1>5. ASSUME NEW d, d.conv = "n" PROVE FieldByC(d) = <<>>
  <2>1. TextByC(d) = <<>>
    BY <1>5 DEF TextByC, Signed, Unsigned
  <2> QED BY <1>1, <1>2, <1>5, <2>1
<1> QED BY <1>3, <1>4, <1>5

-----------------------------------------------------------------------------
(* What an iteration begins with: the space is counted from the bytes      *)
(* written, and everything the format has produced is in the buffer.       *)
LEMMA SizeIs ==
  ASSUME FormatInv
  PROVE  /\ maxSize \in Nat /\ Clients[client].cells \in Nat /\ maxSize < Clients[client].cells
         /\ size \in Int /\ Max({0, size}) = Positive(size) /\ Positive(size) \in Nat
         /\ expansion \in Texts /\ Len(expansion) \in Nat /\ DOMAIN mem \subseteq Nat
         /\ Shown = Least(Positive(size), Len(expansion)) /\ Shown \in Nat
<1>1. /\ Clients[client].cells \in Nat
      /\ Clients[client].sizes \subseteq 0 .. Clients[client].cells - 1
  BY ClientsAssumption DEF FormatInv
<1>2. maxSize \in Nat /\ maxSize < Clients[client].cells
  BY <1>1 DEF FormatInv
<1>3. size \in Int
  BY <1>2 DEF size
<1>4. Max({0, size}) = Positive(size) /\ Positive(size) \in Nat
  BY <1>3, MaxOfZero
<1>5. expansion \in Texts /\ Len(expansion) \in Nat
  BY LenProperties DEF FormatInv, Texts
<1>6. DOMAIN mem \subseteq Nat
  <2>1. DOMAIN mem = 0 .. Clients[client].cells - 1
    BY DEF FormatInv
  <2> QED BY <1>1, <2>1
<1>7. Shown = Least(Positive(size), Len(expansion))
  BY <1>4 DEF Shown
<1>8. Shown \in Nat
  BY <1>4, <1>5, <1>7 DEF Least
<1> QED BY <1>1, <1>2, <1>3, <1>4, <1>5, <1>6, <1>7, <1>8

LEMMA AtIteration ==
  ASSUME FormatInv, running, room > 0
  PROVE  /\ size \in Nat /\ room \in Nat /\ room = size - pos /\ DOMAIN mem \subseteq Nat
         /\ i \in Nat /\ expansion \in Texts /\ Len(expansion) \in Nat
         /\ written = pos /\ pos = Len(expansion) /\ total = Len(expansion)
         /\ \A c \in DOMAIN mem : mem[c] = IF c < pos THEN expansion[c + 1] ELSE Untouched
<1>1. /\ size \in Int /\ Max({0, size}) = Positive(size)
      /\ expansion \in Texts /\ Len(expansion) \in Nat /\ DOMAIN mem \subseteq Nat
      /\ Shown = Least(Positive(size), Len(expansion)) /\ maxSize \in Nat
  BY SizeIs
<1>2. /\ written = pos /\ pos \in Nat /\ Shown <= pos /\ i \in Nat
      /\ pos <= total /\ total <= Len(expansion)
      /\ Len(expansion) <= size => total = Len(expansion)
      /\ 0 < maxSize
  BY DEF FormatInv, ReturnValue
<1>3. room = size - pos
  BY <1>2 DEF room
<1>4. size \in Nat
  BY <1>1, <1>2 DEF size
<1>5. room \in Nat /\ pos < size
  BY <1>2, <1>3, <1>4
<1>6. total \in Int
  BY DEF FormatInv
<1>7. Len(expansion) < size /\ Shown = Len(expansion) /\ pos = Len(expansion)
  BY <1>1, <1>2, <1>4, <1>5, <1>6 DEF Least, Positive
<1>8. total = Len(expansion)
  BY <1>1, <1>2, <1>6, <1>7
<1>9. ASSUME NEW c \in DOMAIN mem
      PROVE  mem[c] = IF c < pos THEN expansion[c + 1] ELSE Untouched
  <2>1. Len(expansion) <= size
    BY <1>1, <1>4, <1>7
  <2>2. /\ c < Shown => mem[c] = expansion[c + 1]
        /\ c >= Shown => mem[c] = IF c = pos /\ ~running /\ 0 < maxSize /\ maxSize < IntMax
                                  THEN NUL ELSE Untouched
    BY <2>1 DEF FormatInv, OutputIsExpansion
  <2>3. c \in Nat /\ (c < pos \/ c >= Shown)
    BY <1>1, <1>7
  <2> QED BY <1>7, <2>2, <2>3
<1> QED BY <1>1, <1>2, <1>3, <1>4, <1>5, <1>7, <1>8, <1>9

(* An iteration that lays down the field C prescribes keeps the invariant. *)
LEMMA IterationKeeps ==
  ASSUME FormatInv, NEW d, Iterate(d), FieldByC(d) \in Texts, Lays(FieldByC(d)), Counts(FieldByC(d)),
         Space(d) \in Nat, written' = pos'
  PROVE  FormatInv'
<1> DEFINE F == FieldByC(d)
           e == expansion \o F
<1>1. /\ running /\ running' /\ room > 0 /\ i' = i + 1 /\ expansion' = e
      /\ UNCHANGED <<client, maxSize>>
  <2>1. Space(d) >= 0
    OBVIOUS
  <2> HIDE DEF F
  <2> QED BY <2>1 DEF Iterate, F
<1>2. /\ size \in Nat /\ room \in Nat /\ DOMAIN mem \subseteq Nat /\ i \in Nat
      /\ expansion \in Texts /\ Len(expansion) \in Nat /\ room = size - pos
      /\ pos = Len(expansion) /\ total = Len(expansion)
      /\ \A c \in DOMAIN mem : mem[c] = IF c < pos THEN expansion[c + 1] ELSE Untouched
  BY <1>1, AtIteration
<1>3. /\ e \in Texts /\ Len(F) \in Nat /\ Len(e) = Len(expansion) + Len(F)
      /\ \A k \in 1 .. Len(expansion) : e[k] = expansion[k]
      /\ \A k \in 1 .. Len(F) : e[Len(expansion) + k] = F[k]
  BY <1>2, Joined
<1>4. size' = size
  BY <1>1 DEF size
<1> HIDE DEF F, e
<1>5. Shown' = pos + Fitting(F) /\ Fitting(F) \in Nat /\ Fitting(F) <= Len(F)
  <2>1. Max({0, size'}) = size
    BY <1>2, <1>4, MaxOfZero DEF Positive
  <2>2. Shown' = Least(size, Len(expansion) + Len(F))
    BY <1>1, <1>3, <2>1 DEF Shown
  <2>3. Fitting(F) = Least(Len(F), size - pos)
    BY <1>2 DEF Fitting
  <2> HIDE DEF size, room
  <2> QED BY <1>2, <1>3, <2>2, <2>3 DEF Least
<1>6. /\ DOMAIN mem' = DOMAIN mem
      /\ pos' \in Nat /\ Shown' <= pos' /\ pos' <= pos + Len(F)
      /\ \A c \in DOMAIN mem : c < Shown' =>
           mem'[c] = IF pos <= c THEN F[c - pos + 1] ELSE mem[c]
      /\ InStep(F) =>
           /\ pos' = Shown'
           /\ \A c \in DOMAIN mem : c >= pos' => mem'[c] = mem[c]
  BY <1>5 DEF Lays, F
<1>7. OutputIsExpansion'
  <2>1. ASSUME NEW c \in DOMAIN mem', c < Shown' PROVE mem'[c] = e[c + 1]
    <3>1. c \in DOMAIN mem /\ c \in Nat
      BY <1>2, <1>6
    <3>2. CASE c < pos
      <4>1. c + 1 \in 1 .. Len(expansion)
        BY <1>2, <3>1, <3>2
      <4>2. mem[c] = expansion[c + 1] /\ e[c + 1] = expansion[c + 1] /\ ~(pos <= c)
        BY <1>2, <1>3, <3>1, <3>2, <4>1
      <4> QED BY <1>6, <2>1, <3>1, <4>2
    <3>3. CASE pos <= c
      <4> DEFINE k == c - pos + 1
      <4>1. k \in 1 .. Len(F) /\ Len(expansion) + k = c + 1
        BY <1>2, <1>3, <1>5, <2>1, <3>1, <3>3
      <4>2. mem'[c] = F[k]
        BY <1>6, <2>1, <3>1, <3>3
      <4> HIDE DEF k
      <4>3. e[Len(expansion) + k] = F[k]
        BY <1>3, <4>1
      <4> QED BY <4>1, <4>2, <4>3
    <3> QED BY <1>2, <3>1, <3>2, <3>3
  <2>2. ASSUME Len(e) <= size \/ "field" \in Clients[client].fit
        PROVE  /\ pos' = Shown'
               /\ \A c \in DOMAIN mem' : c >= Shown' => mem'[c] = Untouched
    <3>1. InStep(F)
      BY <1>2, <1>3, <2>2 DEF InStep
    <3>2. pos' = Shown' /\ \A c \in DOMAIN mem : c >= pos' => mem'[c] = mem[c]
      BY <1>6, <3>1
    <3>3. ASSUME NEW c \in DOMAIN mem', c >= Shown' PROVE mem'[c] = Untouched
      <4>1. c \in DOMAIN mem /\ c \in Nat /\ ~(c < pos)
        BY <1>2, <1>5, <1>6, <3>3
      <4>2. mem'[c] = mem[c] /\ mem[c] = Untouched
        BY <1>2, <3>2, <3>3, <4>1
      <4> QED BY <4>2
    <3> QED BY <3>2, <3>3
  <2> QED BY <1>1, <1>4, <2>1, <2>2 DEF OutputIsExpansion
<1>8. ReturnValue'
  <2>1. /\ total' \in Int
        /\ total + (pos' - pos) <= total' /\ total' <= total + Len(F)
        /\ Len(F) <= room => total' = total + Len(F)
    BY DEF Counts, F
  <2>2. pos' <= total' /\ total' <= Len(e)
    BY <1>2, <1>3, <1>6, <2>1
  <2>3. Len(e) <= size => total' = Len(e)
    BY <1>2, <1>3, <2>1
  <2> QED BY <1>1, <1>4, <2>2, <2>3 DEF ReturnValue
<1>9. /\ i' \in Nat /\ i' # 0 /\ total' \in Int /\ expansion' \in Seq(Bytes)
      /\ DOMAIN mem' = 0 .. Clients[client'].cells - 1
  <2>1. DOMAIN mem' = DOMAIN mem /\ DOMAIN mem = 0 .. Clients[client].cells - 1
    BY DEF Lays, FormatInv
  <2> QED BY <1>1, <1>2, <1>3, <2>1 DEF Counts, Texts
<1>10. /\ client' \in DOMAIN Clients /\ maxSize' \in Clients[client'].sizes
       /\ running' \in BOOLEAN /\ (running' => 0 < maxSize' /\ maxSize' < IntMax)
  <2>1. running' \in BOOLEAN
    BY DEF Iterate
  <2> QED BY <1>1, <2>1 DEF FormatInv
<1> QED BY <1>6, <1>7, <1>8, <1>9, <1>10 DEF FormatInv

LEMMA ByteKeeps ==
  ASSUME FormatInv, NEW d \in Clients[client].directives, Byte(d)
  PROVE  FormatInv'
<1> DEFINE F == FieldByC(d)
<1>1. /\ d.conv \in {"lit", "%"} /\ Iterate(d) /\ running /\ room > 0
      /\ mem' = WrittenTo(mem, pos, IF d.conv = "%" THEN <<"%">> ELSE d.arg)
      /\ pos' = pos + 1 /\ total' = total + 1
      /\ written' = IF d.conv = "%" THEN pos' ELSE written + 1
  BY DEF Byte, Iterate
<1>2. F \in Texts /\ Len(F) = 1 /\ F = IF d.conv = "%" THEN <<"%">> ELSE d.arg
  <2>1. CASE d.conv = "lit"
    <3>1. d.arg \in Texts /\ Len(d.arg) = 1
      BY <2>1, ClientsAssumption DEF FormatInv, Texts
    <3> QED BY <2>1, <3>1, BareFields
  <2>2. CASE d.conv = "%"
    <3>1. F = <<"%">>
      BY <2>2, BareFields
    <3>2. <<"%">> \in Texts /\ Len(<<"%">>) = 1
      <4>1. "%" \in Bytes
        BY BytesAssumption
      <4> QED BY <4>1 DEF Texts
    <3> QED BY <2>2, <3>1, <3>2
  <2> QED BY <1>1, <2>1, <2>2
<1> HIDE DEF F
<1>3. /\ room \in Nat /\ total \in Int /\ pos \in Nat /\ Fitting(F) = 1 /\ Space(d) \in Nat
      /\ written' = pos'
  <2>1. room \in Nat /\ total \in Int /\ pos \in Nat /\ written = pos
    BY <1>1, AtIteration
  <2>2. Space(d) = room
    BY <1>1 DEF Space
  <2> QED BY <1>1, <1>2, <2>1, <2>2 DEF Fitting, Least
<1>4. Lays(F)
  <2>1. mem' = WrittenTo(mem, pos, F)
    BY <1>1, <1>2
  <2>2. /\ DOMAIN mem' = DOMAIN mem
        /\ \A c \in DOMAIN mem :
             mem'[c] = IF pos <= c /\ c < pos + 1 THEN F[c - pos + 1] ELSE mem[c]
    <3>1. /\ DOMAIN WrittenTo(mem, pos, F) = DOMAIN mem
          /\ \A c \in DOMAIN mem :
               WrittenTo(mem, pos, F)[c] =
                 IF pos <= c /\ c < pos + Len(F) THEN F[c - pos + 1] ELSE mem[c]
      BY WrittenBytes
    <3> QED BY <1>2, <2>1, <3>1
  <2>3. \A c \in DOMAIN mem : c >= pos + 1 => ~(pos <= c /\ c < pos + 1)
    <3>1. DOMAIN mem \subseteq Nat
      BY <1>1, AtIteration
    <3> QED BY <1>3, <3>1
  <2>4. pos' \in Nat /\ pos' = pos + Fitting(F) /\ pos + Fitting(F) = pos + 1 /\ Len(F) = 1
    BY <1>1, <1>2, <1>3
  <2> HIDE DEF Fitting
  <2> QED BY <1>3, <2>2, <2>3, <2>4 DEF Lays
<1>5. Counts(F)
  BY <1>1, <1>2, <1>3 DEF Counts
<1> QED BY <1>1, <1>2, <1>3, <1>4, <1>5, IterationKeeps DEF F

LEMMA StoreCountKeeps ==
  ASSUME FormatInv, NEW d \in Clients[client].directives, StoreCount(d)
  PROVE  FormatInv' /\ (d.arg # 0 => counted' = Len(expansion))
<1>1. /\ d.conv = "n" /\ Iterate(d) /\ running /\ room > 0 /\ written' = pos
      /\ counted' = IF d.arg = 0 THEN counted ELSE written
      /\ UNCHANGED <<mem, pos, total>>
  BY DEF StoreCount, Iterate
<1>2. /\ room \in Nat /\ total \in Int /\ pos \in Nat /\ pos = Len(expansion)
      /\ DOMAIN mem \subseteq Nat /\ written = pos /\ Space(d) \in Nat
  <2>1. Space(d) = room
    BY <1>1 DEF Space
  <2> QED BY <1>1, <2>1, AtIteration
<1> DEFINE F == FieldByC(d)
<1>3. F = <<>> /\ F \in Texts /\ Len(F) = 0 /\ Fitting(F) = 0
  <2>1. F = <<>>
    BY <1>1, BareFields
  <2> HIDE DEF F
  <2>2. F \in Texts /\ Len(F) = 0
    BY <2>1 DEF Texts
  <2> QED BY <1>2, <2>1, <2>2 DEF Fitting, Least
<1> HIDE DEF F
<1>4. Lays(F)
  <2>1. \A c \in DOMAIN mem : c < pos => ~(pos <= c)
    BY <1>2
  <2> HIDE DEF Fitting
  <2> QED BY <1>1, <1>2, <1>3, <2>1 DEF Lays
<1>5. Counts(F)
  BY <1>1, <1>2, <1>3 DEF Counts
<1> QED BY <1>1, <1>2, <1>3, <1>4, <1>5, IterationKeeps DEF F

(* A null pointer's space may be anything the client has not ruled out;    *)
(* its field has a text and a padding all the same.                        *)
LEMMA PaddingIsNatural ==
  ASSUME ClientsConvert, NEW c \in DOMAIN Clients, NEW d \in Clients[c].directives,
         d.conv \in Conversions \ {"n", "%"}, NEW space \in Int, d.conv = "p" /\ d.arg = 0
  PROVE  Padding(Field(Parsed(d), space)) \in Nat
<1> DEFINE spec == Parsed(d)
           f == Field(spec, space)
           count == IF spec.prec >= 0 /\ spec.prec < space THEN spec.prec ELSE space
           m == IF Len(Nil) < count THEN Len(Nil) ELSE count
<1>1. Converts(d) /\ spec.conv = d.conv /\ spec.arg = d.arg /\ spec.width = d.width
      /\ spec.prec = d.prec
  BY DEF ClientsConvert, Converts
<1>2. d.prec \in Int /\ d.width \in Int
  <2>1. d.prec \in None .. 32 /\ d.width \in None .. 32
    BY ClientsAssumption
  <2> QED BY <2>1 DEF None
<1>3. f = FormatString(Nil, spec, space)
  <2> HIDE DEF spec
  <2> QED BY <1>1 DEF Field, Signed, Unsigned
<1>4. f.text = SubSeq(Nil, 1, m) /\ f.width = d.width
  <2> HIDE DEF f, spec
  <2> QED BY <1>1, <1>3 DEF FormatString
<1>5. m \in Int /\ m <= Len(Nil)
  BY <1>1, <1>2, SpecialTexts
<1> HIDE DEF f, spec, count, m
<1>6. f.text \in Texts
  <2>1. \A k \in 1 .. Len(Nil) : Nil[k] \in Bytes
    BY SpecialTexts, ElementOfSeq DEF Texts
  <2>2. \A k \in 1 .. m : Nil[k] \in Bytes
    BY <1>5, <2>1, SpecialTexts
  <2> QED BY <1>4, <1>5, <2>2, SubSeqProperties DEF Texts
<1>7. Len(f.text) \in Nat
  BY <1>6, LenProperties DEF Texts
<1>8. Padding(f) \in Nat
  <2>1. Padding(f) = IF d.width >= Len(f.text) THEN d.width - Len(f.text) ELSE 0
    BY <1>4 DEF Padding
  <2> QED BY <1>2, <1>7, <2>1
<1> QED BY <1>8 DEF f, spec

(* A conversion lays down the field C prescribes.                          *)
LEMMA ConvertLays ==
  ASSUME ClientsConvert, FormatInv, NEW d \in Clients[client].directives, Convert(d)
  PROVE  /\ FieldByC(d) \in Texts /\ Lays(FieldByC(d)) /\ Counts(FieldByC(d))
         /\ Space(d) \in Nat
<1> DEFINE space == Space(d)
           f == Field(Parsed(d), space)
           t == TextByC(d)
           p == Padding(f)
           minus == "-" \in d.flags
           exact == "field" \in Clients[client].fit
<1>1. /\ d.conv \in Conversions \ {"n", "%"} /\ TextFits(d) /\ running /\ room > 0
      /\ client \in DOMAIN Clients /\ (exact => FieldFits(d))
  BY DEF Convert, ClientsConvert, FormatInv, Iterate
<1>2. PutWithFieldWidth(f, minus, space)
  <2>1. Converts(d)
    BY <1>1 DEF ClientsConvert
  <2>2. "-" \in Parsed(d).flags <=> "-" \in d.flags
    BY <2>1 DEF Converts
  <2>3. PutWithFieldWidth(f, "-" \in Parsed(d).flags, space)
    BY DEF Convert
  <2>4. ("-" \in Parsed(d).flags) = ("-" \in d.flags)
    BY <2>2
  <2> HIDE DEF f, space
  <2> QED BY <2>3, <2>4
<1>3. /\ size \in Nat /\ room \in Nat /\ DOMAIN mem \subseteq Nat /\ i \in Nat
      /\ pos \in Nat /\ total \in Int
  BY <1>1, AtIteration
<1>4. d.width \in Int /\ (d.width # None => d.width >= 0)
  <2>1. d.width \in None .. 32
    BY <1>1, ClientsAssumption
  <2> QED BY <2>1 DEF None
<1>5. /\ d.conv \in {"s", "p"} /\ d.width # None => Len(t) <= room
      /\ space < room => p + Len(Nil) <= space
      /\ exact => /\ p > 0 => p + (IF minus THEN Len(f.text) ELSE 0) <= room
                  /\ space # room => p + Len(Nil) <= room
  BY <1>1 DEF TextFits, FieldFits
<1>6. space # room => d.conv = "p" /\ d.arg = 0 /\ space = size - i
  BY DEF Space
<1> HIDE DEF f, p, t, space, minus, exact
<1>7. space \in Nat /\ (space # room => p \in Nat)
  <2>1. CASE space = room
    BY <1>3, <2>1
  <2>2. CASE space # room
    <3>1. space \in Int /\ p \in Nat
      <4>1. space \in Int
        BY <1>3, <1>6, <2>2
      <4> QED BY <1>1, <1>6, <2>2, <4>1, PaddingIsNatural DEF p, f
    <3>2. space \in Nat
      <4>1. CASE space < room
        BY <1>5, <3>1, <4>1, SpecialTexts
      <4>2. CASE ~(space < room)
        BY <1>3, <3>1, <4>2
      <4> QED BY <4>1, <4>2
    <3> QED BY <3>1, <3>2
  <2> QED BY <2>1, <2>2
<1>8. /\ t \in Texts /\ f.text \in Texts
      /\ \A k \in 1 .. Len(f.text) : f.text[k] = t[k]
      /\ ~IsString(d) => Len(f.text) = Len(t) /\ p = Positive(d.width - Len(t))
      /\ IsString(d) => /\ Len(f.text) = Least(Len(t), space)
                        /\ f.width = d.width
                        /\ d.conv = "p" => Len(t) <= Len(Nil)
  BY <1>1, <1>7, FieldIs DEF f, t, p
<1>9. Len(t) \in Nat /\ Len(f.text) \in Nat /\ Len(Nil) = 5
  BY <1>8, SpecialTexts, LenProperties DEF Texts
<1>10. Len(f.text) <= Len(t) /\ Begins(f.text, t)
  BY <1>7, <1>8, <1>9 DEF Begins, Least
<1>11. space # room => Len(t) <= 5
  BY <1>6, <1>8, <1>9 DEF IsString
<1>12. /\ p = Positive(d.width - Len(t)) /\ p \in Nat
       /\ \/ Len(f.text) = Len(t)
          \/ Len(f.text) = Least(Len(t), space) /\ p = 0
  <2>1. CASE ~IsString(d)
    BY <1>4, <1>8, <1>9, <2>1 DEF Positive
  <2>2. CASE IsString(d) /\ Len(t) <= space
    <3>1. Len(f.text) = Len(t)
      BY <1>7, <1>8, <1>9, <2>2 DEF Least
    <3>2. p = IF d.width >= Len(t) THEN d.width - Len(t) ELSE 0
      BY <1>8, <2>2, <3>1 DEF p, Padding
    <3> QED BY <1>4, <1>9, <3>1, <3>2 DEF Positive
  <2>3. CASE IsString(d) /\ ~(Len(t) <= space)
    <3>1. ~(space < room)
      BY <1>5, <1>7, <1>9, <1>11, <2>3
    <3>2. d.width = None
      BY <1>3, <1>5, <1>7, <1>9, <2>3, <3>1 DEF IsString
    <3>3. p = 0
      BY <1>8, <1>9, <2>3, <3>2 DEF p, Padding, None
    <3>4. Positive(d.width - Len(t)) = 0
      BY <1>9, <3>2 DEF Positive, None
    <3> QED BY <1>8, <2>3, <3>3, <3>4
  <2> QED BY <2>1, <2>2, <2>3
<1>13. room <= space \/ p + Len(t) <= space
  BY <1>3, <1>5, <1>7, <1>9, <1>11, <1>12
<1>14. exact => /\ p <= room /\ (minus /\ p > 0 => p + Len(t) <= room)
                /\ space = room \/ p + Len(t) <= room
  <2> SUFFICES ASSUME exact
               PROVE  /\ p <= room /\ (minus /\ p > 0 => p + Len(t) <= room)
                      /\ space = room \/ p + Len(t) <= room
    OBVIOUS
  <2>1. p > 0 => p + (IF minus THEN Len(f.text) ELSE 0) <= room /\ Len(f.text) = Len(t)
    BY <1>5, <1>12
  <2>2. p <= room /\ (minus /\ p > 0 => p + Len(t) <= room)
    BY <1>3, <1>9, <1>12, <2>1
  <2>3. space = room \/ p + Len(t) <= room
    BY <1>3, <1>5, <1>9, <1>11, <1>12
  <2> QED BY <2>2, <2>3
<1> DEFINE b == IF minus THEN t \o Spaces(p) ELSE Spaces(p) \o t
<1>15. Lays(b) /\ Counts(b)
  <2>1. minus \in BOOLEAN
    BY DEF minus
  <2>2. p = Padding(f)
    BY DEF p
  <2>3. "field" \in Clients[client].fit =>
          /\ p <= room /\ (minus /\ p > 0 => p + Len(t) <= room)
          /\ space = room \/ p + Len(t) <= room
    BY <1>14 DEF exact
  <2> QED BY <1>2, <1>3, <1>7, <1>8, <1>10, <1>12, <1>13, <2>1, <2>2, <2>3, PutLays
<1>16. b = FieldByC(d)
  BY <1>1, <1>4, <1>8, <1>12, FieldByCIs DEF t, minus
<1>17. b \in Texts
  <2>1. Spaces(p) \in Texts
    <3>1. p \in Int
      BY <1>12
    <3> QED BY <3>1, SpacesAre
  <2>2. t \o Spaces(p) \in Texts /\ Spaces(p) \o t \in Texts
    BY <1>8, <2>1, Joined
  <2> QED BY <2>2
<1> QED BY <1>7, <1>15, <1>16, <1>17 DEF space

LEMMA ConvertKeeps ==
  ASSUME ClientsConvert, FormatInv, NEW d \in Clients[client].directives, Convert(d)
  PROVE  FormatInv'
<1>1. Iterate(d) /\ written' = pos'
  BY DEF Convert
<1> QED BY <1>1, ConvertLays, IterationKeeps

(* The NUL goes where pos is, which is behind everything shown.            *)
LEMMA FinishKeeps == FormatInv /\ Finish => FormatInv'
<1> SUFFICES ASSUME FormatInv, Finish PROVE FormatInv'
  OBVIOUS
<1>1. /\ running /\ ~running' /\ running' \in BOOLEAN /\ mem' = WrittenTo(mem, pos, <<NUL>>)
      /\ UNCHANGED <<client, maxSize, pos, written, i, total, expansion>>
  BY DEF Finish
<1>2. 0 < maxSize /\ maxSize < IntMax
  BY <1>1 DEF FormatInv
<1>3. pos \in Nat /\ DOMAIN mem \subseteq Nat /\ Shown <= pos /\ Shown \in Nat
  BY SizeIs DEF FormatInv
<1>4. /\ DOMAIN mem' = DOMAIN mem
      /\ \A c \in DOMAIN mem : mem'[c] = IF c = pos THEN NUL ELSE mem[c]
  <2>1. /\ DOMAIN mem' = DOMAIN mem
        /\ \A c \in DOMAIN mem : mem'[c] =
             IF pos <= c /\ c < pos + Len(<<NUL>>) THEN <<NUL>>[c - pos + 1] ELSE mem[c]
    BY <1>1, WrittenBytes
  <2>2. ASSUME NEW c \in DOMAIN mem PROVE mem'[c] = IF c = pos THEN NUL ELSE mem[c]
    <3>1. mem'[c] = IF pos <= c /\ c < pos + Len(<<NUL>>) THEN <<NUL>>[c - pos + 1] ELSE mem[c]
      BY <2>1
    <3>2. c \in Nat /\ Len(<<NUL>>) = 1 /\ <<NUL>>[1] = NUL
      BY <1>3
    <3>3. CASE c = pos
      <4>1. c - pos + 1 = 1 /\ pos <= c /\ c < pos + 1
        BY <1>3, <3>3
      <4> QED BY <3>1, <3>2, <3>3, <4>1
    <3>4. CASE c # pos
      <4>1. ~(pos <= c /\ c < pos + 1)
        BY <1>3, <3>2, <3>4
      <4> QED BY <3>1, <3>2, <3>4, <4>1
    <3> QED BY <3>3, <3>4
  <2> QED BY <2>1, <2>2
<1>5. size' = size /\ Shown' = Shown
  BY <1>1 DEF size, Shown
<1>6. OutputIsExpansion'
  <2>1. ASSUME NEW c \in DOMAIN mem', c < Shown PROVE mem'[c] = expansion[c + 1]
    <3>1. c \in DOMAIN mem /\ c \in Nat /\ c # pos
      BY <1>3, <1>4, <2>1
    <3>2. mem[c] = expansion[c + 1]
      BY <2>1, <3>1 DEF FormatInv, OutputIsExpansion
    <3> QED BY <1>4, <3>1, <3>2
  <2>2. ASSUME Len(expansion) <= size \/ "field" \in Clients[client].fit
        PROVE  /\ pos = Shown
               /\ \A c \in DOMAIN mem' : c >= Shown =>
                    mem'[c] = IF c = pos THEN NUL ELSE Untouched
    <3>1. pos = Shown
      BY <2>2 DEF FormatInv, OutputIsExpansion
    <3>2. \A c \in DOMAIN mem : c >= Shown => mem[c] = Untouched
      BY <1>1, <2>2 DEF FormatInv, OutputIsExpansion
    <3> QED BY <1>4, <3>1, <3>2
  <2> QED BY <1>1, <1>2, <1>5, <2>1, <2>2 DEF OutputIsExpansion
<1>7. ReturnValue'
  BY <1>1, <1>5 DEF FormatInv, ReturnValue
<1>8. /\ i' = 0 => ClientsConvert
      /\ client' \in DOMAIN Clients /\ maxSize' \in Clients[client'].sizes
      /\ i' \in Nat /\ total' \in Int /\ expansion' \in Seq(Bytes)
      /\ DOMAIN mem' = 0 .. Clients[client'].cells - 1
      /\ pos' \in Nat /\ Shown' <= pos' /\ written' = pos'
  BY <1>1, <1>4, <1>5 DEF FormatInv
<1> QED BY <1>1, <1>6, <1>7, <1>8 DEF FormatInv

LEMMA InvariantHolds == ClientsConvert /\ Init => FormatInv
<1> SUFFICES ASSUME ClientsConvert, Init PROVE FormatInv
  OBVIOUS
<1>1. /\ client \in DOMAIN Clients /\ maxSize \in Clients[client].sizes
      /\ running = (0 < maxSize /\ maxSize < IntMax)
      /\ mem = [c \in 0 .. Clients[client].cells - 1 |-> Untouched]
      /\ pos = 0 /\ written = 0 /\ i = 0 /\ total = 0 /\ expansion = <<>>
  BY DEF Init
<1>2. Clients[client].cells \in Nat /\ maxSize \in 0 .. Clients[client].cells - 1
  BY <1>1, ClientsAssumption
<1>3. size \in Int
  BY <1>2 DEF size
<1>4. Len(expansion) = 0 /\ expansion \in Seq(Bytes)
  BY <1>1
<1>5. OutputIsExpansion /\ Shown = 0
  <2>1. Max({0, size}) = Positive(size) /\ Positive(size) \in Nat
    BY <1>3, MaxOfZero
  <2>2. Shown = 0
    BY <1>1, <1>4, <2>1 DEF Least, Shown
  <2>3. \A c \in DOMAIN mem : mem[c] = Untouched /\ ~(c < 0)
    BY <1>1, <1>2
  <2>4. ~running => ~(0 < maxSize /\ maxSize < IntMax)
    BY <1>1
  <2> QED BY <1>1, <2>2, <2>3, <2>4 DEF OutputIsExpansion
<1>6. ReturnValue
  BY <1>1, <1>3, <1>4 DEF ReturnValue
<1>7. running \in BOOLEAN /\ (running => 0 < maxSize /\ maxSize < IntMax)
  BY <1>1
<1>8. DOMAIN mem = 0 .. Clients[client].cells - 1
  BY <1>1
<1> QED BY <1>1, <1>4, <1>5, <1>6, <1>7, <1>8 DEF FormatInv

LEMMA InvariantKept == ClientsConvert /\ FormatInv /\ [Next]_vars => FormatInv'
<1> SUFFICES ASSUME ClientsConvert, FormatInv, [Next]_vars PROVE FormatInv'
  OBVIOUS
<1>1. CASE \E d \in Clients[client].directives : Byte(d) \/ Convert(d) \/ StoreCount(d)
  BY <1>1, ByteKeeps, ConvertKeeps, StoreCountKeeps
<1>2. CASE Finish
  BY <1>2, FinishKeeps
<1>3. CASE UNCHANGED vars
  BY <1>3 DEF vars, FormatInv, OutputIsExpansion, ReturnValue, Shown, size
<1> QED BY <1>1, <1>2, <1>3 DEF Next

-----------------------------------------------------------------------------
(* vsnprintf: the cursor, the buffer, the count and the expansion stay in  *)
(* step through every iteration and the final NUL.                         *)
THEOREM FormatInvariant ==
  ASSUME ClientsConvert
  PROVE  Spec => []FormatInv
<1>1. Init => FormatInv
  BY InvariantHolds
<1>2. FormatInv /\ [Next]_vars => FormatInv'
  BY InvariantKept
<1> QED BY <1>1, <1>2, PTL DEF Spec

(* vsnprintf: whatever its size, the buffer ends up with the beginning of  *)
(* the expansion C prescribes, be it cut inside text or inside padding (a  *)
(* string with a field width that does not fit is exempt, see TextFits).   *)
(* If everything fits, or the padding does, there is a NUL behind it and   *)
(* nothing else is touched.                                                *)
THEOREM OutputIsC ==
  ASSUME ClientsConvert
  PROVE  Spec => []OutputIsExpansion
<1>1. FormatInv => OutputIsExpansion
  BY DEF FormatInv
<1> QED BY <1>1, FormatInvariant, PTL

(* formatSpec.total, which vsnprintf returns: the length of the output     *)
(* when nothing was cut off, and never less than what was stored.          *)
THEOREM ReturnsTotal ==
  ASSUME ClientsConvert
  PROVE  Spec => []ReturnValue
<1>1. FormatInv => ReturnValue
  BY DEF FormatInv
<1> QED BY <1>1, FormatInvariant, PTL

(* The NUL vsnprintf stores behind the loop is in the buffer of a client   *)
(* whose fields fit with their padding; any other may lose it.             *)
THEOREM OutputIsTerminated ==
  ASSUME ClientsConvert
  PROVE  Spec => []("field" \in Clients[client].fit => AlwaysTerminated)
<1>1. FormatInv => ("field" \in Clients[client].fit => AlwaysTerminated)
  <2> SUFFICES ASSUME FormatInv, "field" \in Clients[client].fit,
                      ~running, 0 < maxSize, maxSize < IntMax
               PROVE  \E c \in 0 .. size : mem[c] = NUL
    BY DEF AlwaysTerminated
  <2>1. /\ maxSize \in Nat /\ Clients[client].cells \in Nat /\ maxSize < Clients[client].cells
        /\ Shown = Least(Positive(size), Len(expansion)) /\ Shown \in Nat
        /\ Positive(size) \in Nat /\ Len(expansion) \in Nat
    BY SizeIs
  <2>2. pos = Shown /\ \A c \in DOMAIN mem : c >= Shown => mem[c] = IF c = pos THEN NUL ELSE Untouched
    BY DEF FormatInv, OutputIsExpansion
  <2>3. pos \in 0 .. size /\ pos \in 0 .. Clients[client].cells - 1
    BY <2>1, <2>2 DEF size, Positive, Least
  <2>4. pos \in DOMAIN mem /\ pos >= Shown
    BY <2>1, <2>2, <2>3 DEF FormatInv
  <2>5. mem[pos] = NUL
    BY <2>2, <2>4
  <2> QED BY <2>3, <2>5
<1> QED BY <1>1, FormatInvariant, PTL

(* %n in vsnprintf: written, which it stores, is the number of bytes of    *)
(* the expansion so far.                                                   *)
THEOREM CountsAreExact ==
  ASSUME ClientsConvert
  PROVE  Spec => CountIsExact
<1>1. FormatInv /\ [Next]_vars =>
        [\A d \in Clients[client].directives :
           StoreCount(d) /\ d.arg # 0 => counted' = Len(expansion)]_vars
  BY StoreCountKeeps
<1> QED BY <1>1, FormatInvariant, PTL DEF Spec, CountIsExact
=============================================================================
