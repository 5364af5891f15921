-------------------------- MODULE StringCopyProofs --------------------------
(***************************************************************************)
(* Proofs about the functions that build strings, for arrays and strings   *)
(* of any length.                                                          *)
(***************************************************************************)
EXTENDS StringCopy, SequenceTheorems, WellFoundedInduction, TLAPS

(* A set of naturals that is not empty has a least element, since the      *)
(* order of the naturals is well-founded.                                  *)
LEMMA MinOfNaturals ==
  ASSUME NEW S \in SUBSET Nat, S # {}
  PROVE  Min(S) \in S /\ \A x \in S : Min(S) <= x
<1> DEFINE R == OpToRel(<, Nat)
<1>1. R = {ss \in Nat \X Nat : ss[1] < ss[2]}
  BY DEF OpToRel
<1>2. PICK least \in S : \A m \in S : ~ (<<m, least>> \in R)
  <2>1. IsWellFoundedOn(R, Nat)
    BY NatLessThanWellFounded
  <2> HIDE DEF R
  <2> QED BY <2>1, WFMin
<1>3. ASSUME NEW m \in S, m < least PROVE <<m, least>> \in R
  <2> DEFINE pair == <<m, least>>
  <2>1. pair \in Nat \X Nat /\ pair[1] = m /\ pair[2] = least
    OBVIOUS
  <2> HIDE DEF pair, R
  <2>2. pair \in R
    BY <1>1, <1>3, <2>1
  <2> QED BY <2>2 DEF pair
<1> HIDE DEF R
<1>4. ASSUME NEW m \in S PROVE ~ (m < least)
  BY <1>2, <1>3
<1>5. \A m \in S : least <= m
  BY <1>4
<1> QED BY <1>5 DEF Min

(* What Min of a set is, once a candidate is at hand.                      *)
LEMMA MinIs ==
  ASSUME NEW S \in SUBSET Int, NEW m \in S, \A x \in S : m <= x
  PROVE  Min(S) = m
<1>1. \A x \in S : (\A y \in S : x <= y) => x = m
  <2> SUFFICES ASSUME NEW x \in S, \A y \in S : x <= y PROVE x = m
    OBVIOUS
  <2>1. x \in Int /\ m \in Int /\ x <= m /\ m <= x
    OBVIOUS
  <2> QED BY <2>1
<1> QED BY <1>1 DEF Min

Bytes == Letters \cup {NUL}

(* A string in memory ends at its first NUL.                               *)
LEMMA EndsAt ==
  ASSUME NEW m, NEW k \in DOMAIN m, DOMAIN m \subseteq Nat, m[k] = NUL,
         \A j \in DOMAIN m : j < k => m[j] # NUL
  PROVE  StrLen(m) = k
<1> DEFINE S == {j \in DOMAIN m : m[j] = NUL}
<1>1. S \in SUBSET Int /\ k \in S /\ \A j \in S : k <= j
  OBVIOUS
<1> HIDE DEF S
<1>2. Min(S) = k
  BY <1>1, MinIs
<1> QED BY <1>2 DEF StrLen, S

LEMMA StringBytes ==
  ASSUME NEW str \in Strings
  PROVE  /\ str \in Seq(Letters) /\ Len(str) \in 0 .. MaxLen
         /\ \A k \in 1 .. Len(str) : str[k] \in Letters
<1>1. PICK k \in 0 .. MaxLen : str \in [1 .. k -> Letters]
  BY DEF Strings
<1>2. str \in Seq(Letters) /\ Len(str) = k
  BY <1>1, CapAssumption, SeqDef, LenProperties
<1> QED BY <1>1, <1>2

(* What the arguments of a call hold.                                      *)
LEMMA SourceString ==
  ASSUME Arguments
  PROVE  /\ StrLen(src) \in 0 .. MaxLen /\ DOMAIN src = 0 .. StrLen(src)
         /\ src[StrLen(src)] = NUL
         /\ \A k \in 0 .. StrLen(src) - 1 : src[k] \in Letters /\ src[k] # NUL
<1>1. PICK str \in Strings : src = Terminated(str)
  BY DEF Arguments
<1>2. /\ Len(str) \in Nat /\ Len(str) \in 0 .. MaxLen
      /\ \A k \in 1 .. Len(str) : str[k] \in Letters
  BY <1>1, StringBytes
<1>3. /\ DOMAIN src = 0 .. Len(str) /\ src[Len(str)] = NUL
      /\ \A k \in 0 .. Len(str) - 1 : src[k] \in Letters /\ src[k] # NUL
  BY <1>1, <1>2, LettersAssumption DEF Terminated, Letters
<1>4. StrLen(src) = Len(str)
  BY SMTT(30), <1>2, <1>3, EndsAt
<1> QED BY <1>2, <1>3, <1>4

LEMMA OldString ==
  ASSUME Arguments
  PROVE  /\ StrLen(orig) \in 0 .. MaxLen /\ DOMAIN orig = 0 .. Cap - 1
         /\ orig[StrLen(orig)] = NUL
         /\ \A k \in 0 .. StrLen(orig) - 1 : orig[k] \in Letters /\ orig[k] # NUL
<1>1. PICK str \in Strings : orig = InArray(str)
  BY DEF Arguments
<1>2. /\ Len(str) \in Nat /\ Len(str) \in 0 .. MaxLen /\ Len(str) < Cap
      /\ \A k \in 1 .. Len(str) : str[k] \in Letters
  BY <1>1, StringBytes, CapAssumption
<1>3. /\ DOMAIN orig = 0 .. Cap - 1 /\ orig[Len(str)] = NUL
      /\ \A k \in 0 .. Len(str) - 1 : orig[k] \in Letters /\ orig[k] # NUL
  <2>1. \A k \in 0 .. Len(str) :
          orig[k] = IF k < Len(str) THEN str[k + 1] ELSE NUL
    BY <1>1, <1>2, CapAssumption DEF InArray, Terminated
  <2>2. DOMAIN orig = 0 .. Cap - 1
    BY <1>1 DEF InArray
  <2> QED BY SMTT(30), <1>2, <2>1, <2>2, LettersAssumption DEF Letters
<1>4. StrLen(orig) = Len(str)
  BY SMTT(30), <1>2, <1>3, CapAssumption, EndsAt
<1> QED BY <1>2, <1>3, <1>4

-----------------------------------------------------------------------------
(* The texts the promises are made of, as functions of offsets.            *)
LEMMA FunctionIsText ==
  ASSUME NEW len \in Nat, NEW f \in [1 .. len -> Bytes]
  PROVE  f \in Seq(Bytes) /\ Len(f) = len
BY SeqDef, LenProperties

LEMMA TextOf ==
  ASSUME NEW m, StrLen(m) \in Nat, \A k \in 0 .. StrLen(m) - 1 : m[k] \in Letters
  PROVE  /\ Text(m) \in Seq(Bytes) /\ Len(Text(m)) = StrLen(m)
         /\ \A k \in 0 .. StrLen(m) - 1 : Text(m)[k + 1] = m[k]
<1>1. Text(m) \in [1 .. StrLen(m) -> Bytes]
  BY DEF Text, Bytes
<1>2. Text(m) \in Seq(Bytes) /\ Len(Text(m)) = StrLen(m)
  BY <1>1, FunctionIsText
<1>3. \A k \in 0 .. StrLen(m) - 1 : Text(m)[k + 1] = m[k]
  BY DEF Text
<1> QED BY <1>2, <1>3

LEMMA EndedText ==
  ASSUME NEW t \in Seq(Bytes)
  PROVE  /\ Append(t, NUL) \in Seq(Bytes)
         /\ Len(Append(t, NUL)) = Len(t) + 1 /\ Append(t, NUL)[Len(t) + 1] = NUL
         /\ \A k \in 1 .. Len(t) : Append(t, NUL)[k] = t[k]
<1>1. NUL \in Bytes
  BY DEF Bytes
<1> QED BY <1>1, AppendProperties

LEMMA FirstBytes ==
  ASSUME NEW t \in Seq(Bytes), NEW k \in Nat
  PROVE  /\ First(t, k) \in Seq(Bytes) /\ Len(First(t, k)) = Least(Len(t), k)
         /\ \A j \in 1 .. Least(Len(t), k) : First(t, k)[j] = t[j]
<1>1. Len(t) \in Nat /\ Least(Len(t), k) \in 0 .. Len(t)
  BY LenProperties DEF Least
<1> HIDE DEF Least
<1>2. First(t, k) = SubSeq(t, 1, Least(Len(t), k))
  BY DEF First
<1> QED BY <1>1, <1>2, SubSeqProperties

-----------------------------------------------------------------------------
(* The promise of each function, byte by byte.                             *)
LEMMA Texts ==
  ASSUME Arguments
  PROVE  /\ Text(src) \in Seq(Bytes) /\ Len(Text(src)) = StrLen(src)
         /\ \A k \in 0 .. StrLen(src) - 1 : Text(src)[k + 1] = src[k]
         /\ Text(orig) \in Seq(Bytes) /\ Len(Text(orig)) = StrLen(orig)
         /\ \A k \in 0 .. StrLen(orig) - 1 : Text(orig)[k + 1] = orig[k]
         /\ StrLen(src) \in Nat /\ StrLen(orig) \in Nat /\ size \in Nat
<1>1. /\ StrLen(src) \in Nat
      /\ \A k \in 0 .. StrLen(src) - 1 : src[k] \in Letters
  BY SourceString
<1>2. /\ StrLen(orig) \in Nat
      /\ \A k \in 0 .. StrLen(orig) - 1 : orig[k] \in Letters
  BY OldString
<1>3. size \in Nat
  BY CapAssumption DEF Arguments
<1> QED BY <1>1, <1>2, <1>3, TextOf

LEMMA NothingPromised ==
  ASSUME Arguments,
         \/ ~given
         \/ fn = "strdup" /\ ~memory
         \/ fn = "strlcpy" /\ size = 0
         \/ fn = "strlcat" /\ size <= StrLen(orig)
  PROVE  Len(Promised) = 0
<1>1. Promised = <<>>
  BY Texts DEF Promised
<1> QED BY <1>1

LEMMA EndedSource ==
  ASSUME Arguments
  PROVE  /\ Append(Text(src), NUL) \in Seq(Bytes)
         /\ Len(Append(Text(src), NUL)) = StrLen(src) + 1
         /\ \A k \in 0 .. StrLen(src) : Append(Text(src), NUL)[k + 1] = src[k]
<1> DEFINE t == Text(src)
<1>1. /\ Append(t, NUL) \in Seq(Bytes)
      /\ Len(Append(t, NUL)) = StrLen(src) + 1 /\ Append(t, NUL)[StrLen(src) + 1] = NUL
      /\ \A k \in 1 .. StrLen(src) : Append(t, NUL)[k] = t[k]
  BY Texts, EndedText
<1>2. src[StrLen(src)] = NUL
  BY SourceString
<1> HIDE DEF t
<1>3. ASSUME NEW k \in 0 .. StrLen(src) PROVE Append(t, NUL)[k + 1] = src[k]
  <2>1. CASE k = StrLen(src)
    BY <1>1, <1>2, <2>1
  <2>2. CASE k # StrLen(src)
    <3>1. k \in 0 .. StrLen(src) - 1 /\ k + 1 \in 1 .. StrLen(src)
      BY <2>2, Texts
    <3> QED BY <1>1, <3>1, Texts DEF t
  <2> QED BY <2>1, <2>2
<1> QED BY <1>1, <1>3 DEF t

LEMMA SourcePromised ==
  ASSUME Arguments, given,
         fn \in {"strcpy", "stpcpy"} \/ (fn = "strdup" /\ memory)
  PROVE  /\ Len(Promised) = StrLen(src) + 1
         /\ \A k \in 0 .. StrLen(src) : Promised[k + 1] = src[k]
<1>1. Promised = Append(Text(src), NUL)
  BY DEF Promised
<1> QED BY <1>1, EndedSource

LEMMA PaddedPromised ==
  ASSUME Arguments, fn = "strncpy"
  PROVE  /\ Len(Promised) = size
         /\ \A k \in 0 .. size - 1 :
              Promised[k + 1] = IF k < StrLen(src) THEN src[k] ELSE NUL
<1> DEFINE f == [k \in 1 .. size |-> IF k <= Len(Text(src)) THEN Text(src)[k] ELSE NUL]
<1>1. Promised = f
  BY DEF Promised, Arguments
<1>2. f \in [1 .. size -> Bytes]
  <2>1. NUL \in Bytes /\ \A k \in 1 .. Len(Text(src)) : Text(src)[k] \in Bytes
    BY Texts, ElementOfSeq DEF Bytes
  <2> QED BY <2>1, Texts
<1>3. Len(f) = size
  BY <1>2, Texts, FunctionIsText
<1>4. ASSUME NEW k \in 0 .. size - 1
      PROVE  f[k + 1] = IF k < StrLen(src) THEN src[k] ELSE NUL
  <2>1. f[k + 1] = IF k + 1 <= StrLen(src) THEN Text(src)[k + 1] ELSE NUL
    BY Texts
  <2> QED BY <2>1, Texts
<1> HIDE DEF f
<1> QED BY <1>1, <1>3, <1>4

LEMMA FilledPromised ==
  ASSUME Arguments, fn \in {"memset", "bzero"}
  PROVE  /\ Len(Promised) = size
         /\ \A k \in 0 .. size - 1 : Promised[k + 1] = IF fn = "memset" THEN Lower ELSE NUL
<1> DEFINE byte == IF fn = "memset" THEN Lower ELSE NUL
           f == [k \in 1 .. size |-> byte]
<1>1. Promised = f
  BY DEF Promised, Arguments
<1>2. f \in [1 .. size -> Bytes]
  BY DEF Bytes, Letters
<1>3. Len(f) = size
  BY <1>2, Texts, FunctionIsText
<1>4. \A k \in 0 .. size - 1 : f[k + 1] = byte
  BY Texts
<1> HIDE DEF f
<1> QED BY <1>1, <1>3, <1>4

(* A text cut off and ended by a NUL.                                      *)
LEMMA CutText ==
  ASSUME NEW t \in Seq(Bytes), NEW k \in Nat
  PROVE  /\ Len(Append(First(t, k), NUL)) = Least(Len(t), k) + 1
         /\ Append(First(t, k), NUL)[Least(Len(t), k) + 1] = NUL
         /\ \A j \in 1 .. Least(Len(t), k) : Append(First(t, k), NUL)[j] = t[j]
<1> DEFINE c == First(t, k)
           m == Least(Len(t), k)
<1>1. c \in Seq(Bytes) /\ Len(c) = m /\ \A j \in 1 .. m : c[j] = t[j]
  BY FirstBytes
<1> HIDE DEF c, m
<1>2. /\ Len(Append(c, NUL)) = m + 1 /\ Append(c, NUL)[m + 1] = NUL
      /\ \A j \in 1 .. m : Append(c, NUL)[j] = c[j]
  BY <1>1, EndedText
<1> QED BY <1>1, <1>2 DEF c, m

LEMMA BoundedPromised ==
  ASSUME Arguments, fn = "strlcpy", size > 0
  PROVE  LET m == Least(StrLen(src), size - 1)
         IN  /\ m \in Nat /\ Len(Promised) = m + 1 /\ Promised[m + 1] = NUL
             /\ \A k \in 0 .. m - 1 : Promised[k + 1] = src[k]
<1> DEFINE m == Least(StrLen(src), size - 1)
           t == Text(src)
<1>1. Promised = Append(First(t, size - 1), NUL)
  BY DEF Promised, Arguments
<1>2. size - 1 \in Nat /\ m \in Nat /\ m <= StrLen(src)
  BY Texts DEF Least
<1>3. /\ Len(Promised) = m + 1 /\ Promised[m + 1] = NUL
      /\ \A k \in 1 .. m : Promised[k] = t[k]
  BY SMTT(30), <1>1, <1>2, Texts, CutText
<1> HIDE DEF m
<1>4. \A k \in 0 .. m - 1 : k + 1 \in 1 .. m /\ k \in 0 .. StrLen(src) - 1
  BY <1>2, Texts
<1>5. \A k \in 0 .. m - 1 : Promised[k + 1] = src[k]
  BY <1>3, <1>4, Texts
<1> QED BY <1>2, <1>3, <1>5 DEF m

(* Two texts joined.                                                       *)
Joins(t, x, p, y, q) ==
  /\ t \in Seq(Bytes) /\ Len(t) = p + q
  /\ \A k \in 1 .. p : t[k] = x[k]
  /\ \A k \in 1 .. q : t[p + k] = y[k]

LEMMA JoinedText ==
  ASSUME NEW x \in Seq(Bytes), NEW y \in Seq(Bytes),
         NEW p \in Nat, NEW q \in Nat, Len(x) = p, Len(y) = q
  PROVE  Joins(x \o y, x, p, y, q)
<1>1. /\ x \o y \in Seq(Bytes) /\ Len(x \o y) = Len(x) + Len(y)
      /\ \A k \in 1 .. Len(x) + Len(y) :
           (x \o y)[k] = IF k <= Len(x) THEN x[k] ELSE y[k - Len(x)]
  BY ConcatProperties
<1>2. \A k \in 1 .. p : k \in 1 .. p + q /\ k <= p
  OBVIOUS
<1>3. \A k \in 1 .. q : p + k \in 1 .. p + q /\ ~(p + k <= p) /\ (p + k) - p = k
  OBVIOUS
<1>4. \A k \in 1 .. p : (x \o y)[k] = x[k]
  BY <1>1, <1>2
<1>5. \A k \in 1 .. q : (x \o y)[p + k] = y[k]
  BY <1>1, <1>3
<1>6. Len(x \o y) = p + q
  BY <1>1
<1> QED BY <1>1, <1>4, <1>5, <1>6 DEF Joins

(* The functions that append promise the old text, so much of the new one  *)
(* as they have room for, and a NUL.                                       *)
Room == CASE fn = "strcat" -> StrLen(src)
          [] fn = "strncat" -> Least(StrLen(src), size)
          [] fn = "strlcat" -> Least(StrLen(orig) + StrLen(src), size - 1) - StrLen(orig)

LEMMA AppendedPromised ==
  ASSUME Arguments, fn \in AppendCalls, fn = "strlcat" => StrLen(orig) < size
  PROVE  /\ Room \in 0 .. StrLen(src)
         /\ Len(Promised) = StrLen(orig) + Room + 1
         /\ Promised[StrLen(orig) + Room + 1] = NUL
         /\ \A k \in 0 .. StrLen(orig) - 1 : Promised[k + 1] = orig[k]
         /\ \A k \in 0 .. Room - 1 : Promised[StrLen(orig) + k + 1] = src[k]
<1> DEFINE old == Text(orig)
           new == Text(src)
           lo  == StrLen(orig)
<1>1. Room \in 0 .. StrLen(src)
  BY Texts DEF Room, Least, AppendCalls
<1>2. PICK t \in Seq(Bytes) :
        /\ Len(t) = lo + Room /\ Promised = Append(t, NUL)
        /\ \A k \in 1 .. lo : t[k] = old[k]
        /\ \A k \in 1 .. Room : t[lo + k] = new[k]
  <2>1. /\ old \o new \in Seq(Bytes) /\ Len(old \o new) = lo + StrLen(src)
        /\ \A k \in 1 .. lo : (old \o new)[k] = old[k]
        /\ \A k \in 1 .. StrLen(src) : (old \o new)[lo + k] = new[k]
    <3>1. /\ old \in Seq(Bytes) /\ Len(old) = lo /\ lo \in Nat
          /\ new \in Seq(Bytes) /\ Len(new) = StrLen(src) /\ StrLen(src) \in Nat
      BY Texts
    <3> HIDE DEF old, new, lo
    <3>2. Joins(old \o new, old, lo, new, StrLen(src))
      BY <3>1, JoinedText
    <3> QED BY <3>2 DEF Joins
  <2>2. CASE fn = "strcat"
    <3>1. Promised = Append(old \o new, NUL) /\ Room = StrLen(src)
      BY <2>2 DEF Promised, Arguments, Room
    <3> QED BY <2>1, <3>1
  <2>3. CASE fn = "strncat"
    <3> DEFINE cut == First(new, size)
    <3>1. Promised = Append(old \o cut, NUL) /\ Room = Least(StrLen(src), size)
      BY <2>3 DEF Promised, Arguments, Room
    <3>2. /\ cut \in Seq(Bytes) /\ Len(cut) = Room
          /\ \A k \in 1 .. Room : cut[k] = new[k]
      <4>1. new \in Seq(Bytes) /\ Len(new) = StrLen(src) /\ size \in Nat
        BY Texts
      <4> HIDE DEF new
      <4>2. /\ cut \in Seq(Bytes) /\ Len(cut) = Least(Len(new), size)
            /\ \A k \in 1 .. Least(Len(new), size) : cut[k] = new[k]
        BY <4>1, FirstBytes
      <4> QED BY <3>1, <4>1, <4>2
    <3>3. lo \in Nat /\ old \in Seq(Bytes) /\ Len(old) = lo
      BY Texts
    <3>4. Room \in Nat /\ cut \in Seq(Bytes) /\ Len(cut) = Room
      BY <1>1, <3>2
    <3> HIDE DEF cut, old, new, lo
    <3>5. Joins(old \o cut, old, lo, cut, Room)
      BY <3>3, <3>4, JoinedText
    <3> QED BY <3>1, <3>2, <3>5 DEF Joins
  <2>4. CASE fn = "strlcat"
    <3> DEFINE all == old \o new
    <3>1. Promised = Append(First(all, size - 1), NUL)
      BY <2>4, Texts DEF Promised, Arguments
    <3>2. Least(Len(all), size - 1) = lo + Room /\ size - 1 \in Nat /\ lo \in Nat
      <4>1. Room = Least(lo + StrLen(src), size - 1) - lo
        BY <2>4 DEF Room
      <4> QED BY SMTT(30), <2>1, <2>4, <4>1, Texts DEF Least
    <3>3. /\ First(all, size - 1) \in Seq(Bytes) /\ Len(First(all, size - 1)) = lo + Room
          /\ \A k \in 1 .. lo + Room : First(all, size - 1)[k] = all[k]
      <4> HIDE DEF all
      <4>1. all \in Seq(Bytes)
        BY <2>1 DEF all
      <4> QED BY <3>2, <4>1, FirstBytes
    <3>4. /\ \A k \in 1 .. lo : k \in 1 .. lo + Room
          /\ \A k \in 1 .. Room : lo + k \in 1 .. lo + Room /\ k \in 1 .. StrLen(src)
      <4> HIDE DEF lo
      <4> QED BY SMTT(30), <1>1, <3>2, Texts
    <3>5. /\ \A k \in 1 .. lo : First(all, size - 1)[k] = old[k]
          /\ \A k \in 1 .. Room : First(all, size - 1)[lo + k] = new[k]
      BY <2>1, <3>3, <3>4
    <3> HIDE DEF all, lo
    <3> QED BY <3>1, <3>3, <3>5
  <2> QED BY <2>2, <2>3, <2>4 DEF AppendCalls
<1>3. lo \in Nat /\ Len(t) = lo + Room /\ Room \in Nat
  BY <1>1, <1>2, Texts
<1>4. /\ Len(Promised) = lo + Room + 1 /\ Promised[lo + Room + 1] = NUL
      /\ \A k \in 1 .. lo + Room : Promised[k] = t[k]
  BY <1>2, <1>3, EndedText
<1>5. ASSUME NEW k \in 0 .. lo - 1 PROVE Promised[k + 1] = orig[k]
  <2>1. k + 1 \in 1 .. lo /\ k + 1 \in 1 .. lo + Room
    BY <1>3
  <2> QED BY <1>2, <1>4, <2>1, Texts
<1>6. ASSUME NEW k \in 0 .. Room - 1 PROVE Promised[lo + k + 1] = src[k]
  <2>1. /\ k + 1 \in 1 .. Room /\ lo + (k + 1) = lo + k + 1
        /\ lo + k + 1 \in 1 .. lo + Room /\ k \in 0 .. StrLen(src) - 1
    <3>1. StrLen(src) \in Nat
      BY Texts
    <3> HIDE DEF lo
    <3> QED BY <1>1, <1>3, <3>1
  <2> QED BY SMTT(30), <1>2, <1>4, <2>1, Texts
<1> QED BY <1>1, <1>4, <1>5, <1>6

(* The functions that copy a count of bytes, memccpy up to its stop byte.  *)
LEMMA CountedPromised ==
  ASSUME Arguments, fn = "mempcpy"
  PROVE  /\ Len(Promised) = size
         /\ \A k \in 0 .. size - 1 : k \in 0 .. StrLen(src) /\ Promised[k + 1] = src[k]
<1> DEFINE e == Append(Text(src), NUL)
<1>1. Promised = SubSeq(e, 1, size)
  BY DEF Promised, Arguments
<1>2. size \in Nat /\ size <= StrLen(src) + 1 /\ StrLen(src) \in Nat
  BY Texts DEF Arguments
<1>3. e \in Seq(Bytes) /\ \A k \in 0 .. StrLen(src) : e[k + 1] = src[k]
  BY EndedSource
<1>4. \A k \in 1 .. size : e[k] \in Bytes
  BY <1>2, <1>3, EndedSource, ElementOfSeq
<1> HIDE DEF e
<1>5. Len(Promised) = size /\ \A k \in 1 .. size : Promised[k] = e[k]
  BY <1>1, <1>2, <1>4, SubSeqProperties
<1>6. \A k \in 0 .. size - 1 : k \in 0 .. StrLen(src) /\ k + 1 \in 1 .. size
  BY <1>2
<1> QED BY <1>3, <1>5, <1>6

LEMMA StoppedPromised ==
  ASSUME Arguments, fn = "memccpy"
  PROVE  /\ size \in 0 .. StrLen(src) + 1
         /\ (\A k \in 0 .. size - 1 : src[k] # Upper) => Len(Promised) = size
         /\ \A m \in 0 .. size - 1 :
              src[m] = Upper /\ (\A k \in 0 .. m - 1 : src[k] # Upper)
                => Len(Promised) = m + 1
         /\ Len(Promised) \in 0 .. size
         /\ \A k \in 0 .. Len(Promised) - 1 : Promised[k + 1] = src[k]
<1> DEFINE new == Text(src)
           e == Append(new, NUL)
           stop == {k \in 1 .. size : k <= Len(new) /\ new[k] = Upper}
           upto == IF stop = {} THEN size ELSE Min(stop)
<1>1. Promised = SubSeq(e, 1, upto)
  BY DEF Promised, Arguments
<1>2. size \in Nat /\ size <= StrLen(src) + 1 /\ StrLen(src) \in Nat
  BY Texts DEF Arguments
<1>3. e \in Seq(Bytes) /\ Len(e) = StrLen(src) + 1 /\ \A k \in 0 .. StrLen(src) : e[k + 1] = src[k]
  BY EndedSource
<1>4. \A k \in 0 .. size - 1 : k + 1 \in stop <=> src[k] = Upper
  <2> SUFFICES ASSUME NEW k \in 0 .. size - 1 PROVE k + 1 \in stop <=> src[k] = Upper
    OBVIOUS
  <2>1. CASE k = StrLen(src)
    <3>1. src[k] # Upper
      BY <2>1, SourceString, LettersAssumption
    <3>2. k + 1 \notin stop
      BY <1>2, <2>1, Texts
    <3> QED BY <3>1, <3>2
  <2>2. CASE k # StrLen(src)
    <3>1. k \in 0 .. StrLen(src) - 1 /\ k + 1 \in 1 .. size /\ k + 1 <= StrLen(src)
      BY <1>2, <2>2
    <3> QED BY <3>1, Texts
  <2> QED BY <2>1, <2>2
<1>5. stop \in SUBSET Nat /\ stop \subseteq 1 .. size
  BY <1>2
<1> HIDE DEF stop, e, new
<1>6. upto \in 0 .. size /\ \A k \in 0 .. upto - 2 : src[k] # Upper
  <2>1. CASE stop = {}
    <3>1. \A k \in 0 .. size - 1 : src[k] # Upper
      BY <1>4, <2>1
    <3> QED BY <1>2, <2>1, <3>1
  <2>2. CASE stop # {}
    <3>1. upto \in stop /\ \A k \in stop : upto <= k
      BY <1>5, <2>2, MinOfNaturals
    <3>2. upto \in 1 .. size
      BY <1>5, <3>1
    <3>3. ASSUME NEW k \in 0 .. upto - 2 PROVE src[k] # Upper
      <4>1. k \in 0 .. size - 1 /\ ~(upto <= k + 1)
        BY <1>2, <3>2
      <4> QED BY <1>4, <3>1, <4>1
    <3> QED BY <3>2, <3>3
  <2> QED BY <2>1, <2>2
<1>7. (\A k \in 0 .. size - 1 : src[k] # Upper) => upto = size
  <2> SUFFICES ASSUME \A k \in 0 .. size - 1 : src[k] # Upper PROVE stop = {}
    OBVIOUS
  <2>1. \A k \in 1 .. size : k - 1 \in 0 .. size - 1 /\ (k - 1) + 1 = k
    BY <1>2
  <2> QED BY <1>4, <1>5, <2>1
<1>8. ASSUME NEW m \in 0 .. size - 1, src[m] = Upper, \A k \in 0 .. m - 1 : src[k] # Upper
      PROVE  upto = m + 1
  <2>1. m + 1 \in stop
    BY <1>4, <1>8
  <2>2. ASSUME NEW k \in stop PROVE m + 1 <= k
    <3>1. k \in 1 .. size /\ k - 1 \in 0 .. size - 1 /\ (k - 1) + 1 = k
      BY <1>2, <1>5
    <3>2. src[k - 1] = Upper
      BY <1>4, <3>1
    <3>3. k - 1 \notin 0 .. m - 1
      BY <1>8, <3>2
    <3> QED BY <1>2, <3>1, <3>3
  <2>3. Min(stop) = m + 1
    BY <1>5, <2>1, <2>2, MinIs
  <2> QED BY <2>1, <2>3
<1> HIDE DEF upto
<1>9. Len(Promised) = upto /\ \A k \in 1 .. upto : Promised[k] = e[k]
  <2>1. \A k \in 1 .. upto : e[k] \in Bytes
    BY <1>2, <1>3, <1>6, ElementOfSeq
  <2>2. upto \in Int
    BY <1>2, <1>6
  <2>3. /\ Len(SubSeq(e, 1, upto)) = IF 1 <= upto THEN upto - 1 + 1 ELSE 0
        /\ \A k \in 1 .. upto - 1 + 1 : SubSeq(e, 1, upto)[k] = e[1 + k - 1]
    BY <2>1, <2>2, SubSeqProperties
  <2>4. upto - 1 + 1 = upto /\ upto \in Nat /\ \A k \in 1 .. upto : 1 + k - 1 = k
    BY <1>2, <1>6
  <2> QED BY <1>1, <2>3, <2>4
<1>10. ASSUME NEW k \in 0 .. upto - 1 PROVE Promised[k + 1] = src[k]
  <2>1. k + 1 \in 1 .. upto /\ k \in 0 .. StrLen(src)
    BY <1>2, <1>6
  <2> QED BY <1>3, <1>9, <2>1
<1> QED BY <1>2, <1>6, <1>7, <1>8, <1>9, <1>10

(* The functions that change a string in place.                            *)
LEMMA ChangedPromised ==
  ASSUME Arguments, given, fn \in InPlaceCalls
  PROVE  /\ Len(Promised) = StrLen(orig) + 1 /\ Promised[StrLen(orig) + 1] = NUL
         /\ \A k \in 0 .. StrLen(orig) - 1 :
              Promised[k + 1] = CASE fn = "strrev" -> orig[StrLen(orig) - 1 - k]
                                  [] fn = "strupr" -> Upper
                                  [] fn = "strlwr" -> Lower
<1> DEFINE old == Text(orig)
           lo == StrLen(orig)
<1>1. PICK t \in [1 .. lo -> Bytes] :
        /\ Promised = Append(t, NUL)
        /\ \A k \in 1 .. lo : t[k] = CASE fn = "strrev" -> old[lo + 1 - k]
                                       [] fn = "strupr" -> Upper
                                       [] fn = "strlwr" -> Lower
  <2>1. lo \in Nat /\ Len(old) = lo /\ DOMAIN old = 1 .. lo
    BY Texts, LenProperties
  <2>2. CASE fn = "strrev"
    <3> DEFINE t == [k \in 1 .. lo |-> old[lo + 1 - k]]
    <3>1. Promised = Append(t, NUL)
      BY <2>1, <2>2 DEF Promised
    <3>2. t \in [1 .. lo -> Bytes]
      <4>1. \A k \in 1 .. lo : lo + 1 - k \in 1 .. Len(old)
        BY <2>1
      <4>2. \A k \in 1 .. Len(old) : old[k] \in Bytes
        BY Texts, ElementOfSeq
      <4> HIDE DEF old, lo
      <4> QED BY <4>1, <4>2
    <3> QED BY <2>2, <3>1, <3>2
  <2>3. CASE fn = "strupr"
    <3> DEFINE t == [k \in 1 .. lo |-> Upper]
    <3>1. Promised = Append(t, NUL)
      BY <2>1, <2>3 DEF Promised, Arguments
    <3>2. t \in [1 .. lo -> Bytes]
      BY DEF Bytes, Letters
    <3> QED BY <2>3, <3>1, <3>2
  <2>4. CASE fn = "strlwr"
    <3> DEFINE t == [k \in 1 .. lo |-> Lower]
    <3>1. Promised = Append(t, NUL)
      BY <2>1, <2>4 DEF Promised, Arguments
    <3>2. t \in [1 .. lo -> Bytes]
      BY DEF Bytes, Letters
    <3> QED BY <2>4, <3>1, <3>2
  <2> QED BY <2>2, <2>3, <2>4 DEF InPlaceCalls
<1>2. lo \in Nat
  BY Texts
<1>3. t \in Seq(Bytes) /\ Len(t) = lo
  BY <1>1, <1>2, FunctionIsText
<1>4. /\ Len(Promised) = lo + 1 /\ Promised[lo + 1] = NUL
      /\ \A k \in 1 .. lo : Promised[k] = t[k]
  BY <1>1, <1>3, EndedText
<1>5. ASSUME NEW k \in 0 .. lo - 1
      PROVE  Promised[k + 1] = CASE fn = "strrev" -> orig[lo - 1 - k]
                                 [] fn = "strupr" -> Upper
                                 [] fn = "strlwr" -> Lower
  <2>1. /\ k + 1 \in 1 .. lo /\ lo + 1 - (k + 1) = (lo - 1 - k) + 1
        /\ lo - 1 - k \in 0 .. lo - 1
    BY <1>2
  <2>2. Promised[k + 1] = CASE fn = "strrev" -> old[lo + 1 - (k + 1)]
                            [] fn = "strupr" -> Upper
                            [] fn = "strlwr" -> Lower
    BY <1>1, <1>4, <2>1
  <2>3. old[lo + 1 - (k + 1)] = orig[lo - 1 - k]
    BY <2>1, Texts
  <2> QED BY <2>2, <2>3
<1> QED BY <1>4, <1>5

-----------------------------------------------------------------------------
(* What a step may do to a call.                                           *)
LEMMA PromisedLength == ASSUME Arguments PROVE Len(Promised) \in Nat
<1>1. StrLen(src) \in Nat /\ StrLen(orig) \in Nat /\ size \in Nat
  BY Texts
<1>2. CASE ~given
  BY <1>2, NothingPromised
<1>3. CASE given /\ fn \in {"strcpy", "stpcpy", "strdup"}
  BY <1>1, <1>3, NothingPromised, SourcePromised
<1>4. CASE fn = "strncpy"
  BY <1>1, <1>4, PaddedPromised
<1>5. CASE fn \in {"memset", "bzero"}
  BY <1>1, <1>5, FilledPromised
<1>6. CASE fn = "strlcpy"
  <2>1. CASE size = 0
    BY <1>6, <2>1, NothingPromised
  <2>2. CASE size > 0
    BY <1>6, <2>2, BoundedPromised
  <2> QED BY <1>1, <2>1, <2>2
<1>7. CASE fn \in AppendCalls
  <2>1. CASE fn = "strlcat" => StrLen(orig) < size
    BY <1>1, <1>7, <2>1, AppendedPromised
  <2>2. CASE fn = "strlcat" /\ size <= StrLen(orig)
    BY <2>2, NothingPromised
  <2> QED BY <1>1, <2>1, <2>2
<1>8. CASE fn = "mempcpy"
  BY <1>1, <1>8, CountedPromised
<1>9. CASE fn = "memccpy"
  BY <1>1, <1>9, StoppedPromised
<1>10. CASE given /\ fn \in InPlaceCalls
  BY <1>1, <1>10, ChangedPromised
<1> QED
  BY <1>2, <1>3, <1>4, <1>5, <1>6, <1>7, <1>8, <1>9, <1>10
  DEF Arguments, Calls, CopyCalls, AppendCalls, InPlaceCalls

LEMMA SameCall ==
  ASSUME UNCHANGED args
  PROVE  /\ fn' = fn /\ src' = src /\ orig' = orig /\ size' = size /\ given' = given
         /\ memory' = memory /\ Promised' = Promised /\ PromisedResult' = PromisedResult
         /\ Arguments' = Arguments
<1>1. /\ fn' = fn /\ src' = src /\ orig' = orig /\ size' = size /\ given' = given
      /\ memory' = memory
  BY DEF args
<1>2. Promised' = Promised
  BY <1>1 DEF Promised
<1>3. PromisedResult' = PromisedResult
  BY <1>1, <1>2 DEF PromisedResult
<1>4. Arguments' = Arguments
  BY <1>1 DEF Arguments
<1> QED BY <1>1, <1>2, <1>3, <1>4

LEMMA CallFacts ==
  ASSUME BuildInv
  PROVE  /\ Arguments /\ DOMAIN dst = 0 .. Cap - 1 /\ d \in Nat /\ n \in Nat /\ s \in Int
         /\ StrLen(src) \in Nat /\ StrLen(orig) \in Nat /\ Cap \in Nat
         /\ StrLen(src) + StrLen(orig) < Cap /\ size \in 0 .. Cap /\ Len(Promised) \in Nat
         /\ pc = "loop" => Position /\ Stored
<1>1. Arguments
  BY DEF BuildInv
<1>2. StrLen(src) \in 0 .. MaxLen /\ StrLen(orig) \in 0 .. MaxLen
  BY <1>1, SourceString, OldString
<1>3. StrLen(src) + StrLen(orig) < Cap
  BY <1>2, CapAssumption
<1> QED BY <1>1, <1>2, <1>3, CapAssumption, PromisedLength DEF BuildInv, Arguments

(* A call that goes on.                                                    *)
LEMMA LoopKeeps ==
  ASSUME BuildInv, UNCHANGED args, pc' = "loop",
         DOMAIN dst' = 0 .. Cap - 1, d' \in Nat, n' \in Nat, s' \in Int,
         Position', Stored',
         \A k \in 0 .. Cap - 1 : Written(k)' => k < Len(Promised),
         fn # "strrev" => s' <= StrLen(src) + 1
  PROVE  BuildInv'
<1>1. StaysInside'
  <2>1. ASSUME NEW k \in Len(Promised) .. Cap - 1 PROVE dst'[k] = orig[k]
    <3>1. k \in 0 .. Cap - 1 /\ ~(k < Len(Promised))
      BY SMTT(30), CallFacts
    <3>2. ~Written(k)'
      BY <3>1
    <3> QED BY <3>1, <3>2, SameCall DEF Stored
  <2> QED BY <2>1, SameCall DEF StaysInside
<1>2. ArrayAsPromised' /\ ReturnAsPromised'
  BY DEF ArrayAsPromised, ReturnAsPromised
<1>3. Arguments'
  BY CallFacts, SameCall
<1> QED BY <1>1, <1>2, <1>3 DEF BuildInv

(* A call that returns.                                                    *)
LEMMA DoneKeeps ==
  ASSUME BuildInv, UNCHANGED args, pc' = "done",
         DOMAIN dst' = 0 .. Cap - 1, d' \in Nat, n' \in Nat, s' \in Int,
         \A k \in 0 .. Cap - 1 :
           dst'[k] = IF k < Len(Promised) THEN Promised[k + 1] ELSE orig[k],
         result' = PromisedResult,
         fn # "strrev" => s' <= StrLen(src) + 1
  PROVE  BuildInv'
<1>1. ArrayAsPromised' /\ ReturnAsPromised'
  BY SameCall DEF ArrayAsPromised, ReturnAsPromised
<1>2. StaysInside'
  <2>1. \A k \in Len(Promised) .. Cap - 1 : k \in 0 .. Cap - 1 /\ ~(k < Len(Promised))
    BY SMTT(30), CallFacts
  <2> QED BY <2>1, SameCall DEF StaysInside
<1>3. Arguments'
  BY CallFacts, SameCall
<1> QED BY <1>1, <1>2, <1>3 DEF BuildInv

(* What an iteration of a loop that stores from the front does: store the  *)
(* next byte of the promise, or the last one, or none.                     *)
StoresByte ==
  /\ d < Len(Promised) /\ d < Cap
  /\ dst' = [dst EXCEPT ![d] = Promised[d + 1]]

Counts == n' \in Nat /\ s' \in Int /\ s' <= StrLen(src) + 1

Goes == UNCHANGED <<args, pc>> /\ Counts /\ Position' /\ d' < Len(Promised) + 1

GoesStoring == Goes /\ StoresByte /\ d' = d + 1

GoesPassing == Goes /\ UNCHANGED <<dst, d>>

Ends == UNCHANGED args /\ pc' = "done" /\ Counts /\ d' \in Nat /\ result' = PromisedResult

EndsStoring == Ends /\ StoresByte /\ d + 1 = Len(Promised)

EndsPassing == Ends /\ dst' = dst /\ d = Len(Promised)

LEMMA IterationKeeps ==
  ASSUME BuildInv, pc = "loop", fn # "strrev",
         GoesStoring \/ GoesPassing \/ EndsStoring \/ EndsPassing
  PROVE  BuildInv'
<1>1. /\ DOMAIN dst = 0 .. Cap - 1 /\ d \in Nat /\ Len(Promised) \in Nat /\ Cap \in Nat
      /\ \A k \in 0 .. Cap - 1 : dst[k] = IF k < d THEN Promised[k + 1] ELSE orig[k]
  BY CallFacts DEF Stored, Written
<1>2. ASSUME StoresByte
      PROVE  /\ DOMAIN dst' = 0 .. Cap - 1
             /\ \A k \in 0 .. Cap - 1 :
                  dst'[k] = IF k < d + 1 THEN Promised[k + 1] ELSE orig[k]
  <2>1. d \in 0 .. Cap - 1 /\ dst' = [dst EXCEPT ![d] = Promised[d + 1]]
    BY <1>1, <1>2 DEF StoresByte
  <2>2. DOMAIN dst' = 0 .. Cap - 1
    BY <1>1, <2>1
  <2>3. ASSUME NEW k \in 0 .. Cap - 1
        PROVE  dst'[k] = IF k < d + 1 THEN Promised[k + 1] ELSE orig[k]
    <3>1. CASE k = d
      BY <1>1, <2>1, <3>1
    <3>2. CASE k # d
      <4>1. dst'[k] = dst[k]
        BY <1>1, <2>1, <3>2
      <4>2. k < d + 1 <=> k < d
        BY <1>1, <3>2
      <4> QED BY <1>1, <4>1, <4>2
    <3> QED BY <3>1, <3>2
  <2> QED BY <2>2, <2>3
<1>3. CASE GoesStoring
  <2>1. /\ UNCHANGED args /\ pc' = "loop" /\ Counts /\ Position' /\ d' = d + 1
        /\ d' <= Len(Promised) /\ StoresByte
    BY <1>1, <1>3 DEF GoesStoring, Goes
  <2>2. \A k \in 0 .. Cap - 1 : Written(k)' <=> k < d + 1
    BY <2>1, SameCall DEF Written
  <2>3. Stored'
    BY <1>2, <2>1, <2>2, SameCall DEF Stored
  <2>4. \A k \in 0 .. Cap - 1 : Written(k)' => k < Len(Promised)
    BY <1>1, <2>1, <2>2
  <2> QED BY <1>1, <1>2, <2>1, <2>3, <2>4, LoopKeeps DEF Counts
<1>4. CASE GoesPassing
  <2>1. /\ UNCHANGED args /\ pc' = "loop" /\ Counts /\ Position' /\ d' = d /\ dst' = dst
        /\ d <= Len(Promised)
    BY <1>1, <1>4 DEF GoesPassing, Goes
  <2>2. \A k \in 0 .. Cap - 1 : Written(k)' <=> k < d
    BY <2>1, SameCall DEF Written
  <2>3. Stored'
    BY <1>1, <2>1, <2>2, SameCall DEF Stored
  <2>4. \A k \in 0 .. Cap - 1 : Written(k)' => k < Len(Promised)
    BY <1>1, <2>1, <2>2
  <2> QED BY <1>1, <2>1, <2>3, <2>4, LoopKeeps DEF Counts
<1>5. CASE EndsStoring
  <2>1. /\ UNCHANGED args /\ pc' = "done" /\ Counts /\ d' \in Nat
        /\ result' = PromisedResult /\ StoresByte /\ d + 1 = Len(Promised)
    BY <1>5 DEF EndsStoring, Ends
  <2> QED BY <1>2, <2>1, DoneKeeps DEF Counts
<1>6. CASE EndsPassing
  <2>1. /\ UNCHANGED args /\ pc' = "done" /\ Counts /\ d' \in Nat
        /\ result' = PromisedResult /\ dst' = dst /\ d = Len(Promised)
    BY <1>6 DEF EndsPassing, Ends
  <2> QED BY <1>1, <2>1, DoneKeeps DEF Counts
<1> QED BY <1>3, <1>4, <1>5, <1>6

-----------------------------------------------------------------------------
(* The functions, one by one.                                              *)
LEMMA StoresIt ==
  ASSUME NEW byte, Set(d, byte), Promised[d + 1] = byte, d < Len(Promised), d < Cap
  PROVE  StoresByte
BY DEF Set, StoresByte

LEMMA StrCpyKeeps == BuildInv /\ StrCpy => BuildInv'
<1> SUFFICES ASSUME BuildInv, StrCpy PROVE BuildInv'
  OBVIOUS
<1> DEFINE ls == StrLen(src)
<1>1. pc = "loop" /\ fn = "strcpy" /\ Set(d, src[s]) /\ s' = s + 1
  BY DEF StrCpy, In
<1>2. /\ Arguments /\ given /\ ls \in Nat /\ d \in Nat /\ n \in Nat /\ ls < Cap
      /\ s = d /\ d <= ls
  BY <1>1, CallFacts DEF Position, Arguments
<1>3. Len(Promised) = ls + 1 /\ \A k \in 0 .. ls : Promised[k + 1] = src[k]
  BY <1>1, <1>2, SourcePromised
<1>4. /\ src[ls] = NUL /\ \A k \in 0 .. ls - 1 : src[k] # NUL
  BY <1>2, SourceString
<1> HIDE DEF ls
<1>5. StoresByte
  <2>1. d \in 0 .. ls /\ d < Len(Promised) /\ d < Cap
    BY <1>2, <1>3, CallFacts
  <2>2. Promised[d + 1] = src[s]
    BY <1>2, <1>3, <2>1
  <2> QED BY <1>1, <2>1, <2>2, StoresIt
<1>6. CASE src[s] = NUL
  <2>1. d = ls
    BY <1>2, <1>4, <1>6
  <2>2. /\ UNCHANGED args /\ pc' = "done" /\ result' = 0 /\ d' = d /\ n' = n
    BY <1>6 DEF StrCpy, Done
  <2>3. PromisedResult = 0
    BY <1>1, <1>2 DEF PromisedResult
  <2>4. EndsStoring
    BY <1>1, <1>2, <1>3, <1>5, <2>1, <2>2, <2>3 DEF EndsStoring, Ends, Counts, ls
  <2> QED BY <1>1, <2>4, IterationKeeps
<1>7. CASE src[s] # NUL
  <2>1. d < ls
    BY <1>2, <1>4, <1>7
  <2>2. /\ UNCHANGED <<args, pc>> /\ d' = d + 1 /\ n' = n
    BY <1>7 DEF StrCpy, More
  <2>3. Position'
    BY <1>1, <1>2, <2>1, <2>2, SameCall DEF Position, ls
  <2>4. d' < Len(Promised) + 1
    BY <1>2, <1>3, <2>1, <2>2
  <2>5. Counts
    BY <1>1, <1>2, <2>1, <2>2 DEF Counts, ls
  <2>6. GoesStoring
    BY <1>5, <2>2, <2>3, <2>4, <2>5 DEF GoesStoring, Goes
  <2> QED BY <1>1, <2>6, IterationKeeps
<1> QED BY <1>6, <1>7

LEMMA StrNCpyKeeps == BuildInv /\ StrNCpy => BuildInv'
<1> SUFFICES ASSUME BuildInv, StrNCpy PROVE BuildInv'
  OBVIOUS
<1> DEFINE ls == StrLen(src)
<1>1. pc = "loop" /\ fn = "strncpy"
  BY DEF StrNCpy, In
<1>2. /\ Arguments /\ given /\ ls \in Nat /\ d \in Nat /\ n \in Nat /\ size \in Nat
      /\ size <= Cap /\ Cap \in Nat
      /\ n = size - d /\ s = (IF d < ls THEN d ELSE ls)
  BY <1>1, CallFacts DEF Position, Arguments, Least
<1>3. /\ Len(Promised) = size
      /\ \A k \in 0 .. size - 1 : Promised[k + 1] = IF k < ls THEN src[k] ELSE NUL
  BY <1>1, <1>2, PaddedPromised
<1>4. /\ src[ls] = NUL /\ \A k \in 0 .. ls - 1 : src[k] # NUL
  BY <1>2, SourceString
<1> HIDE DEF ls
<1>5. CASE n = 0
  <2>1. /\ UNCHANGED args /\ pc' = "done" /\ result' = 0 /\ UNCHANGED <<dst, d, s, n>>
    BY <1>5 DEF StrNCpy, Done
  <2>2. PromisedResult = 0
    BY <1>1, <1>2 DEF PromisedResult
  <2>3. EndsPassing
    BY <1>2, <1>3, <1>5, <2>1, <2>2 DEF EndsPassing, Ends, Counts, ls
  <2> QED BY <1>1, <2>3, IterationKeeps
<1>6. CASE n # 0
  <2>1. /\ UNCHANGED <<args, pc>> /\ d' = d + 1 /\ n' = n - 1 /\ Set(d, src[s])
        /\ s' = IF src[s] # NUL THEN s + 1 ELSE s
    BY <1>6 DEF StrNCpy, More
  <2>2. d < size /\ d \in 0 .. size - 1
    BY <1>2, <1>6
  <2>3. src[s] = IF d < ls THEN src[d] ELSE NUL
    BY <1>2, <1>4
  <2>4. StoresByte
    <3>1. Promised[d + 1] = src[s]
      BY <1>3, <2>2, <2>3
    <3>2. d < Len(Promised) /\ d < Cap
      BY <1>2, <1>3, <2>2
    <3> QED BY <2>1, <3>1, <3>2, StoresIt
  <2>5. s' = IF d + 1 < ls THEN d + 1 ELSE ls
    <3>1. CASE d < ls
      <4>1. src[s] # NUL /\ s = d
        BY <1>2, <1>4, <3>1
      <4> QED BY <1>2, <2>1, <3>1, <4>1
    <3>2. CASE ~(d < ls)
      <4>1. src[s] = NUL /\ s = ls
        BY <1>2, <1>4, <3>2
      <4> QED BY <1>2, <2>1, <3>2, <4>1
    <3> QED BY <3>1, <3>2
  <2>6. Position'
    BY <1>1, <1>2, <2>1, <2>5, SameCall DEF Position, Least, ls
  <2>7. n' \in Nat /\ d' < Len(Promised) + 1
    BY <1>2, <1>3, <2>1, <2>2
  <2>8. s' \in Int /\ s' <= ls + 1
    BY <1>2, <2>5
  <2>9. GoesStoring
    BY <2>1, <2>4, <2>6, <2>7, <2>8 DEF GoesStoring, Goes, Counts, ls
  <2> QED BY <1>1, <2>9, IterationKeeps
<1> QED BY <1>5, <1>6

LEMMA MemCCpyKeeps == BuildInv /\ MemCCpy => BuildInv'
<1> SUFFICES ASSUME BuildInv, MemCCpy PROVE BuildInv'
  OBVIOUS
<1> DEFINE ls == StrLen(src)
           e  == Len(Promised)
<1>1. pc = "loop" /\ fn = "memccpy"
  BY DEF MemCCpy, In
<1>2. /\ Arguments /\ given /\ ls \in Nat /\ d \in Nat /\ n \in Nat /\ size \in Nat
      /\ size <= Cap /\ Cap \in Nat
      /\ n = size - d /\ s = d /\ \A k \in 0 .. d - 1 : src[k] # Upper
  BY <1>1, CallFacts DEF Position, Arguments
<1>3. /\ size \in 0 .. ls + 1
      /\ (\A k \in 0 .. size - 1 : src[k] # Upper) => e = size
      /\ \A m \in 0 .. size - 1 :
           src[m] = Upper /\ (\A k \in 0 .. m - 1 : src[k] # Upper) => e = m + 1
      /\ e \in 0 .. size
      /\ \A k \in 0 .. e - 1 : Promised[k + 1] = src[k]
  BY <1>1, <1>2, StoppedPromised
<1>4. PromisedResult = IF Upper \in {src[k] : k \in 0 .. size - 1} THEN e ELSE Nullptr
  BY <1>1, <1>2 DEF PromisedResult
<1> HIDE DEF ls, e
<1>5. CASE n = 0
  <2>1. /\ UNCHANGED args /\ pc' = "done" /\ result' = Nullptr /\ UNCHANGED <<dst, d, s, n>>
    BY <1>5 DEF MemCCpy, Done
  <2>2. d = size /\ \A k \in 0 .. size - 1 : src[k] # Upper
    BY <1>2, <1>5
  <2>3. PromisedResult = Nullptr /\ e = size
    BY <1>3, <1>4, <2>2
  <2>4. EndsPassing
    BY <1>2, <1>3, <2>1, <2>2, <2>3 DEF EndsPassing, Ends, Counts, ls, e
  <2> QED BY <1>1, <2>4, IterationKeeps
<1>6. CASE n # 0
  <2>1. UNCHANGED args /\ d' = d + 1 /\ n' = n - 1 /\ s' = s + 1 /\ Set(d, src[s])
    BY <1>6 DEF MemCCpy, Done, More
  <2>2. d \in 0 .. size - 1
    BY <1>2, <1>6
  <2>3. d < e
    <3>1. CASE \A k \in 0 .. size - 1 : src[k] # Upper
      BY <1>3, <2>2, <3>1
    <3>2. CASE \E k \in 0 .. size - 1 : src[k] = Upper
      <4> DEFINE U == {k \in 0 .. size - 1 : src[k] = Upper}
      <4>1. U \in SUBSET Nat /\ U # {}
        BY <3>2
      <4>2. PICK m \in U : \A k \in U : m <= k
        <5> HIDE DEF U
        <5> QED BY <4>1, MinOfNaturals
      <4>3. m \in 0 .. size - 1 /\ src[m] = Upper
        OBVIOUS
      <4>4. ASSUME NEW k \in 0 .. m - 1 PROVE src[k] # Upper
        BY <1>2, <4>2, <4>3
      <4>5. m \notin 0 .. d - 1
        BY <1>2, <4>3
      <4>6. e = m + 1
        BY <1>3, <4>3, <4>4
      <4> QED BY <1>2, <4>3, <4>5, <4>6
    <3> QED BY <3>1, <3>2
  <2>4. StoresByte
    <3>1. d \in 0 .. e - 1 /\ d < Cap
      BY <1>2, <1>3, <2>2, <2>3
    <3>2. Promised[d + 1] = src[s]
      BY <1>2, <1>3, <3>1
    <3> QED BY <2>1, <2>3, <3>1, <3>2, StoresIt DEF e
  <2>5. CASE src[s] = Upper
    <3>1. pc' = "done" /\ result' = d + 1
      BY <1>6, <2>5 DEF MemCCpy, Done
    <3>2. e = d + 1 /\ PromisedResult = e
      BY <1>2, <1>3, <1>4, <2>2, <2>5
    <3>3. n' \in Nat /\ d' \in Nat /\ s' \in Int /\ s' <= ls + 1
      BY <1>2, <1>3, <1>6, <2>1, <2>2
    <3>4. EndsStoring
      BY <2>1, <2>4, <3>1, <3>2, <3>3 DEF EndsStoring, Ends, Counts, ls, e
    <3> QED BY <1>1, <3>4, IterationKeeps
  <2>6. CASE src[s] # Upper
    <3>1. pc' = pc
      BY <1>6, <2>6 DEF MemCCpy, More
    <3>2. \A k \in 0 .. d : src[k] # Upper
      <4>1. \A k \in 0 .. d : k = d \/ k \in 0 .. d - 1
        BY <1>2
      <4> QED BY <1>2, <2>6, <4>1
    <3>3. n' = size - d' /\ s' = d' /\ \A k \in 0 .. d' - 1 : src[k] # Upper
      BY <1>2, <2>1, <3>2
    <3>4. Position'
      BY <1>1, <2>1, <3>3, SameCall DEF Position
    <3>5. n' \in Nat /\ s' \in Int /\ s' <= ls + 1 /\ d' < e + 1
      BY <1>2, <1>3, <1>6, <2>1, <2>2, <2>3
    <3>6. GoesStoring
      BY <2>1, <2>4, <3>1, <3>4, <3>5 DEF GoesStoring, Goes, Counts, ls, e
    <3> QED BY <1>1, <3>6, IterationKeeps
  <2> QED BY <2>5, <2>6
<1> QED BY <1>5, <1>6

LEMMA FillKeeps == BuildInv /\ (MemSet \/ BZero) => BuildInv'
<1> SUFFICES ASSUME BuildInv, MemSet \/ BZero PROVE BuildInv'
  OBVIOUS
<1> DEFINE byte == IF fn = "memset" THEN Lower ELSE NUL
<1>1. pc = "loop" /\ fn \in {"memset", "bzero"} /\ Fill(byte)
  BY DEF MemSet, BZero, In
<1>2. /\ Arguments /\ given /\ StrLen(src) \in Nat /\ d \in Nat /\ n \in Nat /\ size \in Nat
      /\ size <= Cap /\ Cap \in Nat /\ n = size - d /\ s = 0
  BY SMTT(30), <1>1, CallFacts DEF Position, Arguments
<1>3. Len(Promised) = size /\ \A k \in 0 .. size - 1 : Promised[k + 1] = byte
  BY <1>1, <1>2, FilledPromised
<1> HIDE DEF byte
<1>4. CASE n = 0
  <2>1. /\ UNCHANGED args /\ pc' = "done" /\ result' = 0 /\ UNCHANGED <<dst, d, s, n>>
    BY <1>1, <1>4 DEF Fill, Done
  <2>2. PromisedResult = 0
    BY <1>1, <1>2 DEF PromisedResult
  <2>3. EndsPassing
    BY <1>2, <1>3, <1>4, <2>1, <2>2 DEF EndsPassing, Ends, Counts
  <2> QED BY <1>1, <2>3, IterationKeeps
<1>5. CASE n # 0
  <2>1. /\ UNCHANGED <<args, pc>> /\ d' = d + 1 /\ n' = n - 1 /\ Set(d, byte) /\ s' = s
    BY <1>1, <1>5 DEF Fill, More
  <2>2. d < size /\ d \in 0 .. size - 1
    BY <1>2, <1>5
  <2>3. StoresByte
    <3>1. Promised[d + 1] = byte
      BY <1>3, <2>2
    <3>2. d < Len(Promised) /\ d < Cap
      BY <1>2, <1>3, <2>2
    <3> QED BY <2>1, <3>1, <3>2, StoresIt
  <2>4. Position'
    BY <1>1, <1>2, <2>1, SameCall DEF Position
  <2>5. GoesStoring
    BY <1>2, <1>3, <2>1, <2>2, <2>3, <2>4 DEF GoesStoring, Goes, Counts
  <2> QED BY <1>1, <2>5, IterationKeeps
<1> QED BY <1>4, <1>5

(* The appending functions.                                                *)
LEMMA AppendFacts ==
  ASSUME BuildInv, pc = "loop", fn \in AppendCalls
  PROVE  /\ Arguments /\ given /\ d \in Nat /\ n \in Nat /\ s \in 0 .. StrLen(src)
         /\ StrLen(src) \in Nat /\ StrLen(orig) \in Nat /\ size \in 0 .. Cap /\ Cap \in Nat
         /\ StrLen(src) + StrLen(orig) < Cap /\ Room \in 0 .. StrLen(src)
         /\ Len(Promised) = StrLen(orig) + Room + 1
         /\ Promised[StrLen(orig) + Room + 1] = NUL
         /\ \A k \in 0 .. Room - 1 : Promised[StrLen(orig) + k + 1] = src[k]
         /\ src[s] = NUL <=> s = StrLen(src)
         /\ d \in StrLen(orig) .. StrLen(orig) + s
<1>1. /\ Arguments /\ d \in Nat /\ n \in Nat /\ s \in Int /\ Position
      /\ StrLen(src) \in Nat /\ StrLen(orig) \in Nat /\ size \in 0 .. Cap /\ Cap \in Nat
      /\ StrLen(src) + StrLen(orig) < Cap
  BY CallFacts
<1>2. /\ fn = "strlcat" => StrLen(orig) < size
      /\ s <= StrLen(src) /\ d \in StrLen(orig) .. StrLen(orig) + s /\ s >= 0
  <2>1. CASE fn \in {"strcat", "strncat"}
    BY <1>1, <2>1 DEF Position
  <2>2. CASE fn = "strlcat"
    <3>1. /\ StrLen(orig) < size /\ s \in 0 .. StrLen(src)
          /\ d = Least(StrLen(orig) + s, size - 1) /\ n = size - d
      BY <1>1, <2>2 DEF Position
    <3> QED BY <1>1, <2>2, <3>1 DEF Least
  <2> QED BY <2>1, <2>2 DEF AppendCalls
<1>3. /\ Room \in 0 .. StrLen(src)
      /\ Len(Promised) = StrLen(orig) + Room + 1
      /\ Promised[StrLen(orig) + Room + 1] = NUL
      /\ \A k \in 0 .. Room - 1 : Promised[StrLen(orig) + k + 1] = src[k]
  BY <1>1, <1>2, AppendedPromised
<1>4. src[s] = NUL <=> s = StrLen(src)
  <2>1. s = StrLen(src) \/ s \in 0 .. StrLen(src) - 1
    BY <1>1, <1>2
  <2> QED BY <1>1, <2>1, SourceString
<1>5. given
  BY <1>1 DEF Arguments, AppendCalls
<1> QED BY <1>1, <1>2, <1>3, <1>4, <1>5

LEMMA StrCatKeeps == BuildInv /\ StrCat => BuildInv'
<1> SUFFICES ASSUME BuildInv, StrCat PROVE BuildInv'
  OBVIOUS
<1> DEFINE ls == StrLen(src)
           lo == StrLen(orig)
<1>1. pc = "loop" /\ fn = "strcat" /\ Set(d, src[s]) /\ n' = n
  BY DEF StrCat, In
<1>2. /\ Arguments /\ given /\ d \in Nat /\ n \in Nat /\ s \in 0 .. ls
      /\ ls \in Nat /\ lo \in Nat /\ Cap \in Nat /\ ls + lo < Cap
      /\ Len(Promised) = lo + Room + 1 /\ Promised[lo + Room + 1] = NUL
      /\ \A k \in 0 .. Room - 1 : Promised[lo + k + 1] = src[k]
      /\ src[s] = NUL <=> s = ls
  BY <1>1, AppendFacts DEF AppendCalls
<1>3. d = lo + s /\ Room = ls
  BY <1>1, CallFacts DEF Position, Room
<1> HIDE DEF ls, lo
<1>4. StoresByte
  <2>1. d < Len(Promised) /\ d < Cap
    BY <1>2, <1>3
  <2>2. Promised[d + 1] = src[s]
    <3>1. CASE s = ls
      BY <1>2, <1>3, <3>1
    <3>2. CASE s # ls
      <4>1. s \in 0 .. Room - 1
        BY <1>2, <1>3, <3>2
      <4> QED BY <1>2, <1>3, <4>1
    <3> QED BY <3>1, <3>2
  <2> QED BY <1>1, <2>1, <2>2, StoresIt
<1>5. CASE src[s] = NUL
  <2>1. UNCHANGED args /\ pc' = "done" /\ result' = 0 /\ d' = d /\ s' = s
    BY <1>5 DEF StrCat, Done
  <2>2. PromisedResult = 0
    BY <1>1, <1>2 DEF PromisedResult
  <2>3. EndsStoring
    BY <1>1, <1>2, <1>3, <1>4, <1>5, <2>1, <2>2 DEF EndsStoring, Ends, Counts, ls
  <2> QED BY <1>1, <2>3, IterationKeeps
<1>6. CASE src[s] # NUL
  <2>1. UNCHANGED <<args, pc>> /\ d' = d + 1 /\ s' = s + 1
    BY <1>6 DEF StrCat, More
  <2>2. s' \in 0 .. ls /\ d' = lo + s' /\ d' < Len(Promised) + 1
    BY <1>2, <1>3, <1>6, <2>1
  <2>3. Position'
    BY <1>1, <2>1, <2>2, SameCall DEF Position, ls, lo
  <2>4. GoesStoring
    BY <1>1, <1>2, <1>4, <2>1, <2>2, <2>3 DEF GoesStoring, Goes, Counts, ls
  <2> QED BY <1>1, <2>4, IterationKeeps
<1> QED BY <1>5, <1>6

LEMMA StrNCatKeeps == BuildInv /\ StrNCat => BuildInv'
<1> SUFFICES ASSUME BuildInv, StrNCat PROVE BuildInv'
  OBVIOUS
<1> DEFINE ls == StrLen(src)
           lo == StrLen(orig)
<1>1. pc = "loop" /\ fn = "strncat"
  BY DEF StrNCat, In
<1>2. /\ Arguments /\ given /\ d \in Nat /\ n \in Nat /\ s \in 0 .. ls
      /\ ls \in Nat /\ lo \in Nat /\ Cap \in Nat /\ ls + lo < Cap /\ size \in 0 .. Cap
      /\ Len(Promised) = lo + Room + 1 /\ Promised[lo + Room + 1] = NUL
      /\ \A k \in 0 .. Room - 1 : Promised[lo + k + 1] = src[k]
      /\ src[s] = NUL <=> s = ls
  BY <1>1, AppendFacts DEF AppendCalls
<1>3. d = lo + s /\ n = size - s /\ Room = IF ls < size THEN ls ELSE size
  BY <1>1, CallFacts DEF Position, Room, Least
<1> HIDE DEF ls, lo
<1>4. d < Cap /\ s <= Room
  BY <1>2, <1>3
<1>5. CASE src[s] # NUL /\ n > 0
  <2>1. /\ UNCHANGED <<args, pc>> /\ d' = d + 1 /\ s' = s + 1 /\ n' = n - 1
        /\ Set(d, src[s])
    BY <1>5 DEF StrNCat, More
  <2>2. s \in 0 .. Room - 1 /\ d < Len(Promised)
    BY <1>2, <1>3, <1>5
  <2>3. StoresByte
    BY <1>2, <1>3, <1>4, <2>1, <2>2, StoresIt
  <2>4. s' \in 0 .. ls /\ d' = lo + s' /\ n' = size - s' /\ d' < Len(Promised) + 1
    <3>1. s # ls /\ Room <= ls
      BY <1>2, <1>3, <1>5
    <3> QED BY <1>2, <1>3, <2>1, <2>2, <3>1
  <2>5. Position'
    BY <1>1, <2>1, <2>4, SameCall DEF Position, ls, lo
  <2>6. GoesStoring
    BY <1>2, <1>5, <2>1, <2>3, <2>4, <2>5 DEF GoesStoring, Goes, Counts, ls
  <2> QED BY <1>1, <2>6, IterationKeeps
<1>6. CASE ~(src[s] # NUL /\ n > 0)
  <2>1. /\ UNCHANGED args /\ pc' = "done" /\ result' = 0 /\ UNCHANGED <<d, s, n>>
        /\ Set(d, NUL)
    BY <1>6 DEF StrNCat, Done
  <2>2. s = Room
    BY <1>2, <1>3, <1>6
  <2>3. StoresByte
    BY <1>2, <1>3, <1>4, <2>1, <2>2, StoresIt
  <2>4. PromisedResult = 0
    BY <1>1, <1>2 DEF PromisedResult
  <2>5. d + 1 = Len(Promised)
    BY <1>2, <1>3, <2>2
  <2>6. Counts
    BY <1>2, <2>1 DEF Counts, ls
  <2>7. EndsStoring
    BY <1>2, <2>1, <2>3, <2>4, <2>5, <2>6 DEF EndsStoring, Ends
  <2> QED BY <1>1, <2>7, IterationKeeps
<1> QED BY <1>5, <1>6

LEMMA StrLCatKeeps == BuildInv /\ StrLCat => BuildInv'
<1> SUFFICES ASSUME BuildInv, StrLCat PROVE BuildInv'
  OBVIOUS
<1> DEFINE ls == StrLen(src)
           lo == StrLen(orig)
<1>1. pc = "loop" /\ fn = "strlcat"
  BY DEF StrLCat, In
<1>2. /\ Arguments /\ given /\ d \in Nat /\ n \in Nat /\ s \in 0 .. ls
      /\ ls \in Nat /\ lo \in Nat /\ Cap \in Nat /\ ls + lo < Cap /\ size \in 0 .. Cap
      /\ Room \in 0 .. ls
      /\ Len(Promised) = lo + Room + 1 /\ Promised[lo + Room + 1] = NUL
      /\ \A k \in 0 .. Room - 1 : Promised[lo + k + 1] = src[k]
      /\ src[s] = NUL <=> s = ls
  BY <1>1, AppendFacts DEF AppendCalls
<1>3. /\ lo < size /\ n = size - d
      /\ d = IF lo + s < size - 1 THEN lo + s ELSE size - 1
      /\ lo + Room = IF lo + ls < size - 1 THEN lo + ls ELSE size - 1
  BY SMTT(30), <1>1, <1>2, CallFacts DEF Position, Room, Least
<1> HIDE DEF ls, lo
<1>4. CASE src[s] = NUL
  <2>1. /\ UNCHANGED args /\ pc' = "done" /\ result' = StrLen(orig) + s
        /\ UNCHANGED <<d, s, n>> /\ Set(d, NUL)
    BY <1>4 DEF StrLCat, Done
  <2>2. d = lo + Room
    BY <1>2, <1>3, <1>4
  <2>3. StoresByte
    BY <1>2, <1>3, <2>1, <2>2, StoresIt
  <2>4. PromisedResult = lo + ls
    <3>1. PromisedResult = Least(size, Len(Text(orig))) + Len(Text(src))
      BY <1>1, <1>2 DEF PromisedResult
    <3>2. Len(Text(orig)) = lo /\ Len(Text(src)) = ls
      BY <1>2, Texts DEF lo, ls
    <3> QED BY <1>2, <1>3, <3>1, <3>2 DEF Least
  <2>5. s = ls /\ d + 1 = Len(Promised)
    BY <1>2, <1>4, <2>2
  <2>6. result' = PromisedResult
    BY <2>1, <2>4, <2>5 DEF lo
  <2>7. EndsStoring
    BY <1>2, <2>1, <2>3, <2>5, <2>6 DEF EndsStoring, Ends, Counts, ls
  <2> QED BY <1>1, <2>7, IterationKeeps
<1>5. CASE src[s] # NUL /\ n > 1
  <2>1. /\ UNCHANGED <<args, pc>> /\ d' = d + 1 /\ s' = s + 1 /\ n' = n - 1
        /\ Set(d, src[s])
    BY <1>5 DEF StrLCat, More
  <2>2. s \in 0 .. Room - 1 /\ d = lo + s /\ d < Len(Promised) /\ d < Cap
    <3>1. s < ls /\ d < size - 1 /\ Room \in Nat
      BY <1>2, <1>3, <1>5
    <3>2. d = lo + s
      BY <1>2, <1>3, <3>1
    <3>3. s < Room
      BY <1>2, <1>3, <3>1, <3>2
    <3> QED BY <1>2, <3>1, <3>2, <3>3
  <2>3. StoresByte
    BY <1>2, <2>1, <2>2, StoresIt
  <2>4. /\ s' \in 0 .. ls /\ n' = size - d' /\ d' < Len(Promised) + 1
        /\ d' = IF lo + s' < size - 1 THEN lo + s' ELSE size - 1
    BY <1>2, <1>3, <1>5, <2>1, <2>2
  <2>5. Position'
    BY <1>1, <1>3, <2>1, <2>4, SameCall DEF Position, Least, ls, lo
  <2>6. Counts
    BY <1>2, <1>5, <2>1, <2>4 DEF Counts, ls
  <2>7. GoesStoring
    BY <2>1, <2>3, <2>4, <2>5, <2>6 DEF GoesStoring, Goes
  <2> QED BY <1>1, <2>7, IterationKeeps
<1>6. CASE src[s] # NUL /\ ~(n > 1)
  <2>1. UNCHANGED <<args, pc, dst, d, n>> /\ s' = s + 1
    BY <1>6 DEF StrLCat, More
  <2>2. /\ s' \in 0 .. ls /\ d < Len(Promised) + 1
        /\ d = IF lo + s' < size - 1 THEN lo + s' ELSE size - 1
    <3>5. s < ls
      BY <1>2, <1>6
    <3>6. d >= size - 1
      <4>1. n \in Nat /\ size \in Nat /\ d \in Nat /\ ~(n > 1)
        BY <1>2, <1>6
      <4> QED BY <4>1, <1>3
    <3>1. s < ls /\ d >= size - 1
      BY <3>5, <3>6
    <3>4. /\ size \in Nat /\ d \in Nat /\ n \in Nat /\ lo \in Nat /\ s \in Nat /\ ls \in Nat
          /\ n = size - d /\ s <= ls
      BY <1>2, <1>3
    <3>2. lo + s >= size - 1 /\ d = size - 1
      BY <1>3, <3>1, <3>4
    <3>3. lo + Room = size - 1
      BY <1>3, <3>1, <3>2, <3>4
    <3> QED BY <1>2, <2>1, <3>1, <3>2, <3>3
  <2>3. Position'
    BY <1>1, <1>3, <2>1, <2>2, SameCall DEF Position, Least, ls, lo
  <2>4. GoesPassing
    BY <1>2, <2>1, <2>2, <2>3 DEF GoesPassing, Goes, Counts, ls
  <2> QED BY <1>1, <2>4, IterationKeeps
<1> QED BY <1>4, <1>5, <1>6

(* The end of dest is searched for.                                        *)
LEMMA SeekFacts ==
  ASSUME BuildInv, pc = "seek"
  PROVE  /\ Seeking /\ Arguments /\ given
         /\ DOMAIN dst = 0 .. Cap - 1 /\ d \in Nat /\ n \in Nat /\ s \in Int
         /\ StrLen(src) \in Nat /\ StrLen(orig) \in Nat /\ Cap \in Nat /\ size \in Nat
         /\ StrLen(src) + StrLen(orig) < Cap
         /\ dst = orig /\ s = 0 /\ d <= StrLen(orig)
         /\ dst[d] = NUL <=> d = StrLen(orig)
<1>1. /\ Seeking /\ Arguments /\ DOMAIN dst = 0 .. Cap - 1 /\ d \in Nat /\ n \in Nat /\ s \in Int
      /\ StrLen(src) \in Nat /\ StrLen(orig) \in Nat /\ Cap \in Nat /\ size \in Nat
      /\ StrLen(src) + StrLen(orig) < Cap
  BY CallFacts DEF BuildInv
<1>2. given
  BY <1>1 DEF Seeking, AppendCalls, Arguments
<1>3. dst = orig /\ s = 0 /\ d <= StrLen(orig)
  BY <1>1 DEF Seeking
<1>4. d = StrLen(orig) \/ d \in 0 .. StrLen(orig) - 1
  BY <1>1, <1>3
<1> QED BY <1>1, <1>2, <1>3, <1>4, OldString

LEMMA SeekKeeps == BuildInv /\ Seek => BuildInv'
<1> SUFFICES ASSUME BuildInv, Seek PROVE BuildInv'
  OBVIOUS
<1>1. /\ pc = "seek" /\ dst[d] # NUL /\ (fn = "strlcat" => n > 0) /\ d' = d + 1
      /\ n' = (IF fn = "strlcat" THEN n - 1 ELSE n)
      /\ UNCHANGED <<pc, dst, s, result, args>>
  BY DEF Seek
<1>2. d' <= StrLen(orig) /\ d' \in Nat /\ n' \in Nat
  BY SMTT(30), <1>1, SeekFacts
<1>3. Seeking'
  <2>1. n' = IF fn = "strlcat" THEN size - d' ELSE size
    BY SMTT(30), <1>1, SeekFacts DEF Seeking
  <2> QED BY <1>1, <1>2, <2>1, SeekFacts, SameCall DEF Seeking
<1>4. StaysInside'
  BY <1>1, SameCall DEF BuildInv, StaysInside
<1>5. ArrayAsPromised' /\ ReturnAsPromised'
  BY <1>1 DEF ArrayAsPromised, ReturnAsPromised
<1>6. Arguments' /\ pc' = "seek" /\ DOMAIN dst' = 0 .. Cap - 1 /\ s' \in Int
  BY <1>1, SeekFacts, SameCall
<1> QED BY <1>2, <1>3, <1>4, <1>5, <1>6 DEF BuildInv

LEMMA FoundKeeps == BuildInv /\ Found => BuildInv'
<1> SUFFICES ASSUME BuildInv, Found PROVE BuildInv'
  OBVIOUS
<1> DEFINE ls == StrLen(src)
           lo == StrLen(orig)
<1>1. /\ pc = "seek" /\ dst[d] = NUL /\ (fn = "strlcat" => n > 0) /\ pc' = "loop"
      /\ UNCHANGED <<dst, d, s, n, result, args>>
  BY DEF Found
<1>2. /\ Arguments /\ fn \in AppendCalls /\ dst = orig /\ s = 0 /\ d = lo
      /\ n = (IF fn = "strlcat" THEN size - d ELSE size)
      /\ ls \in Nat /\ lo \in Nat /\ size \in Nat /\ Cap \in Nat
      /\ DOMAIN dst = 0 .. Cap - 1 /\ n \in Nat
  BY <1>1, SeekFacts DEF Seeking
<1>3. fn = "strlcat" => lo < size
  BY <1>1, <1>2
<1>4. /\ Room \in Nat /\ Len(Promised) = lo + Room + 1
      /\ \A k \in 0 .. lo - 1 : Promised[k + 1] = orig[k]
  BY <1>2, <1>3, AppendedPromised
<1> HIDE DEF ls, lo
<1>5. fn \notin {"strcpy", "strncpy", "memccpy", "memset", "bzero", "strrev", "strupr",
                 "strlwr", "stpcpy", "mempcpy", "strlcpy", "strdup"}
  BY <1>2 DEF AppendCalls
<1>6. Position'
  <2>1. lo + s = lo /\ 0 \in 0 .. ls /\ (fn = "strncat" => n = size - s)
    BY <1>2, <1>5
  <2>2. fn = "strlcat" => d = Least(lo + s, size - 1)
    BY <1>2, <1>3, <2>1 DEF Least
  <2> QED BY <1>1, <1>2, <1>3, <1>5, <2>1, <2>2, SameCall DEF Position, ls, lo
<1>7. \A k \in 0 .. Cap - 1 : Written(k)' <=> k < lo
  BY <1>1, <1>2, <1>5, SameCall DEF Written
<1>8. Stored'
  <2>1. ASSUME NEW k \in 0 .. Cap - 1
        PROVE  dst'[k] = IF Written(k)' THEN Promised[k + 1] ELSE orig[k]
    <3>1. k < lo => k \in 0 .. lo - 1
      BY <1>2
    <3> QED BY <1>1, <1>2, <1>4, <1>7, <3>1
  <2> QED BY <1>1, <2>1, SameCall DEF Stored
<1>9. \A k \in 0 .. Cap - 1 : Written(k)' => k < Len(Promised)
  BY <1>2, <1>4, <1>7
<1>10. s' <= StrLen(src) + 1
  BY <1>1, <1>2 DEF ls
<1> QED BY <1>1, <1>2, <1>6, <1>8, <1>9, <1>10, LoopKeeps

LEMMA NotFoundKeeps == BuildInv /\ NotFound => BuildInv'
<1> SUFFICES ASSUME BuildInv, NotFound PROVE BuildInv'
  OBVIOUS
<1>1. /\ pc = "seek" /\ fn = "strlcat" /\ n = 0
      /\ pc' = "done" /\ result' = StrLen(src) + d /\ UNCHANGED <<dst, d, s, n, args>>
  BY DEF NotFound, Done
<1>2. /\ Arguments /\ given /\ dst = orig /\ s = 0 /\ d <= StrLen(orig) /\ n = size - d
      /\ StrLen(src) \in Nat /\ StrLen(orig) \in Nat /\ size \in Nat
      /\ d \in Nat /\ n \in Nat /\ DOMAIN dst = 0 .. Cap - 1
  BY <1>1, SeekFacts DEF Seeking
<1>3. size = d /\ size <= StrLen(orig)
  BY <1>1, <1>2
<1>4. Len(Promised) = 0
  BY <1>1, <1>2, <1>3, NothingPromised
<1>5. PromisedResult = StrLen(src) + d
  <2>1. PromisedResult = Least(size, Len(Text(orig))) + Len(Text(src))
    BY <1>1, <1>2 DEF PromisedResult
  <2>2. Len(Text(orig)) = StrLen(orig) /\ Len(Text(src)) = StrLen(src)
    BY <1>2, Texts
  <2> QED BY <1>2, <1>3, <2>1, <2>2 DEF Least
<1>6. \A k \in 0 .. Cap - 1 :
        dst'[k] = IF k < Len(Promised) THEN Promised[k + 1] ELSE orig[k]
  BY <1>1, <1>2, <1>4
<1> QED BY SMTT(30), <1>1, <1>2, <1>5, <1>6, DoneKeeps

-----------------------------------------------------------------------------
(* The functions that work in place.                                       *)
LEMMA InPlaceFacts ==
  ASSUME BuildInv, pc = "loop", fn \in InPlaceCalls
  PROVE  /\ Arguments /\ Position /\ Stored /\ DOMAIN dst = 0 .. Cap - 1
         /\ d \in Nat /\ n \in Nat /\ d <= StrLen(orig)
         /\ StrLen(src) \in Nat /\ StrLen(orig) \in Nat /\ Cap \in Nat
         /\ StrLen(orig) < Cap
<1>1. /\ Arguments /\ Position /\ Stored /\ DOMAIN dst = 0 .. Cap - 1 /\ d \in Nat /\ n \in Nat
      /\ StrLen(src) \in Nat /\ StrLen(orig) \in Nat /\ Cap \in Nat
      /\ StrLen(src) + StrLen(orig) < Cap
  BY CallFacts
<1>2. d <= StrLen(orig)
  BY <1>1 DEF Position, InPlaceCalls
<1> QED BY <1>1, <1>2

LEMMA ChangeCaseKeeps == BuildInv /\ (StrUpr \/ StrLwr) => BuildInv'
<1> SUFFICES ASSUME BuildInv, StrUpr \/ StrLwr PROVE BuildInv'
  OBVIOUS
<1> DEFINE lo == StrLen(orig)
           from == IF fn = "strupr" THEN Lower ELSE Upper
           to   == IF fn = "strupr" THEN Upper ELSE Lower
<1>1. pc = "loop" /\ fn \in {"strupr", "strlwr"} /\ ChangeCase(from, to)
  BY DEF StrUpr, StrLwr, In
<1>2. /\ Arguments /\ given /\ d \in Nat /\ n \in Nat /\ StrLen(src) \in Nat /\ lo \in Nat
      /\ d <= lo /\ lo < Cap /\ Cap \in Nat /\ s = 0
  BY <1>1, InPlaceFacts DEF InPlaceCalls, Position, Arguments
<1>3. /\ Len(Promised) = lo + 1 /\ Promised[lo + 1] = NUL
      /\ \A k \in 0 .. lo - 1 : Promised[k + 1] = to
  BY <1>1, <1>2, ChangedPromised DEF InPlaceCalls
<1>4. dst[d] = orig[d]
  <2>1. d \in 0 .. Cap - 1 /\ ~Written(d)
    BY <1>1, <1>2 DEF Written
  <2> QED BY <1>1, <2>1, InPlaceFacts DEF Stored, InPlaceCalls
<1>5. d = lo => dst[d] = NUL
  BY <1>2, <1>4, OldString
<1>6. d # lo => d \in 0 .. lo - 1 /\ dst[d] \in {from, to} /\ dst[d] # NUL
  <2>1. d # lo => d \in 0 .. lo - 1
    BY <1>2
  <2> QED BY <1>2, <1>4, <2>1, OldString DEF Letters
<1>7. Set(d, IF dst[d] = from THEN to ELSE dst[d])
  BY <1>1 DEF ChangeCase
<1>8. NUL # from
  BY LettersAssumption
<1> HIDE DEF lo, from, to
<1>9. StoresByte
  <2>1. d < Len(Promised) /\ d < Cap
    BY <1>2, <1>3
  <2>2. Promised[d + 1] = IF dst[d] = from THEN to ELSE dst[d]
    BY <1>3, <1>5, <1>6, <1>8
  <2> QED BY <1>7, <2>1, <2>2, StoresIt
<1>10. CASE dst[d] = NUL
  <2>1. UNCHANGED args /\ pc' = "done" /\ result' = 0 /\ UNCHANGED <<d, s, n>>
    BY <1>1, <1>10 DEF ChangeCase, Done
  <2>2. PromisedResult = 0
    BY <1>1, <1>2 DEF PromisedResult
  <2>3. d + 1 = Len(Promised)
    BY <1>3, <1>6, <1>10
  <2>4. EndsStoring
    BY <1>2, <1>9, <2>1, <2>2, <2>3 DEF EndsStoring, Ends, Counts
  <2> QED BY <1>1, <2>4, IterationKeeps
<1>11. CASE dst[d] # NUL
  <2>1. UNCHANGED <<args, pc>> /\ d' = d + 1 /\ UNCHANGED <<s, n>>
    BY <1>1, <1>11 DEF ChangeCase, More
  <2>2. d' <= lo /\ d' < Len(Promised) + 1
    BY <1>2, <1>3, <1>5, <1>11, <2>1
  <2>3. Position'
    BY <1>1, <1>2, <2>1, <2>2, SameCall DEF Position, lo
  <2>4. GoesStoring
    BY <1>2, <1>9, <2>1, <2>2, <2>3 DEF GoesStoring, Goes, Counts
  <2> QED BY <1>1, <2>4, IterationKeeps
<1> QED BY <1>10, <1>11

(* The bytes between i and j are still to be exchanged; those outside have *)
(* been, and the middle one of an odd number stays where it is.            *)
LEMMA StrRevKeeps == BuildInv /\ StrRev => BuildInv'
<1> SUFFICES ASSUME BuildInv, StrRev PROVE BuildInv'
  OBVIOUS
<1> DEFINE lo == StrLen(orig)
<1>1. pc = "loop" /\ fn = "strrev"
  BY DEF StrRev, In
<1>2. /\ Arguments /\ d \in Nat /\ n \in Nat /\ lo \in Nat /\ Cap \in Nat
      /\ d <= lo /\ lo < Cap /\ s \in Int /\ DOMAIN dst = 0 .. Cap - 1
      /\ lo > 0 => s = lo - 1 - d
  BY <1>1, InPlaceFacts DEF InPlaceCalls, Position, BuildInv
<1>3. \A k \in 0 .. Cap - 1 :
        dst[k] = IF k < d \/ (s < k /\ k < lo) THEN Promised[k + 1] ELSE orig[k]
  BY <1>1, InPlaceFacts DEF InPlaceCalls, Stored, Written
<1>4. ASSUME given
      PROVE  /\ Len(Promised) = lo + 1 /\ Promised[lo + 1] = NUL
             /\ \A k \in 0 .. lo - 1 : Promised[k + 1] = orig[lo - 1 - k]
  BY <1>1, <1>2, <1>4, ChangedPromised DEF InPlaceCalls
<1>5. orig[lo] = NUL
  BY <1>2, OldString
<1>6. CASE given /\ lo > 0 /\ d < s
  <2>1. /\ dst' = [dst EXCEPT ![d] = dst[s], ![s] = dst[d]]
        /\ d' = d + 1 /\ s' = s - 1 /\ UNCHANGED <<n, pc, args>>
    BY <1>6 DEF StrRev, More
  <2> HIDE DEF lo
  <2>2. /\ d \in 0 .. lo - 1 /\ s \in 0 .. lo - 1 /\ d # s
        /\ d \in 0 .. Cap - 1 /\ s \in 0 .. Cap - 1
        /\ lo - 1 - d = s /\ lo - 1 - s = d
    BY <1>2, <1>6
  <2>3. dst[d] = Promised[s + 1] /\ dst[s] = Promised[d + 1]
    <3>1. dst[d] = orig[d] /\ dst[s] = orig[s]
      BY <1>3, <1>6, <2>2
    <3> QED BY <1>4, <1>6, <2>2, <3>1
  <2>4. \A k \in 0 .. Cap - 1 : Written(k)' <=> k < d + 1 \/ (s - 1 < k /\ k < lo)
    BY <1>1, <2>1, SameCall DEF Written, lo
  <2>5. Stored'
    <3>1. ASSUME NEW k \in 0 .. Cap - 1
          PROVE  dst'[k] = IF Written(k)' THEN Promised[k + 1] ELSE orig[k]
      <4>1. CASE k = d
        <5>1. Written(k)'
          BY <2>2, <2>4, <4>1
        <5>2. dst'[k] = dst[s]
          BY <1>2, <2>1, <2>2, <4>1
        <5> QED BY <2>3, <4>1, <5>1, <5>2
      <4>2. CASE k = s
        <5>1. Written(k)'
          BY <1>2, <2>2, <2>4, <4>2
        <5>2. dst'[k] = dst[d]
          BY <1>2, <2>1, <2>2, <4>2
        <5> QED BY <2>3, <4>2, <5>1, <5>2
      <4>3. CASE k # d /\ k # s
        <5>1. dst'[k] = dst[k]
          BY <1>2, <2>1, <2>2, <4>3
        <5>2. Written(k)' <=> k < d \/ (s < k /\ k < lo)
          BY <2>2, <2>4, <4>3
        <5> QED BY <1>3, <5>1, <5>2
      <4> QED BY <4>1, <4>2, <4>3
    <3> QED BY <2>1, <3>1, SameCall DEF Stored
  <2>6. \A k \in 0 .. Cap - 1 : Written(k)' => k < Len(Promised)
    BY <1>2, <1>4, <1>6, <2>2, <2>4
  <2>7. Position'
    <3>1. s' = lo - 1 - d' /\ d' <= lo
      BY SMTT(30), <1>2, <2>1, <2>2
    <3> QED BY <1>1, <2>1, <3>1, SameCall DEF Position, lo
  <2>8. DOMAIN dst' = 0 .. Cap - 1 /\ d' \in Nat /\ n' \in Nat /\ s' \in Int
    BY <1>2, <2>1
  <2> QED BY <1>1, <2>1, <2>5, <2>6, <2>7, <2>8, LoopKeeps
<1>7. CASE ~(given /\ lo > 0 /\ d < s)
  <2>1. /\ pc' = "done" /\ result' = (IF given THEN 0 ELSE Nullptr)
        /\ UNCHANGED <<dst, d, s, n, args>>
    BY <1>7 DEF StrRev, Done
  <2>2. PromisedResult = IF given THEN 0 ELSE Nullptr
    BY <1>1 DEF PromisedResult
  <2>3. ASSUME NEW k \in 0 .. Cap - 1
        PROVE  dst[k] = IF k < Len(Promised) THEN Promised[k + 1] ELSE orig[k]
    <3>1. CASE ~given
      <4>1. Len(Promised) = 0
        BY <1>2, <3>1, NothingPromised
      <4>2. dst[k] = orig[k]
        BY <1>2, <4>1 DEF BuildInv, StaysInside
      <4> QED BY <1>2, <4>1, <4>2
    <3>2. CASE given
      <4> HIDE DEF lo
      <4>1. CASE k < d \/ (s < k /\ k < lo)
        BY SMTT(30), <1>2, <1>3, <1>4, <3>2, <4>1
      <4>2. CASE ~(k < d \/ (s < k /\ k < lo)) /\ k < lo
        <5>1. k = d /\ k = s /\ k \in 0 .. lo - 1 /\ lo - 1 - k = k
          BY <1>2, <1>7, <3>2, <4>2
        <5>2. dst[k] = orig[k]
          BY <1>3, <4>2
        <5> QED BY <1>4, <3>2, <5>1, <5>2
      <4>3. CASE k = lo
        <5>1. dst[k] = orig[k]
          BY <1>2, <1>3, <4>3
        <5> QED BY <1>2, <1>4, <1>5, <3>2, <4>3, <5>1
      <4>4. CASE k > lo
        <5>1. dst[k] = orig[k]
          BY <1>2, <1>3, <4>4
        <5> QED BY <1>2, <1>4, <3>2, <4>4, <5>1
      <4> QED BY <1>2, <4>1, <4>2, <4>3, <4>4
    <3> QED BY <3>1, <3>2
  <2>4. /\ DOMAIN dst' = 0 .. Cap - 1 /\ d' \in Nat /\ n' \in Nat /\ s' \in Int
    BY <1>2, <2>1
  <2> QED BY <1>1, <2>1, <2>2, <2>3, <2>4, DoneKeeps
<1> QED BY <1>6, <1>7

-----------------------------------------------------------------------------
(* The functions that make one copy, of as many bytes as are promised.     *)
LEMMA OneCopyFacts ==
  ASSUME BuildInv, pc = "loop", fn \in {"stpcpy", "mempcpy", "strlcpy", "strdup"}
  PROVE  /\ Arguments /\ d = 0 /\ s = 0 /\ n \in Nat /\ DOMAIN dst = 0 .. Cap - 1
         /\ \A k \in 0 .. Cap - 1 : dst[k] = orig[k]
         /\ StrLen(src) \in Nat /\ size \in Nat /\ size <= Cap /\ Cap \in Nat
         /\ Len(Promised) \in Nat
<1>1. /\ Arguments /\ n \in Nat /\ DOMAIN dst = 0 .. Cap - 1 /\ Position /\ Stored
      /\ StrLen(src) \in Nat /\ size \in 0 .. Cap /\ Cap \in Nat /\ Len(Promised) \in Nat
  BY CallFacts
<1>2. d = 0 /\ s = 0
  BY <1>1 DEF Position
<1>3. \A k \in 0 .. Cap - 1 : ~Written(k)
  BY <1>2 DEF Written
<1> QED BY <1>1, <1>2, <1>3 DEF Stored

LEMMA CopiedKeeps ==
  ASSUME BuildInv, pc = "loop", fn \in {"stpcpy", "mempcpy", "strlcpy", "strdup"},
         NEW count, count = Len(Promised), dst' = Copied(count),
         \A k \in 0 .. count - 1 : Promised[k + 1] = src[k],
         pc' = "done", result' = PromisedResult, UNCHANGED <<d, s, n, args>>
  PROVE  BuildInv'
<1>1. DOMAIN dst' = 0 .. Cap - 1
  BY OneCopyFacts DEF Copied
<1>2. ASSUME NEW k \in 0 .. Cap - 1
      PROVE  dst'[k] = IF k < Len(Promised) THEN Promised[k + 1] ELSE orig[k]
  <2>1. dst'[k] = IF k < count THEN src[k] ELSE orig[k]
    BY OneCopyFacts DEF Copied
  <2>2. k < count => k \in 0 .. count - 1
    BY OneCopyFacts
  <2> QED BY <2>1, <2>2
<1>3. d' \in Nat /\ n' \in Nat /\ s' \in Int /\ s' <= StrLen(src) + 1
  BY OneCopyFacts
<1> QED BY <1>1, <1>2, <1>3, DoneKeeps

LEMMA StpCpyKeeps == BuildInv /\ StpCpy => BuildInv'
<1> SUFFICES ASSUME BuildInv, StpCpy PROVE BuildInv'
  OBVIOUS
<1>1. /\ pc = "loop" /\ fn = "stpcpy" /\ dst' = Copied(StrLen(src) + 1) /\ pc' = "done"
      /\ result' = StrLen(src) /\ UNCHANGED <<d, s, n, args>>
  BY DEF StpCpy, In, Done
<1>2. Arguments /\ given /\ StrLen(src) \in Nat
  BY <1>1, OneCopyFacts DEF Arguments
<1>3. Len(Promised) = StrLen(src) + 1 /\ \A k \in 0 .. StrLen(src) : Promised[k + 1] = src[k]
  BY <1>1, <1>2, SourcePromised
<1>4. PromisedResult = StrLen(src)
  BY <1>1, <1>2, Texts DEF PromisedResult
<1>5. \A k \in 0 .. (StrLen(src) + 1) - 1 : Promised[k + 1] = src[k]
  BY <1>2, <1>3
<1> QED BY <1>1, <1>3, <1>4, <1>5, CopiedKeeps

LEMMA MemPCpyKeeps == BuildInv /\ MemPCpy => BuildInv'
<1> SUFFICES ASSUME BuildInv, MemPCpy PROVE BuildInv'
  OBVIOUS
<1>1. /\ pc = "loop" /\ fn = "mempcpy" /\ dst' = Copied(size) /\ pc' = "done"
      /\ result' = size /\ UNCHANGED <<d, s, n, args>>
  BY DEF MemPCpy, In, Done
<1>2. Arguments /\ given
  BY <1>1, OneCopyFacts DEF Arguments
<1>3. Len(Promised) = size /\ \A k \in 0 .. size - 1 : Promised[k + 1] = src[k]
  BY <1>1, <1>2, CountedPromised
<1>4. PromisedResult = size
  BY <1>1, <1>2 DEF PromisedResult
<1> QED BY <1>1, <1>3, <1>4, CopiedKeeps

LEMMA StrLCpyKeeps == BuildInv /\ StrLCpy => BuildInv'
<1> SUFFICES ASSUME BuildInv, StrLCpy PROVE BuildInv'
  OBVIOUS
<1> DEFINE ls == StrLen(src)
<1>1. /\ pc = "loop" /\ fn = "strlcpy" /\ pc' = "done" /\ result' = ls
      /\ UNCHANGED <<d, s, n, args>>
      /\ dst' = IF ls + 1 < size THEN Copied(ls + 1)
                ELSE IF size > 0 THEN [Copied(size - 1) EXCEPT ![size - 1] = NUL]
                ELSE dst
  BY DEF StrLCpy, In, Done
<1>2. /\ Arguments /\ given /\ ls \in Nat /\ size \in Nat /\ size <= Cap /\ Cap \in Nat
      /\ d = 0 /\ s = 0 /\ n \in Nat /\ DOMAIN dst = 0 .. Cap - 1
      /\ \A k \in 0 .. Cap - 1 : dst[k] = orig[k]
  BY <1>1, OneCopyFacts DEF Arguments
<1>3. PromisedResult = ls
  BY <1>1, <1>2, Texts DEF PromisedResult
<1>4. size > 0 => LET m == Least(ls, size - 1)
                  IN  /\ m \in Nat /\ Len(Promised) = m + 1 /\ Promised[m + 1] = NUL
                      /\ \A k \in 0 .. m - 1 : Promised[k + 1] = src[k]
  BY <1>1, <1>2, BoundedPromised
<1>5. src[ls] = NUL
  BY <1>2, SourceString
<1> HIDE DEF ls
<1>6. CASE ls + 1 < size
  <2>1. Least(ls, size - 1) = ls
    BY <1>2, <1>6 DEF Least
  <2>2. /\ Len(Promised) = ls + 1 /\ Promised[ls + 1] = NUL
        /\ \A k \in 0 .. ls - 1 : Promised[k + 1] = src[k]
    BY SMTT(30), <1>2, <1>4, <1>6, <2>1
  <2>3. \A k \in 0 .. (ls + 1) - 1 : Promised[k + 1] = src[k]
    <3>1. \A k \in 0 .. (ls + 1) - 1 : k = ls \/ k \in 0 .. ls - 1
      BY <1>2
    <3> QED BY <1>5, <2>2, <3>1
  <2> QED BY <1>1, <1>3, <1>6, <2>2, <2>3, CopiedKeeps
<1>7. CASE ~(ls + 1 < size) /\ size > 0
  <2>1. Least(ls, size - 1) = size - 1
    BY <1>2, <1>7 DEF Least
  <2>8. (size - 1) + 1 = size /\ (size - 1) - 1 = size - 2
    BY <1>2
  <2>2. /\ Len(Promised) = size /\ Promised[size] = NUL
        /\ \A k \in 0 .. size - 2 : Promised[k + 1] = src[k]
    BY <1>4, <1>7, <2>1, <2>8
  <2>3. dst' = [Copied(size - 1) EXCEPT ![size - 1] = NUL]
    BY <1>1, <1>7
  <2>4. DOMAIN Copied(size - 1) = 0 .. Cap - 1
    BY <1>2 DEF Copied
  <2>5. \A k \in 0 .. Cap - 1 : Copied(size - 1)[k] = IF k < size - 1 THEN src[k] ELSE orig[k]
    BY <1>2 DEF Copied
  <2>6. ASSUME NEW k \in 0 .. Cap - 1
        PROVE  dst'[k] = IF k < Len(Promised) THEN Promised[k + 1] ELSE orig[k]
    <3>1. CASE k = size - 1
      BY <1>2, <2>2, <2>3, <2>4, <3>1
    <3>2. CASE k # size - 1
      <4>1. dst'[k] = IF k < size - 1 THEN src[k] ELSE orig[k]
        BY <2>3, <2>4, <2>5, <3>2
      <4>2. /\ k < size <=> k < size - 1
            /\ k < size - 1 => k \in 0 .. size - 2
        BY <1>2, <3>2
      <4> QED BY <2>2, <4>1, <4>2
    <3> QED BY <3>1, <3>2
  <2>7. /\ DOMAIN dst' = 0 .. Cap - 1 /\ d' \in Nat /\ n' \in Nat /\ s' \in Int
        /\ s' <= StrLen(src) + 1
    BY <1>1, <1>2, <2>3, <2>4 DEF ls
  <2> QED BY <1>1, <1>3, <2>6, <2>7, DoneKeeps
<1>8. CASE size = 0
  <2>1. Len(Promised) = 0
    BY <1>1, <1>2, <1>8, NothingPromised
  <2>2. dst' = dst
    BY <1>1, <1>2, <1>8
  <2>3. /\ d' \in Nat /\ n' \in Nat /\ s' \in Int /\ s' <= StrLen(src) + 1
    BY <1>1, <1>2 DEF ls
  <2>4. \A k \in 0 .. Cap - 1 :
          dst'[k] = IF k < Len(Promised) THEN Promised[k + 1] ELSE orig[k]
    BY <1>2, <2>1, <2>2
  <2> QED BY <1>1, <1>2, <1>3, <2>2, <2>3, <2>4, DoneKeeps
<1> QED BY <1>2, <1>6, <1>7, <1>8

(* Without memory the call does not go on; nothing has been stored.        *)
LEMMA StrDupKeeps == BuildInv /\ StrDup => BuildInv'
<1> SUFFICES ASSUME BuildInv, StrDup PROVE BuildInv'
  OBVIOUS
<1>1. pc = "loop" /\ fn = "strdup" /\ UNCHANGED <<d, s, n>>
  BY DEF StrDup, In
<1>2. /\ Arguments /\ d = 0 /\ s = 0 /\ n \in Nat /\ DOMAIN dst = 0 .. Cap - 1
      /\ \A k \in 0 .. Cap - 1 : dst[k] = orig[k]
      /\ StrLen(src) \in Nat
  BY <1>1, OneCopyFacts
<1>3. d' \in Nat /\ n' \in Nat /\ s' \in Int /\ s' <= StrLen(src) + 1
  BY <1>1, <1>2
<1>4. CASE ~given
  <2>1. pc' = "done" /\ result' = Nullptr /\ UNCHANGED <<dst, args>>
    BY <1>4 DEF StrDup, Done
  <2>2. PromisedResult = Nullptr
    BY <1>4 DEF PromisedResult
  <2>3. Len(Promised) = 0
    BY <1>2, <1>4, NothingPromised
  <2>4. \A k \in 0 .. Cap - 1 :
          dst'[k] = IF k < Len(Promised) THEN Promised[k + 1] ELSE orig[k]
    BY <1>2, <2>1, <2>3
  <2> QED BY <1>2, <1>3, <2>1, <2>2, <2>4, DoneKeeps
<1>5. CASE given /\ memory
  <2>1. pc' = "done" /\ result' = 0 /\ UNCHANGED args /\ dst' = Copied(StrLen(src) + 1)
    BY <1>5 DEF StrDup, Done
  <2>2. PromisedResult = 0
    BY <1>1, <1>5 DEF PromisedResult
  <2>3. /\ Len(Promised) = StrLen(src) + 1
        /\ \A k \in 0 .. StrLen(src) : Promised[k + 1] = src[k]
    BY <1>1, <1>2, <1>5, SourcePromised
  <2>4. \A k \in 0 .. (StrLen(src) + 1) - 1 : Promised[k + 1] = src[k]
    BY <1>2, <2>3
  <2> QED BY <1>1, <2>1, <2>2, <2>3, <2>4, CopiedKeeps
<1>6. CASE given /\ ~memory
  <2>1. pc' = "undefined" /\ UNCHANGED <<dst, result, args>>
    BY <1>6 DEF StrDup
  <2>2. StaysInside'
    BY <1>1, <2>1, SameCall DEF BuildInv, StaysInside
  <2>3. ArrayAsPromised' /\ ReturnAsPromised'
    BY <2>1 DEF ArrayAsPromised, ReturnAsPromised
  <2>4. Arguments' /\ DOMAIN dst' = 0 .. Cap - 1
    BY <1>2, <2>1, SameCall
  <2> QED BY <1>3, <2>1, <2>2, <2>3, <2>4 DEF BuildInv
<1> QED BY <1>4, <1>5, <1>6

-----------------------------------------------------------------------------
(* The last byte of a string that is not empty is where it should be.      *)
LEMMA LastByteOfString ==
  ASSUME Arguments
  PROVE  LastByte \in Int /\ (StrLen(orig) > 0 => LastByte = StrLen(orig) - 1)
<1> DEFINE k == StrLen(orig) - 1
<1>1. SizeLimit \in Nat /\ SizeLimit > 0 /\ Cap < SizeLimit /\ Cap \in Nat
  BY SizeAssumption, CapAssumption
<1>2. k \in Int /\ k < Cap
  BY OldString, CapAssumption
<1>3. LastByte = k % SizeLimit
  BY DEF LastByte
<1> HIDE DEF k
<1>4. k % SizeLimit \in Int /\ (k >= 0 => k % SizeLimit = k)
  <2>1. k % SizeLimit \in Int
    BY <1>1, <1>2
  <2>2. ASSUME k >= 0 PROVE k % SizeLimit = k
    <3> DEFINE q == k \div SizeLimit
               r == k % SizeLimit
    <3>1. k = SizeLimit * q + r /\ q \in Int /\ r \in 0 .. SizeLimit - 1
      BY <1>1, <1>2
    <3> HIDE DEF q, r
    <3>2. q >= 1 => SizeLimit * q >= SizeLimit
      BY <1>1, <3>1
    <3>3. q <= -1 => SizeLimit * q <= -SizeLimit
      BY <1>1, <3>1
    <3>4. q = 0
      BY <1>1, <1>2, <2>2, <3>1, <3>2, <3>3
    <3>5. SizeLimit * 0 = 0
      BY <1>1
    <3> QED BY <1>1, <1>2, <3>1, <3>4, <3>5 DEF r
  <2> QED BY <2>1, <2>2
<1> QED BY <1>2, <1>3, <1>4, OldString DEF k

(* Every call, from its first step to its last.                            *)
LEMMA CallBegins == Init => BuildInv
<1> SUFFICES ASSUME Init PROVE BuildInv
  OBVIOUS
<1>1. /\ Arguments /\ dst = orig /\ d = 0 /\ n = size
      /\ s = (IF fn = "strrev" THEN LastByte ELSE 0)
      /\ pc = (IF fn \in AppendCalls THEN "seek" ELSE "loop")
  BY DEF Init
<1>2. /\ StrLen(src) \in Nat /\ StrLen(orig) \in Nat /\ size \in Nat /\ Cap \in Nat
      /\ DOMAIN orig = 0 .. Cap - 1 /\ Len(Promised) \in Nat
  BY <1>1, Texts, OldString, PromisedLength, CapAssumption
<1>3. LastByte \in Int /\ (StrLen(orig) > 0 => LastByte = StrLen(orig) - 1)
  BY <1>1, <1>2, LastByteOfString
<1>4. pc \in {"loop", "seek"} /\ s \in Int /\ n \in Nat /\ d \in Nat
  BY <1>1, <1>2, <1>3
<1>5. pc = "seek" => Seeking
  BY <1>1, <1>2 DEF Seeking, AppendCalls
<1>6. ASSUME pc = "loop" PROVE Position /\ Stored
  <2>1. fn \notin AppendCalls
    BY <1>1, <1>6
  <2>2. 0 = Least(0, StrLen(src)) /\ size = size - 0
    BY <1>2 DEF Least
  <2>3. fn # "strrev" => s = 0
    BY <1>1
  <2>4. fn = "strrev" => (StrLen(orig) > 0 => s = StrLen(orig) - 1 - 0)
    BY <1>1, <1>2, <1>3
  <2>5. Position
    BY <1>1, <1>2, <2>1, <2>2, <2>3, <2>4 DEF Position, AppendCalls
  <2>6. \A k \in 0 .. Cap - 1 : ~Written(k)
    BY <1>1, <1>2, <1>3, <2>4 DEF Written
  <2>7. Stored
    BY <1>1, <2>6 DEF Stored
  <2> QED BY <2>5, <2>7
<1>7. StaysInside
  BY <1>1, <1>2 DEF StaysInside
<1>8. ArrayAsPromised /\ ReturnAsPromised
  BY <1>4 DEF ArrayAsPromised, ReturnAsPromised
<1> QED BY <1>1, <1>2, <1>4, <1>5, <1>6, <1>7, <1>8 DEF BuildInv

LEMMA StepKeeps == BuildInv /\ [Next]_vars => BuildInv'
<1> SUFFICES ASSUME BuildInv, [Next]_vars PROVE BuildInv'
  OBVIOUS
<1>1. CASE StrCpy \/ StrNCpy \/ MemCCpy \/ MemSet \/ BZero
  BY <1>1, StrCpyKeeps, StrNCpyKeeps, MemCCpyKeeps, FillKeeps
<1>2. CASE StpCpy \/ MemPCpy \/ StrLCpy \/ StrDup
  BY <1>2, StpCpyKeeps, MemPCpyKeeps, StrLCpyKeeps, StrDupKeeps
<1>3. CASE Seek \/ Found \/ NotFound \/ StrCat \/ StrNCat \/ StrLCat
  BY <1>3, SeekKeeps, FoundKeeps, NotFoundKeeps, StrCatKeeps, StrNCatKeeps, StrLCatKeeps
<1>4. CASE StrRev \/ StrUpr \/ StrLwr
  BY <1>4, StrRevKeeps, ChangeCaseKeeps
<1>5. CASE UNCHANGED vars
  <2>1. UNCHANGED <<pc, dst, d, s, n, result, args>>
    BY <1>5 DEF vars
  <2>2. (Position' <=> Position) /\ (Seeking' <=> Seeking)
    BY <2>1, SameCall DEF Position, Seeking
  <2>3. Stored' <=> Stored
    BY <2>1, SameCall DEF Stored, Written
  <2>4. (StaysInside' <=> StaysInside) /\ (ArrayAsPromised' <=> ArrayAsPromised)
        /\ (ReturnAsPromised' <=> ReturnAsPromised)
    BY <2>1, SameCall DEF StaysInside, ArrayAsPromised, ReturnAsPromised
  <2> QED BY <2>1, <2>2, <2>3, <2>4, SameCall DEF BuildInv
<1> QED BY <1>1, <1>2, <1>3, <1>4, <1>5 DEF Next

(* The loop invariant of all the functions of cstring.cpp and              *)
(* posix_strings.cpp that build a string: pointers and count move          *)
(* together, and what lies behind the pointer is what was promised.        *)
THEOREM CallInvariant == Spec => []BuildInv
BY CallBegins, StepKeeps, PTL DEF Spec

(* The buffer discipline of those functions: whatever the size of the      *)
(* array, the strings in it and the count passed, at no step is a byte     *)
(* changed that the function does not promise to store, and the source is  *)
(* not read behind its terminator.                                         *)
THEOREM CopiesStayInside == Spec => []StaysInside
<1>1. BuildInv => StaysInside
  BY DEF BuildInv
<1> QED BY <1>1, CallInvariant, PTL

(* Functional correctness: when strcpy, strncpy, strcat, strncat, stpcpy,  *)
(* mempcpy, memset, memccpy, strrev, strupr, strlwr, strdup, bzero,        *)
(* strlcpy or strlcat returns, the array holds the text it is for and,     *)
(* behind it, what it held before.                                         *)
THEOREM CopiesKeepPromise == Spec => []ArrayAsPromised
<1>1. BuildInv => ArrayAsPromised
  BY DEF BuildInv
<1> QED BY <1>1, CallInvariant, PTL

(* The value those functions return is the one they promise: for strlcpy   *)
(* and strlcat the length of what they tried to create, for memccpy the    *)
(* place behind the stop byte, or a null pointer when it was not met.      *)
THEOREM CopiesReturnPromise == Spec => []ReturnAsPromised
<1>1. BuildInv => ReturnAsPromised
  BY DEF BuildInv
<1> QED BY <1>1, CallInvariant, PTL
=============================================================================
