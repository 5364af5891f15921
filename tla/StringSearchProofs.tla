------------------------- MODULE StringSearchProofs -------------------------
(***************************************************************************)
(* Proofs about the searching and comparing functions, for arrays of any   *)
(* length with any bytes in them.                                          *)
(***************************************************************************)
EXTENDS StringSearch, WellFoundedInduction, TLAPS

(* A set of naturals that is not empty has a least element, since the      *)
(* order of the naturals is well-founded.                                  *)
LEMMA MinOfNaturals ==
  ASSUME NEW S \in SUBSET Nat, S # {}
  PROVE  Min(S) \in S /\ \A x \in S : Min(S) <= x
<1> DEFINE R == OpToRel(<, Nat)
<1>1. R = {ss \in Nat \X Nat : ss[1] < ss[2]}
  BY DEF OpToRel
<1>2. PICK least \in S : \A m \in S : ~ (<<m, least>> \in R)
  <2>1. IsWellFoundedOn(R, Nat)
    BY NatLessThanWellFounded
  <2> HIDE DEF R
  <2> QED BY <2>1, WFMin
<1>3. ASSUME NEW m \in S, m < least PROVE <<m, least>> \in R
  <2> DEFINE pair == <<m, least>>
  <2>1. pair \in Nat \X Nat /\ pair[1] = m /\ pair[2] = least
    OBVIOUS
  <2> HIDE DEF pair, R
  <2>2. pair \in R
    BY <1>1, <1>3, <2>1
  <2> QED BY <2>2 DEF pair
<1> HIDE DEF R
<1>4. ASSUME NEW m \in S PROVE ~ (m < least)
  BY <1>2, <1>3
<1>5. \A m \in S : least <= m
  BY <1>4
<1> QED BY <1>5 DEF Min

(* What Min of a set is, once a candidate is at hand.                      *)
LEMMA MinIs ==
  ASSUME NEW S \in SUBSET Int, NEW m \in S, \A x \in S : m <= x
  PROVE  Min(S) = m
<1>1. \A x \in S : (\A y \in S : x <= y) => x = m
  <2> SUFFICES ASSUME NEW x \in S, \A y \in S : x <= y PROVE x = m
    OBVIOUS
  <2>1. x \in Int /\ m \in Int /\ x <= m /\ m <= x
    OBVIOUS
  <2> QED BY <2>1
<1> QED BY <1>1 DEF Min

(* What Max of a set is, once a candidate is at hand.                      *)
LEMMA MaxIs ==
  ASSUME NEW S \in SUBSET Int, NEW m \in S, \A x \in S : x <= m
  PROVE  Max(S) = m
<1>1. \A x \in S : (\A y \in S : x >= y) => x = m
  <2> SUFFICES ASSUME NEW x \in S, \A y \in S : x >= y PROVE x = m
    OBVIOUS
  <2>1. x \in Int /\ m \in Int /\ x <= m /\ m <= x
    OBVIOUS
  <2> QED BY <2>1
<1> QED BY <1>1 DEF Max

(* An array has no gaps, and holds chars.                                  *)
LEMMA ArrayByte ==
  ASSUME NEW array, IsArray(array), NEW k \in DOMAIN array
  PROVE  k \in Nat /\ 0 .. k \subseteq DOMAIN array /\ array[k] \in Int
<1>1. k \in Nat /\ 0 .. k \subseteq DOMAIN array /\ array[k] \in Chars
  BY DEF IsArray
<1> QED BY <1>1 DEF Chars

(* A string ends at its first NUL.                                         *)
LEMMA LengthOfString ==
  ASSUME NEW array, IsArray(array), NULs(array) # {}
  PROVE  /\ Length(array) \in Nat /\ Length(array) \in DOMAIN array
         /\ array[Length(array)] = 0
         /\ 0 .. Length(array) \subseteq DOMAIN array
         /\ \A k \in 0 .. Length(array) - 1 : array[k] # 0
<1> DEFINE S == NULs(array)
<1>1. S \in SUBSET Nat
  BY DEF IsArray, NULs
<1>2. Min(S) \in S /\ \A k \in S : Min(S) <= k
  BY <1>1, MinOfNaturals
<1>3. Length(array) = Min(S)
  BY DEF Length
<1> HIDE DEF S
<1>4. /\ Length(array) \in S /\ Length(array) \in Nat
      /\ \A k \in S : Length(array) <= k
  BY <1>1, <1>2, <1>3
<1>5. 0 .. Length(array) \subseteq DOMAIN array /\ array[Length(array)] = 0
  BY <1>4 DEF S, NULs, IsArray
<1>6. \A k \in 0 .. Length(array) - 1 : array[k] # 0
  <2> SUFFICES ASSUME NEW k \in 0 .. Length(array) - 1, array[k] = 0 PROVE FALSE
    OBVIOUS
  <2>1. k \in S
    BY <1>4, <1>5 DEF S, NULs
  <2> QED BY <1>4, <2>1
<1> QED BY <1>4, <1>5, <1>6

(* A loop that has passed no NUL is still inside its string.               *)
LEMMA BeforeTheEnd ==
  ASSUME NEW array, IsArray(array), NULs(array) # {}, NEW k \in Nat,
         \A j \in 0 .. k - 1 : array[j] # 0
  PROVE  k <= Length(array) /\ k \in DOMAIN array
<1>1. /\ Length(array) \in Nat /\ array[Length(array)] = 0
      /\ 0 .. Length(array) \subseteq DOMAIN array
  BY LengthOfString
<1>2. k <= Length(array)
  BY <1>1
<1> QED BY <1>1, <1>2

LEMMA LengthIs ==
  ASSUME NEW array, IsArray(array), NEW k \in DOMAIN array, array[k] = 0,
         \A j \in 0 .. k - 1 : array[j] # 0
  PROVE  Length(array) = k
<1>1. NULs(array) # {} /\ k \in Nat
  BY DEF NULs, IsArray
<1>2. k <= Length(array)
  BY <1>1, BeforeTheEnd
<1>3. Length(array) \in Nat /\ \A j \in 0 .. Length(array) - 1 : array[j] # 0
  BY <1>1, LengthOfString
<1> QED BY <1>1, <1>2, <1>3

(* The first and the last offset of a kind.                                *)
LEMMA FirstIs ==
  ASSUME NEW S \in SUBSET Nat, NEW m \in S, \A k \in 0 .. m - 1 : k \notin S
  PROVE  FirstOf(S) = m
<1>1. \A x \in S : m <= x
  OBVIOUS
<1>2. S \in SUBSET Int
  OBVIOUS
<1>3. Min(S) = m
  BY <1>1, <1>2, MinIs
<1> QED BY <1>3 DEF FirstOf

LEMMA LastIs ==
  ASSUME NEW S \in SUBSET Nat, NEW m \in S, \A k \in S : k <= m
  PROVE  LastOf(S) = m
<1>1. S \in SUBSET Int
  OBVIOUS
<1>2. Max(S) = m
  BY <1>1, MaxIs
<1> QED BY <1>2 DEF LastOf

-----------------------------------------------------------------------------
(* What is known before an iteration.                                      *)
LEMMA Arguments ==
  ASSUME SearchInv
  PROVE  /\ IsArray(call.a) /\ IsArray(call.b) /\ call.n \in Nat /\ call.c \in Int
         /\ Owed(call) /\ i \in Nat /\ \A k \in 0 .. i - 1 : Passed(call, k)
BY CallsAssumption, ArgumentsAssumption DEF SearchInv

(* An iteration of a call that is still running keeps the arguments, reads *)
(* what the caller owns, and either goes on for a reason or returns what   *)
(* is promised.                                                            *)
GoesOn == i' = i + 1 /\ running' = running /\ result' = result /\ Passed(call, i)

Answers ==
  /\ i' = i /\ running' = FALSE
  /\ Judged(call) /\ call.fn \notin {"ctype", "strerror"}
                  /\ (call.fn \in Backward => call.c \in Chars) =>
       Meaning(call.fn, result') = Promised(call)

Iteration ==
  /\ running /\ call' = call
  /\ ReadsInside'
  /\ GoesOn \/ Answers
  /\ call.fn \in Backward /\ running' => last' = LastMatch(call, i + 1)

LEMMA IterationKeeps == SearchInv /\ Iteration => SearchInv'
<1> SUFFICES ASSUME SearchInv, Iteration PROVE SearchInv'
  OBVIOUS
<1>1. call' = call /\ call \in Calls /\ i \in Nat /\ running = TRUE
  BY DEF SearchInv, Iteration
<1>2. CASE GoesOn
  <2>1. i' = i + 1 /\ running' = TRUE /\ result' = result /\ Passed(call, i)
    BY <1>1, <1>2 DEF GoesOn
  <2>2. \A k \in 0 .. i' - 1 : Passed(call', k)
    <3> SUFFICES ASSUME NEW k \in 0 .. i PROVE Passed(call, k)
      BY <1>1, <2>1
    <3>1. k \in 0 .. i - 1 \/ k = i
      BY <1>1
    <3> QED BY <2>1, <3>1 DEF SearchInv
  <2>3. call'.fn \in Backward => last' = LastMatch(call', i')
    BY <1>1, <2>1 DEF Iteration
  <2>4. ReadsInside'
    BY DEF Iteration
  <2>5. ResultAsPromised'
    BY <2>1 DEF ResultAsPromised
  <2> QED BY <1>1, <2>1, <2>2, <2>3, <2>4, <2>5 DEF SearchInv
<1>3. CASE Answers
  <2>1. /\ i' = i /\ running' = FALSE
        /\ Judged(call) /\ call.fn \notin {"ctype", "strerror"}
                        /\ (call.fn \in Backward => call.c \in Chars) =>
             Meaning(call.fn, result') = Promised(call)
    BY <1>3 DEF Answers
  <2>2. \A k \in 0 .. i' - 1 : Passed(call', k)
    BY <1>1, <2>1 DEF SearchInv
  <2>3. ReadsInside'
    BY DEF Iteration
  <2>4. Judged(call') => ResultAsPromised'
    BY <1>1, <2>1 DEF ResultAsPromised
  <2> QED BY <1>1, <2>1, <2>2, <2>3, <2>4 DEF SearchInv
<1> QED BY <1>2, <1>3 DEF Iteration

(* A function that does not compare has answered when its result is the    *)
(* promised one.                                                           *)
LEMMA AnswersExactly ==
  ASSUME i' = i, running' = FALSE, call.fn \notin Comparing, result' = Promised(call)
  PROVE  Answers
BY DEF Answers, Meaning

(* One byte of the first array is read, or one of each.                    *)
LEMMA ReadsOne ==
  ASSUME SearchInv, call' = call, NEW k, k \in DOMAIN call.a, Reads({<<"a", k>>})
  PROVE  ReadsInside'
<1>1. \A cell \in read' : cell \in read \/ (cell[1] = "a" /\ cell[2] = k)
  BY DEF Reads
<1> QED BY <1>1 DEF SearchInv, ReadsInside

LEMMA ReadsNone ==
  ASSUME SearchInv, call' = call, Reads({})
  PROVE  ReadsInside'
BY DEF Reads, SearchInv, ReadsInside

LEMMA ReadsBoth ==
  ASSUME SearchInv, call' = call, NEW k, k \in DOMAIN call.a, k \in DOMAIN call.b,
         Reads({<<"a", k>>, <<"b", k>>})
  PROVE  ReadsInside'
<1>1. \A cell \in read' :
        cell \in read \/ (cell[1] = "a" /\ cell[2] = k) \/ (cell[1] = "b" /\ cell[2] = k)
  BY DEF Reads
<1> QED BY <1>1 DEF SearchInv, ReadsInside

-----------------------------------------------------------------------------
(* The byte loops.                                                         *)
LEMMA MemChrIterates == SearchInv /\ MemChr => Iteration
<1> SUFFICES ASSUME SearchInv, MemChr PROVE Iteration
  OBVIOUS
<1> DEFINE a == call.a
           n == call.n
           S == {k \in DOMAIN a : k < n /\ Needle(call, k)}
<1>1. running /\ call.fn = "memchr" /\ call' = call /\ FindByte(i)
  BY DEF MemChr, In
<1>2. /\ IsArray(a) /\ n \in Nat /\ call.c \in Int /\ i \in Nat
      /\ \A k \in 0 .. i - 1 : k < n /\ k \in DOMAIN a /\ ~Needle(call, k)
  BY <1>1, Arguments DEF Passed, Counted
<1>3. Promised(call) = FirstOf(S)
  BY <1>1 DEF Promised, Ffs
<1>4. call.fn \notin Backward /\ call.fn \notin Comparing
  BY <1>1 DEF Backward, Comparing
<1>5. S \in SUBSET Nat
  BY <1>2 DEF IsArray
<1>6. CASE i = n
  <2>1. i' = i /\ running' = FALSE /\ result' = Nullptr /\ Reads({})
    BY <1>1, <1>6 DEF FindByte, Return
  <2>2. S = {}
    <3> SUFFICES ASSUME NEW k \in DOMAIN a, k < n, Needle(call, k) PROVE FALSE
      OBVIOUS
    <3>1. k \in 0 .. i - 1
      BY <1>2, <1>6 DEF IsArray
    <3> QED BY <1>2, <3>1
  <2>3. Promised(call) = Nullptr
    BY <1>3, <2>2 DEF FirstOf
  <2> QED BY <1>1, <1>4, <2>1, <2>3, ReadsNone, AnswersExactly DEF Iteration
<1>7. CASE i # n
  <2>1. i < n
    <3>1. i = 0 \/ i - 1 \in 0 .. i - 1
      BY <1>2
    <3> QED BY <1>2, <1>7, <3>1
  <2>2. i \in DOMAIN a
    <3>1. 0 .. n - 1 \subseteq DOMAIN a \/ \E k \in DOMAIN a : Unsigned(a[k]) = call.c % 256
      BY <1>1, Arguments DEF Owed, Searching, Spanning, Ffs
    <3>2. CASE 0 .. n - 1 \subseteq DOMAIN a
      BY <1>2, <2>1, <3>2
    <3>3. ASSUME NEW k \in DOMAIN a, Unsigned(a[k]) = call.c % 256
          PROVE  i \in DOMAIN a
      <4>1. k \in Nat /\ 0 .. k \subseteq DOMAIN a /\ a[k] \in Int
        BY <1>2, ArrayByte
      <4>2. Needle(call, k)
        BY <1>2, <3>3, <4>1 DEF Needle, Unsigned
      <4>3. k \notin 0 .. i - 1
        BY <1>2, <4>2
      <4> QED BY <1>2, <4>1, <4>3
    <3> QED BY <3>1, <3>2, <3>3
  <2>3. A(i) = a[i] /\ a[i] \in Int
    <3>1. a[i] \in Int
      BY <1>2, <2>2, ArrayByte
    <3> QED BY <2>2, <3>1 DEF A
  <2>4. ReadsInside'
    BY <1>1, <1>7, <2>2, ReadsOne DEF FindByte
  <2>5. (Unsigned(A(i)) = call.c % 256) <=> Needle(call, i)
    BY <1>2, <2>3 DEF Unsigned, Needle
  <2>6. CASE Needle(call, i)
    <3>1. i' = i /\ running' = FALSE /\ result' = i
      BY <1>1, <1>7, <2>5, <2>6 DEF FindByte, Return
    <3>2. i \in S /\ \A k \in 0 .. i - 1 : k \notin S
      BY <1>2, <2>1, <2>2, <2>6
    <3>3. Promised(call) = i
      BY <1>3, <1>5, <3>2, FirstIs
    <3> QED BY <1>1, <1>4, <2>4, <3>1, <3>3, AnswersExactly DEF Iteration
  <2>7. CASE ~Needle(call, i)
    <3>1. i' = i + 1 /\ running' = running /\ result' = result
      BY <1>1, <1>7, <2>5, <2>7 DEF FindByte, Continue
    <3>2. Passed(call, i)
      BY <1>1, <2>1, <2>2, <2>7 DEF Passed, Counted, Searching, Comparing
    <3> QED BY <1>1, <1>4, <2>4, <3>1, <3>2 DEF Iteration, GoesOn
  <2> QED BY <2>6, <2>7
<1> QED BY <1>6, <1>7

LEMMA MemRChrIterates == SearchInv /\ MemRChr => Iteration
<1> SUFFICES ASSUME SearchInv, MemRChr PROVE Iteration
  OBVIOUS
<1> DEFINE a == call.a
           n == call.n
           at == n - 1 - i
           S == {k \in DOMAIN a : k < n /\ Needle(call, k)}
<1>1. running /\ call.fn = "memrchr" /\ call' = call /\ FindByte(at)
  BY DEF MemRChr, In
<1>2. /\ IsArray(a) /\ n \in Nat /\ call.c \in Int /\ i \in Nat
      /\ 0 .. n - 1 \subseteq DOMAIN a
      /\ \A k \in 0 .. i - 1 : k < n /\ ~Needle(call, n - 1 - k)
  BY <1>1, Arguments DEF Passed, Counted, Owed, Searching, Spanning, Ffs
<1>3. Promised(call) = LastOf(S)
  BY <1>1 DEF Promised, Ffs
<1>4. call.fn \notin Backward /\ call.fn \notin Comparing
  BY <1>1 DEF Backward, Comparing
<1>5. S \in SUBSET Nat
  BY <1>2 DEF IsArray
<1>6. i <= n
  <2>1. i = 0 \/ i - 1 \in 0 .. i - 1
    BY <1>2
  <2> QED BY <1>2, <2>1
<1>7. \A k \in S : k <= at
  <2> SUFFICES ASSUME NEW k \in Nat, k < n, k > at, Needle(call, k) PROVE FALSE
    BY <1>2, <1>5, <1>6
  <2>1. n - 1 - k \in 0 .. i - 1 /\ n - 1 - (n - 1 - k) = k
    BY <1>2
  <2> QED BY <1>2, <2>1
<1>8. CASE i = n
  <2>1. i' = i /\ running' = FALSE /\ result' = Nullptr /\ Reads({})
    BY <1>1, <1>8 DEF FindByte, Return
  <2>2. S = {}
    BY <1>2, <1>5, <1>7, <1>8
  <2>3. Promised(call) = Nullptr
    BY <1>3, <2>2 DEF LastOf
  <2> QED BY <1>1, <1>4, <2>1, <2>3, ReadsNone, AnswersExactly DEF Iteration
<1>9. CASE i # n
  <2>1. i < n /\ at \in 0 .. n - 1 /\ at \in DOMAIN a
    BY <1>2, <1>6, <1>9
  <2>2. A(at) = a[at] /\ a[at] \in Int
    <3>1. a[at] \in Int
      BY <1>2, <2>1, ArrayByte
    <3> QED BY <2>1, <3>1 DEF A
  <2> HIDE DEF at
  <2>3. ReadsInside'
    BY <1>1, <1>9, <2>1, ReadsOne DEF FindByte
  <2>4. (Unsigned(A(at)) = call.c % 256) <=> Needle(call, at)
    BY <1>2, <2>2 DEF Unsigned, Needle
  <2>5. CASE Needle(call, at)
    <3>1. i' = i /\ running' = FALSE /\ result' = at
      BY <1>1, <1>9, <2>4, <2>5 DEF FindByte, Return
    <3>2. at \in S
      BY <2>1, <2>5, <1>2
    <3>3. Promised(call) = at
      BY <1>3, <1>5, <1>7, <3>2, LastIs
    <3> QED BY <1>1, <1>4, <2>3, <3>1, <3>3, AnswersExactly DEF Iteration
  <2>6. CASE ~Needle(call, at)
    <3>1. i' = i + 1 /\ running' = running /\ result' = result
      BY <1>1, <1>9, <2>4, <2>6 DEF FindByte, Continue
    <3>2. Passed(call, i)
      BY <1>1, <2>1, <2>6 DEF Passed, Counted, Searching, Comparing, at
    <3> QED BY <1>1, <1>4, <2>3, <3>1, <3>2 DEF Iteration, GoesOn
  <2> QED BY <2>5, <2>6
<1> QED BY <1>8, <1>9

-----------------------------------------------------------------------------
(* The loops over a string: the byte they look at is the string's.         *)
LEMMA InString ==
  ASSUME SearchInv, running,
         call.fn \in Searching \cup {"strspn", "strcspn", "strpbrk"},
         call.fn = "strnlen" => NULs(call.a) # {}
  PROVE  /\ IsArray(call.a) /\ NULs(call.a) # {} /\ i \in Nat
         /\ i \in DOMAIN call.a /\ i <= Length(call.a) /\ Length(call.a) \in Nat
         /\ A(i) = call.a[i] /\ call.a[i] \in Chars
         /\ \A k \in 0 .. i - 1 : call.a[k] # 0
         /\ \A k \in 0 .. Length(call.a) : k \in DOMAIN call.a
         /\ call.a[i] = 0 => Length(call.a) = i
         /\ call.a[i] # 0 => i < Length(call.a)
<1> DEFINE a == call.a
<1>1. IsArray(a) /\ i \in Nat /\ \A k \in 0 .. i - 1 : a[k] # 0
  BY Arguments DEF Passed
<1>2. NULs(a) # {}
  BY Arguments DEF Owed, Searching, Spanning, Ffs
<1>3. i <= Length(a) /\ i \in DOMAIN a
  BY <1>1, <1>2, BeforeTheEnd
<1>4. /\ Length(a) \in Nat /\ a[Length(a)] = 0 /\ 0 .. Length(a) \subseteq DOMAIN a
  BY <1>1, <1>2, LengthOfString
<1>5. A(i) = a[i] /\ a[i] \in Chars
  BY <1>1, <1>3 DEF A, IsArray
<1>6. a[i] = 0 => Length(a) = i
  BY <1>1, <1>3, LengthIs
<1>7. a[i] # 0 => i < Length(a)
  BY <1>1, <1>3, <1>4
<1> QED BY <1>1, <1>2, <1>3, <1>4, <1>5, <1>6, <1>7

(* A byte that is one of the chars is found whichever way it is compared.  *)
LEMMA OneByte ==
  ASSUME NEW x \in Chars, NEW c \in Int
  PROVE  /\ x = Char(c) <=> (x - c) % 256 = 0
         /\ c \in Chars => (x = c <=> (x - c) % 256 = 0)
<1> DEFINE q == (c + 128) \div 256
           d == (c + 128) % 256
           p == (x - c) \div 256
           e == (x - c) % 256
<1>1. c + 128 = 256 * q + d /\ d \in 0 .. 255 /\ q \in Int
  OBVIOUS
<1>2. x - c = 256 * p + e /\ e \in 0 .. 255 /\ p \in Int
  BY DEF Chars
<1>3. Char(c) = d - 128
  BY DEF Char
<1> HIDE DEF q, d, p
<1>4. x + 128 = 256 * (p + q) + d + e /\ x + 128 \in 0 .. 255
  BY <1>1, <1>2 DEF Chars
<1>5. x + 128 = d <=> e = 0
  <2> DEFINE s == p + q
             y == x + 128
  <2>1. y = 256 * s + d + e /\ s \in Int /\ y \in 0 .. 255 /\ e \in 0 .. 255
    BY <1>1, <1>2, <1>4
  <2> HIDE DEF s, y, e
  <2>2. s <= -1 \/ s = 0 \/ s >= 1
    BY <2>1
  <2>3. y = d <=> e = 0
    BY <1>1, <2>1, <2>2
  <2> QED BY <2>3 DEF y
<1>6. x = Char(c) <=> e = 0
  BY <1>1, <1>3, <1>5 DEF Chars
<1>7. c \in Chars => c = Char(c)
  <2> SUFFICES ASSUME c \in Chars PROVE c + 128 = d
    BY <1>1, <1>3
  <2>1. c + 128 \in 0 .. 255
    BY DEF Chars
  <2>2. q <= -1 \/ q = 0 \/ q >= 1
    BY <1>1
  <2> QED BY <1>1, <2>1, <2>2
<1> QED BY <1>6, <1>7

LEMMA FindFirstIterates == SearchInv /\ (StrChr \/ Index) => Iteration
<1> SUFFICES ASSUME SearchInv, StrChr \/ Index PROVE Iteration
  OBVIOUS
<1> DEFINE a == call.a
           S == {k \in Offsets(a) : Needle(call, k)}
<1>1. running /\ call.fn \in {"strchr", "index"} /\ call' = call /\ FindFirst
  BY DEF StrChr, Index, In
<1>2. /\ i \in Nat /\ i \in DOMAIN a /\ i <= Length(a) /\ Length(a) \in Nat
      /\ A(i) = a[i] /\ a[i] \in Chars
      /\ a[i] = 0 => Length(a) = i
      /\ a[i] # 0 => i < Length(a)
  BY <1>1, InString DEF Searching
<1>3. call.c \in Int /\ \A k \in 0 .. i - 1 : ~Needle(call, k)
  BY <1>1, Arguments DEF Passed
<1>4. Promised(call) = FirstOf(S)
  BY <1>1 DEF Promised, Ffs
<1>5. call.fn \notin Backward /\ call.fn \notin Comparing
  BY <1>1 DEF Backward, Comparing
<1>6. S \in SUBSET Nat
  BY <1>2 DEF Offsets
<1>7. ReadsInside'
  BY <1>1, <1>2, ReadsOne DEF FindFirst
<1>8. (A(i) = Char(call.c)) <=> Needle(call, i)
  BY <1>2, <1>3, OneByte DEF Needle
<1>9. CASE Needle(call, i)
  <2>1. i' = i /\ running' = FALSE /\ result' = i
    BY <1>1, <1>8, <1>9 DEF FindFirst, Return
  <2>2. i \in S /\ \A k \in 0 .. i - 1 : k \notin S
    BY <1>2, <1>3, <1>9 DEF Offsets
  <2>3. Promised(call) = i
    BY <1>4, <1>6, <2>2, FirstIs
  <2> QED BY <1>1, <1>5, <1>7, <2>1, <2>3, AnswersExactly DEF Iteration
<1>10. CASE ~Needle(call, i) /\ a[i] = 0
  <2>1. i' = i /\ running' = FALSE /\ result' = Nullptr
    BY <1>1, <1>2, <1>8, <1>10 DEF FindFirst, Return
  <2>2. S = {}
    BY <1>2, <1>3, <1>10 DEF Offsets
  <2>3. Promised(call) = Nullptr
    BY <1>4, <2>2 DEF FirstOf
  <2> QED BY <1>1, <1>5, <1>7, <2>1, <2>3, AnswersExactly DEF Iteration
<1>11. CASE ~Needle(call, i) /\ a[i] # 0
  <2>1. i' = i + 1 /\ running' = running /\ result' = result
    BY <1>1, <1>2, <1>8, <1>11 DEF FindFirst, Continue
  <2>2. Passed(call, i)
    BY <1>1, <1>2, <1>11 DEF Passed, Counted, Searching, Comparing
  <2> QED BY <1>1, <1>5, <1>7, <2>1, <2>2 DEF Iteration, GoesOn
<1> QED BY <1>9, <1>10, <1>11

(* The last match among one more byte.                                     *)
LEMMA LastMatchStep ==
  ASSUME NEW c, NEW k \in Nat
  PROVE  LastMatch(c, k + 1) = IF c.a[k] = c.c THEN k ELSE LastMatch(c, k)
<1> DEFINE T == {j \in 0 .. k : c.a[j] = c.c}
<1>1. LastMatch(c, k + 1) = LastOf(T)
  <2>1. (k + 1) - 1 = k
    OBVIOUS
  <2> QED BY <2>1 DEF LastMatch
<1>2. CASE c.a[k] = c.c
  <2>1. T \in SUBSET Nat /\ k \in T /\ \A j \in T : j <= k
    BY <1>2
  <2> HIDE DEF T
  <2>2. LastOf(T) = k
    BY <2>1, LastIs
  <2> QED BY <1>1, <1>2, <2>2
<1>3. CASE c.a[k] # c.c
  <2>1. T = {j \in 0 .. k - 1 : c.a[j] = c.c}
    BY <1>3
  <2> QED BY <1>1, <1>3, <2>1 DEF LastMatch
<1> QED BY <1>2, <1>3

LEMMA FindLastIterates == SearchInv /\ (StrRChr \/ RIndex) => Iteration
<1> SUFFICES ASSUME SearchInv, StrRChr \/ RIndex PROVE Iteration
  OBVIOUS
<1> DEFINE a == call.a
           S == {k \in Offsets(a) : Needle(call, k)}
<1>1. running /\ call.fn \in {"strrchr", "rindex"} /\ call' = call /\ FindLast
  BY DEF StrRChr, RIndex, In
<1>2. /\ i \in Nat /\ i \in DOMAIN a /\ i <= Length(a) /\ Length(a) \in Nat
      /\ A(i) = a[i] /\ a[i] \in Chars
      /\ a[i] = 0 => Length(a) = i
      /\ a[i] # 0 => i < Length(a)
      /\ \A k \in 0 .. Length(a) : k \in DOMAIN a
  BY <1>1, InString DEF Searching
<1>3. last = LastMatch(call, i)
  BY <1>1 DEF SearchInv, Backward
<1>4. last' = LastMatch(call, i + 1)
  BY <1>1, <1>2, <1>3, LastMatchStep DEF FindLast
<1>5. ReadsInside'
  BY <1>1, <1>2, ReadsOne DEF FindLast
<1>6. CASE a[i] = 0
  <2>1. i' = i /\ running' = FALSE /\ result' = last'
    BY <1>1, <1>2, <1>6 DEF FindLast, Return
  <2>2. ASSUME call.c \in Chars PROVE Promised(call) = LastMatch(call, i + 1)
    <3>1. Promised(call) = LastOf(S)
      BY <1>1 DEF Promised, Ffs
    <3>2. \A k \in 0 .. i : Needle(call, k) <=> a[k] = call.c
      <4> SUFFICES ASSUME NEW k \in 0 .. i PROVE Needle(call, k) <=> a[k] = call.c
        OBVIOUS
      <4>1. a[k] \in Chars
        BY <1>1, <1>2, Arguments DEF IsArray
      <4>2. call.c \in Int
        BY Arguments
      <4> QED BY <2>2, <4>1, <4>2, OneByte DEF Needle
    <3>3. S = {k \in 0 .. i : a[k] = call.c}
      BY <1>2, <1>6, <3>2 DEF Offsets
    <3>4. (i + 1) - 1 = i
      BY <1>2
    <3> QED BY <3>1, <3>3, <3>4 DEF LastMatch
  <2>3. call.fn \in Backward /\ call.fn \notin Comparing
    BY <1>1 DEF Backward, Comparing
  <2>4. Answers
    BY <1>4, <2>1, <2>2, <2>3 DEF Answers, Meaning
  <2> QED BY <1>1, <1>4, <1>5, <2>1, <2>4 DEF Iteration
<1>7. CASE a[i] # 0
  <2>1. i' = i + 1 /\ running' = running /\ result' = result
    BY <1>1, <1>2, <1>7 DEF FindLast, Continue
  <2>2. Passed(call, i)
    BY <1>1, <1>2, <1>7 DEF Passed, Counted, Searching, Comparing
  <2> QED BY <1>1, <1>4, <1>5, <2>1, <2>2 DEF Iteration, GoesOn
<1> QED BY <1>6, <1>7

LEMMA LesserOf ==
  ASSUME NEW x \in Int, NEW y \in Int
  PROVE  Min({x, y}) = IF x < y THEN x ELSE y
<1> DEFINE S == {x, y}
<1>1. S \in SUBSET Int /\ x \in S /\ y \in S /\ \A z \in S : z = x \/ z = y
  OBVIOUS
<1> HIDE DEF S
<1>2. Min(S) = IF x < y THEN x ELSE y
  <2>1. CASE x < y
    BY <1>1, <2>1, MinIs
  <2>2. CASE ~(x < y)
    BY <1>1, <2>2, MinIs
  <2> QED BY <2>1, <2>2
<1> QED BY <1>2 DEF S

(* The end of a string, or of strnlen's array that has none.               *)
LEMMA StrLenEnds ==
  ASSUME SearchInv, running, call.fn \in {"strlen", "strnlen"}, A(i) = 0
  PROVE  Promised(call) = IF call.fn = "strlen" THEN i ELSE Min({i, call.n})
<1> DEFINE a == call.a
           n == call.n
<1>1. /\ i \in Nat /\ n \in Nat /\ IsArray(a)
      /\ \A k \in 0 .. i - 1 : a[k] # 0
  BY Arguments DEF Passed, Searching
<1>2. Min({i, n}) = IF i < n THEN i ELSE n
  BY <1>1, LesserOf
<1>3. CASE NULs(a) # {}
  <2>1. a[i] = 0 /\ Length(a) = i /\ i \in NULs(a)
    BY <1>3, InString DEF Searching, NULs
  <2>2. (\E k \in NULs(a) : k < n) <=> i < n
    <3>1. \A k \in NULs(a) : k \in Nat /\ a[k] = 0
      BY <1>1 DEF NULs, IsArray
    <3>2. \A k \in NULs(a) : i <= k
      BY <1>1, <3>1
    <3> QED BY <1>1, <2>1, <3>1, <3>2
  <2>3. CASE call.fn = "strlen"
    BY <2>1, <2>3 DEF Promised, Ffs
  <2>4. CASE call.fn = "strnlen"
    BY <1>2, <2>1, <2>2, <2>4 DEF Promised, Ffs
  <2> QED BY <2>3, <2>4
<1>4. CASE NULs(a) = {}
  <2>1. call.fn = "strnlen" /\ 0 .. n - 1 \subseteq DOMAIN a
    BY <1>4, Arguments DEF Owed, Searching, Spanning, Ffs
  <2>2. i \notin DOMAIN a
    BY <1>4 DEF A, NULs
  <2>3. ~(i < n)
    BY <1>1, <2>1, <2>2
  <2>4. Promised(call) = n
    BY <1>4, <2>1 DEF Promised, Ffs
  <2> QED BY <1>2, <2>1, <2>3, <2>4
<1> QED BY <1>3, <1>4

LEMMA StrLenIterates == SearchInv /\ StrLen => Iteration
<1> SUFFICES ASSUME SearchInv, StrLen PROVE Iteration
  OBVIOUS
<1> DEFINE a == call.a
<1>1. /\ running /\ call.fn \in {"strlen", "strnlen"} /\ call' = call
      /\ Reads({<<"a", i>>})
      /\ IF A(i) # 0 THEN Continue
         ELSE Return(IF call.fn = "strlen" THEN i ELSE Min({i, call.n}))
  BY DEF StrLen, In
<1>2. call.fn \notin Backward /\ call.fn \notin Comparing
  BY <1>1 DEF Backward, Comparing
<1>3. ReadsInside'
  <2>1. CASE call.fn = "strnlen" /\ NULs(a) = {}
    BY <1>1, <2>1 DEF ReadsInside
  <2>2. CASE call.fn = "strnlen" => NULs(a) # {}
    <3>1. i \in DOMAIN a
      BY <1>1, <2>2, InString DEF Searching
    <3> QED BY <1>1, <3>1, ReadsOne
  <2> QED BY <2>1, <2>2
<1>4. CASE A(i) = 0
  <2>1. /\ i' = i /\ running' = FALSE
        /\ result' = IF call.fn = "strlen" THEN i ELSE Min({i, call.n})
    BY <1>1, <1>4 DEF Return
  <2>2. Answers
    BY <1>1, <1>2, <1>4, <2>1, StrLenEnds, AnswersExactly
  <2> QED BY <1>1, <1>2, <1>3, <2>1, <2>2 DEF Iteration
<1>5. CASE A(i) # 0
  <2>1. i' = i + 1 /\ running' = running /\ result' = result
    BY <1>1, <1>5 DEF Continue
  <2>2. i \in DOMAIN a /\ a[i] # 0
    BY <1>5 DEF A
  <2>3. Passed(call, i)
    BY <1>1, <2>2 DEF Passed, Counted, Searching, Comparing
  <2> QED BY <1>1, <1>2, <1>3, <2>1, <2>3 DEF Iteration, GoesOn
<1> QED BY <1>4, <1>5

-----------------------------------------------------------------------------
(* The comparisons.  Every one of them compares by a key of its own, and   *)
(* only a NUL has the key of a NUL.                                        *)
LEMMA Keys ==
  ASSUME NEW fn, NEW x \in Chars
  PROVE  Key(fn, x) \in Int /\ (Key(fn, x) = Key(fn, 0) => x = 0)
<1>1. x % 256 \in Int /\ (x % 256 = 0 % 256 => x = 0)
  BY DEF Chars
<1>2. tolower(x) \in Int /\ (tolower(x) = tolower(0) => x = 0)
  BY DEF Chars, tolower, isupper
<1> QED BY <1>1, <1>2 DEF Key, Unsigned, Chars

Differing(c) ==
  {k \in DOMAIN c.a \cap DOMAIN c.b :
     (c.fn \in Counted => k < c.n) /\ Key(c.fn, c.a[k]) # Key(c.fn, c.b[k])}

Ends(c) ==
  {k \in DOMAIN c.a \cap DOMAIN c.b : c.fn # "memcmp" /\ c.a[k] = 0 /\ c.b[k] = 0}

LEMMA PromisedOrder ==
  ASSUME NEW c, c.fn \in Comparing
  PROVE  Promised(c) =
           IF Differing(c) = {} \/ \E e \in Ends(c) : e < Min(Differing(c)) THEN 0
           ELSE IF Key(c.fn, c.a[Min(Differing(c))]) < Key(c.fn, c.b[Min(Differing(c))])
                THEN -1 ELSE 1
<1>1. CASE c.fn = "memcmp"
  <2>1. \A x : Key(c.fn, x) = Unsigned(x)
    BY <1>1 DEF Key
  <2>2. Promised(c) = Order(c, Unsigned, TRUE)
    BY <1>1 DEF Promised, Ffs
  <2>3. Differing(c) = {k \in DOMAIN c.a \cap DOMAIN c.b :
                          (TRUE => k < c.n) /\ Unsigned(c.a[k]) # Unsigned(c.b[k])}
    BY <1>1, <2>1 DEF Differing, Counted
  <2> QED BY <2>1, <2>2, <2>3 DEF Order, Ends
<1>2. CASE c.fn = "strcmp"
  <2>1. \A x : Key(c.fn, x) = Same(x)
    BY <1>2 DEF Key, Same
  <2>2. Promised(c) = Order(c, Same, FALSE)
    BY <1>2 DEF Promised, Ffs
  <2>3. Differing(c) = {k \in DOMAIN c.a \cap DOMAIN c.b :
                          (FALSE => k < c.n) /\ Same(c.a[k]) # Same(c.b[k])}
    BY <1>2, <2>1 DEF Differing, Counted
  <2> QED BY <2>1, <2>2, <2>3 DEF Order, Ends
<1>3. CASE c.fn = "strncmp"
  <2>1. \A x : Key(c.fn, x) = Same(x)
    BY <1>3 DEF Key, Same
  <2>2. Promised(c) = Order(c, Same, TRUE)
    BY <1>3 DEF Promised, Ffs
  <2>3. Differing(c) = {k \in DOMAIN c.a \cap DOMAIN c.b :
                          (TRUE => k < c.n) /\ Same(c.a[k]) # Same(c.b[k])}
    BY <1>3, <2>1 DEF Differing, Counted
  <2> QED BY <2>1, <2>2, <2>3 DEF Order, Ends
<1>4. CASE c.fn = "strcasecmp"
  <2>1. \A x : Key(c.fn, x) = tolower(x)
    BY <1>4 DEF Key
  <2>2. Promised(c) = Order(c, tolower, FALSE)
    BY <1>4 DEF Promised, Ffs
  <2>3. Differing(c) = {k \in DOMAIN c.a \cap DOMAIN c.b :
                          (FALSE => k < c.n) /\ tolower(c.a[k]) # tolower(c.b[k])}
    BY <1>4, <2>1 DEF Differing, Counted
  <2> QED BY <2>1, <2>2, <2>3 DEF Order, Ends
<1>5. CASE c.fn = "strncasecmp"
  <2>1. \A x : Key(c.fn, x) = tolower(x)
    BY <1>5 DEF Key
  <2>2. Promised(c) = Order(c, tolower, TRUE)
    BY <1>5 DEF Promised, Ffs
  <2>3. Differing(c) = {k \in DOMAIN c.a \cap DOMAIN c.b :
                          (TRUE => k < c.n) /\ tolower(c.a[k]) # tolower(c.b[k])}
    BY <1>5, <2>1 DEF Differing, Counted
  <2> QED BY <2>1, <2>2, <2>3 DEF Order, Ends
<1> QED BY <1>1, <1>2, <1>3, <1>4, <1>5 DEF Comparing

(* A comparison that has not finished is inside both arrays.               *)
LEMMA InBoth ==
  ASSUME SearchInv, running, call.fn \in Comparing, call.fn \in Counted => i # call.n
  PROVE  /\ i \in DOMAIN call.a /\ i \in DOMAIN call.b
         /\ call.fn \in Counted => i < call.n
<1> DEFINE n == call.n
<1>1. /\ IsArray(call.a) /\ IsArray(call.b) /\ n \in Nat /\ i \in Nat
      /\ \A k \in 0 .. i - 1 :
           /\ call.fn \in Counted => k < n
           /\ call.fn # "memcmp" => call.a[k] # 0 /\ call.b[k] # 0
  BY Arguments DEF Passed
<1>2. call.fn \in Counted => i < n
  <2>1. i = 0 \/ i - 1 \in 0 .. i - 1
    BY <1>1
  <2> QED BY <1>1, <2>1
<1>3. \A array \in {call.a, call.b} :
        \/ call.fn \in Counted /\ 0 .. n - 1 \subseteq DOMAIN array
        \/ call.fn # "memcmp" /\ NULs(array) # {}
  BY Arguments DEF Owed, Searching, Spanning, Ffs, Comparing, Counted
<1>4. ASSUME NEW array \in {call.a, call.b} PROVE i \in DOMAIN array
  <2>1. CASE call.fn \in Counted /\ 0 .. n - 1 \subseteq DOMAIN array
    BY <1>1, <1>2, <2>1
  <2>2. CASE call.fn # "memcmp" /\ NULs(array) # {}
    <3>1. IsArray(array) /\ \A k \in 0 .. i - 1 : array[k] # 0
      BY <1>1, <2>2
    <3> QED BY <1>1, <2>2, <3>1, BeforeTheEnd
  <2> QED BY <1>3, <2>1, <2>2
<1> QED BY <1>2, <1>4

LEMMA CompareIterates ==
  SearchInv /\ (MemCmp \/ StrCmp \/ StrNCmp \/ StrCaseCmp \/ StrNCaseCmp) => Iteration
<1> SUFFICES ASSUME SearchInv, MemCmp \/ StrCmp \/ StrNCmp \/ StrCaseCmp \/ StrNCaseCmp
             PROVE  Iteration
  OBVIOUS
<1> DEFINE a == call.a
           b == call.b
           D == Differing(call)
<1>1. /\ running /\ call.fn \in Comparing /\ call' = call
      /\ Compare(call.fn \in Counted, call.fn # "memcmp")
  BY DEF MemCmp, StrCmp, StrNCmp, StrCaseCmp, StrNCaseCmp, In, Comparing, Counted, Compare
<1>2. /\ IsArray(a) /\ IsArray(b) /\ i \in Nat
      /\ \A k \in 0 .. i - 1 :
           /\ Key(call.fn, a[k]) = Key(call.fn, b[k])
           /\ call.fn # "memcmp" => a[k] # 0
  BY <1>1, Arguments DEF Passed
<1>3. call.fn \notin Backward
  BY <1>1 DEF Backward, Comparing
<1>4. D \in SUBSET Int /\ \A k \in D : k \in Nat /\ i <= k
  BY <1>2 DEF Differing, IsArray
<1>5. CASE call.fn \in Counted /\ i = call.n
  <2>1. i' = i /\ running' = FALSE /\ result' = 0 /\ Reads({})
    BY <1>1, <1>5 DEF Compare, Return
  <2>2. D = {}
    <3>1. \A k \in D : k < call.n
      BY <1>5 DEF Differing
    <3> QED BY <1>2, <1>4, <1>5, <3>1
  <2>3. Promised(call) = 0
    BY <1>1, <2>2, PromisedOrder
  <2> QED BY <1>1, <1>3, <2>1, <2>3, ReadsNone DEF Iteration, Answers, Meaning, Sign
<1>6. CASE ~(call.fn \in Counted /\ i = call.n)
  <2>1. i \in DOMAIN a /\ i \in DOMAIN b /\ (call.fn \in Counted => i < call.n)
    BY <1>1, <1>6, InBoth
  <2>2. /\ A(i) = a[i] /\ a[i] \in Chars /\ B(i) = b[i] /\ b[i] \in Chars
        /\ KeyOfA = Key(call.fn, a[i]) /\ KeyOfB = Key(call.fn, b[i])
    BY <1>2, <2>1 DEF A, B, IsArray, KeyOfA, KeyOfB
  <2>3. ReadsInside'
    BY <1>1, <1>6, <2>1, ReadsBoth DEF Compare
  <2>4. CASE KeyOfA # KeyOfB
    <3>1. i' = i /\ running' = FALSE /\ result' = KeyOfA - KeyOfB
      BY <1>1, <1>6, <2>4 DEF Compare, Return
    <3>2. i \in D
      BY <2>1, <2>2, <2>4 DEF Differing
    <3>3. Min(D) = i
      BY <1>4, <3>2, MinIs
    <3>4. \A e \in Ends(call) : ~(e < i)
      BY <1>2 DEF Ends, IsArray
    <3>5. Promised(call) = IF KeyOfA < KeyOfB THEN -1 ELSE 1
      BY <1>1, <2>2, <3>2, <3>3, <3>4, PromisedOrder
    <3>6. KeyOfA \in Int /\ KeyOfB \in Int
      BY <2>2, Keys
    <3>7. Sign(KeyOfA - KeyOfB) = IF KeyOfA < KeyOfB THEN -1 ELSE 1
      BY <2>4, <3>6 DEF Sign
    <3>8. Answers
      BY <1>1, <3>1, <3>5, <3>7 DEF Answers, Meaning
    <3> QED BY <1>1, <1>3, <2>3, <3>1, <3>8 DEF Iteration
  <2>5. CASE KeyOfA = KeyOfB /\ call.fn # "memcmp" /\ 0 \in {A(i), B(i)}
    <3>1. i' = i /\ running' = FALSE /\ result' = 0
      BY <1>1, <1>6, <2>5 DEF Compare, Return
    <3>2. a[i] = 0 /\ b[i] = 0
      BY <2>2, <2>5, Keys
    <3>3. i \in Ends(call)
      BY <2>1, <2>5, <3>2 DEF Ends
    <3>4. D = {} \/ i < Min(D)
      <4> SUFFICES ASSUME D # {} PROVE i < Min(D)
        OBVIOUS
      <4>1. D \in SUBSET Nat
        BY <1>4
      <4>2. Min(D) \in D
        BY <4>1, MinOfNaturals
      <4>3. i \notin D
        BY <2>2, <2>5 DEF Differing
      <4>4. Min(D) \in Nat /\ i <= Min(D) /\ Min(D) # i
        BY <1>4, <4>2, <4>3
      <4> QED BY <1>2, <4>4
    <3>5. Promised(call) = 0
      BY <1>1, <3>3, <3>4, PromisedOrder
    <3> QED BY <1>1, <1>3, <2>3, <3>1, <3>5 DEF Iteration, Answers, Meaning, Sign
  <2>6. CASE KeyOfA = KeyOfB /\ ~(call.fn # "memcmp" /\ 0 \in {A(i), B(i)})
    <3>1. i' = i + 1 /\ running' = running /\ result' = result
      BY <1>1, <1>6, <2>6 DEF Compare, Continue
    <3>2. Passed(call, i)
      BY <1>1, <2>1, <2>2, <2>6 DEF Passed, Counted, Searching, Comparing
    <3> QED BY <1>1, <1>3, <2>3, <3>1, <3>2 DEF Iteration, GoesOn
  <2> QED BY <2>4, <2>5, <2>6
<1> QED BY <1>5, <1>6

-----------------------------------------------------------------------------
(* The spans.  A NUL of the second string is never asked for.              *)
LEMMA ReadsStrings ==
  ASSUME SearchInv, call' = call, NULs(call.b) # {},
         NEW k, k \in DOMAIN call.a, Reads({<<"a", k>>} \cup StringCells("b"))
  PROVE  ReadsInside'
<1>1. 0 .. Length(call.b) \subseteq DOMAIN call.b
  BY Arguments, LengthOfString
<1>2. \A cell \in read' :
        \/ cell \in read \/ (cell[1] = "a" /\ cell[2] = k)
        \/ cell[1] = "b" /\ cell[2] \in 0 .. Length(call.b)
  BY DEF Reads, StringCells, Length
<1> QED BY <1>1, <1>2 DEF SearchInv, ReadsInside

LEMMA AcceptsBytes ==
  ASSUME SearchInv, NULs(call.b) # {}, NEW byte, byte # 0
  PROVE  Accepts(byte) <=> byte \in BytesOf(call.b)
<1> DEFINE b == call.b
<1>1. /\ Length(b) \in Nat /\ b[Length(b)] = 0 /\ 0 .. Length(b) \subseteq DOMAIN b
  BY Arguments, LengthOfString
<1>2. Accepts(byte) <=> \E k \in 0 .. Length(b) : byte = b[k]
  BY <1>1 DEF Accepts, B, Length
<1>3. \A k \in 0 .. Length(b) : k = Length(b) \/ k \in 0 .. Length(b) - 1
  BY <1>1
<1> QED BY <1>1, <1>2, <1>3 DEF BytesOf

LEMMA SpanIterates == SearchInv /\ (StrSpn \/ StrCSpn \/ StrPBrk) => Iteration
<1> SUFFICES ASSUME SearchInv, StrSpn \/ StrCSpn \/ StrPBrk PROVE Iteration
  OBVIOUS
<1> DEFINE a == call.a
           b == call.b
           atEnd == IF call.fn = "strpbrk" THEN Nullptr ELSE i
           S == {k \in DOMAIN a : a[k] \notin BytesOf(b)}
           T == {k \in DOMAIN a : a[k] \in BytesOf(b) \cup {0}}
           U == {k \in Offsets(a) : a[k] \in BytesOf(b)}
<1>1. /\ running /\ call.fn \in {"strspn", "strcspn", "strpbrk"} /\ call' = call
      /\ Span(call.fn = "strspn", atEnd)
  BY DEF StrSpn, StrCSpn, StrPBrk, In, Span
<1>2. /\ i \in Nat /\ i \in DOMAIN a /\ i <= Length(a) /\ Length(a) \in Nat
      /\ A(i) = a[i] /\ IsArray(a)
      /\ a[i] = 0 => Length(a) = i
      /\ a[i] # 0 => i < Length(a)
      /\ \A k \in 0 .. i - 1 : a[k] # 0
  BY <1>1, InString
<1>3. NULs(b) # {} /\ IsArray(b)
  BY <1>1, Arguments DEF Owed, Searching, Spanning, Ffs
<1>4. \A k \in 0 .. i - 1 : IF call.fn = "strspn" THEN a[k] \in BytesOf(b)
                            ELSE a[k] \notin BytesOf(b)
  BY <1>1, Arguments DEF Passed
<1>5. 0 \notin BytesOf(b)
  BY <1>3, LengthOfString DEF BytesOf
<1>6. call.fn \notin Backward /\ call.fn \notin Comparing
  BY <1>1 DEF Backward, Comparing
<1>7. /\ call.fn = "strspn" => Promised(call) = Min(S)
      /\ call.fn = "strcspn" => Promised(call) = Min(T)
      /\ call.fn = "strpbrk" => Promised(call) = FirstOf(U)
  BY DEF Promised, Ffs
<1>8. /\ \A k \in DOMAIN a : k \in Nat /\ (k < i => k \in 0 .. i - 1)
      /\ S \in SUBSET Int /\ T \in SUBSET Int /\ U \in SUBSET Nat
  BY <1>2 DEF IsArray, Offsets
<1>9. CASE a[i] = 0
  <2>1. i' = i /\ running' = FALSE /\ result' = atEnd /\ Reads({<<"a", i>>})
    BY <1>1, <1>2, <1>9 DEF Span, Return
  <2>2. Promised(call) = atEnd
    <3>1. CASE call.fn = "strspn"
      <4>1. i \in S /\ \A k \in S : i <= k
        BY <1>2, <1>4, <1>5, <1>8, <1>9, <3>1
      <4> HIDE DEF S
      <4> QED BY <1>7, <1>8, <3>1, <4>1, MinIs
    <3>2. CASE call.fn = "strcspn"
      <4>1. i \in T /\ \A k \in T : i <= k
        BY <1>2, <1>4, <1>8, <1>9, <3>2
      <4> HIDE DEF T
      <4> QED BY <1>7, <1>8, <3>2, <4>1, MinIs
    <3>3. CASE call.fn = "strpbrk"
      <4>1. U = {}
        BY <1>2, <1>4, <1>5, <1>9, <3>3 DEF Offsets
      <4> QED BY <1>7, <3>3, <4>1 DEF FirstOf
    <3> QED BY <1>1, <3>1, <3>2, <3>3
  <2> QED BY <1>1, <1>2, <1>6, <2>1, <2>2, ReadsOne, AnswersExactly DEF Iteration
<1>10. CASE a[i] # 0
  <2>1. Accepts(A(i)) <=> a[i] \in BytesOf(b)
    BY <1>2, <1>3, <1>10, AcceptsBytes
  <2>2. ReadsInside'
    BY <1>1, <1>2, <1>3, <1>10, ReadsStrings DEF Span
  <2>3. CASE Accepts(A(i)) = (call.fn = "strspn")
    <3>1. i' = i + 1 /\ running' = running /\ result' = result
      BY <1>1, <1>2, <1>10, <2>3 DEF Span, Continue
    <3>2. IF call.fn = "strspn" THEN a[i] \in BytesOf(b) ELSE a[i] \notin BytesOf(b)
      BY <2>1, <2>3
    <3>3. Passed(call, i)
      BY <1>1, <1>2, <1>10, <3>2 DEF Passed, Counted, Searching, Comparing
    <3> QED BY <1>1, <1>6, <2>2, <3>1, <3>3 DEF Iteration, GoesOn
  <2>4. CASE Accepts(A(i)) # (call.fn = "strspn")
    <3>1. i' = i /\ running' = FALSE /\ result' = i
      BY <1>1, <1>2, <1>10, <2>4 DEF Span, Return
    <3>2. IF call.fn = "strspn" THEN a[i] \notin BytesOf(b) ELSE a[i] \in BytesOf(b)
      BY <2>1, <2>4 DEF Accepts
    <3>3. Promised(call) = i
      <4>1. CASE call.fn = "strspn"
        <5>1. i \in S /\ \A k \in S : i <= k
          BY <1>2, <1>4, <1>8, <3>2, <4>1
        <5> HIDE DEF S
        <5> QED BY <1>7, <1>8, <4>1, <5>1, MinIs
      <4>2. CASE call.fn = "strcspn"
        <5>1. i \in T /\ \A k \in T : i <= k
          BY <1>2, <1>4, <1>8, <3>2, <4>2
        <5> HIDE DEF T
        <5> QED BY <1>7, <1>8, <4>2, <5>1, MinIs
      <4>3. CASE call.fn = "strpbrk"
        <5>1. i \in U /\ \A k \in 0 .. i - 1 : k \notin U
          BY <1>2, <1>4, <1>10, <3>2, <4>3 DEF Offsets
        <5> HIDE DEF U
        <5> QED BY <1>7, <1>8, <4>3, <5>1, FirstIs
      <4> QED BY <1>1, <4>1, <4>2, <4>3
    <3> QED BY <1>1, <1>6, <2>2, <3>1, <3>3, AnswersExactly DEF Iteration
  <2> QED BY <2>3, <2>4
<1> QED BY <1>9, <1>10

-----------------------------------------------------------------------------
LEMMA StrStrIterates == SearchInv /\ StrStr => Iteration
<1> SUFFICES ASSUME SearchInv, StrStr PROVE Iteration
  OBVIOUS
<1> DEFINE a == call.a
           b == call.b
           la == Length(a)
           lb == Length(b)
           At(k) == \A j \in 0 .. lb - 1 : a[k + j] = b[j]
           S == {k \in 0 .. la - lb : At(k)}
<1>1. /\ running /\ call.fn = "strstr" /\ call' = call
      /\ Reads(StringCells("a") \cup StringCells("b"))
      /\ IF i + lb > la THEN Return(Nullptr)
         ELSE IF \A k \in 0 .. lb - 1 : A(i + k) = B(k) THEN Return(i) ELSE Continue
  BY DEF StrStr, In, Length
<1>2. i \in Nat /\ NULs(a) # {} /\ NULs(b) # {} /\ IsArray(a) /\ IsArray(b)
  BY <1>1, Arguments DEF Owed, Searching, Spanning, Ffs
<1>3. /\ la \in Nat /\ 0 .. la \subseteq DOMAIN a
      /\ lb \in Nat /\ 0 .. lb \subseteq DOMAIN b
  BY <1>2, LengthOfString
<1>4. \A k \in 0 .. i - 1 : ~At(k)
  BY <1>1, Arguments DEF Passed
<1>5. Promised(call) = FirstOf(S)
  BY <1>1 DEF Promised, Ffs
<1>6. S \in SUBSET Nat
  BY <1>3
<1>7. call.fn \notin Backward /\ call.fn \notin Comparing
  BY <1>1 DEF Backward, Comparing
<1>8. ReadsInside'
  <2>1. \A cell \in read' :
          \/ cell \in read
          \/ cell[1] = "a" /\ cell[2] \in 0 .. la
          \/ cell[1] = "b" /\ cell[2] \in 0 .. lb
    BY <1>1 DEF Reads, StringCells, Length
  <2> QED BY <1>1, <1>3, <2>1 DEF SearchInv, ReadsInside
<1>9. CASE i + lb > la
  <2>1. i' = i /\ running' = FALSE /\ result' = Nullptr
    BY <1>1, <1>9 DEF Return
  <2>2. S = {}
    <3>1. \A k \in 0 .. la - lb : k \in 0 .. i - 1
      BY <1>2, <1>3, <1>9
    <3> HIDE DEF At
    <3> QED BY <1>4, <3>1
  <2>3. Promised(call) = Nullptr
    BY <1>5, <2>2 DEF FirstOf
  <2> QED BY <1>1, <1>7, <1>8, <2>1, <2>3, AnswersExactly DEF Iteration
<1>10. CASE ~(i + lb > la)
  <2>1. (\A k \in 0 .. lb - 1 : A(i + k) = B(k)) <=> At(i)
    <3>1. \A k \in 0 .. lb - 1 : i + k \in DOMAIN a /\ k \in DOMAIN b
      BY <1>2, <1>3, <1>10
    <3> QED BY <3>1 DEF A, B
  <2>2. CASE At(i)
    <3>1. i' = i /\ running' = FALSE /\ result' = i
      BY <1>1, <1>10, <2>1, <2>2 DEF Return
    <3>2. i \in S /\ \A k \in 0 .. i - 1 : k \notin S
      BY SMTT(30), <1>2, <1>3, <1>4, <1>10, <2>2
    <3>3. Promised(call) = i
      <4> HIDE DEF S
      <4> QED BY <1>5, <1>6, <3>2, FirstIs
    <3> QED BY <1>1, <1>7, <1>8, <3>1, <3>3, AnswersExactly DEF Iteration
  <2>3. CASE ~At(i)
    <3>1. i' = i + 1 /\ running' = running /\ result' = result
      BY <1>1, <1>10, <2>1, <2>3 DEF Continue
    <3>2. Passed(call, i)
      BY <1>1, <1>2, <1>3, <1>10, <2>3 DEF Passed, Counted, Searching, Comparing
    <3> QED BY <1>1, <1>7, <1>8, <3>1, <3>2 DEF Iteration, GoesOn
  <2> QED BY <2>2, <2>3
<1> QED BY <1>9, <1>10

(* The calls without arrays read nothing.                                  *)
LEMMA OthersIterate == SearchInv /\ (FindFirstSet \/ Classify \/ Describe) => Iteration
<1> SUFFICES ASSUME SearchInv, FindFirstSet \/ Classify \/ Describe PROVE Iteration
  OBVIOUS
<1>1. running /\ call' = call /\ read' = read /\ call.fn \in Ffs \cup {"ctype", "strerror"}
  BY DEF FindFirstSet, Classify, Describe, In
<1>2. call.fn \notin Backward
  BY <1>1 DEF Backward, Ffs
<1>3. ReadsInside'
  BY <1>1 DEF SearchInv, ReadsInside
<1>4. GoesOn \/ Answers
  <2>1. CASE FindFirstSet
    <3>1. call.fn \in Ffs /\ (Continue \/ Return(0) \/ Return(i + 1))
      BY <2>1 DEF FindFirstSet, In
    <3>2. Passed(call, i)
      BY <3>1 DEF Passed, Ffs, Counted, Searching, Comparing
    <3> QED BY <3>1, <3>2 DEF GoesOn, Answers, Continue, Return, Judged
  <2>2. CASE Classify
    BY <2>2 DEF Classify, In, Return, Answers
  <2>3. CASE Describe
    BY <2>3 DEF Describe, In, Return, Answers
  <2> QED BY <2>1, <2>2, <2>3
<1> QED BY <1>1, <1>2, <1>3, <1>4 DEF Iteration

-----------------------------------------------------------------------------
LEMMA InitKeepsInvariant == Init => SearchInv
<1> SUFFICES ASSUME Init PROVE SearchInv
  OBVIOUS
<1>1. call \in Calls /\ i = 0 /\ read = {} /\ running = TRUE
  BY DEF Init
<1>2. call.fn \in Backward => last = LastMatch(call, i)
  <2> SUFFICES ASSUME call.fn \in Backward PROVE last = LastMatch(call, i)
    OBVIOUS
  <2>1. last = Nullptr
    BY DEF Init, Backward, Ffs
  <2>2. {j \in 0 .. i - 1 : call.a[j] = call.c} = {}
    BY <1>1
  <2> QED BY <2>1, <2>2 DEF LastMatch, LastOf
<1> QED BY <1>1, <1>2 DEF SearchInv, ReadsInside, ResultAsPromised

LEMMA StepKeepsInvariant == SearchInv /\ [Next]_vars => SearchInv'
<1> SUFFICES ASSUME SearchInv, [Next]_vars PROVE SearchInv'
  OBVIOUS
<1>1. CASE MemChr
  BY <1>1, MemChrIterates, IterationKeeps
<1>2. CASE MemRChr
  BY <1>2, MemRChrIterates, IterationKeeps
<1>3. CASE StrChr \/ Index
  BY <1>3, FindFirstIterates, IterationKeeps
<1>4. CASE StrRChr \/ RIndex
  BY <1>4, FindLastIterates, IterationKeeps
<1>5. CASE StrLen
  BY <1>5, StrLenIterates, IterationKeeps
<1>6. CASE MemCmp \/ StrCmp \/ StrNCmp \/ StrCaseCmp \/ StrNCaseCmp
  BY <1>6, CompareIterates, IterationKeeps
<1>7. CASE StrSpn \/ StrCSpn \/ StrPBrk
  BY <1>7, SpanIterates, IterationKeeps
<1>8. CASE StrStr
  BY <1>8, StrStrIterates, IterationKeeps
<1>9. CASE FindFirstSet \/ Classify \/ Describe
  BY <1>9, OthersIterate, IterationKeeps
<1>10. CASE UNCHANGED vars
  BY <1>10 DEF vars, SearchInv, ReadsInside, ResultAsPromised
<1> QED BY <1>1, <1>2, <1>3, <1>4, <1>5, <1>6, <1>7, <1>8, <1>9, <1>10 DEF Next

(* Every iteration that a loop goes on behind was passed for a reason, so  *)
(* that it stops where its document says, whatever the arrays hold.        *)
THEOREM SearchInvariant == Spec => []SearchInv
BY InitKeepsInvariant, StepKeepsInvariant, PTL DEF Spec

(* No function looks behind a terminator, behind the bytes of an array     *)
(* without one or in front of an array, for arrays of every length; but    *)
(* for strnlen, which does so when its array has no terminator.            *)
THEOREM SearchesReadInside == Spec => []ReadsInside
<1>1. SearchInv => ReadsInside
  BY DEF SearchInv
<1> QED BY <1>1, SearchInvariant, PTL

(* What is returned is what the document says of the whole arrays, the     *)
(* sign where arrays are compared, for arrays of every length, of every    *)
(* function but ffs, and of the backward searches with what fits a char.   *)
THEOREM SearchesKeepPromise == Spec => [](Judged(call) => ResultAsPromised)
<1>1. SearchInv => (Judged(call) => ResultAsPromised)
  BY DEF SearchInv
<1> QED BY <1>1, SearchInvariant, PTL

-----------------------------------------------------------------------------
(* The calls without arrays: one step, from the number alone.              *)
LEMMA StepsOfCalls ==
  ASSUME Next
  PROVE  /\ call' = call
         /\ call.fn = "ctype" => Classify
         /\ call.fn = "strerror" => Describe
BY DEF Next, In, MemChr, MemRChr, StrChr, Index, StrRChr, RIndex, StrLen, MemCmp, StrCmp,
   StrNCmp, StrCaseCmp, StrNCaseCmp, StrSpn, StrCSpn, StrPBrk, StrStr, FindFirstSet,
   Classify, Describe, Ffs

LEMMA IntegerCalls == \A c \in Calls : c.c \in Int
BY ArgumentsAssumption

LEMMA InClass ==
  ASSUME NEW c
  PROVE  /\ "ascii" \in Class(c) <=> c \in isascii
         /\ "alnum" \in Class(c) <=> c \in isalnum
         /\ "alpha" \in Class(c) <=> c \in isalpha
         /\ "blank" \in Class(c) <=> c \in isblank
         /\ "cntrl" \in Class(c) <=> c \in iscntrl
         /\ "digit" \in Class(c) <=> c \in isdigit
         /\ "graph" \in Class(c) <=> c \in isgraph
         /\ "lower" \in Class(c) <=> c \in islower
         /\ "print" \in Class(c) <=> c \in isprint
         /\ "punct" \in Class(c) <=> c \in ispunct
         /\ "space" \in Class(c) <=> c \in isspace
         /\ "upper" \in Class(c) <=> c \in isupper
         /\ "xdigit" \in Class(c) <=> c \in isxdigit
BY DEF Class

LEMMA ClassifyAgrees ==
  ASSUME call.c \in Int, Classify, call' = call
  PROVE  ClassesAgree'
<1> DEFINE c == call.c
           is == Class(c)
<1>1. result' = [class |-> is, ascii |-> toascii(c), lower |-> tolower(c), upper |-> toupper(c)]
  BY DEF Classify, Return
<1>2. /\ "alpha" \in is <=> ("upper" \in is) # ("lower" \in is)
      /\ "alnum" \in is <=> ("alpha" \in is) # ("digit" \in is)
      /\ "graph" \in is <=> ("alnum" \in is) # ("punct" \in is)
      /\ "print" \in is <=> "graph" \in is \/ c = 32
      /\ "ascii" \in is <=> ("print" \in is) # ("cntrl" \in is)
      /\ "xdigit" \in is => "alnum" \in is
      /\ "digit" \in is => "xdigit" \in is
      /\ "blank" \in is => "space" \in is
      /\ "space" \in is => c = 32 \/ "cntrl" \in is
  <2> HIDE DEF is
  <2>1. c \in Int /\ is = Class(c)
    BY DEF is
  <2>2. /\ c \in isalpha <=> (c \in isupper) # (c \in islower)
        /\ c \in isalnum <=> (c \in isalpha) # (c \in isdigit)
        /\ c \in isgraph <=> (c \in isalnum) # (c \in ispunct)
        /\ c \in isprint <=> c \in isgraph \/ c = 32
        /\ c \in isascii <=> (c \in isprint) # (c \in iscntrl)
        /\ c \in isxdigit => c \in isalnum
        /\ c \in isdigit => c \in isxdigit
        /\ c \in isblank => c \in isspace
        /\ c \in isspace => c = 32 \/ c \in iscntrl
    BY SMTT(30), <2>1 DEF isascii, isalnum, isalpha, isblank, iscntrl, isdigit, isgraph, islower,
       isprint, ispunct, isspace, isupper, isxdigit
  <2> QED BY <2>1, <2>2, InClass
<1>3. /\ "upper" \in is <=> tolower(c) # c
      /\ "lower" \in is <=> toupper(c) # c
      /\ toupper(tolower(c)) = toupper(c) /\ tolower(toupper(c)) = tolower(c)
  BY InClass DEF tolower, toupper, islower, isupper
<1>4. toascii(c) \in isascii /\ ("ascii" \in is => toascii(c) = c)
  BY InClass DEF toascii, isascii
<1> HIDE DEF is
<1>5. /\ result'.class = is /\ result'.ascii = toascii(c)
      /\ result'.lower = tolower(c) /\ result'.upper = toupper(c)
  BY <1>1
<1> QED BY <1>2, <1>3, <1>4, <1>5 DEF ClassesAgree

(* The classes cut up every int in the same way, EOF and the bytes that    *)
(* are negative as chars included.                                         *)
THEOREM ClassesAlwaysAgree == Spec => []ClassesAgree
<1> DEFINE Inv == call \in Calls /\ ClassesAgree
<1>1. Init => Inv
  BY DEF Init, ClassesAgree
<1>2. Inv /\ [Next]_vars => Inv'
  <2> SUFFICES ASSUME Inv, [Next]_vars PROVE Inv'
    OBVIOUS
  <2>1. CASE UNCHANGED vars
    BY <2>1 DEF vars, ClassesAgree
  <2>2. CASE Next
    <3>1. call' = call /\ call.c \in Int
      BY <2>2, StepsOfCalls, IntegerCalls
    <3>2. CASE call.fn = "ctype"
      BY <2>2, <3>1, <3>2, StepsOfCalls, ClassifyAgrees
    <3>3. CASE call.fn # "ctype"
      BY <3>1, <3>3 DEF ClassesAgree
    <3> QED BY <3>1, <3>2, <3>3
  <2> QED BY <2>1, <2>2
<1>3. Inv => ClassesAgree
  OBVIOUS
<1> QED BY <1>1, <1>2, <1>3, PTL DEF Spec

LEMMA DescribeMatches ==
  ASSUME call.c \in Int, Describe, call' = call
  PROVE  TextMatches'
<1> DEFINE c == call.c
<1>1. result' = strerror(c)
  BY DEF Describe, Return
<1>2. CASE c < 0 \/ c > ENOTSUP
  <2>1. result'.text = NoText /\ result'.errno = EINVAL
    BY <1>1, <1>2 DEF strerror
  <2> QED BY <2>1 DEF TextMatches, EINVAL
<1>3. CASE ~(c < 0 \/ c > ENOTSUP)
  <2>1. c \in 0 .. 95
    BY <1>3 DEF ENOTSUP
  <2>2. result'.text = kErrorStrings[c] /\ result'.errno = 0
    BY <1>1, <1>3 DEF strerror
  <2>3. kErrorStrings[c] = IF c = 41 THEN 11 ELSE IF c = 58 THEN 35 ELSE c
    BY <2>1 DEF kErrorStrings
  <2> QED BY <2>1, <2>2, <2>3 DEF TextMatches, EINVAL, NoText, Errors
<1> QED BY <1>2, <1>3

(* Whatever number strerror is asked about, a text it returns describes    *)
(* that error, and there is none exactly when errno is EINVAL.             *)
THEOREM TextsMatch == Spec => []TextMatches
<1> DEFINE Inv == call \in Calls /\ TextMatches
<1>1. Init => Inv
  BY DEF Init, TextMatches
<1>2. Inv /\ [Next]_vars => Inv'
  <2> SUFFICES ASSUME Inv, [Next]_vars PROVE Inv'
    OBVIOUS
  <2>1. CASE UNCHANGED vars
    BY <2>1 DEF vars, TextMatches
  <2>2. CASE Next
    <3>1. call' = call /\ call.c \in Int
      BY <2>2, StepsOfCalls, IntegerCalls
    <3>2. CASE call.fn = "strerror"
      BY <2>2, <3>1, <3>2, StepsOfCalls, DescribeMatches
    <3>3. CASE call.fn # "strerror"
      BY <3>1, <3>3 DEF TextMatches
    <3> QED BY <3>1, <3>2, <3>3
  <2> QED BY <2>1, <2>2
<1>3. Inv => TextMatches
  OBVIOUS
<1> QED BY <1>1, <1>2, <1>3, PTL DEF Spec
=============================================================================
