---------------------------- MODULE StrtokProofs ----------------------------
(***************************************************************************)
(* Proofs about strtok and strtok_r for any strings, delimiter sets and    *)
(* number of saved pointers.                                               *)
(***************************************************************************)
EXTENDS Strtok, SequenceTheorems, WellFoundedInduction, TLAPS

(* A set of naturals that is not empty has a least element, since the      *)
(* order of the naturals is well-founded.                                  *)
LEMMA MinOfNaturals ==
  ASSUME NEW S \in SUBSET Nat, S # {}
  PROVE  Min(S) \in S /\ \A x \in S : Min(S) <= x
<1> DEFINE R == OpToRel(<, Nat)
<1>1. R = {ss \in Nat \X Nat : ss[1] < ss[2]}
  BY DEF OpToRel
<1>2. PICK least \in S : \A m \in S : ~ (<<m, least>> \in R)
  <2>1. IsWellFoundedOn(R, Nat)
    BY NatLessThanWellFounded
  <2> HIDE DEF R
  <2> QED BY <2>1, WFMin
<1>3. ASSUME NEW m \in S, m < least PROVE <<m, least>> \in R
  <2> DEFINE pair == <<m, least>>
  <2>1. pair \in Nat \X Nat /\ pair[1] = m /\ pair[2] = least
    OBVIOUS
  <2> HIDE DEF pair, R
  <2>2. pair \in R
    BY <1>1, <1>3, <2>1
  <2> QED BY <2>2 DEF pair
<1> HIDE DEF R
<1>4. ASSUME NEW m \in S PROVE ~ (m < least)
  BY <1>2, <1>3
<1>5. \A m \in S : least <= m
  BY <1>4
<1> QED BY <1>5 DEF Min

-----------------------------------------------------------------------------
(* The part of the invariant that speaks of the strings alone.             *)
Memory ==
  /\ text \in [Buffers -> Seq(Letters \cup {NUL})]
  /\ \A b \in Buffers : Terminated(text[b])

(* strspn finds the first byte from p on that is no delimiter.             *)
LEMMA SkipDelimsFinds ==
  ASSUME Memory, NEW p \in Pointers, p.off <= Len(text[p.buf]), NEW delim \in Delims
  PROVE  LET q == SkipDelims(p, delim)
         IN  /\ q \in Pointers /\ q.buf = p.buf
             /\ p.off <= q.off /\ q.off <= Len(text[p.buf])
             /\ text[p.buf][q.off] \notin delim
             /\ \A i \in p.off .. q.off - 1 : text[p.buf][i] \in delim
<1> DEFINE t == text[p.buf]
           n == Len(t)
           S == {i \in p.off .. n : t[i] \notin delim}
<1>1. /\ p.buf \in Buffers /\ p.off \in 1 .. MaxLen + 1
      /\ t \in Seq(Letters \cup {NUL}) /\ n \in 1 .. MaxLen + 1 /\ t[n] = NUL
      /\ MaxLen \in Nat
  BY MaxLenAssumption DEF Pointers, Memory, Terminated
<1>2. NUL \notin delim
  BY BytesAssumption
<1>3. n \in S
  BY <1>1, <1>2
<1>4. S \subseteq Nat
  BY <1>1
<1> HIDE DEF t, n
<1>5. Min(S) \in S /\ \A i \in S : Min(S) <= i
  BY <1>3, <1>4, MinOfNaturals
<1>6. Min(S) \in p.off .. n /\ t[Min(S)] \notin delim
  BY <1>5
<1>7. \A i \in p.off .. Min(S) - 1 : t[i] \in delim
  BY <1>1, <1>5, <1>6
<1> HIDE DEF S
<1>8. SkipDelims(p, delim) = [p EXCEPT !.off = Min(S)]
  BY DEF SkipDelims, S, t, n
<1> DEFINE m == Min(S)
           q == SkipDelims(p, delim)
<1>9. q.buf = p.buf /\ q.off = m /\ (m \in 1 .. MaxLen + 1 => q \in Pointers)
  BY <1>8 DEF Pointers
<1>10. m \in p.off .. n /\ t[m] \notin delim /\ \A i \in p.off .. m - 1 : t[i] \in delim
  BY <1>6, <1>7
<1> HIDE DEF m, q
<1>11. m \in 1 .. MaxLen + 1 /\ p.off <= m /\ m <= n
  BY <1>1, <1>10
<1> QED BY <1>9, <1>10, <1>11 DEF q, t, n

(* strcspn finds the first byte from p on that is a delimiter or the end.  *)
LEMMA SkipTokenFinds ==
  ASSUME Memory, NEW p \in Pointers, p.off <= Len(text[p.buf]), NEW delim \in Delims
  PROVE  LET q == SkipToken(p, delim)
         IN  /\ q \in Pointers /\ q.buf = p.buf
             /\ p.off <= q.off /\ q.off <= Len(text[p.buf])
             /\ text[p.buf][q.off] \in delim \cup {NUL}
             /\ \A i \in p.off .. q.off - 1 : text[p.buf][i] \notin delim \cup {NUL}
<1> DEFINE t == text[p.buf]
           n == Len(t)
           S == {i \in p.off .. n : t[i] \in delim \cup {NUL}}
<1>1. /\ p.buf \in Buffers /\ p.off \in 1 .. MaxLen + 1
      /\ t \in Seq(Letters \cup {NUL}) /\ n \in 1 .. MaxLen + 1 /\ t[n] = NUL
      /\ MaxLen \in Nat
  BY MaxLenAssumption DEF Pointers, Memory, Terminated
<1>2. n \in S
  BY <1>1
<1>3. S \subseteq Nat
  BY <1>1
<1> HIDE DEF t, n
<1>4. Min(S) \in S /\ \A i \in S : Min(S) <= i
  BY <1>2, <1>3, MinOfNaturals
<1>5. Min(S) \in p.off .. n /\ t[Min(S)] \in delim \cup {NUL}
  BY <1>4
<1>6. \A i \in p.off .. Min(S) - 1 : t[i] \notin delim \cup {NUL}
  BY SMTT(30), <1>1, <1>4, <1>5
<1> HIDE DEF S
<1>7. SkipToken(p, delim) = [p EXCEPT !.off = Min(S)]
  BY DEF SkipToken, S, t, n
<1> QED BY <1>1, <1>5, <1>6, <1>7 DEF Pointers, t, n

-----------------------------------------------------------------------------
Types == TypeOK /\ HistoryOK

(* What a token call does, with pointers taken apart: it starts at p, the  *)
(* token is from .. to - 1, and the byte at to is overwritten.             *)
TokenAt(s, str, delim, b, p, from, to) ==
  /\ StartOf(s, str) # Nullptr /\ StartOf(s, str) = [buf |-> b, off |-> p]
  /\ 1 <= p /\ p <= from /\ from < to /\ to <= Len(text[b])
  /\ \A i \in p .. from - 1 : text[b][i] \in delim
  /\ \A i \in from .. to - 1 : text[b][i] \notin delim \cup {NUL}
  /\ text[b][to] \in delim \cup {NUL}
  /\ text' = [text EXCEPT ![b] = [text[b] EXCEPT ![to] = NUL]]
  /\ Save(s, [buf |-> b, off |-> IF text[b][to] = NUL THEN to ELSE to + 1])
  /\ tokens' = [tokens EXCEPT ![s] =
       Append(History(s, str), [buf |-> b, from |-> from, to |-> to, delim |-> delim])]
  /\ ended' = [ended EXCEPT ![s] = FALSE]

LEMMA StartIsPointer ==
  ASSUME Types, NEW s \in Slots, NEW str \in Buffers \cup {Nullptr},
         StartOf(s, str) # Nullptr
  PROVE  /\ StartOf(s, str) \in Pointers
         /\ StartOf(s, str).off <= Len(text[StartOf(s, str).buf])
<1>1. CASE str # Nullptr
  <2>1. str \in Buffers /\ Len(text[str]) \in 1 .. MaxLen + 1 /\ MaxLen \in Nat
    BY <1>1, MaxLenAssumption DEF Types, HistoryOK, Terminated
  <2> QED BY <1>1, <2>1 DEF StartOf, Pointers
<1>2. CASE str = Nullptr
  BY <1>2 DEF StartOf, OldStr, Types, TypeOK
<1> QED BY <1>1, <1>2

LEMMA TokenShape ==
  ASSUME Types, NEW s \in Slots, NEW str \in Buffers \cup {Nullptr}, NEW delim \in Delims,
         Token(s, str, delim)
  PROVE  \E b \in Buffers, p, from, to \in Nat : TokenAt(s, str, delim, b, p, from, to)
<1> DEFINE start == StartOf(s, str)
           first == SkipDelims(start, delim)
           next  == Advance(first)
           last  == SkipToken(next, delim)
           b == start.buf
<1>1. start \in Pointers /\ start.off <= Len(text[b]) /\ Memory
  BY StartIsPointer DEF Token, Types, TypeOK, HistoryOK, Memory
<1>2. /\ text[first.buf][first.off] # NUL
      /\ start # Nullptr
      /\ text' = [text EXCEPT ![last.buf][last.off] = NUL]
      /\ Save(s, Behind(last))
      /\ ReturnToken(s, str, delim, first, last)
  BY DEF Token, Byte
<1> HIDE DEF start
<1>3. /\ first \in Pointers /\ first.buf = b
      /\ start.off <= first.off /\ first.off <= Len(text[b])
      /\ text[b][first.off] \notin delim
      /\ \A i \in start.off .. first.off - 1 : text[b][i] \in delim
  BY <1>1, SkipDelimsFinds
<1> HIDE DEF first
<1>4. /\ Len(text[b]) \in 1 .. MaxLen + 1 /\ text[b][Len(text[b])] = NUL
      /\ b \in Buffers /\ MaxLen \in Nat
      /\ start.off \in 1 .. MaxLen + 1 /\ first.off \in 1 .. MaxLen + 1
  BY <1>1, <1>3, MaxLenAssumption DEF Memory, Terminated, Pointers
<1>5. first.off < Len(text[b])
  BY <1>2, <1>3, <1>4
<1>6. next \in Pointers /\ next.buf = b /\ next.off = first.off + 1
  BY SMTT(30), <1>3, <1>4, <1>5 DEF Advance, Pointers
<1> HIDE DEF next
<1>7. /\ last \in Pointers /\ last.buf = b
      /\ next.off <= last.off /\ last.off <= Len(text[b])
      /\ text[b][last.off] \in delim \cup {NUL}
      /\ \A i \in next.off .. last.off - 1 : text[b][i] \notin delim \cup {NUL}
  BY SMTT(30), <1>1, <1>4, <1>5, <1>6, SkipTokenFinds
<1> HIDE DEF last
<1>8. last.off \in 1 .. MaxLen + 1
  BY <1>7 DEF Pointers
<1>9. Behind(last) = [buf |-> b, off |-> IF text[b][last.off] = NUL THEN last.off
                                        ELSE last.off + 1]
  <2>1. last = [buf |-> b, off |-> last.off]
    BY <1>7 DEF Pointers
  <2>2. Advance(last) = [buf |-> b, off |-> last.off + 1]
    BY <1>7 DEF Pointers, Advance
  <2> QED BY <1>7, <2>1, <2>2 DEF Behind, Byte
<1>10. start = [buf |-> b, off |-> start.off]
  BY <1>1 DEF Pointers
<1>11. \A i \in first.off .. last.off - 1 : text[b][i] \notin delim \cup {NUL}
  <2> SUFFICES ASSUME NEW i \in first.off .. last.off - 1
               PROVE  text[b][i] \notin delim \cup {NUL}
    OBVIOUS
  <2>1. CASE i = first.off
    BY <2>1, <1>2, <1>3
  <2>2. CASE i # first.off
    BY <2>2, <1>4, <1>6, <1>7, <1>8
  <2> QED BY <2>1, <2>2
<1>12. text' = [text EXCEPT ![b] = [text[b] EXCEPT ![last.off] = NUL]]
  BY <1>2, <1>4, <1>7 DEF Types, TypeOK
<1>13. /\ tokens' = [tokens EXCEPT ![s] =
            Append(History(s, str),
                   [buf |-> b, from |-> first.off, to |-> last.off, delim |-> delim])]
       /\ ended' = [ended EXCEPT ![s] = FALSE]
  BY <1>2, <1>3 DEF ReturnToken
<1>14. TokenAt(s, str, delim, b, start.off, first.off, last.off)
  BY <1>2, <1>3, <1>4, <1>6, <1>7, <1>8, <1>9, <1>10, <1>11, <1>12, <1>13
  DEF TokenAt, start
<1> QED BY <1>4, <1>8, <1>14

(* A call that returns nullptr changes nothing but the history.            *)
Quiet(s, str) ==
  /\ text' = text /\ saved' = saved
  /\ tokens' = [tokens EXCEPT ![s] = History(s, str)]
  /\ ended' = [ended EXCEPT ![s] = TRUE]

(* A call returns nullptr or a token.                                      *)
LEMMA CallShape ==
  ASSUME Types, NEW s \in Slots, NEW str \in Buffers \cup {Nullptr}, NEW delim \in Delims,
         Call(s, str, delim)
  PROVE  \/ Quiet(s, str)
         \/ \E b \in Buffers, p, from, to \in Nat : TokenAt(s, str, delim, b, p, from, to)
BY TokenShape DEF Call, NothingSaved, NoToken, ReturnNullptr, Quiet

(* What a call passes in becomes the string of its slot.                   *)
LEMMA CallHistory ==
  ASSUME Types, NEW s \in Slots, NEW str \in Buffers \cup {Nullptr}, NEW delim \in Delims,
         Call(s, str, delim)
  PROVE  /\ current'[s] = IF str = Nullptr THEN current[s] ELSE str
         /\ orig'[s] = IF str = Nullptr THEN orig[s] ELSE text[str]
         /\ \A r \in Slots \ {s} : current'[r] = current[r] /\ orig'[r] = orig[r]
         /\ current' \in [Slots -> Buffers \cup {Nullptr}]
         /\ orig' \in [Slots -> Seq(Letters \cup {NUL})]
         /\ History(s, str) \in Seq([buf : Buffers, from : Nat, to : Nat, delim : Delims])
<1> DEFINE Toks == [buf : Buffers, from : Nat, to : Nat, delim : Delims]
<1>1. History(s, str) \in Seq(Toks)
  <2>1. tokens[s] \in Seq(Toks)
    BY DEF Types, HistoryOK
  <2> HIDE DEF Toks
  <2>2. << >> \in Seq(Toks)
    BY EmptySeq
  <2> QED BY <2>1, <2>2 DEF History
<1> QED BY <1>1 DEF Call, Types, TypeOK, HistoryOK

LEMMA CallKeepsLengths ==
  ASSUME Types, NEW s \in Slots, NEW str \in Buffers \cup {Nullptr}, NEW delim \in Delims,
         Call(s, str, delim), NEW r \in Slots, current'[r] # Nullptr
  PROVE  Len(orig'[r]) = Len(text[current'[r]])
<1>1. /\ current'[s] = IF str = Nullptr THEN current[s] ELSE str
      /\ orig'[s] = IF str = Nullptr THEN orig[s] ELSE text[str]
      /\ \A q \in Slots \ {s} : current'[q] = current[q] /\ orig'[q] = orig[q]
  BY CallHistory
<1>2. current[r] # Nullptr => Len(orig[r]) = Len(text[current[r]])
  BY DEF Types, HistoryOK
<1>3. CASE r = s /\ str # Nullptr
  BY <1>1, <1>3
<1>4. CASE ~(r = s /\ str # Nullptr)
  <2>1. current'[r] = current[r] /\ orig'[r] = orig[r]
    BY <1>1, <1>4
  <2> QED BY <1>2, <2>1
<1> QED BY <1>3, <1>4

LEMMA InitTypes == Init => Types
<1> SUFFICES ASSUME Init PROVE Types
  OBVIOUS
<1>1. ASSUME NEW n \in 0 .. MaxLen, NEW t \in [1 .. n -> Letters]
      PROVE  /\ Append(t, NUL) \in Seq(Letters \cup {NUL})
             /\ Terminated(Append(t, NUL))
  <2>1. t \in Seq(Letters \cup {NUL}) /\ Len(t) = n /\ n \in Nat
    BY MaxLenAssumption
  <2>2. /\ Append(t, NUL) \in Seq(Letters \cup {NUL})
        /\ Len(Append(t, NUL)) = n + 1
        /\ Append(t, NUL)[n + 1] = NUL
    BY <2>1, AppendProperties
  <2> QED BY <2>1, <2>2, MaxLenAssumption DEF Terminated
<1>2. \A t \in Strings : t \in Seq(Letters \cup {NUL}) /\ Terminated(t)
  <2> SUFFICES ASSUME NEW u \in Strings
               PROVE  u \in Seq(Letters \cup {NUL}) /\ Terminated(u)
    OBVIOUS
  <2>1. PICK n \in 0 .. MaxLen : u \in {Append(t, NUL) : t \in [1 .. n -> Letters]}
    BY DEF Strings
  <2>2. PICK t \in [1 .. n -> Letters] : u = Append(t, NUL)
    BY <2>1
  <2> QED BY <1>1, <2>2
<1>3. \A b \in Buffers : text[b] \in Strings
  BY DEF Init
<1>4. text \in [Buffers -> Seq(Letters \cup {NUL})] /\ \A b \in Buffers : Terminated(text[b])
  BY <1>2, <1>3 DEF Init
<1>5. <<NUL>> \in Seq(Letters \cup {NUL})
  OBVIOUS
<1>6. \A s \in Slots : saved[s] = Nullptr /\ current[s] = Nullptr
  BY DEF Init
<1>7. TypeOK
  BY <1>4, <1>6 DEF Init, TypeOK
<1>8. HistoryOK
  BY <1>4, <1>5, <1>6 DEF Init, HistoryOK
<1> QED BY <1>7, <1>8 DEF Types

(* One byte of one string is overwritten.                                  *)
Overwrites(b, to) ==
  /\ \A c \in Buffers \ {b} : text'[c] = text[c]
  /\ \A i \in 1 .. Len(text[b]) : text'[b][i] = IF i = to THEN NUL ELSE text[b][i]

(* A token's terminator goes into a string without changing its length.    *)
LEMMA TokenKeepsStrings ==
  ASSUME Types, NEW s \in Slots, NEW str \in Buffers \cup {Nullptr}, NEW delim \in Delims,
         NEW b \in Buffers, NEW p \in Nat, NEW from \in Nat, NEW to \in Nat,
         TokenAt(s, str, delim, b, p, from, to)
  PROVE  /\ text' \in [Buffers -> Seq(Letters \cup {NUL})]
         /\ \A c \in Buffers : Len(text'[c]) = Len(text[c]) /\ Terminated(text'[c])
         /\ Overwrites(b, to)
<1> DEFINE t == [text[b] EXCEPT ![to] = NUL]
<1>1. /\ text[b] \in Seq(Letters \cup {NUL}) /\ to \in 1 .. Len(text[b])
      /\ text[b][Len(text[b])] = NUL /\ Len(text[b]) \in 1 .. MaxLen + 1
  BY MaxLenAssumption DEF Types, TypeOK, HistoryOK, Terminated, TokenAt
<1>2. /\ t \in Seq(Letters \cup {NUL}) /\ Len(t) = Len(text[b])
      /\ \A i \in 1 .. Len(text[b]) : t[i] = IF i = to THEN NUL ELSE text[b][i]
  BY <1>1, ExceptSeq
<1> HIDE DEF t
<1>3. text' = [text EXCEPT ![b] = t]
  BY DEF TokenAt, t
<1>4. Terminated(t)
  BY <1>1, <1>2 DEF Terminated
<1> QED BY <1>2, <1>3, <1>4 DEF Types, TypeOK, HistoryOK, Overwrites

LEMMA TypesStep == Types /\ [Next]_vars => Types'
<1> SUFFICES ASSUME Types, [Next]_vars PROVE Types'
  OBVIOUS
<1>1. ASSUME NEW s \in Slots, NEW str \in Buffers \cup {Nullptr}, NEW delim \in Delims,
             Call(s, str, delim)
      PROVE  Types'
  <2>1. CASE Quiet(s, str)
    <3>1. TypeOK'
      BY <1>1, <2>1, CallHistory DEF Quiet, Types, TypeOK
    <3>2. tokens' \in [Slots -> Seq([buf : Buffers, from : Nat, to : Nat, delim : Delims])]
      BY <1>1, <2>1, CallHistory DEF Quiet, Types, HistoryOK
    <3>3. ASSUME NEW r \in Slots, current'[r] # Nullptr
          PROVE  Len(orig'[r]) = Len(text'[current'[r]])
      <4>1. text' = text
        BY <2>1 DEF Quiet
      <4> QED BY <1>1, <3>3, <4>1, CallKeepsLengths
    <3>4. HistoryOK'
      BY <1>1, <2>1, <3>2, <3>3, CallHistory DEF Quiet, Types, HistoryOK, Terminated
    <3> QED BY <3>1, <3>4 DEF Types
  <2>2. ASSUME NEW b \in Buffers, NEW p \in Nat, NEW from \in Nat, NEW to \in Nat,
               TokenAt(s, str, delim, b, p, from, to)
        PROVE  Types'
    <3> DEFINE off == IF text[b][to] = NUL THEN to ELSE to + 1
    <3>1. /\ text' \in [Buffers -> Seq(Letters \cup {NUL})]
          /\ \A c \in Buffers : Len(text'[c]) = Len(text[c]) /\ Terminated(text'[c])
      BY <2>2, TokenKeepsStrings
    <3>2. /\ Len(text[b]) \in 1 .. MaxLen + 1 /\ text[b][Len(text[b])] = NUL
          /\ to \in 1 .. Len(text[b]) /\ MaxLen \in Nat
      BY <2>2, MaxLenAssumption DEF TokenAt, Types, HistoryOK, Terminated
    <3>3. off \in 1 .. MaxLen + 1 /\ off <= Len(text[b])
      BY <3>2
    <3> HIDE DEF off
    <3>4. saved' = saved \/ saved' = [saved EXCEPT ![s] = [buf |-> b, off |-> off]]
      BY <2>2 DEF TokenAt, Save, off
    <3>5. [buf |-> b, off |-> off] \in Pointers
      BY <3>3 DEF Pointers
    <3>6. saved' \in [Slots -> Pointers \cup {Nullptr}]
      BY <3>4, <3>5 DEF Types, TypeOK
    <3>7. ASSUME NEW r \in Slots, saved'[r] # Nullptr
          PROVE  saved'[r].off <= Len(text'[saved'[r].buf])
      <4>1. CASE saved'[r] = [buf |-> b, off |-> off]
        BY <4>1, <3>1, <3>3
      <4>2. CASE saved'[r] # [buf |-> b, off |-> off]
        <5>1. saved'[r] = saved[r] /\ saved[r] \in Pointers
          BY <4>2, <3>4, <3>7 DEF Types, TypeOK
        <5> QED BY <5>1, <3>1, <3>7 DEF Types, TypeOK, Pointers
      <4> QED BY <4>1, <4>2
    <3>8. ended' \in [Slots -> BOOLEAN]
      BY <2>2 DEF TokenAt, Types, TypeOK
    <3>9. TypeOK'
      BY <1>1, <3>1, <3>6, <3>7, <3>8, CallHistory DEF TypeOK
    <3>10. tokens' \in [Slots -> Seq([buf : Buffers, from : Nat, to : Nat, delim : Delims])]
      <4> DEFINE tok == [buf |-> b, from |-> from, to |-> to, delim |-> delim]
      <4>1. tok \in [buf : Buffers, from : Nat, to : Nat, delim : Delims]
        OBVIOUS
      <4> HIDE DEF tok
      <4>2. Append(History(s, str), tok)
              \in Seq([buf : Buffers, from : Nat, to : Nat, delim : Delims])
        BY <1>1, <4>1, CallHistory, AppendProperties
      <4>3. tokens' = [tokens EXCEPT ![s] = Append(History(s, str), tok)]
        BY <2>2 DEF TokenAt, tok
      <4> QED BY <4>2, <4>3 DEF Types, HistoryOK
    <3>11. ASSUME NEW r \in Slots, current'[r] # Nullptr
           PROVE  Len(orig'[r]) = Len(text'[current'[r]])
      <4>1. current'[r] \in Buffers
        BY <1>1, <3>11, CallHistory
      <4>2. Len(orig'[r]) = Len(text[current'[r]])
        BY <1>1, <3>11, CallKeepsLengths
      <4> QED BY <3>1, <4>1, <4>2
    <3>12. HistoryOK'
      BY <1>1, <3>1, <3>10, <3>11, CallHistory DEF HistoryOK, Terminated
    <3> QED BY <3>9, <3>12 DEF Types
  <2> QED BY <1>1, <2>1, <2>2, CallShape
<1>2. CASE UNCHANGED vars
  BY <1>2 DEF vars, Types, TypeOK, HistoryOK, Terminated
<1> QED BY <1>1, <1>2 DEF Next

(* Every call keeps the types, whatever clients do after nullptr.          *)
THEOREM StrtokTypes == Spec => []TypeOK
<1>1. Spec => []Types
  BY InitTypes, TypesStep, PTL DEF Spec
<1>2. Types => TypeOK
  BY DEF Types
<1> QED BY <1>1, <1>2, PTL

-----------------------------------------------------------------------------
(* A call that finds a token: its slot's string is the one searched, the   *)
(* search starts behind the last token, and from there on the string is    *)
(* as it was passed in.                                                    *)
Searches(s, str, b, p) ==
  /\ b = current'[s]
  /\ Len(orig'[s]) = Len(text[b])
  /\ \A i \in p .. Len(text[b]) : text[b][i] = orig'[s][i]
  /\ \A i \in 1 .. Len(text[b]) :
       text[b][i] = IF \E k \in 1 .. Len(History(s, str)) : History(s, str)[k].to = i
                    THEN NUL ELSE orig'[s][i]
  /\ p = IF Len(History(s, str)) = 0 THEN 1
         ELSE History(s, str)[Len(History(s, str))].to + 1
  /\ \A k \in 1 .. Len(History(s, str)) : History(s, str)[k].to \in 1 .. p - 1

LEMMA SearchOfFresh ==
  ASSUME TokenizerInv, NEW s \in Slots, NEW str \in Buffers, NEW delim \in Delims,
         NEW b \in Buffers, NEW p \in Nat, NEW from \in Nat, NEW to \in Nat,
         Call(s, str, delim), TokenAt(s, str, delim, b, p, from, to)
  PROVE  Searches(s, str, b, p)
<1>1. str # Nullptr
  BY NullptrAssumption
<1>2. [buf |-> b, off |-> p] = [buf |-> str, off |-> 1]
  BY <1>1 DEF TokenAt, StartOf
<1>3. b = str /\ p = 1
  BY <1>2
<1>4. Types
  BY DEF TokenizerInv, Types
<1>5. current'[s] = str /\ orig'[s] = text[str]
  BY <1>1, <1>4, CallHistory
<1>6. History(s, str) = << >>
  BY <1>1 DEF History
<1>7. Len(History(s, str)) = 0
  BY <1>6
<1> QED BY <1>3, <1>5, <1>7 DEF Searches

LEMMA SearchGoesOn ==
  ASSUME TokenizerInv, NEW s \in Slots, NEW delim \in Delims, ~ended[s],
         NEW b \in Buffers, NEW p \in Nat, NEW from \in Nat, NEW to \in Nat,
         Call(s, Nullptr, delim), TokenAt(s, Nullptr, delim, b, p, from, to)
  PROVE  Searches(s, Nullptr, b, p)
<1> DEFINE n == Len(tokens[s])
           last == tokens[s][n].to
<1>1. Types
  BY DEF TokenizerInv, Types
<1>2. current'[s] = current[s] /\ orig'[s] = orig[s] /\ History(s, Nullptr) = tokens[s]
  BY <1>1, CallHistory DEF History
<1>3. saved[s] = [buf |-> b, off |-> p] /\ saved[s] # Nullptr /\ s \notin Unsaved
  BY DEF TokenAt, StartOf, OldStr
<1>4. n \in Nat /\ n # 0
  <2>1. tokens[s] \in Seq([buf : Buffers, from : Nat, to : Nat, delim : Delims])
    BY <1>1 DEF Types, HistoryOK
  <2>2. n \in Nat
    BY <2>1, LenProperties
  <2>3. Len(tokens[s]) # 0
    BY <1>3 DEF TokenizerInv, SavedIsBehind
  <2> QED BY <2>2, <2>3
<1>5. saved[s] = [buf |-> current[s], off |-> IF orig[s][last] = NUL THEN last ELSE last + 1]
  BY <1>3, <1>4 DEF TokenizerInv, SavedIsBehind
<1>6. b = current[s] /\ p = IF orig[s][last] = NUL THEN last ELSE last + 1
  BY <1>3, <1>5
<1>7. b # Nullptr /\ Len(orig[s]) = Len(text[b]) /\ Len(text[b]) \in Nat
  BY SMTT(30), <1>1, <1>6, NullptrAssumption DEF Types, TypeOK, HistoryOK
<1>8. \A k \in 1 .. n : tokens[s][k].to \in 1 .. last
  <2>1. \A k \in 1 .. n : tokens[s][k].to \in Nat /\ tokens[s][k].to >= 1
    BY <1>1 DEF TokenizerInv, TokensAscend
  <2>2. \A k \in 1 .. n : k < n => tokens[s][k].to < last
    BY SMTT(30), <1>4 DEF TokenizerInv, TokensAscend
  <2>3. last \in Nat
    BY <1>4, <2>1
  <2>4. ASSUME NEW k \in 1 .. n PROVE tokens[s][k].to <= last
    <3>1. CASE k = n
      BY <2>3, <3>1
    <3>2. CASE k # n
      <4>1. k < n
        BY <1>4, <3>2
      <4>2. tokens[s][k].to < last /\ tokens[s][k].to \in Nat
        BY <2>1, <2>2, <4>1
      <4> QED BY SMTT(30), <2>3, <4>2
    <3> QED BY <3>1, <3>2
  <2> QED BY <2>1, <2>3, <2>4
<1>9. last \in 1 .. Len(text[b])
  BY <1>4, <1>7 DEF TokenizerInv, TokensAscend
<1>10. \A i \in 1 .. Len(text[b]) :
         text[b][i] = IF \E k \in 1 .. n : tokens[s][k].to = i THEN NUL ELSE orig[s][i]
  <2>1. DOMAIN orig[s] = 1 .. Len(text[b]) /\ DOMAIN tokens[s] = 1 .. n
    BY <1>1, <1>7 DEF Types, HistoryOK
  <2>2. \A i \in DOMAIN orig[s] :
          text[b][i] = IF \E k \in DOMAIN tokens[s] : tokens[s][k].to = i THEN NUL ELSE orig[s][i]
    BY <1>6, <1>7 DEF TokenizerInv, TokensStayTerminated
  <2> QED BY <2>1, <2>2
<1> HIDE DEF last, n
<1>11. p = last + 1
  <2> SUFFICES ASSUME orig[s][last] = NUL PROVE FALSE
    BY <1>6
  <2>1. p = last /\ text[b][p] = NUL
    BY <1>6, <1>9, <1>10
  <2>2. NUL \notin delim
    BY BytesAssumption
  <2>3. p = from
    BY <2>1, <2>2 DEF TokenAt
  <2> QED BY <2>1, <2>3 DEF TokenAt
<1>12. ASSUME NEW i \in p .. Len(text[b]) PROVE text[b][i] = orig[s][i]
  <2>1. i \in 1 .. Len(text[b]) /\ i > last /\ last \in Nat
    BY <1>9, <1>11
  <2>2. ~\E k \in 1 .. n : tokens[s][k].to = i
    BY <1>8, <2>1
  <2> QED BY <1>10, <2>1, <2>2
<1>13. /\ b = current'[s] /\ Len(orig'[s]) = Len(text[b])
       /\ \A i \in p .. Len(text[b]) : text[b][i] = orig'[s][i]
  BY <1>2, <1>6, <1>7, <1>12
<1>14. \A i \in 1 .. Len(text[b]) :
         text[b][i] = IF \E k \in 1 .. Len(History(s, Nullptr)) :
                             History(s, Nullptr)[k].to = i
                      THEN NUL ELSE orig'[s][i]
  BY <1>2, <1>10 DEF n
<1>15. /\ Len(History(s, Nullptr)) # 0
       /\ p = History(s, Nullptr)[Len(History(s, Nullptr))].to + 1
  BY <1>2, <1>4, <1>11 DEF n, last
<1>16. \A k \in 1 .. Len(History(s, Nullptr)) : History(s, Nullptr)[k].to \in 1 .. p - 1
  BY <1>2, <1>8, <1>9, <1>11, <1>7 DEF n
<1> QED BY <1>13, <1>14, <1>15, <1>16 DEF Searches

LEMMA TokenOwn ==
  ASSUME TokenizerInv, ContinueAfterNull = FALSE,
         NEW s \in Slots, NEW str \in Buffers \cup {Nullptr}, NEW delim \in Delims,
         NEW b \in Buffers, NEW p \in Nat, NEW from \in Nat, NEW to \in Nat,
         Call(s, str, delim), TokenAt(s, str, delim, b, p, from, to)
  PROVE  Searches(s, str, b, p)
<1>1. CASE str \in Buffers
  BY <1>1, SearchOfFresh
<1>2. CASE str = Nullptr
  <2>1. ~ended[s]
    BY <1>2 DEF Call
  <2> QED BY <1>2, <2>1, SearchGoesOn
<1> QED BY <1>1, <1>2

-----------------------------------------------------------------------------
(* The invariant's parts, of one slot: its tokens h, the bytes o its       *)
(* string came with, the string c, the saved pointer sv.                   *)
Ascends(h, o) ==
  \A k \in 1 .. Len(h) : /\ h[k].to \in 1 .. Len(o)
                         /\ \A j \in 1 .. k - 1 : h[j].to < h[k].to

CutAt(h, o, c, k) ==
  LET start == IF k = 1 THEN 1 ELSE h[k - 1].to + 1
  IN  /\ h[k].buf = c
      /\ start <= h[k].from /\ h[k].from < h[k].to
      /\ \A i \in start .. h[k].from - 1 : o[i] \in h[k].delim
      /\ \A i \in h[k].from .. h[k].to - 1 : o[i] \notin h[k].delim \cup {NUL}
      /\ o[h[k].to] \in h[k].delim \cup {NUL}

Written(h, o, t) ==
  \A i \in 1 .. Len(o) :
    t[i] = IF \E k \in 1 .. Len(h) : h[k].to = i THEN NUL ELSE o[i]

LastBehind(h, o, c, sv) ==
  IF Len(h) = 0 THEN sv = Nullptr
  ELSE sv = [buf |-> c, off |-> IF o[h[Len(h)].to] = NUL THEN h[Len(h)].to
                                ELSE h[Len(h)].to + 1]

SlotOK(s) ==
  /\ Ascends(tokens[s], orig[s])
  /\ \A k \in 1 .. Len(tokens[s]) : CutAt(tokens[s], orig[s], current[s], k)
  /\ current[s] # Nullptr => Written(tokens[s], orig[s], text[current[s]])
  /\ s \notin Unsaved /\ ~ended[s] => LastBehind(tokens[s], orig[s], current[s], saved[s])

Parts == Types /\ StringsAreOwned /\ \A s \in Slots : SlotOK(s)

LEMMA SlotByParts == TokenizerInv <=> Parts
<1>1. ASSUME Types, NEW s \in Slots
      PROVE  DOMAIN orig[s] = 1 .. Len(orig[s]) /\ DOMAIN tokens[s] = 1 .. Len(tokens[s])
  <2>1. /\ orig[s] \in Seq(Letters \cup {NUL})
        /\ tokens[s] \in Seq([buf : Buffers, from : Nat, to : Nat, delim : Delims])
    BY <1>1 DEF Types, HistoryOK
  <2> QED BY <2>1, LenProperties
<1>2. ASSUME NEW s \in Slots, NEW k
      PROVE  LET tok   == tokens[s][k]
                 start == IF k = 1 THEN 1 ELSE tokens[s][k - 1].to + 1
             IN  (/\ tok.buf = current[s]
                  /\ start <= tok.from /\ tok.from < tok.to
                  /\ Bytes(s, start, tok.from - 1) \subseteq tok.delim
                  /\ Bytes(s, tok.from, tok.to - 1) \cap (tok.delim \cup {NUL}) = {}
                  /\ orig[s][tok.to] \in tok.delim \cup {NUL})
                 <=> CutAt(tokens[s], orig[s], current[s], k)
  <2> DEFINE tok   == tokens[s][k]
             start == IF k = 1 THEN 1 ELSE tokens[s][k - 1].to + 1
             stop  == tok.delim \cup {NUL}
  <2>1. Bytes(s, start, tok.from - 1) \subseteq tok.delim
          <=> \A i \in start .. tok.from - 1 : orig[s][i] \in tok.delim
    BY DEF Bytes
  <2>2. Bytes(s, tok.from, tok.to - 1) \cap stop = {}
          <=> \A i \in tok.from .. tok.to - 1 : orig[s][i] \notin stop
    BY DEF Bytes
  <2>3. CutAt(tokens[s], orig[s], current[s], k)
          <=> /\ tok.buf = current[s]
              /\ start <= tok.from /\ tok.from < tok.to
              /\ \A i \in start .. tok.from - 1 : orig[s][i] \in tok.delim
              /\ \A i \in tok.from .. tok.to - 1 : orig[s][i] \notin stop
              /\ orig[s][tok.to] \in stop
    BY DEF CutAt
  <2> HIDE DEF tok, start, stop
  <2>4. (/\ tok.buf = current[s]
         /\ start <= tok.from /\ tok.from < tok.to
         /\ Bytes(s, start, tok.from - 1) \subseteq tok.delim
         /\ Bytes(s, tok.from, tok.to - 1) \cap stop = {}
         /\ orig[s][tok.to] \in stop)
        <=> CutAt(tokens[s], orig[s], current[s], k)
    BY <2>1, <2>2, <2>3
  <2> QED BY <2>4 DEF tok, start, stop
<1>3. Types => (TokensCutString <=> \A s \in Slots : \A k \in 1 .. Len(tokens[s]) :
                                      CutAt(tokens[s], orig[s], current[s], k))
  <2>1. TokensCutString <=> \A s \in Slots : \A k \in DOMAIN tokens[s] :
                              CutAt(tokens[s], orig[s], current[s], k)
    BY <1>2, ZenonT(60) DEF TokensCutString
  <2> QED BY <1>1, <2>1, Zenon
<1>4. TokensAscend <=> \A s \in Slots : Ascends(tokens[s], orig[s])
  BY DEF TokensAscend, Ascends
<1>5. Types => (TokensStayTerminated <=>
                \A s \in Slots : current[s] # Nullptr =>
                  Written(tokens[s], orig[s], text[current[s]]))
  <2> SUFFICES ASSUME Types
               PROVE  TokensStayTerminated <=>
                        \A s \in Slots : current[s] # Nullptr =>
                          Written(tokens[s], orig[s], text[current[s]])
    OBVIOUS
  <2>1. ASSUME NEW s \in Slots
        PROVE  (\A i \in DOMAIN orig[s] :
                  text[current[s]][i] = IF \E k \in DOMAIN tokens[s] : tokens[s][k].to = i
                                        THEN NUL ELSE orig[s][i])
               <=> Written(tokens[s], orig[s], text[current[s]])
    <3>1. DOMAIN orig[s] = 1 .. Len(orig[s]) /\ DOMAIN tokens[s] = 1 .. Len(tokens[s])
      BY <1>1
    <3> QED BY <3>1, Zenon DEF Written
  <2> QED BY <2>1, Zenon DEF TokensStayTerminated
<1>6. SavedIsBehind <=> \A s \in Slots : s \notin Unsaved /\ ~ended[s] =>
                          LastBehind(tokens[s], orig[s], current[s], saved[s])
  BY DEF SavedIsBehind, LastBehind
<1> QED BY <1>3, <1>4, <1>5, <1>6 DEF TokenizerInv, Parts, Types, SlotOK

LEMMA OwnedStep ==
  ASSUME TokenizerInv, NEW s \in Slots, NEW str \in Buffers \cup {Nullptr}, NEW delim \in Delims,
         Call(s, str, delim)
  PROVE  StringsAreOwned'
<1>1. /\ current'[s] = IF str = Nullptr THEN current[s] ELSE str
      /\ \A r \in Slots \ {s} : current'[r] = current[r]
  BY CallHistory DEF TokenizerInv, Types
<1>2. str # Nullptr => \A r \in Slots \ {s} : current[r] # str
  BY DEF Call
<1> QED BY <1>1, <1>2 DEF TokenizerInv, StringsAreOwned

(* A call leaves the slots of other strings as they are.                   *)
LEMMA OtherSlots ==
  ASSUME TokenizerInv, ContinueAfterNull = FALSE,
         NEW s \in Slots, NEW str \in Buffers \cup {Nullptr}, NEW delim \in Delims,
         Call(s, str, delim), NEW r \in Slots, r # s
  PROVE  SlotOK(r)'
<1>1. Types /\ SlotOK(r)
  BY SlotByParts DEF Parts
<1>2. current'[r] = current[r] /\ orig'[r] = orig[r]
  BY <1>1, CallHistory
<1>3. StringsAreOwned'
  BY OwnedStep
<1> DEFINE Kept ==
      /\ tokens'[r] = tokens[r] /\ ended'[r] = ended[r] /\ saved'[r] = saved[r]
      /\ current[r] # Nullptr => text'[current[r]] = text[current[r]]
<1>4. Kept
  <2>1. CASE Quiet(s, str)
    BY <1>1, <2>1 DEF Quiet, Types, TypeOK, HistoryOK
  <2>2. ASSUME NEW b \in Buffers, NEW p \in Nat, NEW from \in Nat, NEW to \in Nat,
               TokenAt(s, str, delim, b, p, from, to)
        PROVE  Kept
    <3>1. b = current'[s]
      <4>1. Searches(s, str, b, p)
        BY <2>2, TokenOwn
      <4> QED BY <4>1 DEF Searches
    <3>2. current[r] # Nullptr => current[r] \in Buffers \ {b}
      BY <1>1, <1>2, <1>3, <3>1 DEF StringsAreOwned, Types, TypeOK
    <3>3. current[r] # Nullptr => text'[current[r]] = text[current[r]]
      <4>1. \A c \in Buffers \ {b} : text'[c] = text[c]
        BY <1>1, <2>2 DEF TokenAt, Types, TypeOK
      <4> QED BY <3>2, <4>1
    <3>4. tokens'[r] = tokens[r] /\ ended'[r] = ended[r] /\ saved'[r] = saved[r]
      BY <1>1, <2>2 DEF TokenAt, Save, Types, TypeOK, HistoryOK
    <3> QED BY <3>3, <3>4
  <2> QED BY <1>1, <2>1, <2>2, CallShape
<1> QED BY <1>1, <1>2, <1>4 DEF SlotOK

(* What is known of the calling slot's history before the call's result.   *)
LEMMA HistoryHolds ==
  ASSUME TokenizerInv, NEW s \in Slots, NEW str \in Buffers \cup {Nullptr}, NEW delim \in Delims,
         Call(s, str, delim)
  PROVE  /\ Ascends(History(s, str), orig'[s])
         /\ \A k \in 1 .. Len(History(s, str)) :
              CutAt(History(s, str), orig'[s], current'[s], k)
         /\ current'[s] # Nullptr => Written(History(s, str), orig'[s], text[current'[s]])
<1>1. Types /\ SlotOK(s)
  BY SlotByParts DEF Parts
<1>2. CASE str = Nullptr
  <2>1. current'[s] = current[s] /\ orig'[s] = orig[s] /\ History(s, str) = tokens[s]
    BY <1>1, <1>2, CallHistory DEF History
  <2> QED BY <1>1, <2>1 DEF SlotOK
<1>3. CASE str # Nullptr
  <2>1. /\ current'[s] = str /\ orig'[s] = text[str] /\ History(s, str) = << >>
    BY <1>1, <1>3, CallHistory DEF History
  <2>2. Len(History(s, str)) = 0
    BY <2>1
  <2>3. \A i \in 1 .. Len(orig'[s]) : text[current'[s]][i] = orig'[s][i]
    BY <2>1
  <2> QED BY <2>2, <2>3 DEF Ascends, Written
<1> QED BY <1>2, <1>3

LEMMA QuietSlot ==
  ASSUME TokenizerInv, NEW s \in Slots, NEW str \in Buffers \cup {Nullptr}, NEW delim \in Delims,
         Call(s, str, delim), Quiet(s, str)
  PROVE  SlotOK(s)'
<1>1. tokens'[s] = History(s, str) /\ ended'[s] = TRUE /\ text' = text
  BY DEF Quiet, TokenizerInv, TypeOK, HistoryOK
<1> QED BY <1>1, HistoryHolds DEF SlotOK

(* A history and the token appended to it.                                 *)
LEMMA TokenAppended ==
  ASSUME TokenizerInv, NEW s \in Slots, NEW str \in Buffers \cup {Nullptr}, NEW delim \in Delims,
         NEW b \in Buffers, NEW p \in Nat, NEW from \in Nat, NEW to \in Nat,
         Call(s, str, delim), TokenAt(s, str, delim, b, p, from, to)
  PROVE  LET h == History(s, str)
             n == Len(h)
         IN  /\ n \in Nat /\ Len(tokens'[s]) = n + 1
             /\ \A k \in 1 .. n : tokens'[s][k] = h[k]
             /\ tokens'[s][n + 1].buf = b /\ tokens'[s][n + 1].from = from
             /\ tokens'[s][n + 1].to = to /\ tokens'[s][n + 1].delim = delim
             /\ ended'[s] = FALSE
             /\ s \notin Unsaved =>
                  saved'[s] = [buf |-> b, off |-> IF text[b][to] = NUL THEN to ELSE to + 1]
<1> DEFINE tok == [buf |-> b, from |-> from, to |-> to, delim |-> delim]
           h == History(s, str)
           Toks == [buf : Buffers, from : Nat, to : Nat, delim : Delims]
<1>1. h \in Seq(Toks)
  BY CallHistory DEF TokenizerInv, Types
<1>2. tokens' = [tokens EXCEPT ![s] = Append(h, tok)]
  BY DEF TokenAt
<1>3. tokens'[s] = Append(h, tok)
  BY <1>2 DEF TokenizerInv, HistoryOK
<1>4. tok \in Toks
  OBVIOUS
<1>5. /\ ended'[s] = FALSE
      /\ s \notin Unsaved =>
           saved'[s] = [buf |-> b, off |-> IF text[b][to] = NUL THEN to ELSE to + 1]
  BY DEF TokenAt, Save, TokenizerInv, TypeOK
<1>6. tok.buf = b /\ tok.from = from /\ tok.to = to /\ tok.delim = delim
  OBVIOUS
<1> HIDE DEF tok, h, Toks
<1>7. /\ Len(h) \in Nat /\ Len(tokens'[s]) = Len(h) + 1
      /\ \A k \in 1 .. Len(h) : tokens'[s][k] = h[k]
      /\ tokens'[s][Len(h) + 1] = tok
  BY <1>1, <1>3, <1>4, AppendProperties, LenProperties
<1> QED BY <1>5, <1>6, <1>7 DEF h

LEMMA TokenSlot ==
  ASSUME TokenizerInv, ContinueAfterNull = FALSE,
         NEW s \in Slots, NEW str \in Buffers \cup {Nullptr}, NEW delim \in Delims,
         NEW b \in Buffers, NEW p \in Nat, NEW from \in Nat, NEW to \in Nat,
         Call(s, str, delim), TokenAt(s, str, delim, b, p, from, to)
  PROVE  SlotOK(s)'
<1> DEFINE h == History(s, str)
           n == Len(h)
           o == orig'[s]
           toks == tokens'[s]
<1>1. /\ n \in Nat /\ Len(toks) = n + 1
      /\ \A k \in 1 .. n : toks[k] = h[k]
      /\ toks[n + 1].buf = b /\ toks[n + 1].from = from
      /\ toks[n + 1].to = to /\ toks[n + 1].delim = delim
      /\ ended'[s] = FALSE
      /\ s \notin Unsaved =>
           saved'[s] = [buf |-> b, off |-> IF text[b][to] = NUL THEN to ELSE to + 1]
  BY ZenonT(60), TokenAppended
<1>2. Searches(s, str, b, p)
  BY TokenOwn
<1>3. /\ b = current'[s] /\ Len(o) = Len(text[b])
      /\ \A i \in p .. Len(text[b]) : text[b][i] = o[i]
      /\ p = IF n = 0 THEN 1 ELSE h[n].to + 1
      /\ \A k \in 1 .. n : h[k].to \in 1 .. p - 1
  BY <1>2 DEF Searches
<1>4. /\ Ascends(h, o)
      /\ \A k \in 1 .. n : CutAt(h, o, b, k)
      /\ Written(h, o, text[b])
  BY <1>3, HistoryHolds, NullptrAssumption
<1>5. /\ 1 <= p /\ p <= from /\ from < to /\ to <= Len(text[b])
      /\ \A i \in p .. from - 1 : text[b][i] \in delim
      /\ \A i \in from .. to - 1 : text[b][i] \notin delim \cup {NUL}
      /\ text[b][to] \in delim \cup {NUL}
  BY DEF TokenAt
<1>6. /\ Len(text[b]) \in Nat
      /\ \A i \in 1 .. Len(text[b]) : text'[b][i] = IF i = to THEN NUL ELSE text[b][i]
  <2>1. Types
    BY DEF TokenizerInv, Types
  <2>2. text[b] \in Seq(Letters \cup {NUL})
    BY <2>1 DEF Types, TypeOK
  <2>3. Overwrites(b, to)
    BY <2>1, TokenKeepsStrings
  <2> QED BY <2>2, <2>3, LenProperties DEF Overwrites
<1> HIDE DEF h, n, o, toks
<1>7. Ascends(toks, o)
  <2> SUFFICES ASSUME NEW k \in 1 .. n + 1
               PROVE  /\ toks[k].to \in 1 .. Len(o)
                      /\ \A j \in 1 .. k - 1 : toks[j].to < toks[k].to
    BY <1>1 DEF Ascends
  <2>1. CASE k \in 1 .. n
    <3>1. toks[k] = h[k] /\ \A j \in 1 .. k - 1 : toks[j] = h[j]
      BY <2>1, <1>1
    <3>2. /\ h[k].to \in 1 .. Len(o)
          /\ \A j \in 1 .. k - 1 : h[j].to < h[k].to
      BY <2>1, <1>4 DEF Ascends, n
    <3> QED BY <3>1, <3>2
  <2>2. CASE k = n + 1
    <3>1. toks[k].to = to /\ to \in 1 .. Len(o)
      BY <2>2, <1>1, <1>3, <1>5, <1>6
    <3>2. ASSUME NEW j \in 1 .. k - 1 PROVE toks[j].to < to
      <4>1. j \in 1 .. n
        BY <2>2, <1>1
      <4>2. toks[j].to \in 1 .. p - 1
        BY <4>1, <1>1, <1>3
      <4>3. p <= to
        BY <1>5
      <4> QED BY <4>2, <4>3
    <3> QED BY <3>1, <3>2
  <2> QED BY <2>1, <2>2, <1>1
<1>8. ASSUME NEW k \in 1 .. n + 1 PROVE CutAt(toks, o, b, k)
  <2>1. CASE k \in 1 .. n
    <3>1. CutAt(h, o, b, k)
      BY <2>1, <1>4
    <3>2. toks[k] = h[k] /\ (k # 1 => toks[k - 1] = h[k - 1])
      BY <2>1, <1>1
    <3> QED BY <3>1, <3>2 DEF CutAt
  <2>2. CASE k = n + 1
    <3>1. p = IF k = 1 THEN 1 ELSE toks[k - 1].to + 1
      BY SMTT(30), <2>2, <1>1, <1>3
    <3>2. \A i \in p .. to : o[i] = text[b][i]
      <4>1. \A i \in p .. to : i \in p .. Len(text[b])
        BY <1>5, <1>6
      <4> QED BY <1>3, <4>1
    <3>3. /\ \A i \in p .. from - 1 : o[i] \in delim
          /\ \A i \in from .. to - 1 : o[i] \notin delim \cup {NUL}
          /\ o[to] \in delim \cup {NUL}
      BY <3>2, <1>5
    <3> QED BY <2>2, <3>1, <3>3, <1>1, <1>5 DEF CutAt
  <2> QED BY <2>1, <2>2, <1>1
<1>9. Written(toks, o, text'[b])
  <2> SUFFICES ASSUME NEW i \in 1 .. Len(o)
               PROVE  text'[b][i] = IF \E k \in 1 .. n + 1 : toks[k].to = i
                                    THEN NUL ELSE o[i]
    BY <1>1 DEF Written
  <2>1. text[b][i] = IF \E k \in 1 .. n : h[k].to = i THEN NUL ELSE o[i]
    BY <1>4 DEF Written, n
  <2>2. CASE i = to
    <3>1. n + 1 \in 1 .. n + 1 /\ toks[n + 1].to = i
      BY <2>2, <1>1
    <3>2. text'[b][i] = NUL
      BY <2>2, <1>3, <1>6
    <3> QED BY <3>1, <3>2
  <2>3. CASE i # to
    <3>2. \A k \in 1 .. n + 1 : k = n + 1 \/ k \in 1 .. n
      BY <1>1
    <3>3. \A k \in 1 .. n : k \in 1 .. n + 1
      BY <1>1
    <3>1. (\E k \in 1 .. n + 1 : toks[k].to = i) <=> \E k \in 1 .. n : h[k].to = i
      BY <2>3, <1>1, <3>2, <3>3
    <3> QED BY <2>1, <2>3, <3>1, <1>3, <1>6
  <2> QED BY <2>2, <2>3
<1>10. s \notin Unsaved => LastBehind(toks, o, b, saved'[s])
  <2>1. o[to] = text[b][to]
    BY <1>3, <1>5, <1>6
  <2>2. Len(toks) # 0 /\ toks[Len(toks)].to = to
    BY <1>1
  <2> QED BY <2>1, <2>2, <1>1 DEF LastBehind
<1> QED BY <1>1, <1>3, <1>7, <1>8, <1>9, <1>10 DEF SlotOK, toks, o

LEMMA InitSlots == Init => TokenizerInv
<1> SUFFICES ASSUME Init PROVE TokenizerInv
  OBVIOUS
<1>1. Types
  BY InitTypes
<1>2. StringsAreOwned
  BY DEF Init, StringsAreOwned
<1>3. ASSUME NEW s \in Slots PROVE SlotOK(s)
  <2>1. current[s] = Nullptr /\ Len(tokens[s]) = 0 /\ saved[s] = Nullptr
    BY DEF Init
  <2> QED BY <2>1 DEF SlotOK, Ascends, LastBehind
<1> QED BY <1>1, <1>2, <1>3, SlotByParts DEF Parts

LEMMA InvariantStep ==
  ASSUME ContinueAfterNull = FALSE
  PROVE  TokenizerInv /\ [Next]_vars => TokenizerInv'
<1> SUFFICES ASSUME TokenizerInv, [Next]_vars PROVE Parts'
  BY SlotByParts, PTL
<1>1. Types'
  BY TypesStep DEF TokenizerInv, Types
<1>2. StringsAreOwned' /\ \A r \in Slots : SlotOK(r)'
  <2>1. ASSUME NEW s \in Slots, NEW str \in Buffers \cup {Nullptr}, NEW delim \in Delims,
               Call(s, str, delim)
        PROVE  StringsAreOwned' /\ \A r \in Slots : SlotOK(r)'
    <3>1. StringsAreOwned'
      BY <2>1, OwnedStep
    <3>2. \A r \in Slots \ {s} : SlotOK(r)'
      BY <2>1, OtherSlots
    <3>3. SlotOK(s)'
      <4>1. Types
        BY DEF TokenizerInv, Types
      <4>2. CASE Quiet(s, str)
        BY <2>1, <4>2, QuietSlot
      <4>3. ASSUME NEW b \in Buffers, NEW p \in Nat, NEW from \in Nat, NEW to \in Nat,
                   TokenAt(s, str, delim, b, p, from, to)
            PROVE  SlotOK(s)'
        BY <2>1, <4>3, TokenSlot
      <4> QED BY <2>1, <4>1, <4>2, <4>3, CallShape
    <3> QED BY <3>1, <3>2, <3>3
  <2>2. CASE UNCHANGED vars
    <3>1. StringsAreOwned /\ \A r \in Slots : SlotOK(r)
      BY SlotByParts DEF Parts
    <3>2. StringsAreOwned'
      BY <2>2, <3>1 DEF vars, StringsAreOwned
    <3>3. \A r \in Slots : SlotOK(r)'
      <4>1. /\ text' = text /\ saved' = saved /\ current' = current
            /\ orig' = orig /\ tokens' = tokens /\ ended' = ended
        BY <2>2 DEF vars
      <4> QED BY <3>1, <4>1 DEF SlotOK
    <3> QED BY <3>2, <3>3
  <2> QED BY <2>1, <2>2 DEF Next
<1> QED BY <1>1, <1>2 DEF Parts

(* For clients that stop once nullptr is returned, as the manual of strtok *)
(* has them do, every call keeps the slots apart and its own string cut.   *)
THEOREM StrtokInvariant == ContinueAfterNull = FALSE /\ Spec => []TokenizerInv
<1>1. CASE ContinueAfterNull = FALSE
  <2>1. TokenizerInv /\ [Next]_vars => TokenizerInv'
    BY <1>1, InvariantStep
  <2> QED BY <2>1, InitSlots, PTL DEF Spec
<1>2. CASE ContinueAfterNull # FALSE
  BY <1>2
<1> QED BY <1>1, <1>2

(* strtok_r and strtok cut a string at its delimiters: the tokens are the  *)
(* runs between them, in order, with nothing left out, however the calls   *)
(* of different clients interleave.                                        *)
THEOREM TokensAreTheCuts == ContinueAfterNull = FALSE /\ Spec => []TokensCutString
<1>1. TokenizerInv => TokensCutString
  BY DEF TokenizerInv
<1> QED BY <1>1, StrtokInvariant, PTL

(* A token that was returned is left as it is by every later call: only    *)
(* the byte behind a token is ever written.                                *)
THEOREM TokensAreKept == ContinueAfterNull = FALSE /\ Spec => []TokensStayTerminated
<1>1. TokenizerInv => TokensStayTerminated
  BY DEF TokenizerInv
<1> QED BY <1>1, StrtokInvariant, PTL
=============================================================================
