----------------------------- MODULE StringCopy -----------------------------
(***************************************************************************)
(* The functions that build strings in an array of the caller's, or, for   *)
(* strdup, of the allocator's: strcpy, strncpy, strcat, strncat, stpcpy,   *)
(* mempcpy, memset, memccpy, strrev, strupr, strlwr and strdup             *)
(* (src/cstring.cpp), bzero, strlcpy and strlcat (posix_strings).  A step  *)
(* is one iteration of a loop; a library function called inside is one     *)
(* step, memcpy being the subject of module MemoryCopy.                    *)
(***************************************************************************)
EXTENDS Integers, Sequences, FiniteSetsExt

CONSTANTS Cap,       \* the bytes of the destination array
          MaxLen,    \* bound: the length of the strings passed
          SizeLimit, \* SIZE_MAX + 1, where size_t wraps round
          Memory,    \* may malloc have memory to give, and may it have none?
          Lower, Upper    \* letters, the second the first in upper case

NUL  == "NUL"
Junk == "junk"       \* what the array holds behind the first string
Nullptr == -1

ASSUME LettersAssumption == Lower # Upper /\ NUL \notin {Lower, Upper}
ASSUME CapAssumption == Cap \in Nat /\ MaxLen \in Nat /\ 2 * MaxLen < Cap
ASSUME SizeAssumption == SizeLimit \in Nat /\ Cap < SizeLimit
ASSUME MemoryAssumption == Memory \subseteq BOOLEAN

Letters == {Lower, Upper}
Strings == UNION {[1 .. k -> Letters] : k \in 0 .. MaxLen}

CopyCalls    == {"strcpy", "strncpy", "stpcpy", "strlcpy", "mempcpy",
                  "memccpy"}
AppendCalls  == {"strcat", "strncat", "strlcat"}
InPlaceCalls == {"strrev", "strupr", "strlwr"}
Calls        == CopyCalls \cup AppendCalls \cup InPlaceCalls \cup {"memset", "bzero", "strdup"}

VARIABLES fn,      \* the function that was called
          pc,      \* "loop", "seek" (the end of dest is searched), "done"
          dst,     \* the destination array
          src,     \* the source string, with its terminator
          d, s,    \* the pointers, as offsets
          n,       \* the count that is left
          result,  \* the offset or length that is returned
          orig,    \* for the properties: dst when the call began
          size,    \* the size or count argument
          given,   \* is the string passed not a null pointer?
          memory   \* does malloc find memory?

args == <<fn, src, orig, size, given, memory>>
vars == <<pc, dst, d, s, n, result, args>>

(* A string as it lies in memory, from offset 0.                           *)
Terminated(str) == [k \in 0 .. Len(str) |-> IF k < Len(str) THEN str[k + 1] ELSE NUL]

InArray(str) ==
  [k \in 0 .. Cap - 1 |-> IF k <= Len(str) THEN Terminated(str)[k] ELSE Junk]

StrLen(m) == Min({k \in DOMAIN m : m[k] = NUL})

(* What may be passed.                                                     *)
Arguments ==
  /\ fn \in Calls
  /\ src \in {Terminated(str) : str \in Strings}
  /\ orig \in {InArray(str) : str \in Strings}
  /\ size \in 0 .. Cap
  \* these are given no more bytes than their source has
  /\ fn \in {"memccpy", "mempcpy"} => size <= StrLen(src) + 1
  /\ given \in BOOLEAN /\ (fn \notin {"strrev", "strdup"} => given)
  /\ memory \in Memory

(* len - 1, a size_t: of an empty string it is SIZE_MAX.                   *)
LastByte == (StrLen(orig) - 1) % SizeLimit

Init ==
  /\ Arguments
  /\ dst = orig /\ d = 0 /\ n = size /\ result = Nullptr
  /\ s = IF fn = "strrev" THEN LastByte ELSE 0
  /\ pc = IF fn \in AppendCalls THEN "seek" ELSE "loop"

In(names) == pc = "loop" /\ fn \in names

Set(off, byte) == dst' = [dst EXCEPT ![off] = byte]

Done(value) == pc' = "done" /\ result' = value /\ UNCHANGED args

More == UNCHANGED <<pc, result, args>>

(* memcpy(dst, src, count).                                                *)
Copied(count) == [k \in DOMAIN dst |-> IF k < count THEN src[k] ELSE dst[k]]

-----------------------------------------------------------------------------
(* do *d = *s; while ( *s++ && *d++ )                                      *)
StrCpy ==
  /\ In({"strcpy"})
  /\ Set(d, src[s])
  /\ s' = s + 1
  /\ IF src[s] = NUL THEN Done(0) /\ UNCHANGED <<d, n>>
                     ELSE More /\ d' = d + 1 /\ UNCHANGED n

(* A seeded bug of strncpy: the copy ends with the terminator.             *)
StrNCpyStopsEarly ==
  /\ In({"strncpy"})
  /\ IF n = 0
     THEN Done(0) /\ UNCHANGED <<dst, d, s, n>>
     ELSE /\ Set(d, src[s])
          /\ d' = d + 1 /\ n' = n - 1 /\ s' = s + 1
          /\ IF src[s] = NUL THEN Done(0) ELSE More

(* n bytes exactly: the string, then NULs.                                 *)
StrNCpy ==
  /\ In({"strncpy"})
  /\ IF n = 0
     THEN Done(0) /\ UNCHANGED <<dst, d, s, n>>
     ELSE /\ Set(d, src[s])
          /\ d' = d + 1 /\ n' = n - 1
          /\ s' = IF src[s] # NUL THEN s + 1 ELSE s
          /\ More

StpCpy ==
  /\ In({"stpcpy"})
  /\ dst' = Copied(StrLen(src) + 1)
  /\ Done(StrLen(src)) /\ UNCHANGED <<d, s, n>>

MemPCpy ==
  /\ In({"mempcpy"})
  /\ dst' = Copied(size)
  /\ Done(size) /\ UNCHANGED <<d, s, n>>

StrLCpy ==
  /\ In({"strlcpy"})
  /\ dst' = IF StrLen(src) + 1 < size THEN Copied(StrLen(src) + 1)
            ELSE IF size > 0 THEN [Copied(size - 1) EXCEPT ![size - 1] = NUL]
            ELSE dst
  /\ Done(StrLen(src)) /\ UNCHANGED <<d, s, n>>

(* Up to and including the first byte that equals c, here Upper.           *)
MemCCpy ==
  /\ In({"memccpy"})
  /\ IF n = 0
     THEN Done(Nullptr) /\ UNCHANGED <<dst, d, s, n>>
     ELSE /\ Set(d, src[s])
          /\ d' = d + 1 /\ s' = s + 1 /\ n' = n - 1
          /\ IF src[s] = Upper THEN Done(d + 1) ELSE More

Fill(byte) ==
  /\ IF n = 0
     THEN Done(0) /\ UNCHANGED <<dst, d, n>>
     ELSE Set(d, byte) /\ d' = d + 1 /\ n' = n - 1 /\ More
  /\ UNCHANGED s

MemSet == In({"memset"}) /\ Fill(Lower)
BZero  == In({"bzero"}) /\ Fill(NUL)

(* The copy goes to what malloc returned.  strcpy to a null pointer has no *)
(* defined outcome.                                                        *)
StrDup ==
  /\ In({"strdup"})
  /\ IF ~given THEN Done(Nullptr) /\ UNCHANGED dst
     ELSE IF memory THEN Done(0) /\ dst' = Copied(StrLen(src) + 1)
     ELSE pc' = "undefined" /\ UNCHANGED <<dst, result, args>>
  /\ UNCHANGED <<d, s, n>>

-----------------------------------------------------------------------------
(* The appending functions look for the end of dest first; strlcat looks   *)
(* at dstsize bytes at most, and gives up when it does not find it there.  *)
Seek ==
  /\ pc = "seek"
  /\ dst[d] # NUL /\ (fn = "strlcat" => n > 0)
  /\ d' = d + 1
  /\ n' = IF fn = "strlcat" THEN n - 1 ELSE n
  /\ UNCHANGED <<pc, dst, s, result, args>>

Found ==
  /\ pc = "seek"
  /\ dst[d] = NUL /\ (fn = "strlcat" => n > 0)
  /\ pc' = "loop"
  /\ UNCHANGED <<dst, d, s, n, result, args>>

NotFound ==
  /\ pc = "seek" /\ fn = "strlcat" /\ n = 0
  /\ Done(StrLen(src) + d)
  /\ UNCHANGED <<dst, d, s, n>>

StrCat ==
  /\ In({"strcat"})
  /\ Set(d, src[s])      \* the last one is the terminator
  /\ IF src[s] = NUL THEN Done(0) /\ UNCHANGED <<d, s>>
                     ELSE More /\ d' = d + 1 /\ s' = s + 1
  /\ UNCHANGED n

StrNCat ==
  /\ In({"strncat"})
  /\ IF src[s] # NUL /\ n > 0
     THEN Set(d, src[s]) /\ d' = d + 1 /\ s' = s + 1 /\ n' = n - 1 /\ More
     ELSE Set(d, NUL) /\ Done(0) /\ UNCHANGED <<d, s, n>>

(* Seeded bugs of strlcat: no space is kept for the terminator; counting   *)
(* stops with the space; src only advances with a byte stored.             *)
StrLCatFills ==
  /\ In({"strlcat"})
  /\ IF src[s] = NUL
     THEN /\ IF d < Cap THEN Set(d, NUL) ELSE UNCHANGED dst
          /\ Done((size - n) + s) /\ UNCHANGED <<d, s, n>>
     ELSE /\ IF n > 0 THEN Set(d, src[s]) /\ d' = d + 1 /\ n' = n - 1
                      ELSE UNCHANGED <<dst, d, n>>
          /\ s' = s + 1
          /\ More

StrLCatStops ==
  /\ In({"strlcat"})
  /\ IF src[s] = NUL \/ n = 1
     THEN Set(d, NUL) /\ Done(d) /\ UNCHANGED <<d, s, n>>
     ELSE Set(d, src[s]) /\ d' = d + 1 /\ n' = n - 1 /\ s' = s + 1 /\ More

StrLCatStuck ==
  /\ In({"strlcat"})
  /\ IF src[s] = NUL
     THEN Set(d, NUL) /\ Done(StrLen(orig) + s) /\ UNCHANGED <<d, s, n>>
     ELSE /\ n > 1
          /\ Set(d, src[s]) /\ d' = d + 1 /\ n' = n - 1 /\ s' = s + 1 /\ More

(* What does not fit is only counted.                                      *)
StrLCat ==
  /\ In({"strlcat"})
  /\ IF src[s] = NUL
     THEN Set(d, NUL) /\ Done(StrLen(orig) + s) /\ UNCHANGED <<d, s, n>>
     ELSE /\ IF n > 1 THEN Set(d, src[s]) /\ d' = d + 1 /\ n' = n - 1
                      ELSE UNCHANGED <<dst, d, n>>
          /\ s' = s + 1
          /\ More

-----------------------------------------------------------------------------
(* A seeded bug of strrev: an empty string is not left alone, so that the  *)
(* bytes up to SIZE_MAX are exchanged.                                     *)
StrRevUnguarded ==
  LET byte(off) == IF off \in DOMAIN dst THEN dst[off] ELSE Junk
  IN  /\ In({"strrev"})
      /\ IF given /\ d < s
         THEN /\ dst' = [k \in DOMAIN dst |-> IF k = d THEN byte(s)
                                             ELSE IF k = s THEN byte(d) ELSE dst[k]]
              /\ d' = d + 1 /\ s' = s - 1 /\ UNCHANGED n /\ More
         ELSE Done(IF given THEN 0 ELSE Nullptr) /\ UNCHANGED <<dst, d, s, n>>

(* strrev: d and s are i and j.                                            *)
StrRev ==
  /\ In({"strrev"})
  /\ IF given /\ StrLen(orig) > 0 /\ d < s
     THEN /\ dst' = [dst EXCEPT ![d] = dst[s], ![s] = dst[d]]
          /\ d' = d + 1 /\ s' = s - 1 /\ UNCHANGED n /\ More
     ELSE Done(IF given THEN 0 ELSE Nullptr) /\ UNCHANGED <<dst, d, s, n>>

ChangeCase(from, to) ==
  /\ Set(d, IF dst[d] = from THEN to ELSE dst[d])
  /\ IF dst[d] = NUL THEN Done(0) /\ UNCHANGED <<d, s, n>>
                     ELSE More /\ d' = d + 1 /\ UNCHANGED <<s, n>>

StrUpr == In({"strupr"}) /\ ChangeCase(Lower, Upper)
StrLwr == In({"strlwr"}) /\ ChangeCase(Upper, Lower)

Next ==
  \/ StrCpy \/ StrNCpy \/ StpCpy \/ MemPCpy \/ StrLCpy \/ MemCCpy \/ MemSet \/ BZero \/ StrDup
  \/ Seek \/ Found \/ NotFound \/ StrCat \/ StrNCat \/ StrLCat
  \/ StrRev \/ StrUpr \/ StrLwr

Spec == Init /\ [][Next]_vars /\ WF_vars(Next)

-----------------------------------------------------------------------------
(* What the functions promise, in terms of the texts before the call.      *)
Text(m) == [k \in 1 .. StrLen(m) |-> m[k - 1]]

Least(a, b) == IF a < b THEN a ELSE b
First(str, k) == SubSeq(str, 1, Least(Len(str), k))

(* The bytes the function stores from offset 0 on.                         *)
Promised ==
  LET old  == Text(orig)
      new  == Text(src)
      str(t) == Append(t, NUL)
      flip(t, to) == [k \in DOMAIN t |-> to]
      stop == {k \in 1 .. size : k <= Len(new) /\ new[k] = Upper}
  IN  IF ~given THEN <<>> ELSE
      CASE fn \in {"strcpy", "stpcpy"} -> str(new)
        [] fn = "strdup" -> IF memory THEN str(new) ELSE <<>>
        [] fn = "strncpy" -> [k \in 1 .. size |-> IF k <= Len(new) THEN new[k] ELSE NUL]
        [] fn = "strlcpy" -> IF size = 0 THEN <<>> ELSE str(First(new, size - 1))
        [] fn = "memccpy" -> SubSeq(str(new), 1, IF stop = {} THEN size ELSE Min(stop))
        [] fn = "mempcpy" -> SubSeq(str(new), 1, size)
        [] fn = "memset"  -> [k \in 1 .. size |-> Lower]
        [] fn = "bzero"   -> [k \in 1 .. size |-> NUL]
        [] fn = "strcat"  -> str(old \o new)
        [] fn = "strncat" -> str(old \o First(new, size))
        [] fn = "strlcat" -> IF size <= Len(old) THEN <<>>
                             ELSE str(First(old \o new, size - 1))
        [] fn = "strrev"  -> str([k \in DOMAIN old |-> old[Len(old) + 1 - k]])
        [] fn = "strupr"  -> str(flip(old, Upper))
        [] fn = "strlwr"  -> str(flip(old, Lower))

PromisedResult ==
  IF ~given THEN Nullptr ELSE
  CASE fn = "stpcpy"  -> Len(Text(src))
    [] fn = "strlcpy" -> Len(Text(src))
    [] fn = "strlcat" -> Least(size, Len(Text(orig))) + Len(Text(src))
    [] fn = "memccpy" -> IF Upper \in {src[k] : k \in 0 .. size - 1}
                         THEN Len(Promised) ELSE Nullptr
    [] fn = "mempcpy" -> size
    [] OTHER -> 0

(* When a call returns, the array holds what the function promises and,    *)
(* behind that, what it held before.                                       *)
ArrayAsPromised ==
  pc = "done" =>
    \A k \in 0 .. Cap - 1 :
      dst[k] = IF k < Len(Promised) THEN Promised[k + 1] ELSE orig[k]

(* The value returned lets the caller tell whether everything was stored:  *)
(* strlcpy and strlcat return the length they tried to create, memccpy a   *)
(* null pointer when the stop byte was not met.                            *)
ReturnAsPromised == pc = "done" => result = PromisedResult

(* In mid-call, too, no byte behind the promised ones is stored to, and no *)
(* byte behind the terminator of the source is read.                       *)
StaysInside ==
  /\ \A k \in Len(Promised) .. Cap - 1 : dst[k] = orig[k]
  /\ fn # "strrev" => s <= StrLen(src) + 1

-----------------------------------------------------------------------------
(* The loop invariant.  How far a loop has come: its pointers and its      *)
(* count move together.                                                    *)
Position ==
  LET ls == StrLen(src)
      lo == StrLen(orig)
  IN  /\ fn = "strcpy" => s = d /\ s <= ls
      /\ fn = "strncpy" => n = size - d /\ s = Least(d, ls)
      /\ fn = "memccpy" => n = size - d /\ s = d /\ \A k \in 0 .. d - 1 : src[k] # Upper
      /\ fn \in {"memset", "bzero"} => n = size - d /\ s = 0
      /\ fn \in {"strcat", "strncat"} => d = lo + s /\ s \in 0 .. ls
      /\ fn = "strncat" => n = size - s
      /\ fn = "strlcat" =>
           lo < size /\ s \in 0 .. ls /\ d = Least(lo + s, size - 1) /\ n = size - d
      /\ fn = "strrev" => d <= lo /\ (lo > 0 => s = lo - 1 - d)
      /\ fn \in {"strupr", "strlwr"} => d <= lo /\ s = 0
      /\ fn \in {"stpcpy", "mempcpy", "strlcpy", "strdup"} => d = 0 /\ s = 0

(* The bytes that have been stored; strrev works from both ends.           *)
Written(k) == k < d \/ (fn = "strrev" /\ s < k /\ k < StrLen(orig))

Stored ==
  \A k \in 0 .. Cap - 1 : dst[k] = IF Written(k) THEN Promised[k + 1] ELSE orig[k]

(* Nothing is stored while the end of dest is searched.                    *)
Seeking ==
  /\ fn \in AppendCalls
  /\ dst = orig /\ s = 0 /\ d <= StrLen(orig)
  /\ n = IF fn = "strlcat" THEN size - d ELSE size

BuildInv ==
  /\ Arguments
  /\ pc \in {"loop", "seek", "done", "undefined"}
  /\ DOMAIN dst = 0 .. Cap - 1 /\ d \in Nat /\ n \in Nat /\ s \in Int
  /\ pc = "seek" => Seeking
  /\ pc = "loop" => Position /\ Stored
  /\ ArrayAsPromised
  /\ ReturnAsPromised
  /\ StaysInside

(* strdup returns a null pointer when there is no memory for the copy.     *)
NullWhenNoMemory ==
  fn = "strdup" /\ ~memory => pc = "loop" \/ (pc = "done" /\ result = Nullptr)

(* Every call returns.                                                     *)
CopyReturns == <>(pc = "done")
=============================================================================
