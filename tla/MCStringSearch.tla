--------------------------- MODULE MCStringSearch ---------------------------
(* The calls of the runs of StringSearch.                                  *)
EXTENDS StringSearch

\* chars of both cases and one that is negative
Bytes == {-63, 65, 97}
MaxLen == 3

Arrays(bytes, len) == [0 .. len - 1 -> bytes]

(* Strings with their terminator, and arrays of n bytes that have none.    *)
StringsUpTo(most) ==
  UNION {{[k \in 0 .. len |-> IF k < len THEN s[k] ELSE 0] : s \in Arrays(Bytes, len)} :
           len \in 0 .. most}
Strings == StringsUpTo(MaxLen)
\* behind a terminator there may be more
Longer == {[k \in 0 .. 3 |-> IF k < 2 THEN s[k] ELSE 97] : s \in {s \in Strings : Length(s) = 1}}
Bounded(n) == {s \in Strings : Length(s) < n} \cup Arrays(Bytes, n)

None == [k \in {} |-> 0]

CallsOf(fns, as, bs, ns, cs) == [fn : fns, a : as, b : bs, n : ns, c : cs]

\* needles that are no chars before they are converted
NeedleCalls == CallsOf({"strrchr", "rindex"}, Strings \cup Longer, {None}, {0}, {65 + 256, 193})

\* strings, and arrays of as many bytes as may be looked at
CountCalls ==
  CallsOf({"strnlen"}, Strings, {None}, 0 .. MaxLen + 1, {0})
  \cup UNION {CallsOf({"strnlen"}, Arrays(Bytes, n), {None}, {n}, {0}) : n \in 0 .. MaxLen}

SearchCalls ==
  CallsOf(Searching \ {"strrchr", "rindex", "strnlen"}, Strings \cup Longer, {None}, {0},
          {0, 97, 65 + 256, 193})
  \cup CallsOf({"strrchr", "rindex"}, Strings \cup Longer, {None}, {0}, {0, 97, -63})
  \cup NeedleCalls \cup CountCalls

MemCalls ==
  UNION {CallsOf({"memchr", "memrchr"}, Arrays({-63, 0, 97}, n), {None}, {n},
                 {0, 97 + 256, -63, 193}) : n \in 0 .. MaxLen}
  \cup CallsOf({"memchr"}, {a \in Arrays({0, 97}, 2) : a[1] = 97}, {None}, {5}, {97})
  \cup UNION {CallsOf({"memcmp"}, Arrays({-63, 0, 97}, n), Arrays({-63, 0, 97}, n), {n}, {0}) :
                n \in 0 .. MaxLen}

CompareCalls ==
  CallsOf({"strcmp", "strcasecmp"} \cup Spanning, Strings, Strings, {0}, {0})
  \cup CallsOf({"strcmp", "strcasecmp"} \cup Spanning, Longer, Longer, {0}, {0})
  \cup CallsOf({"strstr"}, StringsUpTo(MaxLen + 1), Strings, {0}, {0})
  \cup UNION {CallsOf({"strncmp", "strncasecmp"}, Bounded(n), Bounded(n), {n}, {0}) :
                n \in 0 .. MaxLen}

(* The value of n is the width of the integer: half as many bits for int.  *)
OtherCalls ==
  UNION {CallsOf({fn}, {None}, {None}, {IF fn = "ffs" THEN 4 ELSE 8},
                 IF fn = "ffs" THEN -8 .. 7 ELSE -128 .. 127) : fn \in Ffs}
  \cup CallsOf({"ctype"}, {None}, {None}, {0}, -129 .. 300)
  \cup CallsOf({"strerror"}, {None}, {None}, {0}, -3 .. 140)

MCCalls == SearchCalls \cup MemCalls \cup CompareCalls \cup OtherCalls

(* The calls that AsDocumented speaks of, one set for each of its parts:   *)
(* every part is violated on its own set.                                  *)
ComparisonCalls ==
  CallsOf({"strcmp"}, Strings, Strings, {0}, {0})
  \cup UNION {CallsOf({"memcmp", "strncmp"}, Arrays(Bytes, n), Arrays(Bytes, n), {n}, {0}) :
                n \in 0 .. 2}
SpanCalls  == CallsOf({"strcspn"}, Strings, Strings, {0}, {0})
ErrorCalls == CallsOf({"strerror"}, {None}, {None}, {0}, Errors)

DocumentedCalls == ComparisonCalls \cup SpanCalls \cup NeedleCalls \cup CountCalls \cup ErrorCalls
=============================================================================
