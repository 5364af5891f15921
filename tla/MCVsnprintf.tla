---------------------------- MODULE MCVsnprintf ----------------------------
(* The clients of the runs of Vsnprintf.                                   *)
EXTENDS Vsnprintf

MCBytes ==
  {LowerDigits[k] : k \in DOMAIN LowerDigits} \cup {UpperDigits[k] : k \in DOMAIN UpperDigits}
    \cup {"+", "-", "x", "X", " ", "%", "(", ")", "n", "u", "l", "i", "L"}

AllFlags == SUBSET Flags

Directive(convs, flags, widths, precs, lens, args) ==
  [conv : convs, flags : flags, width : widths, prec : precs, len : lens, arg : args,
   star : {{}}]

(* Where the code is known to differ from C: a zero under %+01d, precision *)
(* with the octal prefix.  README.md lists these.                          *)
LosesZero(d) ==
  "0" \in d.flags /\ d.prec = None /\ d.width = 1 /\ d.arg = 0
OctalPrefixAndPrecision(d) == d.conv = "o" /\ "#" \in d.flags /\ d.prec # None

(* Every flag, width, precision and length modifier, one at a time.        *)
NumberDirectives ==
  {d \in Directive({"d"}, AllFlags, {None, 1, 4}, {None, 0, 2, 5}, {"none", "h", "hh"},
                   {-129, -7, 0, 200})
         \cup Directive({"u", "o", "x", "X"}, AllFlags, {None, 4}, {None, 0, 3}, {"none", "hh"},
                        {0, 8, 511}) :
     ~LosesZero(d) /\ ~OctalPrefixAndPrecision(d)}

PointerDirectives ==
  Directive({"p"}, AllFlags, {None, 9}, {None, 3}, {"none"}, {0, 511})

StringDirectives ==
  Directive({"s"}, AllFlags, {None, 9}, {None, 3}, {"none"}, {Nullptr, <<>>, <<"a", "b">>})

(* Width and precision passed as arguments: not negative, where the code   *)
(* differs from C.                                                         *)
StarDirectives ==
  {[Plain(conv, 12) EXCEPT !.flags = flags, !.width = 5, !.prec = 3, !.star = star,
                           !.len = len] :
     conv \in {"d", "x"}, flags \in AllFlags, star \in SUBSET {"width", "prec"},
     len \in {"none", "h", "hh", "l", "ll", "z", "t"}}

FieldDirectives == StarDirectives \cup NumberDirectives \cup PointerDirectives \cup StringDirectives

(* Strings, numbers and single bytes that fill a small buffer in many ways.*)
TruncationDirectives ==
  Directive({"s"}, {{}, {"-"}}, {None, 2, 3}, {None, 1}, {"none"}, {<<>>, <<"a", "b">>})
  \cup Directive({"d"}, {{}, {"0"}, {"-", "+"}}, {None, 3}, {None}, {"none"}, {-1, 12})
  \cup Directive({"c"}, {{}, {"-"}}, {None, 2}, {None}, {"none"}, {<<"c">>})
  \cup {Plain("lit", <<"L">>), Plain("%", <<>>), Plain("n", 0), Plain("n", 1), Plain("p", 0)}

UnfitDirectives ==
  {Plain("lit", <<"L">>), Plain("n", 0), Plain("p", 0), Plain("s", <<"a", "b">>),
   [Plain("s", <<"a", "b">>) EXCEPT !.width = 5]}

MCClients ==
  [fields |-> [sizes |-> {6, 12, 32, 33}, directives |-> FieldDirectives, length |-> 1,
               cells |-> 40, fit |-> {"text", "field"}],
   truncated |-> [sizes |-> {0, 1, 2, 4, 7, 9}, directives |-> TruncationDirectives,
                  length |-> 3, cells |-> 12, fit |-> {"text", "field"}],
   padded |-> [sizes |-> {2, 3, 4, 7, 9}, directives |-> TruncationDirectives,
               length |-> 3, cells |-> 16, fit |-> {"text"}]]

(* One that pays no attention to the space.                                *)
UnfitClients ==
  [unfit |-> [sizes |-> {2, 4}, directives |-> UnfitDirectives, length |-> 4, cells |-> 12,
              fit |-> {}]]
=============================================================================
