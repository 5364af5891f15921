------------------------------- MODULE CType -------------------------------
(***************************************************************************)
(* The character classes of src/cctype.cpp: of each function, the ints it  *)
(* returns non-zero for.                                                   *)
(***************************************************************************)
EXTENDS Integers

isascii  == 0 .. 127
isalnum  == (97 .. 122) \cup (65 .. 90) \cup (48 .. 57)
isalpha  == (97 .. 122) \cup (65 .. 90)
isblank  == {9, 32}
iscntrl  == (0 .. 31) \cup {127}
isdigit  == 48 .. 57
isgraph  == 33 .. 126
islower  == 97 .. 122
isprint  == 32 .. 126
isspace  == (9 .. 13) \cup {32}
isupper  == 65 .. 90
isxdigit == (48 .. 57) \cup (97 .. 102) \cup (65 .. 70)

(* A seeded bug: the range between the cases begins one byte late.         *)
ispunctLate == (33 .. 47) \cup (58 .. 64) \cup (92 .. 96) \cup (123 .. 126)

ispunct == (33 .. 47) \cup (58 .. 64) \cup (91 .. 96) \cup (123 .. 126)

toascii(c) == c % 128
tolower(c) == IF c \in isupper THEN c + (97 - 65) ELSE c
toupper(c) == IF c \in islower THEN c - (97 - 65) ELSE c

(* The names of the functions that say yes to c.                           *)
Class(c) ==
  LET says == [ascii |-> isascii, alnum |-> isalnum, alpha |-> isalpha, blank |-> isblank,
               cntrl |-> iscntrl, digit |-> isdigit, graph |-> isgraph, lower |-> islower,
               print |-> isprint, punct |-> ispunct, space |-> isspace, upper |-> isupper,
               xdigit |-> isxdigit]
  IN  {f \in DOMAIN says : c \in says[f]}
=============================================================================
