------------------------------ MODULE StrError ------------------------------
(***************************************************************************)
(* strerror and its table (src/strerror.cpp), and the error numbers of     *)
(* libstdc/cerrno.h.  A text stands for the error it describes.            *)
(***************************************************************************)
EXTENDS Integers

NoText  == -1
EINVAL  == 22
ENOTSUP == 95

(* EWOULDBLOCK and EDEADLOCK share the number of EAGAIN and EDEADLK.       *)
Errors == (1 .. 133) \ {41, 58}

(* The error that entry k of the table describes; 0 is "Success".          *)
kErrorStrings ==
  [k \in 0 .. 134 |-> CASE k = 41  -> 11
                        [] k = 58  -> 35
                        [] k = 134 -> ENOTSUP
                        [] OTHER   -> k]

(* A seeded bug: a negative number is not refused.                         *)
StrErrorNegative(errnum) ==
  IF errnum > ENOTSUP THEN [text |-> NoText, errno |-> EINVAL]
  ELSE [text |-> IF errnum < 0 THEN 0 ELSE kErrorStrings[errnum], errno |-> 0]

strerror(errnum) ==
  IF errnum < 0 \/ errnum > ENOTSUP THEN [text |-> NoText, errno |-> EINVAL]
  ELSE [text |-> kErrorStrings[errnum], errno |-> 0]
=============================================================================
