----------------------------- MODULE StringFormat -----------------------------
(***************************************************************************)
(* logger::string_format (logger.cpp 312-331), the printf-style formatter  *)
(* behind the SuS_LOG_PRINTF macro (logger.h 169-178).  It guesses a      *)
(* buffer of 100 chars, lets vsnprintf report the length of the whole      *)
(* text, and retries with that length plus one, or with a doubled size     *)
(* when vsnprintf fails (returns -1).  size is an int of IntBits bits.     *)
(*                                                                         *)
(* A format with its arguments is abstracted to what vsnprintf makes of    *)
(* it: the length of the formatted text, or an error (an encoding error;   *)
(* the same arguments fail again on every call).  The text is a sequence  *)
(* of characters, the buffer a sequence of `size` chars.                   *)
(***************************************************************************)
EXTENDS Integers, Sequences

CONSTANTS
  Lengths,   \* lengths of the formatted texts
  IntBits,   \* width of int
  MaxCalls   \* vsnprintf calls after which the loop is cut off

VARIABLES
  format,    \* the call: [len, err]
  result     \* the loop's outcome: kind "none" before the call

vars == <<format, result>>

(* 2^(IntBits-1) - 1, computed without leaving TLC's own 32-bit range.    *)
INT_MAX == (2^(IntBits - 2) - 1) + 2^(IntBits - 2)

Formats == [len : Lengths, err : BOOLEAN]

(* The text the format and its arguments stand for.                        *)
Text(f) == [k \in 1..f.len |-> "c"]

(* vsnprintf's return value: the length of the whole text, or -1.         *)
vsnprintf(f) == IF f.err THEN -1 ELSE f.len

(* The `size` chars of str after str.resize(size) and vsnprintf (lines    *)
(* 317-319): the first size - 1 chars of the text, then NULs.              *)
Written(f, size) == [k \in 1..size |-> IF k < size /\ k <= f.len THEN "c" ELSE "NUL"]

(* The test that the text fitted, NUL included (line 321).                 *)
FitsOrFull(n, size) == n > -1 /\ n <= size
Fits(n, size) == n > -1 /\ n < size

(* Whether the next size (line 325 or 327) exceeds INT_MAX.               *)
Overflows(n, size) == IF n > -1 THEN n = INT_MAX ELSE size > INT_MAX \div 2

(* The while loop from a given size; `calls` counts vsnprintf calls.      *)
(* "overflow" is the signed overflow of size (undefined behaviour).       *)
RECURSIVE FormatLoop(_, _, _)
FormatLoop(f, size, calls) ==
  LET n    == vsnprintf(f)
      next == IF n > -1 THEN n + 1 ELSE size * 2
  IN  CASE Fits(n, size)     -> [kind |-> "ok", str |-> SubSeq(Written(f, size), 1, n), calls |-> calls]
        [] Overflows(n, size) -> [kind |-> "overflow", str |-> <<>>, calls |-> calls]
        [] calls = MaxCalls  -> [kind |-> "unbounded", str |-> <<>>, calls |-> calls]
        [] OTHER             -> FormatLoop(f, next, calls + 1)

string_format(f) == FormatLoop(f, 100, 1)

Init ==
  /\ format \in Formats
  /\ result = [kind |-> "none", str |-> <<>>, calls |-> 0]

Call ==
  /\ result = [kind |-> "none", str |-> <<>>, calls |-> 0]
  /\ result' = string_format(format)
  /\ UNCHANGED format

Spec == Init /\ [][Call]_vars

-----------------------------------------------------------------------------
(* For every format vsnprintf can render, string_format returns the whole  *)
(* text without its terminating NUL, after at most two vsnprintf calls:   *)
(* the 100-char guess, then exactly the reported length plus one (the      *)
(* boundary of the `n < size` test at lengths 99, 100 and 101).            *)
StringFormatReturnsText ==
  result.kind # "none" /\ ~format.err =>
    /\ result.kind = "ok"
    /\ result.str = Text(format)
    /\ result.calls <= 2

=============================================================================
