---------------------------- MODULE LineSplitter ----------------------------
(***************************************************************************)
(* line_splitter (src/line_splitter.cpp): bytes arrive in buffers of any   *)
(* size; every complete line is forwarded to the sink without its line     *)
(* feed, the unfinished one is kept in m_active_line and forwarded by the  *)
(* destructor.  Strings are sequences of one-character strings.            *)
(***************************************************************************)
EXTENDS Naturals, Sequences, SequencesExt

CONSTANTS
  Chars,      \* the bytes buffers are made of; contains LF
  MaxBufLen,  \* longest buffer
  MaxReads    \* read_and_forward calls in a behaviour

LF == "\n"

ASSUME LF \in Chars

VARIABLES
  active,     \* m_active_line
  forwarded,  \* the lines given to m_sink, in order
  input,      \* every byte passed to read_and_forward so far (history)
  reads,
  destroyed   \* the destructor has run

vars == <<active, forwarded, input, reads, destroyed>>

(* Mutant of Forward: m_active_line is not cleared after a line is        *)
(* forwarded.                                                              *)
RECURSIVE ForwardKeepsLine(_, _, _)
ForwardKeepsLine(line, buf, sol) ==
  LET lfs == {i \in sol..Len(buf) : buf[i] = LF} IN
  IF lfs # {}
  THEN LET lf  == Min(lfs)
           out == line \o SubSeq(buf, sol, lf - 1)
       IN IF lf + 1 > Len(buf)
          THEN [active |-> line, out |-> <<out>>]
          ELSE LET r == ForwardKeepsLine(line, buf, lf + 1) IN
               [active |-> r.active, out |-> <<out>> \o r.out]
  ELSE [active |-> line \o SubSeq(buf, sol, Len(buf)), out |-> <<>>]

(* The loop of read_and_forward from the start-of-line index sol: find the *)
(* next LF at or after sol; when there is one, forward m_active_line plus  *)
(* the bytes before it, clear m_active_line and go on after the LF (the    *)
(* loop ends when that is the end of the buffer); otherwise append the     *)
(* rest of the buffer to m_active_line.  Returns the new m_active_line and *)
(* the lines forwarded.                                                    *)
RECURSIVE Forward(_, _, _)
Forward(line, buf, sol) ==
  LET lfs == {i \in sol..Len(buf) : buf[i] = LF} IN
  IF lfs # {}
  THEN LET lf  == Min(lfs)
           out == line \o SubSeq(buf, sol, lf - 1)
       IN IF lf + 1 > Len(buf)
          THEN [active |-> <<>>, out |-> <<out>>]
          ELSE LET r == Forward(<<>>, buf, lf + 1) IN
               [active |-> r.active, out |-> <<out>> \o r.out]
  ELSE [active |-> line \o SubSeq(buf, sol, Len(buf)), out |-> <<>>]

read_and_forward(buf) ==
  /\ ~destroyed /\ reads < MaxReads
  /\ LET r == Forward(active, buf, 1) IN
     /\ active' = r.active
     /\ forwarded' = forwarded \o r.out
  /\ input' = input \o buf
  /\ reads' = reads + 1
  /\ UNCHANGED destroyed

(* ~line_splitter: a non-empty unfinished line is forwarded.               *)
Destroy ==
  /\ ~destroyed
  /\ forwarded' = IF active # <<>> THEN Append(forwarded, active) ELSE forwarded
  /\ destroyed' = TRUE
  /\ UNCHANGED <<active, input, reads>>

Init ==
  /\ active = <<>>
  /\ forwarded = <<>>
  /\ input = <<>>
  /\ reads = 0
  /\ destroyed = FALSE

Next ==
  \/ \E buf \in BoundedSeq(Chars, MaxBufLen) : read_and_forward(buf)
  \/ Destroy

Spec == Init /\ [][Next]_vars

-----------------------------------------------------------------------------
(* Reference: the lines of a byte string, cut at the positions of its line *)
(* feeds; the part after the last line feed is the unfinished line.        *)
LFPositions(s) == SetToSortSeq({i \in 1..Len(s) : s[i] = LF}, <)

CompleteLines(s) ==
  LET p == LFPositions(s)
      from(k) == IF k = 1 THEN 1 ELSE p[k - 1] + 1
  IN [k \in 1..Len(p) |-> SubSeq(s, from(k), p[k] - 1)]

Unfinished(s) ==
  LET p == LFPositions(s) IN
  IF p = <<>> THEN s ELSE SubSeq(s, p[Len(p)] + 1, Len(s))

(* However the bytes are cut into buffers, the splitter has forwarded     *)
(* exactly the complete lines of everything it was given, in order, and   *)
(* holds the unfinished rest; after the destructor that rest has followed *)
(* them when it is not empty (spec section on line splitting: n line      *)
(* feeds give n lines plus a trailing partial line).                       *)
SplitterForwardsLines ==
  IF destroyed
  THEN forwarded = CompleteLines(input)
                   \o (IF Unfinished(input) # <<>> THEN <<Unfinished(input)>> ELSE <<>>)
  ELSE /\ forwarded = CompleteLines(input)
       /\ active = Unfinished(input)

=============================================================================
