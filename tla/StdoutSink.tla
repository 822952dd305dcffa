----------------------------- MODULE StdoutSink -----------------------------
(***************************************************************************)
(* The stdout output stream (src/output_stream_stdout.cpp) on its base     *)
(* class output_stream (src/output_stream.cpp).  The constructor picks a   *)
(* colour palette from the environment variables TERM and COLORFGBG        *)
(* (init_colors); write() filters by level and calls do_write, which puts  *)
(* one line on the std::ostream and returns m_stream.good().               *)
(*                                                                         *)
(* An environment variable is a string, i.e. a sequence of one-character   *)
(* strings, or Unset (getenv returns nullptr).  The text of a line is      *)
(* abstracted to the palette it is coloured with.                          *)
(***************************************************************************)
EXTENDS Integers, Sequences, SequencesExt, LogLevels

CONSTANTS
  Envs,       \* environments the stream can be constructed in: [term, fgbg]
  Levels,     \* the levels events are logged with and minimums are set to
  MaxWrites,  \* bound: write() calls
  MaxFaults   \* bound: writes on which the stream fails

(* getenv's nullptr: a one-element sequence whose element is no character, *)
(* so that it differs from every string.                                  *)
Unset == <<"nullptr">>

(* The three palettes of lines 18-43; init_colors can also throw.         *)
Palettes == {"colors", "colors256dark", "colors256light"}

VARIABLES
  env,      \* the environment the stream is constructed in
  colors,   \* m_colors, "none" before the constructor, or "threw"
  minLevel, \* output_stream_private::m_minLogLevel
  sgood,    \* m_stream.good()
  lines,    \* lines on the ostream: the palette of each
  results,  \* what each write() call returned (history)
  faults    \* writes on which the stream failed

vars == <<env, colors, minLevel, sgood, lines, results, faults>>

-----------------------------------------------------------------------------
(* std::stoi: strtol in base 10 (skip white space, an optional sign, the   *)
(* longest run of digits), invalid_argument when no digit is read,         *)
(* out_of_range when the value is outside int (32 bits).  `next` counts   *)
(* the characters consumed.                                                *)
DigitVal == "0" :> 0 @@ "1" :> 1 @@ "2" :> 2 @@ "3" :> 3 @@ "4" :> 4 @@
            "5" :> 5 @@ "6" :> 6 @@ "7" :> 7 @@ "8" :> 8 @@ "9" :> 9
IsDigit(c) == c \in DOMAIN DigitVal

RECURSIVE SkipSpace(_, _)
SkipSpace(s, i) == IF i <= Len(s) /\ s[i] \in {" ", "\t"} THEN SkipSpace(s, i + 1) ELSE i

RECURSIVE DigitsEnd(_, _)
DigitsEnd(s, i) == IF i <= Len(s) /\ IsDigit(s[i]) THEN DigitsEnd(s, i + 1) ELSE i

(* v * 10 + d (or - d when negative) stays within [-2^31, 2^31 - 1].     *)
FitsInt(v, d, neg) ==
  IF neg THEN v > -214748364 \/ (v = -214748364 /\ d <= 8)
         ELSE v < 214748364 \/ (v = 214748364 /\ d <= 7)

(* The value of the digits s[i..k-1]; fits is FALSE when it leaves int.  *)
RECURSIVE Accum(_, _, _, _, _)
Accum(s, i, k, neg, v) ==
  IF i = k THEN [fits |-> TRUE, v |-> v]
  ELSE IF ~FitsInt(v, DigitVal[s[i]], neg) THEN [fits |-> FALSE, v |-> v]
  ELSE Accum(s, i + 1, k, neg,
             IF neg THEN v * 10 - DigitVal[s[i]] ELSE v * 10 + DigitVal[s[i]])

stoi(s) ==
  LET i   == SkipSpace(s, 1)
      neg == i <= Len(s) /\ s[i] = "-"
      j   == IF i <= Len(s) /\ s[i] \in {"+", "-"} THEN i + 1 ELSE i
      k   == DigitsEnd(s, j)
      v   == Accum(s, j, k, neg, 0)
  IN CASE k = j       -> [ex |-> "invalid_argument", val |-> 0, next |-> 0]
       [] ~v.fits     -> [ex |-> "out_of_range", val |-> 0, next |-> 0]
       [] OTHER       -> [ex |-> "none", val |-> v.v, next |-> k - 1]

-----------------------------------------------------------------------------
Suffix256 == <<"-", "2", "5", "6", "c", "o", "l", "o", "r">>

(* Mutant of BgPalette: background 9 taken for a light one as well.      *)
BgPaletteFromNine(bg) ==
  LET b == stoi(bg) IN
  CASE b.ex = "invalid_argument"  -> "colors256dark"
    [] b.ex = "out_of_range"      -> "threw"
    [] b.next # Len(bg)           -> "colors256dark"
    [] b.val < 0                  -> "colors256dark"
    [] b.val = 7 \/ b.val >= 9    -> "colors256light"
    [] OTHER                      -> "colors256dark"

(* The "bg" part of COLORFGBG (lines 90-101), after a valid "fg;".        *)
BgPalette(bg) ==
  LET b == stoi(bg) IN
  CASE b.ex = "invalid_argument"  -> "colors256dark"
    [] b.ex = "out_of_range"      -> "threw"
    [] b.next # Len(bg)           -> "colors256dark"
    [] b.val < 0                  -> "colors256dark"
    [] b.val = 7 \/ b.val > 9     -> "colors256light"
    [] OTHER                      -> "colors256dark"

(* init_colors (lines 54-106).  Only std::invalid_argument is caught      *)
(* (line 102): an out_of_range from either stoi leaves the constructor.   *)
init_colors(e) ==
  IF e.term = Unset \/ ~IsSuffix(Suffix256, e.term) THEN "colors"
  ELSE IF e.fgbg = Unset THEN "colors256dark"
  ELSE LET s  == e.fgbg
           fg == stoi(s)
       IN CASE fg.ex = "invalid_argument" -> "colors256dark"
            [] fg.ex = "out_of_range"     -> "threw"
            [] fg.next = Len(s)           -> "colors256dark"
            [] s[fg.next + 1] # ";"       -> "colors256dark"
            [] fg.val < 0                 -> "colors256dark"
            [] OTHER -> BgPalette(SubSeq(s, fg.next + 2, Len(s)))

-----------------------------------------------------------------------------
(* The constructors: output_stream (output_stream.cpp lines 9-11) sets     *)
(* the level to SuS_LOG_MINLEVEL (finest, logger.h line 139);              *)
(* output_stream_stdout (lines 47-52) runs init_colors.                   *)
Construct ==
  /\ colors = "none"
  /\ colors' = init_colors(env)
  /\ UNCHANGED <<env, minLevel, sgood, lines, results, faults>>

Constructed == colors \in Palettes

(* output_stream::set_min_log_level (output_stream.cpp lines 26-28).       *)
SetMinLogLevel(l) ==
  /\ Constructed
  /\ minLevel' = l
  /\ UNCHANGED <<env, colors, sgood, lines, results, faults>>

(* output_stream::write (output_stream.cpp lines 30-34): below the level  *)
(* it returns true; otherwise do_write (lines 116-143) puts the line on    *)
(* m_stream, which may fail, and returns good().  A failed std::ostream    *)
(* keeps its error state: nothing in the sink clears it, and later         *)
(* inserts write nothing.                                                  *)
Write(l) ==
  /\ Constructed
  /\ Len(results) < MaxWrites
  /\ IF l < minLevel
     THEN /\ results' = Append(results, TRUE)
          /\ UNCHANGED <<sgood, lines, faults>>
     ELSE \E fail \in IF faults < MaxFaults THEN BOOLEAN ELSE {FALSE} :
            /\ sgood' = (sgood /\ ~fail)
            /\ faults' = IF fail THEN faults + 1 ELSE faults
            /\ lines' = IF sgood' THEN Append(lines, colors) ELSE lines
            /\ results' = Append(results, sgood')
  /\ UNCHANGED <<env, colors, minLevel>>

Init ==
  /\ env \in Envs
  /\ colors = "none"
  /\ minLevel = Finest
  /\ sgood = TRUE
  /\ lines = <<>>
  /\ results = <<>>
  /\ faults = 0

Next ==
  \/ Construct
  \/ \E l \in Levels : SetMinLogLevel(l) \/ Write(l)

Spec == Init /\ [][Next]_vars

-----------------------------------------------------------------------------
(* The palette the spec (section 4.8) gives an environment: the extended   *)
(* palettes need a TERM ending in "-256color"; COLORFGBG is "fg;bg" and a  *)
(* bg of 7 or above 9 selects the light one; anything malformed is dark.  *)
(* Numbers are read as written, without a bound on their digits.          *)
IsDecimal(t) == t # <<>> /\ \A i \in 1..Len(t) : IsDigit(t[i])

RECURSIVE DropZeros(_)
DropZeros(t) == IF Len(t) > 1 /\ Head(t) = "0" THEN DropZeros(Tail(t)) ELSE t

LightBg(t) == LET u == DropZeros(t) IN Len(u) > 1 \/ u = <<"7">>

SpecPalette(e) ==
  IF e.term = Unset \/ ~IsSuffix(Suffix256, e.term) THEN "colors"
  ELSE IF /\ e.fgbg # Unset
          /\ \E i \in 1..Len(e.fgbg) :
               /\ e.fgbg[i] = ";"
               /\ IsDecimal(SubSeq(e.fgbg, 1, i - 1))
               /\ IsDecimal(SubSeq(e.fgbg, i + 1, Len(e.fgbg)))
               /\ LightBg(SubSeq(e.fgbg, i + 1, Len(e.fgbg)))
       THEN "colors256light"
       ELSE "colors256dark"

(* The constructor picks the palette the spec gives the environment:       *)
(* init_colors's two stoi calls, their checks of `next`, the sign tests    *)
(* and its exception handling agree with the grammar "fg;bg".             *)
PaletteAsSpecified == colors # "none" => colors = SpecPalette(env)

=============================================================================
