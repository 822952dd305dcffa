----------------------------- MODULE LogLevels -----------------------------
(***************************************************************************)
(* The severity levels of logger::log_level (src/logger.h), an enum class  *)
(* whose declaration order is its ordering: the code compares levels with  *)
(* `<` (logger::log, output_stream::write).  A level is its rank here.     *)
(***************************************************************************)
EXTENDS Naturals

Finest  == 0
Finer   == 1
Fine    == 2
Config  == 3
Info    == 4
Warning == 5
Severe  == 6

Level == Finest..Severe

=============================================================================
