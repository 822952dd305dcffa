----------------------------- MODULE MCLogger -----------------------------
(* Instantiation of Logger for TLC.                                        *)
EXTENDS Logger

CONSTANTS a1, a2   \* application threads
=============================================================================
