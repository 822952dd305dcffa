---------------------------- MODULE MCStompSink ----------------------------
(* Instantiation of StompSink for TLC.                                     *)
EXTENDS StompSink
=============================================================================
