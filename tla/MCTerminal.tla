---------------------------- MODULE MCTerminal ----------------------------
(***************************************************************************)
(* Instances of the terminal for TLC.                                      *)
(***************************************************************************)
EXTENDS TerminalProperties

SomeSizes == {-1, 2}
TheFirst == {1}
=============================================================================
