------------------------------ MODULE MCPanels ------------------------------
(***************************************************************************)
(* An instance of Panels for TLC.                                          *)
(***************************************************************************)
EXTENDS Panels

TwoSlots == 1 .. 2
=============================================================================
