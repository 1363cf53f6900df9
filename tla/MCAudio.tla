------------------------------ MODULE MCAudio ------------------------------
(***************************************************************************)
(* Small instances of AudioSession for TLC.                                *)
(***************************************************************************)
EXTENDS AudioSession
=============================================================================
