----------------------------- MODULE MCKeyboard -----------------------------
(***************************************************************************)
(* Small instances of KeyboardSystem for TLC.                              *)
(***************************************************************************)
EXTENDS KeyboardSystem

CONSTANTS f1, f2, f3
=============================================================================
