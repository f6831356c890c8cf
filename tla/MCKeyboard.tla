----------------------------- MODULE MCKeyboard -----------------------------
(* Two keys and a ring with room for two codes.                              *)
EXTENDS Keyboard
=============================================================================
