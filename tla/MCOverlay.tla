------------------------------ MODULE MCOverlay ------------------------------
(* Two possible files; a buffer of three bytes, one of them for the zero     *)
(* byte, and texts of two and three bytes: both sides of the limit.          *)
EXTENDS Overlay

MCNames == <<"a", "b">>
==============================================================================
