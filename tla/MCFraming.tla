----------------------------- MODULE MCFraming -----------------------------
(* Instances of Framing for TLC: bytes of two values, sizes of two bytes.   *)
EXTENDS Framing

MCValues == <<2, 4>>
=============================================================================
