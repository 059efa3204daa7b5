----------------------------- MODULE MCChecksum -----------------------------
(* Words of 2 bits, of which areas of the first few lengths are added.      *)
EXTENDS Checksum

CONSTANT MaxLength \* bound: length of an area

MCLengths == 0 .. MaxLength
=============================================================================
