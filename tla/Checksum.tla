------------------------------ MODULE Checksum ------------------------------
(****************************************************************************)
(* ip_checksum of Tema-1-PCom, over an area of 16-bit words that starts at  *)
(* an even address, as its callers' headers do.  A word is the number its   *)
(* bytes are on the wire; which words the area holds is left open, and      *)
(* Router has what the result is used for.                                  *)
(****************************************************************************)
EXTENDS Integers

CONSTANTS
  Width,  \* numbers a 16-bit word can hold
  Lengths \* of the areas, in words

(* Areas are far shorter than 2^32 words.                                   *)
ASSUME ChecksumAssumption ==
  /\ Width \in Nat \ {0, 1}
  /\ Lengths \subseteq Nat
  /\ \A n \in Lengths : n + 1 <= Width * Width

VARIABLES
  pc,     \* "start", "blocks", "deferred", "carries", "returned"
  offset, \* of the area in its 32-bit block, in words
  size,   \* words that are not yet added
  acc,
  result, \* of htons(~acc), the number it is on the wire
  sum     \* of the words that were added (used by properties)

checksumVars == <<pc, offset, size, acc, result, sum>>

Word == 0 .. Width - 1

(* mutant: nothing added so far *)
InitialZero == 0

(* 0xffff counts for nothing, but acc is never 0.                           *)
Initial == Width - 1

Init ==
  /\ pc = "start" /\ offset \in {0, 1} /\ size \in Lengths
  /\ acc = Initial /\ result = 0 /\ sum = 0

(* The partial block before the first full one has its word at the end.     *)
PartialStart ==
  /\ pc = "start" /\ pc' = "blocks"
  /\ IF offset = 1 /\ size > 0
     THEN /\ \E w \in Word : acc' = acc + w /\ sum' = sum + w
          /\ size' = size - 1
     ELSE UNCHANGED <<acc, sum, size>>
  /\ UNCHANGED <<offset, result>>

Block(w1, w2) == w1 * Width + w2

CompleteBlock ==
  /\ pc = "blocks" /\ size >= 2
  /\ \E w1, w2 \in Word : acc' = acc + Block(w1, w2) /\ sum' = sum + w1 + w2
  /\ size' = size - 2
  /\ UNCHANGED <<pc, offset, result>>

(* The partial block after the last full one has its word at the start.     *)
PartialEnd ==
  /\ pc = "blocks" /\ size < 2 /\ pc' = "deferred"
  /\ IF size = 1
     THEN \E w \in Word : acc' = acc + Block(w, 0) /\ sum' = sum + w
     ELSE UNCHANGED <<acc, sum>>
  /\ size' = 0
  /\ UNCHANGED <<offset, result>>

(* mutant: what is above the lower n stays where it was *)
LeftThere(a, n) == (a % n) + (a \div n) * n

(* What is above the lower n is added to them.                              *)
Carried(a, n) == (a % n) + (a \div n)

DeferredCarries ==
  /\ pc = "deferred" /\ pc' = "carries"
  /\ acc' = Carried(acc, Width * Width)
  /\ UNCHANGED <<offset, size, result, sum>>

Carry ==
  /\ pc = "carries" /\ acc \div Width # 0
  /\ acc' = Carried(acc, Width)
  /\ UNCHANGED <<pc, offset, size, result, sum>>

(* mutant: the two's complement *)
Negative(a) == Width - a

Complement(a) == Width - 1 - a

Return ==
  /\ pc = "carries" /\ acc \div Width = 0
  /\ pc' = "returned"
  /\ result' = Complement(acc)
  /\ UNCHANGED <<offset, size, acc, sum>>

Next ==
  PartialStart \/ CompleteBlock \/ PartialEnd \/ DeferredCarries \/ Carry \/ Return

Spec == Init /\ [][Next]_checksumVars

(* The function is called and runs; nothing in it waits.                    *)
FairSpec == Spec /\ WF_checksumVars(Next)

-----------------------------------------------------------------------------
TypeOK ==
  /\ pc \in {"start", "blocks", "deferred", "carries", "returned"}
  /\ offset \in {0, 1} /\ size \in Nat /\ acc \in Nat /\ sum \in Nat
  /\ result \in Word

AddsUp(n) == \E k \in 0 .. n : n = k * (Width - 1)

(* is_garbage throws a packet away when the result is not 0                 *)
(* (ip_icmp.c:118): it is 0 for the headers that add up, and for no other,  *)
(* whatever carries there were (Router's ChecksumOK).                       *)
ZeroMeansIntact == pc = "returned" => (result = 0 <=> AddsUp(sum))

(* ip_hdr_setter and icmp_hdr_setter put the result where there was a 0     *)
(* (ip_icmp.c:27-29, 52-54): the header they leave adds up.                 *)
ResultCompletes == pc = "returned" => AddsUp(sum + result)

(* A turn of the loop over the carries that leaves another acc leaves a     *)
(* smaller one (skel.c:201-203).                                            *)
CarriesShrink == [][pc = "carries" /\ pc' = "carries" => acc' < acc]_checksumVars

(* Liveness, under FairSpec: that loop ends.                                *)
Returns == <>(pc = "returned")

SameRest(a, b) ==
  \E k \in 0 .. a + b : a = b + k * (Width - 1) \/ b = a + k * (Width - 1)

(* The inductive invariant: acc stands for the sum, is not 0, and what is   *)
(* left to add does not carry out of its 64 bits.                           *)
ChecksumInv ==
  /\ TypeOK
  /\ acc > 0 /\ SameRest(acc, sum)
  /\ acc + size * (Width * Width) < (Width * Width) * (Width * Width)
  /\ pc = "returned" => acc < Width /\ result = Complement(acc)
=============================================================================
