--------------------------- MODULE ChecksumProofs ---------------------------
(****************************************************************************)
(* Theorems about Checksum, for words of every width and areas of every     *)
(* length: the result is that of the whole sum modulo Width - 1, and the    *)
(* carries die out.                                                         *)
(****************************************************************************)
EXTENDS Checksum, TLAPS

Multiple == Width - 1

LEMMA WidthFacts ==
  /\ Width \in Nat /\ Width >= 2 /\ Multiple \in Nat /\ Multiple >= 1
  /\ Width * Width \in Nat /\ Width * Width >= Width
<1>1. Width \in Nat /\ Width >= 2
  BY ChecksumAssumption
<1>2. Width * Width \in Nat /\ Width * Width >= Width
  BY <1>1
<1> QED BY <1>1, <1>2 DEF Multiple

LEMMA ProductGrows ==
  ASSUME NEW k \in Nat, NEW m \in Nat, m >= 1
  PROVE  k * m \in Nat /\ k <= k * m
<1>1. k * m = k + k * (m - 1)
  OBVIOUS
<1>2. k * (m - 1) \in Nat /\ k * m \in Nat
  OBVIOUS
<1> QED BY <1>1, <1>2

LEMMA ProductPositive ==
  ASSUME NEW k \in Int, NEW m \in Nat, m >= 1, k * m >= 0
  PROVE  k >= 0
<1>1. SUFFICES ASSUME k <= -1 PROVE FALSE
  OBVIOUS
<1>2. -k \in Nat /\ -k >= 1
  BY <1>1
<1>3. (-k) * m >= -k
  BY <1>2, ProductGrows
<1>4. (-k) * m = -(k * m)
  OBVIOUS
<1> QED BY <1>2, <1>3, <1>4

(* SameRest with a factor that may be negative.                             *)
LEMMA RestOf ==
  ASSUME NEW a \in Nat, NEW b \in Nat, SameRest(a, b)
  PROVE  \E k \in Int : a = b + k * Multiple
<1>1. PICK k \in 0 .. a + b : a = b + k * Multiple \/ b = a + k * Multiple
  BY DEF SameRest, Multiple
<1>2. k \in Int /\ -k \in Int /\ (-k) * Multiple = -(k * Multiple) /\ k * Multiple \in Int
  BY <1>1, WidthFacts
<1>3. CASE a = b + k * Multiple
  BY <1>2, <1>3
<1>4. CASE b = a + k * Multiple
  <2>1. a = b + (-k) * Multiple
    BY <1>2, <1>4
  <2> QED BY <1>2, <2>1
<1> QED BY <1>1, <1>3, <1>4

LEMMA RestIs ==
  ASSUME NEW a \in Nat, NEW b \in Nat, NEW k \in Int, a = b + k * Multiple
  PROVE  SameRest(a, b)
<1> DEFINE m == Multiple
<1>1. m \in Nat /\ m >= 1
  BY WidthFacts
<1>2. a = b + k * m
  OBVIOUS
<1> HIDE DEF m
<1>3. CASE k >= 0
  <2>1. k \in Nat /\ k <= k * m /\ k * m \in Nat
    BY <1>1, <1>3, ProductGrows
  <2>2. k \in 0 .. a + b
    BY <1>2, <2>1
  <2> QED BY <1>2, <2>2 DEF SameRest, m, Multiple
<1>4. CASE k < 0
  <2>1. -k \in Nat /\ -k <= (-k) * m /\ (-k) * m \in Nat
    BY <1>1, <1>4, ProductGrows
  <2>2. (-k) * m = -(k * m) /\ k * m \in Int
    BY <1>1
  <2>3. -k \in 0 .. a + b /\ b = a + (-k) * m
    BY <1>2, <2>1, <2>2
  <2> QED BY <2>3 DEF SameRest, m, Multiple
<1> QED BY <1>3, <1>4

(* A number adds up when it is a multiple, whatever the factor.             *)
LEMMA AddsUpIs ==
  ASSUME NEW n \in Nat
  PROVE  AddsUp(n) <=> \E k \in Int : n = k * Multiple
<1>1. AddsUp(n) => \E k \in Int : n = k * Multiple
  BY DEF AddsUp, Multiple
<1>2. ASSUME NEW k \in Int, n = k * Multiple PROVE AddsUp(n)
  <2>1. k >= 0
    BY <1>2, ProductPositive, WidthFacts
  <2>2. k <= n
    BY <1>2, <2>1, ProductGrows, WidthFacts
  <2> QED BY <1>2, <2>1, <2>2 DEF AddsUp, Multiple
<1> QED BY <1>1, <1>2

(* Two words that go into one block, or one alone: each place of a block    *)
(* has the weight of a word of the sum.                                     *)
LEMMA WordsAdded ==
  ASSUME NEW a \in Nat, NEW b \in Nat, SameRest(a, b), NEW v \in Word, NEW w \in Word
  PROVE  /\ Block(v, w) \in Nat /\ Block(v, w) <= Width * Width - 1
         /\ SameRest(a + Block(v, w), b + v + w)
<1> DEFINE W == Width
<1>1. W \in Nat /\ W >= 2 /\ v \in Nat /\ w \in Nat /\ v <= W - 1 /\ w <= W - 1
  BY WidthFacts DEF Word
<1>2. Block(v, w) = v * W + w
  BY DEF Block
<1>3. PICK k \in Int : a = b + k * (W - 1)
  BY RestOf DEF Multiple
<1> HIDE DEF W
<1>4. v * W \in Nat /\ v * W <= (W - 1) * W /\ (W - 1) * W = W * W - W /\ W * W \in Nat
  <2>1. PICK d \in Nat : W - 1 = v + d
    BY <1>1
  <2>2. (v + d) * W = v * W + d * W /\ d * W \in Nat /\ v * W \in Nat
    BY <1>1
  <2> QED BY <1>1, <2>1, <2>2
<1>5. Block(v, w) \in Nat /\ Block(v, w) <= W * W - 1
  BY <1>1, <1>2, <1>4
<1>6. a + Block(v, w) = (b + v + w) + (k + v) * (W - 1)
  <2>1. (k + v) * (W - 1) = k * (W - 1) + v * W - v
    BY <1>1
  <2>2. k * (W - 1) \in Int
    BY <1>1
  <2> QED BY <1>1, <1>2, <1>3, <1>4, <2>1, <2>2
<1>7. a + Block(v, w) \in Nat /\ b + v + w \in Nat /\ k + v \in Int
  BY <1>1, <1>5
<1> QED BY <1>5, <1>6, <1>7, RestIs DEF W, Multiple

(* What is above the lower n, when it is added to them.                     *)
LEMMA CarriedParts ==
  ASSUME NEW a \in Nat, NEW n \in Nat, n >= 2
  PROVE  /\ a \div n \in Nat /\ a % n \in 0 .. n - 1
         /\ a = (a \div n) * n + (a % n) /\ (a \div n) * n \in Nat
         /\ Carried(a, n) = a - (a \div n) * (n - 1)
         /\ Carried(a, n) \in Nat /\ Carried(a, n) <= a
         /\ a > 0 => Carried(a, n) > 0
         /\ a \div n # 0 => Carried(a, n) < a
<1> DEFINE q == a \div n
           r == a % n
<1>1. q \in Nat /\ r \in 0 .. n - 1 /\ a = n * q + r
  OBVIOUS
<1>2. Carried(a, n) = r + q
  BY DEF Carried
<1> HIDE DEF q, r
<1>3. n * q = q * n /\ q * n \in Nat /\ q * (n - 1) = q * n - q
  BY <1>1
<1>4. Carried(a, n) = a - q * (n - 1)
  BY <1>1, <1>2, <1>3
<1>5. q * (n - 1) \in Nat /\ q <= q * (n - 1)
  BY <1>1, ProductGrows
<1>6. Carried(a, n) \in Nat /\ Carried(a, n) <= a
  BY <1>1, <1>2, <1>4, <1>5
<1>7. a > 0 => Carried(a, n) > 0
  <2>1. q = 0 => q * n = 0
    BY <1>1
  <2> QED BY <1>1, <1>2, <1>3, <2>1
<1>8. q # 0 => Carried(a, n) < a
  BY <1>1, <1>4, <1>5
<1>9. a = q * n + r /\ q * n \in Nat
  BY <1>1, <1>3
<1> QED BY <1>1, <1>4, <1>6, <1>7, <1>8, <1>9 DEF q, r

(* Neither carry changes what acc stands for.                               *)
LEMMA CarriesKeepRest ==
  ASSUME NEW a \in Nat, NEW b \in Nat, SameRest(a, b), NEW c \in Nat, NEW n \in Nat, n >= 2,
         n - 1 = c * Multiple
  PROVE  SameRest(Carried(a, n), b)
<1> DEFINE q == a \div n
           m == Multiple
<1>1. q \in Nat /\ Carried(a, n) = a - q * (n - 1) /\ Carried(a, n) \in Nat
  BY CarriedParts
<1>2. PICK k \in Int : a = b + k * m
  BY RestOf
<1>3. m \in Nat /\ n - 1 = c * m
  BY WidthFacts
<1> HIDE DEF q, m
<1>4. Carried(a, n) = b + (k - q * c) * m
  <2>1. q * (n - 1) = q * (c * m)
    BY <1>3
  <2>2. q * (c * m) = (q * c) * m /\ q * c \in Int
    BY <1>1, <1>3
  <2>3. (k - q * c) * m = k * m - (q * c) * m /\ k * m \in Int /\ (q * c) * m \in Int
    BY <1>1, <1>3, <2>2
  <2> QED BY <1>1, <1>2, <2>1, <2>2, <2>3
<1>5. k - q * c \in Int
  BY <1>1
<1> QED BY <1>1, <1>4, <1>5, RestIs DEF m

LEMMA WidthIsOneMore == 1 \in Nat /\ Width - 1 = 1 * Multiple
BY WidthFacts DEF Multiple

LEMMA SquareIsOneMore == Width + 1 \in Nat /\ Width * Width - 1 = (Width + 1) * Multiple
BY WidthFacts DEF Multiple

-----------------------------------------------------------------------------
LEMMA InitChecksum == Init => ChecksumInv
<1> SUFFICES ASSUME Init PROVE ChecksumInv
  OBVIOUS
<1> DEFINE W == Width
           S == Width * Width
<1>1. /\ pc = "start" /\ offset \in {0, 1} /\ size \in Nat /\ size + 1 <= S
      /\ acc = W - 1 /\ result = 0 /\ sum = 0
  BY ChecksumAssumption DEF Init, Initial
<1>2. W \in Nat /\ W >= 2 /\ S \in Nat /\ S >= W
  BY WidthFacts
<1>3. SameRest(acc, sum)
  <2>1. acc \in Nat /\ sum \in Nat /\ acc = sum + 1 * Multiple
    BY <1>1, <1>2 DEF Multiple
  <2> QED BY <2>1, RestIs
<1>4. TypeOK
  BY <1>1, <1>2 DEF TypeOK, Word
<1> HIDE DEF W, S
<1>5. acc + size * S < S * S
  <2>1. PICK d \in Nat : S = size + 1 + d
    BY <1>1, <1>2
  <2>2. (size + 1 + d) * S = size * S + S + d * S /\ size * S \in Nat /\ d * S \in Nat
    BY <1>1, <1>2
  <2> QED BY <1>1, <1>2, <2>1, <2>2
<1> QED BY <1>1, <1>2, <1>3, <1>4, <1>5 DEF ChecksumInv, W, S

LEMMA PartialStartKeeps ==
  ASSUME ChecksumInv, PartialStart
  PROVE  ChecksumInv'
<1> DEFINE S == Width * Width
<1>1. CASE offset = 1 /\ size > 0
  <2>1. PICK w \in Word : acc' = acc + w /\ sum' = sum + w
    BY <1>1 DEF PartialStart
  <2>2. pc' = "blocks" /\ size' = size - 1 /\ UNCHANGED <<offset, result>>
    BY <1>1 DEF PartialStart
  <2>3. acc \in Nat /\ sum \in Nat /\ size \in Nat /\ S \in Nat /\ S >= Width /\ Width \in Nat
    BY WidthFacts DEF ChecksumInv, TypeOK
  <2>4. SameRest(acc', sum')
    <3>1. 0 \in Word /\ w \in Nat /\ Block(0, w) = w
      BY WidthFacts DEF Word, Block
    <3>2. SameRest(acc + Block(0, w), sum + 0 + w)
      BY <2>3, <3>1, WordsAdded DEF ChecksumInv
    <3> QED BY <2>1, <2>3, <3>1, <3>2
  <2>5. w \in Nat /\ w < Width
    BY <2>3 DEF Word
  <2>6. acc' + size' * S < S * S
    <3>1. acc + size * S < S * S
      BY DEF ChecksumInv
    <3> HIDE DEF S
    <3>2. (size - 1) * S = size * S - S /\ size * S \in Nat /\ S * S \in Nat
      BY <2>3
    <3> QED BY <2>1, <2>2, <2>3, <2>5, <3>1, <3>2
  <2>7. TypeOK' /\ acc' > 0
    BY <1>1, <2>1, <2>2, <2>3, <2>5 DEF ChecksumInv, TypeOK
  <2> QED BY <2>2, <2>4, <2>6, <2>7 DEF ChecksumInv
<1>2. CASE ~(offset = 1 /\ size > 0)
  BY <1>2 DEF PartialStart, ChecksumInv, TypeOK
<1> QED BY <1>1, <1>2

LEMMA CompleteBlockKeeps ==
  ASSUME ChecksumInv, CompleteBlock
  PROVE  ChecksumInv'
<1> DEFINE S == Width * Width
<1>1. PICK v, w \in Word : acc' = acc + Block(v, w) /\ sum' = sum + v + w
  BY DEF CompleteBlock
<1>2. pc = "blocks" /\ size >= 2 /\ size' = size - 2 /\ UNCHANGED <<pc, offset, result>>
  BY DEF CompleteBlock
<1>3. acc \in Nat /\ sum \in Nat /\ size \in Nat /\ S \in Nat /\ v \in Nat /\ w \in Nat
  BY WidthFacts DEF ChecksumInv, TypeOK, Word
<1>4. Block(v, w) \in Nat /\ Block(v, w) <= S - 1 /\ SameRest(acc', sum')
  BY <1>1, <1>3, WordsAdded DEF ChecksumInv
<1>5. acc' + size' * S < S * S
  <2>1. acc + size * S < S * S
    BY DEF ChecksumInv
  <2> HIDE DEF S
  <2>2. (size - 2) * S = size * S - 2 * S /\ size * S \in Nat /\ S * S \in Nat
    BY <1>3
  <2> QED BY <1>1, <1>2, <1>3, <1>4, <2>1, <2>2
<1>6. TypeOK' /\ acc' > 0
  BY <1>1, <1>2, <1>3, <1>4 DEF ChecksumInv, TypeOK
<1> QED BY <1>2, <1>4, <1>5, <1>6 DEF ChecksumInv

LEMMA PartialEndKeeps ==
  ASSUME ChecksumInv, PartialEnd
  PROVE  ChecksumInv'
<1> DEFINE S == Width * Width
<1>1. pc' = "deferred" /\ size' = 0 /\ UNCHANGED <<offset, result>>
  BY DEF PartialEnd
<1>2. acc \in Nat /\ sum \in Nat /\ size \in Nat /\ S \in Nat
  BY WidthFacts DEF ChecksumInv, TypeOK
<1>3. CASE size = 1
  <2>1. PICK w \in Word : acc' = acc + Block(w, 0) /\ sum' = sum + w
    BY <1>3 DEF PartialEnd
  <2>2. 0 \in Word /\ w \in Nat
    BY WidthFacts DEF Word
  <2>3. Block(w, 0) \in Nat /\ Block(w, 0) <= S - 1 /\ SameRest(acc', sum')
    <3>1. sum + w + 0 = sum + w
      BY <1>2, <2>2
    <3>2. Block(w, 0) \in Nat /\ Block(w, 0) <= S - 1 /\ SameRest(acc + Block(w, 0), sum + w + 0)
      BY <1>2, <2>2, WordsAdded DEF ChecksumInv
    <3> QED BY <2>1, <3>1, <3>2
  <2>4. acc' + size' * S < S * S
    <3>1. acc + size * S < S * S
      BY DEF ChecksumInv
    <3> HIDE DEF S
    <3>2. 1 * S = S /\ 0 * S = 0 /\ S * S \in Nat
      BY <1>2
    <3> QED BY <1>1, <1>2, <1>3, <2>1, <2>3, <3>1, <3>2
  <2>5. TypeOK' /\ acc' > 0
    BY <1>1, <1>2, <2>1, <2>2, <2>3 DEF ChecksumInv, TypeOK
  <2> QED BY <1>1, <2>3, <2>4, <2>5 DEF ChecksumInv
<1>4. CASE size # 1
  <2>1. size = 0 /\ UNCHANGED <<acc, sum, size>>
    BY <1>1, <1>2, <1>4 DEF PartialEnd
  <2> QED BY <1>1, <2>1 DEF ChecksumInv, TypeOK
<1> QED BY <1>3, <1>4

LEMMA CarryingKeeps ==
  ASSUME ChecksumInv, DeferredCarries \/ Carry
  PROVE  ChecksumInv'
<1> DEFINE S == Width * Width
<1>1. PICK n \in {S, Width} : acc' = Carried(acc, n)
  BY DEF DeferredCarries, Carry
<1>2. pc' = "carries" /\ UNCHANGED <<offset, size, result, sum>>
  BY DEF DeferredCarries, Carry
<1>3. acc \in Nat /\ sum \in Nat /\ acc > 0 /\ SameRest(acc, sum) /\ size \in Nat
  BY DEF ChecksumInv, TypeOK
<1>4. n \in Nat /\ n >= 2
  BY <1>1, WidthFacts
<1>5. \E c \in Nat : n - 1 = c * Multiple
  BY <1>1, WidthIsOneMore, SquareIsOneMore
<1>6. acc' \in Nat /\ acc' <= acc /\ acc' > 0 /\ SameRest(acc', sum')
  BY <1>1, <1>2, <1>3, <1>4, <1>5, CarriedParts, CarriesKeepRest
<1>7. acc' + size' * S < S * S
  <2>1. acc + size * S < S * S
    BY DEF ChecksumInv
  <2>2. S \in Nat
    BY WidthFacts
  <2> HIDE DEF S
  <2>3. size * S \in Nat /\ S * S \in Nat
    BY <1>3, <2>2
  <2> QED BY <1>2, <1>3, <1>6, <2>1, <2>3
<1> QED BY <1>2, <1>6, <1>7 DEF ChecksumInv, TypeOK

LEMMA ReturnKeeps ==
  ASSUME ChecksumInv, Return
  PROVE  ChecksumInv'
<1>1. acc \in Nat /\ acc > 0 /\ acc \div Width = 0 /\ Width \in Nat /\ Width >= 2
  BY WidthFacts DEF ChecksumInv, TypeOK, Return
<1>2. acc < Width
  <2>1. acc = (acc \div Width) * Width + (acc % Width) /\ acc % Width \in 0 .. Width - 1
    BY <1>1, CarriedParts
  <2>2. (acc \div Width) * Width = 0
    BY <1>1
  <2> QED BY <1>1, <2>1, <2>2
<1>3. Complement(acc) \in Word
  BY <1>1, <1>2 DEF Complement, Word
<1> QED BY <1>1, <1>2, <1>3 DEF Return, ChecksumInv, TypeOK

LEMMA NextChecksum ==
  ASSUME ChecksumInv, [Next]_checksumVars
  PROVE  ChecksumInv'
<1>1. CASE UNCHANGED checksumVars
  BY <1>1 DEF checksumVars, ChecksumInv, TypeOK
<1>2. CASE Next
  BY <1>2, PartialStartKeeps, CompleteBlockKeeps, PartialEndKeeps, CarryingKeeps, ReturnKeeps DEF Next
<1> QED BY <1>1, <1>2

(* The invariant: acc stands for the sum of the words that were added.      *)
THEOREM ChecksumInductive == Spec => []ChecksumInv
<1> QED BY InitChecksum, NextChecksum, PTL DEF Spec

-----------------------------------------------------------------------------
(* Of the numbers acc can be at the end, Width - 1 is the one whose         *)
(* complement is 0 and the one that is a multiple of Width - 1.             *)
LEMMA LastRest ==
  ASSUME NEW b \in Nat, NEW a \in Nat, a > 0, a < Width, SameRest(a, b)
  PROVE  /\ Complement(a) = 0 <=> AddsUp(b)
         /\ AddsUp(b + Complement(a))
<1> DEFINE m == Multiple
<1>1. m \in Nat /\ m >= 1 /\ Width = m + 1
  BY WidthFacts DEF Multiple
<1>2. PICK k \in Int : a = b + k * m
  BY RestOf
<1>3. Complement(a) = m - a /\ a <= m
  BY <1>1 DEF Complement
<1>4. (1 - k) * m = m - k * m /\ k * m \in Int /\ 1 - k \in Int
  BY <1>1
<1> HIDE DEF m
<1>5. AddsUp(b + Complement(a))
  <2>1. b + Complement(a) = (1 - k) * m /\ b + Complement(a) \in Nat
    BY <1>1, <1>2, <1>3, <1>4
  <2> QED BY <1>4, <2>1, AddsUpIs DEF m
<1>6. Complement(a) = 0 => AddsUp(b)
  <2>1. ASSUME Complement(a) = 0 PROVE b = (1 - k) * m
    BY <1>1, <1>2, <1>3, <1>4, <2>1
  <2> QED BY <1>4, <2>1, AddsUpIs DEF m
<1>7. ASSUME AddsUp(b) PROVE Complement(a) = 0
  <2>1. PICK j \in Int : b = j * m
    BY <1>7, AddsUpIs DEF m
  <2>2. a = (j + k) * m /\ j + k \in Int
    BY <1>1, <1>2, <2>1
  <2>3. j + k >= 0
    BY <1>1, <2>2, ProductPositive
  <2>4. j + k # 0
    BY <1>1, <2>2
  <2>5. (j + k) * m = m + (j + k - 1) * m /\ (j + k - 1) * m \in Nat
    BY <1>1, <2>2, <2>3, <2>4
  <2> QED BY <1>1, <1>3, <2>2, <2>5
<1> QED BY <1>5, <1>6, <1>7

(* is_garbage accepts the headers that add up and no others: ip_checksum    *)
(* returns 0 for them alone (skel.c:163-213, ip_icmp.c:118).                *)
THEOREM ZeroIsExact == Spec => []ZeroMeansIntact
<1>1. ChecksumInv => ZeroMeansIntact
  BY LastRest DEF ChecksumInv, TypeOK, ZeroMeansIntact
<1> QED BY <1>1, ChecksumInductive, PTL

(* A header whose checksum was 0 and is now the result adds up, so that the *)
(* next host accepts what the router has made (ip_icmp.c:27-29, 52-54).     *)
THEOREM ResultIsRight == Spec => []ResultCompletes
<1>1. ChecksumInv => ResultCompletes
  BY LastRest DEF ChecksumInv, TypeOK, ResultCompletes
<1> QED BY <1>1, ChecksumInductive, PTL

(* What the loop over the carries leaves gets smaller (skel.c:201-203).     *)
THEOREM CarriesGetLess == Spec => CarriesShrink
<1>1. ASSUME ChecksumInv, [Next]_checksumVars
      PROVE  [pc = "carries" /\ pc' = "carries" => acc' < acc]_checksumVars
  <2>1. SUFFICES ASSUME pc = "carries", pc' = "carries", Next PROVE acc' < acc
    BY <1>1
  <2>2. acc \div Width # 0 /\ acc' = Carried(acc, Width)
    BY <2>1 DEF Next, PartialStart, CompleteBlock, PartialEnd, DeferredCarries, Carry, Return
  <2>3. acc \in Nat /\ Width \in Nat /\ Width >= 2
    BY <1>1, WidthFacts DEF ChecksumInv, TypeOK
  <2> QED BY <2>2, <2>3, CarriedParts
<1> QED BY <1>1, ChecksumInductive, PTL DEF Spec, CarriesShrink
=============================================================================
