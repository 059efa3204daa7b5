------------------------- MODULE RouteLookupProofs -------------------------
(****************************************************************************)
(* Theorems about RouteLookup, for every width of the integers, every table *)
(* and every destination.                                                   *)
(****************************************************************************)
EXTENDS RouteLookup, WellFoundedInduction, TLAPS

LEMMA UnsignedPred ==
  ASSUME NEW n \in Nat, n <= UIntMax
  PROVE Unsigned(n - 1) = IF n = 0 THEN UIntMax ELSE n - 1
<1>1. UIntMax \in Nat
  BY LookupAssumption
<1>2. CASE n = 0
  BY <1>1, <1>2 DEF Unsigned
<1>3. CASE n # 0
  <2>1. n - 1 \in 0 .. UIntMax
    BY <1>1, <1>3
  <2> QED BY <1>1, <1>3, <2>1 DEF Unsigned
<1> QED BY <1>2, <1>3

(* What the typed state gives the other lemmas.                             *)
LEMMA TableFacts ==
  ASSUME TypeOK, rtable \in Tables
  PROVE /\ Len(rtable) \in Nat /\ UIntMax \in Nat /\ 2 * Len(rtable) < UIntMax
        /\ left \in Nat /\ right \in Nat
BY LookupAssumption DEF TypeOK, Indices

(* The destination is below an entry, matches it or is above it.            *)
LEMMA OneOfThree ==
  ASSUME TypeOK, NEW i \in Indices
  PROVE /\ Matches(dest, i) \/ Above(dest, i) \/ Below(dest, i)
        /\ ~(Matches(dest, i) /\ Above(dest, i))
        /\ ~(Matches(dest, i) /\ Below(dest, i))
        /\ ~(Above(dest, i) /\ Below(dest, i))
<1>1. rtable \in Seq(Entry) /\ i + 1 \in 1 .. Len(rtable)
  BY DEF TypeOK, Indices
<1>2. rtable[i + 1] \in Entry
  BY <1>1
<1>3. /\ rtable[i + 1].prefix \in Addresses /\ rtable[i + 1].mask \in Masks
      /\ dest \in Addresses
  BY <1>2 DEF Entry, TypeOK
<1>4. Masked[dest][rtable[i + 1].mask] \in Addresses
  BY <1>3, LookupAssumption
<1>5. \A a \in Addresses : a \in Int
  BY LookupAssumption
<1> QED BY <1>3, <1>4, <1>5 DEF Matches, Above, Below

LEMMA MidBounds ==
  ASSUME left \in Nat, right \in Nat, left <= right
  PROVE Mid \in Nat /\ left <= Mid /\ Mid <= right
BY DEF Mid

(* The table does not change.                                               *)
Loaded == rtable \in Tables

LEMMA InitInv == Init => LookupInv /\ Loaded
<1> SUFFICES ASSUME Init PROVE LookupInv /\ Loaded
  OBVIOUS
<1> USE DEF Init
<1>1. rtable \in Tables /\ rtable \in Seq(Entry) /\ 2 * Len(rtable) < UIntMax
  BY LookupAssumption
<1>2. Len(rtable) \in Nat /\ UIntMax \in Nat
  BY <1>1, LookupAssumption
<1>3. right = IF Len(rtable) = 0 THEN UIntMax ELSE Len(rtable) - 1
  BY <1>1, <1>2, UnsignedPred DEF LastIndex
<1>4. TypeOK
  BY <1>1, <1>2, <1>3 DEF TypeOK, Indices
<1>5. Window
  BY <1>2, <1>3 DEF Window, Indices, AtTop
<1>6. Scanned
  BY <1>2, <1>3 DEF Scanned, Indices
<1>7. OutsideAtTop /\ FirstMatch
  BY DEF OutsideAtTop, FirstMatch
<1> QED BY <1>1, <1>4, <1>5, <1>6, <1>7 DEF LookupInv, Loaded

(* A probe reads an entry only while the bounds are in the table.           *)
LEMMA ProbeInside ==
  ASSUME LookupInv, Loaded, Searching, Mid < Len(rtable)
  PROVE right \in Indices /\ Mid \in Indices /\ left <= Mid /\ Mid <= right
<1>1. TypeOK /\ Window /\ pc = "searching" /\ left <= right
  BY DEF LookupInv, Searching
<1>2. /\ Len(rtable) \in Nat /\ UIntMax \in Nat /\ 2 * Len(rtable) < UIntMax
      /\ left \in Nat /\ right \in Nat
  BY <1>1, TableFacts DEF Loaded
<1>3. Mid \in Nat /\ left <= Mid /\ Mid <= right
  BY <1>1, <1>2, MidBounds
<1>4. ~(right = UIntMax /\ left = 0)
  BY <1>2 DEF Mid
<1> QED BY <1>1, <1>2, <1>3, <1>4 DEF Window, Indices

LEMMA ProbeInv ==
  ASSUME LookupInv, Loaded, Probe
  PROVE LookupInv' /\ Loaded'
<1>1. /\ TypeOK /\ Window /\ Scanned /\ FirstMatch
      /\ pc = "searching" /\ pc' = "searching" /\ UNCHANGED <<rtable, dest>>
  BY DEF LookupInv, Probe, Searching
<1>2. right \in Indices /\ Mid \in Indices /\ left <= Mid /\ Mid <= right
  BY ProbeInside DEF Probe
<1>3. /\ Len(rtable) \in Nat /\ UIntMax \in Nat /\ 2 * Len(rtable) < UIntMax
      /\ left \in Nat /\ right \in Nat /\ Mid \in Nat
  BY <1>1, <1>2, TableFacts DEF Loaded, Indices
<1>4. /\ Indices' = Indices /\ Len(rtable)' = Len(rtable)
      /\ \A d, i : /\ Matches(d, i)' <=> Matches(d', i)
                   /\ Above(d, i)' <=> Above(d', i)
                   /\ Below(d, i)' <=> Below(d', i)
      /\ Ordered(dest)' <=> Ordered(dest)
      /\ AtTop(dest)' <=> AtTop(dest)
  BY <1>1 DEF Indices, Matches, Above, Below, Ordered, AtTop
<1>5. OutsideAtTop'
  BY <1>1 DEF OutsideAtTop
<1>6. Loaded'
  BY <1>1 DEF Loaded
<1>7. \A i \in Indices :
        /\ Matches(dest, i) \/ Above(dest, i) \/ Below(dest, i)
        /\ ~(Matches(dest, i) /\ Above(dest, i))
        /\ ~(Matches(dest, i) /\ Below(dest, i))
        /\ ~(Above(dest, i) /\ Below(dest, i))
  BY <1>1, OneOfThree
<1>8. right' = Unsigned(Mid - 1) => right' = IF Mid = 0 THEN UIntMax ELSE Mid - 1
  BY <1>2, <1>3, UnsignedPred DEF Indices
<1>9. CASE /\ ~Below(dest, Mid) /\ ToTheLeft
           /\ best' \in Indices \cup {NotFound}
           /\ best' # NotFound => Matches(dest, best')
           /\ \/ best' = best /\ Above(dest, Mid)
              \/ best' = Mid /\ Matches(dest, Mid)
  <2>1. left' = left /\ right' = IF Mid = 0 THEN UIntMax ELSE Mid - 1
    BY <1>8, <1>9 DEF ToTheLeft
  <2>2. TypeOK'
    BY <1>1, <1>2, <1>3, <1>4, <1>9, <2>1 DEF TypeOK, Indices
  <2>3. Window'
    BY <1>1, <1>2, <1>3, <1>4, <1>9, <2>1 DEF Window, Indices, AtTop
  <2>4. FirstMatch'
    BY <1>1, <1>4, <1>9 DEF FirstMatch
  <2>5. ASSUME right' \in Indices, Ordered(dest)
        PROVE /\ \A i \in 0 .. left - 1 : Below(dest, i)
              /\ \A i \in right' + 1 .. Len(rtable) - 1 : ~Below(dest, i)
              /\ IF best' = NotFound
                 THEN \A i \in right' + 1 .. Len(rtable) - 1 : ~Matches(dest, i)
                 ELSE best' > right' /\ \A i \in right' + 1 .. best' - 1 : ~Matches(dest, i)
    <3>1. right' + 1 = Mid
      BY <1>2, <1>3, <2>1, <2>5 DEF Indices
    <3>2. \A i \in 0 .. left - 1 : Below(dest, i)
      BY <1>1, <1>2, <2>5 DEF Scanned
    <3>3. \A i \in Mid + 1 .. Len(rtable) - 1 : ~Below(dest, i)
      BY <1>2, <1>3, <1>9, <2>5 DEF Ordered, Indices
    <3>4. CASE best' = Mid /\ Matches(dest, Mid)
      <4>1. \A i \in Mid .. Len(rtable) - 1 : ~Below(dest, i)
        BY <1>3, <1>9, <3>3
      <4>2. best' # NotFound /\ best' > right'
        <5>1. right' \in Nat
          BY <1>3, <2>5 DEF Indices
        <5>2. best' = Mid
          BY <3>4
        <5>3. best' > right'
          <6>1. Mid > right'
            BY <3>1, <5>1
          <6> QED BY <5>2, <6>1
        <5>4. Mid # NotFound
          BY <1>3 DEF NotFound
        <5> QED BY <5>2, <5>3, <5>4
      <4>3. right' + 1 .. best' - 1 = {}
        BY <1>3, <3>1, <3>4
      <4> QED BY <3>1, <3>2, <4>1, <4>2, <4>3
    <3>5. CASE best' = best /\ Above(dest, Mid)
      <4>1. \A i \in Mid + 1 .. Len(rtable) - 1 : Above(dest, i)
        BY <1>2, <1>3, <2>5, <3>5 DEF Ordered, Indices
      <4>2. \A i \in Mid .. Len(rtable) - 1 : ~Matches(dest, i)
        BY <1>2, <1>3, <1>7, <3>5, <4>1 DEF Indices
      <4>3. best = NotFound
        <5>1. ASSUME best # NotFound PROVE FALSE
          <6>1. best > right /\ Matches(dest, best)
            BY <1>1, <1>2, <2>5, <5>1 DEF Scanned, FirstMatch
          <6>2. best \in Mid .. Len(rtable) - 1
            BY <1>1, <1>2, <1>3, <5>1, <6>1 DEF TypeOK, Indices
          <6> QED BY <4>2, <6>1, <6>2
        <5> QED BY <5>1
      <4> QED BY <1>2, <1>3, <1>9, <3>1, <3>2, <3>3, <3>5, <4>2, <4>3 DEF Indices
    <3> QED BY <1>9, <3>4, <3>5
  <2>6. Scanned'
    BY <1>1, <1>4, <2>1, <2>5 DEF Scanned
  <2> QED BY <1>5, <1>6, <2>2, <2>3, <2>4, <2>6 DEF LookupInv
<1>10. CASE Matches(dest, Mid) /\ Take
  BY <1>2, <1>7, <1>9, <1>10 DEF Take
<1>11. CASE Above(dest, Mid) /\ ToTheLeft /\ UNCHANGED best
  <2>1. best' = best /\ best \in Indices \cup {NotFound} /\ (best # NotFound => Matches(dest, best))
    BY <1>1, <1>11 DEF TypeOK, FirstMatch
  <2>2. ~Below(dest, Mid)
    BY <1>2, <1>7, <1>11
  <2>3. best' \in Indices \cup {NotFound} /\ (best' # NotFound => Matches(dest, best'))
    BY <2>1
  <2>4. ToTheLeft /\ best' = best /\ Above(dest, Mid)
    BY <1>11, <2>1
  <2> QED BY <1>9, <2>2, <2>3, <2>4
<1>12. CASE Below(dest, Mid) /\ left' = Mid + 1 /\ UNCHANGED <<right, best>>
  <2>1. TypeOK'
    BY <1>1, <1>2, <1>3, <1>4, <1>12 DEF TypeOK, Indices
  <2>2. Window'
    BY <1>1, <1>2, <1>3, <1>4, <1>12 DEF Window, Indices
  <2>3. FirstMatch'
    BY <1>1, <1>4, <1>12 DEF FirstMatch
  <2>4. ASSUME Ordered(dest) PROVE \A i \in 0 .. Mid : Below(dest, i)
    BY <1>2, <1>3, <1>12, <2>4 DEF Ordered, Indices
  <2>5. left' - 1 = Mid
    BY <1>3, <1>12
  <2>6. Scanned'
    BY <1>1, <1>2, <1>4, <1>12, <2>4, <2>5 DEF Scanned
  <2> QED BY <1>5, <1>6, <2>1, <2>2, <2>3, <2>6 DEF LookupInv
<1> QED BY <1>10, <1>11, <1>12 DEF Probe

LEMMA ProbeOutsideInv ==
  ASSUME LookupInv, Loaded, ProbeOutside
  PROVE LookupInv' /\ Loaded'
<1>1. /\ TypeOK /\ Window /\ FirstMatch /\ pc = "searching" /\ left <= right
      /\ Mid >= Len(rtable)
      /\ pc' = "outside" /\ UNCHANGED <<rtable, dest, left, right, best>>
  BY DEF LookupInv, ProbeOutside, Searching
<1>2. /\ Len(rtable) \in Nat /\ UIntMax \in Nat /\ left \in Nat /\ right \in Nat
  BY <1>1, TableFacts DEF Loaded
<1>3. Mid <= right /\ Mid \in Nat
  BY <1>1, <1>2, MidBounds
<1>4. AtTop(dest)
  BY <1>1, <1>2, <1>3 DEF Window, Indices
<1>5. TypeOK' /\ Window' /\ Scanned' /\ FirstMatch' /\ Loaded'
  BY <1>1 DEF TypeOK, Window, Scanned, FirstMatch, Indices, Matches, Loaded
<1>6. OutsideAtTop'
  BY <1>1, <1>4 DEF OutsideAtTop, AtTop, Below
<1> QED BY <1>5, <1>6 DEF LookupInv

LEMMA ReturnInv ==
  ASSUME LookupInv, Loaded, Return
  PROVE LookupInv' /\ Loaded'
<1>1. /\ TypeOK /\ Window /\ Scanned /\ FirstMatch /\ pc = "searching" /\ left > right
      /\ pc' = "done" /\ UNCHANGED <<rtable, dest, left, right, best>>
  BY DEF LookupInv, Return
<1>2. /\ Len(rtable) \in Nat /\ UIntMax \in Nat /\ left \in Nat /\ right \in Nat
  BY <1>1, TableFacts DEF Loaded
<1>3. right \in Indices /\ left = right + 1
  BY <1>1, <1>2 DEF Window, Indices
<1>4. \A i \in Indices : ~(Matches(dest, i) /\ Below(dest, i))
  BY <1>1, OneOfThree
<1>5. ASSUME Ordered(dest)
      PROVE /\ ~AtTop(dest)
            /\ IF best = NotFound THEN \A i \in Indices : ~Matches(dest, i)
               ELSE \A i \in Indices : Matches(dest, i) => best <= i
  <2>1. \A i \in 0 .. right : Below(dest, i)
    BY <1>1, <1>2, <1>3, <1>5 DEF Scanned
  <2>2. ~AtTop(dest)
    BY <1>2, <1>3, <2>1 DEF AtTop, Indices
  <2>3. CASE best = NotFound
    <3>1. \A i \in right + 1 .. Len(rtable) - 1 : ~Matches(dest, i)
      BY <1>1, <1>3, <1>5, <2>3 DEF Scanned
    <3>2. \A i \in Indices : ~Matches(dest, i)
      BY <1>2, <1>4, <2>1, <3>1 DEF Indices
    <3> QED BY <2>2, <2>3, <3>2
  <2>4. CASE best # NotFound
    <3>1. \A i \in right + 1 .. best - 1 : ~Matches(dest, i)
      BY <1>1, <1>3, <1>5, <2>4 DEF Scanned
    <3>2. best \in Int
      BY <1>1, <1>2, <2>4 DEF TypeOK, Indices
    <3>3. \A i \in Indices : Matches(dest, i) => best <= i
      BY <1>2, <1>4, <2>1, <3>1, <3>2 DEF Indices
    <3> QED BY <2>2, <2>4, <3>3
  <2> QED BY <2>3, <2>4
<1>6. TypeOK' /\ Window' /\ Scanned' /\ Loaded'
  BY <1>1 DEF TypeOK, Window, Scanned, Indices, Loaded
<1>7. OutsideAtTop' /\ FirstMatch'
  BY <1>1, <1>5 DEF OutsideAtTop, FirstMatch, AtTop, Ordered, Matches, Above, Below, Indices
<1> QED BY <1>6, <1>7 DEF LookupInv

THEOREM LookupInductive == Spec => []LookupInv
<1>1. LookupInv /\ Loaded /\ [Step]_lookupVars => (LookupInv /\ Loaded)'
  <2> SUFFICES ASSUME LookupInv, Loaded, [Step]_lookupVars PROVE (LookupInv /\ Loaded)'
    OBVIOUS
  <2>1. CASE UNCHANGED lookupVars
    <3>1. UNCHANGED <<pc, rtable, dest, left, right, best>>
      BY <2>1 DEF lookupVars
    <3>2. Loaded' /\ TypeOK' /\ Window'
      BY <3>1 DEF LookupInv, Loaded, TypeOK, Window, Indices, AtTop, Below
    <3>3. Scanned'
      BY <3>1 DEF LookupInv, Scanned, Ordered, Indices, Matches, Above, Below
    <3>4. OutsideAtTop' /\ FirstMatch'
      BY <3>1 DEF LookupInv, OutsideAtTop, FirstMatch, AtTop, Ordered, Indices, Matches, Above, Below
    <3> QED BY <3>2, <3>3, <3>4 DEF LookupInv
  <2> QED BY <2>1, ProbeInv, ProbeOutsideInv, ReturnInv DEF Step
<1> QED BY <1>1, InitInv, PTL DEF Spec

(* The search leaves the table for the destinations of the first entry and  *)
(* above, and for no others.                                                *)
THEOREM OnlyTheTopIsLost == Spec => []OutsideAtTop
<1>1. LookupInv => OutsideAtTop
  BY DEF LookupInv
<1> QED BY <1>1, LookupInductive, PTL

(* A route that is found is right, and in an ordered table the first.       *)
THEOREM FindsFirstMatch == Spec => []FirstMatch
<1>1. LookupInv => FirstMatch
  BY DEF LookupInv
<1> QED BY <1>1, LookupInductive, PTL

(* A table of one mask, sorted with no overflow of the comparator, is       *)
(* ordered for every destination: FirstMatch says all of it there.          *)
THEOREM OneMaskIsOrdered ==
  ASSUME rtable \in Seq(Entry), NEW d \in Addresses, NEW m \in Masks,
         \A i \in Indices : rtable[i + 1].mask = m,
         \A i, j \in Indices : i < j => rtable[i + 1].prefix >= rtable[j + 1].prefix
  PROVE Ordered(d)
<1>1. \A i \in Indices : rtable[i + 1] \in Entry
  BY DEF Indices
<1>2. \A i \in Indices : rtable[i + 1].prefix \in Int
  <2>1. \A i \in Indices : rtable[i + 1].prefix \in Addresses
    BY <1>1 DEF Entry
  <2>2. \A a \in Addresses : a \in Int
    BY LookupAssumption
  <2> QED BY <2>1, <2>2
<1>3. Masked[d][m] \in Int
  <2>1. Masked[d][m] \in Addresses
    BY LookupAssumption
  <2> QED BY <2>1, LookupAssumption
<1> QED BY <1>2, <1>3 DEF Ordered, Below, Above

-----------------------------------------------------------------------------
(* Sorting: from neighbours to any two entries.                             *)

(* Every set of numbers that is not empty has a least one; it stands in for *)
(* induction below.                                                         *)
LEMMA LeastNat ==
  ASSUME NEW S \in SUBSET Nat, S # {}
  PROVE \E n \in S : \A k \in S : n <= k
<1> DEFINE R == OpToRel(<, Nat)
<1>1. IsWellFoundedOn(R, Nat)
  BY NatLessThanWellFounded
<1> HIDE DEF R
<1>2. PICK n \in S : \A k \in S : ~(<<k, n>> \in R)
  BY <1>1, WFMin
<1>3. \A k \in S : k < n => <<k, n>> \in R
  BY DEF R, OpToRel
<1>4. \A k \in S : k \in Nat
  OBVIOUS
<1>5. \A k \in S : ~(k < n)
  BY <1>2, <1>3
<1>6. n \in S /\ \A k \in S : n <= k
  BY <1>4, <1>5
<1> QED BY <1>6

(* Where the difference of two prefixes fits an int, the comparator's sign  *)
(* is that of the difference.                                               *)
LEMMA ComparatorDescends ==
  ASSUME NEW e \in Entry, NEW f \in Entry, 2 * f.prefix <= UIntMax,
         lpm_comparator(e, f) <= 0
  PROVE e.prefix >= f.prefix
<1>1. e.prefix \in Nat /\ f.prefix \in Nat /\ UIntMax \in Nat
  <2>1. e.prefix \in Addresses /\ f.prefix \in Addresses
    BY DEF Entry
  <2>2. \A a \in Addresses : a \in Nat
    BY LookupAssumption
  <2> QED BY <2>1, <2>2, LookupAssumption
<1> DEFINE d == f.prefix - e.prefix
<1>2. SUFFICES ASSUME d > 0 PROVE FALSE
  BY <1>1
<1>3. d \in 0 .. UIntMax /\ 2 * d <= UIntMax
  BY <1>1, <1>2
<1>4. lpm_comparator(e, f) = Signed(d)
  BY <1>1, <1>2 DEF lpm_comparator
<1>5. ~(d <= 0)
  BY <1>2, <1>3
<1> HIDE DEF d
<1>6. d % (UIntMax + 1) = d /\ ~(d > UIntMax \div 2)
  BY <1>1, <1>3
<1>7. Signed(d) = d
  BY <1>6 DEF Signed, Unsigned
<1> QED BY <1>4, <1>5, <1>7

LEMMA SortedDescends ==
  ASSUME rtable \in Seq(Entry), Sorted(rtable),
         \A i \in Indices : 2 * rtable[i + 1].prefix <= UIntMax
  PROVE \A i, j \in Indices : i < j => rtable[i + 1].prefix >= rtable[j + 1].prefix
<1> DEFINE p(i) == rtable[i + 1].prefix
<1>1. Len(rtable) \in Nat /\ \A i \in Indices : rtable[i + 1] \in Entry
  BY DEF Indices
<1>2. \A i \in Indices : p(i) \in Nat
  <2>1. \A e \in Entry : e.prefix \in Nat
    BY LookupAssumption DEF Entry
  <2> QED BY <1>1, <2>1
<1>3. ASSUME NEW i \in Indices, i + 1 \in Indices PROVE p(i) >= p(i + 1)
  <2>1. i + 1 \in 1 .. Len(rtable) - 1
    BY <1>1, <1>3 DEF Indices
  <2>2. lpm_comparator(rtable[i + 1], rtable[(i + 1) + 1]) <= 0
    BY <2>1 DEF Sorted
  <2> QED BY <1>1, <1>3, <2>2, ComparatorDescends
<1> SUFFICES ASSUME NEW i \in Indices, NEW m \in Indices, i < m, ~(p(i) >= p(m))
             PROVE FALSE
  OBVIOUS
<1> DEFINE Wrong == {j \in Nat : j \in Indices /\ i < j /\ ~(p(i) >= p(j))}
<1>5. m \in Wrong
  BY <1>1 DEF Indices
<1>6. PICK j \in Wrong : \A k \in Wrong : j <= k
  BY <1>5, LeastNat
<1>7. j - 1 \in Indices /\ (j - 1) + 1 = j /\ j \in Indices /\ i < j /\ i \in Nat
  BY <1>1, <1>6 DEF Indices
<1>8. p(j - 1) >= p(j)
  BY <1>3, <1>7
<1>9. p(i) >= p(j - 1)
  <2>1. CASE j - 1 = i
    BY <1>2, <2>1
  <2>2. CASE j - 1 # i
    <3>1. j - 1 \in Nat /\ i < j - 1 /\ ~(j <= j - 1)
      BY <1>1, <1>7, <2>2 DEF Indices
    <3>2. j - 1 \notin Wrong
      BY <1>6, <3>1
    <3> QED BY <1>7, <3>1, <3>2
  <2> QED BY <2>1, <2>2
<1>10. p(i) \in Nat /\ p(j) \in Nat /\ p(j - 1) \in Nat
  BY <1>2, <1>7
<1>11. p(i) >= p(j)
  <2> HIDE DEF p
  <2> QED BY <1>8, <1>9, <1>10
<1> QED BY <1>6, <1>11

LEMMA StaysSorted == Spec => []Sorted(rtable)
<1>1. Init => Sorted(rtable)
  BY DEF Init
<1>2. Sorted(rtable) /\ [Step]_lookupVars => Sorted(rtable)'
  <2>1. [Step]_lookupVars => rtable' = rtable
    BY DEF Step, Probe, ProbeOutside, Return, lookupVars
  <2> QED BY <2>1
<1> QED BY <1>1, <1>2, PTL DEF Spec

(* What main sorts and what get_best_route searches fit together for tables *)
(* of one mask whose prefixes are in the lower half of the addresses: a     *)
(* search that returns finds a route exactly when there is one.             *)
THEOREM OneMaskAlwaysFound == Spec => []OneMaskFound
<1>1. LookupInv /\ Sorted(rtable) => OneMaskFound
  <2> SUFFICES ASSUME LookupInv, Sorted(rtable), pc = "done", OneMask
               PROVE best = NotFound <=> \A i \in Indices : ~Matches(dest, i)
    BY DEF OneMaskFound
  <2>1. TypeOK /\ FirstMatch /\ rtable \in Seq(Entry) /\ dest \in Addresses
    BY DEF LookupInv, TypeOK
  <2>2. PICK m \in Masks : \A i \in Indices :
          rtable[i + 1].mask = m /\ 2 * rtable[i + 1].prefix <= UIntMax
    BY DEF OneMask
  <2>3. \A i, j \in Indices : i < j => rtable[i + 1].prefix >= rtable[j + 1].prefix
    BY <2>1, <2>2, SortedDescends
  <2>4. Ordered(dest)
    BY <2>1, <2>2, <2>3, OneMaskIsOrdered
  <2>5. CASE best = NotFound
    BY <2>1, <2>4, <2>5 DEF FirstMatch
  <2>6. CASE best # NotFound
    BY <2>1, <2>6 DEF FirstMatch, TypeOK
  <2> QED BY <2>5, <2>6
<1> QED BY <1>1, LookupInductive, StaysSorted, PTL

-----------------------------------------------------------------------------
(* How many probes there can be.                                            *)

LEMMA ProbeHalves ==
  ASSUME LookupInv, Loaded, Probe, <<left, right>>' # <<left, right>>
  PROVE right' = UIntMax \/ 2 * (right' + 1 - left') <= right + 1 - left
<1>1. right \in Indices /\ Mid \in Indices /\ left <= Mid /\ Mid <= right
  BY ProbeInside DEF Probe
<1>2. left \in Nat /\ right \in Nat /\ UIntMax \in Nat /\ Len(rtable) \in Nat
      /\ 2 * Len(rtable) < UIntMax
  BY TableFacts DEF LookupInv, Loaded
<1>3. Mid = left + ((right - left) \div 2) /\ left <= right
  BY DEF Mid, Probe, Searching
<1>4. CASE right' = Unsigned(Mid - 1) /\ left' = left
  <2>1. right' = IF Mid = 0 THEN UIntMax ELSE Mid - 1
    BY <1>1, <1>2, <1>4, UnsignedPred DEF Indices
  <2> QED BY <1>1, <1>2, <1>3, <1>4, <2>1
<1>5. CASE left' = Mid + 1 /\ right' = right
  BY <1>1, <1>2, <1>3, <1>5
<1> QED BY <1>4, <1>5 DEF Probe, Take, ToTheLeft

(* The search takes as many probes as the length of the table has binary    *)
(* digits, and one that wraps around.                                       *)
THEOREM SearchHalves == Spec => WindowHalves
<1>1. Spec => []Loaded
  <2>1. Init => Loaded
    BY DEF Init, Loaded
  <2>2. Loaded /\ [Step]_lookupVars => Loaded'
    <3>1. [Step]_lookupVars => rtable' = rtable
      BY DEF Step, Probe, ProbeOutside, Return, lookupVars
    <3> QED BY <3>1 DEF Loaded
  <2> QED BY <2>1, <2>2, PTL DEF Spec
<1>2. LookupInv /\ Loaded /\ [Step]_lookupVars =>
        [<<left, right>>' # <<left, right>> =>
           right' = UIntMax \/ 2 * (right' + 1 - left') <= right + 1 - left]_lookupVars
  BY ProbeHalves DEF Step, ProbeOutside, Return
<1> QED BY <1>1, <1>2, LookupInductive, PTL DEF Spec, WindowHalves
=============================================================================
