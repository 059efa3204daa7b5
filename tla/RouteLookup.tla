---------------------------- MODULE RouteLookup ----------------------------
(****************************************************************************)
(* get_best_route of Tema-1-PCom: the binary search for a destination in    *)
(* the routing table that main has sorted with lpm_comparator.  Addresses   *)
(* and masks are the unsigned integers the machine sees; `&' is the         *)
(* constant Masked, so that its width is the instance's.                    *)
(****************************************************************************)
EXTENDS Integers, Sequences

CONSTANTS
  UIntMax,   \* largest unsigned int, and largest uint32_t
  Addresses, \* destinations and prefixes
  Masks,
  Masked,    \* Masked[a][m]: a & m
  Tables     \* orders of the lines of a routing table

Entry == [prefix : Addresses, mask : Masks]

(* A table is far smaller than half the unsigned range (RTABLE_ENTRIES).    *)
ASSUME LookupAssumption ==
  /\ UIntMax \in Nat
  /\ Addresses \subseteq 0 .. UIntMax /\ Masks \subseteq Addresses
  /\ Masked \in [Addresses -> [Masks -> Addresses]]
  /\ Tables \subseteq Seq(Entry)
  /\ \A t \in Tables : 2 * Len(t) < UIntMax

VARIABLES
  pc,     \* "searching"; "done" when it has returned; or "outside"
          \* when it has read where there is no entry
  rtable, \* entry i of the program is rtable[i + 1]
  dest,   \* dest_ip
  left, right,
  best    \* NotFound, or the index of the route that is returned

lookupVars == <<pc, rtable, dest, left, right, best>>

NotFound == -1

Unsigned(n) == n % (UIntMax + 1)
Signed(n) ==
  IF Unsigned(n) > UIntMax \div 2 THEN Unsigned(n) - UIntMax - 1 ELSE Unsigned(n)

(* mutant: prefixes in ascending order *)
AscendingComparator(e1, e2) ==
  IF e1.prefix = e2.prefix THEN Signed(e2.mask - e1.mask)
  ELSE Signed(e1.prefix - e2.prefix)

lpm_comparator(e1, e2) ==
  IF e1.prefix = e2.prefix THEN Signed(e2.mask - e1.mask)
  ELSE Signed(e2.prefix - e1.prefix)

(* What qsort leaves: it has compared each entry with the one that follows. *)
Sorted(t) == \A i \in 1 .. Len(t) - 1 : lpm_comparator(t[i], t[i + 1]) <= 0

Matches(d, i) == Masked[d][rtable[i + 1].mask] = rtable[i + 1].prefix
Above(d, i) == Masked[d][rtable[i + 1].mask] > rtable[i + 1].prefix
Below(d, i) == Masked[d][rtable[i + 1].mask] < rtable[i + 1].prefix

(* mutant: the first right is the length of the table *)
LastIndexPlusOne == Len(rtable)

LastIndex == Unsigned(Len(rtable) - 1)

(* The call: after main has read and sorted a table, for a packet.          *)
Init ==
  /\ pc = "searching"
  /\ rtable \in {t \in Tables : Sorted(t)}
  /\ dest \in Addresses
  /\ left = 0 /\ right = LastIndex /\ best = NotFound

Searching == pc = "searching" /\ left <= right

Mid == left + ((right - left) \div 2)

(* mutant: the entry in the middle stays in the window *)
ToTheLeftFromMid == right' = Mid /\ UNCHANGED left

ToTheLeft == right' = Unsigned(Mid - 1) /\ UNCHANGED left

(* mutant: the search goes on for the last match *)
TakeLast == best' = Mid /\ left' = Mid + 1 /\ UNCHANGED right

Take == best' = Mid /\ ToTheLeft

Probe ==
  /\ Searching /\ Mid < Len(rtable)
  /\ \/ Matches(dest, Mid) /\ Take
     \/ Above(dest, Mid) /\ ToTheLeft /\ UNCHANGED best
     \/ Below(dest, Mid) /\ left' = Mid + 1 /\ UNCHANGED <<right, best>>
  /\ UNCHANGED <<pc, rtable, dest>>

ProbeOutside ==
  /\ Searching /\ Mid >= Len(rtable)
  /\ pc' = "outside"
  /\ UNCHANGED <<rtable, dest, left, right, best>>

Return ==
  /\ pc = "searching" /\ left > right
  /\ pc' = "done"
  /\ UNCHANGED <<rtable, dest, left, right, best>>

Step == Probe \/ ProbeOutside \/ Return

Spec == Init /\ [][Step]_lookupVars

(* The thread that called it runs.                                          *)
FairSpec == Spec /\ WF_lookupVars(Step)

-----------------------------------------------------------------------------
Indices == 0 .. Len(rtable) - 1

TypeOK ==
  /\ pc \in {"searching", "done", "outside"}
  /\ rtable \in Seq(Entry)
  /\ dest \in Addresses
  /\ left \in 0 .. Len(rtable)
  /\ right \in Indices \cup {0, UIntMax}
  /\ best \in Indices \cup {NotFound}

(* The entries as the search needs them for d: those d is below, then the   *)
(* ones that match, then those d is above.                                  *)
Ordered(d) ==
  \A i, j \in Indices :
    i < j => /\ Below(d, j) => Below(d, i)
             /\ Above(d, i) => Above(d, j)

(* The destination is not below the first entry: it matches or is above.    *)
AtTop(d) == Len(rtable) = 0 \/ ~Below(d, 0)

(* The bounds stay in the table, except that right wraps around when the    *)
(* search comes to index 0 from the right (or the table is empty).          *)
Window ==
  pc = "searching" =>
    \/ right \in Indices /\ left <= right + 1
    \/ right = UIntMax /\ left = 0 /\ AtTop(dest)

(* What the probes so far have excluded, for an ordered table.              *)
Scanned ==
  pc = "searching" /\ right \in Indices /\ Ordered(dest) =>
    /\ \A i \in 0 .. left - 1 : Below(dest, i)
    /\ \A i \in right + 1 .. Len(rtable) - 1 : ~Below(dest, i)
    /\ IF best = NotFound
       THEN \A i \in right + 1 .. Len(rtable) - 1 : ~Matches(dest, i)
       ELSE best > right /\ \A i \in right + 1 .. best - 1 : ~Matches(dest, i)

(* The search reads outside the table only for a destination that matches   *)
(* the first entry or is above it (right = mid - 1 at mid = 0), or in an    *)
(* empty table; and for such a destination in an ordered table it always    *)
(* does: nothing is ever routed by the first entry (router_funs.c:30-38).   *)
OutsideAtTop ==
  /\ pc = "outside" => AtTop(dest)
  /\ pc = "done" /\ Ordered(dest) => ~AtTop(dest)

(* The route that is returned is one for the destination, in any table; in  *)
(* an ordered one it is the first, and NULL means that there is none.       *)
FirstMatch ==
  /\ best # NotFound => Matches(dest, best)
  /\ pc = "done" /\ Ordered(dest) =>
       IF best = NotFound THEN \A i \in Indices : ~Matches(dest, i)
       ELSE \A i \in Indices : Matches(dest, i) => best <= i

(* Sorting and search fit together for a table of one mask whose prefixes   *)
(* do not overflow the comparator: a search that returns finds a route      *)
(* exactly when there is one.                                               *)
OneMask ==
  \E m \in Masks : \A i \in Indices :
    rtable[i + 1].mask = m /\ 2 * rtable[i + 1].prefix <= UIntMax

OneMaskFound ==
  pc = "done" /\ OneMask =>
    (best = NotFound <=> \A i \in Indices : ~Matches(dest, i))

(* The inductive invariant (proved in RouteLookupProofs).                   *)
LookupInv == TypeOK /\ Window /\ Scanned /\ OutsideAtTop /\ FirstMatch

(* Each probe halves what is left to search, however the bounds move, or    *)
(* wraps right around (and the next one reads outside): no sequence of      *)
(* probes comes back to where it was, and a table of n entries takes no     *)
(* more of them than n has binary digits, and one (router_funs.c:28-39).    *)
WindowHalves ==
  [][<<left, right>>' # <<left, right>> =>
       right' = UIntMax \/ 2 * (right' + 1 - left') <= right + 1 - left]_lookupVars

(* Liveness, under FairSpec: the unsigned bounds never make it go round.    *)
LookupEnds == <>(pc # "searching")

(* What router_funs.h:24-29 says and the code does not do: "The entry in    *)
(* the table with the longest prefix match".                                *)
LongestPrefix ==
  pc = "done" =>
    \A i \in Indices :
      Matches(dest, i) =>
        /\ best # NotFound
        /\ Masked[rtable[i + 1].mask][rtable[best + 1].mask] = rtable[i + 1].mask
=============================================================================
