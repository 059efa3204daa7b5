--------------------------- MODULE MCRouteLookup ---------------------------
(* Addresses of 4 bits, in two "bytes" of 2 bits of which the lower one     *)
(* comes first on the wire: 3 is the mask of a /2, 15 that of a /4.         *)
EXTENDS RouteLookup, Bitwise, Functions

CONSTANT MaxEntries \* bound: length of a table

MCAddresses == 0 .. 15
MCMasks == {3, 15}
MCMasked == [a \in MCAddresses |-> [m \in MCMasks |-> a & m]]

MCEntries ==
  [prefix : 0 .. 3, mask : {3}] \cup [prefix : {0, 1, 2, 5, 6, 9, 13, 15}, mask : {15}]

MCTables ==
  UNION {{t \in [1 .. n -> MCEntries] : IsInjective(t)} : n \in 0 .. MaxEntries}
=============================================================================
