------------------------------ MODULE MCRouter ------------------------------
(* Instances of Router for TLC: d and e on two next hops, f on no route.    *)
EXTENDS Router

MCDsts == {"self", "d", "e", "f"}
MCInterfaces == {1, 2}

MCRoute ==
  [dst \in MCDsts |->
     IF dst = "d" THEN [next_hop |-> "h", interface |-> 1]
     ELSE IF dst = "e" THEN [next_hop |-> "i", interface |-> 2]
     ELSE NoRoute]

(* Headers that add up (their checksum carries in the update, 14 + 4 > 15,  *)
(* with a rest of 8, and does not with a rest of 0), and one that does not. *)
MCArriving ==
  {p \in [dst : MCDsts, ttl : {1, 2}, check : 1 .. 15, rest : {0, 8},
          echo : BOOLEAN, interface : {1}] :
     /\ p.echo => p.dst \in {"self", "f"}
     /\ p.rest = 0 => p.dst \in {"d", "f"}
     /\ \/ (4 * p.ttl + p.rest + p.check) % 15 = 0
        \/ p.check = 1 /\ p.dst = "d"}

(* The loop of ip_checksum that adds the carries back, and what Router says *)
(* of it: the complement is zero when the header adds up.                   *)
Carried[acc \in Nat] ==
  IF acc >= Width THEN Carried[(acc % Width) + (acc \div Width)] ELSE acc

ASSUME CarriesAddUp ==
  \A p \in [ttl : 0 .. 3, check : 0 .. 15, rest : 0 .. 60] :
    ChecksumOK(p) <=> Carried[Width - 1 + HeaderSum(p)] = Width - 1
=============================================================================
