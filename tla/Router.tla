------------------------------- MODULE Router -------------------------------
(****************************************************************************)
(* The router of Tema-1-PCom: one thread that handles one frame at a time.  *)
(* A packet whose next hop has no known MAC waits in a queue; an ARP reply  *)
(* fills the ARP table and sets off a search of that queue.  A frame is     *)
(* handled in one action; the search that follows an ARP reply takes two    *)
(* for each turn of its loop.                                               *)
(*                                                                          *)
(* Of an IP header the model keeps the TTL, the checksum and the sum of     *)
(* all other words; a word has Byte * Byte values (Byte is 256).            *)
(****************************************************************************)
EXTENDS Naturals, Sequences

CONSTANTS
  Dsts,       \* destination addresses
  Arriving,   \* bound: the packets that may come in
  Self,       \* the address of the interface a packet comes in on
  Hops,       \* IPs of the next hops
  Macs,       \* the addresses that the hops answer with
  Interfaces,
  Route,      \* Route[dst]: what get_best_route finds, or NoRoute
  NoRoute,    \* NULL
  NoPacket,   \* the content of a variable not written yet
  Byte,       \* values of a byte
  ArpMaxSize, \* ARP_MAX_SIZE
  MaxArp,     \* bound: entries learned in one behaviour
  MaxWaiting  \* bound: packets waiting at a time

Hop == [next_hop : Hops, interface : Interfaces]

Width == Byte * Byte

(* echo: it is an ICMP echo request.                                        *)
Packet == [dst : Dsts, ttl : 0 .. Byte - 1, check : 0 .. Width - 1, rest : Nat,
           echo : BOOLEAN, interface : Interfaces]

Entry == [ip : Hops, mac : Macs]

ASSUME RouterAssumption ==
  /\ Self \in Dsts
  /\ Route \in [Dsts -> Hop \cup {NoRoute}]
  /\ NoRoute \notin Hop /\ NoPacket \notin Packet
  /\ Byte \in Nat /\ Byte >= 2
  /\ Arriving \subseteq Packet
  /\ ArpMaxSize \in Nat \ {0}

VARIABLES
  rt,       \* "idle" in get_packet; in search_queue, "searching" at the head of
            \* the loop and "taken" in its body; or "crashed"
  arpTable, \* arp_table[0 .. arp_len - 1]
  maxLen,   \* arp_max_len
  freed,    \* realloc moved the block that main() and its callees point to
  waiting,  \* no_mac_dest_queue: what each cell was given to hold
  crt,      \* what the cell was given that search_queue took off the queue
  saved,    \* the local of main() that every cell points to
  asked,    \* routes on which an ARP request went out (used by properties)
  out       \* frames written by the last step

arp == <<arpTable, maxLen, freed>>
queue == <<waiting, crt, saved>>
routerVars == <<rt, arp, queue, asked, out>>

Init ==
  /\ rt = "idle"
  /\ arpTable = << >> /\ maxLen = ArpMaxSize /\ freed = FALSE
  /\ waiting = << >> /\ crt = NoPacket /\ saved = NoPacket
  /\ asked = {}
  /\ out = << >>

Idle == rt = "idle"

(* Frames: a packet sent on, an ICMP answer to the source of a packet, and  *)
(* an ARP reply that claims an address.                                     *)
Sent(p, mac) == [type |-> "IP", packet |-> p, to |-> mac]
Icmp(type, p) == [type |-> type, packet |-> p]
Request(route) == [type |-> "ARPOP_REQUEST", target |-> route.next_hop,
                   interface |-> route.interface]
ReplyFor(ip) == [type |-> "ARPOP_REPLY", address |-> ip]

(* A read or a realloc of the block that was freed ends the process.        *)
Crash ==
  /\ rt' = "crashed"
  /\ out' = << >>
  /\ UNCHANGED <<arp, queue, asked>>

-----------------------------------------------------------------------------
(* IP: each packet that comes in takes one of these. *)

IsForUs(p) == p.echo /\ p.dst = Self

(* ip_checksum returns 0: the words of the header add up to a multiple of   *)
(* Width - 1, all that is left after the carries have been added back.      *)
HeaderSum(p) == p.ttl * Byte + p.rest + p.check
ChecksumOK(p) == \E k \in 0 .. HeaderSum(p) : HeaderSum(p) = k * (Width - 1)

IsGarbage(p) == ~ChecksumOK(p) \/ p.ttl < 2

(* icmp_handler comes before is_garbage: neither checksum nor TTL matter.   *)
EchoReply(p) ==
  /\ Idle /\ IsForUs(p)
  /\ out' = <<Icmp("ECHOREPLY", p)>>
  /\ UNCHANGED <<rt, arp, queue, asked>>

ThrowAway(p) ==
  /\ Idle /\ ~IsForUs(p) /\ IsGarbage(p)
  /\ out' = IF ChecksumOK(p) THEN <<Icmp("TIME_EXCEEDED", p)>> ELSE << >>
  /\ UNCHANGED <<rt, arp, queue, asked>>

IsRouted(p) == ~IsForUs(p) /\ ~IsGarbage(p) /\ Route[p.dst] # NoRoute

Unreachable(p) ==
  /\ Idle /\ ~IsForUs(p) /\ ~IsGarbage(p) /\ Route[p.dst] = NoRoute
  /\ out' = <<Icmp("DEST_UNREACH", p)>>
  /\ UNCHANGED <<rt, arp, queue, asked>>

(* mutant: the carry out of the upper byte is dropped *)
IncrementedNoCarry(check) == (check + Byte) % Width

(* mutant: the sum is left in a wider integer *)
IncrementedWide(check) == check + Byte

(* incremental_checksum: one more in the upper byte, for the TTL that has   *)
(* one less; what is carried out of the word comes back in at its end.      *)
Incremented(check) ==
  LET aux == check + Byte
  IN  (aux + (aux \div Width)) % Width

(* The packet as it leaves: one hop less, on the interface of its route.    *)
Onward(p) ==
  [p EXCEPT !.ttl = @ - 1, !.check = Incremented(@),
            !.interface = Route[p.dst].interface]

(* search_arp takes the first entry for an IP.                              *)
Known(ip) == \E k \in DOMAIN arpTable : arpTable[k].ip = ip

Resolves(ip, mac) ==
  \E k \in DOMAIN arpTable :
    /\ arpTable[k] = [ip |-> ip, mac |-> mac]
    /\ \A j \in 1 .. k - 1 : arpTable[j].ip # ip

Forward(p) ==
  /\ Idle /\ IsRouted(p)
  /\ ~freed
  /\ \E mac \in Macs :
       /\ Resolves(Route[p.dst].next_hop, mac)
       /\ out' = <<Sent(Onward(p), mac)>>
  /\ UNCHANGED <<rt, arp, queue, asked>>

(* mutant: no ARP request when other packets are waiting already *)
AsksOnce(route) == asked' = IF waiting = << >> THEN asked \cup {route} ELSE asked

Asks(route) == asked' = asked \cup {route}

(* The cell gets the address of saved, which the next packet overwrites.    *)
Wait(p) ==
  /\ Idle /\ IsRouted(p)
  /\ ~freed /\ ~Known(Route[p.dst].next_hop)
  /\ Len(waiting) < MaxWaiting
  /\ out' = <<Request(Route[p.dst])>>
  /\ Asks(Route[p.dst])
  /\ saved' = Onward(p)
  /\ waiting' = Append(waiting, Onward(p))
  /\ UNCHANGED <<rt, arp, crt>>

SearchesFreed(p) == Idle /\ IsRouted(p) /\ freed /\ Crash

-----------------------------------------------------------------------------
(* ARP. *)

(* Every request is answered, whichever address it asks for.                *)
ArpRequest(ip) ==
  /\ Idle
  /\ out' = <<ReplyFor(ip)>>
  /\ UNCHANGED <<rt, arp, queue, asked>>

(* A reply to somebody else. *)
ArpReplyIgnored ==
  /\ Idle
  /\ out' = << >>
  /\ UNCHANGED <<rt, arp, queue, asked>>

(* mutant: the search is left out when one packet waits *)
SearchesLater == rt' = IF Len(waiting) = 1 THEN "idle" ELSE "searching"

Searches == rt' = "searching"

(* mutant: the newest entry is put in front *)
AddedInFront(ip, mac) == arpTable' = <<[ip |-> ip, mac |-> mac]>> \o arpTable

Added(ip, mac) == arpTable' = Append(arpTable, [ip |-> ip, mac |-> mac])

(* mutant: the table is taken for full one entry too early *)
AlmostFull == Len(arpTable) + 1 = maxLen

Full == Len(arpTable) = maxLen

(* add_arp_entry appends whether or not the IP is there already.  When the  *)
(* table is full it grows by one; if realloc moves it, only the callee's    *)
(* copy of the pointer follows.                                             *)
ArpReply(ip, mac) ==
  /\ Idle
  /\ Len(arpTable) < MaxArp
  /\ \/ ~Full /\ UNCHANGED <<maxLen, freed>>
     \/ /\ Full /\ ~freed
        /\ maxLen' = maxLen + 1
        /\ freed' \in BOOLEAN
  /\ Added(ip, mac)
  /\ Searches
  /\ out' = << >>
  /\ UNCHANGED <<queue, asked>>

GrowsFreed == Idle /\ Full /\ freed /\ Crash

-----------------------------------------------------------------------------
(* search_queue: all cells point to saved, so that packet's route decides   *)
(* for each of them.  One without an entry goes back on the same queue.     *)

TakeNext ==
  /\ rt = "searching"
  /\ \/ /\ waiting = << >>
        /\ rt' = "idle"
        /\ UNCHANGED <<waiting, crt>>
     \/ /\ waiting # << >>
        /\ rt' = "taken"
        /\ crt' = Head(waiting)
        /\ waiting' = Tail(waiting)
  /\ out' = << >>
  /\ UNCHANGED <<arp, saved, asked>>

(* mutant: a packet that was sent also goes back on the queue *)
SendsAndKeeps(mac) ==
  /\ out' = <<Sent(saved, mac)>>
  /\ waiting' = Append(waiting, crt)

Sends(mac) ==
  /\ out' = <<Sent(saved, mac)>>
  /\ UNCHANGED waiting

(* mutant: a packet that has no MAC yet does not go back *)
NotRequeued == UNCHANGED waiting

Requeued == waiting' = Append(waiting, crt)

HandleTaken ==
  /\ rt = "taken"
  /\ \/ freed /\ Crash
     \/ /\ ~freed
        /\ \/ \E mac \in Macs : Resolves(Route[saved.dst].next_hop, mac) /\ Sends(mac)
           \/ /\ ~Known(Route[saved.dst].next_hop)
              /\ Requeued
              /\ out' = << >>
        /\ rt' = "searching"
        /\ UNCHANGED <<arp, crt, saved, asked>>

SearchQueue == TakeNext \/ HandleTaken

IpPacket(p) ==
  \/ EchoReply(p) \/ ThrowAway(p) \/ Unreachable(p)
  \/ Forward(p) \/ Wait(p) \/ SearchesFreed(p)

ArpFrame ==
  \/ \E ip \in Hops \cup {Self} : ArpRequest(ip)
  \/ ArpReplyIgnored
  \/ \E ip \in Hops, mac \in Macs : ArpReply(ip, mac)
  \/ GrowsFreed

Next == SearchQueue \/ ArpFrame \/ \E p \in Arriving : IpPacket(p)

Spec == Init /\ [][Next]_routerVars

(* The thread goes on when it is not waiting for a frame; the network is    *)
(* not obliged to anything.                                                 *)
FairSpec == Spec /\ WF_routerVars(SearchQueue)

-----------------------------------------------------------------------------
(* Safety. *)

TypeOK ==
  /\ rt \in {"idle", "searching", "taken", "crashed"}
  /\ arpTable \in Seq(Entry)
  /\ maxLen \in Nat
  /\ freed \in BOOLEAN
  /\ waiting \in Seq(Packet)
  /\ crt \in Packet \cup {NoPacket}
  /\ saved \in Packet \cup {NoPacket}
  /\ asked \in SUBSET Hop

(* A packet that waits can leave: its route is the one an ARP request went  *)
(* out on, and it is ready for the wire: a TTL, the interface of its route, *)
(* and a checksum that is right for the header as it is now.                *)
Leaving(p) ==
  /\ Route[p.dst] \in Hop
  /\ ChecksumOK(p) /\ p.ttl >= 1
  /\ p.interface = Route[p.dst].interface

Waits(p) == p \in Packet /\ Leaving(p) /\ Route[p.dst] \in asked

WaitsForAnswer ==
  /\ \A k \in DOMAIN waiting : Waits(waiting[k])
  /\ rt = "taken" => Waits(crt)

(* All cells of the queue point to one packet.  Between two frames it is    *)
(* the newest one that waits, and its MAC is not known: what an ARP reply   *)
(* resolves is gone from the queue before the next frame is looked at.      *)
NewestUnresolved ==
  /\ waiting # << >> \/ rt = "taken" => Waits(saved)
  /\ rt = "idle" /\ waiting # << >> =>
       /\ saved = waiting[Len(waiting)]
       /\ ~Known(Route[saved.dst].next_hop)

(* Every packet on the wire goes to the hop of its own route, at the first  *)
(* MAC that hop answered with, by that route's interface, with a TTL that   *)
(* is not zero and a checksum the next router accepts.                      *)
ForwardedOK ==
  \A k \in DOMAIN out :
    out[k].type = "IP" =>
      /\ Leaving(out[k].packet)
      /\ Resolves(Route[out[k].packet.dst].next_hop, out[k].to)

(* Cells on the queue or just taken off it.                                 *)
Held == Len(waiting) + (IF rt = "taken" THEN 1 ELSE 0)

(* A packet that has to wait adds one cell to the queue, with an ARP        *)
(* request; a cell goes when a frame is sent from it, one for one, however  *)
(* often the queue is searched and whatever the replies resolve, as long as *)
(* the process lives.  That frame carries the packet that came in last, not *)
(* the one the cell was made for (router.c:91-92): of n packets that wait   *)
(* for one hop the newest is sent n times, and the others are lost.         *)
NewestForEachCell ==
  [][rt' # "crashed" =>
       /\ Held' > Held => /\ Held' = Held + 1
                          /\ saved' = waiting'[Len(waiting')]
                          /\ out' = <<Request(Route[saved'.dst])>>
       /\ Held' < Held => Held' = Held - 1 /\ \E mac \in Macs : out' = <<Sent(saved, mac)>>
       /\ saved' # saved => Held' > Held
       /\ rt = "taken" /\ out' # << >> => Held' < Held]_routerVars

(* The inductive invariant (proved in RouterProofs).                        *)
RouterInv == TypeOK /\ WaitsForAnswer /\ NewestUnresolved /\ ForwardedOK

(* However many replies come in for an IP, asked for or not, its packets    *)
(* keep going to the MAC of the first: nobody takes an address over, and a  *)
(* host that changed its MAC is not heard (arp.c:36-46).                    *)
NotRedirected ==
  [][\A ip \in Hops, mac \in Macs : Resolves(ip, mac) => Resolves(ip, mac)']_routerVars

(* The block that main() and its callees point to is only moved, and the    *)
(* router only lost by that, once more replies came in than the table was   *)
(* made for (arp.c:54-63).                                                  *)
GrowthOnlyWhenFull == freed \/ rt = "crashed" => Len(arpTable) > ArpMaxSize

(* With which it is inductive.                                              *)
TableInv == Len(arpTable) <= maxLen /\ maxLen >= ArpMaxSize /\ GrowthOnlyWhenFull

(* Liveness, under FairSpec: once the MAC of the packet the cells point to  *)
(* is known, the search comes to its end.                                   *)
InSearch == rt \in {"searching", "taken"}
KnownSearchEnds ==
  InSearch /\ waiting # << >> /\ Known(Route[saved.dst].next_hop) ~> ~InSearch

(* Why it does: each turn of the loop of search_queue leaves less to do,    *)
(* while one whose MAC is not known goes round for ever (EndlessSearch).    *)
ToDo == Len(waiting) + Held

KnownSearchShrinks ==
  [][InSearch /\ InSearch' /\ Known(Route[saved.dst].next_hop) => ToDo' < ToDo]_routerVars

-----------------------------------------------------------------------------
(* What the documentation says and the code does not do. *)

(* "put a copy of the current packet in the waiting queue" (router.c:81-83), *)
(* "complete the destination MAC of the packet that was not sent, and send  *)
(* it" (README.md:42-43): what the search sends is the packet that waited.  *)
WaitingPacketSent ==
  [][rt = "taken" /\ out' # << >> => out'[1].packet = crt]_routerVars

(* "When a ARP Reply is recieved, search the ARP Queue in order to send the *)
(* waiting packet" (arp.h:69-70): the search is over at some point.         *)
SearchEnds == InSearch ~> ~InSearch
=============================================================================
