---------------------------- MODULE RouterProofs ----------------------------
(****************************************************************************)
(* Theorems about Router, for every set of addresses, routing table and     *)
(* size of the ARP table.                                                   *)
(****************************************************************************)
EXTENDS Router, Integers, TLAPS

LEMMA InitInv == Init => RouterInv
<1> SUFFICES ASSUME Init PROVE RouterInv
  OBVIOUS
<1> USE DEF Init
<1>1. TypeOK
  <2>1. /\ rt \in {"idle", "searching", "taken", "crashed"} /\ maxLen \in Nat
        /\ arpTable \in Seq(Hops) /\ waiting \in Seq(Packet)
    BY RouterAssumption
  <2>2. /\ freed \in BOOLEAN /\ asked \in SUBSET Hop
        /\ crt \in Packet \cup {NoPacket} /\ saved \in Packet \cup {NoPacket}
    OBVIOUS
  <2> QED BY <2>1, <2>2 DEF TypeOK
<1>2. DOMAIN waiting = {} /\ DOMAIN out = {}
  OBVIOUS
<1>3. WaitsForAnswer /\ NewestUnresolved /\ ForwardedOK
  BY <1>2 DEF WaitsForAnswer, NewestUnresolved, ForwardedOK
<1> QED BY <1>1, <1>3 DEF RouterInv

(* The update of the checksum stays in a word and adds Byte, less Width - 1 *)
(* when it carries.                                                         *)
LEMMA IncrementedValue ==
  ASSUME NEW check \in 0 .. Width - 1
  PROVE /\ Incremented(check) \in 0 .. Width - 1
        /\ \/ Incremented(check) = check + Byte
           \/ Incremented(check) = check + Byte - (Width - 1) /\ check + Byte >= Width
<1> DEFINE W == Width
           aux == check + Byte
<1>1. Byte \in Nat /\ W \in Nat /\ W > Byte + 1
  <2>1. Byte \in Nat /\ Byte >= 2 /\ Byte * Byte \in Nat
    BY RouterAssumption
  <2>2. Byte * Byte >= 2 * Byte
    BY <2>1
  <2>3. 2 * Byte >= Byte + 2
    BY <2>1
  <2>4. Byte * Byte > Byte + 1
    BY <2>1, <2>2, <2>3
  <2> QED BY <2>1, <2>4 DEF Width
<1>2. check \in Nat /\ check < W
  BY <1>1
<1>3. Incremented(check) = (aux + (aux \div W)) % W
  BY DEF Incremented
<1> HIDE DEF W
<1>4. CASE aux < W
  <2>1. aux \div W = 0 /\ aux % W = aux
    BY <1>1, <1>2, <1>4
  <2> QED BY <1>1, <1>2, <1>3, <1>4, <2>1 DEF W
<1>5. CASE aux >= W
  <2>1. aux \div W = 1
    <3>1. aux = W * 1 + (aux - W) /\ aux - W \in 0 .. W - 1
      BY <1>1, <1>2, <1>5
    <3> QED BY <1>1, <1>2, <3>1
  <2>2. aux + 1 - W \in 0 .. W - 1
    BY <1>1, <1>2, <1>5
  <2>3. (aux + 1) % W = aux + 1 - W
    BY <1>1, <1>2, <2>2
  <2> QED BY <1>1, <1>2, <1>3, <1>5, <2>1, <2>2, <2>3 DEF W
<1> QED BY <1>1, <1>2, <1>4, <1>5

(* What is subtracted from the TTL is added to the checksum: a header that  *)
(* adds up still does one hop later.                                        *)
LEMMA ChecksumKept ==
  ASSUME NEW p, NEW q, p.ttl \in Nat, p.ttl >= 1, p.check \in 0 .. Width - 1, p.rest \in Nat,
         q.ttl = p.ttl - 1, q.check = Incremented(p.check), q.rest = p.rest,
         ChecksumOK(p)
  PROVE ChecksumOK(q)
<1> DEFINE W == Width
           t == p.ttl * Byte
<1>1. Byte \in Nat /\ W \in Nat /\ W > 1
  <2>1. Byte \in Nat /\ Byte >= 2 /\ Byte * Byte \in Nat
    BY RouterAssumption
  <2>2. Byte * Byte >= 2 * Byte
    BY <2>1
  <2> QED BY <2>1, <2>2 DEF Width
<1>2. t \in Nat /\ q.ttl * Byte = t - Byte /\ t >= Byte
  <2>1. q.ttl \in Nat /\ p.ttl = q.ttl + 1
    OBVIOUS
  <2>2. p.ttl * Byte = q.ttl * Byte + Byte /\ q.ttl * Byte \in Nat
    BY <1>1, <2>1
  <2> QED BY <1>1, <2>1, <2>2
<1>3. HeaderSum(p) = t + p.rest + p.check
  BY DEF HeaderSum
<1>4. HeaderSum(q) = t - Byte + p.rest + q.check
  BY <1>2 DEF HeaderSum
<1>5. PICK k \in 0 .. HeaderSum(p) : HeaderSum(p) = k * (W - 1)
  BY DEF ChecksumOK
<1>6. p.check \in Nat /\ q.check \in Nat
  BY <1>1, IncrementedValue
<1> HIDE DEF W, t
<1>7. HeaderSum(p) \in Nat /\ HeaderSum(q) \in Nat /\ k \in Nat
  BY <1>1, <1>2, <1>3, <1>4, <1>6
<1>8. CASE q.check = p.check + Byte
  <2>1. HeaderSum(q) = HeaderSum(p)
    BY <1>1, <1>2, <1>3, <1>4, <1>6, <1>8
  <2> QED BY <1>5, <2>1 DEF ChecksumOK, W
<1>9. CASE q.check = p.check + Byte - (W - 1)
  <2>1. HeaderSum(q) = HeaderSum(p) - (W - 1)
    <3>1. \A x, r, c, b, m \in Int : x - b + r + (c + b - m) = x + r + c - m
      OBVIOUS
    <3>2. t \in Int /\ p.rest \in Int /\ p.check \in Int /\ Byte \in Int /\ W - 1 \in Int
      BY <1>1, <1>2, <1>6
    <3> QED BY <1>3, <1>4, <1>9, <3>1, <3>2
  <2>2. k # 0
    <3>1. ASSUME k = 0 PROVE FALSE
      <4>1. HeaderSum(p) = 0
        BY <1>1, <1>5, <3>1
      <4> QED BY <1>1, <1>7, <2>1, <4>1
    <3> QED BY <3>1
  <2>3. k - 1 \in Nat /\ (k - 1) * (W - 1) = k * (W - 1) - (W - 1)
    BY <1>1, <1>7, <2>2
  <2>4. HeaderSum(q) = (k - 1) * (W - 1)
    BY <1>5, <2>1, <2>3
  <2>5. (k - 1) * (W - 1) >= k - 1
    BY <1>1, <2>3
  <2>6. k - 1 \in 0 .. HeaderSum(q)
    BY <1>7, <2>3, <2>4, <2>5
  <2> QED BY <2>4, <2>6 DEF ChecksumOK, W
<1> QED BY <1>8, <1>9, IncrementedValue DEF W

(* A packet that has a route leaves its router ready for the wire.          *)
LEMMA OnwardLeaves ==
  ASSUME NEW p \in Packet, IsRouted(p)
  PROVE /\ Onward(p) \in Packet /\ Leaving(Onward(p))
        /\ Onward(p).dst = p.dst /\ Route[p.dst] \in Hop
<1>1. p.ttl \in 0 .. Byte - 1 /\ p.ttl >= 2 /\ ChecksumOK(p)
  BY DEF Packet, IsRouted, IsGarbage
<1>2. p.dst \in Dsts /\ Route[p.dst] \in Hop
  BY RouterAssumption DEF Packet, IsRouted
<1>3. Route[p.dst].interface \in Interfaces
  BY <1>2 DEF Hop
<1>4. p.ttl \in Nat /\ p.ttl - 1 \in 0 .. Byte - 1 /\ p.ttl - 1 >= 1
  BY <1>1, RouterAssumption
<1>5. p.check \in 0 .. Width - 1 /\ p.rest \in Nat
  BY DEF Packet
<1>6. Incremented(p.check) \in 0 .. Width - 1
  BY <1>5, IncrementedValue
<1>7. /\ Onward(p).dst = p.dst /\ Onward(p).ttl = p.ttl - 1 /\ Onward(p).rest = p.rest
      /\ Onward(p).check = Incremented(p.check)
      /\ Onward(p).interface = Route[p.dst].interface
  BY DEF Onward, Packet
<1>8. Onward(p) \in Packet
  BY <1>3, <1>4, <1>6 DEF Onward, Packet
<1>9. ChecksumOK(Onward(p))
  BY <1>1, <1>4, <1>5, <1>7, ChecksumKept
<1> QED BY <1>2, <1>4, <1>7, <1>8, <1>9 DEF Leaving

(* The ways of a frame that leave the queue and the table alone.            *)
LEMMA AnswerInv ==
  ASSUME RouterInv, UNCHANGED <<arp, queue, asked>>,
         rt' \in {rt, "crashed"}, \A k \in DOMAIN out' : out'[k].type # "IP"
  PROVE RouterInv'
BY DEF RouterInv, TypeOK, WaitsForAnswer, NewestUnresolved, ForwardedOK, Waits, Leaving,
       Known, Resolves, arp, queue

LEMMA ForwardInv ==
  ASSUME RouterInv, NEW p \in Packet, Forward(p)
  PROVE RouterInv'
<1>1. PICK mac \in Macs :
        /\ Leaving(Onward(p)) /\ Onward(p).dst = p.dst
        /\ Resolves(Route[p.dst].next_hop, mac) /\ UNCHANGED <<rt, arp, queue, asked>>
        /\ out' = <<Sent(Onward(p), mac)>>
  BY OnwardLeaves DEF Forward
<1>2. ForwardedOK'
  BY <1>1 DEF ForwardedOK, Sent, Resolves, arp, Leaving
<1>3. TypeOK' /\ WaitsForAnswer' /\ NewestUnresolved'
  BY <1>1 DEF RouterInv, TypeOK, WaitsForAnswer, NewestUnresolved, Waits, Leaving,
              Known, arp, queue
<1> QED BY <1>2, <1>3 DEF RouterInv

LEMMA WaitInv ==
  ASSUME RouterInv, NEW p \in Packet, Wait(p)
  PROVE RouterInv'
<1> DEFINE q == Onward(p)
<1> USE DEF RouterInv
<1>1. q \in Packet /\ Leaving(q) /\ q.dst = p.dst /\ Route[p.dst] \in Hop
  BY OnwardLeaves DEF Wait
<1>2. /\ rt = "idle" /\ UNCHANGED <<rt, arpTable, maxLen, freed, crt>>
      /\ ~Known(Route[p.dst].next_hop)
      /\ waiting' = Append(waiting, q) /\ saved' = q /\ asked' = asked \cup {Route[p.dst]}
      /\ out' = <<Request(Route[p.dst])>>
  BY DEF Wait, Idle, Asks, arp
<1> HIDE DEF q
<1>3. TypeOK'
  BY <1>1, <1>2 DEF TypeOK
<1>4. /\ waiting' # << >> /\ waiting'[Len(waiting')] = q
      /\ \A k \in DOMAIN waiting' : waiting'[k] = q \/ \E j \in DOMAIN waiting : waiting'[k] = waiting[j]
  BY <1>1, <1>2 DEF TypeOK
<1>5. \A r : Waits(r) => Waits(r)'
  BY <1>2 DEF Waits, Leaving
<1>6. Waits(q)'
  BY <1>1, <1>2 DEF Waits, Leaving
<1>7. WaitsForAnswer'
  BY <1>2, <1>4, <1>5, <1>6 DEF WaitsForAnswer
<1>8. NewestUnresolved'
  BY <1>1, <1>2, <1>4, <1>6 DEF NewestUnresolved, Known
<1>9. ForwardedOK'
  BY <1>2 DEF ForwardedOK, Request
<1> QED BY <1>3, <1>7, <1>8, <1>9

LEMMA ArpReplyInv ==
  ASSUME RouterInv, NEW ip \in Hops, NEW mac \in Macs, ArpReply(ip, mac)
  PROVE RouterInv'
<1>1. /\ rt' = "searching" /\ out' = << >> /\ UNCHANGED <<waiting, crt, saved, asked>>
      /\ arpTable' = Append(arpTable, [ip |-> ip, mac |-> mac])
      /\ maxLen' \in {maxLen, maxLen + 1} /\ freed' \in {freed} \cup BOOLEAN
      /\ rt = "idle"
  BY DEF ArpReply, Added, Idle, Searches, queue
<1>2. TypeOK'
  <2>1. [ip |-> ip, mac |-> mac] \in Entry
    BY DEF Entry
  <2>2. arpTable' \in Seq(Entry) /\ maxLen' \in Nat /\ freed' \in BOOLEAN
    BY <1>1, <2>1 DEF RouterInv, TypeOK
  <2> QED BY <1>1, <2>2 DEF RouterInv, TypeOK
<1>3. WaitsForAnswer' /\ NewestUnresolved' /\ ForwardedOK'
  BY <1>1 DEF RouterInv, WaitsForAnswer, NewestUnresolved, ForwardedOK, Waits, Leaving
<1> QED BY <1>2, <1>3 DEF RouterInv

LEMMA TakeNextInv ==
  ASSUME RouterInv, TakeNext
  PROVE RouterInv'
<1> USE DEF RouterInv
<1>1. rt = "searching" /\ out' = << >> /\ UNCHANGED <<arpTable, maxLen, freed, saved, asked>>
  BY DEF TakeNext, arp
<1>2. CASE waiting = << >> /\ rt' = "idle" /\ UNCHANGED <<waiting, crt>>
  BY <1>1, <1>2 DEF TypeOK, WaitsForAnswer, NewestUnresolved, ForwardedOK, Waits, Leaving
<1>3. CASE /\ waiting # << >> /\ rt' = "taken"
           /\ crt' = Head(waiting) /\ waiting' = Tail(waiting)
  <2>1. /\ Head(waiting) = waiting[1] /\ 1 \in DOMAIN waiting
        /\ \A k \in DOMAIN waiting' : \E j \in DOMAIN waiting : waiting'[k] = waiting[j]
    BY <1>3 DEF TypeOK
  <2>2. \A r : Waits(r) => Waits(r)'
    BY <1>1 DEF Waits, Leaving
  <2>3. TypeOK'
    BY <1>1, <1>3 DEF TypeOK
  <2>4. WaitsForAnswer'
    BY <1>3, <2>1, <2>2 DEF WaitsForAnswer
  <2>5. NewestUnresolved' /\ ForwardedOK'
    BY <1>1, <1>3, <2>2 DEF NewestUnresolved, ForwardedOK
  <2> QED BY <2>3, <2>4, <2>5
<1> QED BY <1>2, <1>3 DEF TakeNext

LEMMA HandleTakenInv ==
  ASSUME RouterInv, HandleTaken
  PROVE RouterInv'
<1> USE DEF RouterInv
<1>1. CASE Crash
  BY <1>1, AnswerInv DEF Crash
<1>2. ASSUME NEW mac \in Macs, Resolves(Route[saved.dst].next_hop, mac), Sends(mac),
             rt = "taken", rt' = "searching", UNCHANGED <<arp, crt, saved, asked>>
      PROVE RouterInv'
  <2>1. /\ UNCHANGED <<arpTable, maxLen, freed, waiting>>
        /\ out' = <<Sent(saved, mac)>>
    BY <1>2 DEF Sends, arp
  <2>2. Leaving(saved)
    BY <1>2 DEF NewestUnresolved, Waits
  <2>3. ForwardedOK'
    BY <1>2, <2>1, <2>2 DEF ForwardedOK, Sent, Resolves, Leaving
  <2>4. TypeOK' /\ WaitsForAnswer' /\ NewestUnresolved'
    BY <1>2, <2>1 DEF TypeOK, WaitsForAnswer, NewestUnresolved, Waits, Leaving
  <2> QED BY <2>3, <2>4
<1>3. CASE /\ waiting' = Append(waiting, crt) /\ out' = << >>
           /\ rt' = "searching" /\ UNCHANGED <<arp, crt, saved, asked>>
  <2>1. rt = "taken" /\ UNCHANGED <<arpTable, maxLen, freed>>
    BY <1>3 DEF HandleTaken, arp
  <2>2. Waits(crt) /\ Waits(saved)
    BY <2>1 DEF WaitsForAnswer, NewestUnresolved
  <2>3. crt \in Packet
    BY <2>2 DEF Waits
  <2>4. TypeOK'
    BY <1>3, <2>1, <2>3 DEF TypeOK
  <2>5. \A k \in DOMAIN waiting' : waiting'[k] = crt \/ \E j \in DOMAIN waiting : waiting'[k] = waiting[j]
    BY <1>3, <2>3 DEF TypeOK
  <2>6. \A r : Waits(r) => Waits(r)'
    BY <1>3 DEF Waits, Leaving
  <2>7. WaitsForAnswer'
    BY <1>3, <2>2, <2>5, <2>6 DEF WaitsForAnswer
  <2>8. NewestUnresolved' /\ ForwardedOK'
    BY <1>3, <2>2, <2>6 DEF NewestUnresolved, ForwardedOK
  <2> QED BY <2>4, <2>7, <2>8
<1> QED BY <1>1, <1>2, <1>3 DEF HandleTaken, Requeued

LEMMA NextInv ==
  ASSUME RouterInv, [Next]_routerVars
  PROVE RouterInv'
<1>1. CASE UNCHANGED routerVars
  BY <1>1 DEF routerVars, arp, queue, RouterInv, TypeOK, WaitsForAnswer, NewestUnresolved,
              ForwardedOK, Waits, Leaving, Known, Resolves
<1>2. CASE SearchQueue
  BY <1>2, TakeNextInv, HandleTakenInv DEF SearchQueue
<1>3. CASE ArpFrame
  <2>1. ASSUME NEW ip, ArpRequest(ip) PROVE RouterInv'
    BY <2>1, AnswerInv DEF ArpRequest, ReplyFor
  <2>2. CASE ArpReplyIgnored
    BY <2>2, AnswerInv DEF ArpReplyIgnored
  <2>3. CASE GrowsFreed
    BY <2>3, AnswerInv DEF GrowsFreed, Crash
  <2> QED BY <1>3, <2>1, <2>2, <2>3, ArpReplyInv DEF ArpFrame
<1>4. ASSUME NEW p \in Packet, IpPacket(p) PROVE RouterInv'
  <2>1. CASE EchoReply(p) \/ ThrowAway(p) \/ Unreachable(p)
    BY <2>1, AnswerInv DEF EchoReply, ThrowAway, Unreachable, Icmp
  <2>2. CASE SearchesFreed(p)
    BY <2>2, AnswerInv DEF SearchesFreed, Crash
  <2> QED BY <1>4, <2>1, <2>2, ForwardInv, WaitInv DEF IpPacket
<1> QED BY <1>1, <1>2, <1>3, <1>4, RouterAssumption DEF Next

THEOREM RouterInductive == Spec => []RouterInv
BY InitInv, NextInv, PTL DEF Spec

(* What waits in the queue was asked for, and can leave as it is.           *)
THEOREM AlwaysWaitsForAnswer == Spec => []WaitsForAnswer
<1>1. RouterInv => WaitsForAnswer
  BY DEF RouterInv
<1> QED BY <1>1, RouterInductive, PTL

(* An ARP reply leaves no packet behind that it resolves, and the queue     *)
(* holds the newest packet only.                                            *)
THEOREM AlwaysNewestUnresolved == Spec => []NewestUnresolved
<1>1. RouterInv => NewestUnresolved
  BY DEF RouterInv
<1> QED BY <1>1, RouterInductive, PTL

(* No packet leaves for the wrong hop, MAC or interface, with a TTL of zero *)
(* or with a checksum the next router throws away.                          *)
THEOREM AlwaysForwardedOK == Spec => []ForwardedOK
<1>1. RouterInv => ForwardedOK
  BY DEF RouterInv
<1> QED BY <1>1, RouterInductive, PTL

(* The types, of the table and of all that waits.                           *)
THEOREM AlwaysTypeOK == Spec => []TypeOK
<1>1. RouterInv => TypeOK
  BY DEF RouterInv
<1> QED BY <1>1, RouterInductive, PTL

(* The first MAC that answers for an IP keeps it.                           *)
THEOREM NeverRedirected == Spec => NotRedirected
<1>1. ASSUME RouterInv, [Next]_routerVars, NEW ip \in Hops, NEW mac \in Macs, Resolves(ip, mac)
      PROVE Resolves(ip, mac)'
  <2>1. CASE UNCHANGED arpTable
    BY <1>1, <2>1 DEF Resolves
  <2>2. ASSUME NEW new \in Entry, arpTable' = Append(arpTable, new)
        PROVE Resolves(ip, mac)'
    <3>1. PICK k \in DOMAIN arpTable :
            /\ arpTable[k] = [ip |-> ip, mac |-> mac]
            /\ \A j \in 1 .. k - 1 : arpTable[j].ip # ip
      BY <1>1 DEF Resolves
    <3>2. arpTable \in Seq(Entry)
      BY <1>1 DEF RouterInv, TypeOK
    <3>3. \A j \in DOMAIN arpTable : j \in DOMAIN arpTable' /\ arpTable'[j] = arpTable[j]
      BY <2>2, <3>2
    <3>4. \A j \in 1 .. k - 1 : j \in DOMAIN arpTable
      BY <3>1, <3>2
    <3> QED BY <3>1, <3>3, <3>4 DEF Resolves
  <2>3. UNCHANGED arpTable \/ \E new \in Entry : arpTable' = Append(arpTable, new)
    <3>1. CASE UNCHANGED routerVars
      BY <3>1 DEF routerVars, arp
    <3>2. CASE SearchQueue
      BY <3>2 DEF SearchQueue, TakeNext, HandleTaken, Crash, arp
    <3>3. CASE ArpFrame
      <4>1. ASSUME NEW i \in Hops, NEW m \in Macs, ArpReply(i, m)
            PROVE \E new \in Entry : arpTable' = Append(arpTable, new)
        BY <4>1 DEF ArpReply, Added, Entry
      <4> QED BY <3>3, <4>1 DEF ArpFrame, ArpRequest, ArpReplyIgnored, GrowsFreed, Crash, arp
    <3>4. ASSUME NEW p \in Packet, IpPacket(p) PROVE UNCHANGED arpTable
      BY <3>4 DEF IpPacket, EchoReply, ThrowAway, Unreachable, Forward, Wait, SearchesFreed,
                  Crash, arp
    <3> QED BY <1>1, <3>1, <3>2, <3>3, <3>4, RouterAssumption DEF Next
  <2> QED BY <2>1, <2>2, <2>3
<1>2. RouterInv /\ [Next]_routerVars =>
        [\A ip \in Hops, mac \in Macs : Resolves(ip, mac) => Resolves(ip, mac)']_routerVars
  BY <1>1
<1> QED BY <1>2, RouterInductive, PTL DEF Spec, NotRedirected

(* The table moves only when it has outgrown ARP_MAX_SIZE.                  *)
THEOREM OnlyAFullTableGrows == Spec => []GrowthOnlyWhenFull
<1>1. Init => TableInv
  BY RouterAssumption DEF Init, TableInv, GrowthOnlyWhenFull
<1>2. ASSUME RouterInv, TableInv, [Next]_routerVars
      PROVE TableInv'
  <2>1. arpTable \in Seq(Entry) /\ maxLen \in Nat /\ Len(arpTable) \in Nat
    BY <1>2 DEF RouterInv, TypeOK
  <2>2. ASSUME UNCHANGED arp, rt' = "crashed" => rt = "crashed" \/ freed
        PROVE TableInv'
    BY <1>2, <2>2 DEF arp, TableInv, GrowthOnlyWhenFull
  <2>3. ASSUME NEW ip \in Hops, NEW mac \in Macs, ArpReply(ip, mac)
        PROVE TableInv'
    <3>1. [ip |-> ip, mac |-> mac] \in Entry
      BY DEF Entry
    <3>2. Len(arpTable') = Len(arpTable) + 1 /\ rt' = "searching" /\ rt = "idle"
      BY <2>1, <2>3, <3>1 DEF ArpReply, Added, Searches, Idle
    <3>3. CASE ~Full /\ UNCHANGED <<maxLen, freed>>
      BY <1>2, <2>1, <3>2, <3>3, RouterAssumption DEF TableInv, GrowthOnlyWhenFull, Full
    <3>4. CASE Full /\ maxLen' = maxLen + 1
      BY <1>2, <2>1, <3>2, <3>4, RouterAssumption DEF TableInv, GrowthOnlyWhenFull, Full
    <3> QED BY <2>3, <3>3, <3>4 DEF ArpReply
  <2>4. CASE UNCHANGED routerVars
    BY <2>2, <2>4 DEF routerVars
  <2>5. CASE SearchQueue
    BY <2>2, <2>5 DEF SearchQueue, TakeNext, HandleTaken, Crash
  <2>6. CASE ArpFrame
    BY <2>2, <2>3, <2>6 DEF ArpFrame, ArpRequest, ArpReplyIgnored, GrowsFreed, Crash, Idle
  <2>7. ASSUME NEW p \in Arriving, IpPacket(p) PROVE TableInv'
    BY <2>2, <2>7 DEF IpPacket, EchoReply, Icmp, ThrowAway, Unreachable, Forward, Wait,
                      SearchesFreed, Crash, Idle
  <2> QED BY <1>2, <2>4, <2>5, <2>6, <2>7 DEF Next
<1>3. TableInv => GrowthOnlyWhenFull
  BY DEF TableInv
<1> QED BY <1>1, <1>2, <1>3, RouterInductive, PTL DEF Spec

-----------------------------------------------------------------------------
(* The turns of the loop of search_queue.                                   *)
LEMMA TakeNextTurn ==
  ASSUME RouterInv, TakeNext
  PROVE  /\ UNCHANGED <<arpTable, saved>> /\ out' = << >> /\ Held' = Held
         /\ \/ waiting = << >> /\ rt' = "idle"
            \/ rt' = "taken" /\ ToDo' = ToDo - 1
<1>1. waiting \in Seq(Packet) /\ rt = "searching" /\ Len(waiting) \in Nat
  BY DEF RouterInv, TypeOK, TakeNext
<1>2. CASE waiting = << >> /\ rt' = "idle" /\ UNCHANGED waiting
  BY <1>1, <1>2 DEF TakeNext, Held, arp
<1>3. CASE waiting # << >> /\ rt' = "taken" /\ waiting' = Tail(waiting)
  <2>1. Len(waiting') = Len(waiting) - 1
    BY <1>1, <1>3
  <2>2. Held = Len(waiting) /\ Held' = Len(waiting') + 1
    BY <1>1, <1>3 DEF Held
  <2> QED BY <1>1, <1>3, <2>1, <2>2 DEF TakeNext, ToDo, arp
<1> QED BY <1>2, <1>3 DEF TakeNext

LEMMA HandleTakenTurn ==
  ASSUME RouterInv, HandleTaken, rt' # "crashed"
  PROVE  /\ rt' = "searching" /\ UNCHANGED <<arpTable, saved>>
         /\ \/ /\ \E mac \in Macs : out' = <<Sent(saved, mac)>>
               /\ Held' = Held - 1 /\ ToDo' = ToDo - 1
            \/ ~Known(Route[saved.dst].next_hop) /\ Held' = Held /\ out' = << >>
<1>1. rt = "taken" /\ rt' = "searching" /\ UNCHANGED <<arpTable, saved>>
  BY DEF HandleTaken, Crash, arp
<1>2. waiting \in Seq(Packet) /\ crt \in Packet /\ Len(waiting) \in Nat
  BY <1>1 DEF RouterInv, TypeOK, WaitsForAnswer, Waits
<1>3. Held = Len(waiting) + 1 /\ Held' = Len(waiting')
  BY <1>1, <1>2 DEF Held, Requeued, HandleTaken, Sends, Crash
<1>4. CASE \E mac \in Macs : Sends(mac)
  <2>1. Len(waiting') = Len(waiting) /\ \E mac \in Macs : out' = <<Sent(saved, mac)>>
    BY <1>4 DEF Sends
  <2> QED BY <1>1, <1>2, <1>3, <2>1 DEF ToDo
<1>5. CASE ~Known(Route[saved.dst].next_hop) /\ Requeued /\ out' = << >>
  <2>1. Len(waiting') = Len(waiting) + 1
    BY <1>2, <1>5 DEF Requeued
  <2> QED BY <1>1, <1>2, <1>3, <1>5, <2>1
<1> QED BY <1>1, <1>4, <1>5 DEF HandleTaken, Crash

(* A frame that is handled outside of the search adds a cell, which the     *)
(* newest packet comes with, or none.                                       *)
LEMMA FrameTurn ==
  ASSUME RouterInv, ArpFrame \/ \E p \in Arriving : IpPacket(p), rt' # "crashed"
  PROVE  /\ rt = "idle"
         /\ \/ Held' = Held /\ UNCHANGED saved
            \/ /\ Held' = Held + 1 /\ saved' = waiting'[Len(waiting')]
               /\ out' = <<Request(Route[saved'.dst])>>
<1>1. waiting \in Seq(Packet) /\ Len(waiting) \in Nat
  BY DEF RouterInv, TypeOK
<1>2. CASE ArpFrame
  <2>1. rt = "idle" /\ rt' \in {"idle", "searching"} /\ UNCHANGED <<waiting, saved>>
    BY <1>2 DEF ArpFrame, ArpRequest, ArpReplyIgnored, ArpReply, Searches, GrowsFreed, Crash,
                Idle, queue
  <2> QED BY <1>1, <2>1 DEF Held
<1>3. ASSUME NEW p \in Arriving, IpPacket(p), ~Wait(p)
      PROVE  rt = "idle" /\ Held' = Held /\ UNCHANGED saved
  <2>1. rt = "idle" /\ rt' = "idle" /\ UNCHANGED <<waiting, saved>>
    BY <1>3 DEF IpPacket, EchoReply, ThrowAway, Unreachable, Forward, SearchesFreed, Crash,
                Idle, queue
  <2> QED BY <1>1, <2>1 DEF Held
<1>4. ASSUME NEW p \in Arriving, Wait(p)
      PROVE  /\ rt = "idle" /\ Held' = Held + 1
             /\ saved' = waiting'[Len(waiting')] /\ out' = <<Request(Route[saved'.dst])>>
  <2>1. /\ rt = "idle" /\ rt' = "idle" /\ waiting' = Append(waiting, Onward(p))
        /\ saved' = Onward(p) /\ out' = <<Request(Route[p.dst])>> /\ IsRouted(p)
    BY <1>4 DEF Wait, Idle
  <2>2. p \in Packet
    BY RouterAssumption
  <2>3. Onward(p) \in Packet /\ Onward(p).dst = p.dst
    BY <2>1, <2>2, OnwardLeaves
  <2>4. Len(waiting') = Len(waiting) + 1 /\ waiting'[Len(waiting')] = Onward(p)
    BY <1>1, <2>1, <2>3
  <2> QED BY <1>1, <2>1, <2>3, <2>4 DEF Held
<1> QED BY <1>2, <1>3, <1>4

LEMMA HeldType ==
  ASSUME RouterInv
  PROVE  Held \in Nat /\ Len(waiting) \in Nat /\ ToDo \in Nat
<1>1. Len(waiting) \in Nat
  BY DEF RouterInv, TypeOK
<1>2. Held \in Nat
  BY <1>1 DEF Held
<1> QED BY <1>1, <1>2 DEF ToDo

(* One frame for each cell, which carries the newest packet that waits and  *)
(* not the one the cell was made for (router.c:91-92).                      *)
THEOREM EachCellSendsNewest == Spec => NewestForEachCell
<1>1. ASSUME RouterInv, [Next]_routerVars, rt' # "crashed"
      PROVE  /\ Held' > Held => /\ Held' = Held + 1
                                /\ saved' = waiting'[Len(waiting')]
                                /\ out' = <<Request(Route[saved'.dst])>>
             /\ Held' < Held => Held' = Held - 1 /\ \E mac \in Macs : out' = <<Sent(saved, mac)>>
             /\ saved' # saved => Held' > Held
             /\ UNCHANGED routerVars \/ (rt = "taken" /\ out' # << >> => Held' < Held)
  <2>1. CASE UNCHANGED routerVars
    BY <2>1, HeldType DEF routerVars, queue, Held
  <2>2. CASE TakeNext
    <3>1. rt # "taken"
      BY <2>2 DEF TakeNext
    <3> QED BY <1>1, <2>2, <3>1, TakeNextTurn, HeldType
  <2>3. CASE HandleTaken
    BY <1>1, <2>3, HandleTakenTurn, HeldType
  <2>4. CASE ArpFrame \/ \E p \in Arriving : IpPacket(p)
    BY <1>1, <2>4, FrameTurn, HeldType
  <2> QED BY <1>1, <2>1, <2>2, <2>3, <2>4 DEF Next, SearchQueue
<1>2. RouterInv /\ [Next]_routerVars =>
        [rt' # "crashed" =>
           /\ Held' > Held => /\ Held' = Held + 1
                              /\ saved' = waiting'[Len(waiting')]
                              /\ out' = <<Request(Route[saved'.dst])>>
           /\ Held' < Held => Held' = Held - 1 /\ \E mac \in Macs : out' = <<Sent(saved, mac)>>
           /\ saved' # saved => Held' > Held
           /\ rt = "taken" /\ out' # << >> => Held' < Held]_routerVars
  BY <1>1
<1> QED BY <1>2, RouterInductive, PTL DEF Spec, NewestForEachCell

(* The search for a MAC that is known is over after ToDo turns at most.     *)
THEOREM SearchRunsDown == Spec => KnownSearchShrinks
<1>1. ASSUME RouterInv, Next, InSearch, InSearch', Known(Route[saved.dst].next_hop)
      PROVE  ToDo' < ToDo
  <2>1. rt' # "idle" /\ rt' # "crashed" /\ rt # "idle"
    BY <1>1 DEF InSearch
  <2>2. CASE TakeNext
    BY <1>1, <2>1, <2>2, TakeNextTurn, HeldType
  <2>3. CASE HandleTaken
    BY <1>1, <2>1, <2>3, HandleTakenTurn, HeldType
  <2>4. ~(ArpFrame \/ \E p \in Arriving : IpPacket(p))
    BY <1>1, <2>1, FrameTurn
  <2> QED BY <1>1, <2>2, <2>3, <2>4 DEF Next, SearchQueue
<1>2. RouterInv /\ [Next]_routerVars =>
        [InSearch /\ InSearch' /\ Known(Route[saved.dst].next_hop) => ToDo' < ToDo]_routerVars
  BY <1>1
<1> QED BY <1>2, RouterInductive, PTL DEF Spec, KnownSearchShrinks
=============================================================================
