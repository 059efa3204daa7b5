---------------------------- MODULE StreamProofs ----------------------------
(****************************************************************************)
(* What the connections of PubSub carry, for any instance: messages in      *)
(* publication order, from the queues of clients that are away to their     *)
(* streams when they are back, and one answer for each request.             *)
(****************************************************************************)
EXTENDS RefinementProofs, FunctionTheorems

(* The messages among the frames s are in order, none before l or after n.  *)
Ordered(s, l, n) ==
  \A k \in DOMAIN s :
    IsData(s[k]) =>
      /\ l <= s[k].seq /\ s[k].seq <= n
      /\ \A j \in 1 .. k - 1 : IsData(s[j]) => s[j].seq <= s[k].seq

(* The last message that anyone may have got: the fan-out of one more may   *)
(* have begun when the server ended.                                        *)
Newest == IF srv = "running" THEN Len(log) ELSE Len(log) + 1

(* Nothing is sent to a connection before its ID is read, and nothing is    *)
(* left of one that its subscriber closed.                                  *)
QuietOK ==
  \A r \in Runs :
    Unread(r) \/ link[r] \in {"none", "cfin", "crst"} => down[r] = << >> /\ last[r] = 0

StreamsOK ==
  \A r \in Runs : last[r] <= Newest /\ Ordered(down[r], last[r], Newest)

(* StreamInOrder and MissedInOrder need each other: what is handed over is  *)
(* what was stored, and comes before what is sent afterwards.               *)
OrderInv == MissedInOrder /\ QuietOK /\ StreamsOK

AllInv == PromiseInv /\ OrderInv

-----------------------------------------------------------------------------
(* Frames put behind others. *)
LEMMA ElementType ==
  ASSUME NEW S, NEW s \in Seq(S), NEW i \in DOMAIN s
  PROVE s[i] \in S
OBVIOUS

LEMMA SeqIsNat == \A x \in DownFrame : x.seq \in Nat
BY ConstantsAssumption DEF DownFrame

LEMMA ConcatOrdered ==
  ASSUME NEW s \in Seq(DownFrame), NEW more \in Seq(DownFrame),
         NEW l \in Nat, NEW n \in Nat, NEW m \in Nat, l <= n, n <= m,
         Ordered(s, l, n), Ordered(more, n, m)
  PROVE Ordered(s \o more, l, m)
<1> DEFINE all == s \o more
<1>1. /\ Len(s) \in Nat /\ Len(more) \in Nat
      /\ DOMAIN s = 1 .. Len(s) /\ DOMAIN more = 1 .. Len(more)
  OBVIOUS
<1>2. /\ DOMAIN all = 1 .. Len(s) + Len(more)
      /\ \A i \in 1 .. Len(s) + Len(more) :
           all[i] = IF i <= Len(s) THEN s[i] ELSE more[i - Len(s)]
  <2>1. /\ all \in Seq(DownFrame) /\ Len(all) = Len(s) + Len(more)
        /\ \A i \in 1 .. Len(s) + Len(more) :
             all[i] = IF i <= Len(s) THEN s[i] ELSE more[i - Len(s)]
    BY ConcatProperties, Zenon
  <2> QED BY <1>1, <2>1
<1> HIDE DEF all
<1>3. /\ \A k \in 1 .. Len(s) : all[k] = s[k]
      /\ \A k \in Len(s) + 1 .. Len(s) + Len(more) :
           k - Len(s) \in 1 .. Len(more) /\ all[k] = more[k - Len(s)]
  BY <1>1, <1>2
<1>4. \A k \in 1 .. Len(s) : s[k].seq \in Nat
  BY <1>1, SeqIsNat
<1>5. \A k \in 1 .. Len(more) : more[k].seq \in Nat
  BY <1>1, SeqIsNat
<1> SUFFICES ASSUME NEW k \in 1 .. Len(s) + Len(more), IsData(all[k])
             PROVE /\ l <= all[k].seq /\ all[k].seq <= m
                   /\ \A j \in 1 .. k - 1 : IsData(all[j]) => all[j].seq <= all[k].seq
  BY <1>2 DEF Ordered, all
<1>6. CASE k \in 1 .. Len(s)
  <2>1. all[k] = s[k] /\ \A j \in 1 .. k - 1 : all[j] = s[j]
    BY <1>1, <1>3, <1>6
  <2> QED BY <1>1, <1>4, <1>6, <2>1 DEF Ordered
<1>7. CASE k \in Len(s) + 1 .. Len(s) + Len(more)
  <2> DEFINE i == k - Len(s)
  <2>1. i \in 1 .. Len(more) /\ all[k] = more[i]
    BY <1>3, <1>7
  <2>2. n <= all[k].seq /\ all[k].seq <= m /\ all[k].seq \in Nat
    BY <1>1, <1>5, <2>1 DEF Ordered
  <2>3. ASSUME NEW j \in 1 .. k - 1, IsData(all[j]) PROVE all[j].seq <= all[k].seq
    <3>1. CASE j \in 1 .. Len(s)
      <4>1. all[j].seq <= n /\ all[j].seq \in Nat
        BY <1>1, <1>3, <1>4, <2>3, <3>1 DEF Ordered
      <4> QED BY <2>2, <4>1
    <3>2. CASE j \in Len(s) + 1 .. Len(s) + Len(more)
      <4>1. j - Len(s) \in 1 .. i - 1 /\ all[j] = more[j - Len(s)]
        BY <1>1, <1>3, <1>7, <2>3, <3>2
      <4> QED BY <1>1, <2>1, <2>3, <4>1 DEF Ordered
    <3> QED BY <1>1, <1>7, <2>3, <3>1, <3>2
  <2> QED BY <2>2, <2>3
<1> QED BY <1>1, <1>6, <1>7

(* The first frame taken: what is left does not go behind it.               *)
LEMMA TailOrdered ==
  ASSUME NEW s \in Seq(DownFrame), s # << >>, NEW l \in Nat, NEW n \in Nat,
         Ordered(s, l, n)
  PROVE /\ Ordered(Tail(s), l, n)
        /\ IsData(Head(s)) => Ordered(Tail(s), Head(s).seq, n)
<1>1. /\ Len(s) \in Nat /\ DOMAIN s = 1 .. Len(s) /\ 1 \in DOMAIN s /\ Head(s) = s[1]
      /\ DOMAIN Tail(s) = 1 .. Len(s) - 1
      /\ \A k \in 1 .. Len(s) - 1 : Tail(s)[k] = s[k + 1]
  OBVIOUS
<1> DEFINE rest == Tail(s)
<1> HIDE DEF rest
<1> SUFFICES ASSUME NEW k \in 1 .. Len(s) - 1, IsData(rest[k])
             PROVE /\ l <= rest[k].seq /\ rest[k].seq <= n
                   /\ \A j \in 1 .. k - 1 : IsData(rest[j]) => rest[j].seq <= rest[k].seq
                   /\ IsData(s[1]) => s[1].seq <= rest[k].seq
  BY <1>1 DEF Ordered, rest
<1>2. /\ rest[k] = s[k + 1] /\ k + 1 \in DOMAIN s
      /\ \A j \in 1 .. k - 1 : rest[j] = s[j + 1] /\ j + 1 \in 1 .. (k + 1) - 1
      /\ 1 \in 1 .. (k + 1) - 1
  BY <1>1 DEF rest
<1> QED BY <1>2 DEF Ordered

LEMMA WeakerOrdered ==
  ASSUME NEW s \in Seq(DownFrame), NEW l \in Nat, NEW n \in Nat, NEW m \in Nat,
         n <= m, Ordered(s, l, n)
  PROVE Ordered(s, l, m)
<1>1. \A k \in DOMAIN s : s[k].seq \in Nat
  BY SeqIsNat
<1> QED BY <1>1, SMTT(30) DEF Ordered

(* Opcodes are no messages; a message bears its number.                     *)
LEMMA FrameKinds ==
  /\ \A o \in Opcodes : ~IsData(Opcode(o))
  /\ \A n : IsData(Data(n)) /\ Data(n).seq = n
BY DEF IsData, Opcode, Opcodes, Data

LEMMA NothingOrdered ==
  ASSUME NEW l, NEW n
  PROVE Ordered(<< >>, l, n)
BY DEF Ordered

LEMMA NoOutputOrdered ==
  ASSUME NEW l, NEW n, NEW f \in ClientFds
  PROVE Ordered(NoOutput[f], l, n)
BY NothingOrdered DEF NoOutput

LEMMA OpcodeOrdered ==
  ASSUME NEW l, NEW n, NEW o \in Opcodes, NEW g, NEW f \in ClientFds
  PROVE Ordered(OutputTo(g, <<Opcode(o)>>)[f], l, n)
<1>1. Ordered(<<Opcode(o)>>, l, n)
  BY FrameKinds DEF Ordered
<1>2. OutputTo(g, <<Opcode(o)>>)[f] \in {<< >>, <<Opcode(o)>>}
  BY DEF OutputTo, NoOutput
<1> QED BY <1>1, <1>2, NothingOrdered

(* However many copies of one message a descriptor gets.                    *)
LEMMA FanoutOrdered ==
  ASSUME NEW t, NEW n \in Nat, NEW f \in ClientFds
  PROVE Ordered(Fanout(t, Data(n + 1))[f], n, n + 1)
<1> DEFINE copies == Cardinality({id \in Ids : IsConnected(id) /\ subs[t][id] = f})
<1>1. Fanout(t, Data(n + 1))[f] = [k \in 1 .. copies |-> Data(n + 1)]
  BY DEF Fanout
<1>2. IsData(Data(n + 1)) /\ Data(n + 1).seq = n + 1
  BY FrameKinds
<1>3. copies \in Nat
  BY ConstantsAssumption, FS_Subset, FS_CardinalityType
<1> HIDE DEF copies
<1> QED BY <1>1, <1>2, <1>3 DEF Ordered

-----------------------------------------------------------------------------
(* What the handlers write goes behind what was written before.             *)

LEMMA LogLength == IndInv => Len(log) \in Nat
BY DEF IndInv, TypeOK, ServerTypeOK

LEMMA StreamTypes ==
  ASSUME IndInv, NEW r \in Runs
  PROVE /\ last[r] \in Nat /\ down[r] \in Seq(DownFrame)
        /\ Newest \in Nat
BY LogLength, ConstantsAssumption
   DEF IndInv, TypeOK, TransportTypeOK, SubscriberTypeOK, Newest

LEMMA WrittenOrdered ==
  ASSUME AllInv, srv = "running", NEW out \in Outputs, NEW m \in Nat, Len(log) <= m,
         \A f \in ClientFds : Ordered(out[f], Len(log), m)
  PROVE \A r \in Runs : last[r] <= m /\ Ordered(Received(out)[r], last[r], m)
<1> USE DEF AllInv, PromiseInv, OrderInv
<1> TAKE r \in Runs
<1>1. /\ last[r] \in Nat /\ down[r] \in Seq(DownFrame) /\ Len(log) \in Nat
      /\ last[r] <= Len(log) /\ Ordered(down[r], last[r], Len(log))
  BY StreamTypes, LogLength DEF StreamsOK, Newest
<1>2. last[r] <= m
  BY <1>1
<1>3. CASE r \in Held /\ link[r] = "open"
  <2>1. fd[r] \in ClientFds
    BY <1>3 DEF Held, IndInv, TypeOK, TransportTypeOK
  <2>2. out[fd[r]] \in Seq(DownFrame) /\ Ordered(out[fd[r]], Len(log), m)
    BY <2>1 DEF Outputs
  <2>3. Received(out)[r] = down[r] \o out[fd[r]]
    BY <1>3 DEF Received
  <2> QED BY <1>1, <1>2, <2>2, <2>3, ConcatOrdered
<1>4. CASE ~(r \in Held /\ link[r] = "open")
  <2>1. Received(out)[r] = down[r]
    BY <1>4 DEF Received
  <2> QED BY <1>1, <1>2, <2>1, WeakerOrdered
<1> QED BY <1>3, <1>4

(* Who is not on an open connection with the server gets nothing.           *)
LEMMA NotReceived ==
  ASSUME NEW out, NEW r \in Runs, ~(r \in Held /\ link[r] = "open")
  PROVE Received(out)[r] = down[r]
BY DEF Received

LEMMA MissedKept ==
  ASSUME MissedInOrder, UNCHANGED <<saved, log>>
  PROVE MissedInOrder'
BY DEF MissedInOrder

(* The end of the server, whatever its last handler had written.            *)
LEMMA StopOrder ==
  ASSUME AllInv, UNCHANGED subscriberVars, srv = "running",
         NEW ending \in Endings, NEW out, NEW done, Stop(ending, out, done),
         \A r \in Runs : Ordered(down'[r], last[r], Len(log) + 1)
  PROVE OrderInv'
<1> USE DEF AllInv, PromiseInv, OrderInv, Stop, Forget, ServerProcessEnds, subscriberVars
<1>1. MissedInOrder'
  BY DEF MissedInOrder, NoClient
<1>2. QuietOK'
  <2> SUFFICES ASSUME NEW r \in Runs, Unread(r)' \/ link'[r] \in {"none", "cfin", "crst"}
               PROVE down'[r] = << >> /\ last'[r] = 0
    BY DEF QuietOK
  <2>1. ~Unread(r)'
    BY DEF Unread, Waiting, NoFd
  <2>2. link[r] \in {"none", "cfin", "crst"}
    BY <2>1 DEF AfterServerClose, PeerGone
  <2>3. down'[r] = down[r]
    BY <2>2 DEF Received
  <2> QED BY <2>2, <2>3 DEF QuietOK
<1>3. StreamsOK'
  <2>1. Newest' = Len(log) + 1 /\ Newest = Len(log) /\ Len(log) \in Nat
    BY LogLength DEF Newest, Endings
  <2> SUFFICES ASSUME NEW r \in Runs
               PROVE last'[r] <= Newest' /\ Ordered(down'[r], last'[r], Newest')
    BY DEF StreamsOK, Ordered
  <2>2. last[r] <= Len(log) /\ last[r] \in Nat
    BY <2>1, StreamTypes DEF StreamsOK
  <2> QED BY <2>1, <2>2
<1> QED BY <1>1, <1>2, <1>3

LEMMA StopInWriteOrder ==
  ASSUME AllInv, UNCHANGED subscriberVars, srv = "running",
         NEW out \in Outputs, StopInWrite(out),
         \A f \in ClientFds : Ordered(out[f], Len(log), Len(log) + 1)
  PROVE OrderInv'
<1>1. PICK error \in {"EBADF", "EPIPE"}, done \in SUBSET ClientFds : Stop(error, out, done)
  BY DEF StopInWrite
<1> DEFINE written == [f \in ClientFds |-> IF f \in done THEN out[f] ELSE << >>]
<1>2. written \in Outputs /\ \A f \in ClientFds : Ordered(written[f], Len(log), Len(log) + 1)
  BY NothingOrdered DEF Outputs
<1>3. Len(log) \in Nat /\ Len(log) + 1 \in Nat /\ Len(log) <= Len(log) + 1
  BY LogLength DEF AllInv, PromiseInv
<1>4. \A r \in Runs : Ordered(Received(written)[r], last[r], Len(log) + 1)
  BY <1>2, <1>3, WrittenOrdered
<1>5. down' = Received(written)
  BY <1>1 DEF Stop, ServerProcessEnds
<1> QED BY <1>1, <1>4, <1>5, StopOrder DEF Endings

-----------------------------------------------------------------------------
(* The steps of a subscriber. *)

LEMMA SubscriberOrder ==
  ASSUME AllInv, UNCHANGED serverVars, NEW r \in Runs,
         \A q \in Runs : q # r => /\ link'[q] = link[q] /\ down'[q] = down[q]
                                  /\ last'[q] = last[q]
                                  /\ Unread(q)' => Unread(q),
         Unread(r)' \/ link'[r] \in {"none", "cfin", "crst"}
           => down'[r] = << >> /\ last'[r] = 0,
         last'[r] <= Newest /\ Ordered(down'[r], last'[r], Newest)
  PROVE OrderInv'
<1> USE DEF AllInv, OrderInv, serverVars, memory
<1>1. MissedInOrder'
  BY MissedKept
<1>2. QuietOK'
  BY DEF QuietOK
<1>3. Newest' = Newest
  BY DEF Newest
<1>4. StreamsOK'
  <2> SUFFICES ASSUME NEW q \in Runs
               PROVE last'[q] <= Newest' /\ Ordered(down'[q], last'[q], Newest')
    BY DEF StreamsOK, Ordered
  <2> QED BY <1>3 DEF StreamsOK
<1> QED BY <1>1, <1>2, <1>4

LEMMA ConnectOrder ==
  ASSUME AllInv, NEW r \in Runs, Connect(r), UNCHANGED serverVars
  PROVE OrderInv'
<1> USE DEF AllInv, PromiseInv, OrderInv, Connect, ClientConnects, serverVars, memory
<1>1. backlog \in Seq(Runs) /\ link \in [Runs -> LinkStates]
  BY DEF IndInv, TypeOK, TransportTypeOK
<1>2. Waiting' \subseteq Waiting \cup {r}
  <2>1. /\ Len(backlog') = Len(backlog) + 1 /\ backlog'[Len(backlog) + 1] = r
        /\ \A k \in 1 .. Len(backlog) : backlog'[k] = backlog[k]
    BY <1>1, AppendProperties
  <2>2. Len(backlog) \in Nat
    BY <1>1
  <2> QED BY <2>1, <2>2 DEF Waiting
<1>3. down[r] = << >> /\ last[r] = 0
  BY DEF QuietOK
<1>4. \A q \in Runs : q # r => link'[q] = link[q] /\ (Unread(q)' => Unread(q))
  BY <1>1, <1>2 DEF Unread
<1> QED BY <1>3, <1>4, SubscriberOrder DEF StreamsOK

LEMMA SendOrder ==
  ASSUME AllInv, NEW r \in Runs, UNCHANGED serverVars,
         UNCHANGED <<link, down, backlog, fd, last>>
  PROVE OrderInv'
<1> USE DEF AllInv, OrderInv, serverVars, memory
<1>1. \A q \in Runs : Unread(q)' = Unread(q)
  BY DEF Unread, Waiting
<1> QED BY <1>1, SubscriberOrder DEF StreamsOK, QuietOK

LEMMA EndsOrder ==
  ASSUME AllInv, NEW r \in Runs, Ends(r), UNCHANGED serverVars
  PROVE OrderInv'
<1> USE DEF AllInv, PromiseInv, OrderInv, Ends, ClientCloses, serverVars, memory
<1>1. /\ down \in [Runs -> Seq(DownFrame)] /\ link \in [Runs -> LinkStates]
      /\ last \in [Runs -> 0 .. MaxPub]
  BY DEF IndInv, TypeOK, TransportTypeOK, SubscriberTypeOK
<1>2. down'[r] = << >> /\ last'[r] = 0
  BY <1>1
<1>3. Newest \in Nat
  BY StreamTypes
<1>4. last'[r] <= Newest /\ Ordered(down'[r], last'[r], Newest)
  BY <1>2, <1>3, NothingOrdered
<1>5. \A q \in Runs : q # r => /\ link'[q] = link[q] /\ down'[q] = down[q]
                               /\ last'[q] = last[q]
                               /\ Unread(q)' => Unread(q)
  BY <1>1 DEF Unread, Waiting
<1>6. Unread(r)' \/ link'[r] \in {"none", "cfin", "crst"} => down'[r] = << >> /\ last'[r] = 0
  BY <1>2
<1> HIDE DEF AllInv, PromiseInv, OrderInv, Ends, ClientCloses
<1> QED BY <1>4, <1>5, <1>6, SubscriberOrder

LEMMA ReadOrder ==
  ASSUME AllInv, NEW r \in Runs, Display(r) \/ ReadAnswer(r), UNCHANGED serverVars
  PROVE OrderInv'
<1> USE DEF AllInv, PromiseInv, OrderInv, serverVars, memory
<1>1. /\ down[r] # << >> /\ down' = [down EXCEPT ![r] = Tail(@)]
      /\ UNCHANGED <<link, up, backlog, fd>>
      /\ \/ last' = last
         \/ IsData(Head(down[r])) /\ last' = [last EXCEPT ![r] = Head(down[r]).seq]
  BY DEF Display, ReadAnswer, ClientReceives, IsData
<1>2. /\ down \in [Runs -> Seq(DownFrame)] /\ last \in [Runs -> 0 .. MaxPub]
      /\ last[r] \in Nat /\ down[r] \in Seq(DownFrame) /\ Newest \in Nat
  BY StreamTypes DEF IndInv, TypeOK, TransportTypeOK, SubscriberTypeOK
<1>3. last[r] <= Newest /\ Ordered(down[r], last[r], Newest)
  BY DEF StreamsOK
<1>4. IsData(Head(down[r])) => Head(down[r]).seq <= Newest
  <2>1. Head(down[r]) = down[r][1] /\ 1 \in DOMAIN down[r]
    BY <1>1, <1>2
  <2> QED BY <1>3, <2>1 DEF Ordered
<1>5. last'[r] <= Newest /\ Ordered(down'[r], last'[r], Newest)
  BY <1>1, <1>2, <1>3, <1>4, TailOrdered
<1>6. /\ \A q \in Runs : q # r => /\ link'[q] = link[q] /\ down'[q] = down[q]
                                   /\ last'[q] = last[q]
      /\ \A q \in Runs : Unread(q)' => Unread(q)
  BY <1>1, <1>2 DEF Unread, Waiting
<1>7. ~Unread(r) /\ link[r] \notin {"none", "cfin", "crst"}
  BY <1>1 DEF QuietOK
<1> QED BY <1>1, <1>5, <1>6, <1>7, SubscriberOrder

-----------------------------------------------------------------------------
(* The steps of the server. *)

(* Those that send nothing and store nothing.                               *)
LEMMA SilentOrder ==
  ASSUME AllInv, UNCHANGED <<srv, log, saved, down, subscriberVars>>,
         \A r \in Runs :
           Unread(r)' \/ link'[r] \in {"none", "cfin", "crst"}
             => Unread(r) \/ link[r] \in {"none", "cfin", "crst"}
  PROVE OrderInv'
<1> USE DEF AllInv, OrderInv, subscriberVars
<1>1. MissedInOrder'
  BY MissedKept
<1>2. QuietOK'
  BY DEF QuietOK
<1>3. StreamsOK'
  BY DEF StreamsOK, Newest, Ordered
<1> QED BY <1>1, <1>2, <1>3

(* A handler that writes and goes on: nobody is told out of order.          *)
LEMMA WrittenOrder ==
  ASSUME AllInv, UNCHANGED subscriberVars, srv = "running", srv' = "running",
         MissedInOrder',
         NEW out \in Outputs, down' = Received(out),
         Len(log) <= Len(log'), Len(log') \in Nat,
         \A f \in ClientFds : Ordered(out[f], Len(log), Len(log')),
         \A r \in Runs :
           Unread(r)' \/ link'[r] \in {"none", "cfin", "crst"}
             => /\ Unread(r) \/ link[r] \in {"none", "cfin", "crst"}
                /\ ~(r \in Held /\ link[r] = "open")
  PROVE OrderInv'
<1> USE DEF AllInv, OrderInv, subscriberVars
<1>1. QuietOK'
  BY NotReceived DEF QuietOK
<1>2. \A r \in Runs : last[r] <= Len(log') /\ Ordered(down'[r], last[r], Len(log'))
  BY WrittenOrdered
<1>3. StreamsOK'
  <2>1. Newest' = Len(log')
    BY DEF Newest
  <2> QED BY <1>2, <2>1 DEF StreamsOK
<1> QED BY <1>1, <1>3

LEMMA UdpMessageOrder ==
  ASSUME AllInv, UdpMessage, UNCHANGED subscriberVars
  PROVE OrderInv'
<1> DEFINE t == Head(udp)
           n == Len(log) + 1
           out == IF t \in topics THEN Fanout(t, Data(n)) ELSE NoOutput
<1> USE DEF AllInv, PromiseInv, OrderInv, IndInv, TypeOK
<1>1. srv = "running" /\ newFd = NoFd /\ UdpFd \in ready
  BY DEF UdpMessage, Handling, IsLowest
<1>2. /\ t \in Topics /\ n \in 1 .. MaxPub /\ Len(log) \in Nat
      /\ log \in Seq(Topics)
  <2>1. udp # << >> /\ udp \in Seq(Topics) /\ log \in Seq(Topics)
    BY <1>1 DEF SnapshotOK, ServerTypeOK
  <2>2. Len(udp) \in Nat \ {0} /\ Len(log) \in Nat /\ Len(log) + Len(udp) <= MaxPub
    BY <2>1 DEF ServerTypeOK
  <2> QED BY <2>1, <2>2, ConstantsAssumption
<1>3. out \in Outputs
  <2>1. Data(n) \in DownFrame
    BY <1>2, FrameTypes
  <2> QED BY <2>1, FanoutType, NoOutputType
<1>4. \A f \in ClientFds : Ordered(out[f], Len(log), n)
  BY <1>2, FanoutOrdered, NoOutputOrdered
<1>5. CASE StopInWrite(out)
  BY <1>1, <1>3, <1>4, <1>5, StopInWriteOrder
<1>6. CASE /\ log' = Append(log, t)
           /\ saved' = [id \in Ids |->
                IF t \in topics /\ StoresFor(id, t)
                THEN [saved[id] EXCEPT !.missed = Append(@, n)]
                ELSE saved[id]]
           /\ down' = Received(out)
           /\ UNCHANGED <<srv, newFd, link, backlog, fd>>
  <2> USE <1>6
  <2>1. /\ Len(log') = n /\ log'[n] = t
        /\ \A k \in 1 .. Len(log) : log'[k] = log[k]
    BY <1>2, AppendProperties
  <2>2. MissedInOrder'
    <3> SUFFICES ASSUME NEW id \in Ids, NEW k \in DOMAIN saved'[id].missed
                 PROVE LET missed == saved'[id].missed
                       IN  /\ missed[k] <= Len(log')
                           /\ log'[missed[k]] \in saved'[id].sf
                           /\ \A j \in 1 .. k - 1 : missed[j] < missed[k]
      BY DEF MissedInOrder
    <3> DEFINE old == saved[id].missed
    <3>1. /\ saved[id] \in Client /\ old \in Seq(1 .. MaxPub)
      BY DEF ServerTypeOK, Client
    <3>2. \A i \in DOMAIN old :
            /\ old[i] \in 1 .. Len(log) /\ log'[old[i]] \in saved[id].sf
            /\ \A j \in 1 .. i - 1 : old[j] < old[i]
      <4>1. \A i \in DOMAIN old : old[i] \in 1 .. MaxPub
        <5>1. old \in Seq(1 .. MaxPub)
          BY <3>1
        <5> HIDE DEF old
        <5> QED BY <5>1, ElementType
      <4>2. \A i \in DOMAIN old :
              /\ old[i] <= Len(log) /\ log[old[i]] \in saved[id].sf
              /\ \A j \in 1 .. i - 1 : old[j] < old[i]
        BY DEF MissedInOrder
      <4> QED BY <1>2, <2>1, <4>1, <4>2, ConstantsAssumption
    <3>3. CASE saved'[id] = saved[id]
      <4>1. k \in DOMAIN old /\ saved'[id].missed = old /\ saved'[id].sf = saved[id].sf
        BY <3>3
      <4>2. old[k] <= Len(log')
        BY <1>2, <2>1, <3>2, <4>1
      <4> QED BY <3>2, <4>1, <4>2
    <3>4. CASE StoresFor(id, t) /\ saved'[id] = [saved[id] EXCEPT !.missed = Append(@, n)]
      <4>1. saved'[id].missed = Append(old, n) /\ saved'[id].sf = saved[id].sf
        BY <3>1, <3>4 DEF Client
      <4>2. /\ Len(old) \in Nat /\ DOMAIN old = 1 .. Len(old)
            /\ Len(Append(old, n)) = Len(old) + 1
            /\ DOMAIN Append(old, n) = 1 .. Len(old) + 1
            /\ Append(old, n)[Len(old) + 1] = n
            /\ \A i \in 1 .. Len(old) : Append(old, n)[i] = old[i]
        BY <1>2, <3>1, AppendProperties
      <4>3. t \in saved[id].sf
        BY <3>4 DEF StoresFor
      <4>4. CASE k \in 1 .. Len(old)
        <5>1. /\ Append(old, n)[k] = old[k]
              /\ \A j \in 1 .. k - 1 : Append(old, n)[j] = old[j]
          BY <4>2, <4>4
        <5>2. k \in DOMAIN old /\ old[k] <= Len(log')
          BY <1>2, <2>1, <3>2, <4>2, <4>4
        <5> QED BY <3>2, <4>1, <5>1, <5>2
      <4>5. CASE k = Len(old) + 1
        <5>1. Append(old, n)[k] = n
          BY <4>2, <4>5
        <5>2. \A j \in 1 .. k - 1 : Append(old, n)[j] = old[j] /\ j \in DOMAIN old
          BY <4>2, <4>5
        <5>3. \A j \in 1 .. k - 1 : old[j] < n
          BY <1>2, <3>2, <5>2
        <5> QED BY <1>2, <2>1, <4>1, <4>3, <5>1, <5>2, <5>3, SMTT(30)
      <4>6. k \in 1 .. Len(old) + 1
        BY <4>1, <4>2
      <4>7. k \in 1 .. Len(old) \/ k = Len(old) + 1
        <5> HIDE DEF old
        <5> QED BY <4>2, <4>6
      <4> QED BY <4>4, <4>5, <4>7
    <3> QED BY <3>3, <3>4
  <2>3. \A r \in Runs :
          Unread(r)' \/ link'[r] \in {"none", "cfin", "crst"}
            => /\ Unread(r) \/ link[r] \in {"none", "cfin", "crst"}
               /\ ~(r \in Held /\ link[r] = "open")
    BY <1>1 DEF Unread, Waiting, ConnectionsOK
  <2> QED BY <1>1, <1>2, <1>3, <1>4, <2>1, <2>2, <2>3, WrittenOrder
<1> QED BY <1>5, <1>6 DEF UdpMessage

LEMMA AcceptOrder ==
  ASSUME AllInv, Accept, UNCHANGED subscriberVars
  PROVE OrderInv'
<1> USE DEF AllInv, PromiseInv, OrderInv, IndInv, TypeOK
<1>1. srv = "running" /\ newFd = NoFd /\ TcpFd \in ready
  BY DEF Accept, Handling, IsLowest
<1>2. backlog # << >> /\ backlog \in Seq(Runs) /\ Head(backlog) \in Waiting
  <2>1. backlog # << >> /\ backlog \in Seq(Runs)
    BY <1>1 DEF SnapshotOK, TransportTypeOK
  <2>2. Head(backlog) = backlog[1] /\ 1 \in 1 .. Len(backlog)
    BY <2>1
  <2> QED BY <2>1, <2>2 DEF Waiting
<1>3. CASE Stop("EMFILE", NoOutput, {})
  <2>1. down' = Received([f \in ClientFds |-> << >>])
    BY <1>3 DEF Stop, ServerProcessEnds
  <2>2. [f \in ClientFds |-> << >>] = NoOutput
    BY DEF NoOutput
  <2>3. Len(log) + 1 \in Nat /\ Len(log) <= Len(log) + 1
    BY LogLength
  <2>4. \A r \in Runs : Ordered(Received(NoOutput)[r], last[r], Len(log) + 1)
    BY <1>1, <2>3, NoOutputType, NoOutputOrdered, WrittenOrdered
  <2> QED BY <1>1, <1>3, <2>1, <2>2, <2>4, StopOrder DEF Endings
<1>4. ASSUME NEW f \in ClientFds, IsLowest(f, FreeFds), newFd' = f,
             fd' = [fd EXCEPT ![Head(backlog)] = f], backlog' = Tail(backlog),
             UNCHANGED <<srv, log, saved, link, down>>
      PROVE OrderInv'
  <2>1. \A q \in Runs : fd[q] # f
    BY <1>4 DEF IsLowest, FreeFds, ClientFds, NoFd, TcpFd
  <2>2. Waiting' \subseteq Waiting
    BY <1>2, <1>4 DEF Waiting
  <2>3. \A q \in Runs : Unread(q)' => Unread(q)
    BY <1>2, <1>4, <2>1, <2>2 DEF Unread, TransportTypeOK
  <2> QED BY <1>4, <2>3, SilentOrder
<1> QED BY <1>3, <1>4 DEF Accept, memory

LEMMA NoIdOrder ==
  ASSUME AllInv, NEW r \in Runs, NoId(r), UNCHANGED subscriberVars
  PROVE OrderInv'
<1> USE DEF AllInv, PromiseInv, OrderInv
<1>1. /\ link[r] = "cfin" /\ IdRead /\ ServerCloses(r, 0)
      /\ UNCHANGED <<srv, log, saved, down, backlog>> /\ ReadingId(r)
  BY DEF NoId
<1>2. r \in Held /\ newFd' = NoFd
  BY <1>1, IdReadFacts
<1>3. /\ \A q \in Runs : q # r => link'[q] = link[q]
      /\ Waiting' = Waiting
  BY <1>1, <1>2, ServerClosesFacts
<1>4. \A q \in Runs : Unread(q)' => Unread(q)
  BY <1>2, <1>3 DEF Unread
<1> QED BY <1>1, <1>3, <1>4, SilentOrder

LEMMA RefuseIdOrder ==
  ASSUME AllInv, NEW r \in Runs, RefuseId(r), UNCHANGED subscriberVars
  PROVE OrderInv'
<1> DEFINE out == OutputTo(newFd, <<Opcode("EXIT")>>)
<1> USE DEF AllInv, PromiseInv, OrderInv
<1>1. /\ out \in Outputs /\ srv = "running" /\ ReadingId(r)
      /\ \A m : \A f \in ClientFds : Ordered(out[f], Len(log), m)
      /\ Len(log) \in Nat
  BY OpcodeOutputType, OpcodeOrdered, LogLength DEF RefuseId, ReadingId, Opcodes
<1>2. CASE StopInWrite(out)
  BY <1>1, <1>2, StopInWriteOrder
<1>3. CASE /\ down' = Received(out) /\ IdRead /\ ServerCloses(r, 1)
           /\ UNCHANGED <<srv, log, memory, backlog>>
  <2>1. r \in Held /\ newFd' = NoFd
    BY <1>1, <1>3, IdReadFacts
  <2>2. /\ \A q \in Runs : q # r => link'[q] = link[q]
        /\ Waiting' = Waiting /\ link' \in [Runs -> LinkStates]
    BY <1>3, <2>1, ServerClosesFacts
  <2>3. \A q \in Runs : Unread(q)' => Unread(q) /\ ~(q \in Held /\ link[q] = "open")
    BY <2>1, <2>2 DEF Unread, IndInv, ConnectionsOK
  <2>4. link'[r] \in {"none", "cfin", "crst"} => link[r] \in {"none", "cfin", "crst"}
    <3>1. link'[r] = AfterServerClose(r, Len(up[r]) > 1)
      BY <1>3 DEF ServerCloses, IndInv, TypeOK, TransportTypeOK
    <3> QED BY <3>1 DEF AfterServerClose, PeerGone
  <2>5. MissedInOrder'
    BY <1>3, MissedKept DEF memory
  <2>6. \A q \in Runs :
          Unread(q)' \/ link'[q] \in {"none", "cfin", "crst"}
            => /\ Unread(q) \/ link[q] \in {"none", "cfin", "crst"}
               /\ ~(q \in Held /\ link[q] = "open")
    BY <2>2, <2>3, <2>4
  <2>7. log' = log /\ srv' = srv
    BY <1>3
  <2> QED BY <1>1, <1>3, <2>5, <2>6, <2>7, WrittenOrder
<1> QED BY <1>2, <1>3 DEF RefuseId, Refused

LEMMA AnswerOrder ==
  ASSUME AllInv, UNCHANGED subscriberVars, NEW r \in Runs, NEW id \in Ids,
         HandlingClient(r, id), NEW o \in Opcodes, Answer(r, o)
  PROVE OrderInv'
<1> USE DEF AllInv, PromiseInv, OrderInv
<1>1. /\ Reply(r, o) \in Outputs /\ srv = "running" /\ newFd = NoFd
      /\ \A f \in ClientFds : Ordered(Reply(r, o)[f], Len(log), Len(log))
      /\ Len(log) \in Nat
  BY OpcodeOutputType, OpcodeOrdered, LogLength DEF HandlingClient, Handling, Reply
<1>2. /\ down' = Received(Reply(r, o))
      /\ UNCHANGED <<srv, log, newFd, saved, link, backlog, fd>>
  BY DEF Answer
<1>3. MissedInOrder'
  BY <1>2, MissedKept
<1>4. \A q \in Runs :
        Unread(q)' \/ link'[q] \in {"none", "cfin", "crst"}
          => /\ Unread(q) \/ link[q] \in {"none", "cfin", "crst"}
             /\ ~(q \in Held /\ link[q] = "open")
  BY <1>1, <1>2 DEF Unread, Waiting, IndInv, ConnectionsOK
<1>5. log' = log /\ srv' = srv
  BY <1>2
<1> QED BY <1>1, <1>2, <1>3, <1>4, <1>5, WrittenOrder

LEMMA RequestOrder ==
  ASSUME AllInv, UNCHANGED subscriberVars, NEW r \in Runs, NEW id \in Ids,
         Subscribe(r, id) \/ Unsubscribe(r, id)
  PROVE OrderInv'
<1>1. HandlingClient(r, id) /\ srv = "running"
  BY DEF Subscribe, Unsubscribe, HandlingClient, Handling
<1>2. ASSUME NEW o \in Opcodes, StopInWrite(Reply(r, o)) PROVE OrderInv'
  <2>1. Reply(r, o) \in Outputs
    BY OpcodeOutputType DEF Reply
  <2>2. \A f \in ClientFds : Ordered(Reply(r, o)[f], Len(log), Len(log) + 1)
    BY OpcodeOrdered DEF Reply
  <2> QED BY <1>1, <1>2, <2>1, <2>2, StopInWriteOrder
<1>3. \E o \in Opcodes : Answer(r, o) \/ StopInWrite(Reply(r, o))
  BY DEF Subscribe, Unsubscribe, Opcodes
<1> QED BY <1>1, <1>2, <1>3, AnswerOrder

LEMMA DisconnectOrder ==
  ASSUME AllInv, UNCHANGED subscriberVars, NEW r \in Runs, NEW id \in Ids,
         Disconnect(r, id)
  PROVE OrderInv'
<1> USE DEF AllInv, PromiseInv, OrderInv, subscriberVars
<1>1. /\ link[r] = "cfin" /\ newFd = NoFd /\ r \in Held /\ ServerCloses(r, 0)
      /\ UNCHANGED <<srv, log, newFd, down, backlog>>
  BY DEF Disconnect, HandlingClient, Handling, Held
<1>2. /\ \A q \in Runs : q # r => link'[q] = link[q] /\ fd'[q] = fd[q]
      /\ Waiting' = Waiting
  BY <1>1, ServerClosesFacts
<1>3. \A q \in Runs : Unread(q)' => Unread(q)
  BY <1>1, <1>2 DEF Unread
<1>4. QuietOK'
  BY <1>1, <1>2, <1>3 DEF QuietOK
<1>5. StreamsOK'
  BY <1>1 DEF StreamsOK, Newest, Ordered
<1>6. MissedInOrder'
  <2>1. \A i \in Ids : saved'[i] = saved[i] \/ saved'[i].missed = << >>
    BY DEF Disconnect, AbsentOK, IndInv, TypeOK, ServerTypeOK
  <2> QED BY <1>1, <2>1 DEF MissedInOrder
<1> QED BY <1>4, <1>5, <1>6

(* The frames of a hand-over go to the one connection whose ID was read, on *)
(* which nothing was sent before.                                           *)
LEMMA HandOver ==
  ASSUME AllInv, NEW r \in Runs, AdmitId(r)
  PROVE LET id == Head(up[r]).id
            out == OutputTo(newFd, MissedFrames(id))
        IN  /\ srv = "running" /\ up[r] # << >> /\ fd[r] = newFd /\ newFd # NoFd
            /\ r \in Held /\ newFd \in ClientFds /\ Unread(r)
            /\ \A q \in Held : q # r => fd[q] # newFd
            /\ id \in Ids /\ saved[id].missed \in Seq(1 .. MaxPub)
            /\ Len(log) \in Nat /\ down[r] = << >> /\ last[r] = 0
            /\ \A q \in Runs : q # r => Received(out)[q] = down[q]
            /\ Received(out)[r] = IF link[r] = "open" THEN MissedFrames(id) ELSE << >>
<1> DEFINE id == Head(up[r]).id
           missed == saved[id].missed
           out == OutputTo(newFd, MissedFrames(id))
<1> USE DEF AllInv, PromiseInv, OrderInv
<1>1. /\ srv = "running" /\ ReadingId(r) /\ up[r] # << >> /\ fd[r] = newFd
      /\ newFd # NoFd
  BY DEF AdmitId, ReadingId
<1>2. /\ r \in Held /\ newFd \in ClientFds /\ Unread(r)
      /\ \A q \in Held : q # r => fd[q] # newFd
  BY <1>1 DEF ReadingId, Held, Unread, IndInv, TypeOK, ServerTypeOK, FdAccounting
<1>3. id \in Ids
  <2>1. Head(up[r]) \in UpFrame
    BY <1>1 DEF IndInv, TypeOK, TransportTypeOK
  <2>2. Head(up[r]).type = "ID"
    BY <1>1, <1>2 DEF IndInv, GreetingOK
  <2> QED BY <2>1, <2>2 DEF UpFrame, Request
<1>4. /\ missed \in Seq(1 .. MaxPub) /\ Len(log) \in Nat
      /\ down[r] = << >> /\ last[r] = 0
  BY <1>2, <1>3, LogLength DEF IndInv, TypeOK, ServerTypeOK, Client, QuietOK
<1>5. \A q \in Runs : q # r => Received(out)[q] = down[q]
  <2>1. ASSUME NEW q \in Held, q # r PROVE out[fd[q]] = << >>
    BY <1>2, <2>1 DEF OutputTo, NoOutput, Held, IndInv, TypeOK, TransportTypeOK
  <2>2. ASSUME NEW q \in Held PROVE down[q] \o << >> = down[q]
    BY ConcatEmptySeq DEF Held, IndInv, TypeOK, TransportTypeOK
  <2> QED BY <2>1, <2>2 DEF Received
<1>6. Received(out)[r] = IF link[r] = "open" THEN MissedFrames(id) ELSE << >>
  <2>1. out[fd[r]] = MissedFrames(id)
    BY <1>1, <1>2 DEF OutputTo, NoOutput
  <2>2. MissedFrames(id) \in Seq(DownFrame)
    <3>1. \A k \in DOMAIN missed : Data(missed[k]) \in DownFrame
      <4>1. missed \in Seq(1 .. MaxPub)
        BY <1>4
      <4> HIDE DEF missed
      <4> QED BY <4>1, ElementType, ConstantsAssumption, FrameTypes
    <3>2. Len(missed) \in Nat /\ DOMAIN missed = 1 .. Len(missed)
      BY <1>4
    <3>3. MissedFrames(id) = [k \in 1 .. Len(missed) |-> Data(missed[k])]
      BY <3>2 DEF MissedFrames
    <3> HIDE DEF missed
    <3> QED BY <3>1, <3>2, <3>3
  <2>3. << >> \o MissedFrames(id) = MissedFrames(id)
    BY <2>2, ConcatEmptySeq
  <2> QED BY <1>2, <1>4, <2>1, <2>3 DEF Received
<1> QED BY <1>1, <1>2, <1>3, <1>4, <1>5, <1>6

(* What was stored is handed over in the order it was stored in, to a       *)
(* connection on which nothing was sent before.                             *)
LEMMA AdmitIdOrder ==
  ASSUME AllInv, NEW r \in Runs, AdmitId(r), UNCHANGED subscriberVars
  PROVE OrderInv'
<1> DEFINE id == Head(up[r]).id
           missed == saved[id].missed
           out == OutputTo(newFd, MissedFrames(id))
<1> USE DEF AllInv, PromiseInv, OrderInv
<1>1. /\ srv = "running" /\ fd[r] = newFd /\ newFd # NoFd
      /\ r \in Held /\ newFd \in ClientFds /\ Unread(r)
      /\ \A q \in Held : q # r => fd[q] # newFd
      /\ id \in Ids /\ missed \in Seq(1 .. MaxPub)
      /\ Len(log) \in Nat /\ down[r] = << >> /\ last[r] = 0
      /\ \A q \in Runs : q # r => Received(out)[q] = down[q]
      /\ Received(out)[r] = IF link[r] = "open" THEN MissedFrames(id) ELSE << >>
  BY HandOver
<1>2. Ordered(MissedFrames(id), 0, Len(log))
  <2>1. \A k \in DOMAIN missed : missed[k] \in Nat
    <3>1. \A k \in DOMAIN missed : missed[k] \in 1 .. MaxPub
      <4>1. missed \in Seq(1 .. MaxPub)
        BY <1>1
      <4> HIDE DEF missed
      <4> QED BY <4>1, ElementType
    <3> QED BY <3>1, ConstantsAssumption
  <2>2. \A k \in DOMAIN missed : /\ missed[k] <= Len(log)
                                 /\ \A j \in 1 .. k - 1 : missed[j] < missed[k]
    BY <1>1 DEF MissedInOrder
  <2>3. Len(missed) \in Nat /\ DOMAIN missed = 1 .. Len(missed)
    BY <1>1
  <2>4. \A k \in 1 .. Len(missed) : \A j \in 1 .. k - 1 : missed[j] <= missed[k]
    <3> HIDE DEF missed, id
    <3> QED BY <2>1, <2>2, <2>3
  <2>5. \A k \in DOMAIN missed : /\ MissedFrames(id)[k] = Data(missed[k])
                                 /\ IsData(Data(missed[k])) /\ Data(missed[k]).seq = missed[k]
    BY FrameKinds DEF MissedFrames
  <2>6. DOMAIN MissedFrames(id) = DOMAIN missed
    BY DEF MissedFrames
  <2> HIDE DEF missed, id
  <2> QED BY <2>1, <2>2, <2>3, <2>4, <2>5, <2>6 DEF Ordered
<1>3. CASE StopInWrite(out)
  <2>1. PICK error \in {"EBADF", "EPIPE"}, done \in SUBSET ClientFds :
          Stop(error, out, done) /\ WriteError(out, error)
    BY <1>3 DEF StopInWrite
  <2>2. link[r] # "open"
    <3>1. \A f \in ClientFds : out[f] # << >> => f = newFd
      BY DEF OutputTo, NoOutput
    <3>2. newFd \notin FreeFds /\ newFd \notin leaked
      BY <1>1 DEF FreeFds, IndInv, FdAccounting
    <3>3. \E q \in Runs : fd[q] = newFd /\ PeerGone(q)
      BY <2>1, <3>1, <3>2 DEF WriteError
    <3>4. PeerGone(r)
      BY <1>1, <3>3 DEF Held, ClientFds, NoFd, TcpFd
    <3> QED BY <3>4 DEF PeerGone
  <2>3. \A q \in Runs : down'[q] = down[q]
    <3>1. ASSUME NEW q \in Held, q # r
          PROVE [f \in ClientFds |-> IF f \in done THEN out[f] ELSE << >>][fd[q]] = << >>
      BY <1>1, <3>1 DEF OutputTo, NoOutput, Held, IndInv, TypeOK, TransportTypeOK
    <3>2. ASSUME NEW q \in Held PROVE down[q] \o << >> = down[q]
      BY ConcatEmptySeq DEF Held, IndInv, TypeOK, TransportTypeOK
    <3> QED BY <2>1, <2>2, <3>1, <3>2 DEF Stop, ServerProcessEnds, Received
  <2>4. ASSUME NEW q \in Runs PROVE Ordered(down'[q], last[q], Len(log) + 1)
    <3>1. /\ last[q] \in Nat /\ down[q] \in Seq(DownFrame)
          /\ Ordered(down[q], last[q], Len(log))
      BY <1>1, StreamTypes DEF StreamsOK, Newest
    <3>2. Ordered(down[q], last[q], Len(log) + 1)
      BY <1>1, <3>1, WeakerOrdered
    <3> QED BY <2>3, <3>2
  <2> QED BY <1>1, <2>1, <2>4, StopOrder DEF Endings
<1>4. CASE /\ down' = Received(out) /\ IdRead /\ Joins(id, newFd)
           /\ UNCHANGED <<srv, log, link, backlog, fd>>
  <2>1. MissedInOrder'
    <3>1. \A i \in Ids : saved'[i] = saved[i] \/ saved'[i].missed = << >>
      BY <1>4 DEF Joins, NoClient, IndInv, TypeOK, ServerTypeOK
    <3> QED BY <1>4, <3>1 DEF MissedInOrder
  <2>2. QuietOK'
    <3>1. \A q \in Runs : Unread(q)' => Unread(q) /\ q # r
      BY <1>1, <1>4 DEF Unread, Waiting, IdRead, IndInv, ConnectionsOK
    <3>2. link[r] # "open" => down'[r] = << >>
      BY <1>1, <1>4
    <3> QED BY <1>1, <1>4, <3>1, <3>2 DEF QuietOK, subscriberVars
  <2>3. StreamsOK'
    <3> SUFFICES ASSUME NEW q \in Runs
                 PROVE last[q] <= Newest /\ Ordered(down'[q], last[q], Newest)
      BY <1>4 DEF StreamsOK, Newest, Ordered, subscriberVars
    <3>1. CASE q = r
      <4>1. Newest = Len(log) /\ last[r] = 0 /\ last[r] <= Newest
        BY <1>1 DEF Newest
      <4>2. Ordered(down'[r], 0, Len(log))
        BY <1>2, <1>1, <1>4, NothingOrdered
      <4> QED BY <3>1, <4>1, <4>2
    <3>2. CASE q # r
      BY <1>1, <1>4, <3>2 DEF StreamsOK
    <3> QED BY <3>1, <3>2
  <2> QED BY <2>1, <2>2, <2>3
<1> QED BY <1>3, <1>4 DEF AdmitId

LEMMA OrderInit == Init => OrderInv
BY ConstantsAssumption
   DEF Init, TransportInit, ServerInit, SubscriberInit, OrderInv, MissedInOrder, NoClient,
       QuietOK, StreamsOK, Newest, Ordered

LEMMA OrderNext == AllInv /\ [Next]_vars => OrderInv'
<1> SUFFICES ASSUME AllInv, [Next]_vars PROVE OrderInv'
  OBVIOUS
<1> USE DEF AllInv, PromiseInv
<1>1. ASSUME UNCHANGED <<srv, log, saved, newFd, subscriberVars, transportVars>>
      PROVE OrderInv'
  <2>1. \A r \in Runs : Unread(r)' = Unread(r)
    BY <1>1 DEF Unread, Waiting, transportVars
  <2> QED BY <1>1, <2>1, SilentOrder DEF transportVars
<1>2. CASE ServerStep
  <2> USE <1>2 DEF ServerStep
  <2>1. CASE Select
    BY <1>1, <2>1 DEF Select, memory
  <2>2. ASSUME NEW r \in Runs, RecvReset(r) PROVE OrderInv'
    <3>1. srv = "running" /\ Stop("ECONNRESET", NoOutput, {})
      BY <2>2 DEF RecvReset, Handling
    <3>2. \A q \in Runs : Ordered(down'[q], last[q], Len(log) + 1)
      <4>1. down' = Received(NoOutput)
        BY <3>1 DEF Stop, ServerProcessEnds, NoOutput
      <4>2. Len(log) \in Nat /\ Len(log) + 1 \in Nat /\ Len(log) <= Len(log) + 1
        BY LogLength
      <4> QED BY <3>1, <4>1, <4>2, NoOutputType, NoOutputOrdered, WrittenOrdered
    <3> QED BY <3>1, <3>2, StopOrder DEF Endings
  <2> QED BY <2>1, <2>2, UdpMessageOrder, AcceptOrder, NoIdOrder, RefuseIdOrder,
             AdmitIdOrder, RequestOrder, DisconnectOrder
<1>3. CASE ServerInput
  <2>1. ASSUME NEW t \in Topics, Publish(t) PROVE OrderInv'
    BY <1>1, <1>3, <2>1 DEF Publish, memory, ServerInput
  <2>2. CASE CloseAll
    <3>1. ExitFrames \in Outputs
      BY FrameTypes DEF ExitFrames, Outputs, Opcodes
    <3>2. \A m : \A f \in ClientFds : Ordered(ExitFrames[f], Len(log), m)
      BY FrameKinds DEF ExitFrames, Opcodes, Ordered
    <3>3. Len(log) \in Nat /\ Len(log) + 1 \in Nat /\ Len(log) <= Len(log) + 1
      BY LogLength
    <3>4. srv = "running"
      BY <2>2 DEF CloseAll, AtSelect
    <3>5. CASE Stop("exited", ExitFrames, ClientFds)
      <4>1. [f \in ClientFds |-> IF f \in ClientFds THEN ExitFrames[f] ELSE << >>] = ExitFrames
        BY DEF ExitFrames
      <4>2. down' = Received(ExitFrames)
        BY <3>5, <4>1 DEF Stop, ServerProcessEnds
      <4>3. \A q \in Runs : Ordered(down'[q], last[q], Len(log) + 1)
        BY <3>1, <3>2, <3>3, <3>4, <4>2, WrittenOrdered
      <4> QED BY <1>3, <3>4, <3>5, <4>3, StopOrder DEF Endings, ServerInput
    <3>6. CASE StopInWrite(ExitFrames)
      BY <1>3, <3>1, <3>2, <3>4, <3>6, StopInWriteOrder DEF ServerInput
    <3> QED BY <2>2, <3>5, <3>6 DEF CloseAll
  <2> QED BY <1>3, <2>1, <2>2 DEF ServerInput
<1>4. ASSUME NEW r \in Runs, Greets(r) PROVE OrderInv'
  BY <1>4, SendOrder DEF Greets, SendId, ClientSends
<1>5. ASSUME NEW r \in Runs, Reads(r) PROVE OrderInv'
  <2>1. CASE DisplayEndOfStream(r)
    BY <1>5, <2>1, SendOrder DEF Reads, DisplayEndOfStream, transportVars
  <2> QED BY <1>5, <2>1, ReadOrder, EndsOrder DEF Reads, ReadExit, ServerReset
<1>6. ASSUME NEW r \in Runs, SubscriberInput(r) PROVE OrderInv'
  <2>1. ASSUME NEW m \in Request, SendRequest(r, m) PROVE OrderInv'
    BY <1>6, <2>1, SendOrder DEF SubscriberInput, SendRequest, ClientSends
  <2> QED BY <1>6, <2>1, ConnectOrder, EndsOrder DEF SubscriberInput, Quit
<1>7. CASE UNCHANGED vars
  BY <1>1, <1>7 DEF vars, serverVars, memory
<1> QED BY <1>2, <1>3, <1>4, <1>5, <1>6, <1>7 DEF Next

THEOREM OrderInductive == Spec => [](PromiseInv /\ OrderInv)
<1>1. (PromiseInv /\ OrderInv) /\ PromiseInv' /\ [Next]_vars => OrderInv'
  BY OrderNext DEF AllInv
<1> QED BY <1>1, OrderInit, Inductive, NothingLeftOver, PTL DEF Spec, PromiseInv

(* No connection ever carries an older message behind a newer one, or one   *)
(* older than its subscriber has displayed.                                 *)
THEOREM StreamsAlwaysInOrder == Spec => []StreamInOrder
<1>1. OrderInv => StreamInOrder
  BY DEF OrderInv, StreamsOK, Ordered, StreamInOrder
<1> QED BY <1>1, OrderInductive, PTL

(* A queue holds what its client asked for, each message once, in order.    *)
THEOREM QueuesAlwaysInOrder == Spec => []MissedInOrder
<1>1. OrderInv => MissedInOrder
  BY DEF OrderInv
<1> QED BY <1>1, OrderInductive, PTL

-----------------------------------------------------------------------------
(* The hand-over. *)

(* A queue that goes, other than with the server, goes to its client.       *)
LEMMA AdmitHandsOver ==
  ASSUME AllInv, NEW r \in Runs, AdmitId(r), srv' = "running",
         NEW id \in Ids, IsSaved(id), ~IsSaved(id)'
  PROVE \E q \in Held :
          /\ connected'[id].sock = fd[q]
          /\ link[q] = "open" =>
               /\ Len(down'[q]) = Len(saved[id].missed)
               /\ \A k \in DOMAIN saved[id].missed :
                    down'[q][k] = Data(saved[id].missed[k])
<1> DEFINE missed == saved[id].missed
<1> USE DEF AllInv, PromiseInv
<1>1. /\ fd[r] = newFd /\ r \in Held /\ Head(up[r]).id \in Ids
      /\ saved[Head(up[r]).id].missed \in Seq(1 .. MaxPub)
      /\ Received(OutputTo(newFd, MissedFrames(Head(up[r]).id)))[r]
           = IF link[r] = "open" THEN MissedFrames(Head(up[r]).id) ELSE << >>
  BY HandOver
<1>2. /\ down' = Received(OutputTo(newFd, MissedFrames(Head(up[r]).id)))
      /\ Joins(Head(up[r]).id, newFd)
  BY DEF AdmitId, StopInWrite, Stop
<1>3. Head(up[r]).id = id
  BY <1>1, <1>2 DEF Joins, IsSaved, IndInv, TypeOK, ServerTypeOK
<1>4. connected'[id].sock = fd[r]
  BY <1>1, <1>2, <1>3 DEF Joins, IndInv, TypeOK, ServerTypeOK
<1>5. ASSUME link[r] = "open"
      PROVE /\ Len(down'[r]) = Len(missed)
            /\ \A k \in DOMAIN missed : down'[r][k] = Data(missed[k])
  <2>1. down'[r] = [k \in DOMAIN missed |-> Data(missed[k])]
    BY <1>1, <1>2, <1>3, <1>5 DEF MissedFrames
  <2>2. Len(missed) \in Nat /\ DOMAIN missed = 1 .. Len(missed)
    BY <1>1, <1>3
  <2> HIDE DEF missed
  <2> QED BY <2>1, <2>2
<1> QED BY <1>1, <1>4, <1>5

(* Nothing else empties a queue: a publication puts messages on it, and a   *)
(* departure makes a new one.                                               *)
LEMMA OnlyAdmitIdTakes ==
  ASSUME AllInv, Next, srv' = "running", NEW id \in Ids, IsSaved(id), ~IsSaved(id)'
  PROVE \E r \in Runs : AdmitId(r)
<1> USE DEF AllInv, PromiseInv
<1>1. \A ending, out, done : ~(ending \in Endings /\ Stop(ending, out, done))
  BY DEF Stop, Endings
<1>2. \A out : ~StopInWrite(out)
  BY <1>1 DEF StopInWrite, Endings
<1>3. saved' # saved
  BY DEF IsSaved
<1>4. ~UdpMessage
  <2>1. ASSUME UdpMessage PROVE saved'[id].sock = saved[id].sock
    BY <1>2, <2>1 DEF UdpMessage, IndInv, TypeOK, ServerTypeOK, Client
  <2> QED BY <2>1 DEF IsSaved
<1>5. ~Accept
  BY <1>1, <1>3 DEF Accept, Endings, memory
<1>6. \A r \in Runs : ~NoId(r) /\ ~RefuseId(r) /\ ~RecvReset(r)
  BY <1>1, <1>2, <1>3 DEF NoId, RefuseId, RecvReset, Endings, memory
<1>7. \A r \in Runs, i \in Ids : ~Subscribe(r, i) /\ ~Unsubscribe(r, i)
  BY <1>2, <1>3 DEF Subscribe, Unsubscribe, Answer
<1>8. \A r \in Runs, i \in Ids : ~Disconnect(r, i)
  BY DEF Disconnect, IsSaved, IsConnected, HandlingClient, IndInv, TypeOK, ServerTypeOK
<1>9. ~Select /\ ~ServerInput
  BY <1>1, <1>2, <1>3 DEF Select, ServerInput, CloseAll, Publish, Endings, memory
<1>10. \A r \in Runs : ~Greets(r) /\ ~Reads(r) /\ ~SubscriberInput(r)
  BY <1>3 DEF Greets, Reads, SubscriberInput, serverVars, memory
<1> QED BY <1>4, <1>5, <1>6, <1>7, <1>8, <1>9, <1>10 DEF Next, ServerStep

(* The messages stored for a client leave the server whole, in order, and   *)
(* before any other frame on the connection on which its ID comes back.     *)
THEOREM QueuesAreHandedOver == Spec => MissedHandedOver
<1>1. AllInv /\ [Next]_vars =>
        [\A id \in Ids : IsSaved(id) /\ ~IsSaved(id)' /\ srv' = "running" =>
           \E r \in Held :
             /\ connected'[id].sock = fd[r]
             /\ link[r] = "open" =>
                  /\ Len(down'[r]) = Len(saved[id].missed)
                  /\ \A k \in DOMAIN saved[id].missed :
                       down'[r][k] = Data(saved[id].missed[k])]_vars
  BY AdmitHandsOver, OnlyAdmitIdTakes
<1>2. PromiseInv /\ OrderInv => AllInv
  BY DEF AllInv
<1> QED BY <1>1, <1>2, OrderInductive, PTL DEF Spec, MissedHandedOver

-----------------------------------------------------------------------------
(* Counting frames. *)

LEMMA CountType ==
  ASSUME NEW T, NEW s \in Seq(T), NEW frames
  PROVE /\ IsFiniteSet({k \in DOMAIN s : s[k] \in frames})
        /\ Count(s, frames) \in Nat
<1>1. DOMAIN s = 1 .. Len(s) /\ Len(s) \in Nat
  BY LenProperties
<1>2. IsFiniteSet(1 .. Len(s))
  BY <1>1, FS_Interval
<1>3. IsFiniteSet({k \in DOMAIN s : s[k] \in frames})
  BY <1>1, <1>2, FS_Subset
<1> QED BY <1>3, FS_CardinalityType DEF Count

LEMMA CountNone ==
  ASSUME NEW s, NEW frames, \A k \in DOMAIN s : s[k] \notin frames
  PROVE Count(s, frames) = 0
<1>1. {k \in DOMAIN s : s[k] \in frames} = {}
  OBVIOUS
<1> QED BY <1>1, FS_EmptySet DEF Count

LEMMA CountOne ==
  ASSUME NEW x, NEW frames
  PROVE Count(<<x>>, frames) = IF x \in frames THEN 1 ELSE 0
<1>1. CASE x \in frames
  <2>1. {k \in DOMAIN <<x>> : <<x>>[k] \in frames} = {1}
    BY <1>1
  <2> QED BY <1>1, <2>1, FS_Singleton DEF Count
<1>2. CASE x \notin frames
  BY <1>2, CountNone
<1> QED BY <1>1, <1>2

LEMMA CountConcat ==
  ASSUME NEW T, NEW s \in Seq(T), NEW more \in Seq(T), NEW frames
  PROVE Count(s \o more, frames) = Count(s, frames) + Count(more, frames)
<1> DEFINE all == s \o more
           A == {k \in DOMAIN s : s[k] \in frames}
           B == {k \in DOMAIN more : more[k] \in frames}
           C == {k \in DOMAIN all : all[k] \in frames}
           D == {k \in Len(s) + 1 .. Len(s) + Len(more) : more[k - Len(s)] \in frames}
<1>1. /\ Len(s) \in Nat /\ Len(more) \in Nat
      /\ DOMAIN s = 1 .. Len(s) /\ DOMAIN more = 1 .. Len(more)
  BY LenProperties
<1>2. /\ DOMAIN all = 1 .. Len(s) + Len(more)
      /\ \A i \in 1 .. Len(s) + Len(more) :
           all[i] = IF i <= Len(s) THEN s[i] ELSE more[i - Len(s)]
  <2>1. /\ all \in Seq(T) /\ Len(all) = Len(s) + Len(more)
        /\ \A i \in 1 .. Len(s) + Len(more) :
             all[i] = IF i <= Len(s) THEN s[i] ELSE more[i - Len(s)]
    BY ConcatProperties, Zenon
  <2> QED BY <2>1, LenProperties
<1> HIDE DEF all
<1>3. C = A \cup D /\ A \cap D = {}
  BY <1>1, <1>2
<1>4. IsFiniteSet(A) /\ IsFiniteSet(B) /\ Cardinality(A) \in Nat /\ Cardinality(B) \in Nat
  BY CountType DEF Count
<1>5. IsFiniteSet(D) /\ Cardinality(D) = Cardinality(B)
  <2> DEFINE shift == [k \in B |-> k + Len(s)]
  <2>1. shift \in [B -> D]
    BY <1>1
  <2>2. \A j, k \in B : shift[j] = shift[k] => j = k
    BY <1>1
  <2>3. \A d \in D : \E k \in B : shift[k] = d
    <3> SUFFICES ASSUME NEW d \in D PROVE d - Len(s) \in B /\ shift[d - Len(s)] = d
      OBVIOUS
    <3> QED BY <1>1
  <2>4. shift \in Bijection(B, D)
    <3> HIDE DEF shift, B, D
    <3> QED BY <2>1, <2>2, <2>3, Fun_IsBij
  <2> QED BY <1>4, <2>4, FS_Bijection DEF ExistsBijection
<1>6. Cardinality(C) = Cardinality(A) + Cardinality(D)
  <2>1. Cardinality(A \cap D) = 0
    BY <1>3, FS_EmptySet
  <2> HIDE DEF A, B, C, D
  <2>2. Cardinality(A \cup D) = Cardinality(A) + Cardinality(D) - Cardinality(A \cap D)
    BY <1>4, <1>5, FS_Union
  <2> QED BY <1>3, <1>4, <1>5, <2>1, <2>2
<1> QED BY <1>5, <1>6 DEF Count, all

LEMMA CountAppend ==
  ASSUME NEW T, NEW s \in Seq(T), NEW x \in T, NEW frames
  PROVE Count(Append(s, x), frames)
          = IF x \in frames THEN Count(s, frames) + 1 ELSE Count(s, frames)
<1> DEFINE one == <<x>>
<1>1. Append(s, x) = s \o one /\ one \in Seq(T)
  OBVIOUS
<1>2. Count(one, frames) = IF x \in frames THEN 1 ELSE 0
  BY CountOne
<1> HIDE DEF one
<1>3. Count(s \o one, frames) = Count(s, frames) + Count(one, frames)
  BY <1>1, CountConcat
<1>4. Count(s, frames) \in Nat
  BY CountType
<1> QED BY <1>1, <1>2, <1>3, <1>4

LEMMA CountTail ==
  ASSUME NEW T, NEW s \in Seq(T), s # << >>, NEW frames
  PROVE Count(s, frames)
          = IF Head(s) \in frames THEN Count(Tail(s), frames) + 1 ELSE Count(Tail(s), frames)
<1> DEFINE one == <<Head(s)>>
           rest == Tail(s)
<1>1. rest \in Seq(T) /\ one \in Seq(T)
  BY HeadTailProperties
<1>2. s = one \o rest
  OBVIOUS
<1>3. Count(one, frames) = IF Head(s) \in frames THEN 1 ELSE 0
  BY CountOne
<1> HIDE DEF one, rest
<1>4. Count(one \o rest, frames) = Count(one, frames) + Count(rest, frames)
  BY <1>1, CountConcat
<1>5. Count(rest, frames) \in Nat
  BY <1>1, CountType
<1>6. Count(s, frames) = Count(one, frames) + Count(rest, frames)
  BY <1>2, <1>4
<1> QED BY <1>3, <1>5, <1>6 DEF rest

-----------------------------------------------------------------------------
(* One answer for each request. *)

(* OneReplyPerRequest, and that who has closed waits for nothing: the next  *)
(* connection of the run starts from there.                                 *)
Settled == {"none", "cfin", "crst"}

RepliesOK ==
  \A r \in Runs :
    /\ link[r] \in Settled => pending[r] = 0
    /\ link[r] = "open" => pending[r] = Count(up[r], Request) + Count(down[r], Answers)

LEMMA AnswerKinds ==
  /\ \A o \in Opcodes \ {"EXIT"} : Opcode(o) \in Answers
  /\ Opcode("EXIT") \notin Answers
  /\ \A n : Data(n) \notin Answers
  /\ \A m \in DownFrame : m \in Answers <=> m.op \in Opcodes \ {"EXIT"}
BY ConstantsAssumption DEF Opcode, Opcodes, Data, Answers, DownFrame

LEMMA RequestKinds == \A m \in UpFrame : m \in Request <=> m.type # "ID"
BY DEF UpFrame, Request

(* A step of a subscriber is about its own connection.                      *)
LEMMA OwnReplies ==
  ASSUME RepliesOK, NEW r \in Runs,
         \A q \in Runs : q # r => /\ link'[q] = link[q] /\ up'[q] = up[q]
                                  /\ down'[q] = down[q] /\ pending'[q] = pending[q],
         link'[r] \in Settled => pending'[r] = 0,
         link'[r] = "open" =>
           pending'[r] = Count(up'[r], Request) + Count(down'[r], Answers)
  PROVE RepliesOK'
BY DEF RepliesOK, Settled

(* A step of the server takes a request for each answer.                    *)
LEMMA BalancedReplies ==
  ASSUME RepliesOK, pending' = pending,
         \A r \in Runs :
           /\ link'[r] \in Settled => link[r] \in Settled
           /\ link'[r] = "open" =>
                /\ link[r] = "open"
                /\ Count(up'[r], Request) + Count(down'[r], Answers)
                     = Count(up[r], Request) + Count(down[r], Answers)
  PROVE RepliesOK'
BY DEF RepliesOK, Settled

LEMMA ReceivedCount ==
  ASSUME IndInv, NEW out \in Outputs, NEW r \in Runs
  PROVE Count(Received(out)[r], Answers) =
          IF r \in Held /\ link[r] = "open"
          THEN Count(down[r], Answers) + Count(out[fd[r]], Answers)
          ELSE Count(down[r], Answers)
<1>1. CASE r \in Held /\ link[r] = "open"
  <2>1. down[r] \in Seq(DownFrame) /\ out[fd[r]] \in Seq(DownFrame)
    BY <1>1 DEF IndInv, TypeOK, TransportTypeOK, Held, Outputs
  <2>2. Received(out)[r] = down[r] \o out[fd[r]]
    BY <1>1 DEF Received
  <2> QED BY <1>1, <2>1, <2>2, CountConcat
<1>2. CASE ~(r \in Held /\ link[r] = "open")
  BY <1>2, NotReceived
<1> QED BY <1>1, <1>2

(* A handler that answers nobody and takes no request.                      *)
LEMMA SilentReplies ==
  ASSUME IndInv, RepliesOK, pending' = pending, NEW out \in Outputs,
         \A f \in ClientFds : Count(out[f], Answers) = 0,
         \A r \in Runs :
           /\ link'[r] \in Settled => link[r] \in Settled
           /\ link'[r] = "open" =>
                /\ link[r] = "open" /\ Count(up'[r], Request) = Count(up[r], Request)
                /\ down'[r] = down[r] \/ down'[r] = Received(out)[r]
  PROVE RepliesOK'
<1> SUFFICES ASSUME NEW r \in Runs, link'[r] = "open"
             PROVE Count(down'[r], Answers) = Count(down[r], Answers)
  BY BalancedReplies
<1>1. CASE down'[r] = Received(out)[r]
  <2>1. r \in Held => Count(out[fd[r]], Answers) = 0
    BY DEF Held, IndInv, TypeOK, TransportTypeOK
  <2>2. Count(down[r], Answers) \in Nat
    BY CountType DEF IndInv, TypeOK, TransportTypeOK
  <2> QED BY <1>1, <2>1, <2>2, ReceivedCount
<1> QED BY <1>1

LEMMA NothingCounted == Count(<< >>, Answers) = 0 /\ Count(<< >>, Request) = 0
BY CountNone

LEMMA NoOutputCount == \A f \in ClientFds : Count(NoOutput[f], Answers) = 0
BY NothingCounted DEF NoOutput

LEMMA StopReplies ==
  ASSUME IndInv, RepliesOK, UNCHANGED subscriberVars, NEW ending, NEW out, NEW done,
         Stop(ending, out, done)
  PROVE RepliesOK'
<1> USE DEF Stop, ServerProcessEnds
<1>1. ASSUME NEW r \in Runs, link'[r] \in Settled PROVE link[r] \in Settled
  BY <1>1 DEF AfterServerClose, PeerGone, Settled
<1>2. ASSUME NEW r \in Runs, link'[r] = "open"
      PROVE link[r] = "open" /\ up'[r] = up[r] /\ down'[r] = down[r]
  <2>1. r \notin Held /\ r \notin Waiting
    BY <1>2 DEF AfterServerClose
  <2> QED BY <1>2, <2>1 DEF Received
<1> QED BY <1>1, <1>2, BalancedReplies DEF subscriberVars

LEMMA EndsReplies ==
  ASSUME IndInv, RepliesOK, NEW r \in Runs, Ends(r)
  PROVE RepliesOK'
<1>1. /\ link' = [link EXCEPT ![r] = link'[r]] /\ link'[r] \in Settled
      /\ up' = [up EXCEPT ![r] = up'[r]]
      /\ down' = [down EXCEPT ![r] = << >>]
      /\ pending' = [pending EXCEPT ![r] = 0] /\ pending'[r] = 0
  BY DEF Ends, ClientCloses, Settled, IndInv, TypeOK, TransportTypeOK, SubscriberTypeOK
<1>2. \A q \in Runs : q # r => /\ link'[q] = link[q] /\ up'[q] = up[q]
                               /\ down'[q] = down[q] /\ pending'[q] = pending[q]
  BY <1>1 DEF IndInv, TypeOK, TransportTypeOK, SubscriberTypeOK
<1> QED BY <1>1, <1>2, OwnReplies DEF Settled

LEMMA ConnectReplies ==
  ASSUME AllInv, RepliesOK, NEW r \in Runs, Connect(r)
  PROVE RepliesOK'
<1> USE DEF AllInv, PromiseInv, OrderInv, Connect, ClientConnects
<1>1. up'[r] = << >> /\ down'[r] = << >> /\ pending'[r] = 0
  BY DEF IndInv, ConnectionsOK, QuietOK, RepliesOK, Settled
<1>2. link'[r] = "open" /\ \A q \in Runs : q # r => link'[q] = link[q]
  BY DEF IndInv, TypeOK, TransportTypeOK
<1>3. UNCHANGED <<up, down, pending>>
  OBVIOUS
<1> HIDE DEF AllInv, PromiseInv, OrderInv, Connect, ClientConnects
<1> QED BY <1>1, <1>2, <1>3, NothingCounted, OwnReplies DEF Settled

LEMMA SendReplies ==
  ASSUME IndInv, RepliesOK, NEW r \in Runs,
         \/ \E id \in Ids : SendId(r, id)
         \/ \E m \in Request : SendRequest(r, m)
  PROVE RepliesOK'
<1> USE DEF IndInv, TypeOK, TransportTypeOK, SubscriberTypeOK
<1>1. PICK m \in UpFrame :
        /\ ClientSends(r, m)
        /\ \/ m \notin Request /\ pending' = pending
           \/ m \in Request /\ pending' = [pending EXCEPT ![r] = @ + 1]
  <2>1. \A id \in Ids : /\ [type |-> "ID", id |-> id] \in UpFrame
                        /\ [type |-> "ID", id |-> id] \notin Request
    BY RequestKinds DEF UpFrame
  <2>2. Request \subseteq UpFrame
    BY DEF UpFrame
  <2> QED BY <2>1, <2>2 DEF SendId, SendRequest
<1>2. /\ link[r] = "open" /\ UNCHANGED <<link, down>>
      /\ up'[r] = Append(up[r], m) /\ up[r] \in Seq(UpFrame)
      /\ \A q \in Runs : q # r => up'[q] = up[q] /\ pending'[q] = pending[q]
  BY <1>1 DEF ClientSends
<1>3. Count(up'[r], Request) = IF m \in Request THEN Count(up[r], Request) + 1
                                               ELSE Count(up[r], Request)
  BY <1>2, CountAppend
<1>4. /\ pending[r] = Count(up[r], Request) + Count(down[r], Answers)
      /\ Count(up[r], Request) \in Nat /\ Count(down[r], Answers) \in Nat
  BY <1>2, CountType DEF RepliesOK
<1>5. pending'[r] = Count(up'[r], Request) + Count(down'[r], Answers)
  BY <1>1, <1>2, <1>3, <1>4
<1> QED BY <1>2, <1>5, OwnReplies DEF Settled

LEMMA ReadReplies ==
  ASSUME AllInv, RepliesOK, NEW r \in Runs, Display(r) \/ ReadAnswer(r)
  PROVE RepliesOK'
<1> USE DEF AllInv, PromiseInv, IndInv, TypeOK, TransportTypeOK, SubscriberTypeOK
<1>1. /\ down[r] # << >> /\ down'[r] = Tail(down[r]) /\ UNCHANGED <<link, up>>
      /\ \A q \in Runs : q # r => down'[q] = down[q] /\ pending'[q] = pending[q]
      /\ down[r] \in Seq(DownFrame) /\ Head(down[r]) \in DownFrame
  BY DEF Display, ReadAnswer, ClientReceives
<1>2. \/ Head(down[r]) \notin Answers /\ pending' = pending
      \/ Head(down[r]) \in Answers /\ pending'[r] = pending[r] - 1
  BY <1>1, AnswerKinds DEF Display, ReadAnswer, Opcodes
<1>3. Count(down[r], Answers) = IF Head(down[r]) \in Answers THEN Count(down'[r], Answers) + 1
                                                            ELSE Count(down'[r], Answers)
  BY <1>1, CountTail
<1>4. Count(up[r], Request) \in Nat /\ Count(down'[r], Answers) \in Nat
  <2>1. up[r] \in Seq(UpFrame) /\ Tail(down[r]) \in Seq(DownFrame)
    BY <1>1, HeadTailProperties
  <2> QED BY <1>1, <2>1, CountType
<1>5. link[r] = "open" => pending'[r] = Count(up'[r], Request) + Count(down'[r], Answers)
  BY <1>1, <1>2, <1>3, <1>4 DEF RepliesOK
<1>6. link[r] \notin Settled
  BY <1>1 DEF OrderInv, QuietOK, Settled
<1> HIDE DEF AllInv, PromiseInv, IndInv
<1> QED BY <1>1, <1>5, <1>6, OwnReplies

LEMMA AnswerReplies ==
  ASSUME IndInv, RepliesOK, pending' = pending, NEW r \in Runs, fd[r] # NoFd,
         up[r] # << >>, Head(up[r]) \in Request,
         NEW o \in Opcodes \ {"EXIT"}, Answer(r, o)
  PROVE RepliesOK'
<1> DEFINE out == Reply(r, o)
<1> USE DEF IndInv, TypeOK, TransportTypeOK
<1>1. /\ UNCHANGED <<link, fd>> /\ down' = Received(out)
      /\ up'[r] = Tail(up[r]) /\ \A q \in Runs : q # r => up'[q] = up[q]
  BY DEF Answer, Consume
<1>2. /\ out \in Outputs /\ fd[r] \in ClientFds /\ r \in Held
      /\ out[fd[r]] = <<Opcode(o)>>
      /\ \A q \in Held : q # r => fd[q] \in ClientFds /\ out[fd[q]] = << >>
  BY OpcodeOutputType DEF Reply, OutputTo, NoOutput, Held, FdAccounting
<1> HIDE DEF out
<1>3. Count(up[r], Request) = Count(up'[r], Request) + 1
  <2>1. up[r] \in Seq(UpFrame)
    OBVIOUS
  <2> QED BY <1>1, <2>1, CountTail
<1>4. Count(out[fd[r]], Answers) = 1
  BY <1>2, CountOne, AnswerKinds
<1>5. \A q \in Runs : /\ Count(down[q], Answers) \in Nat
                       /\ Count(up'[r], Request) \in Nat
  <2>1. Tail(up[r]) \in Seq(UpFrame)
    BY HeadTailProperties
  <2>2. \A q \in Runs : down[q] \in Seq(DownFrame)
    OBVIOUS
  <2> QED BY <1>1, <2>1, <2>2, CountType
<1>6. ASSUME NEW q \in Runs, link[q] = "open"
      PROVE Count(up'[q], Request) + Count(down'[q], Answers)
              = Count(up[q], Request) + Count(down[q], Answers)
  <2>1. CASE q = r
    <3>1. Count(down'[r], Answers) = Count(down[r], Answers) + 1
      BY <1>1, <1>2, <1>4, <1>6, <2>1, ReceivedCount
    <3> QED BY <1>3, <1>5, <2>1, <3>1
  <2>2. CASE q # r
    <3>1. Count(down'[q], Answers) = Count(down[q], Answers)
      <4>1. q \in Held => Count(out[fd[q]], Answers) = 0
        BY <1>2, <2>2, NothingCounted
      <4> HIDE DEF IndInv
      <4> QED BY <1>1, <1>2, <1>5, <4>1, ReceivedCount
    <3> QED BY <1>1, <2>2, <3>1
  <2> QED BY <2>1, <2>2
<1> QED BY <1>1, <1>6, BalancedReplies

LEMMA ServerStepReplies ==
  ASSUME AllInv, RepliesOK, ServerStep
  PROVE RepliesOK'
<1> USE DEF AllInv, PromiseInv
<1>0. pending' = pending /\ UNCHANGED subscriberVars
  BY DEF ServerStep, subscriberVars
<1>1. ASSUME NEW ending, NEW out, NEW done, Stop(ending, out, done) PROVE RepliesOK'
  BY <1>0, <1>1, StopReplies
<1>2. ASSUME NEW out, StopInWrite(out) PROVE RepliesOK'
  BY <1>1, <1>2 DEF StopInWrite
<1>3. CASE Select
  BY <1>0, <1>3, BalancedReplies DEF Select, transportVars
<1>4. CASE UdpMessage
  <2> DEFINE out == IF Head(udp) \in topics THEN Fanout(Head(udp), Data(Len(log) + 1)) ELSE NoOutput
  <2>1. out \in Outputs
    <3>1. UdpFd \in ready
      BY <1>4 DEF UdpMessage, Handling, IsLowest
    <3>2. udp # << >>
      BY <3>1 DEF IndInv, SnapshotOK
    <3>3. Len(log) + 1 \in 0 .. MaxPub
      BY <3>2, ConstantsAssumption DEF IndInv, TypeOK, ServerTypeOK
    <3> QED BY <3>3, FrameTypes, FanoutType, NoOutputType
  <2>2. \A f \in ClientFds : Count(out[f], Answers) = 0
    <3>1. ASSUME NEW f \in ClientFds PROVE Count(Fanout(Head(udp), Data(Len(log) + 1))[f], Answers) = 0
      <4> DEFINE frames == Fanout(Head(udp), Data(Len(log) + 1))[f]
      <4>1. \A k \in DOMAIN frames : frames[k] = Data(Len(log) + 1)
        BY DEF Fanout
      <4> HIDE DEF frames
      <4> QED BY <4>1, AnswerKinds, CountNone DEF frames
    <3> QED BY <3>1, NoOutputCount
  <2>3. \/ down' = Received(out) /\ UNCHANGED <<link, up>>
        \/ StopInWrite(out)
    BY <1>4 DEF UdpMessage
  <2> HIDE DEF out
  <2> QED BY <1>0, <1>2, <2>1, <2>2, <2>3, SilentReplies
<1>5. CASE Accept
  BY <1>0, <1>1, <1>5, BalancedReplies DEF Accept
<1>6. ASSUME NEW r \in Runs, NoId(r) \/ \E id \in Ids : Disconnect(r, id) PROVE RepliesOK'
  <2>1. /\ link[r] = "cfin" /\ ServerCloses(r, 0) /\ down' = down
    BY <1>6 DEF NoId, Disconnect
  <2>2. /\ \A q \in Runs : q # r => link'[q] = link[q] /\ up'[q] = up[q]
        /\ link'[r] = "none"
    BY <2>1 DEF ServerCloses, AfterServerClose, PeerGone, IndInv, TypeOK, TransportTypeOK
  <2> QED BY <1>0, <2>1, <2>2, BalancedReplies DEF Settled
<1>7. ASSUME NEW r \in Runs, RefuseId(r) PROVE RepliesOK'
  <2> DEFINE out == OutputTo(newFd, <<Opcode("EXIT")>>)
  <2>1. out \in Outputs /\ \A f \in ClientFds : Count(out[f], Answers) = 0
    <3>1. Count(<<Opcode("EXIT")>>, Answers) = 0
      BY CountOne, AnswerKinds
    <3>2. \A f \in ClientFds : out[f] \in {<< >>, <<Opcode("EXIT")>>}
      BY DEF OutputTo, NoOutput
    <3> QED BY <3>1, <3>2, NothingCounted, OpcodeOutputType DEF Opcodes
  <2>2. \/ down' = Received(out) /\ ServerCloses(r, 1)
        \/ StopInWrite(out)
    BY <1>7 DEF RefuseId, Refused
  <2>3. ASSUME ServerCloses(r, 1)
        PROVE /\ \A q \in Runs : q # r => link'[q] = link[q] /\ up'[q] = up[q]
              /\ link'[r] # "open" /\ (link'[r] \in Settled => link[r] \in Settled)
    BY <2>3 DEF ServerCloses, AfterServerClose, PeerGone, Settled, IndInv, TypeOK, TransportTypeOK
  <2> HIDE DEF out
  <2> QED BY <1>0, <1>2, <2>1, <2>2, <2>3, SilentReplies
<1>8. ASSUME NEW r \in Runs, AdmitId(r) PROVE RepliesOK'
  <2> DEFINE id == Head(up[r]).id
             out == OutputTo(newFd, MissedFrames(id))
  <2>1. /\ up[r] # << >> /\ Unread(r) /\ saved[id].missed \in Seq(1 .. MaxPub)
    BY <1>8, HandOver
  <2>2. /\ up[r] \in Seq(UpFrame) /\ Head(up[r]) \in UpFrame /\ Head(up[r]).type = "ID"
    BY <2>1 DEF IndInv, TypeOK, TransportTypeOK, GreetingOK
  <2>3. Count(Tail(up[r]), Request) = Count(up[r], Request)
    BY <2>1, <2>2, CountTail, RequestKinds
  <2>4. out \in Outputs
    <3> DEFINE missed == saved[id].missed
    <3>1. Len(missed) \in Nat /\ DOMAIN missed = 1 .. Len(missed)
      BY <2>1
    <3>2. \A k \in DOMAIN missed : Data(missed[k]) \in DownFrame
      <4>1. missed \in Seq(1 .. MaxPub)
        BY <2>1
      <4> HIDE DEF missed
      <4> QED BY <4>1, ElementType, ConstantsAssumption, FrameTypes
    <3>3. MissedFrames(id) = [k \in 1 .. Len(missed) |-> Data(missed[k])]
      BY <3>1 DEF MissedFrames
    <3>4. MissedFrames(id) \in Seq(DownFrame)
      <4> HIDE DEF missed
      <4> QED BY <3>1, <3>2, <3>3
    <3> QED BY <3>4, OutputToType
  <2>5. \A f \in ClientFds : Count(out[f], Answers) = 0
    <3>1. Count(MissedFrames(id), Answers) = 0
      <4>1. \A k \in DOMAIN MissedFrames(id) : MissedFrames(id)[k] \notin Answers
        BY AnswerKinds DEF MissedFrames
      <4> QED BY <4>1, CountNone
    <3>2. \A f \in ClientFds : out[f] \in {<< >>, MissedFrames(id)}
      BY DEF OutputTo, NoOutput
    <3> QED BY <3>1, <3>2, NothingCounted
  <2>6. \/ down' = Received(out) /\ Consume(r) /\ UNCHANGED link
        \/ StopInWrite(out)
    BY <1>8 DEF AdmitId
  <2>7. ASSUME Consume(r) PROVE \A q \in Runs : Count(up'[q], Request) = Count(up[q], Request)
    BY <2>3, <2>7 DEF Consume, IndInv, TypeOK, TransportTypeOK
  <2> HIDE DEF out
  <2> QED BY <1>0, <1>2, <2>4, <2>5, <2>6, <2>7, SilentReplies
<1>9. ASSUME NEW r \in Runs, RecvReset(r) PROVE RepliesOK'
  BY <1>1, <1>9 DEF RecvReset
<1>10. ASSUME NEW r \in Runs, NEW id \in Ids, Subscribe(r, id) \/ Unsubscribe(r, id)
       PROVE RepliesOK'
  <2>1. /\ fd[r] # NoFd /\ up[r] # << >> /\ Head(up[r]).type # "ID"
    BY <1>10 DEF Subscribe, Unsubscribe, HandlingClient
  <2>2. Head(up[r]) \in Request
    <3>1. Head(up[r]) \in UpFrame
      BY <2>1 DEF IndInv, TypeOK, TransportTypeOK
    <3> QED BY <2>1, <3>1, RequestKinds
  <2>3. \/ \E o \in Opcodes \ {"EXIT"} : Answer(r, o)
        \/ \E out : StopInWrite(out)
    BY <1>10 DEF Subscribe, Unsubscribe, Opcodes
  <2> QED BY <1>0, <1>2, <2>1, <2>2, <2>3, AnswerReplies
<1> QED BY <1>3, <1>4, <1>5, <1>6, <1>7, <1>8, <1>9, <1>10 DEF ServerStep

LEMMA NextReplies == AllInv /\ RepliesOK /\ [Next]_vars => RepliesOK'
<1> SUFFICES ASSUME AllInv, RepliesOK, [Next]_vars PROVE RepliesOK'
  OBVIOUS
<1> USE DEF AllInv, PromiseInv
<1>1. ASSUME UNCHANGED <<link, up, down, pending>> PROVE RepliesOK'
  BY <1>1 DEF RepliesOK
<1>2. CASE ServerInput
  <2>1. ASSUME NEW t \in Topics, Publish(t) PROVE RepliesOK'
    BY <1>1, <1>2, <2>1 DEF ServerInput, Publish, transportVars, subscriberVars
  <2>2. CASE CloseAll
    BY <1>2, <2>2, StopReplies DEF ServerInput, CloseAll, StopInWrite
  <2> QED BY <1>2, <2>1, <2>2 DEF ServerInput
<1>3. ASSUME NEW r \in Runs, Greets(r) \/ Reads(r) \/ SubscriberInput(r) PROVE RepliesOK'
  <2>1. CASE DisplayEndOfStream(r)
    BY <1>1, <2>1 DEF DisplayEndOfStream, transportVars
  <2> QED BY <1>3, <2>1, SendReplies, ReadReplies, EndsReplies, ConnectReplies
          DEF Greets, Reads, SubscriberInput, ReadExit, ServerReset, Quit
<1>4. CASE UNCHANGED vars
  BY <1>1, <1>4 DEF vars, transportVars, subscriberVars
<1> QED BY <1>2, <1>3, <1>4, ServerStepReplies DEF Next

(* The early returns of subscribe and unsubscribe, in whatever order their  *)
(* requests come, leave each with exactly one answer.                       *)
THEOREM OneReplyEach == Spec => []OneReplyPerRequest
<1>1. Init => RepliesOK
  BY NothingCounted DEF Init, TransportInit, SubscriberInit, RepliesOK, Settled
<1>2. RepliesOK => OneReplyPerRequest
  BY DEF RepliesOK, OneReplyPerRequest
<1>3. PromiseInv /\ OrderInv => AllInv
  BY DEF AllInv
<1> QED BY <1>1, <1>2, <1>3, NextReplies, OrderInductive, PTL DEF Spec
=============================================================================
