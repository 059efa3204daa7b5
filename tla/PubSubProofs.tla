---------------------------- MODULE PubSubProofs ----------------------------
(****************************************************************************)
(* IndInv is an inductive invariant of PubSub, for any sets of runs, IDs    *)
(* and topics and any number of descriptors; the invariants it contains     *)
(* follow.  One lemma per action, one step per conjunct of IndInv.          *)
(****************************************************************************)
EXTENDS PubSub, FiniteSetTheorems, SequenceTheorems, TLAPS

Outputs == [ClientFds -> Seq(DownFrame)]

(* The frames the handlers write are frames.                                *)
LEMMA FrameTypes ==
  /\ \A o \in Opcodes : Opcode(o) \in DownFrame
  /\ \A n \in 0 .. MaxPub : Data(n) \in DownFrame
BY ConstantsAssumption DEF Opcode, Data, DownFrame

(* The outputs of the handlers are outputs.                                 *)
LEMMA NoOutputType == NoOutput \in Outputs
BY DEF NoOutput, Outputs

LEMMA OutputToType ==
  ASSUME NEW f, NEW frames \in Seq(DownFrame)
  PROVE OutputTo(f, frames) \in Outputs
BY NoOutputType DEF OutputTo, Outputs

LEMMA OpcodeOutputType ==
  ASSUME NEW f, NEW o \in Opcodes
  PROVE OutputTo(f, <<Opcode(o)>>) \in Outputs
<1>1. <<Opcode(o)>> \in Seq(DownFrame)
  BY FrameTypes
<1> QED BY <1>1, OutputToType

LEMMA FanoutType ==
  ASSUME NEW t, NEW frame \in DownFrame
  PROVE Fanout(t, frame) \in Outputs
<1> DEFINE entries(f) == {id \in Ids : IsConnected(id) /\ subs[t][id] = f}
<1>1. ASSUME NEW f \in ClientFds PROVE Cardinality(entries(f)) \in Nat
  BY ConstantsAssumption, FS_Subset, FS_CardinalityType
<1>2. ASSUME NEW f \in ClientFds
      PROVE [k \in 1 .. Cardinality(entries(f)) |-> frame] \in Seq(DownFrame)
  BY <1>1
<1> QED BY <1>2 DEF Fanout, Outputs

(* Writing to the connections keeps what they carry well-typed.             *)
LEMMA ReceivedType ==
  ASSUME TransportTypeOK, NEW out \in Outputs
  PROVE Received(out) \in [Runs -> Seq(DownFrame)]
<1> SUFFICES ASSUME NEW r \in Runs, r \in Held
             PROVE down[r] \o out[fd[r]] \in Seq(DownFrame)
  BY DEF Received, TransportTypeOK
<1>1. down[r] \in Seq(DownFrame) /\ out[fd[r]] \in Seq(DownFrame)
  BY DEF TransportTypeOK, Outputs, Held
<1> QED BY <1>1, ConcatProperties

-----------------------------------------------------------------------------
(* The end of the server process leaves nothing to be wrong about.          *)
LEMMA StopInd ==
  ASSUME IndInv, UNCHANGED subscriberVars,
         NEW ending \in Endings, NEW out \in Outputs, NEW done,
         Stop(ending, out, done)
  PROVE IndInv'
<1> USE DEF IndInv, TypeOK, Stop, Forget, ServerProcessEnds
<1> DEFINE written == [f \in ClientFds |-> IF f \in done THEN out[f] ELSE << >>]
<1>1. TransportTypeOK'
  <2>1. written \in Outputs
    BY DEF Outputs
  <2>2. down' \in [Runs -> Seq(DownFrame)]
    BY <2>1, ReceivedType
  <2>3. link' \in [Runs -> LinkStates]
    BY DEF TransportTypeOK, AfterServerClose, LinkStates
  <2> QED BY <2>2, <2>3 DEF TransportTypeOK
<1>2. ServerTypeOK'
  <2>1. NoClient \in Client /\ NoSubs \in [Ids -> {NoFd} \cup ClientFds]
    BY DEF NoClient, Client, NoSubs
  <2>2. Len(log') + Len(udp') \in 0 .. MaxPub
    BY ConstantsAssumption DEF ServerTypeOK
  <2> QED BY <2>1, <2>2 DEF ServerTypeOK
<1>3. SubscriberTypeOK'
  BY DEF SubscriberTypeOK, subscriberVars
<1>4. Waiting' = {} /\ Held' = {} /\ \A r \in Runs : ~Unread(r)'
  BY DEF Waiting, Held, Unread, NoFd
<1>5. ConnectionsOK'
  <2>1. ASSUME NEW r \in Runs, link'[r] \in {"none", "sfin", "srst"}
        PROVE up'[r] = << >>
    BY <2>1 DEF ConnectionsOK, TransportTypeOK, Held, Waiting
  <2> QED BY <1>4, <2>1 DEF ConnectionsOK
<1>6. SnapshotOK' /\ LoopFindsClient'
  BY DEF SnapshotOK, LoopFindsClient
<1>7. GreetingOK'
  BY <1>4 DEF GreetingOK, subscriberVars, TransportTypeOK
<1>8. TablesAgree'
  BY DEF TablesAgree, ConnectedSocks, IsConnected, IsSaved, NoClient
<1>9. FdAccounting'
  BY <1>4 DEF FdAccounting
<1> QED BY <1>1, <1>2, <1>3, <1>5, <1>6, <1>7, <1>8, <1>9

LEMMA StopInWriteInd ==
  ASSUME IndInv, UNCHANGED subscriberVars, NEW out \in Outputs, StopInWrite(out)
  PROVE IndInv'
BY StopInd DEF StopInWrite, Endings

-----------------------------------------------------------------------------
(* The steps of a subscriber. *)

(* They leave the server's memory and descriptors alone.                    *)
LEMMA ServerSideKept ==
  ASSUME IndInv, UNCHANGED <<serverVars, fd>>
  PROVE ServerTypeOK' /\ TablesAgree' /\ LoopFindsClient' /\ Held' = Held
<1> USE DEF IndInv, TypeOK, serverVars, memory
<1>1. ServerTypeOK'
  BY DEF ServerTypeOK
<1>2. TablesAgree'
  BY DEF TablesAgree, ConnectedSocks, IsConnected, IsSaved
<1>3. LoopFindsClient'
  BY DEF LoopFindsClient
<1>4. Held' = Held
  BY DEF Held
<1> QED BY <1>1, <1>2, <1>3, <1>4

LEMMA ConnectInd ==
  ASSUME IndInv, NEW r \in Runs, Connect(r), UNCHANGED serverVars
  PROVE IndInv'
<1> USE DEF IndInv, TypeOK, Connect, ClientConnects, serverVars, memory
<1>1. ServerTypeOK' /\ TablesAgree' /\ LoopFindsClient' /\ Held' = Held
  BY ServerSideKept
<1>2. TransportTypeOK' /\ SubscriberTypeOK'
  BY DEF TransportTypeOK, SubscriberTypeOK, LinkStates, ProcStates
<1>3. r \notin Waiting \cup Held /\ up[r] = << >>
  BY DEF ConnectionsOK
<1>a. /\ backlog \in Seq(Runs) /\ backlog' # << >>
      /\ DOMAIN backlog' = 1 .. Len(backlog) + 1 /\ Len(backlog') = Len(backlog) + 1
      /\ \A k \in 1 .. Len(backlog) : backlog'[k] = backlog[k]
      /\ backlog'[Len(backlog) + 1] = r
  <2>1. backlog \in Seq(Runs) /\ backlog' = Append(backlog, r)
    BY DEF TransportTypeOK
  <2>2. backlog' \in Seq(Runs) /\ Len(backlog') = Len(backlog) + 1
    BY <2>1, AppendProperties
  <2> QED BY <2>1, <2>2, AppendProperties
<1>4. Waiting' = Waiting \cup {r}
  BY <1>a DEF Waiting
<1>5. ConnectionsOK'
  <2>1. \A j, k \in DOMAIN backlog' : backlog'[j] = backlog'[k] => j = k
    BY <1>3, <1>a DEF ConnectionsOK, Waiting
  <2>2. \A q \in Runs : q # r => link'[q] = link[q] /\ up'[q] = up[q]
    BY DEF TransportTypeOK
  <2>3. link'[r] = "open"
    BY DEF TransportTypeOK
  <2> QED BY <1>1, <1>3, <1>4, <2>1, <2>2, <2>3 DEF ConnectionsOK
<1>6. SnapshotOK'
  BY <1>a DEF SnapshotOK
<1>7. GreetingOK'
  BY <1>3, <1>4 DEF GreetingOK, Unread, TransportTypeOK, SubscriberTypeOK
<1>8. FdAccounting'
  BY <1>1, <1>3 DEF FdAccounting, TransportTypeOK
<1> QED BY <1>1, <1>2, <1>5, <1>6, <1>7, <1>8

LEMMA SendIdInd ==
  ASSUME IndInv, NEW r \in Runs, NEW id \in Ids, SendId(r, id), UNCHANGED serverVars
  PROVE IndInv'
<1> USE DEF IndInv, TypeOK, SendId, ClientSends, serverVars, memory
<1>1. ServerTypeOK' /\ TablesAgree' /\ LoopFindsClient' /\ Held' = Held
  BY ServerSideKept
<1>2. TransportTypeOK' /\ SubscriberTypeOK'
  BY DEF TransportTypeOK, SubscriberTypeOK, ProcStates, UpFrame
<1>3. Waiting' = Waiting /\ Unread(r)' = Unread(r)
  BY DEF Waiting, Unread
<1>4. ConnectionsOK'
  BY <1>1, <1>3 DEF ConnectionsOK, TransportTypeOK
<1>5. SnapshotOK'
  BY DEF SnapshotOK
<1>6. GreetingOK'
  BY <1>3 DEF GreetingOK, Unread, TransportTypeOK, SubscriberTypeOK
<1>7. FdAccounting'
  BY <1>1 DEF FdAccounting, TransportTypeOK
<1> QED BY <1>1, <1>2, <1>4, <1>5, <1>6, <1>7

LEMMA SendRequestInd ==
  ASSUME IndInv, NEW r \in Runs, NEW m \in Request, SendRequest(r, m),
         UNCHANGED serverVars
  PROVE IndInv'
<1> USE DEF IndInv, TypeOK, SendRequest, ClientSends, serverVars, memory
<1>1. ServerTypeOK' /\ TablesAgree' /\ LoopFindsClient' /\ Held' = Held
  BY ServerSideKept
<1>2. TransportTypeOK' /\ SubscriberTypeOK'
  BY MaxPendingAssumption DEF TransportTypeOK, SubscriberTypeOK, UpFrame
<1>3. Waiting' = Waiting
  BY DEF Waiting
<1>4. ConnectionsOK'
  BY <1>1, <1>3 DEF ConnectionsOK, TransportTypeOK
<1>5. SnapshotOK'
  BY DEF SnapshotOK
<1>6. GreetingOK'
  <2>1. up'[r] # << >> /\ (up[r] # << >> => Head(up'[r]) = Head(up[r]))
    BY SMTT(30) DEF TransportTypeOK
  <2> QED BY <1>3, <2>1 DEF GreetingOK, Unread, TransportTypeOK, SubscriberTypeOK
<1>7. FdAccounting'
  BY <1>1 DEF FdAccounting, TransportTypeOK
<1> QED BY <1>1, <1>2, <1>4, <1>5, <1>6, <1>7

(* exit, a signal, $EXIT, or an error: the process and its end are gone.    *)
LEMMA EndsInd ==
  ASSUME IndInv, NEW r \in Runs, Ends(r), UNCHANGED serverVars
  PROVE IndInv'
<1> USE DEF IndInv, TypeOK, Ends, ClientCloses, serverVars, memory
<1>1. ServerTypeOK' /\ TablesAgree' /\ LoopFindsClient' /\ Held' = Held
  BY ServerSideKept
<1>2. TransportTypeOK' /\ SubscriberTypeOK'
  <2>1. link' \in [Runs -> LinkStates] /\ up' \in [Runs -> Seq(UpFrame)]
    <3>1. CASE link[r] = "open"
      BY <3>1 DEF TransportTypeOK, LinkStates, ServerGone
    <3>2. CASE ServerGone(r)
      <4>1. /\ link' = [link EXCEPT ![r] = "none"]
            /\ up' = [up EXCEPT ![r] = << >>]
        BY <3>2 DEF ServerGone
      <4> QED BY <4>1 DEF TransportTypeOK, LinkStates
    <3> QED BY <3>1, <3>2
  <2>2. down' \in [Runs -> Seq(DownFrame)]
    BY DEF TransportTypeOK
  <2>3. SubscriberTypeOK'
    BY ConstantsAssumption DEF SubscriberTypeOK, ProcStates
  <2> QED BY <2>1, <2>2, <2>3 DEF TransportTypeOK
<1>3. Waiting' = Waiting /\ up'[r] \in {up[r], << >>}
  BY DEF Waiting, TransportTypeOK
<1>4. ConnectionsOK'
  <2>1. link'[r] = "none" => r \notin Waiting \cup Held /\ up'[r] = << >>
    BY DEF ConnectionsOK, ServerGone, TransportTypeOK
  <2>2. link'[r] \in {"none", "cfin", "crst"}
    BY DEF TransportTypeOK
  <2> QED BY <1>1, <1>3, <2>1, <2>2 DEF ConnectionsOK, TransportTypeOK
<1>5. SnapshotOK'
  BY DEF SnapshotOK
<1>6. GreetingOK'
  BY <1>3 DEF GreetingOK, Unread, TransportTypeOK, SubscriberTypeOK
<1>7. FdAccounting'
  BY <1>1 DEF FdAccounting
<1> QED BY <1>1, <1>2, <1>4, <1>5, <1>6, <1>7

(* A frame is read, or the end of the stream displayed.                     *)
LEMMA ReadInd ==
  ASSUME IndInv, NEW r \in Runs,
         Display(r) \/ ReadAnswer(r) \/ DisplayEndOfStream(r), UNCHANGED serverVars
  PROVE IndInv'
<1> USE DEF IndInv, TypeOK, serverVars, memory
<1>1. /\ UNCHANGED <<link, up, backlog, fd>>
      /\ down' = down \/ (down[r] # << >> /\ down' = [down EXCEPT ![r] = Tail(@)])
      /\ \A q \in Runs : proc'[q] \in {proc[q], "spinning"}
  BY DEF Display, ReadAnswer, DisplayEndOfStream, ClientReceives, transportVars,
         SubscriberTypeOK
<1>2. ServerTypeOK' /\ TablesAgree' /\ LoopFindsClient' /\ Held' = Held
  BY <1>1, ServerSideKept
<1>3. TransportTypeOK'
  <2>1. down[r] # << >> => Tail(down[r]) \in Seq(DownFrame)
    BY DEF TransportTypeOK
  <2> QED BY <1>1, <2>1 DEF TransportTypeOK
<1>4. SubscriberTypeOK'
  <2>1. CASE Display(r)
    <3>1. Head(down[r]) \in DownFrame
      BY <2>1 DEF Display, TransportTypeOK
    <3>2. Head(down[r]).seq \in 0 .. MaxPub
      BY <3>1 DEF DownFrame
    <3> QED BY <2>1, <3>2 DEF Display, SubscriberTypeOK
  <2>2. CASE ReadAnswer(r)
    BY <2>2 DEF ReadAnswer, SubscriberTypeOK
  <2>3. CASE DisplayEndOfStream(r)
    BY <2>3 DEF DisplayEndOfStream, SubscriberTypeOK, ProcStates
  <2> QED BY <2>1, <2>2, <2>3
<1>5. ConnectionsOK' /\ SnapshotOK'
  BY <1>1 DEF ConnectionsOK, SnapshotOK, Waiting, Held
<1>6. GreetingOK'
  BY <1>1 DEF GreetingOK, Unread, Waiting
<1>7. FdAccounting'
  BY <1>1, <1>2 DEF FdAccounting
<1> QED BY <1>2, <1>3, <1>4, <1>5, <1>6, <1>7

-----------------------------------------------------------------------------
(* The steps of the server. *)

LEMMA PublishInd ==
  ASSUME IndInv, NEW t \in Topics, Publish(t), UNCHANGED subscriberVars
  PROVE IndInv'
<1> USE DEF IndInv, TypeOK, Publish, memory, transportVars, subscriberVars
<1>1. TypeOK'
  <2>1. ServerTypeOK'
    <3>1. udp' \in Seq(Topics) /\ Len(udp') = Len(udp) + 1
      BY AppendProperties DEF ServerTypeOK
    <3>2. Len(log') + Len(udp') \in 0 .. MaxPub
      BY <3>1, ConstantsAssumption DEF ServerTypeOK
    <3> QED BY <3>1, <3>2 DEF ServerTypeOK
  <2> QED BY <2>1 DEF TransportTypeOK, SubscriberTypeOK
<1>2. SnapshotOK'
  BY AppendProperties DEF SnapshotOK, ServerTypeOK
<1>3. ConnectionsOK' /\ GreetingOK'
  BY DEF ConnectionsOK, Waiting, Held, GreetingOK, Unread
<1>4. TablesAgree' /\ LoopFindsClient' /\ FdAccounting'
  BY DEF TablesAgree, ConnectedSocks, IsConnected, IsSaved, LoopFindsClient,
         FdAccounting, Held
<1> QED BY <1>1, <1>2, <1>3, <1>4

LEMMA SelectInd ==
  ASSUME IndInv, Select, UNCHANGED subscriberVars
  PROVE IndInv'
<1> USE DEF IndInv, TypeOK, Select, memory, transportVars, subscriberVars
<1>1. TypeOK'
  <2>1. ServerTypeOK'
    BY DEF ServerTypeOK, ReadyFds
  <2> QED BY <2>1 DEF TransportTypeOK, SubscriberTypeOK
<1>2. SnapshotOK'
  BY DEF SnapshotOK, ReadyFds, ServerTypeOK, ClientFds, UdpFd, TcpFd
<1>3. ConnectionsOK' /\ GreetingOK'
  BY DEF ConnectionsOK, Waiting, Held, GreetingOK, Unread
<1>4. LoopFindsClient'
  <2>1. ready' \cap ClientFds \subseteq {f \in readFds : f <= fdmax}
    BY DEF ReadyFds, ClientFds, UdpFd, TcpFd
  <2> QED BY <2>1 DEF LoopFindsClient, TablesAgree, ConnectedSocks
<1>5. TablesAgree' /\ FdAccounting'
  BY DEF TablesAgree, ConnectedSocks, IsConnected, IsSaved, FdAccounting, Held
<1> QED BY <1>1, <1>2, <1>3, <1>4, <1>5

LEMMA CloseAllInd ==
  ASSUME IndInv, CloseAll, UNCHANGED subscriberVars
  PROVE IndInv'
<1>1. ExitFrames \in Outputs
  BY FrameTypes DEF ExitFrames, Outputs, Opcodes
<1>2. Stop("exited", ExitFrames, ClientFds) \/ StopInWrite(ExitFrames)
  BY DEF CloseAll
<1> QED BY <1>1, <1>2, StopInd, StopInWriteInd DEF Endings

LEMMA UdpMessageInd ==
  ASSUME IndInv, UdpMessage, UNCHANGED subscriberVars
  PROVE IndInv'
<1> DEFINE t == Head(udp)
           n == Len(log) + 1
           out == IF t \in topics THEN Fanout(t, Data(n)) ELSE NoOutput
<1> USE DEF IndInv, TypeOK
<1>1. /\ UdpFd \in ready /\ udp # << >>
      /\ t \in Topics /\ n \in 1 .. MaxPub
  <2>1. UdpFd \in ready
    BY DEF UdpMessage, Handling, IsLowest
  <2>2. udp # << >> /\ udp \in Seq(Topics) /\ log \in Seq(Topics)
    BY <2>1 DEF SnapshotOK, ServerTypeOK
  <2>3. Len(udp) \in Nat \ {0} /\ Len(log) \in Nat /\ Len(log) + Len(udp) <= MaxPub
    BY <2>2 DEF ServerTypeOK
  <2> QED BY <2>1, <2>2, <2>3, ConstantsAssumption
<1>2. out \in Outputs
  <2>1. Data(n) \in DownFrame
    BY <1>1, FrameTypes
  <2> QED BY <2>1, FanoutType, NoOutputType
<1>3. CASE StopInWrite(out)
  BY <1>2, <1>3, StopInWriteInd
<1>4. CASE /\ Handled(UdpFd)
           /\ udp' = Tail(udp)
           /\ log' = Append(log, t)
           /\ topics' = topics \cup {t}
           /\ saved' = [id \in Ids |->
                IF t \in topics /\ StoresFor(id, t)
                THEN [saved[id] EXCEPT !.missed = Append(@, n)]
                ELSE saved[id]]
           /\ down' = Received(out)
           /\ UNCHANGED <<srv, newFd, leaked, readFds, fdmax, connected, subs,
                          link, up, backlog, fd>>
  <2> USE <1>4
  <2>1. TransportTypeOK' /\ SubscriberTypeOK'
    <3>1. down' \in [Runs -> Seq(DownFrame)]
      BY <1>2, ReceivedType
    <3> QED BY <3>1 DEF TransportTypeOK, SubscriberTypeOK, subscriberVars
  <2>2. ServerTypeOK'
    <3>1. udp' \in Seq(Topics) /\ log' \in Seq(Topics)
          /\ Len(log') + Len(udp') = Len(log) + Len(udp)
      <4>1. udp \in Seq(Topics) /\ log \in Seq(Topics)
        BY DEF ServerTypeOK
      <4>2. log' \in Seq(Topics) /\ Len(log') = Len(log) + 1
        BY <1>1, <4>1, AppendProperties
      <4>3. udp' \in Seq(Topics) /\ Len(udp') = Len(udp) - 1
        BY <1>1, <4>1
      <4> QED BY <4>1, <4>2, <4>3
    <3>2. ready' \in SUBSET ({UdpFd, TcpFd} \cup ClientFds)
      BY DEF ServerTypeOK, Handled
    <3>3. saved' \in [Ids -> Client]
      <4> SUFFICES ASSUME NEW id \in Ids
                   PROVE [saved[id] EXCEPT !.missed = Append(@, n)] \in Client
        BY DEF ServerTypeOK
      <4>1. saved[id] \in Client /\ saved[id].missed \in Seq(1 .. MaxPub)
        BY DEF ServerTypeOK, Client
      <4>2. Append(saved[id].missed, n) \in Seq(1 .. MaxPub)
        BY <1>1, <4>1, AppendProperties
      <4> QED BY <4>1, <4>2 DEF Client
    <3> QED BY <1>1, <3>1, <3>2, <3>3 DEF ServerTypeOK
  <2>3. ConnectionsOK' /\ GreetingOK'
    BY DEF ConnectionsOK, Waiting, Held, GreetingOK, Unread, subscriberVars
  <2>4. SnapshotOK' /\ LoopFindsClient'
    BY DEF SnapshotOK, LoopFindsClient, Handled
  <2>5. TablesAgree'
    <3>1. \A id \in Ids : saved'[id].sock = saved[id].sock
      BY DEF ServerTypeOK, Client
    <3> QED BY <3>1 DEF TablesAgree, ConnectedSocks, IsConnected, IsSaved
  <2>6. FdAccounting'
    BY DEF FdAccounting, Held
  <2> QED BY <2>1, <2>2, <2>3, <2>4, <2>5, <2>6
<1> QED BY <1>3, <1>4 DEF UdpMessage

(* The tables agree as long as they and the descriptors they name stay.     *)
LEMMA TablesKept ==
  ASSUME TablesAgree, UNCHANGED <<readFds, connected, saved>>,
         \A f \in readFds : \E r \in Runs : fd'[r] = f
  PROVE TablesAgree'
BY DEF TablesAgree, ConnectedSocks, IsConnected, IsSaved

LEMMA AcceptInd ==
  ASSUME IndInv, Accept, UNCHANGED subscriberVars
  PROVE IndInv'
<1> DEFINE r == Head(backlog)
<1> USE DEF IndInv, TypeOK
<1>1. /\ TcpFd \in ready /\ newFd = NoFd
      /\ backlog \in Seq(Runs) /\ backlog # << >> /\ r \in Runs
  BY DEF Accept, Handling, IsLowest, SnapshotOK, TransportTypeOK
<1>2. r \in Waiting
  BY <1>1 DEF Waiting
<1>3. CASE Stop("EMFILE", NoOutput, {})
  BY <1>3, StopInd, NoOutputType DEF Endings
<1>4. ASSUME NEW f \in ClientFds, IsLowest(f, FreeFds),
             newFd' = f, fd' = [fd EXCEPT ![r] = f], backlog' = Tail(backlog),
             UNCHANGED <<srv, udp, log, ready, memory, link, up, down>>
      PROVE IndInv'
  <2> USE <1>4 DEF memory
  <2>1. TypeOK'
    <3>1. backlog' \in Seq(Runs)
      BY <1>1
    <3> QED BY <3>1 DEF TransportTypeOK, ServerTypeOK, SubscriberTypeOK, subscriberVars
  <2>2. f # NoFd /\ \A q \in Runs : fd[q] # f
    BY DEF IsLowest, FreeFds, ClientFds, NoFd, TcpFd
  <2>3. r \notin Held /\ Held' = Held \cup {r}
    BY <1>1, <1>2, <2>2 DEF Held, ConnectionsOK, TransportTypeOK
  <2>4. /\ Len(backlog') = Len(backlog) - 1
        /\ \A k \in 1 .. Len(backlog') : backlog'[k] = backlog[k + 1]
    BY <1>1
  <2>5. Waiting' = Waiting \ {r}
    <3>1. \A k \in DOMAIN backlog : backlog[k] = r => k = 1
      BY <1>1 DEF ConnectionsOK
    <3>2. Waiting' \subseteq Waiting \ {r}
      BY <1>1, <2>4, <3>1 DEF Waiting
    <3>3. ASSUME NEW q \in Waiting, q # r PROVE q \in Waiting'
      <4>1. PICK k \in 1 .. Len(backlog) : backlog[k] = q
        BY DEF Waiting
      <4>2. k > 1 /\ k - 1 \in 1 .. Len(backlog')
        BY <1>1, <2>4, <3>3, <4>1
      <4>3. backlog'[k - 1] = q
        BY <2>4, <4>1, <4>2
      <4> QED BY <4>2, <4>3 DEF Waiting
    <3> QED BY <3>2, <3>3
  <2>6. ConnectionsOK'
    <3>1. \A j, k \in DOMAIN backlog' : backlog'[j] = backlog'[k] => j = k
      <4> SUFFICES ASSUME NEW j \in 1 .. Len(backlog'), NEW k \in 1 .. Len(backlog'),
                          backlog'[j] = backlog'[k]
                   PROVE j = k
        <5>1. DOMAIN backlog' = 1 .. Len(backlog')
          BY <1>1
        <5> QED BY <5>1
      <4>1. /\ j + 1 \in DOMAIN backlog /\ k + 1 \in DOMAIN backlog
            /\ backlog[j + 1] = backlog[k + 1]
        BY <1>1, <2>4
      <4>2. j + 1 = k + 1
        BY <4>1 DEF ConnectionsOK
      <4> QED BY <4>2
    <3>2. link[r] \notin {"none", "sfin", "srst"}
      BY <1>1, <1>2 DEF ConnectionsOK
    <3>3. Waiting' \cap Held' = {}
      BY <2>3, <2>5 DEF ConnectionsOK
    <3>4. ASSUME NEW q \in Runs, link'[q] \in {"none", "sfin", "srst"}
          PROVE up'[q] = << >> /\ q \notin Waiting' \cup Held'
      BY <2>3, <2>5, <3>2, <3>4 DEF ConnectionsOK
    <3> QED BY <3>1, <3>3, <3>4 DEF ConnectionsOK
  <2>7. SnapshotOK' /\ LoopFindsClient'
    BY <2>2 DEF SnapshotOK, LoopFindsClient
  <2>8. GreetingOK'
    <3>1. \A q \in Runs : Unread(q)' => Unread(q)
      BY <1>2, <2>2, <2>5 DEF Unread, TransportTypeOK
    <3> QED BY <3>1 DEF GreetingOK, subscriberVars
  <2>9. TablesAgree'
    <3>1. \A g \in readFds : \E q \in Runs : fd'[q] = g
      BY <2>3 DEF TablesAgree, TransportTypeOK, Held, ServerTypeOK, ClientFds, NoFd, TcpFd
    <3> QED BY <3>1, TablesKept
  <2>10. FdAccounting'
    <3>1. /\ fd'[r] = f
          /\ \A q \in Runs : q # r => fd'[q] = fd[q]
      BY <1>1 DEF TransportTypeOK
    <3>2. f \notin readFds
      BY <2>2 DEF TablesAgree
    <3>3. r \in Held' /\ \A q \in Held' : q # r => q \in Held
      BY <2>3
    <3>4. \A q \in Held : fd[q] \in readFds /\ fd[q] \notin leaked
      BY <1>1 DEF FdAccounting, Held
    <3>5. f \notin leaked
      BY DEF IsLowest, FreeFds
    <3> QED BY <2>2, <3>1, <3>2, <3>3, <3>4, <3>5 DEF FdAccounting, Held
  <2> QED BY <2>1, <2>6, <2>7, <2>8, <2>9, <2>10
<1> QED BY <1>3, <1>4 DEF Accept

(* What the three outcomes of reading an ID have in common.                 *)
LEMMA IdReadFacts ==
  ASSUME IndInv, NEW r \in Runs, ReadingId(r), IdRead
  PROVE /\ newFd \in ClientFds /\ newFd # NoFd /\ newFd \notin readFds
        /\ r \in Held /\ r \notin Waiting /\ Unread(r)
        /\ \A q \in Held : q # r => fd[q] # newFd
        /\ ready' \subseteq ready
        /\ TcpFd \notin ready'
        /\ newFd' = NoFd
BY DEF IndInv, TypeOK, ReadingId, IdRead, Handled, FdAccounting, Held, Unread,
       ConnectionsOK, ServerTypeOK

(* A connection the server closes is gone from its side, the others stay.   *)
LEMMA ServerClosesFacts ==
  ASSUME IndInv, NEW r \in Held, NEW n, ServerCloses(r, n), UNCHANGED backlog
  PROVE /\ r \in Runs
        /\ link' \in [Runs -> LinkStates] /\ up' \in [Runs -> Seq(UpFrame)]
        /\ fd' \in [Runs -> {NoFd} \cup ClientFds]
        /\ up'[r] = << >> /\ fd'[r] = NoFd
        /\ \A q \in Runs : q # r => link'[q] = link[q] /\ up'[q] = up[q] /\ fd'[q] = fd[q]
        /\ Waiting' = Waiting /\ Held' = Held \ {r}
        /\ ConnectionsOK'
<1> USE DEF IndInv, TypeOK, ServerCloses
<1>1. r \in Runs /\ r \notin Waiting
  BY DEF Held, ConnectionsOK
<1>2. AfterServerClose(r, Len(up[r]) > n) \in {"none", "sfin", "srst"}
  BY DEF AfterServerClose
<1>3. /\ link' \in [Runs -> LinkStates] /\ up' \in [Runs -> Seq(UpFrame)]
      /\ fd' \in [Runs -> {NoFd} \cup ClientFds]
  BY <1>1, <1>2 DEF TransportTypeOK, LinkStates
<1>4. /\ up'[r] = << >> /\ fd'[r] = NoFd
      /\ \A q \in Runs : q # r => link'[q] = link[q] /\ up'[q] = up[q] /\ fd'[q] = fd[q]
  BY <1>1 DEF TransportTypeOK
<1>5. Waiting' = Waiting /\ Held' = Held \ {r}
  BY <1>1, <1>4 DEF Waiting, Held
<1>6. ConnectionsOK'
  BY <1>1, <1>4, <1>5 DEF ConnectionsOK
<1> QED BY <1>1, <1>3, <1>4, <1>5, <1>6

LEMMA NoIdInd ==
  ASSUME IndInv, NEW r \in Runs, NoId(r), UNCHANGED subscriberVars
  PROVE IndInv'
<1> USE DEF IndInv, TypeOK, subscriberVars
<1>1. /\ IdRead /\ ServerCloses(r, 0)
      /\ leaked' = leaked \cup {newFd}
      /\ UNCHANGED <<srv, udp, log, readFds, fdmax, connected, saved, topics, subs,
                     down, backlog>>
  BY DEF NoId
<1>2. /\ newFd \in ClientFds /\ newFd # NoFd /\ newFd \notin readFds
      /\ r \in Held
      /\ \A q \in Held : q # r => fd[q] # newFd
      /\ ready' \subseteq ready /\ TcpFd \notin ready' /\ newFd' = NoFd
      /\ fd[r] = newFd
  BY IdReadFacts DEF NoId, ReadingId
<1>3. /\ link' \in [Runs -> LinkStates] /\ up' \in [Runs -> Seq(UpFrame)]
      /\ fd' \in [Runs -> {NoFd} \cup ClientFds]
      /\ up'[r] = << >> /\ fd'[r] = NoFd
      /\ \A q \in Runs : q # r => link'[q] = link[q] /\ up'[q] = up[q] /\ fd'[q] = fd[q]
      /\ Waiting' = Waiting /\ Held' = Held \ {r}
      /\ ConnectionsOK'
  BY <1>1, <1>2, ServerClosesFacts
<1>4. TypeOK'
  BY <1>1, <1>2, <1>3 DEF TransportTypeOK, ServerTypeOK, SubscriberTypeOK
<1>5. SnapshotOK' /\ LoopFindsClient'
  BY <1>1, <1>2 DEF SnapshotOK, LoopFindsClient
<1>6. GreetingOK'
  <2>1. \A q \in Runs : Unread(q)' => Unread(q) /\ q # r
    BY <1>2, <1>3 DEF Unread, ConnectionsOK
  <2> QED BY <1>3, <2>1 DEF GreetingOK
<1>7. TablesAgree'
  <2>1. \A f \in readFds : \E q \in Runs : fd'[q] = f
    BY <1>2, <1>3 DEF TablesAgree
  <2> QED BY <1>1, <2>1, TablesKept
<1>8. FdAccounting'
  <2>1. \A q \in Held' : q \in Held /\ q # r /\ fd'[q] = fd[q]
    BY <1>3 DEF Held
  <2> QED BY <1>1, <1>2, <2>1 DEF FdAccounting
<1> QED BY <1>3, <1>4, <1>5, <1>6, <1>7, <1>8

LEMMA RefuseIdInd ==
  ASSUME IndInv, NEW r \in Runs, RefuseId(r), UNCHANGED subscriberVars
  PROVE IndInv'
<1> DEFINE out == OutputTo(newFd, <<Opcode("EXIT")>>)
<1> USE DEF IndInv, TypeOK, memory, subscriberVars
<1>1. out \in Outputs
  BY OpcodeOutputType DEF Opcodes
<1>2. CASE StopInWrite(out)
  BY <1>1, <1>2, StopInWriteInd
<1>3. CASE /\ down' = Received(out)
           /\ Refused(r)
           /\ UNCHANGED <<srv, udp, log, memory, backlog>>
  <2> USE <1>3 DEF Refused
  <2>1. /\ newFd \in ClientFds /\ newFd # NoFd /\ newFd \notin readFds
        /\ r \in Held
        /\ \A q \in Held : q # r => fd[q] # newFd
        /\ ready' \subseteq ready /\ TcpFd \notin ready' /\ newFd' = NoFd
        /\ fd[r] = newFd
    BY IdReadFacts DEF RefuseId, ReadingId
  <2>2. /\ link' \in [Runs -> LinkStates] /\ up' \in [Runs -> Seq(UpFrame)]
        /\ fd' \in [Runs -> {NoFd} \cup ClientFds]
        /\ up'[r] = << >> /\ fd'[r] = NoFd
        /\ \A q \in Runs : q # r => link'[q] = link[q] /\ up'[q] = up[q] /\ fd'[q] = fd[q]
        /\ Waiting' = Waiting /\ Held' = Held \ {r}
        /\ ConnectionsOK'
    BY <2>1, ServerClosesFacts
  <2>3. TypeOK'
    <3>1. down' \in [Runs -> Seq(DownFrame)]
      BY <1>1, ReceivedType
    <3> QED BY <2>1, <2>2, <3>1 DEF TransportTypeOK, ServerTypeOK, SubscriberTypeOK
  <2>4. SnapshotOK' /\ LoopFindsClient'
    BY <2>1 DEF SnapshotOK, LoopFindsClient
  <2>5. GreetingOK'
    <3>1. \A q \in Runs : Unread(q)' => Unread(q) /\ q # r
      BY <2>1, <2>2 DEF Unread, ConnectionsOK
    <3> QED BY <2>2, <3>1 DEF GreetingOK
  <2>6. TablesAgree'
    <3>1. \A f \in readFds : \E q \in Runs : fd'[q] = f
      BY <2>1, <2>2 DEF TablesAgree
    <3> QED BY <3>1, TablesKept
  <2>7. FdAccounting'
    <3>1. \A q \in Held' : /\ q \in Held /\ q # r
                           /\ fd'[q] = fd[q] /\ link'[q] = link[q] /\ up'[q] = up[q]
      BY <2>2 DEF Held
    <3>2. \A q \in Held' : fd[q] \in readFds /\ fd[q] \notin leaked
      BY <2>1, <3>1 DEF FdAccounting
    <3>3. readFds' = readFds /\ leaked' = leaked
      OBVIOUS
    <3> QED BY <2>1, <3>1, <3>2, <3>3 DEF FdAccounting
  <2> QED BY <2>2, <2>3, <2>4, <2>5, <2>6, <2>7
<1> QED BY <1>2, <1>3 DEF RefuseId

LEMMA AdmitIdInd ==
  ASSUME IndInv, NEW r \in Runs, AdmitId(r), UNCHANGED subscriberVars
  PROVE IndInv'
<1> DEFINE id == Head(up[r]).id
           out == OutputTo(newFd, MissedFrames(id))
           client == [sock |-> newFd, sf |-> saved[id].sf, missed |-> << >>]
<1> USE DEF IndInv, TypeOK, subscriberVars
<1>1. ReadingId(r) /\ up[r] # << >> /\ ~IsConnected(id)
  BY DEF AdmitId
<1>2. id \in Ids
  <2>1. Head(up[r]) \in UpFrame
    BY <1>1 DEF TransportTypeOK
  <2>2. Head(up[r]).type = "ID"
    BY <1>1 DEF ReadingId, GreetingOK, Unread
  <2> QED BY <2>1, <2>2 DEF UpFrame, Request
<1>3. out \in Outputs
  <2>1. saved[id].missed \in Seq(1 .. MaxPub)
    BY <1>2 DEF ServerTypeOK, Client
  <2>2. MissedFrames(id) \in Seq(DownFrame)
    BY <2>1, FrameTypes, ConstantsAssumption, SMTT(30) DEF MissedFrames
  <2> QED BY <2>2, OutputToType
<1>4. CASE StopInWrite(out)
  BY <1>3, <1>4, StopInWriteInd
<1>5. CASE /\ down' = Received(out)
           /\ Consume(r)
           /\ readFds' = readFds \cup {newFd}
           /\ fdmax' = IF newFd > fdmax THEN newFd ELSE fdmax
           /\ Joins(id, newFd)
           /\ IdRead
           /\ UNCHANGED <<srv, udp, log, leaked, topics, subs, link, backlog, fd>>
  <2> USE <1>5 DEF Joins
  <2>1. /\ newFd \in ClientFds /\ newFd # NoFd /\ newFd \notin readFds
        /\ r \in Held /\ r \notin Waiting
        /\ \A q \in Held : q # r => fd[q] # newFd
        /\ ready' \subseteq ready /\ TcpFd \notin ready' /\ newFd' = NoFd
        /\ fd[r] = newFd
    BY <1>1, IdReadFacts DEF ReadingId
  <2>2. /\ up' = [up EXCEPT ![r] = Tail(@)] /\ Tail(up[r]) \in Seq(UpFrame)
        /\ \A q \in Runs : q # r => up'[q] = up[q]
    BY <1>1 DEF Consume, TransportTypeOK
  <2>3. TransportTypeOK'
    <3>1. down' \in [Runs -> Seq(DownFrame)]
      BY <1>3, ReceivedType
    <3> QED BY <2>2, <3>1 DEF TransportTypeOK
  <2>4. ServerTypeOK'
    <3>1. client \in Client /\ NoClient \in Client
      BY <1>2, <2>1 DEF Client, NoClient, ServerTypeOK
    <3>2. connected' \in [Ids -> Client] /\ saved' \in [Ids -> Client]
      BY <3>1 DEF ServerTypeOK
    <3>3. fdmax' \in {TcpFd} \cup ClientFds /\ readFds' \in SUBSET ClientFds
      BY <2>1 DEF ServerTypeOK
    <3> QED BY <2>1, <3>2, <3>3 DEF ServerTypeOK
  <2>5. SubscriberTypeOK'
    BY DEF SubscriberTypeOK
  <2>6. ConnectionsOK'
    <3>1. link[r] \notin {"none", "sfin", "srst"}
      BY <2>1 DEF ConnectionsOK
    <3> QED BY <2>2, <3>1 DEF ConnectionsOK, Waiting, Held
  <2>7. SnapshotOK'
    BY <2>1 DEF SnapshotOK
  <2>8. GreetingOK'
    <3>1. \A q \in Runs : Unread(q)' => Unread(q) /\ q # r
      BY <2>1 DEF Unread, Waiting
    <3>2. \A q \in Runs : proc[q] = "greeting" => up'[q] = << >>
      BY <1>1, <2>2 DEF GreetingOK
    <3> QED BY <2>2, <3>1, <3>2 DEF GreetingOK
  <2>9. TablesAgree'
    <3>1. /\ connected'[id].sock = newFd /\ saved'[id].sock = NoFd
          /\ \A i \in Ids : i # id => connected'[i] = connected[i] /\ saved'[i] = saved[i]
      BY <1>2 DEF ServerTypeOK, NoClient
    <3>2. connected[id].sock = NoFd
      BY <1>1 DEF IsConnected
    <3>3. readFds' = ConnectedSocks'
      BY <1>2, <2>1, <3>1, <3>2 DEF TablesAgree, ConnectedSocks
    <3>4. \A i, j \in Ids : connected'[i].sock # NoFd /\ i # j
                           => connected'[i].sock # connected'[j].sock
      <4>1. \A i \in Ids : connected[i].sock # newFd
        BY <2>1 DEF TablesAgree, ConnectedSocks
      <4> QED BY <3>1, <4>1 DEF TablesAgree, IsConnected
    <3>5. \A i \in Ids : connected'[i].sock = NoFd \/ saved'[i].sock = NoFd
      BY <3>1 DEF TablesAgree, IsConnected, IsSaved
    <3>6. \A f \in readFds' : \E q \in Runs : fd'[q] = f
      BY <2>1 DEF TablesAgree
    <3> QED BY <3>3, <3>4, <3>5, <3>6 DEF TablesAgree, IsConnected, IsSaved
  <2>10. LoopFindsClient'
    <3> SUFFICES ASSUME NEW f \in ready' \cap ClientFds
                 PROVE f <= fdmax' /\ f \in readFds' /\ \E i \in Ids : connected'[i].sock = f
      BY DEF LoopFindsClient
    <3>1. PICK i \in Ids : connected[i].sock = f
      BY <2>1 DEF LoopFindsClient
    <3>2. f <= fdmax /\ f \in readFds
      BY <2>1 DEF LoopFindsClient
    <3>3. i # id
      BY <1>1, <3>1 DEF IsConnected, ClientFds, NoFd, TcpFd
    <3>4. connected'[i].sock = f
      BY <3>1, <3>3 DEF ServerTypeOK
    <3>5. f <= fdmax'
      BY <2>1, <3>2, ConstantsAssumption DEF ServerTypeOK, ClientFds, TcpFd
    <3> QED BY <3>2, <3>4, <3>5
  <2>11. FdAccounting'
    <3>1. Held' = Held /\ \A q \in Held : q \in Runs
      BY DEF Held
    <3> QED BY <2>1, <2>2, <3>1 DEF FdAccounting
  <2> QED BY <2>3, <2>4, <2>5, <2>6, <2>7, <2>8, <2>9, <2>10, <2>11
<1> QED BY <1>4, <1>5 DEF AdmitId

(* A request may change what the client follows; its answer leaves the      *)
(* sockets and the descriptors as they are.                                 *)
LEMMA AnswerInd ==
  ASSUME IndInv, UNCHANGED subscriberVars,
         NEW r \in Runs, NEW id \in Ids, HandlingClient(r, id), up[r] # << >>,
         NEW o \in Opcodes, Answer(r, o),
         topics' \in SUBSET Topics,
         subs' \in [Topics -> [Ids -> {NoFd} \cup ClientFds]],
         connected' \in [Ids -> Client],
         \A i \in Ids : connected'[i].sock = connected[i].sock
  PROVE IndInv'
<1> USE DEF IndInv, TypeOK, Answer, subscriberVars
<1>1. /\ newFd = NoFd /\ r \in Held /\ ready' \subseteq ready
      /\ up' = [up EXCEPT ![r] = Tail(@)] /\ Tail(up[r]) \in Seq(UpFrame)
      /\ \A q \in Runs : q # r => up'[q] = up[q]
  BY DEF HandlingClient, Handling, Held, Handled, Consume, TransportTypeOK
<1>2. TransportTypeOK' /\ SubscriberTypeOK'
  <2>1. down' \in [Runs -> Seq(DownFrame)]
    BY OpcodeOutputType, ReceivedType DEF Reply
  <2> QED BY <1>1, <2>1 DEF TransportTypeOK, SubscriberTypeOK
<1>3. ServerTypeOK'
  BY <1>1 DEF ServerTypeOK
<1>4. ConnectionsOK'
  <2>1. link[r] \notin {"none", "sfin", "srst"}
    BY <1>1 DEF ConnectionsOK
  <2> QED BY <1>1, <2>1 DEF ConnectionsOK, Waiting, Held
<1>5. SnapshotOK'
  BY <1>1 DEF SnapshotOK
<1>6. GreetingOK'
  <2>1. \A q \in Runs : Unread(q)' => Unread(q) /\ q # r
    BY <1>1 DEF Unread, Waiting, ConnectionsOK
  <2>2. \A q \in Runs : proc[q] = "greeting" => up'[q] = << >>
    BY <1>1 DEF GreetingOK
  <2> QED BY <1>1, <2>1, <2>2 DEF GreetingOK
<1>7. ConnectedSocks' = ConnectedSocks
  BY DEF ConnectedSocks
<1>8. TablesAgree'
  BY <1>7 DEF TablesAgree, IsConnected, IsSaved
<1>9. LoopFindsClient'
  BY <1>1 DEF LoopFindsClient
<1>10. FdAccounting'
  BY <1>1 DEF FdAccounting, Held
<1> QED BY <1>2, <1>3, <1>4, <1>5, <1>6, <1>8, <1>9, <1>10

(* The frame of a request read by the server is one.                        *)
LEMMA RequestType ==
  ASSUME TypeOK, NEW r \in Runs, up[r] # << >>,
         Head(up[r]).type \in {"SUBSCRIBE", "UNSUBSCRIBE"}
  PROVE Head(up[r]).topic \in Topics
<1>1. Head(up[r]) \in UpFrame
  BY DEF TypeOK, TransportTypeOK
<1> QED BY <1>1 DEF UpFrame, Request

LEMMA UnsubscribeInd ==
  ASSUME IndInv, UNCHANGED subscriberVars,
         NEW r \in Runs, NEW id \in Ids, Unsubscribe(r, id)
  PROVE IndInv'
<1> DEFINE t == Head(up[r]).topic
           out == Reply(r, "UNSUBSCRIBED")
<1> USE DEF IndInv, TypeOK
<1>1. HandlingClient(r, id) /\ up[r] # << >> /\ t \in Topics
  BY RequestType DEF Unsubscribe
<1>2. CASE Answer(r, "NO_TOPIC") /\ UNCHANGED <<topics, subs, connected>>
  BY <1>1, <1>2, AnswerInd DEF Opcodes, ServerTypeOK
<1>3. CASE /\ subs' = [subs EXCEPT ![t][id] = NoFd]
           /\ Answer(r, "UNSUBSCRIBED") /\ UNCHANGED <<topics, connected>>
  <2>1. subs' \in [Topics -> [Ids -> {NoFd} \cup ClientFds]]
    BY <1>3 DEF ServerTypeOK
  <2> QED BY <1>1, <1>3, <2>1, AnswerInd DEF Opcodes, ServerTypeOK
<1>4. CASE StopInWrite(out)
  BY <1>4, StopInWriteInd, OpcodeOutputType DEF Reply, Opcodes
<1> QED BY <1>2, <1>3, <1>4 DEF Unsubscribe

LEMMA SubscribeInd ==
  ASSUME IndInv, UNCHANGED subscriberVars,
         NEW r \in Runs, NEW id \in Ids, Subscribe(r, id)
  PROVE IndInv'
<1> DEFINE m == Head(up[r])
           t == m.topic
           out == Reply(r, "SUBSCRIBED")
<1> USE DEF IndInv, TypeOK
<1>1. HandlingClient(r, id) /\ up[r] # << >> /\ t \in Topics
  BY RequestType DEF Subscribe
<1>2. CASE /\ Answer(r, "ALREADY_SUB")
           /\ topics' = topics \cup {t} /\ UNCHANGED <<subs, connected>>
  BY <1>1, <1>2, AnswerInd DEF Opcodes, ServerTypeOK
<1>3. CASE /\ topics' = topics \cup {t}
           /\ subs' = [subs EXCEPT ![t][id] = connected[id].sock]
           /\ Answer(r, "SUBSCRIBED")
           /\ connected' = IF m.sf THEN [connected EXCEPT ![id].sf = @ \cup {t}]
                                   ELSE connected
  <2>1. subs' \in [Topics -> [Ids -> {NoFd} \cup ClientFds]]
    BY <1>3 DEF ServerTypeOK, Client
  <2>2. /\ connected' \in [Ids -> Client]
        /\ \A i \in Ids : connected'[i].sock = connected[i].sock
    <3>1. connected \in [Ids -> Client]
      BY DEF ServerTypeOK
    <3>2. CASE connected' = [connected EXCEPT ![id].sf = @ \cup {t}]
      BY <1>1, <3>1, <3>2 DEF Client
    <3>3. CASE connected' = connected
      BY <3>1, <3>3
    <3> QED BY <1>3, <3>2, <3>3
  <2> QED BY <1>1, <1>3, <2>1, <2>2, AnswerInd DEF Opcodes, ServerTypeOK
<1>4. CASE StopInWrite(out)
  BY <1>4, StopInWriteInd, OpcodeOutputType DEF Reply, Opcodes
<1> QED BY <1>2, <1>3, <1>4 DEF Subscribe

LEMMA DisconnectInd ==
  ASSUME IndInv, UNCHANGED subscriberVars,
         NEW r \in Runs, NEW id \in Ids, Disconnect(r, id)
  PROVE IndInv'
<1> USE DEF IndInv, TypeOK, subscriberVars
<1>1. /\ HandlingClient(r, id) /\ Handled(fd[r]) /\ ServerCloses(r, 0)
      /\ saved' = IF connected[id].sf # {} /\ ~IsSaved(id)
                  THEN [saved EXCEPT ![id] = connected[id]] ELSE saved
      /\ connected' = [connected EXCEPT ![id] = NoClient]
      /\ readFds' = readFds \ {fd[r]}
      /\ UNCHANGED <<srv, udp, log, newFd, leaked, fdmax, topics, subs, down, backlog>>
  BY DEF Disconnect, Unwatch
<1>2. /\ newFd = NoFd /\ r \in Held /\ IsConnected(id) /\ connected[id].sock = fd[r]
      /\ ready' = ready \ {fd[r]}
  BY <1>1 DEF HandlingClient, Handling, Held, Handled
<1>3. /\ link' \in [Runs -> LinkStates] /\ up' \in [Runs -> Seq(UpFrame)]
      /\ fd' \in [Runs -> {NoFd} \cup ClientFds]
      /\ up'[r] = << >> /\ fd'[r] = NoFd
      /\ \A q \in Runs : q # r => link'[q] = link[q] /\ up'[q] = up[q] /\ fd'[q] = fd[q]
      /\ Waiting' = Waiting /\ Held' = Held \ {r}
      /\ ConnectionsOK'
  BY <1>1, <1>2, ServerClosesFacts
<1>4. /\ connected'[id].sock = NoFd
      /\ \A i \in Ids : i # id => connected'[i] = connected[i] /\ saved'[i] = saved[i]
      /\ connected' \in [Ids -> Client] /\ saved' \in [Ids -> Client]
  BY <1>1 DEF ServerTypeOK, NoClient, Client
<1>5. TypeOK'
  BY <1>1, <1>2, <1>3, <1>4 DEF TransportTypeOK, ServerTypeOK, SubscriberTypeOK
<1>6. SnapshotOK'
  BY <1>1, <1>2 DEF SnapshotOK
<1>7. GreetingOK'
  <2>1. \A q \in Runs : Unread(q)' => Unread(q) /\ q # r
    BY <1>1, <1>2, <1>3 DEF Unread, ConnectionsOK
  <2> QED BY <1>3, <2>1 DEF GreetingOK
<1>8. TablesAgree'
  <2>1. \A i \in Ids : i # id => connected[i].sock # fd[r]
    BY <1>2 DEF TablesAgree, IsConnected
  <2>2. readFds' = ConnectedSocks'
    BY <1>1, <1>2, <1>4, <2>1 DEF TablesAgree, ConnectedSocks
  <2>3. \A i, j \in Ids : IsConnected(i)' /\ i # j
                         => connected'[i].sock # connected'[j].sock
    BY <1>4 DEF TablesAgree, IsConnected
  <2>4. \A i \in Ids : ~IsConnected(i)' \/ ~IsSaved(i)'
    BY <1>4 DEF TablesAgree, IsConnected, IsSaved
  <2>5. \A f \in readFds' : \E q \in Runs : fd'[q] = f
    BY <1>1, <1>3 DEF TablesAgree
  <2> QED BY <2>2, <2>3, <2>4, <2>5 DEF TablesAgree
<1>9. LoopFindsClient'
  BY <1>1, <1>2, <1>4 DEF LoopFindsClient
<1>10. FdAccounting'
  <2>1. \A q \in Held' : /\ q \in Held /\ q # r
                         /\ fd'[q] = fd[q] /\ link'[q] = link[q] /\ up'[q] = up[q]
    BY <1>3 DEF Held
  <2>2. \A q \in Held' : fd[q] # fd[r]
    BY <1>2, <2>1 DEF FdAccounting
  <2> QED BY <1>1, <1>2, <2>1, <2>2 DEF FdAccounting
<1> QED BY <1>3, <1>5, <1>6, <1>7, <1>8, <1>9, <1>10

LEMMA RecvResetInd ==
  ASSUME IndInv, UNCHANGED subscriberVars, NEW r \in Runs, RecvReset(r)
  PROVE IndInv'
BY StopInd, NoOutputType DEF RecvReset, Endings

-----------------------------------------------------------------------------
LEMMA InitInd == Init => IndInv
<1> SUFFICES ASSUME Init PROVE IndInv
  OBVIOUS
<1> USE DEF Init, TransportInit, ServerInit, SubscriberInit
<1>1. TypeOK
  BY ConstantsAssumption
     DEF TypeOK, TransportTypeOK, ServerTypeOK, SubscriberTypeOK, LinkStates,
         ProcStates, NoClient, Client, NoSubs
<1>2. Waiting = {} /\ Held = {} /\ \A r \in Runs : ~Unread(r)
  BY DEF Waiting, Held, Unread
<1>3. ConnectionsOK /\ SnapshotOK /\ GreetingOK
  BY <1>2 DEF ConnectionsOK, SnapshotOK, GreetingOK
<1>4. TablesAgree /\ LoopFindsClient /\ FdAccounting
  BY <1>2 DEF TablesAgree, ConnectedSocks, IsConnected, IsSaved, NoClient,
              LoopFindsClient, FdAccounting
<1> QED BY <1>1, <1>3, <1>4 DEF IndInv

LEMMA StutterInd == IndInv /\ UNCHANGED vars => IndInv'
<1> SUFFICES ASSUME IndInv, UNCHANGED vars PROVE IndInv'
  OBVIOUS
<1> USE DEF IndInv, vars, transportVars, serverVars, subscriberVars, memory
<1>1. TypeOK' /\ TablesAgree' /\ LoopFindsClient' /\ Held' = Held
  BY ServerSideKept DEF TypeOK, TransportTypeOK, SubscriberTypeOK
<1>2. ConnectionsOK' /\ SnapshotOK' /\ GreetingOK'
  BY <1>1 DEF ConnectionsOK, SnapshotOK, GreetingOK, Unread, Waiting
<1>3. FdAccounting'
  BY <1>1 DEF FdAccounting
<1> QED BY <1>1, <1>2, <1>3

LEMMA NextInd == IndInv /\ Next => IndInv'
<1> SUFFICES ASSUME IndInv, Next PROVE IndInv'
  OBVIOUS
<1>1. CASE ServerStep
  BY <1>1, SelectInd, UdpMessageInd, AcceptInd, NoIdInd, RefuseIdInd, AdmitIdInd,
     RecvResetInd, UnsubscribeInd, SubscribeInd, DisconnectInd DEF ServerStep
<1>2. CASE ServerInput
  BY <1>2, CloseAllInd, PublishInd DEF ServerInput
<1>3. ASSUME NEW r \in Runs, Greets(r) PROVE IndInv'
  BY <1>3, SendIdInd DEF Greets
<1>4. ASSUME NEW r \in Runs, Reads(r) PROVE IndInv'
  BY <1>4, ReadInd, EndsInd DEF Reads, ReadExit, ServerReset
<1>5. ASSUME NEW r \in Runs, SubscriberInput(r) PROVE IndInv'
  BY <1>5, ConnectInd, SendRequestInd, EndsInd DEF SubscriberInput, Quit
<1> QED BY <1>1, <1>2, <1>3, <1>4, <1>5 DEF Next

(* The invariant that the rest follows from.                                *)
THEOREM Inductive == Spec => []IndInv
<1>1. IndInv /\ [Next]_vars => IndInv'
  BY NextInd, StutterInd
<1> QED BY <1>1, InitInd, PTL DEF Spec

(* Every variable keeps its type: in particular what the handlers read from *)
(* a queue is a frame of the kind they take it for.                         *)
THEOREM TypeCorrect == Spec => []TypeOK
<1>1. IndInv => TypeOK
  BY DEF IndInv
<1> QED BY <1>1, Inductive, PTL

(* connected_clients, saved_clients and read_fds describe the same clients, *)
(* however many there are.                                                  *)
THEOREM TablesAlwaysAgree == Spec => []TablesAgree
<1>1. IndInv => TablesAgree
  BY DEF IndInv
<1> QED BY <1>1, Inductive, PTL

(* No order of closing and accepting within one round of the loop makes     *)
(* main() look up a descriptor that no client has.                          *)
THEOREM LoopAlwaysFindsClient == Spec => []LoopFindsClient
<1>1. IndInv => LoopFindsClient
  BY DEF IndInv
<1> QED BY <1>1, Inductive, PTL

(* The only descriptors the server loses are those of connections that      *)
(* ended before their ID.                                                   *)
THEOREM DescriptorsAccounted == Spec => []FdAccounting
<1>1. IndInv => FdAccounting
  BY DEF IndInv
<1> QED BY <1>1, Inductive, PTL
=============================================================================
