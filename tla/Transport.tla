------------------------------ MODULE Transport ------------------------------
(****************************************************************************)
(* The TCP connections between subscriber processes and the server of       *)
(* Tema-2-PCom, as its code uses them: connect/accept, the framed           *)
(* proto_send/proto_recv, close, and the end of a process.                  *)
(*                                                                          *)
(* A run is one execution of ./subscriber, which opens exactly one          *)
(* connection (subscriber.cpp:27).  A run and its connection are            *)
(* recycled once both ends are closed.  A frame is one proto_send: its      *)
(* two send() calls arrive as a unit here.                                  *)
(****************************************************************************)
EXTENDS Integers, Sequences, FiniteSets

CONSTANTS
  Runs,    \* concurrent subscriber processes
  Ids,     \* client IDs, argv[1] of a subscriber
  Topics,  \* topic names
  MaxFd,   \* largest descriptor the server process may hold
  MaxPub   \* bound: datagrams published in one behaviour

(* An ID is at most one buffer long, so there are finitely many.            *)
ASSUME ConstantsAssumption ==
  /\ IsFiniteSet(Ids)
  /\ MaxFd \in Nat
  /\ MaxPub \in Nat

(* server.cpp:17-19: socket() is called twice for tcp_sockfd, so descriptor *)
(* 3 is lost, the UDP socket is 4 and the listening one is 5.               *)
UdpFd == 4
TcpFd == 5
ClientFds == (TcpFd + 1) .. MaxFd
NoFd == 0

VARIABLES
  link,    \* kernel state of each run's connection
  up,      \* frames sent by the subscriber and not yet received
  down,    \* frames sent by the server and not yet received
  backlog, \* connections established and not yet accepted, oldest first
  fd,      \* the server's descriptor of the connection, or NoFd
  leaked   \* descriptors the server will never close, their peers gone

transportVars == <<link, up, down, backlog, fd>>

(****************************************************************************)
(* none: no connection.  open: both ends open.  cfin, crst: the subscriber  *)
(* closed, leaving no unread data (FIN) or some (RST).  sfin, srst: the     *)
(* same for the server's end.                                               *)
(****************************************************************************)
LinkStates == {"none", "open", "cfin", "crst", "sfin", "srst"}
PeerGone(r) == link[r] \in {"cfin", "crst"}
ServerGone(r) == link[r] \in {"sfin", "srst"}

Request == [type : {"SUBSCRIBE", "UNSUBSCRIBE"}, topic : Topics, sf : BOOLEAN]
UpFrame == [type : {"ID"}, id : Ids] \cup Request

Opcodes == {"EXIT", "NO_TOPIC", "SUBSCRIBED", "UNSUBSCRIBED", "ALREADY_SUB"}
Opcode(o) == [op |-> o, seq |-> 0]
Data(n) == [op |-> "MSG", seq |-> n]
DownFrame == [op : Opcodes \cup {"MSG"}, seq : 0 .. MaxPub]

TransportTypeOK ==
  /\ link \in [Runs -> LinkStates]
  /\ up \in [Runs -> Seq(UpFrame)]
  /\ down \in [Runs -> Seq(DownFrame)]
  /\ backlog \in Seq(Runs)
  /\ fd \in [Runs -> {NoFd} \cup ClientFds]

TransportInit ==
  /\ link = [r \in Runs |-> "none"]
  /\ up = [r \in Runs |-> << >>]
  /\ down = [r \in Runs |-> << >>]
  /\ backlog = << >>
  /\ fd = [r \in Runs |-> NoFd]

Waiting == {backlog[k] : k \in 1 .. Len(backlog)}
Held == {r \in Runs : fd[r] # NoFd}
FreeFds == {f \in ClientFds \ leaked : \A r \in Runs : fd[r] # f}

-----------------------------------------------------------------------------
(* The subscriber's end. *)

ClientConnects(r) ==
  /\ link[r] = "none"
  /\ link' = [link EXCEPT ![r] = "open"]
  /\ backlog' = Append(backlog, r)
  /\ UNCHANGED <<up, down, fd>>

ClientSends(r, m) ==
  /\ link[r] = "open"
  /\ up' = [up EXCEPT ![r] = Append(@, m)]
  /\ UNCHANGED <<link, down, backlog, fd>>

ClientReceives(r) ==
  /\ down[r] # << >>
  /\ down' = [down EXCEPT ![r] = Tail(@)]
  /\ UNCHANGED <<link, up, backlog, fd>>

(* close(sockfd) or the end of the process: with unread data in the receive *)
(* buffer the kernel resets the connection instead of finishing it.         *)
ClientCloses(r) ==
  /\ \/ /\ link[r] = "open"
        /\ link' = [link EXCEPT ![r] = IF down[r] = << >> THEN "cfin" ELSE "crst"]
        /\ UNCHANGED up
     \/ /\ ServerGone(r)
        /\ link' = [link EXCEPT ![r] = "none"]
        /\ up' = [up EXCEPT ![r] = << >>]
  /\ down' = [down EXCEPT ![r] = << >>]
  /\ UNCHANGED <<backlog, fd>>

-----------------------------------------------------------------------------
(****************************************************************************)
(* The server's end.  out[f] is what one handler writes to descriptor f.    *)
(****************************************************************************)
NoOutput == [f \in ClientFds |-> << >>]
OutputTo(f, frames) == [NoOutput EXCEPT ![f] = frames]

(* A write works unless the descriptor is closed or the connection was      *)
(* reset; to a peer that only closed, the data may vanish silently.         *)
CanWrite(out) ==
  \A f \in ClientFds :
    out[f] # << >> => f \in leaked \/ \E r \in Runs : fd[r] = f /\ link[r] # "crst"

Received(out) ==
  [r \in Runs |-> IF r \in Held /\ link[r] = "open" THEN down[r] \o out[fd[r]]
                                                    ELSE down[r]]

(* EBADF makes DIE exit the process; a peer that is gone raises SIGPIPE or  *)
(* ECONNRESET, and either of them ends it too.                              *)
WriteError(out, error) ==
  \E f \in ClientFds :
    /\ out[f] # << >>
    /\ \/ error = "EBADF" /\ f \in FreeFds
       \/ error = "EPIPE" /\ (f \in leaked \/ \E r \in Runs : fd[r] = f /\ PeerGone(r))

(* Closing with unread data resets the connection instead of finishing it.  *)
AfterServerClose(r, unread) ==
  IF PeerGone(r) THEN "none" ELSE IF unread THEN "srst" ELSE "sfin"

(* close() on the connection of r, its first n frames having been read.     *)
ServerCloses(r, n) ==
  /\ link' = [link EXCEPT ![r] = AfterServerClose(r, Len(up[r]) > n)]
  /\ up' = [up EXCEPT ![r] = << >>]
  /\ fd' = [fd EXCEPT ![r] = NoFd]

(* The kernel closes every descriptor of a process that ends, and resets    *)
(* what waits in the backlog; the handler it was in had written out to the  *)
(* descriptors in done.                                                     *)
ServerProcessEnds(out, done) ==
  /\ link' = [r \in Runs |->
       IF r \in Held \cup Waiting
       THEN AfterServerClose(r, up[r] # << >> \/ r \in Waiting) ELSE link[r]]
  /\ up' = [r \in Runs |-> IF r \in Held \cup Waiting THEN << >> ELSE up[r]]
  /\ down' = Received([f \in ClientFds |-> IF f \in done THEN out[f] ELSE << >>])
  /\ backlog' = << >>
  /\ fd' = [r \in Runs |-> NoFd]
=============================================================================
