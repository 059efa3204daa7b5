------------------------------- MODULE Server -------------------------------
(****************************************************************************)
(* The broker of Tema-2-PCom: main() of server.cpp, the handlers of         *)
(* server_funs.cpp and the Client records of Client.cpp.  One thread runs   *)
(* select(), then handles the descriptors of the snapshot tmp_fds in        *)
(* ascending order; each handler is one action, except that accept() and    *)
(* the blocking read of the ID that follows it are two.                     *)
(****************************************************************************)
EXTENDS Transport

VARIABLES
  srv,       \* "running", "exited", or what ended the process
  udp,       \* topics of the datagrams in the UDP socket, oldest first
  log,       \* topics of the datagrams handled; message n is the n-th
  ready,     \* tmp_fds: the descriptors of the snapshot still to handle
  newFd,     \* accepted descriptor whose ID is being read, or NoFd
  readFds,   \* the client descriptors of read_fds
  fdmax,
  connected, \* connected_clients
  saved,     \* saved_clients
  topics,    \* the keys of topics
  subs       \* subs[t][id]: the socket in the copy of Client that
             \* topics[t] holds for id, or NoFd when it holds none

memory == <<leaked, readFds, fdmax, connected, saved, topics, subs>>
serverVars == <<srv, udp, log, ready, newFd, memory>>

(* A Client record.  sf is a set: the code only asks whether the vector is  *)
(* empty and what it contains.  NoClient stands for an absent key.          *)
Client == [sock : {NoFd} \cup ClientFds, sf : SUBSET Topics,
           missed : Seq(1 .. MaxPub)]
NoClient == [sock |-> NoFd, sf |-> {}, missed |-> << >>]
NoSubs == [id \in Ids |-> NoFd]

Endings == {"exited", "EBADF", "EPIPE", "ECONNRESET", "EMFILE"}

ServerTypeOK ==
  /\ srv \in {"running"} \cup Endings
  /\ udp \in Seq(Topics)
  /\ log \in Seq(Topics)
  /\ Len(log) + Len(udp) \in 0 .. MaxPub
  /\ ready \in SUBSET ({UdpFd, TcpFd} \cup ClientFds)
  /\ newFd \in {NoFd} \cup ClientFds
  /\ leaked \in SUBSET ClientFds
  /\ readFds \in SUBSET ClientFds
  /\ fdmax \in {TcpFd} \cup ClientFds
  /\ connected \in [Ids -> Client]
  /\ saved \in [Ids -> Client]
  /\ topics \in SUBSET Topics
  /\ subs \in [Topics -> [Ids -> {NoFd} \cup ClientFds]]

ServerInit ==
  /\ srv = "running"
  /\ udp = << >> /\ log = << >>
  /\ ready = {}
  /\ newFd = NoFd
  /\ leaked = {}
  /\ readFds = {}
  /\ fdmax = TcpFd
  /\ connected = [id \in Ids |-> NoClient]
  /\ saved = [id \in Ids |-> NoClient]
  /\ topics = {}
  /\ subs = [t \in Topics |-> NoSubs]

IsConnected(id) == connected[id].sock # NoFd
IsSaved(id) == saved[id].sock # NoFd
IsSubscribed(id, t) == subs[t][id] # NoFd

(* The smallest descriptor of a set: the next of the loop, or what accept() *)
(* returns, since the kernel hands out the lowest free one.                 *)
IsLowest(f, S) == f \in S /\ \A g \in S : f <= g

Handling(f) == srv = "running" /\ newFd = NoFd /\ IsLowest(f, ready)

(* mutant: break instead of continue, so the rest of the snapshot is dropped *)
HandledAlone(f) == ready' = {}

Handled(f) == ready' = ready \ {f}

-----------------------------------------------------------------------------
(* The end of the process: nothing it held survives. *)

Forget ==
  /\ ready' = {}
  /\ newFd' = NoFd
  /\ leaked' = {}
  /\ readFds' = {}
  /\ fdmax' = TcpFd
  /\ connected' = [id \in Ids |-> NoClient]
  /\ saved' = [id \in Ids |-> NoClient]
  /\ topics' = {}
  /\ subs' = [t \in Topics |-> NoSubs]

Stop(ending, out, done) ==
  /\ srv' = ending
  /\ udp' = << >>
  /\ UNCHANGED log
  /\ Forget
  /\ ServerProcessEnds(out, done)

(* A failed write ends the process; the descriptors the handler had         *)
(* already written to got their frames.                                     *)
StopInWrite(out) ==
  \E error \in {"EBADF", "EPIPE"} :
    /\ WriteError(out, error)
    /\ \E done \in SUBSET {f \in ClientFds : out[f] # << >>} :
         Stop(error, out, done)

-----------------------------------------------------------------------------
(* The event loop. *)

Readable(r) == up[r] # << >> \/ PeerGone(r)

(* mutant: the loop starts at 0 and takes stdin for a client *)
ReadyFdsFromZero ==
  {0}
    \cup {f \in {UdpFd} : udp # << >>}
    \cup {f \in {TcpFd} : backlog # << >>}
    \cup {f \in readFds : f <= fdmax /\ \E r \in Runs : fd[r] = f /\ Readable(r)}

ReadyFds ==
  {f \in {UdpFd} : udp # << >>}
    \cup {f \in {TcpFd} : backlog # << >>}
    \cup {f \in readFds : f <= fdmax /\ \E r \in Runs : fd[r] = f /\ Readable(r)}

AtSelect == srv = "running" /\ newFd = NoFd /\ ready = {}

Select ==
  /\ AtSelect
  /\ ReadyFds # {}
  /\ ready' = ReadyFds
  /\ UNCHANGED <<srv, udp, log, newFd, memory, transportVars>>

(* mutant: the loop of close_all stops short of fdmax *)
ExitFramesShort ==
  [f \in ClientFds |-> IF f \in readFds /\ f < fdmax THEN <<Opcode("EXIT")>> ELSE << >>]

ExitFrames ==
  [f \in ClientFds |-> IF f \in readFds /\ f <= fdmax THEN <<Opcode("EXIT")>> ELSE << >>]

(* "exit" on stdin is looked at before the snapshot; close_all tells and    *)
(* closes every client, and main returns.                                   *)
CloseAll ==
  /\ AtSelect
  /\ \/ CanWrite(ExitFrames) /\ Stop("exited", ExitFrames, ClientFds)
     \/ StopInWrite(ExitFrames)

-----------------------------------------------------------------------------
(* UDP: a datagram of a known topic goes to its subscribers. *)

(* mutant: a message is written to every entry, the client connected or not *)
FanoutToAll(t, frame) ==
  LET entries(f) == {id \in Ids : subs[t][id] = f}
  IN  [f \in ClientFds |-> [k \in 1 .. Cardinality(entries(f)) |-> frame]]

(* mutant: a message of a store-and-forward topic is only ever stored       *)
FanoutUnlessStored(t, frame) ==
  LET entries(f) == {id \in Ids : /\ IsConnected(id) /\ subs[t][id] = f
                                  /\ t \notin connected[id].sf}
  IN  [f \in ClientFds |-> [k \in 1 .. Cardinality(entries(f)) |-> frame]]

(* The frames send_new_msg writes: one per entry of the topic whose client  *)
(* is connected, to the socket in that entry.                               *)
Fanout(t, frame) ==
  LET entries(f) == {id \in Ids : IsConnected(id) /\ subs[t][id] = f}
  IN  [f \in ClientFds |-> [k \in 1 .. Cardinality(entries(f)) |-> frame]]

(* mutant: the SF vector is taken for the subscriptions *)
StoresForUnsubscribed(id, t) == ~IsConnected(id) /\ IsSaved(id) /\ t \in saved[id].sf

(* mutant: the SF vector is not looked at *)
StoresForAnyTopic(id, t) == IsSubscribed(id, t) /\ ~IsConnected(id) /\ IsSaved(id)

StoresFor(id, t) ==
  IsSubscribed(id, t) /\ ~IsConnected(id) /\ IsSaved(id) /\ t \in saved[id].sf

UdpMessage ==
  LET t == Head(udp)
      n == Len(log) + 1
      out == IF t \in topics THEN Fanout(t, Data(n)) ELSE NoOutput
  IN  /\ Handling(UdpFd)
      /\ \/ /\ CanWrite(out)
            /\ Handled(UdpFd)
            /\ udp' = Tail(udp)
            /\ log' = Append(log, t)
            /\ topics' = topics \cup {t}
            /\ saved' = [id \in Ids |->
                 IF t \in topics /\ StoresFor(id, t)
                 THEN [saved[id] EXCEPT !.missed = Append(@, n)]
                 ELSE saved[id]]
            /\ down' = Received(out)
            /\ UNCHANGED <<srv, newFd, leaked, readFds, fdmax, connected, subs,
                           link, up, backlog, fd>>
         \/ StopInWrite(out)

Consume(r) == up' = [up EXCEPT ![r] = Tail(@)]

-----------------------------------------------------------------------------
(* A new connection: accept(), then proto_recv of the ID. *)

Accept ==
  LET r == Head(backlog)
  IN  /\ Handling(TcpFd)
      /\ \/ \E f \in ClientFds :
              /\ IsLowest(f, FreeFds)
              /\ newFd' = f
              /\ fd' = [fd EXCEPT ![r] = f]
              /\ backlog' = Tail(backlog)
              /\ UNCHANGED <<srv, udp, log, ready, memory, link, up, down>>
         \/ FreeFds = {} /\ Stop("EMFILE", NoOutput, {})

ReadingId(r) == srv = "running" /\ newFd # NoFd /\ fd[r] = newFd
IdRead == newFd' = NoFd /\ Handled(TcpFd)

(* mutant: a peer that left without an ID keeps the read waiting *)
NoIdWaits(r) == FALSE

(* proto_recv returned 0: the loop goes on and new_fd is never closed.      *)
NoId(r) ==
  /\ ReadingId(r)
  /\ up[r] = << >> /\ link[r] = "cfin"
  /\ IdRead
  /\ leaked' = leaked \cup {newFd}
  /\ ServerCloses(r, 0)
  /\ UNCHANGED <<srv, udp, log, readFds, fdmax, connected, saved, topics, subs,
                 down, backlog>>

(* mutant: already_connected without its close(new_fd) *)
RefusedNotClosed(r) == IdRead /\ UNCHANGED <<link, up, fd>>

Refused(r) == IdRead /\ ServerCloses(r, 1)

(* already_connected: the ID is taken, the newcomer is told to exit.        *)
RefuseId(r) ==
  LET out == OutputTo(newFd, <<Opcode("EXIT")>>)
  IN  /\ ReadingId(r)
      /\ up[r] # << >>
      /\ IsConnected(Head(up[r]).id)
      /\ \/ /\ CanWrite(out)
            /\ down' = Received(out)
            /\ Refused(r)
            /\ UNCHANGED <<srv, udp, log, memory, backlog>>
         \/ StopInWrite(out)

(* mutant: the queue read as a stack *)
MissedFramesReversed(id) ==
  [k \in DOMAIN saved[id].missed |->
     Data(saved[id].missed[Len(saved[id].missed) + 1 - k])]

(* mutant: popped before it is read, so the oldest is lost *)
MissedFramesButFirst(id) ==
  [k \in DOMAIN saved[id].missed \ {Len(saved[id].missed)} |->
     Data(saved[id].missed[k + 1])]

MissedFrames(id) == [k \in DOMAIN saved[id].missed |-> Data(saved[id].missed[k])]

(* mutant: send_missed without saved.erase(id) *)
JoinsTwice(id, f) ==
  /\ connected' = [connected EXCEPT ![id] = [sock |-> f, sf |-> saved[id].sf, missed |-> << >>]]
  /\ saved' = saved

(* mutant: send_missed without setClientSocket *)
JoinsOnOldSocket(id, f) ==
  /\ connected' = [connected EXCEPT ![id] =
       [sock |-> IF IsSaved(id) THEN saved[id].sock ELSE f,
        sf |-> saved[id].sf, missed |-> << >>]]
  /\ saved' = [saved EXCEPT ![id] = NoClient]

(* The Client record of a stored client is taken over, with its new socket  *)
(* and an empty queue; any other is new.                                    *)
Joins(id, f) ==
  /\ connected' = [connected EXCEPT ![id] = [sock |-> f, sf |-> saved[id].sf, missed |-> << >>]]
  /\ saved' = [saved EXCEPT ![id] = NoClient]

(* The client joins; a stored one first gets everything it missed.          *)
AdmitId(r) ==
  LET id == Head(up[r]).id
      out == OutputTo(newFd, MissedFrames(id))
  IN  /\ ReadingId(r)
      /\ up[r] # << >>
      /\ ~IsConnected(id)
      /\ \/ /\ CanWrite(out)
            /\ down' = Received(out)
            /\ Consume(r)
            /\ readFds' = readFds \cup {newFd}
            /\ fdmax' = IF newFd > fdmax THEN newFd ELSE fdmax
            /\ Joins(id, newFd)
            /\ IdRead
            /\ UNCHANGED <<srv, udp, log, leaked, topics, subs, link, backlog, fd>>
         \/ StopInWrite(out)

-----------------------------------------------------------------------------
(* A readable client descriptor: its connection r, its client id. *)

HandlingClient(r, id) ==
  /\ fd[r] # NoFd
  /\ Handling(fd[r])
  /\ IsConnected(id) /\ connected[id].sock = fd[r]

(* mutant: subscribe without the return of its ALREADY_SUB branch *)
ReplyTwice(r, o) ==
  OutputTo(fd[r], IF o = "ALREADY_SUB" THEN <<Opcode(o), Opcode("SUBSCRIBED")>>
                                       ELSE <<Opcode(o)>>)

Reply(r, o) == OutputTo(fd[r], <<Opcode(o)>>)

(* What the handlers of a request have in common: they answer o, or end     *)
(* in the write of the answer.                                              *)
Answer(r, o) ==
  /\ CanWrite(Reply(r, o))
  /\ down' = Received(Reply(r, o))
  /\ Consume(r)
  /\ Handled(fd[r])
  /\ UNCHANGED <<srv, udp, log, newFd, leaked, readFds, fdmax, saved, link, backlog, fd>>

Unsubscribe(r, id) ==
  LET t == Head(up[r]).topic
  IN  /\ HandlingClient(r, id)
      /\ up[r] # << >> /\ Head(up[r]).type = "UNSUBSCRIBE"
      /\ \/ t \notin topics /\ Answer(r, "NO_TOPIC") /\ UNCHANGED <<topics, subs, connected>>
         \/ /\ t \in topics
            /\ subs' = [subs EXCEPT ![t][id] = NoFd]
            /\ Answer(r, "UNSUBSCRIBED")
            /\ UNCHANGED <<topics, connected>>
         \/ StopInWrite(Reply(r, "UNSUBSCRIBED"))

Subscribe(r, id) ==
  LET m == Head(up[r])
      t == m.topic
  IN  /\ HandlingClient(r, id)
      /\ up[r] # << >> /\ m.type = "SUBSCRIBE"
      /\ \/ /\ IsSubscribed(id, t)
            /\ Answer(r, "ALREADY_SUB")
            /\ topics' = topics \cup {t}
            /\ UNCHANGED <<subs, connected>>
         \/ /\ ~IsSubscribed(id, t)
            /\ topics' = topics \cup {t}
            /\ subs' = [subs EXCEPT ![t][id] = connected[id].sock]
            /\ Answer(r, "SUBSCRIBED")
            /\ connected' = IF m.sf THEN [connected EXCEPT ![id].sf = @ \cup {t}]
                                    ELSE connected
         \/ StopInWrite(Reply(r, "SUBSCRIBED"))

Unwatch(f) == readFds' = readFds \ {f}

(* client_disconnected: proto_recv returned 0. *)
Disconnect(r, id) ==
  /\ HandlingClient(r, id)
  /\ up[r] = << >> /\ link[r] = "cfin"
  /\ saved' = IF connected[id].sf # {} /\ ~IsSaved(id)
              THEN [saved EXCEPT ![id] = connected[id]] ELSE saved
  /\ connected' = [connected EXCEPT ![id] = NoClient]
  /\ Unwatch(fd[r])
  /\ Handled(fd[r])
  /\ ServerCloses(r, 0)
  /\ UNCHANGED <<srv, udp, log, newFd, leaked, fdmax, topics, subs, down, backlog>>

(* proto_recv on a connection the peer reset: DIE exits the process. *)
RecvReset(r) ==
  /\ fd[r] # NoFd
  /\ Handling(fd[r])
  /\ up[r] = << >> /\ link[r] = "crst"
  /\ Stop("ECONNRESET", NoOutput, {})

-----------------------------------------------------------------------------
(* A datagram reaches the UDP socket.  Loss, duplication and reordering     *)
(* happen before, so any topic may come next.  Bound: MaxPub.               *)
Publish(t) ==
  /\ srv = "running"
  /\ Len(log) + Len(udp) < MaxPub
  /\ udp' = Append(udp, t)
  /\ UNCHANGED <<srv, log, ready, newFd, memory, transportVars>>
=============================================================================
