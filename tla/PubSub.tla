------------------------------- MODULE PubSub -------------------------------
(****************************************************************************)
(* Tema-2-PCom as a whole: one broker and its subscribers over TCP, with    *)
(* datagrams coming in over UDP.  The server and each subscriber are        *)
(* single-threaded processes; they share only the connections.              *)
(****************************************************************************)
EXTENDS Server, Subscriber

vars == <<transportVars, serverVars, subscriberVars>>

TypeOK == TransportTypeOK /\ ServerTypeOK /\ SubscriberTypeOK

Init == TransportInit /\ ServerInit /\ SubscriberInit

(* What the server's thread does on its own; only the input it waits for    *)
(* (a datagram, "exit" on stdin, a subscriber) comes from outside.          *)
ServerStep ==
  /\ \/ Select
     \/ UdpMessage
     \/ Accept
     \/ \E r \in Runs : NoId(r) \/ RefuseId(r) \/ AdmitId(r) \/ RecvReset(r)
     \/ \E r \in Runs, id \in Ids :
          Unsubscribe(r, id) \/ Subscribe(r, id) \/ Disconnect(r, id)
  /\ UNCHANGED subscriberVars

ServerInput ==
  /\ CloseAll \/ \E t \in Topics : Publish(t)
  /\ UNCHANGED subscriberVars

(* What the thread of run r does on its own. *)
Greets(r) == /\ \E id \in Ids : SendId(r, id)
             /\ UNCHANGED serverVars

Reads(r) ==
  /\ \/ Display(r) \/ ReadAnswer(r) \/ ReadExit(r)
     \/ DisplayEndOfStream(r) \/ ServerReset(r)
  /\ UNCHANGED serverVars

(* A connection is only made while the server listens. *)
SubscriberInput(r) ==
  /\ \/ srv = "running" /\ Connect(r)
     \/ \E m \in Request : SendRequest(r, m)
     \/ Quit(r)
  /\ UNCHANGED serverVars

Next ==
  \/ ServerStep
  \/ ServerInput
  \/ \E r \in Runs : Greets(r) \/ Reads(r) \/ SubscriberInput(r)

Spec == Init /\ [][Next]_vars

(* Every process that can take a step of its own eventually does; nothing   *)
(* is assumed of users, publishers or the moment a process is killed.       *)
Fairness ==
  /\ WF_vars(ServerStep)
  /\ \A r \in Runs : WF_vars(Greets(r)) /\ WF_vars(Reads(r))

FairSpec == Spec /\ Fairness

-----------------------------------------------------------------------------
(* Safety. *)

ConnectedSocks == {connected[id].sock : id \in Ids} \ {NoFd}

(* The tables main() keeps by hand describe the same clients: no ID is both *)
(* connected and stored, each connected client has a socket of its own, and *)
(* read_fds holds exactly those sockets, each an accepted connection.       *)
TablesAgree ==
  /\ \A id \in Ids : ~IsConnected(id) \/ ~IsSaved(id)
  /\ \A i, j \in Ids : IsConnected(i) /\ i # j => connected[i].sock # connected[j].sock
  /\ readFds = ConnectedSocks
  /\ \A f \in readFds : \E r \in Runs : fd[r] = f

(* Whatever was closed or accepted since select() took its snapshot, a      *)
(* descriptor still to be handled is watched, within fdmax and owned by a   *)
(* connected client: the search of server.cpp:137-142 finds an ID, and      *)
(* connected.at(id) does not throw.                                         *)
LoopFindsClient ==
  \A f \in ready \cap ClientFds :
    f <= fdmax /\ f \in readFds /\ \E id \in Ids : connected[id].sock = f

(* Every descriptor of the server is a connected client's or the one whose  *)
(* ID is being read, save those of peers that left without an ID, which are *)
(* never closed (server.cpp:97-99); no two connections share one, and none  *)
(* gets one that was lost.                                                  *)
FdAccounting ==
  /\ \A r, q \in Held : r # q => fd[r] # fd[q]
  /\ \A r \in Held : fd[r] \in readFds \cup {newFd} /\ fd[r] \notin leaked
  /\ newFd # NoFd => newFd \notin readFds /\ \E r \in Held : fd[r] = newFd

Answers == [op : Opcodes \ {"EXIT"}, seq : 0 .. MaxPub]
IsData(m) == m.op = "MSG"

Count(s, frames) == Cardinality({k \in DOMAIN s : s[k] \in frames})

(* A subscriber gets one answer for each request, on its own connection:    *)
(* while both ends are open, the requests not yet answered are the ones on  *)
(* their way up and the answers on their way down.                          *)
OneReplyPerRequest ==
  \A r \in Runs : link[r] = "open" =>
    pending[r] = Count(up[r], Request) + Count(down[r], Answers)

(* The server ends the connection of a subscriber that is still there only  *)
(* when it has just read an ID that another of its connections has, whose   *)
(* peer may have left since (server.cpp:105), and it has told it to exit.   *)
RefusedOnlyWhenTaken ==
  [][srv' = "running" =>
       \A r \in Runs : link[r] = "open" /\ link'[r] \in {"sfin", "srst"} =>
         /\ fd[r] = newFd
         /\ \E q \in Held \ {r} : connected[Head(up[r]).id].sock = fd[q]
         /\ down'[r] = Append(down[r], Opcode("EXIT"))]_vars

(* While the server runs, and after close_all has told everybody, a         *)
(* subscriber whose connection the server has finished has EXIT ahead of    *)
(* it, as the last frame it will read: it ends, and does not take the end   *)
(* of the stream for a message (subscriber.cpp:49).  The subscribers that   *)
(* were not told, and spin, are those of a server that ended in an error;   *)
(* in close_all (server_funs.cpp:73) that is a write to a peer that is gone *)
(* (EndsHaveCauses).                                                        *)
EndIsTold ==
  srv \in {"running", "exited"} =>
    \A r \in Runs :
      /\ proc[r] # "spinning"
      /\ link[r] = "sfin" =>
           down[r] # << >> /\ down[r][Len(down[r])] = Opcode("EXIT")

(* What a connection carries is in publication order, across the stored     *)
(* messages of a reconnection and the live ones that follow them, and never *)
(* goes back behind what its subscriber has displayed.                      *)
StreamInOrder ==
  \A r \in Runs : \A k \in DOMAIN down[r] :
    IsData(down[r][k]) =>
      /\ last[r] <= down[r][k].seq
      /\ \A j \in 1 .. k - 1 :
           IsData(down[r][j]) => down[r][j].seq <= down[r][k].seq

(* A stored client's queue holds messages of its store-and-forward topics,  *)
(* each once, oldest first.                                                 *)
MissedInOrder ==
  \A id \in Ids :
    LET missed == saved[id].missed
    IN  \A k \in DOMAIN missed :
          /\ missed[k] <= Len(log)
          /\ log[missed[k]] \in saved[id].sf
          /\ \A j \in 1 .. k - 1 : missed[j] < missed[k]

(* The messages stored for a client leave the server's memory in one way:   *)
(* all of them, in order, onto the connection on which that ID comes back,  *)
(* before any other frame (unless that peer is gone, or the server ends).   *)
MissedHandedOver ==
  [][\A id \in Ids : IsSaved(id) /\ ~IsSaved(id)' /\ srv' = "running" =>
       \E r \in Held :
         /\ connected'[id].sock = fd[r]
         /\ link[r] = "open" =>
              /\ Len(down'[r]) = Len(saved[id].missed)
              /\ \A k \in DOMAIN saved[id].missed :
                   down'[r][k] = Data(saved[id].missed[k])]_vars

(* A topic's copy of a client that has connected again since, on another    *)
(* descriptor.                                                              *)
Stale(id, t) ==
  IsSubscribed(id, t) /\ IsConnected(id) /\ subs[t][id] # connected[id].sock

(* What ends the server, besides "exit" on its stdin, is always a peer that *)
(* left it: a write or a read fails on a connection whose peer has gone; a  *)
(* write fails because a topic's copy names a closed or lost descriptor for *)
(* a client that has moved; or every descriptor is a client's or lost to a  *)
(* peer that never sent its ID.  Clients that stay, whatever they ask for   *)
(* and in whatever order, do not end it.                                    *)
EndsHaveCauses ==
  [][srv = "running" /\ srv' # "running" =>
       \/ srv' = "exited"
       \/ srv' \in {"EPIPE", "ECONNRESET"} /\ \E r \in Held : PeerGone(r)
       \/ \E t \in Topics, id \in Ids :
            /\ Stale(id, t)
            /\ \/ srv' = "EPIPE" /\ subs[t][id] \in leaked
               \/ srv' = "EBADF" /\ subs[t][id] \in FreeFds
       \/ srv' = "EMFILE" /\ ClientFds = readFds \cup leaked]_vars

(* A client that asked for a topic to be stored loses a message of it only  *)
(* if its end has gone and the server has yet to read that, or if the topic *)
(* still has the socket of an earlier connection; otherwise the message is  *)
(* on its connection, or at the end of its queue when it is away.           *)
StoreAndForward(id, t) ==
  IsSubscribed(id, t) /\ t \in connected[id].sf \cup saved[id].sf

LossHasCause ==
  [][log' # log /\ srv' = "running" =>
       \A id \in Ids :
         StoreAndForward(id, log'[Len(log')]) =>
           \/ /\ ~IsConnected(id)
              /\ saved'[id].missed = Append(saved[id].missed, Len(log'))
           \/ \E r \in Held :
                /\ connected[id].sock = fd[r]
                /\ \/ PeerGone(r)
                   \/ /\ Len(down'[r]) > Len(down[r])
                      /\ down'[r][Len(down'[r])] = Data(Len(log'))
           \/ Stale(id, log'[Len(log')])]_vars

(* A message comes to a connection once, and to the client of that          *)
(* connection because it is subscribed; it comes otherwise (twice, or to    *)
(* another client) only if the topic has that connection's socket in an     *)
(* entry of a client that has moved.                                        *)
DeliveryHasCause ==
  [][log' # log /\ srv' = "running" =>
       \A r \in Held : down'[r] # down[r] =>
         \/ /\ down'[r] = Append(down[r], Data(Len(log')))
            /\ \E id \in Ids :
                 IsSubscribed(id, log'[Len(log')]) /\ connected[id].sock = fd[r]
         \/ \E id \in Ids :
              Stale(id, log'[Len(log')]) /\ subs[log'[Len(log')]][id] = fd[r]]_vars

-----------------------------------------------------------------------------
(* The inductive invariant behind TablesAgree, LoopFindsClient and          *)
(* FdAccounting (proved in PubSubProofs).                                   *)

(* The connections whose ID the server has not read.                        *)
Unread(r) == r \in Waiting \/ (newFd # NoFd /\ fd[r] = newFd)

(* A connection waits once and before it has a descriptor; one the server   *)
(* is done with, or that was not made, has neither place nor unread frames. *)
ConnectionsOK ==
  /\ Waiting \cap Held = {}
  /\ \A j, k \in DOMAIN backlog : backlog[j] = backlog[k] => j = k
  /\ \A r \in Runs : link[r] \in {"none", "sfin", "srst"}
                      => up[r] = << >> /\ r \notin Waiting \cup Held

(* What select() found on the two listening sockets is still there when     *)
(* their turn comes.                                                        *)
SnapshotOK ==
  /\ UdpFd \in ready => udp # << >>
  /\ TcpFd \in ready /\ newFd = NoFd => backlog # << >>

(* The first frame of a connection is its ID.                               *)
GreetingOK ==
  \A r \in Runs :
    /\ proc[r] = "greeting" => up[r] = << >>
    /\ Unread(r) /\ up[r] # << >> => Head(up[r]).type = "ID"
    /\ Unread(r) /\ proc[r] = "up" /\ link[r] = "open" => up[r] # << >>

(* TablesAgree, LoopFindsClient and FdAccounting are not inductive: a       *)
(* handler keeps them only because the connections, the snapshot and the    *)
(* first frames are what these three say, and the other way round.          *)
IndInv ==
  /\ TypeOK
  /\ ConnectionsOK /\ SnapshotOK /\ GreetingOK
  /\ TablesAgree /\ LoopFindsClient /\ FdAccounting

-----------------------------------------------------------------------------
(* Refinement. *)

(* An absent key holds no leftovers: no SF topic, no message, no entry of a *)
(* topic that was never created.                                            *)
AbsentOK ==
  /\ \A id \in Ids :
       /\ IsConnected(id) \/ connected[id] = NoClient
       /\ IsSaved(id) \/ saved[id] = NoClient
       /\ connected[id].missed = << >>
  /\ \A t \in Topics, id \in Ids : IsSubscribed(id, t) => t \in topics

Present == {id \in Ids : IsConnected(id)}
Follows == [id \in Ids |-> {t \in Topics : IsSubscribed(id, t)}]
Durable == [id \in Ids |-> connected[id].sf \cup saved[id].sf]
Owed == [id \in Ids |-> saved[id].missed]

(* The broker implements store and forward as Mailbox states it: what it    *)
(* keeps about an ID, in three maps and across connections, is exactly what *)
(* the subscriptions and the publications so far call for.                  *)
Promise == INSTANCE Mailbox WITH
  serving <- srv = "running", present <- Present, follows <- Follows,
  durable <- Durable, owed <- Owed, count <- Len(log)

KeepsPromise == Promise!Spec

-----------------------------------------------------------------------------
(* Liveness, under FairSpec. *)

(* A request is answered, unless its sender or the server ends first.       *)
RequestAnswered ==
  \A r \in Runs : pending[r] > 0 ~> pending[r] = 0 \/ srv # "running"

(* A connection in the backlog is admitted, refused or reset: the accept in *)
(* front of it does not block the loop for good.                            *)
ConnectionHandled ==
  \A r \in Runs : link[r] = "open" /\ fd[r] = NoFd
                   ~> fd[r] \in readFds \/ link[r] # "open"

-----------------------------------------------------------------------------
(* What the documentation says and the code does not do. *)

(* "When a new message is received from UDP, it sends it to all the         *)
(* subscribers" (server.h:117-118): every connected subscriber of the topic *)
(* whose connection is open gets a frame on that connection.                *)
PublishReachesSubscribers ==
  [][log' # log /\ srv' = "running" =>
       \A id \in Ids, r \in Held :
         /\ connected[id].sock = fd[r] /\ link[r] = "open"
         /\ IsSubscribed(id, log'[Len(log')])
         => down'[r] # down[r]]_vars
=============================================================================
