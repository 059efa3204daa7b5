-------------------------- MODULE RefinementProofs --------------------------
(****************************************************************************)
(* PubSub implements Mailbox.  The refinement mapping reads the three maps  *)
(* of the server; IndInv says that they describe the same clients, and      *)
(* AbsentOK that nothing is left where an ID is absent.  One lemma per      *)
(* action that touches the maps; every other step is a stutter.             *)
(*                                                                          *)
(* From the same invariants: what may end the broker, what may cost a       *)
(* client a message, bring it one or have it refused, and what it is told   *)
(* before its connection ends.                                              *)
(****************************************************************************)
EXTENDS PubSubProofs

PromiseInv == IndInv /\ AbsentOK

(* What one step has to show, AbsentOK being proved along with it.          *)
Simulates == AbsentOK' /\ (Promise!Next \/ UNCHANGED Promise!mailVars)

tables == <<srv, log, connected, saved, topics, subs>>

LEMMA StutterSimulates ==
  ASSUME PromiseInv, UNCHANGED tables
  PROVE Simulates
<1> USE DEF tables
<1>1. AbsentOK'
  BY DEF PromiseInv, AbsentOK, IsConnected, IsSaved, IsSubscribed
<1>2. UNCHANGED Promise!mailVars
  BY DEF Promise!mailVars, Present, Follows, Durable, Owed, IsConnected, IsSubscribed
<1> QED BY <1>1, <1>2 DEF Simulates

(* The end of the process is the end of the promise.                        *)
LEMMA StopSimulates ==
  ASSUME PromiseInv, srv = "running", NEW ending \in Endings, NEW out, NEW done,
         Stop(ending, out, done)
  PROVE Simulates
<1> USE DEF Stop, Forget
<1>1. AbsentOK'
  BY DEF AbsentOK, NoClient, NoSubs, IsSubscribed, IsConnected, IsSaved
<1>2. Promise!Stop
  <2>1. ending # "running"
    BY DEF Endings
  <2>2. Present' = {} /\ Follows' = [id \in Ids |-> {}]
    BY DEF Present, Follows, IsConnected, IsSubscribed, NoClient, NoSubs
  <2>3. Durable' = [id \in Ids |-> {}] /\ Owed' = [id \in Ids |-> << >>]
    BY DEF Durable, Owed, NoClient
  <2> QED BY <2>1, <2>2, <2>3 DEF Promise!Stop
<1> QED BY <1>1, <1>2 DEF Simulates, Promise!Next

LEMMA StopInWriteSimulates ==
  ASSUME PromiseInv, srv = "running", NEW out, StopInWrite(out)
  PROVE Simulates
BY StopSimulates DEF StopInWrite, Endings

(* In terms of the maps: who is present, and what is owed to the others.    *)
LEMMA AbsentFacts ==
  ASSUME PromiseInv, NEW id \in Ids
  PROVE /\ IsConnected(id) => saved[id] = NoClient
        /\ ~IsConnected(id) => connected[id] = NoClient
        /\ IsConnected(id) <=> id \in Present
        /\ connected[id].sf \subseteq Topics /\ saved[id].sf \subseteq Topics
BY DEF PromiseInv, AbsentOK, IndInv, TablesAgree, Present, TypeOK, ServerTypeOK, Client

LEMMA UdpMessageSimulates ==
  ASSUME PromiseInv, UdpMessage
  PROVE Simulates
<1> DEFINE t == Head(udp)
           n == Len(log) + 1
           out == IF t \in topics THEN Fanout(t, Data(n)) ELSE NoOutput
<1> USE DEF PromiseInv
<1>1. srv = "running" /\ UdpFd \in ready
  BY DEF UdpMessage, Handling, IsLowest
<1>2. t \in Topics
  BY <1>1 DEF IndInv, SnapshotOK, TypeOK, ServerTypeOK
<1>3. CASE StopInWrite(out)
  BY <1>1, <1>3, StopInWriteSimulates
<1>4. CASE /\ log' = Append(log, t)
           /\ topics' = topics \cup {t}
           /\ saved' = [id \in Ids |->
                IF t \in topics /\ StoresFor(id, t)
                THEN [saved[id] EXCEPT !.missed = Append(@, n)]
                ELSE saved[id]]
           /\ UNCHANGED <<srv, connected, subs>>
  <2> USE <1>4
  <2>1. Len(log') = n
    <3>1. log \in Seq(Topics)
      BY DEF IndInv, TypeOK, ServerTypeOK
    <3> QED BY <1>2, <3>1, AppendProperties
  <2>2. ASSUME NEW id \in Ids
        PROVE /\ saved'[id].sock = saved[id].sock /\ saved'[id].sf = saved[id].sf
              /\ t \in topics /\ StoresFor(id, t) <=> Promise!Stores(id, t)
              /\ saved'[id].missed = IF Promise!Stores(id, t) THEN Append(saved[id].missed, n)
                                                             ELSE saved[id].missed
              /\ ~IsSaved(id) => saved'[id] = saved[id]
    <3>1. saved[id] \in Client
      BY DEF IndInv, TypeOK, ServerTypeOK
    <3>2. t \in topics /\ StoresFor(id, t) <=> Promise!Stores(id, t)
      <4>1. Promise!Stores(id, t) <=>
              ~IsConnected(id) /\ IsSubscribed(id, t)
              /\ t \in connected[id].sf \cup saved[id].sf
        BY <1>2 DEF Promise!Stores, Present, Follows, Durable
      <4>2. IsSubscribed(id, t) => t \in topics
        BY <1>2 DEF AbsentOK
      <4>3. ~IsConnected(id) => connected[id].sf = {}
        BY DEF AbsentOK, NoClient
      <4>4. t \in saved[id].sf => IsSaved(id)
        BY DEF AbsentOK, NoClient
      <4> QED BY <4>1, <4>2, <4>3, <4>4 DEF StoresFor
    <3> QED BY <3>1, <3>2 DEF Client, StoresFor
  <2>3. AbsentOK'
    <3>1. ASSUME NEW id \in Ids
          PROVE IsSaved(id)' \/ saved'[id] = NoClient
      BY <2>2 DEF AbsentOK, IsSaved
    <3> QED BY <3>1 DEF AbsentOK, IsConnected, IsSubscribed
  <2>4. UNCHANGED <<Present, Follows, Durable>>
    BY <2>2 DEF Present, Follows, Durable, IsConnected, IsSubscribed
  <2>5. Owed' = [id \in Ids |-> IF Promise!Stores(id, t) THEN Append(Owed[id], n)
                                                         ELSE Owed[id]]
    BY <2>2 DEF Owed
  <2>6. Promise!Publish(t)
    BY <2>1, <2>4, <2>5 DEF Promise!Publish
  <2> QED BY <1>1, <1>2, <2>3, <2>6 DEF Simulates, Promise!Next
<1> QED BY <1>3, <1>4 DEF UdpMessage

LEMMA AdmitIdSimulates ==
  ASSUME PromiseInv, NEW r \in Runs, AdmitId(r)
  PROVE Simulates
<1> DEFINE id == Head(up[r]).id
           out == OutputTo(newFd, MissedFrames(id))
           client == [sock |-> newFd, sf |-> saved[id].sf, missed |-> << >>]
<1> USE DEF PromiseInv
<1>1. srv = "running" /\ up[r] # << >> /\ ~IsConnected(id) /\ newFd # NoFd
  BY DEF AdmitId, ReadingId
<1>2. id \in Ids
  <2>1. Head(up[r]) \in UpFrame
    BY <1>1 DEF IndInv, TypeOK, TransportTypeOK
  <2>2. Head(up[r]).type = "ID"
    BY <1>1 DEF AdmitId, ReadingId, IndInv, GreetingOK, Unread
  <2> QED BY <2>1, <2>2 DEF UpFrame, Request
<1>3. CASE StopInWrite(out)
  BY <1>1, <1>3, StopInWriteSimulates
<1>4. CASE Joins(id, newFd) /\ UNCHANGED <<srv, log, topics, subs>>
  <2> USE <1>4 DEF Joins
  <2>1. connected'[id] = client /\ saved'[id] = NoClient
    BY <1>2 DEF IndInv, TypeOK, ServerTypeOK
  <2>2. \A i \in Ids : i # id => connected'[i] = connected[i] /\ saved'[i] = saved[i]
    BY DEF IndInv, TypeOK, ServerTypeOK
  <2>3. connected[id].sf = {}
    BY <1>1, <1>2 DEF AbsentOK, NoClient
  <2>4. AbsentOK'
    BY <1>1, <1>2, <2>1, <2>2 DEF AbsentOK, IsConnected, IsSaved, IsSubscribed
  <2>5. Present' = Present \cup {id}
    BY <1>1, <1>2, <2>1, <2>2 DEF Present, IsConnected
  <2>6. UNCHANGED <<Follows, Durable>>
    <3>1. \A i \in Ids : connected'[i].sf \cup saved'[i].sf = connected[i].sf \cup saved[i].sf
      BY <2>1, <2>2, <2>3 DEF NoClient
    <3> QED BY <3>1 DEF Follows, Durable, IsSubscribed
  <2>7. Owed' = [Owed EXCEPT ![id] = << >>]
    <3>1. ASSUME NEW i \in Ids
          PROVE Owed'[i] = IF i = id THEN << >> ELSE Owed[i]
      BY <2>1, <2>2 DEF Owed, NoClient
    <3> QED BY <3>1 DEF Owed
  <2>8. Promise!Join(id)
    BY <1>1, <1>2, <2>5, <2>6, <2>7 DEF Promise!Join, Present
  <2> QED BY <1>1, <1>2, <2>4, <2>8 DEF Simulates, Promise!Next
<1> QED BY <1>3, <1>4 DEF AdmitId

LEMMA UnsubscribeSimulates ==
  ASSUME PromiseInv, NEW r \in Runs, NEW id \in Ids, Unsubscribe(r, id)
  PROVE Simulates
<1> DEFINE t == Head(up[r]).topic
<1> USE DEF PromiseInv
<1>1. srv = "running" /\ IsConnected(id) /\ t \in Topics
  BY RequestType DEF Unsubscribe, HandlingClient, Handling, IndInv
<1>2. CASE Answer(r, "NO_TOPIC") /\ UNCHANGED <<topics, subs, connected>>
  BY <1>2, StutterSimulates DEF Answer, tables
<1>3. CASE /\ subs' = [subs EXCEPT ![t][id] = NoFd]
           /\ UNCHANGED <<srv, log, connected, saved, topics>>
  <2>1. /\ subs'[t][id] = NoFd
        /\ \A u \in Topics, i \in Ids : u # t \/ i # id => subs'[u][i] = subs[u][i]
    BY <1>1, <1>3 DEF IndInv, TypeOK, ServerTypeOK
  <2>2. AbsentOK'
    BY <1>3, <2>1 DEF AbsentOK, IsConnected, IsSaved, IsSubscribed
  <2>3. UNCHANGED <<Present, Durable, Owed>>
    BY <1>3 DEF Present, Durable, Owed, IsConnected
  <2>4. Follows' = [Follows EXCEPT ![id] = @ \ {t}]
    <3>1. ASSUME NEW i \in Ids
          PROVE Follows'[i] = IF i = id THEN Follows[i] \ {t} ELSE Follows[i]
      BY <1>1, <2>1 DEF Follows, IsSubscribed
    <3> QED BY <3>1 DEF Follows
  <2>5. CASE IsSubscribed(id, t)
    <3>1. Promise!Unfollow(id, t)
      BY <1>1, <1>3, <2>3, <2>4, <2>5 DEF Promise!Unfollow, Present, Follows
    <3> QED BY <1>1, <2>2, <3>1 DEF Simulates, Promise!Next
  <2>6. CASE ~IsSubscribed(id, t)
    <3>1. Follows' = Follows
      BY <2>4, <2>6 DEF Follows
    <3> QED BY <1>3, <2>2, <2>3, <3>1 DEF Simulates, Promise!mailVars
  <2> QED BY <2>5, <2>6
<1>4. CASE StopInWrite(Reply(r, "UNSUBSCRIBED"))
  BY <1>1, <1>4, StopInWriteSimulates
<1> QED BY <1>2, <1>3, <1>4 DEF Unsubscribe, Answer

LEMMA SubscribeSimulates ==
  ASSUME PromiseInv, NEW r \in Runs, NEW id \in Ids, Subscribe(r, id)
  PROVE Simulates
<1> DEFINE m == Head(up[r])
           t == m.topic
<1> USE DEF PromiseInv
<1>1. srv = "running" /\ IsConnected(id) /\ t \in Topics
  BY RequestType DEF Subscribe, HandlingClient, Handling, IndInv
<1>2. m.sf \in BOOLEAN
  <2>1. m \in UpFrame /\ m.type = "SUBSCRIBE"
    BY DEF Subscribe, IndInv, TypeOK, TransportTypeOK
  <2> QED BY <2>1 DEF UpFrame, Request
<1>3. CASE /\ topics' = topics \cup {t}
           /\ UNCHANGED <<srv, log, connected, saved, subs>>
  <2>1. AbsentOK'
    BY <1>3 DEF AbsentOK, IsConnected, IsSaved, IsSubscribed
  <2>2. UNCHANGED Promise!mailVars
    BY <1>3 DEF Promise!mailVars, Present, Follows, Durable, Owed, IsConnected, IsSubscribed
  <2> QED BY <2>1, <2>2 DEF Simulates
<1>4. CASE /\ ~IsSubscribed(id, t)
           /\ topics' = topics \cup {t}
           /\ subs' = [subs EXCEPT ![t][id] = connected[id].sock]
           /\ connected' = IF m.sf THEN [connected EXCEPT ![id].sf = @ \cup {t}]
                                   ELSE connected
           /\ UNCHANGED <<srv, log, saved>>
  <2> USE <1>4
  <2>1. /\ subs'[t][id] = connected[id].sock
        /\ \A u \in Topics, i \in Ids : u # t \/ i # id => subs'[u][i] = subs[u][i]
    BY <1>1 DEF IndInv, TypeOK, ServerTypeOK
  <2>2. /\ connected'[id].sf = IF m.sf THEN connected[id].sf \cup {t} ELSE connected[id].sf
        /\ connected'[id].sock = connected[id].sock
        /\ connected'[id].missed = connected[id].missed
        /\ \A i \in Ids : i # id => connected'[i] = connected[i]
    BY DEF IndInv, TypeOK, ServerTypeOK, Client
  <2>3. AbsentOK'
    <3>1. ASSUME NEW i \in Ids
          PROVE  /\ IsConnected(i)' \/ connected'[i] = NoClient
                 /\ IsSaved(i)' \/ saved'[i] = NoClient
                 /\ connected'[i].missed = << >>
      BY <1>1, <2>2, <3>1 DEF AbsentOK, IsConnected, IsSaved
    <3>2. ASSUME NEW u \in Topics, NEW i \in Ids, IsSubscribed(i, u)' PROVE u \in topics'
      BY <1>1, <2>1, <2>2, <3>2 DEF AbsentOK, IsConnected, IsSubscribed
    <3> QED BY <3>1, <3>2 DEF AbsentOK
  <2>4. UNCHANGED <<Present, Owed>>
    BY <2>2 DEF Present, Owed, IsConnected
  <2>5. Follows' = [Follows EXCEPT ![id] = @ \cup {t}]
    <3>1. ASSUME NEW i \in Ids
          PROVE Follows'[i] = IF i = id THEN Follows[i] \cup {t} ELSE Follows[i]
      BY <1>1, <2>1 DEF Follows, IsSubscribed, IsConnected
    <3> QED BY <3>1 DEF Follows
  <2>6. Durable' = [Durable EXCEPT ![id] = IF m.sf THEN @ \cup {t} ELSE @]
    <3>1. ASSUME NEW i \in Ids
          PROVE Durable'[i] = IF i = id /\ m.sf THEN Durable[i] \cup {t} ELSE Durable[i]
      BY <2>2 DEF Durable
    <3> QED BY <3>1 DEF Durable
  <2>7. Promise!Follow(id, t, m.sf)
    BY <1>1, <2>4, <2>5, <2>6 DEF Promise!Follow, Present, Follows
  <2> QED BY <1>1, <1>2, <2>3, <2>7 DEF Simulates, Promise!Next
<1>5. CASE StopInWrite(Reply(r, "SUBSCRIBED"))
  BY <1>1, <1>5, StopInWriteSimulates
<1> QED BY <1>3, <1>4, <1>5 DEF Subscribe, Answer

LEMMA DisconnectSimulates ==
  ASSUME PromiseInv, NEW r \in Runs, NEW id \in Ids, Disconnect(r, id)
  PROVE Simulates
<1> USE DEF PromiseInv
<1>1. /\ srv = "running" /\ IsConnected(id)
      /\ saved' = IF connected[id].sf # {} /\ ~IsSaved(id)
                  THEN [saved EXCEPT ![id] = connected[id]] ELSE saved
      /\ connected' = [connected EXCEPT ![id] = NoClient]
      /\ UNCHANGED <<srv, log, topics, subs>>
  BY DEF Disconnect, HandlingClient, Handling
<1>2. saved[id] = NoClient /\ ~IsSaved(id) /\ connected[id].missed = << >>
  <2>1. ~IsSaved(id)
    BY <1>1 DEF IndInv, TablesAgree
  <2> QED BY <2>1 DEF AbsentOK
<1>3. /\ connected'[id] = NoClient
      /\ saved'[id].sf = connected[id].sf /\ saved'[id].missed = << >>
      /\ saved'[id] = NoClient \/ saved'[id].sock # NoFd
      /\ \A i \in Ids : i # id => connected'[i] = connected[i] /\ saved'[i] = saved[i]
  <2>1. /\ connected'[id] = NoClient
        /\ \A i \in Ids : i # id => connected'[i] = connected[i]
    BY <1>1 DEF IndInv, TypeOK, ServerTypeOK
  <2>2. CASE connected[id].sf # {}
    <3>1. saved'[id] = connected[id] /\ \A i \in Ids : i # id => saved'[i] = saved[i]
      BY <1>1, <1>2, <2>2 DEF IndInv, TypeOK, ServerTypeOK
    <3>2. connected[id].sock # NoFd
      BY <1>1 DEF IsConnected
    <3> QED BY <1>2, <2>1, <3>1, <3>2
  <2>3. CASE connected[id].sf = {}
    <3>1. saved' = saved
      BY <1>1, <2>3
    <3>2. saved[id].sf = {} /\ saved[id].missed = << >>
      BY <1>2 DEF NoClient
    <3> QED BY <1>2, <2>1, <2>3, <3>1, <3>2
  <2> QED BY <2>2, <2>3
<1>4. AbsentOK'
  <2>1. ASSUME NEW i \in Ids
        PROVE /\ IsConnected(i)' \/ connected'[i] = NoClient
              /\ IsSaved(i)' \/ saved'[i] = NoClient
              /\ connected'[i].missed = << >>
    <3>1. CASE i = id
      BY <1>3, <3>1 DEF IsSaved, NoClient
    <3>2. CASE i # id
      BY <1>3, <3>2 DEF AbsentOK, IsConnected, IsSaved
    <3> QED BY <3>1, <3>2
  <2> QED BY <1>1, <2>1 DEF AbsentOK, IsSubscribed
<1>5. Present' = Present \ {id} /\ id \in Present
  BY <1>1, <1>3 DEF Present, IsConnected, NoClient
<1>6. UNCHANGED <<Follows, Durable, Owed>>
  <2>1. \A i \in Ids : /\ connected'[i].sf \cup saved'[i].sf = connected[i].sf \cup saved[i].sf
                       /\ saved'[i].missed = saved[i].missed
    BY <1>2, <1>3 DEF NoClient
  <2> QED BY <1>1, <2>1 DEF Follows, Durable, Owed, IsSubscribed
<1>7. Promise!Leave(id)
  BY <1>1, <1>5, <1>6 DEF Promise!Leave
<1> QED BY <1>1, <1>4, <1>7 DEF Simulates, Promise!Next

-----------------------------------------------------------------------------
LEMMA NextSimulates ==
  ASSUME PromiseInv, [Next]_vars
  PROVE Simulates
<1> USE DEF tables
<1>1. CASE Select \/ (\E r \in Runs : NoId(r)) \/ (\E t \in Topics : Publish(t))
  BY <1>1, StutterSimulates DEF Select, NoId, Publish, memory
<1>2. CASE UdpMessage
  BY <1>2, UdpMessageSimulates
<1>3. CASE Accept
  <2>1. srv = "running"
    BY <1>3 DEF Accept, Handling
  <2>2. CASE Stop("EMFILE", NoOutput, {})
    BY <2>1, <2>2, StopSimulates DEF Endings
  <2>3. CASE UNCHANGED <<srv, log, memory>>
    BY <2>3, StutterSimulates DEF memory
  <2> QED BY <1>3, <2>2, <2>3 DEF Accept
<1>4. ASSUME NEW r \in Runs, RefuseId(r) PROVE Simulates
  <2>1. srv = "running"
    BY <1>4 DEF RefuseId, ReadingId
  <2>2. CASE StopInWrite(OutputTo(newFd, <<Opcode("EXIT")>>))
    BY <2>1, <2>2, StopInWriteSimulates
  <2>3. CASE UNCHANGED <<srv, log, memory>>
    BY <2>3, StutterSimulates DEF memory
  <2> QED BY <1>4, <2>2, <2>3 DEF RefuseId
<1>5. ASSUME NEW r \in Runs, RecvReset(r) PROVE Simulates
  BY <1>5, StopSimulates DEF RecvReset, Handling, Endings
<1>6. CASE CloseAll
  BY <1>6, StopSimulates, StopInWriteSimulates DEF CloseAll, AtSelect, Endings
<1>7. CASE UNCHANGED serverVars
  BY <1>7, StutterSimulates DEF serverVars, memory
<1>8. CASE ServerStep
  BY <1>1, <1>2, <1>3, <1>4, <1>5, <1>8, AdmitIdSimulates, UnsubscribeSimulates,
     SubscribeSimulates, DisconnectSimulates DEF ServerStep
<1>9. CASE ServerInput
  BY <1>1, <1>6, <1>9 DEF ServerInput
<1>10. CASE UNCHANGED vars
  BY <1>7, <1>10 DEF vars
<1> QED BY <1>7, <1>8, <1>9, <1>10 DEF Next, Greets, Reads, SubscriberInput

LEMMA InitSimulates == Init => AbsentOK /\ Promise!Init
BY DEF Init, ServerInit, AbsentOK, Promise!Init, Present, Follows, Durable, Owed,
       NoClient, NoSubs, IsConnected, IsSaved, IsSubscribed

(* No record, SF topic or message is left where an ID is absent.            *)
THEOREM NothingLeftOver == Spec => []AbsentOK
<1>1. IndInv /\ AbsentOK /\ [Next]_vars => AbsentOK'
  BY NextSimulates DEF PromiseInv, Simulates
<1> QED BY <1>1, InitSimulates, Inductive, PTL DEF Spec

(* The broker keeps the promise of store and forward: each of its steps is  *)
(* a step of Mailbox, or none.                                              *)
THEOREM Implements == Spec => KeepsPromise
<1>1. IndInv /\ AbsentOK /\ [Next]_vars => [Promise!Next]_(Promise!mailVars)
  BY NextSimulates DEF PromiseInv, Simulates
<1> QED BY <1>1, InitSimulates, Inductive, NothingLeftOver, PTL
        DEF Spec, KeepsPromise, Promise!Spec

-----------------------------------------------------------------------------
(* Why the broker ends and why it loses a message.  Both follow from IndInv *)
(* and AbsentOK, step by step: a descriptor in the tables belongs to a      *)
(* connection, so a write that fails or is not received is to a peer that   *)
(* has left, or its descriptor was looked up in a topic's copy and not in   *)
(* the tables.                                                              *)

(* What ends the process in a write, other than a copy that is stale.       *)
SomeoneLeft == \E r \in Held : PeerGone(r)

(* A descriptor the server uses is neither free nor lost.                   *)
LEMMA UsedIsOpen ==
  ASSUME IndInv, NEW f \in ClientFds, f \in readFds \/ \E r \in Runs : fd[r] = f
  PROVE f \notin FreeFds /\ f \notin leaked
<1>1. PICK r \in Runs : fd[r] = f
  BY DEF IndInv, TablesAgree
<1>2. r \in Held
  BY <1>1 DEF Held, ClientFds, NoFd, TcpFd
<1> QED BY <1>1, <1>2 DEF FreeFds, IndInv, FdAccounting

(* A write to used descriptors only fails because someone left.             *)
LEMMA WriteToUsed ==
  ASSUME IndInv, NEW out, NEW error,
         \A f \in ClientFds :
           out[f] # << >> => f \in readFds \/ \E r \in Runs : fd[r] = f,
         WriteError(out, error)
  PROVE error = "EPIPE" /\ SomeoneLeft
<1>1. PICK f \in ClientFds :
        /\ out[f] # << >>
        /\ \/ error = "EBADF" /\ f \in FreeFds
           \/ error = "EPIPE" /\ (f \in leaked \/ \E r \in Runs : fd[r] = f /\ PeerGone(r))
  BY DEF WriteError
<1>2. f \notin FreeFds /\ f \notin leaked
  BY <1>1, UsedIsOpen
<1> QED BY <1>1, <1>2 DEF SomeoneLeft, Held, ClientFds, NoFd, TcpFd

(* The copy of a client names the descriptor of its connection, or another. *)
LEMMA CopyOfConnected ==
  ASSUME IndInv, NEW t \in Topics, NEW id \in Ids, IsConnected(id), NEW f \in ClientFds,
         subs[t][id] = f, f \in FreeFds \/ f \in leaked
  PROVE Stale(id, t)
<1>1. connected[id].sock \in readFds
  BY DEF IndInv, TablesAgree, ConnectedSocks, IsConnected
<1>2. connected[id].sock \in ClientFds
  BY <1>1 DEF IndInv, TypeOK, ServerTypeOK
<1>3. connected[id].sock # f
  BY <1>1, <1>2, UsedIsOpen
<1> QED BY <1>3 DEF Stale, IsSubscribed, ClientFds, NoFd, TcpFd

(* Whoever gets a message is connected, by the tables.                      *)
LEMMA FanoutEntries ==
  ASSUME NEW t, NEW frame, NEW f \in ClientFds
  PROVE /\ Fanout(t, frame)[f] # << >>
             => \E id \in Ids : IsConnected(id) /\ subs[t][id] = f
        /\ \A id \in Ids : IsConnected(id) /\ subs[t][id] = f
             => \E n \in Nat \ {0} : Fanout(t, frame)[f] = [k \in 1 .. n |-> frame]
<1> DEFINE entries == {id \in Ids : IsConnected(id) /\ subs[t][id] = f}
<1>1. Fanout(t, frame)[f] = [k \in 1 .. Cardinality(entries) |-> frame]
  BY DEF Fanout
<1>2. IsFiniteSet(entries)
  BY ConstantsAssumption, FS_Subset
<1>3. Cardinality(entries) \in Nat /\ (Cardinality(entries) = 0 <=> entries = {})
  BY <1>2, FS_CardinalityType, FS_EmptySet
<1>4. Fanout(t, frame)[f] # << >> => entries # {}
  <2> SUFFICES ASSUME entries = {} PROVE Fanout(t, frame)[f] = << >>
    OBVIOUS
  <2>1. 1 .. Cardinality(entries) = {}
    BY <1>3
  <2> QED BY <1>1, <2>1
<1>5. entries # {} => Cardinality(entries) \in Nat \ {0}
  BY <1>3
<1> HIDE DEF entries
<1>6. entries # {} => \E n \in Nat \ {0} : Fanout(t, frame)[f] = [k \in 1 .. n |-> frame]
  BY <1>1, <1>5
<1> QED BY <1>4, <1>6 DEF entries

(* The causes of the end, as one step shows them.                           *)
HasCause ==
  \/ srv' = "exited"
  \/ srv' \in {"EPIPE", "ECONNRESET"} /\ \E r \in Held : PeerGone(r)
  \/ \E t \in Topics, id \in Ids :
       /\ Stale(id, t)
       /\ \/ srv' = "EPIPE" /\ subs[t][id] \in leaked
          \/ srv' = "EBADF" /\ subs[t][id] \in FreeFds
  \/ srv' = "EMFILE" /\ ClientFds = readFds \cup leaked

LEMMA WriteCause ==
  ASSUME IndInv, NEW out, StopInWrite(out),
         \A f \in ClientFds :
           out[f] # << >> => f \in readFds \/ \E r \in Runs : fd[r] = f
  PROVE HasCause
<1>1. PICK error \in {"EBADF", "EPIPE"} : WriteError(out, error) /\ srv' = error
  BY DEF StopInWrite, Stop
<1>2. error = "EPIPE" /\ SomeoneLeft
  BY <1>1, WriteToUsed
<1> QED BY <1>1, <1>2 DEF HasCause, SomeoneLeft

(* The frames of one handler for one descriptor.                            *)
LEMMA WriteToOne ==
  ASSUME IndInv, NEW r \in Runs, NEW frames, StopInWrite(OutputTo(fd[r], frames))
  PROVE HasCause
<1>1. \A f \in ClientFds : OutputTo(fd[r], frames)[f] # << >> => f = fd[r]
  BY DEF OutputTo, NoOutput
<1> QED BY <1>1, WriteCause

LEMMA UdpMessageCause ==
  ASSUME IndInv, UdpMessage, srv' # "running"
  PROVE HasCause
<1> DEFINE t == Head(udp)
           n == Len(log) + 1
           out == IF t \in topics THEN Fanout(t, Data(n)) ELSE NoOutput
<1>1. StopInWrite(out) /\ t \in Topics
  <2>1. UdpFd \in ready /\ srv = "running"
    BY DEF UdpMessage, Handling, IsLowest
  <2>2. udp # << >> /\ udp \in Seq(Topics)
    BY <2>1 DEF IndInv, SnapshotOK, TypeOK, ServerTypeOK
  <2>3. StopInWrite(out)
    BY <2>1 DEF UdpMessage
  <2> QED BY <2>2, <2>3
<1>2. PICK error \in {"EBADF", "EPIPE"} : WriteError(out, error) /\ srv' = error
  BY <1>1 DEF StopInWrite, Stop
<1>3. PICK f \in ClientFds :
        /\ out[f] # << >>
        /\ \/ error = "EBADF" /\ f \in FreeFds
           \/ error = "EPIPE" /\ (f \in leaked \/ \E r \in Runs : fd[r] = f /\ PeerGone(r))
  BY <1>2 DEF WriteError
<1>4. PICK id \in Ids : IsConnected(id) /\ subs[t][id] = f
  BY <1>3, FanoutEntries DEF NoOutput
<1>5. f \in FreeFds \/ f \in leaked => Stale(id, t)
  BY <1>1, <1>4, CopyOfConnected
<1>6. (\E r \in Runs : fd[r] = f /\ PeerGone(r)) => \E r \in Held : PeerGone(r)
  BY DEF Held, ClientFds, NoFd, TcpFd
<1> QED BY <1>1, <1>2, <1>3, <1>4, <1>5, <1>6 DEF HasCause

LEMMA AcceptCause ==
  ASSUME IndInv, Accept, srv' # "running"
  PROVE HasCause
<1>1. /\ srv = "running" /\ newFd = NoFd
      /\ FreeFds = {} /\ srv' = "EMFILE"
  BY DEF Accept, Handling, Stop
<1>2. ASSUME NEW f \in ClientFds, f \notin leaked PROVE f \in readFds
  <2>1. PICK r \in Runs : fd[r] = f
    BY <1>1, <1>2 DEF FreeFds
  <2>2. r \in Held
    BY <2>1 DEF Held, ClientFds, NoFd, TcpFd
  <2> QED BY <1>1, <2>1, <2>2 DEF IndInv, FdAccounting, Held
<1>3. readFds \cup leaked \subseteq ClientFds
  BY DEF IndInv, TypeOK, ServerTypeOK
<1> QED BY <1>1, <1>2, <1>3 DEF HasCause

LEMMA StepCause ==
  ASSUME IndInv, [Next]_vars, srv = "running", srv' # "running"
  PROVE HasCause
<1>1. CASE UdpMessage
  BY <1>1, UdpMessageCause
<1>2. CASE Accept
  BY <1>2, AcceptCause
<1>3. ASSUME NEW r \in Runs, RefuseId(r) \/ AdmitId(r) PROVE HasCause
  <2>1. fd[r] = newFd
    BY <1>3 DEF RefuseId, AdmitId, ReadingId
  <2>2. \E frames : StopInWrite(OutputTo(newFd, frames))
    BY <1>3 DEF RefuseId, AdmitId
  <2> QED BY <2>1, <2>2, WriteToOne
<1>4. ASSUME NEW r \in Runs, NEW id \in Ids, Subscribe(r, id) \/ Unsubscribe(r, id)
      PROVE HasCause
  <2>1. \E o : StopInWrite(Reply(r, o))
    BY <1>4 DEF Subscribe, Unsubscribe, Answer
  <2> QED BY <2>1, WriteToOne DEF Reply
<1>5. ASSUME NEW r \in Runs, RecvReset(r) PROVE HasCause
  BY <1>5 DEF RecvReset, Stop, HasCause, Held, PeerGone
<1>6. CASE CloseAll
  <2>1. CASE StopInWrite(ExitFrames)
    BY <2>1, WriteCause DEF ExitFrames
  <2>2. CASE Stop("exited", ExitFrames, ClientFds)
    BY <2>2 DEF Stop, HasCause
  <2> QED BY <1>6, <2>1, <2>2 DEF CloseAll
<1>7. CASE UNCHANGED srv
  BY <1>7
<1>8. CASE ServerStep
  BY <1>1, <1>2, <1>3, <1>4, <1>5, <1>7, <1>8
     DEF ServerStep, Select, NoId, Disconnect
<1>9. CASE ServerInput
  BY <1>6, <1>7, <1>9 DEF ServerInput, Publish
<1>10. CASE UNCHANGED serverVars \/ UNCHANGED vars
  BY <1>7, <1>10 DEF serverVars, vars
<1> QED BY <1>8, <1>9, <1>10 DEF Next, Greets, Reads, SubscriberInput

(* Only a peer that has left ends the server, whatever the others do.       *)
THEOREM OnlyLeavingEndsIt == Spec => EndsHaveCauses
<1>1. IndInv /\ [Next]_vars
        => [srv = "running" /\ srv' # "running" => HasCause]_vars
  BY StepCause
<1> QED BY <1>1, Inductive, PTL DEF Spec, EndsHaveCauses, HasCause

-----------------------------------------------------------------------------
(* What a connected client gets of a message goes to its connection.        *)
LEMMA ReceivesCopies ==
  ASSUME TransportTypeOK, NEW r \in Held, link[r] = "open",
         NEW frame \in DownFrame, NEW m \in Nat \ {0}, NEW out \in Outputs,
         out[fd[r]] = [k \in 1 .. m |-> frame]
  PROVE /\ Len(Received(out)[r]) > Len(down[r])
        /\ Received(out)[r][Len(Received(out)[r])] = frame
<1> DEFINE frames == [k \in 1 .. m |-> frame]
<1>1. r \in Runs /\ down[r] \in Seq(DownFrame)
  BY DEF Held, TransportTypeOK
<1>2. frames \in Seq(DownFrame) /\ Len(frames) = m
  OBVIOUS
<1>3. Received(out)[r] = down[r] \o frames
  BY <1>1 DEF Received
<1> HIDE DEF frames
<1>4. /\ Len(down[r] \o frames) = Len(down[r]) + m
      /\ (down[r] \o frames)[Len(down[r]) + m] = frames[m]
  <2>1. Len(down[r]) \in Nat
    BY <1>1
  <2> DEFINE s == down[r]
             k == Len(s) + m
  <2>2. k \in 1 .. Len(s) + Len(frames) /\ ~(k <= Len(s)) /\ k - Len(s) = m
    BY <1>2, <2>1
  <2>3. /\ Len(s \o frames) = Len(s) + Len(frames)
        /\ \A i \in 1 .. Len(s) + Len(frames) :
             (s \o frames)[i] = IF i <= Len(s) THEN s[i] ELSE frames[i - Len(s)]
    <3> HIDE DEF s
    <3>1. s \in Seq(DownFrame) /\ frames \in Seq(DownFrame)
      BY <1>1, <1>2 DEF s
    <3>2. \A p, q \in Seq(DownFrame) :
            /\ Len(p \o q) = Len(p) + Len(q)
            /\ \A i \in 1 .. Len(p) + Len(q) :
                 (p \o q)[i] = IF i <= Len(p) THEN p[i] ELSE q[i - Len(p)]
      BY ConcatProperties
    <3> QED BY <3>1, <3>2
  <2> HIDE DEF k
  <2>4. (s \o frames)[k] = frames[m]
    BY <2>2, <2>3
  <2> QED BY <1>2, <2>3, <2>4 DEF k
<1>5. Len(down[r]) \in Nat
  BY <1>1
<1> QED BY <1>3, <1>4, <1>5 DEF frames

(* What one datagram does while the server goes on.                         *)
LEMMA UdpMessageEffect ==
  ASSUME IndInv, UdpMessage, srv' = "running"
  PROVE /\ Head(udp) \in Topics /\ Len(log) + 1 \in 1 .. MaxPub
        /\ Len(log') = Len(log) + 1 /\ log'[Len(log')] = Head(udp)
        /\ down' = Received(IF Head(udp) \in topics THEN Fanout(Head(udp), Data(Len(log) + 1))
                                                   ELSE NoOutput)
<1> USE DEF IndInv, TypeOK
<1>1. /\ log' = Append(log, Head(udp))
      /\ down' = Received(IF Head(udp) \in topics THEN Fanout(Head(udp), Data(Len(log) + 1))
                                                 ELSE NoOutput)
  BY DEF UdpMessage, StopInWrite, Stop
<1>2. Head(udp) \in Topics /\ Len(log) + 1 \in 1 .. MaxPub
  <2>1. UdpFd \in ready
    BY DEF UdpMessage, Handling, IsLowest
  <2>2. udp # << >> /\ udp \in Seq(Topics) /\ log \in Seq(Topics)
    BY <2>1 DEF SnapshotOK, ServerTypeOK
  <2>3. Len(udp) \in Nat \ {0} /\ Len(log) \in Nat /\ Len(log) + Len(udp) <= MaxPub
    BY <2>2 DEF ServerTypeOK
  <2> QED BY <2>2, <2>3, ConstantsAssumption
<1>3. Len(log') = Len(log) + 1 /\ log'[Len(log')] = Head(udp)
  <2>1. log \in Seq(Topics)
    BY DEF ServerTypeOK
  <2> QED BY <1>1, <1>2, <2>1, AppendProperties
<1> QED BY <1>1, <1>2, <1>3

(* One message, one client that asked for its topic to be stored.           *)
LEMMA MessageAccounted ==
  ASSUME PromiseInv, UdpMessage, srv' = "running",
         NEW id \in Ids, StoreAndForward(id, log'[Len(log')])
  PROVE \/ /\ ~IsConnected(id)
           /\ saved'[id].missed = Append(saved[id].missed, Len(log'))
        \/ \E r \in Held :
             /\ connected[id].sock = fd[r]
             /\ \/ PeerGone(r)
                \/ /\ Len(down'[r]) > Len(down[r])
                   /\ down'[r][Len(down'[r])] = Data(Len(log'))
        \/ Stale(id, log'[Len(log')])
<1> DEFINE t == Head(udp)
           n == Len(log) + 1
           out == IF t \in topics THEN Fanout(t, Data(n)) ELSE NoOutput
<1>1. saved' = [i \in Ids |->
        IF t \in topics /\ StoresFor(i, t)
        THEN [saved[i] EXCEPT !.missed = Append(@, n)] ELSE saved[i]]
  BY DEF UdpMessage, StopInWrite, Stop
<1>2. t \in Topics /\ n \in 1 .. MaxPub /\ down' = Received(out)
  BY UdpMessageEffect DEF PromiseInv
<1>3. Len(log') = n /\ log'[Len(log')] = t
  BY UdpMessageEffect DEF PromiseInv
<1> USE DEF PromiseInv, IndInv, TypeOK
<1>4. IsSubscribed(id, t) /\ t \in connected[id].sf \cup saved[id].sf
  BY <1>3 DEF StoreAndForward
<1>5. t \in topics
  BY <1>2, <1>4 DEF AbsentOK
<1>6. CASE ~IsConnected(id)
  <2>1. connected[id].sf = {}
    BY <1>6 DEF AbsentOK, NoClient
  <2>2. t \in saved[id].sf /\ IsSaved(id)
    BY <1>4, <2>1 DEF AbsentOK, NoClient
  <2>3. saved'[id] = [saved[id] EXCEPT !.missed = Append(@, n)]
    BY <1>1, <1>4, <1>5, <1>6, <2>2 DEF StoresFor
  <2>4. saved'[id].missed = Append(saved[id].missed, n)
    BY <2>3 DEF ServerTypeOK, Client
  <2> QED BY <1>3, <1>6, <2>4
<1>7. CASE IsConnected(id) /\ ~Stale(id, t)
  <2>1. subs[t][id] = connected[id].sock
    BY <1>4, <1>7 DEF Stale
  <2>2. connected[id].sock \in readFds
    BY <1>7 DEF TablesAgree, ConnectedSocks, IsConnected
  <2>3. PICK r \in Runs : fd[r] = connected[id].sock
    BY <2>2 DEF TablesAgree
  <2>4. r \in Held /\ connected[id].sock \in ClientFds
    <3>1. connected[id].sock \in ClientFds
      BY <2>2 DEF ServerTypeOK
    <3> QED BY <2>3, <3>1 DEF Held, ClientFds, NoFd, TcpFd
  <2>5. CASE PeerGone(r)
    BY <2>3, <2>4, <2>5
  <2>6. CASE ~PeerGone(r)
    <3>1. link[r] = "open"
      BY <2>4, <2>6 DEF ConnectionsOK, TransportTypeOK, LinkStates, PeerGone
    <3>2. PICK m \in Nat \ {0} : Fanout(t, Data(n))[fd[r]] = [k \in 1 .. m |-> Data(n)]
      BY <1>7, <2>1, <2>3, <2>4, FanoutEntries
    <3>3. Data(n) \in DownFrame
      BY <1>2, FrameTypes
    <3>4. Fanout(t, Data(n)) \in Outputs
      BY <3>3, FanoutType
    <3>5. /\ Len(down'[r]) > Len(down[r])
          /\ down'[r][Len(down'[r])] = Data(n)
      BY <1>2, <1>5, <2>4, <3>1, <3>2, <3>3, <3>4, ReceivesCopies
    <3> QED BY <1>3, <2>3, <2>4, <3>5
  <2> QED BY <2>5, <2>6
<1> QED BY <1>3, <1>6, <1>7

(* Every other step leaves the messages received as they are.               *)
LEMMA OnlyUdpMessageLogs ==
  ASSUME [Next]_vars, ~UdpMessage
  PROVE log' = log
<1>1. CASE ServerStep
  <2>1. ASSUME NEW out, StopInWrite(out) PROVE log' = log
    BY <2>1 DEF StopInWrite, Stop
  <2>2. ASSUME Select \/ Accept PROVE log' = log
    BY <2>2 DEF Select, Accept, Stop
  <2>3. ASSUME NEW r \in Runs, NoId(r) \/ RefuseId(r) \/ AdmitId(r) \/ RecvReset(r)
        PROVE  log' = log
    BY <2>1, <2>3 DEF NoId, RefuseId, AdmitId, RecvReset, Stop
  <2>4. ASSUME NEW r \in Runs, NEW id \in Ids, Unsubscribe(r, id) \/ Subscribe(r, id)
        PROVE  log' = log
    BY <2>1, <2>4 DEF Unsubscribe, Subscribe, Answer
  <2>5. ASSUME NEW r \in Runs, NEW id \in Ids, Disconnect(r, id)
        PROVE  log' = log
    BY <2>5 DEF Disconnect
  <2> QED BY <1>1, <2>2, <2>3, <2>4, <2>5 DEF ServerStep
<1>2. CASE ServerInput
  BY <1>2 DEF ServerInput, CloseAll, Publish, Stop, StopInWrite
<1>3. CASE UNCHANGED serverVars \/ UNCHANGED vars
  BY <1>3 DEF serverVars, vars
<1> QED BY <1>1, <1>2, <1>3 DEF Next, Greets, Reads, SubscriberInput

(* A stored topic's message is on its client's connection or in its queue,  *)
(* unless that client has left unnoticed or has moved.                      *)
THEOREM OnlyLeavingLoses == Spec => LossHasCause
<1>1. PromiseInv /\ [Next]_vars /\ log' # log /\ srv' = "running" =>
        \A id \in Ids :
          StoreAndForward(id, log'[Len(log')]) =>
            \/ /\ ~IsConnected(id)
               /\ saved'[id].missed = Append(saved[id].missed, Len(log'))
            \/ \E r \in Held :
                 /\ connected[id].sock = fd[r]
                 /\ \/ PeerGone(r)
                    \/ /\ Len(down'[r]) > Len(down[r])
                       /\ down'[r][Len(down'[r])] = Data(Len(log'))
            \/ Stale(id, log'[Len(log')])
  BY MessageAccounted, OnlyUdpMessageLogs
<1> QED BY <1>1, Inductive, NothingLeftOver, PTL DEF Spec, LossHasCause, PromiseInv

-----------------------------------------------------------------------------
LEMMA SingleCopy ==
  ASSUME NEW frame
  PROVE  [k \in 1 .. 1 |-> frame] = <<frame>>
OBVIOUS

(* One message, one connection that gets something of it.                   *)
LEMMA DeliveryAccounted ==
  ASSUME IndInv, UdpMessage, srv' = "running", NEW r \in Held, down'[r] # down[r]
  PROVE \/ /\ down'[r] = Append(down[r], Data(Len(log')))
           /\ \E id \in Ids :
                IsSubscribed(id, log'[Len(log')]) /\ connected[id].sock = fd[r]
        \/ \E id \in Ids :
             Stale(id, log'[Len(log')]) /\ subs[log'[Len(log')]][id] = fd[r]
<1> DEFINE t == log'[Len(log')]
           n == Len(log')
           entries == {id \in Ids : IsConnected(id) /\ subs[t][id] = fd[r]}
           copies == [k \in 1 .. Cardinality(entries) |-> Data(n)]
<1>1. r \in Runs /\ fd[r] \in ClientFds /\ fd[r] # NoFd /\ down[r] \in Seq(DownFrame)
  BY DEF Held, IndInv, TypeOK, TransportTypeOK, ClientFds, NoFd, TcpFd
<1>2. t \in Topics /\ n \in 1 .. MaxPub
      /\ down' = Received(IF t \in topics THEN Fanout(t, Data(n)) ELSE NoOutput)
  BY UdpMessageEffect
<1>3. down'[r] = down[r] \o copies
  <2>1. down[r] \o << >> = down[r]
    BY <1>1, ConcatEmptySeq
  <2>2. t \in topics /\ down'[r] = down[r] \o Fanout(t, Data(n))[fd[r]]
    BY <1>1, <1>2, <2>1 DEF Received, NoOutput
  <2> QED BY <1>1, <2>2 DEF Fanout
<1>4. entries \subseteq Ids /\ IsFiniteSet(entries)
  BY ConstantsAssumption, FS_Subset
<1>5. CASE \E id \in entries : connected[id].sock # fd[r]
  BY <1>1, <1>5 DEF Stale, IsSubscribed
<1>6. CASE \A id \in entries : connected[id].sock = fd[r]
  <2>1. entries # {}
    <3>1. SUFFICES ASSUME entries = {} PROVE FALSE
      OBVIOUS
    <3>2. copies = << >>
      <4>1. 1 .. Cardinality(entries) = {}
        <5>1. Cardinality({}) = 0
          BY FS_EmptySet
        <5>2. Cardinality(entries) = 0
          BY <3>1, <5>1
        <5> HIDE DEF entries
        <5> QED BY <5>2
      <4> HIDE DEF entries
      <4> QED BY <4>1
    <3> QED BY <1>1, <1>3, <3>2, ConcatEmptySeq
  <2>2. PICK id \in entries : TRUE
    BY <2>1
  <2>3. entries = {id}
    BY <1>6, <2>2 DEF IndInv, TablesAgree
  <2>4. copies = <<Data(n)>>
    <3>1. Cardinality(entries) = 1
      BY <2>3, FS_Singleton
    <3> HIDE DEF entries
    <3> QED BY <3>1, SingleCopy
  <2>5. down'[r] = Append(down[r], Data(n))
    <3>1. Data(n) \in DownFrame
      BY <1>2, FrameTypes
    <3> HIDE DEF copies
    <3> QED BY <1>1, <1>3, <2>4, <3>1, AppendIsConcat
  <2>6. id \in Ids /\ IsSubscribed(id, t) /\ connected[id].sock = fd[r]
    BY <1>1, <1>6, <2>2 DEF IsSubscribed
  <2> QED BY <2>5, <2>6
<1> QED BY <1>5, <1>6

(* A message comes once, and to those who asked for it, but for an entry of *)
(* a client that has moved (server_funs.cpp:86-108).                        *)
THEOREM OnlyMovedMisdelivers == Spec => DeliveryHasCause
<1>1. IndInv /\ [Next]_vars /\ log' # log /\ srv' = "running" =>
        \A r \in Held : down'[r] # down[r] =>
          \/ /\ down'[r] = Append(down[r], Data(Len(log')))
             /\ \E id \in Ids :
                  IsSubscribed(id, log'[Len(log')]) /\ connected[id].sock = fd[r]
          \/ \E id \in Ids :
               Stale(id, log'[Len(log')]) /\ subs[log'[Len(log')]][id] = fd[r]
  BY DeliveryAccounted, OnlyUdpMessageLogs
<1> QED BY <1>1, Inductive, PTL DEF Spec, DeliveryHasCause

-----------------------------------------------------------------------------
(* Only already_connected hangs up on a peer that is there.                 *)
LEMMA OnlyRefuseIdHangsUp ==
  ASSUME IndInv, [Next]_vars, srv' = "running", \A q \in Runs : ~RefuseId(q),
         NEW r \in Runs, link[r] = "open", link'[r] \in {"sfin", "srst"}
  PROVE  FALSE
<1>1. link \in [Runs -> LinkStates]
  BY DEF IndInv, TypeOK, TransportTypeOK
<1>2. ASSUME NEW q \in Runs, NEW n, link[q] = "cfin", ServerCloses(q, n) PROVE FALSE
  BY <1>1, <1>2 DEF ServerCloses, AfterServerClose, PeerGone
<1>3. ASSUME NEW q \in Runs, ClientCloses(q) PROVE FALSE
  BY <1>1, <1>3 DEF ClientCloses
<1>4. CASE UNCHANGED link
  BY <1>4
<1>5. CASE ServerStep
  <2>1. ASSUME NEW q \in Runs, NoId(q) PROVE FALSE
    BY <1>2, <2>1 DEF NoId
  <2>2. ASSUME NEW q \in Runs, NEW id \in Ids, Disconnect(q, id) PROVE FALSE
    BY <1>2, <2>2 DEF Disconnect
  <2>3. ASSUME NEW out, StopInWrite(out) PROVE FALSE
    BY <2>3 DEF StopInWrite, Stop
  <2>4. ASSUME Select \/ UdpMessage \/ Accept PROVE FALSE
    BY <1>4, <2>3, <2>4 DEF Select, UdpMessage, Accept, Stop, transportVars
  <2>5. ASSUME NEW q \in Runs, AdmitId(q) \/ RecvReset(q) PROVE FALSE
    BY <1>4, <2>3, <2>5 DEF AdmitId, RecvReset, Stop
  <2>6. ASSUME NEW q \in Runs, NEW id \in Ids, Unsubscribe(q, id) \/ Subscribe(q, id)
        PROVE  FALSE
    BY <1>4, <2>3, <2>6 DEF Unsubscribe, Subscribe, Answer
  <2> QED BY <1>5, <2>1, <2>2, <2>4, <2>5, <2>6 DEF ServerStep
<1>6. CASE ServerInput
  BY <1>4, <1>6 DEF ServerInput, CloseAll, Publish, Stop, StopInWrite, transportVars
<1>7. ASSUME NEW q \in Runs, Greets(q) \/ Reads(q) \/ SubscriberInput(q) PROVE FALSE
  <2>1. ASSUME Connect(q) PROVE FALSE
    BY <1>1, <2>1 DEF Connect, ClientConnects
  <2> QED BY <1>3, <1>4, <1>7, <2>1
          DEF Greets, SendId, ClientSends, Reads, Display, ReadAnswer, ClientReceives, ReadExit,
              DisplayEndOfStream, ServerReset, Ends, SubscriberInput, SendRequest, Quit, transportVars
<1>8. CASE UNCHANGED vars
  BY <1>4, <1>8 DEF vars, transportVars
<1> QED BY <1>5, <1>6, <1>7, <1>8 DEF Next

LEMMA RefusalHasCause ==
  ASSUME IndInv, NEW q \in Runs, RefuseId(q), srv' = "running",
         NEW r \in Runs, link[r] = "open", link'[r] \in {"sfin", "srst"}
  PROVE  /\ fd[r] = newFd
         /\ \E p \in Held \ {r} : connected[Head(up[r]).id].sock = fd[p]
         /\ down'[r] = Append(down[r], Opcode("EXIT"))
<1> USE DEF IndInv, TypeOK
<1> DEFINE out == OutputTo(newFd, <<Opcode("EXIT")>>)
<1>1. /\ ReadingId(q) /\ up[q] # << >> /\ IsConnected(Head(up[q]).id)
      /\ ServerCloses(q, 1) /\ down' = Received(out)
  BY DEF RefuseId, StopInWrite, Stop, Refused
<1>2. r = q
  BY <1>1 DEF ServerCloses, TransportTypeOK
<1>3. newFd # NoFd /\ fd[r] = newFd /\ newFd \in ClientFds /\ r \in Held
  BY <1>1, <1>2 DEF ReadingId, ServerTypeOK, Held
<1>4. Head(up[r]).id \in Ids
  <2>1. up[r] \in Seq(UpFrame) /\ Head(up[r]).type = "ID"
    BY <1>1, <1>2, <1>3 DEF TransportTypeOK, GreetingOK, Unread
  <2> QED BY <1>1, <1>2, <2>1 DEF UpFrame, Request
<1>5. PICK p \in Runs : fd[p] = connected[Head(up[r]).id].sock
  BY <1>1, <1>2, <1>4 DEF TablesAgree, ConnectedSocks, IsConnected
<1>6. connected[Head(up[r]).id].sock \in readFds /\ newFd \notin readFds
  BY <1>1, <1>2, <1>3, <1>4 DEF TablesAgree, ConnectedSocks, IsConnected, FdAccounting
<1>7. p \in Held \ {r}
  BY <1>1, <1>2, <1>3, <1>5, <1>6 DEF Held, IsConnected
<1>8. down'[r] = Append(down[r], Opcode("EXIT"))
  <2>1. out[fd[r]] = <<Opcode("EXIT")>>
    BY <1>3 DEF OutputTo, NoOutput
  <2>2. down'[r] = down[r] \o <<Opcode("EXIT")>>
    BY <1>1, <1>3, <2>1 DEF Received
  <2>3. down[r] \in Seq(DownFrame) /\ Opcode("EXIT") \in DownFrame
    BY FrameTypes DEF TransportTypeOK, Opcodes
  <2> QED BY <2>2, <2>3, AppendIsConcat
<1> QED BY <1>3, <1>5, <1>7, <1>8

(* A subscriber is sent away only for an ID that another connection has     *)
(* (server.cpp:105, server_funs.cpp:110-123).                               *)
THEOREM OnlyTakenIsRefused == Spec => RefusedOnlyWhenTaken
<1>1. IndInv /\ [Next]_vars /\ srv' = "running" =>
        \A r \in Runs : link[r] = "open" /\ link'[r] \in {"sfin", "srst"} =>
          /\ fd[r] = newFd
          /\ \E q \in Held \ {r} : connected[Head(up[r]).id].sock = fd[q]
          /\ down'[r] = Append(down[r], Opcode("EXIT"))
  BY OnlyRefuseIdHangsUp, RefusalHasCause
<1> QED BY <1>1, Inductive, PTL DEF Spec, RefusedOnlyWhenTaken

-----------------------------------------------------------------------------
(* What a subscriber has been told before its connection ends.  close_all   *)
(* reaches every client because no watched descriptor is above fdmax.       *)
Told(r) == down[r] # << >> /\ down[r][Len(down[r])] = Opcode("EXIT")

ToldOK == EndIsTold /\ \A f \in readFds : f <= fdmax

LEMMA ToldLast ==
  ASSUME NEW s \in Seq(DownFrame)
  PROVE  LET all == s \o <<Opcode("EXIT")>>
         IN  all # << >> /\ all[Len(all)] = Opcode("EXIT")
<1> DEFINE all == s \o <<Opcode("EXIT")>>
<1>1. Opcode("EXIT") \in DownFrame
  BY FrameTypes DEF Opcodes
<1>2. all = Append(s, Opcode("EXIT"))
  BY <1>1, AppendIsConcat
<1> QED BY <1>1, <1>2, AppendProperties

(* A step that finishes no connection takes nothing that was told.          *)
LEMMA NothingUntold ==
  ASSUME ToldOK, UNCHANGED srv,
         \A r \in Runs : link'[r] = "sfin" => link[r] = "sfin" /\ (Told(r) => Told(r)'),
         \A r \in Runs : proc'[r] = "spinning" => proc[r] = "spinning",
         \A f \in readFds' : f <= fdmax'
  PROVE  ToldOK'
BY DEF ToldOK, EndIsTold, Told

(* The end of the server in an error: nobody is promised anything.          *)
LEMMA ErrorTold ==
  ASSUME NEW ending \in Endings \ {"exited"}, NEW out, NEW done, Stop(ending, out, done)
  PROVE  ToldOK'
BY DEF Stop, Forget, Endings, ToldOK, EndIsTold

LEMMA WriteErrorTold ==
  ASSUME NEW out, StopInWrite(out)
  PROVE  ToldOK'
<1>1. PICK error \in {"EBADF", "EPIPE"} : \E done : Stop(error, out, done)
  BY DEF StopInWrite
<1> QED BY <1>1, ErrorTold DEF Endings

(* What a handler writes goes to open connections only.                     *)
LEMMA WritesTold ==
  ASSUME NEW out, down' = Received(out), NEW r \in Runs, link[r] = "sfin"
  PROVE  down'[r] = down[r]
BY DEF Received

LEMMA CloseAllTold ==
  ASSUME IndInv, ToldOK, UNCHANGED subscriberVars, CloseAll
  PROVE  ToldOK'
<1>1. CASE StopInWrite(ExitFrames)
  BY <1>1, WriteErrorTold
<1>2. CASE Stop("exited", ExitFrames, ClientFds)
  <2> USE DEF IndInv, TypeOK, Stop, ServerProcessEnds
  <2>1. srv = "running" /\ newFd = NoFd /\ proc' = proc
    BY DEF CloseAll, AtSelect, subscriberVars
  <2>2. ASSUME NEW r \in Runs, link'[r] = "sfin" PROVE Told(r)'
    <3>1. CASE r \in Held \cup Waiting
      <4>1. r \in Held /\ link[r] = "open"
        BY <1>2, <2>2, <3>1 DEF AfterServerClose, PeerGone, ConnectionsOK, TransportTypeOK, LinkStates
      <4>2. fd[r] \in readFds /\ fd[r] \in ClientFds /\ fd[r] <= fdmax
        BY <2>1, <4>1 DEF FdAccounting, Held, ServerTypeOK, ToldOK
      <4>3. ExitFrames[fd[r]] = <<Opcode("EXIT")>>
        BY <4>2 DEF ExitFrames
      <4>4. down'[r] = down[r] \o <<Opcode("EXIT")>>
        BY <1>2, <4>1, <4>2, <4>3 DEF Received
      <4> QED BY <4>4, ToldLast DEF TransportTypeOK, Told
    <3>2. CASE r \notin Held \cup Waiting
      <4>1. link[r] = "sfin" /\ down'[r] = down[r]
        BY <1>2, <2>2, <3>2 DEF Received
      <4> QED BY <2>1, <4>1 DEF ToldOK, EndIsTold, Told
    <3> QED BY <3>1, <3>2
  <2>3. \A r \in Runs : proc'[r] # "spinning"
    BY <2>1 DEF ToldOK, EndIsTold
  <2> QED BY <1>2, <2>2, <2>3 DEF ToldOK, EndIsTold, Told, Forget
<1> QED BY <1>1, <1>2 DEF CloseAll

(* close() on a connection that its peer has finished.                      *)
LEMMA ClosesTold ==
  ASSUME IndInv, ToldOK, UNCHANGED <<srv, proc, down, fdmax>>, readFds' \subseteq readFds,
         NEW r \in Runs, link[r] = "cfin", ServerCloses(r, 0)
  PROVE  ToldOK'
<1>1. \A q \in Runs : link'[q] = "sfin" => link[q] = "sfin"
  BY DEF IndInv, TypeOK, TransportTypeOK, ServerCloses, AfterServerClose, PeerGone
<1> QED BY <1>1, NothingUntold DEF Told, ToldOK

LEMMA RefuseIdTold ==
  ASSUME IndInv, ToldOK, UNCHANGED subscriberVars, NEW r \in Runs, RefuseId(r)
  PROVE  ToldOK'
<1> DEFINE out == OutputTo(newFd, <<Opcode("EXIT")>>)
<1>1. CASE StopInWrite(out)
  BY <1>1, WriteErrorTold
<1>2. CASE down' = Received(out) /\ Refused(r) /\ UNCHANGED <<srv, memory>>
  <2> USE DEF IndInv, TypeOK
  <2>1. /\ srv = "running" /\ newFd # NoFd /\ fd[r] = newFd /\ r \in Held /\ newFd \in ClientFds
        /\ ServerCloses(r, 1) /\ proc' = proc
    BY <1>2 DEF RefuseId, ReadingId, Refused, Held, ServerTypeOK, subscriberVars
  <2>2. ASSUME NEW q \in Runs, link'[q] = "sfin" PROVE Told(q)'
    <3>1. CASE q = r
      <4>1. link[r] = "open"
        BY <2>1, <2>2, <3>1
           DEF ServerCloses, AfterServerClose, PeerGone, ConnectionsOK, TransportTypeOK, LinkStates
      <4>2. down'[r] = down[r] \o <<Opcode("EXIT")>>
        BY <1>2, <2>1, <4>1 DEF Received, OutputTo, NoOutput
      <4> QED BY <3>1, <4>2, ToldLast DEF TransportTypeOK, Told
    <3>2. CASE q # r
      <4>1. link[q] = "sfin"
        BY <2>1, <2>2, <3>2 DEF ServerCloses, TransportTypeOK
      <4> QED BY <1>2, <2>1, <4>1, WritesTold DEF ToldOK, EndIsTold, Told
    <3> QED BY <3>1, <3>2
  <2>3. \A q \in Runs : proc'[q] # "spinning"
    BY <2>1 DEF ToldOK, EndIsTold
  <2> QED BY <1>2, <2>2, <2>3 DEF ToldOK, EndIsTold, Told, memory
<1> QED BY <1>1, <1>2 DEF RefuseId

LEMMA AdmitIdTold ==
  ASSUME IndInv, ToldOK, UNCHANGED subscriberVars, NEW r \in Runs, AdmitId(r)
  PROVE  ToldOK'
<1> DEFINE out == OutputTo(newFd, MissedFrames(Head(up[r]).id))
<1>1. CASE StopInWrite(out)
  BY <1>1, WriteErrorTold
<1>2. CASE /\ down' = Received(out) /\ UNCHANGED <<srv, link>>
           /\ readFds' = readFds \cup {newFd}
           /\ fdmax' = IF newFd > fdmax THEN newFd ELSE fdmax
  <2>1. newFd \in Nat /\ fdmax \in Nat /\ \A f \in readFds : f \in Nat /\ f <= fdmax
    BY ConstantsAssumption DEF IndInv, TypeOK, ServerTypeOK, ClientFds, TcpFd, NoFd, ToldOK
  <2>2. \A f \in readFds' : f <= fdmax'
    BY <1>2, <2>1
  <2>3. \A q \in Runs : link'[q] = "sfin" => link[q] = "sfin" /\ (Told(q) => Told(q)')
    BY <1>2, WritesTold DEF Told
  <2> QED BY <1>2, <2>2, <2>3, NothingUntold DEF subscriberVars
<1> QED BY <1>1, <1>2 DEF AdmitId

LEMMA ServerStepTold ==
  ASSUME IndInv, ToldOK, ServerStep
  PROVE  ToldOK'
<1>1. UNCHANGED subscriberVars /\ proc' = proc
  BY DEF ServerStep, subscriberVars
<1>2. ASSUME NEW out, down' = Received(out), UNCHANGED <<srv, readFds, fdmax, link>>
      PROVE  ToldOK'
  <2>1. \A r \in Runs : link'[r] = "sfin" => link[r] = "sfin" /\ (Told(r) => Told(r)')
    BY <1>2, WritesTold DEF Told
  <2> QED BY <1>1, <1>2, <2>1, NothingUntold DEF ToldOK
<1>3. ASSUME UNCHANGED <<srv, readFds, fdmax, link, down>> PROVE ToldOK'
  BY <1>1, <1>3 DEF ToldOK, EndIsTold
<1>4. CASE Select
  BY <1>3, <1>4 DEF Select, memory, transportVars
<1>5. CASE UdpMessage
  BY <1>2, <1>5, WriteErrorTold DEF UdpMessage
<1>6. CASE Accept
  BY <1>3, <1>6, ErrorTold DEF Accept, memory, Endings
<1>7. ASSUME NEW r \in Runs, NoId(r) PROVE ToldOK'
  BY <1>1, <1>7, ClosesTold DEF NoId
<1>8. ASSUME NEW r \in Runs, RecvReset(r) PROVE ToldOK'
  BY <1>8, ErrorTold DEF RecvReset, Endings
<1>9. ASSUME NEW r \in Runs, NEW id \in Ids, Unsubscribe(r, id) \/ Subscribe(r, id)
      PROVE  ToldOK'
  <2>1. (\E o : Answer(r, o)) \/ (\E o : StopInWrite(Reply(r, o)))
    BY <1>9 DEF Unsubscribe, Subscribe
  <2> QED BY <1>2, <2>1, WriteErrorTold DEF Answer
<1>10. ASSUME NEW r \in Runs, NEW id \in Ids, Disconnect(r, id) PROVE ToldOK'
  BY <1>1, <1>10, ClosesTold DEF Disconnect, Unwatch
<1> QED BY <1>1, <1>4, <1>5, <1>6, <1>7, <1>8, <1>9, <1>10, RefuseIdTold, AdmitIdTold DEF ServerStep

LEMMA TailLast ==
  ASSUME NEW S, NEW s \in Seq(S), Len(s) > 1
  PROVE  Tail(s) # << >> /\ Tail(s)[Len(Tail(s))] = s[Len(s)]
<1>1. Len(s) \in Nat /\ s # << >>
  OBVIOUS
<1>2. Len(Tail(s)) = Len(s) - 1 /\ \A k \in 1 .. Len(s) - 1 : Tail(s)[k] = s[k + 1]
  OBVIOUS
<1>3. Len(s) - 1 \in 1 .. Len(s) - 1 /\ (Len(s) - 1) + 1 = Len(s)
  BY <1>1
<1>4. Tail(s)[Len(s) - 1] = s[Len(s)]
  BY <1>2, <1>3
<1>5. Tail(s) # << >>
  <2>1. Len(Tail(s)) # 0
    BY <1>1, <1>2
  <2>2. Tail(s) \in Seq(S)
    BY <1>1
  <2>3. \A t \in Seq(S) : t = << >> => Len(t) = 0
    OBVIOUS
  <2> QED BY <2>1, <2>2, <2>3
<1> QED BY <1>2, <1>4, <1>5

(* A subscriber reads EXIT last, and does not go on after it.               *)
LEMMA ReadTold ==
  ASSUME IndInv, ToldOK, NEW r \in Runs, UNCHANGED serverVars, Display(r) \/ ReadAnswer(r)
  PROVE  ToldOK'
<1>1. /\ UNCHANGED <<srv, proc, link, readFds, fdmax>> /\ down[r] # << >>
      /\ down' = [down EXCEPT ![r] = Tail(@)] /\ Head(down[r]).op # "EXIT"
  BY DEF Display, ReadAnswer, ClientReceives, serverVars, memory
<1>2. down \in [Runs -> Seq(DownFrame)]
  BY DEF IndInv, TypeOK, TransportTypeOK
<1>3. ASSUME NEW q \in Runs, Told(q) PROVE Told(q)'
  <2>1. CASE q = r
    <3> DEFINE s == down[r]
    <3>1. /\ s \in Seq(DownFrame) /\ s # << >> /\ s[Len(s)].op = "EXIT" /\ s[1].op # "EXIT"
          /\ down'[r] = Tail(s)
      BY <1>1, <1>2, <1>3, <2>1 DEF Told, Opcode
    <3> HIDE DEF s
    <3>2. Len(s) \in Nat /\ Len(s) > 1
      BY <3>1
    <3>3. Tail(s) # << >> /\ Tail(s)[Len(Tail(s))] = s[Len(s)]
      BY <3>1, <3>2, TailLast
    <3> QED BY <1>3, <2>1, <3>1, <3>3 DEF Told, s
  <2>2. CASE q # r
    BY <1>1, <1>2, <1>3, <2>2 DEF Told
  <2> QED BY <2>1, <2>2
<1> QED BY <1>1, <1>3, NothingUntold DEF ToldOK

LEMMA SubscriberTold ==
  ASSUME IndInv, ToldOK, NEW r \in Runs, Greets(r) \/ Reads(r) \/ SubscriberInput(r)
  PROVE  ToldOK'
<1> USE DEF IndInv, TypeOK, TransportTypeOK, SubscriberTypeOK
<1>1. UNCHANGED serverVars /\ UNCHANGED <<srv, readFds, fdmax>>
  BY DEF Greets, Reads, SubscriberInput, serverVars, memory
<1>2. ASSUME proc' = [proc EXCEPT ![r] = proc'[r]], proc'[r] # "spinning",
             \A q \in Runs : link'[q] = "sfin" => link[q] = "sfin" /\ down'[q] = down[q]
      PROVE  ToldOK'
  <2>1. \A q \in Runs : proc'[q] = "spinning" => proc[q] = "spinning"
    BY <1>2
  <2> QED BY <1>1, <1>2, <2>1, NothingUntold DEF Told, ToldOK
<1>3. CASE Connect(r)
  BY <1>2, <1>3 DEF Connect, ClientConnects
<1>4. CASE (\E id \in Ids : SendId(r, id)) \/ (\E m \in Request : SendRequest(r, m))
  BY <1>2, <1>4 DEF SendId, SendRequest, ClientSends
<1>5. CASE Ends(r)
  BY <1>2, <1>5 DEF Ends, ClientCloses
<1>6. CASE DisplayEndOfStream(r)
  <2>1. srv \notin {"running", "exited"}
    BY <1>6 DEF DisplayEndOfStream, ToldOK, EndIsTold
  <2> QED BY <1>1, <2>1 DEF ToldOK, EndIsTold
<1> QED BY <1>1, <1>3, <1>4, <1>5, <1>6, ReadTold
        DEF Greets, Reads, ReadExit, ServerReset, SubscriberInput, Quit

(* close_all and already_connected tell a subscriber before they close, and *)
(* only a server that ends in an error leaves one to the end of the stream  *)
(* (server_funs.cpp:73-84, 110-123, subscriber.cpp:49).                     *)
THEOREM EndIsAlwaysTold == Spec => []EndIsTold
<1>1. Init => ToldOK
  BY DEF Init, TransportInit, ServerInit, SubscriberInit, ToldOK, EndIsTold
<1>2. IndInv /\ ToldOK /\ [Next]_vars => ToldOK'
  <2> SUFFICES ASSUME IndInv, ToldOK, [Next]_vars PROVE ToldOK'
    OBVIOUS
  <2>1. CASE ServerInput
    <3>1. ASSUME NEW t \in Topics, Publish(t) PROVE ToldOK'
      BY <2>1, <3>1 DEF ServerInput, Publish, subscriberVars, transportVars, memory, ToldOK, EndIsTold
    <3> QED BY <2>1, <3>1, CloseAllTold DEF ServerInput
  <2>2. CASE UNCHANGED vars
    BY <2>2 DEF vars, transportVars, serverVars, subscriberVars, memory, ToldOK, EndIsTold
  <2> QED BY <2>1, <2>2, ServerStepTold, SubscriberTold DEF Next
<1>3. ToldOK => EndIsTold
  BY DEF ToldOK
<1> QED BY <1>1, <1>2, <1>3, Inductive, PTL DEF Spec
=============================================================================
