----------------------------- MODULE Subscriber -----------------------------
(****************************************************************************)
(* The subscriber of Tema-2-PCom: main() of subscriber.cpp and the          *)
(* handlers of subscriber_funs.cpp.  It sends its ID, then waits for        *)
(* stdin or the server; every handler is one action.  The process may be    *)
(* killed at any point.                                                     *)
(****************************************************************************)
EXTENDS Transport

CONSTANT
  MaxPending  \* bound: requests of a run not yet answered

ASSUME MaxPendingAssumption == MaxPending \in Nat

VARIABLES
  proc,    \* where each run is in main()
  pending, \* requests sent minus answers read
  last     \* number of the last message displayed

subscriberVars == <<proc, pending, last>>

(* off: not running.  greeting: connected, ID not sent.  up: in the loop.   *)
(* spinning: the server's end is closed and every select() returns at once. *)
ProcStates == {"off", "greeting", "up", "spinning"}

SubscriberTypeOK ==
  /\ proc \in [Runs -> ProcStates]
  /\ pending \in [Runs -> Int]
  /\ last \in [Runs -> 0 .. MaxPub]

SubscriberInit ==
  /\ proc = [r \in Runs |-> "off"]
  /\ pending = [r \in Runs |-> 0]
  /\ last = [r \in Runs |-> 0]

Connect(r) ==
  /\ proc[r] = "off"
  /\ ClientConnects(r)
  /\ proc' = [proc EXCEPT ![r] = "greeting"]
  /\ UNCHANGED <<pending, last>>

(* id is argv[1]; nothing keeps two runs from having the same one.          *)
SendId(r, id) ==
  /\ proc[r] = "greeting"
  /\ ClientSends(r, [type |-> "ID", id |-> id])
  /\ proc' = [proc EXCEPT ![r] = "up"]
  /\ UNCHANGED <<pending, last>>

(* subscribe or unsubscribe on stdin. *)
SendRequest(r, m) ==
  /\ proc[r] = "up"
  /\ pending[r] < MaxPending
  /\ ClientSends(r, m)
  /\ pending' = [pending EXCEPT ![r] = @ + 1]
  /\ UNCHANGED <<proc, last>>

Ends(r) ==
  /\ ClientCloses(r)
  /\ proc' = [proc EXCEPT ![r] = "off"]
  /\ pending' = [pending EXCEPT ![r] = 0]
  /\ last' = [last EXCEPT ![r] = 0]

(* exit on stdin, a signal, or SIGPIPE when it writes to a closed server.   *)
Quit(r) == proc[r] # "off" /\ Ends(r)

(* identify_msg of a message, opcode_received of an opcode. *)
Display(r) ==
  /\ proc[r] = "up"
  /\ down[r] # << >> /\ Head(down[r]).op = "MSG"
  /\ ClientReceives(r)
  /\ last' = [last EXCEPT ![r] = Head(down[r]).seq]
  /\ UNCHANGED <<proc, pending>>

ReadAnswer(r) ==
  /\ proc[r] = "up"
  /\ down[r] # << >> /\ Head(down[r]).op \in Opcodes \ {"EXIT"}
  /\ ClientReceives(r)
  /\ pending' = [pending EXCEPT ![r] = @ - 1]
  /\ UNCHANGED <<proc, last>>

ReadExit(r) ==
  /\ proc[r] = "up"
  /\ down[r] # << >> /\ Head(down[r]).op = "EXIT"
  /\ Ends(r)

(* proto_recv returns 0 at the end of the stream: no opcode has that text,  *)
(* so the zeroed buffer is displayed as a message, again and again.         *)
DisplayEndOfStream(r) ==
  /\ proc[r] = "up"
  /\ down[r] = << >> /\ link[r] = "sfin"
  /\ proc' = [proc EXCEPT ![r] = "spinning"]
  /\ UNCHANGED <<pending, last, transportVars>>

(* DIE on a connection the server reset, in recv or in the send of the ID.  *)
ServerReset(r) ==
  /\ proc[r] \in {"greeting", "up"}
  /\ down[r] = << >> /\ link[r] = "srst"
  /\ Ends(r)
=============================================================================
