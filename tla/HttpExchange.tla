---------------------------- MODULE HttpExchange ----------------------------
(****************************************************************************)
(* One request of the library client of Tema-3 and its answer, over a TCP   *)
(* connection of its own: requester and send_request (requests.cpp),        *)
(* open_connection, send_to_server and recv_from_server (server_ops.cpp)    *)
(* and buffer_find (buffer.cpp), with the descriptors they use.             *)
(*                                                                          *)
(* A response is a row of units: the status line up to StatusEnd, fields    *)
(* with the label "Content-Length: " up to LabelEnd, the number up to       *)
(* NumberEnd, the terminator of the header, and the body.  TCP may cut it   *)
(* after any unit.                                                          *)
(****************************************************************************)
EXTENDS Naturals

CONSTANTS
  StatusEnd, LabelEnd, NumberEnd, \* where the parts of a header end
  TermSize,    \* HEADER_TERMINATOR_SIZE
  Word,        \* a size_t is below this
  MaxNumber,   \* bound: what strtol may find outside the buffer
  MaxLeaked    \* the limit of open files, as sockets that are never closed

ASSUME ExchangeAssumption ==
  /\ StatusEnd \in Nat \ {0} /\ LabelEnd \in Nat /\ NumberEnd \in Nat /\ TermSize \in Nat \ {0}
  /\ StatusEnd < LabelEnd /\ LabelEnd < NumberEnd
  /\ MaxNumber \in Nat /\ MaxLeaked \in Nat
  /\ Word \in Nat /\ NumberEnd + TermSize + MaxNumber < Word

VARIABLES
  phase,    \* "idle"; "connecting"; in recv_from_server, "header" (first loop)
            \* or "body" (second loop); "handling"; "exited"; "crashed"
  sockfd,   \* what requester has returned
  stdout,   \* what descriptor 1 is: "terminal", "closed" or "socket"
  leaked,   \* sockets above it that are open and that nothing refers to
  wire,     \* the connection: "none", "up", "closed" by the other end or "reset"
  reply,    \* what the server has answered, or NoReply
  first,    \* bytes of the first read
  taken,    \* buffer.size
  total,    \* where recv_from_server stops
  failed    \* a connection was not made or did not hold (used by properties)

answerVars == <<reply, first, taken, total>>
exchangeVars == <<phase, sockfd, stdout, leaked, wire, answerVars, failed>>

EXIT_FAILURE == 1  \* which is also the number of stdout
NoFd == 0          \* no request has been made
HigherFd == 3      \* any descriptor above those of stdin, stdout and stderr

NoReply == [ok |-> FALSE, body |-> "none", length |-> 0, cookie |-> 0, token |-> "none"]

InitExchange ==
  /\ phase = "idle" /\ sockfd = NoFd /\ stdout = "terminal" /\ leaked = 0
  /\ wire = "none" /\ reply = NoReply /\ first = 0 /\ taken = 0 /\ total = 0
  /\ failed = FALSE

-----------------------------------------------------------------------------
(* requester *)

(* The lowest descriptor that is free.                                      *)
NewFd == IF stdout = "closed" THEN 1 ELSE HigherFd

Free == stdout = "closed" \/ leaked < MaxLeaked

(* A socket that is not closed.                                             *)
Kept(fd) ==
  /\ stdout' = IF fd = 1 THEN "socket" ELSE stdout
  /\ leaked' = IF fd = 1 THEN leaked ELSE leaked + 1

(* Connected, and the request written.  A write that fails is not noticed   *)
(* (the size_t -1 is not below 0): the connection is broken before the      *)
(* server has read the request (Break).                                     *)
Connected ==
  /\ phase = "connecting" /\ Free
  /\ sockfd' = NewFd /\ wire' = "up"
  /\ stdout' = IF NewFd = 1 THEN "socket" ELSE stdout
  /\ phase' = "header"
  /\ UNCHANGED <<leaked, answerVars, failed>>

(* send_request returns EXIT_FAILURE, which its callers test for < 0 and    *)
(* then take for a descriptor.  The socket stays open, if there is one.     *)
NotConnected ==
  /\ phase = "connecting"
  /\ sockfd' = EXIT_FAILURE
  /\ \/ Free /\ Kept(NewFd)
     \/ ~Free /\ UNCHANGED <<stdout, leaked>>
  /\ phase' = "header"
  /\ failed' = TRUE
  /\ UNCHANGED <<wire, answerVars>>

-----------------------------------------------------------------------------
(* recv_from_server *)

HeaderSize == NumberEnd + TermSize
Size == HeaderSize + reply.length

NotFound == Word - 1 \* buffer_find's (size_t) -1

(* mutant: the whole header is counted twice *)
HeaderTwice(n) == IF n >= HeaderSize THEN 2 * HeaderSize ELSE TermSize - 1

(* What the first loop computes as header_end when n bytes have been read.  *)
HeaderEnd(n) == ((IF n >= HeaderSize THEN NumberEnd ELSE NotFound) + TermSize) % Word

(* strtol starts or goes on behind the n bytes of the buffer: in the number, *)
(* or, with no label, at the 15th byte when there are fewer.                *)
Outside(n) == n < StatusEnd \/ n \in LabelEnd .. NumberEnd

(* content_length; a label that is not there leaves strtol in the status    *)
(* line, where it finds no number.                                          *)
ContentLength(n) ==
  IF Outside(n) THEN 0 .. MaxNumber
  ELSE IF n < LabelEnd THEN {0} ELSE {reply.length}

OwnConnection == wire # "none"

(* The first loop ends with its first read: every outcome of the searches   *)
(* is >= 0.                                                                 *)
ReadHeader ==
  /\ phase = "header" /\ OwnConnection /\ wire # "reset" /\ reply # NoReply
  /\ \E n \in 1 .. Size :
       /\ first' = n /\ taken' = n
       /\ \E c \in ContentLength(n) : total' = HeaderEnd(n) + c
       /\ phase' = IF n < total' THEN "body" ELSE "handling"
  /\ UNCHANGED <<sockfd, stdout, leaked, wire, reply, failed>>

ReadBody ==
  /\ phase = "body" /\ wire # "reset"
  /\ \E n \in 1 .. Size - taken :
       /\ taken' = taken + n
       /\ phase' = IF taken + n < total THEN "body" ELSE "handling"
  /\ UNCHANGED <<sockfd, stdout, leaked, wire, reply, first, total, failed>>

(* read returns 0: what has come is returned, with its end.                 *)
ReadEnd ==
  /\ phase \in {"header", "body"} /\ wire = "closed"
  /\ phase' = "handling"
  /\ UNCHANGED <<sockfd, stdout, leaked, wire, answerVars, failed>>

(* read returns -1, which as a size_t is no error but a length to copy.     *)
ReadFails ==
  /\ phase \in {"header", "body"} /\ wire = "reset"
  /\ phase' = "crashed"
  /\ UNCHANGED <<sockfd, stdout, leaked, wire, answerVars, failed>>

(* Without a connection the read is one of descriptor 1: of the terminal (a *)
(* line the user types, or its end), of a connection logout has left, which *)
(* is at its end, or of one that cannot be read, such as a pipe, a closed   *)
(* descriptor or a socket that is not connected.                            *)
ReadStdout ==
  /\ phase = "header" /\ ~OwnConnection
  /\ \/ stdout = "terminal" /\ taken' \in {0, 1} /\ phase' = "handling"
     \/ stdout = "socket" /\ taken' = 0 /\ phase' = "handling"
     \/ UNCHANGED taken /\ phase' = "crashed"
  /\ UNCHANGED <<sockfd, stdout, leaked, wire, reply, first, total, failed>>

Connect == Connected \/ NotConnected
Receive == ReadHeader \/ ReadBody \/ ReadEnd \/ ReadFails

(* The connection breaks at any time, or the other end closes it.           *)
Break ==
  /\ wire = "up" /\ phase \in {"header", "body"}
  /\ wire' \in {"closed", "reset"}
  /\ failed' = TRUE
  /\ UNCHANGED <<phase, sockfd, stdout, leaked, answerVars>>

(* close(sockfd), and the caller's frame is gone.                           *)
Closed ==
  /\ stdout' = IF sockfd = 1 THEN "closed" ELSE stdout
  /\ UNCHANGED leaked

(* The same without the close.                                              *)
NotClosed ==
  /\ UNCHANGED stdout
  /\ leaked' = IF sockfd = 1 THEN leaked ELSE leaked + 1

(* What the callers see of the answer.                                      *)
Empty == taken = 0
HasHeader == taken >= HeaderSize
Whole == HasHeader /\ taken >= Size

(* The answer came in one piece, on a connection that held.                 *)
Undisturbed == wire = "up" /\ first >= HeaderSize
=============================================================================
