------------------------------ MODULE Framing ------------------------------
(****************************************************************************)
(* proto_send and proto_recv of Tema-2-PCom over one direction of a TCP     *)
(* connection: one process sends frames, another receives them.  A frame is *)
(* its size, in the HeaderLen bytes of a size_t, and its payload; the       *)
(* stream delivers bytes in order, cut anywhere.                            *)
(*                                                                          *)
(* Bytes are named by their number in the stream, so a received payload is  *)
(* the interval it was read from, and Transport's frames (which arrive      *)
(* whole) are what this module shows them to be while no size is split.     *)
(****************************************************************************)
EXTENDS Naturals, Sequences

CONSTANTS
  HeaderLen, \* sizeof(size_t)
  Values,    \* Values[n]: how many numbers n bytes can hold
  Sizes,     \* payload sizes of the callers
  Window,    \* bound: bytes on their way, in the kernels' buffers
  MaxFrames  \* bound: frames sent

ASSUME FramingAssumption ==
  /\ HeaderLen \in Nat \ {0} /\ Window \in Nat \ {0} /\ MaxFrames \in Nat
  /\ Values \in [1 .. HeaderLen -> Nat \ {0}]
  /\ Sizes \subseteq 1 .. Values[HeaderLen] - 1

VARIABLES
  sender,    \* "idle"; in proto_send, "size" or "payload"; "closed"
  frames,    \* the frames handed to proto_send: the first byte, and the size
  written,   \* bytes sent
  receiver,  \* in proto_recv, "size" or "payload" (waiting in recv), or
             \* "spinning" (recv returns 0); "ended" when it has returned 0
  read,      \* bytes received
  size, got, \* the locals size and bytes_recv
  delivered, \* what proto_recv has returned: the first byte, and the size
  split      \* a recv for a size got a part of it (used by properties)

senderVars == <<sender, frames, written>>
receiverVars == <<receiver, read, size, got, delivered, split>>
framingVars == <<senderVars, receiverVars>>

Init ==
  /\ sender = "idle" /\ frames = << >> /\ written = 0
  /\ receiver = "size" /\ read = 0 /\ size = 0 /\ got = 0
  /\ delivered = << >> /\ split = FALSE

LessOf(a, b) == IF a < b THEN a ELSE b

-----------------------------------------------------------------------------
(* proto_send: its bytes up to Limit are those of the calls made so far.    *)

LastFrame == frames[Len(frames)]
HeaderEnd == LastFrame.first + HeaderLen - 1
FrameEnd == HeaderEnd + LastFrame.size

(* The stream's next byte is the first of the frame.                        *)
ProtoSend(n) ==
  /\ sender = "idle" /\ Len(frames) < MaxFrames
  /\ sender' = "size"
  /\ frames' = Append(frames, [first |-> written + 1, size |-> n])
  /\ UNCHANGED <<written, receiverVars>>

Limit == IF sender = "size" THEN HeaderEnd ELSE FrameEnd

(* TCP takes some of the bytes of a send, as far as there is room.          *)
Push ==
  /\ sender \in {"size", "payload"}
  /\ \E n \in 1 .. Window :
       /\ written + n <= Limit
       /\ written + n - read <= Window
       /\ written' = written + n
  /\ UNCHANGED <<sender, frames, receiverVars>>

(* mutant: the loop of proto_send ends after its first send *)
SendReturnsEarly ==
  /\ \/ sender = "size" /\ written = HeaderEnd /\ sender' = "payload"
     \/ sender = "payload" /\ written > HeaderEnd /\ sender' = "idle"
  /\ UNCHANGED <<frames, written, receiverVars>>

(* The size is sent by one call, which blocks until it has taken all of it; *)
(* the payload by a loop.                                                   *)
SendReturns ==
  /\ \/ sender = "size" /\ written = HeaderEnd /\ sender' = "payload"
     \/ sender = "payload" /\ written = FrameEnd /\ sender' = "idle"
  /\ UNCHANGED <<frames, written, receiverVars>>

(* The process ends, between two frames or in the middle of one.            *)
Close ==
  /\ sender # "closed"
  /\ sender' = "closed"
  /\ UNCHANGED <<frames, written, receiverVars>>

-----------------------------------------------------------------------------
(* proto_recv *)

Available == written - read
AtEnd == Available = 0 /\ sender = "closed"

(* What n bytes say of a size: the low bytes come first, and the others of  *)
(* `size' are zero.                                                         *)
LowBytes(v, n) == IF n = HeaderLen THEN v ELSE v % Values[n]

(* Bytes that are not the start of a frame say anything.                    *)
SizeRead(n) ==
  LET here == {k \in DOMAIN frames : frames[k].first = read + 1}
  IN  IF here # {} THEN {LowBytes(frames[k].size, n) : k \in here} ELSE 0 .. Values[n] - 1

(* mutant: the bytes counted for a frame are not reset for the next *)
CountKept == UNCHANGED got

CountReset == got' = 0

(* One recv for the size, which takes what is there.                        *)
RecvSize ==
  LET n == LessOf(HeaderLen, Available)
  IN  /\ receiver = "size" /\ Available > 0
      /\ size' \in SizeRead(n)
      /\ read' = read + n
      /\ CountReset
      /\ split' = (split \/ n < HeaderLen)
      /\ receiver' = IF size' = 0 THEN "ended" ELSE "payload"
      /\ UNCHANGED <<delivered, senderVars>>

RecvSizeAtEnd ==
  /\ receiver = "size" /\ AtEnd
  /\ receiver' = "ended"
  /\ UNCHANGED <<read, size, got, delivered, split, senderVars>>

(* mutant: recv asks for size bytes each time *)
AskedAgain == size

Asked == size - got

RecvPayload ==
  LET n == LessOf(Asked, Available)
  IN  /\ receiver = "payload" /\ got < size /\ Available > 0
      /\ read' = read + n
      /\ got' = got + n
      /\ UNCHANGED <<receiver, size, delivered, split, senderVars>>

(* recv returns 0 each time, and bytes_recv never gets to size.             *)
RecvPayloadAtEnd ==
  /\ receiver = "payload" /\ got < size /\ AtEnd
  /\ receiver' = "spinning"
  /\ UNCHANGED <<read, size, got, delivered, split, senderVars>>

(* The caller takes the frame and calls again for the next.                 *)
RecvReturns ==
  /\ receiver = "payload" /\ got >= size
  /\ receiver' = "size"
  /\ delivered' = Append(delivered, [first |-> read - got + 1, size |-> size])
  /\ UNCHANGED <<read, size, got, split, senderVars>>

SenderStep == Push \/ SendReturns
Receive == RecvSize \/ RecvSizeAtEnd \/ RecvPayload \/ RecvPayloadAtEnd \/ RecvReturns

Next == SenderStep \/ Receive \/ Close \/ \E n \in Sizes : ProtoSend(n)

Spec == Init /\ [][Next]_framingVars

(* TCP moves bytes while there is room, and a process in a call goes on; no *)
(* caller has to send, and no process to end.                               *)
FairSpec == Spec /\ WF_framingVars(SenderStep) /\ WF_framingVars(Receive)

-----------------------------------------------------------------------------
Span == [first : Nat \ {0}, size : Nat]

TypeOK ==
  /\ sender \in {"idle", "size", "payload", "closed"}
  /\ receiver \in {"size", "payload", "spinning", "ended"}
  /\ frames \in Seq(Span) /\ delivered \in Seq(Span)
  /\ written \in Nat /\ read \in Nat /\ size \in Nat /\ got \in Nat
  /\ split \in BOOLEAN

(* As long as each recv for a size got all of it, what proto_recv returns   *)
(* are the payloads that were sent: all of each, in order, none skipped and *)
(* nothing of another frame (proto.h:81-95).                                *)
FramesIntact ==
  ~split =>
    /\ Len(delivered) <= Len(frames)
    /\ \A k \in DOMAIN delivered :
         delivered[k] = [first |-> frames[k].first + HeaderLen, size |-> frames[k].size]

(* proto_recv returns 0, which its callers take for the end of the stream,  *)
(* or loops for ever, only at the real end (there, in the middle of a       *)
(* frame), or once a size was split.                                        *)
EndIsReal ==
  \/ split
  \/ receiver \notin {"ended", "spinning"}
  \/ /\ sender = "closed" /\ read = written
     /\ receiver = "spinning" => got < size

(* What Transport takes the connection to be.  Once a size was split the    *)
(* mapping says nothing any more.                                           *)
Sent == IF split THEN << >> ELSE [k \in DOMAIN frames |-> frames[k].size]
Taken == IF split THEN << >> ELSE [k \in DOMAIN delivered |-> delivered[k].size]
Writer ==
  IF split THEN "lost"
  ELSE IF sender # "closed" THEN "open"
  ELSE IF frames # << >> /\ written < FrameEnd THEN "cut" ELSE "closed"
Reader ==
  IF split THEN "lost"
  ELSE IF receiver = "ended" THEN "ended"
  ELSE IF receiver = "spinning" THEN "stuck" ELSE "open"

(* The byte stream under proto_send and proto_recv keeps what the callers   *)
(* count on (proto.h): frames arrive whole, in order and once, also when    *)
(* the sender has ended in the meantime, and the end comes after them.      *)
Channel == INSTANCE FrameChannel WITH
  sent <- Sent, taken <- Taken, writer <- Writer, reader <- Reader

KeepsFrames == Channel!Spec

(* Liveness, under FairSpec: a frame arrives, unless the sender ends before *)
(* or a size was split, which may leave the receiver waiting for more.      *)
FrameArrives ==
  \A k \in 1 .. MaxFrames :
    Len(frames) >= k ~> Len(delivered) >= k \/ split \/ sender = "closed"

(* Where each end is in the stream: the frames follow each other from byte  *)
(* 1 on, the sender is in the last one, and the receiver in the one after   *)
(* those it has delivered.                                                  *)
SenderPlace ==
  /\ \A k \in DOMAIN frames : frames[k].size \in Sizes
  /\ frames # << >> => frames[1].first = 1
  /\ \A k \in DOMAIN frames : k + 1 \in DOMAIN frames =>
       frames[k + 1].first = frames[k].first + HeaderLen + frames[k].size
  /\ \A j, k \in DOMAIN frames : j < k => frames[j].first < frames[k].first
  /\ frames = << >> => written = 0 /\ sender \in {"idle", "closed"}
  /\ frames # << >> =>
       /\ LastFrame.first <= written + 1 /\ written <= FrameEnd
       /\ sender = "size" => written <= HeaderEnd
       /\ sender = "payload" => HeaderEnd <= written
       /\ sender = "idle" => written = FrameEnd

NextFrame == frames[Len(delivered) + 1]

ReceiverPlace ==
  /\ got <= read /\ read <= written
  /\ ~split /\ receiver \in {"payload", "spinning"} =>
       /\ Len(delivered) < Len(frames)
       /\ size = NextFrame.size /\ got <= size
       /\ read = NextFrame.first + HeaderLen - 1 + got
  /\ ~split /\ receiver \in {"size", "ended"} =>
       /\ delivered = << >> => read = 0
       /\ delivered # << >> =>
            /\ Len(delivered) <= Len(frames)
            /\ read = frames[Len(delivered)].first + HeaderLen - 1
                        + frames[Len(delivered)].size

(* The inductive invariant (proved in FramingProofs).                       *)
FramingInv == TypeOK /\ SenderPlace /\ ReceiverPlace /\ FramesIntact /\ EndIsReal
=============================================================================
