---------------------------- MODULE FrameChannel ----------------------------
(****************************************************************************)
(* What one direction of a connection promises to the callers of proto_send *)
(* and proto_recv in Tema-2-PCom, and what Transport takes it to be: frames *)
(* that arrive whole and in order, and an end that is seen after the last   *)
(* of them.  There are no bytes here; Framing is shown to implement it.     *)
(****************************************************************************)
EXTENDS Naturals, Sequences

CONSTANT Sizes \* payload sizes of the callers

VARIABLES
  sent,   \* sizes of the frames handed to proto_send
  taken,  \* sizes of the frames that proto_recv has returned
  writer, \* "open"; "closed", or "cut" when it ended within the last frame
  reader  \* "open"; "ended", or "stuck" in a frame that was cut

channelVars == <<sent, taken, writer, reader>>

Init ==
  /\ sent = << >> /\ taken = << >>
  /\ writer = "open" /\ reader = "open"

Put(n) ==
  /\ writer = "open"
  /\ sent' = Append(sent, n)
  /\ UNCHANGED <<taken, writer, reader>>

(* The frames that can arrive.                                              *)
Whole == IF writer = "cut" THEN Len(sent) - 1 ELSE Len(sent)

Take ==
  /\ reader = "open" /\ Len(taken) < Whole
  /\ taken' = Append(taken, sent[Len(taken) + 1])
  /\ UNCHANGED <<sent, writer, reader>>

(* The writing process ends; only a frame that is not taken can be cut.     *)
Finish ==
  /\ writer = "open"
  /\ \/ writer' = "closed"
     \/ writer' = "cut" /\ Len(taken) < Len(sent)
  /\ UNCHANGED <<sent, taken, reader>>

(* The end is not seen before every frame that can arrive was taken.        *)
End ==
  /\ reader = "open" /\ writer # "open" /\ Len(taken) = Whole
  /\ \/ reader' = "ended"
     \/ reader' = "stuck" /\ writer = "cut"
  /\ UNCHANGED <<sent, taken, writer>>

(* A recv got a part of a frame's size: nothing is promised from there on.  *)
Split ==
  /\ reader = "open" /\ Len(taken) < Len(sent)
  /\ sent' = << >> /\ taken' = << >>
  /\ writer' = "lost" /\ reader' = "lost"

Next == Take \/ Finish \/ End \/ Split \/ \E n \in Sizes : Put(n)

Spec == Init /\ [][Next]_channelVars
=============================================================================
