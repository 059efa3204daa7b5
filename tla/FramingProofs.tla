---------------------------- MODULE FramingProofs ----------------------------
(****************************************************************************)
(* Proofs about Framing, for every size of a header, of the payloads and of *)
(* the window: frames arrive whole and in order, and the end of the stream  *)
(* is reported at the end only, unless a recv for a size got a part of it.  *)
(****************************************************************************)
EXTENDS Framing, TLAPS

LEMMA SpanOf ==
  ASSUME NEW s \in Seq(Span), NEW k \in DOMAIN s
  PROVE  s[k] \in Span /\ s[k].first \in Nat \ {0} /\ s[k].size \in Nat
<1>1. s[k] \in Span
  OBVIOUS
<1> QED BY <1>1 DEF Span

(* Of every frame: it is not empty, and fits a size.                        *)
LEMMA FrameTyped ==
  ASSUME FramingInv, NEW k \in DOMAIN frames
  PROVE  /\ frames[k].first \in Nat \ {0} /\ frames[k].size \in Nat \ {0}
         /\ k \in 1 .. Len(frames)
BY SpanOf, FramingAssumption DEF FramingInv, TypeOK, SenderPlace

THEOREM InitFraming == Init => FramingInv
<1> SUFFICES ASSUME Init PROVE FramingInv
  OBVIOUS
<1>1. DOMAIN frames = {} /\ DOMAIN delivered = {} /\ frames \in Seq(Span) /\ delivered \in Seq(Span)
  BY DEF Init
<1>2. TypeOK
  BY <1>1 DEF Init, TypeOK
<1>3. SenderPlace
  BY <1>1 DEF Init, SenderPlace
<1>4. ReceiverPlace /\ FramesIntact /\ EndIsReal
  BY <1>1 DEF Init, ReceiverPlace, FramesIntact, EndIsReal
<1> QED BY <1>2, <1>3, <1>4 DEF FramingInv

(* The end of the last frame is the end of what may be written.             *)
LEMMA InsideLastFrame ==
  ASSUME FramingInv, frames # << >>
  PROVE  /\ Len(frames) \in DOMAIN frames
         /\ LastFrame.first \in Nat \ {0} /\ LastFrame.size \in Nat \ {0}
         /\ HeaderEnd \in Nat /\ FrameEnd \in Nat
         /\ written <= FrameEnd
<1>1. Len(frames) \in DOMAIN frames
  BY DEF FramingInv, TypeOK
<1>2. LastFrame.first \in Nat \ {0} /\ LastFrame.size \in Nat \ {0}
  BY <1>1, FrameTyped DEF LastFrame
<1> QED BY <1>1, <1>2, FramingAssumption, SMTT(30) DEF FramingInv, SenderPlace, HeaderEnd, FrameEnd

LEMMA ProtoSendKeeps ==
  ASSUME FramingInv, NEW n \in Sizes, ProtoSend(n)
  PROVE  FramingInv'
<1>1. n \in Nat \ {0} /\ written + 1 \in Nat \ {0} /\ [first |-> written + 1, size |-> n] \in Span
  BY FramingAssumption DEF FramingInv, TypeOK, Span
<1>2. /\ Len(frames') = Len(frames) + 1 /\ frames' \in Seq(Span)
      /\ frames'[Len(frames) + 1] = [first |-> written + 1, size |-> n]
      /\ \A k \in DOMAIN frames : frames'[k] = frames[k]
      /\ DOMAIN frames = 1 .. Len(frames) /\ DOMAIN frames' = 1 .. Len(frames) + 1
  BY <1>1 DEF FramingInv, TypeOK, ProtoSend
<1>3. TypeOK'
  BY <1>2 DEF FramingInv, TypeOK, ProtoSend, receiverVars
<1>4. CASE frames = << >>
  <2>1. written = 0 /\ Len(frames) = 0
    BY <1>4 DEF FramingInv, SenderPlace
  <2>2. SenderPlace'
    BY <1>1, <1>2, <2>1, FramingAssumption
       DEF FramingInv, TypeOK, SenderPlace, ProtoSend, LastFrame, HeaderEnd, FrameEnd
  <2>3. ReceiverPlace' /\ FramesIntact' /\ EndIsReal'
    BY <1>2, <1>4, <2>1 DEF FramingInv, TypeOK, ReceiverPlace, FramesIntact, EndIsReal,
       ProtoSend, receiverVars, NextFrame
  <2> QED BY <1>3, <2>2, <2>3 DEF FramingInv
<1>5. CASE frames # << >>
  <2>1. Len(frames) \in DOMAIN frames /\ written = LastFrame.first + HeaderLen - 1 + LastFrame.size
    BY <1>5 DEF FramingInv, TypeOK, SenderPlace, ProtoSend, FrameEnd, HeaderEnd, LastFrame
  <2>2. \A k \in DOMAIN frames : frames[k].first \in Nat /\ frames[k].size \in Nat
    BY FrameTyped
  <2>3. \A j \in DOMAIN frames : frames[j].first <= LastFrame.first
    BY <1>2, <2>1, <2>2 DEF FramingInv, SenderPlace, LastFrame
  <2>4. LastFrame.first < written + 1 /\ LastFrame.first \in Nat
    BY <2>1, <2>2, FramingAssumption DEF LastFrame
  <2>5. \A j, k \in DOMAIN frames' : j < k => frames'[j].first < frames'[k].first
    <3> SUFFICES ASSUME NEW j \in DOMAIN frames', NEW k \in DOMAIN frames', j < k
                 PROVE  frames'[j].first < frames'[k].first
      OBVIOUS
    <3>1. j \in DOMAIN frames
      BY <1>2 DEF FramingInv, TypeOK
    <3>2. CASE k \in DOMAIN frames
      BY <1>2, <3>1, <3>2 DEF FramingInv, SenderPlace
    <3>3. CASE k = Len(frames) + 1
      BY <1>2, <2>2, <2>3, <2>4, <3>1, <3>3 DEF FramingInv, TypeOK
    <3> QED BY <1>2, <3>2, <3>3
  <2>6. \A k \in DOMAIN frames' : k + 1 \in DOMAIN frames' =>
          frames'[k + 1].first = frames'[k].first + HeaderLen + frames'[k].size
    <3> SUFFICES ASSUME NEW k \in DOMAIN frames', k + 1 \in DOMAIN frames'
                 PROVE  frames'[k + 1].first = frames'[k].first + HeaderLen + frames'[k].size
      OBVIOUS
    <3>1. k \in DOMAIN frames
      BY <1>2
    <3>2. CASE k + 1 \in DOMAIN frames
      BY <1>2, <3>1, <3>2 DEF FramingInv, SenderPlace
    <3>3. CASE k = Len(frames)
      <4>1. /\ frames'[k + 1].first = written + 1
            /\ frames'[k] = LastFrame
        BY <1>2, <3>1, <3>3 DEF LastFrame
      <4>2. LastFrame.first \in Nat /\ LastFrame.size \in Nat
        BY <2>1, <2>2 DEF LastFrame
      <4> QED BY <2>1, <4>1, <4>2, FramingAssumption, SMTT(30)
    <3> QED BY <1>2, <3>1, <3>2, <3>3
  <2>7. SenderPlace'
    <3>1. \A k \in DOMAIN frames' : frames'[k].size \in Sizes
      BY <1>2 DEF FramingInv, SenderPlace
    <3>2. frames' # << >> /\ frames'[1].first = 1
      BY <1>2, <1>5, <2>1 DEF FramingInv, SenderPlace
    <3>3. LastFrame' = [first |-> written + 1, size |-> n] /\ written' = written /\ sender' = "size"
      BY <1>2 DEF LastFrame, ProtoSend
    <3> QED BY <1>1, <2>5, <2>6, <3>1, <3>2, <3>3, FramingAssumption
            DEF SenderPlace, HeaderEnd, FrameEnd, FramingInv, TypeOK
  <2>8. ReceiverPlace'
    BY <1>2 DEF FramingInv, TypeOK, ReceiverPlace, ProtoSend, receiverVars, NextFrame
  <2>9. FramesIntact' /\ EndIsReal'
    BY <1>2 DEF FramingInv, TypeOK, FramesIntact, EndIsReal, ProtoSend, receiverVars
  <2> QED BY <1>3, <2>7, <2>8, <2>9 DEF FramingInv
<1> QED BY <1>4, <1>5

LEMMA SenderKeeps ==
  ASSUME FramingInv, SenderStep \/ Close
  PROVE  FramingInv'
<1>1. CASE Push
  <2>1. frames # << >>
    BY <1>1 DEF FramingInv, SenderPlace, Push
  <2>2. PICK n \in 1 .. Window : written + n <= Limit /\ written' = written + n
    BY <1>1 DEF Push
  <2>3. n \in Nat \ {0} /\ UNCHANGED <<sender, frames, receiverVars>>
    BY <1>1, FramingAssumption DEF Push
  <2>4. TypeOK'
    BY <2>2, <2>3 DEF FramingInv, TypeOK, receiverVars
  <2>5. SenderPlace'
    <3>1. LastFrame' = LastFrame /\ HeaderEnd' = HeaderEnd /\ FrameEnd' = FrameEnd
      BY <2>3 DEF LastFrame, HeaderEnd, FrameEnd
    <3>2. sender \in {"size", "payload"} /\ written + n <= FrameEnd
      BY <1>1, <2>1, <2>2, <2>3, InsideLastFrame DEF Push, Limit, FrameEnd, FramingInv, TypeOK
    <3>3. written \in Nat
      BY DEF FramingInv, TypeOK
    <3> QED BY <2>1, <2>2, <2>3, <3>1, <3>2, <3>3, InsideLastFrame
            DEF FramingInv, SenderPlace, Limit
  <2>6. ReceiverPlace' /\ FramesIntact' /\ EndIsReal'
    BY <1>1, <2>2, <2>3 DEF FramingInv, TypeOK, ReceiverPlace, FramesIntact, EndIsReal, NextFrame,
       receiverVars, Push
  <2> QED BY <2>4, <2>5, <2>6 DEF FramingInv
<1>2. CASE SendReturns
  <2>1. frames # << >>
    BY <1>2 DEF FramingInv, SenderPlace, SendReturns
  <2> QED BY <1>2, <2>1, InsideLastFrame, FramingAssumption
          DEF FramingInv, TypeOK, SenderPlace, ReceiverPlace, FramesIntact, EndIsReal, SendReturns,
              receiverVars, LastFrame, HeaderEnd, FrameEnd, NextFrame
<1>3. CASE Close
  BY <1>3 DEF FramingInv, TypeOK, SenderPlace, ReceiverPlace, FramesIntact, EndIsReal, Close,
              receiverVars, LastFrame, HeaderEnd, FrameEnd, NextFrame
<1> QED BY <1>1, <1>2, <1>3 DEF SenderStep

(* Where the receiver is before a size: at the start of the next frame.     *)
LEMMA AtNextFrame ==
  ASSUME FramingInv, ~split, receiver = "size", written > read
  PROVE  /\ Len(delivered) + 1 \in DOMAIN frames
         /\ NextFrame.first = read + 1
         /\ \A k \in DOMAIN frames : frames[k].first = read + 1 => k = Len(delivered) + 1
<1>1. read \in Nat /\ written \in Nat /\ Len(delivered) \in Nat /\ DOMAIN frames = 1 .. Len(frames)
  BY DEF FramingInv, TypeOK
<1>2. frames # << >>
  BY <1>1 DEF FramingInv, SenderPlace
<1>3. \A k \in DOMAIN frames : frames[k].first \in Nat /\ frames[k].size \in Nat
  BY FrameTyped
<1>4. Len(delivered) + 1 \in DOMAIN frames /\ NextFrame.first = read + 1
  <2>1. CASE delivered = << >>
    BY <1>1, <1>2, <2>1 DEF FramingInv, TypeOK, SenderPlace, ReceiverPlace, NextFrame
  <2>2. CASE delivered # << >>
    <3>1. Len(delivered) \in DOMAIN frames
      BY <1>1, <2>2 DEF FramingInv, TypeOK, ReceiverPlace
    <3>2. Len(delivered) # Len(frames)
      BY <1>1, <1>2, <1>3, <2>2, <3>1, InsideLastFrame, FramingAssumption, SMTT(30)
         DEF FramingInv, ReceiverPlace, FrameEnd, HeaderEnd, LastFrame
    <3>3. Len(delivered) + 1 \in DOMAIN frames
      BY <1>1, <3>1, <3>2
    <3>4. read = frames[Len(delivered)].first + HeaderLen - 1 + frames[Len(delivered)].size
      BY <2>2 DEF FramingInv, ReceiverPlace
    <3>5. NextFrame.first = frames[Len(delivered)].first + HeaderLen + frames[Len(delivered)].size
      BY <3>1, <3>3 DEF FramingInv, SenderPlace, NextFrame
    <3> QED BY <1>3, <3>1, <3>3, <3>4, <3>5, FramingAssumption
  <2> QED BY <2>1, <2>2
<1>5. \A k \in DOMAIN frames : frames[k].first = read + 1 => k = Len(delivered) + 1
  <2> SUFFICES ASSUME NEW k \in DOMAIN frames, frames[k].first = read + 1
               PROVE  k = Len(delivered) + 1
    OBVIOUS
  <2>1. /\ k < Len(delivered) + 1 => frames[k].first < NextFrame.first
        /\ Len(delivered) + 1 < k => NextFrame.first < frames[k].first
    BY <1>4 DEF FramingInv, SenderPlace, NextFrame
  <2>2. k \in Nat /\ Len(delivered) + 1 \in Nat
    BY <1>1
  <2> QED BY <1>1, <1>4, <2>1, <2>2
<1> QED BY <1>4, <1>5

(* A size that is read whole is that of the next frame.                     *)
LEMMA WholeSize ==
  ASSUME FramingInv, RecvSize, ~split'
  PROVE  /\ ~split /\ read' = read + HeaderLen /\ receiver' = "payload"
         /\ Len(delivered) + 1 \in DOMAIN frames /\ NextFrame.first = read + 1
         /\ size' = NextFrame.size /\ NextFrame.size \in Nat \ {0} /\ NextFrame' = NextFrame
<1> DEFINE n == LessOf(HeaderLen, Available)
<1>1. /\ receiver = "size" /\ Available > 0 /\ size' \in SizeRead(n) /\ read' = read + n
      /\ split' = (split \/ n < HeaderLen)
      /\ receiver' = IF size' = 0 THEN "ended" ELSE "payload"
      /\ UNCHANGED <<delivered, frames>>
  BY DEF RecvSize, senderVars
<1>2. n \in Nat
  BY FramingAssumption DEF FramingInv, TypeOK, ReceiverPlace, RecvSize, Available, LessOf
<1>3. ~split /\ n = HeaderLen /\ written > read
  <2>1. ~split /\ ~(n < HeaderLen)
    BY <1>1
  <2>2. n <= HeaderLen
    BY FramingAssumption DEF LessOf, Available, FramingInv, TypeOK
  <2> QED BY <1>1, <1>2, <2>1, <2>2, FramingAssumption DEF FramingInv, TypeOK, Available
<1> HIDE DEF n
<1>4. /\ Len(delivered) + 1 \in DOMAIN frames /\ NextFrame.first = read + 1
      /\ \A k \in DOMAIN frames : frames[k].first = read + 1 => k = Len(delivered) + 1
  BY <1>1, <1>3, AtNextFrame
<1>5. size' = NextFrame.size
  BY <1>1, <1>3, <1>4 DEF SizeRead, LowBytes, NextFrame
<1>6. NextFrame.size \in Nat \ {0} /\ NextFrame' = NextFrame
  BY <1>1, <1>4, FrameTyped DEF NextFrame
<1>7. receiver' = "payload"
  BY <1>1, <1>5, <1>6
<1> QED BY <1>1, <1>3, <1>4, <1>5, <1>6, <1>7

LEMMA RecvSizeKeeps ==
  ASSUME FramingInv, RecvSize
  PROVE  FramingInv'
<1> DEFINE n == LessOf(HeaderLen, Available)
<1>1. n \in 1 .. HeaderLen /\ n <= Available /\ Available \in Nat
  BY FramingAssumption DEF FramingInv, TypeOK, ReceiverPlace, RecvSize, Available, LessOf
<1>2. /\ receiver = "size" /\ size' \in SizeRead(n) /\ read' = read + n /\ got' = 0
      /\ split' = (split \/ n < HeaderLen)
      /\ receiver' = IF size' = 0 THEN "ended" ELSE "payload"
      /\ UNCHANGED <<delivered, sender, frames, written>>
  BY DEF RecvSize, CountReset, senderVars
<1> HIDE DEF n
<1>3. \A v \in Nat : LowBytes(v, n) \in Nat
  BY <1>1, FramingAssumption DEF LowBytes
<1>4. size' \in Nat
  <2>1. \A k \in DOMAIN frames : LowBytes(frames[k].size, n) \in Nat
    BY <1>3, FrameTyped
  <2>2. 0 .. Values[n] - 1 \subseteq Nat
    BY <1>1, FramingAssumption
  <2> QED BY <1>2, <2>1, <2>2 DEF SizeRead
<1>5. TypeOK'
  BY <1>1, <1>2, <1>4 DEF FramingInv, TypeOK
<1>6. SenderPlace'
  BY <1>2 DEF FramingInv, SenderPlace, LastFrame, HeaderEnd, FrameEnd
<1>7. read' <= written'
  BY <1>1, <1>2 DEF FramingInv, TypeOK, Available
<1>8. CASE split'
  <2>1. got' <= read'
    BY <1>1, <1>2 DEF FramingInv, TypeOK
  <2> QED BY <1>5, <1>6, <1>7, <1>8, <2>1 DEF FramingInv, ReceiverPlace, FramesIntact, EndIsReal
<1>9. CASE ~split'
  <2>1. /\ ~split /\ read' = read + HeaderLen /\ receiver' = "payload"
        /\ Len(delivered) + 1 \in DOMAIN frames /\ NextFrame.first = read + 1
        /\ size' = NextFrame.size /\ NextFrame.size \in Nat \ {0} /\ NextFrame' = NextFrame
    BY <1>9, WholeSize
  <2>2. ReceiverPlace'
    <3>1. got' <= read' /\ got' <= size' /\ Len(delivered') < Len(frames')
      BY <1>2, <2>1, FramingAssumption DEF FramingInv, TypeOK
    <3>2. size' = NextFrame'.size /\ read' = NextFrame'.first + HeaderLen - 1 + got'
      <4> DEFINE f == NextFrame.first
      <4>1. f = read + 1 /\ NextFrame' = NextFrame /\ read' = read + HeaderLen /\ read \in Nat
        BY <2>1 DEF FramingInv, TypeOK
      <4>2. read' = f + HeaderLen - 1 + got'
        <5> HIDE DEF f
        <5> QED BY <1>2, <4>1, FramingAssumption
      <4> QED BY <2>1, <4>1, <4>2
    <3> QED BY <1>7, <1>9, <2>1, <3>1, <3>2 DEF ReceiverPlace
  <2>3. FramesIntact' /\ EndIsReal'
    BY <1>2, <2>1 DEF FramingInv, FramesIntact, EndIsReal
  <2> QED BY <1>5, <1>6, <2>2, <2>3 DEF FramingInv
<1> QED BY <1>8, <1>9

LEMMA RecvReturnsKeeps ==
  ASSUME FramingInv, RecvReturns
  PROVE  FramingInv'
<1> DEFINE d == [first |-> read - got + 1, size |-> size]
<1>1. /\ receiver = "payload" /\ got >= size /\ receiver' = "size"
      /\ delivered' = Append(delivered, d)
      /\ UNCHANGED <<read, size, got, split, sender, frames, written>>
  BY DEF RecvReturns, senderVars
<1>2. SenderPlace'
  BY <1>1 DEF FramingInv, SenderPlace, LastFrame, HeaderEnd, FrameEnd
<1>3. EndIsReal'
  BY <1>1 DEF EndIsReal
<1>4. CASE split
  <2>1. d \in Span
    BY <1>1, <1>4 DEF FramingInv, TypeOK, ReceiverPlace, Span
  <2> QED BY <1>1, <1>2, <1>3, <1>4, <2>1
          DEF FramingInv, TypeOK, ReceiverPlace, FramesIntact
<1>5. CASE ~split
  <2>1. /\ Len(delivered) < Len(frames) /\ size = NextFrame.size /\ got = size
        /\ read = NextFrame.first + HeaderLen - 1 + got
        /\ Len(delivered) \in Nat /\ Len(delivered) + 1 \in DOMAIN frames
    BY <1>1, <1>5 DEF FramingInv, TypeOK, ReceiverPlace, NextFrame
  <2>2. NextFrame.first \in Nat \ {0} /\ NextFrame.size \in Nat \ {0}
    BY <2>1, FrameTyped DEF NextFrame
  <2>3. read \in Nat /\ got \in Nat /\ size \in Nat /\ HeaderLen \in Nat \ {0}
    BY FramingAssumption DEF FramingInv, TypeOK
  <2>4. d = [first |-> NextFrame.first + HeaderLen, size |-> NextFrame.size] /\ d \in Span
    <3>1. read - got + 1 = NextFrame.first + HeaderLen
      BY <2>1, <2>2, <2>3
    <3> QED BY <2>1, <2>2, <3>1, FramingAssumption, SMTT(30) DEF Span
  <2>5. /\ Len(delivered') = Len(delivered) + 1 /\ delivered' \in Seq(Span)
        /\ delivered'[Len(delivered) + 1] = d
        /\ \A k \in DOMAIN delivered : delivered'[k] = delivered[k]
        /\ DOMAIN delivered' = 1 .. Len(delivered) + 1 /\ DOMAIN delivered = 1 .. Len(delivered)
    BY <1>1, <2>4 DEF FramingInv, TypeOK
  <2>6. TypeOK'
    BY <1>1, <2>5 DEF FramingInv, TypeOK
  <2>7. FramesIntact'
    BY <1>1, <1>5, <2>1, <2>4, <2>5, SMTT(30) DEF FramingInv, TypeOK, FramesIntact, NextFrame
  <2>8. ReceiverPlace'
    <3>1. Len(delivered') = Len(delivered) + 1 /\ Len(delivered') <= Len(frames')
      BY <1>1, <2>1, <2>5 DEF FramingInv, TypeOK
    <3>2. read' = frames'[Len(delivered')].first + HeaderLen - 1 + frames'[Len(delivered')].size
      BY <1>1, <2>1, <2>5 DEF NextFrame
    <3>3. got' <= read' /\ read' <= written'
      BY <1>1 DEF FramingInv, ReceiverPlace
    <3> QED BY <1>1, <2>5, <3>1, <3>2, <3>3 DEF ReceiverPlace
  <2> QED BY <1>2, <1>3, <2>6, <2>7, <2>8 DEF FramingInv
<1> QED BY <1>4, <1>5

LEMMA ReceiveKeeps ==
  ASSUME FramingInv, Receive
  PROVE  FramingInv'
<1>1. CASE RecvSize
  BY <1>1, RecvSizeKeeps
<1>2. CASE RecvSizeAtEnd
  BY <1>2 DEF FramingInv, TypeOK, SenderPlace, ReceiverPlace, FramesIntact, EndIsReal, RecvSizeAtEnd,
              AtEnd, Available, senderVars, LastFrame, HeaderEnd, FrameEnd, NextFrame
<1>3. CASE RecvPayload
  <2> DEFINE n == LessOf(Asked, Available)
  <2>1. n \in Nat \ {0} /\ n <= size - got /\ n <= written - read
    BY <1>3 DEF FramingInv, TypeOK, ReceiverPlace, RecvPayload, LessOf, Asked, Available
  <2>2. /\ receiver = "payload" /\ got < size /\ read' = read + n /\ got' = got + n
        /\ UNCHANGED <<receiver, size, delivered, split, sender, frames, written>>
    BY <1>3 DEF RecvPayload, senderVars
  <2> HIDE DEF n
  <2>3. TypeOK' /\ SenderPlace' /\ FramesIntact' /\ EndIsReal'
    BY <2>1, <2>2 DEF FramingInv, TypeOK, SenderPlace, FramesIntact, EndIsReal,
       LastFrame, HeaderEnd, FrameEnd
  <2>4. ReceiverPlace'
    <3>1. Len(delivered) < Len(frames) => Len(delivered) + 1 \in DOMAIN frames
      BY DEF FramingInv, TypeOK
    <3>2. Len(delivered) < Len(frames) => NextFrame.first \in Nat /\ NextFrame' = NextFrame
      BY <2>2, <3>1, FrameTyped DEF NextFrame
    <3>3. read \in Nat /\ got \in Nat /\ size \in Nat /\ written \in Nat /\ HeaderLen \in Nat
      BY FramingAssumption DEF FramingInv, TypeOK
    <3>4. got' <= read' /\ read' <= written'
      BY <2>1, <2>2, <3>3 DEF FramingInv, ReceiverPlace
    <3>5. CASE split
      BY <2>2, <3>4, <3>5 DEF ReceiverPlace
    <3>6. CASE ~split
      <4>1. /\ Len(delivered) < Len(frames) /\ size = NextFrame.size
            /\ read = NextFrame.first + HeaderLen - 1 + got
        BY <2>2, <3>6 DEF FramingInv, ReceiverPlace
      <4> DEFINE f == NextFrame.first
      <4>2. f \in Nat /\ NextFrame' = NextFrame /\ read = f + HeaderLen - 1 + got
        BY <3>2, <4>1
      <4>3. read' = f + HeaderLen - 1 + got' /\ got' <= size'
        <5> HIDE DEF f
        <5> QED BY <2>1, <2>2, <3>3, <4>2
      <4>4. got' <= size' /\ read' = NextFrame'.first + HeaderLen - 1 + got' /\ size' = NextFrame'.size
        BY <2>2, <4>1, <4>2, <4>3
      <4> QED BY <2>2, <3>4, <4>1, <4>4 DEF ReceiverPlace
    <3> QED BY <3>5, <3>6
  <2> QED BY <2>3, <2>4 DEF FramingInv
<1>4. CASE RecvPayloadAtEnd
  BY <1>4 DEF FramingInv, TypeOK, SenderPlace, ReceiverPlace, FramesIntact, EndIsReal,
              RecvPayloadAtEnd, AtEnd, Available, senderVars, LastFrame, HeaderEnd, FrameEnd, NextFrame
<1>5. CASE RecvReturns
  BY <1>5, RecvReturnsKeeps
<1> QED BY <1>1, <1>2, <1>3, <1>4, <1>5 DEF Receive

LEMMA NextFraming ==
  ASSUME FramingInv, [Next]_framingVars
  PROVE  FramingInv'
<1>1. CASE UNCHANGED framingVars
  BY <1>1 DEF framingVars, senderVars, receiverVars, FramingInv, TypeOK, SenderPlace, ReceiverPlace,
              FramesIntact, EndIsReal, LastFrame, HeaderEnd, FrameEnd, NextFrame
<1>2. CASE Next
  BY <1>2, ProtoSendKeeps, SenderKeeps, ReceiveKeeps DEF Next
<1> QED BY <1>1, <1>2

(* The invariant that places each end in the stream.                        *)
THEOREM FramingInductive == Spec => []FramingInv
<1> QED BY InitFraming, NextFraming, PTL DEF Spec

(* What proto_recv returns are the frames that were sent (proto.cpp:17-36), *)
(* as long as no recv of a size is short.                                   *)
THEOREM FramesArriveIntact == Spec => []FramesIntact
<1>1. FramingInv => FramesIntact
  BY DEF FramingInv
<1> QED BY FramingInductive, <1>1, PTL

(* The 0 its callers take for the end of the stream is returned at the end  *)
(* only (proto.cpp:19, 28), as long as no recv of a size is short.          *)
THEOREM TheEndIsReal == Spec => []EndIsReal
<1>1. FramingInv => EndIsReal
  BY DEF FramingInv
<1> QED BY FramingInductive, <1>1, PTL

-----------------------------------------------------------------------------
(* Framing implements FrameChannel.                                         *)

LEMMA NextOrFurther ==
  ASSUME NEW m \in Nat, NEW n \in Nat, m < n
  PROVE  m + 1 = n \/ m + 1 < n
OBVIOUS

LEMMA LengthsMapped ==
  ASSUME FramingInv, ~split
  PROVE  /\ Sent = [k \in 1 .. Len(frames) |-> frames[k].size] /\ Len(Sent) = Len(frames)
         /\ Taken = [k \in 1 .. Len(delivered) |-> delivered[k].size]
         /\ Len(Taken) = Len(delivered)
         /\ Len(delivered) <= Len(frames) /\ Len(frames) \in Nat /\ Len(delivered) \in Nat
BY DEF FramingInv, TypeOK, FramesIntact, Sent, Taken

LEMMA InitChannel == Init => Channel!Init
<1> SUFFICES ASSUME Init PROVE Channel!Init
  OBVIOUS
<1>1. [k \in DOMAIN << >> |-> frames[k].size] = << >> /\ [k \in DOMAIN << >> |-> delivered[k].size] = << >>
  OBVIOUS
<1> QED BY <1>1 DEF Init, Channel!Init, Sent, Taken, Writer, Reader

(* The frame that ends last is where the sender is; the reader is not past. *)
LEMMA ReadBeforeWritten ==
  ASSUME FramingInv, ~split, Len(delivered) < Len(frames)
  PROVE  /\ Len(delivered) + 1 \in DOMAIN frames
         /\ NextFrame.first \in Nat \ {0} /\ NextFrame.size \in Nat \ {0}
         /\ Len(delivered) + 1 < Len(frames) =>
              NextFrame.first + HeaderLen - 1 + NextFrame.size <= written
<1>1. Len(delivered) \in Nat /\ Len(frames) \in Nat /\ DOMAIN frames = 1 .. Len(frames)
      /\ written \in Nat
  BY DEF FramingInv, TypeOK
<1>2. Len(delivered) + 1 \in DOMAIN frames
  BY <1>1
<1>3. \A k \in DOMAIN frames : frames[k].first \in Nat \ {0} /\ frames[k].size \in Nat \ {0}
  BY FrameTyped
<1>4. ASSUME Len(delivered) + 1 < Len(frames)
      PROVE  NextFrame.first + HeaderLen - 1 + NextFrame.size <= written
  <2>1. Len(delivered) + 2 \in DOMAIN frames /\ Len(frames) \in DOMAIN frames /\ frames # << >>
    BY <1>1, <1>4
  <2>2. frames[Len(delivered) + 2].first = NextFrame.first + HeaderLen + NextFrame.size
    BY <1>1, <1>2, <2>1 DEF FramingInv, SenderPlace, NextFrame
  <2>3. frames[Len(delivered) + 2].first <= LastFrame.first
    <3>1. CASE Len(delivered) + 2 = Len(frames)
      BY <1>3, <2>1, <3>1 DEF LastFrame
    <3>2. CASE Len(delivered) + 2 < Len(frames)
      <4>1. frames[Len(delivered) + 2].first < frames[Len(frames)].first
        BY <2>1, <3>2 DEF FramingInv, SenderPlace
      <4>2. frames[Len(delivered) + 2].first \in Nat /\ frames[Len(frames)].first \in Nat
        BY <1>3, <2>1
      <4> DEFINE a == frames[Len(delivered) + 2].first
                 b == frames[Len(frames)].first
      <4>3. a <= b
        <5> HIDE DEF a, b
        <5> QED BY <4>1, <4>2 DEF a, b
      <4> QED BY <4>3 DEF LastFrame
    <3> DEFINE m == Len(delivered) + 1
    <3>3. m \in Nat /\ m < Len(frames) /\ m + 1 = Len(delivered) + 2
      BY <1>1, <1>4
    <3>4. m + 1 = Len(frames) \/ m + 1 < Len(frames)
      <4> HIDE DEF m
      <4> QED BY <1>1, <3>3, NextOrFurther
    <3> QED BY <3>1, <3>2, <3>3, <3>4
  <2>4. LastFrame.first <= written + 1
    BY <2>1 DEF FramingInv, SenderPlace
  <2> DEFINE f == frames[Len(delivered) + 2].first
             e == NextFrame.first + HeaderLen + NextFrame.size
  <2>5. f \in Nat /\ LastFrame.first \in Nat
    BY <1>3, <2>1 DEF LastFrame
  <2>6. f <= written + 1
    <3> HIDE DEF f
    <3> QED BY <1>1, <2>3, <2>4, <2>5 DEF f
  <2>7. e <= written + 1 /\ NextFrame.first \in Nat /\ NextFrame.size \in Nat
    BY <1>2, <1>3, <2>2, <2>6 DEF NextFrame
  <2> QED BY <1>1, <2>7, FramingAssumption, SMTT(30)
<1> QED BY <1>2, <1>3, <1>4 DEF NextFrame

(* A frame that is not written to its end was not delivered.                *)
LEMMA CutIsLast ==
  ASSUME FramingInv, ~split, frames # << >>, written < FrameEnd
  PROVE  Len(delivered) < Len(frames)
<1>1. Len(delivered) \in Nat /\ Len(frames) \in Nat /\ Len(delivered) <= Len(frames)
  BY LengthsMapped
<1>2. ASSUME Len(delivered) = Len(frames) PROVE FALSE
  <2>1. receiver \in {"size", "ended"} /\ delivered # << >>
    BY <1>1, <1>2 DEF FramingInv, TypeOK, ReceiverPlace
  <2>2. read = FrameEnd
    BY <1>2, <2>1 DEF FramingInv, ReceiverPlace, FrameEnd, HeaderEnd, LastFrame
  <2>3. read <= written /\ read \in Nat /\ written \in Nat
    BY DEF FramingInv, TypeOK, ReceiverPlace
  <2> QED BY <2>2, <2>3
<1> QED BY <1>1, <1>2

LEMMA PutImplemented ==
  ASSUME FramingInv, ~split, NEW n \in Sizes, ProtoSend(n)
  PROVE  Channel!Put(n)
<1> DEFINE f == [first |-> written + 1, size |-> n]
<1>1. /\ sender = "idle" /\ sender' = "size" /\ frames' = Append(frames, f)
      /\ UNCHANGED <<written, receiver, read, size, got, delivered, split>>
  BY DEF ProtoSend, receiverVars
<1>2. frames \in Seq(Span) /\ f \in Span
  BY FramingAssumption DEF FramingInv, TypeOK, Span
<1>3. /\ DOMAIN frames' = 1 .. Len(frames) + 1 /\ frames'[Len(frames) + 1].size = n
      /\ \A k \in 1 .. Len(frames) : frames'[k] = frames[k]
      /\ Len(frames) \in Nat
  BY <1>1, <1>2
<1>4. Sent' = Append(Sent, n)
  <2>1. Sent' = [k \in 1 .. Len(frames) + 1 |-> frames'[k].size]
    BY <1>1, <1>3 DEF Sent
  <2>2. Sent = [k \in 1 .. Len(frames) |-> frames[k].size] /\ Len(Sent) = Len(frames)
    BY LengthsMapped
  <2>3. Append(Sent, n) = [k \in 1 .. Len(Sent) + 1 |-> IF k <= Len(Sent) THEN Sent[k] ELSE n]
    BY <1>3, <2>2
  <2> QED BY <1>3, <2>1, <2>2, <2>3
<1>5. Writer = "open" /\ UNCHANGED <<Taken, Writer, Reader>>
  BY <1>1 DEF Taken, Writer, Reader
<1> QED BY <1>4, <1>5 DEF Channel!Put

LEMMA SenderUnseen ==
  ASSUME FramingInv, ~split, SenderStep
  PROVE  UNCHANGED <<Sent, Taken, Writer, Reader>>
<1>1. /\ sender \in {"size", "payload"} /\ sender' # "closed"
      /\ UNCHANGED <<frames, receiver, delivered, split>>
  BY DEF SenderStep, Push, SendReturns, receiverVars
<1> QED BY <1>1 DEF Sent, Taken, Writer, Reader

LEMMA CloseImplemented ==
  ASSUME FramingInv, ~split, Close
  PROVE  Channel!Finish
<1>1. sender # "closed" /\ sender' = "closed" /\ UNCHANGED <<frames, written, receiver, delivered, split>>
  BY DEF Close, receiverVars
<1>2. UNCHANGED <<Sent, Taken, Reader>> /\ Writer = "open"
  BY <1>1 DEF Sent, Taken, Reader, Writer
<1>3. Writer' = "cut" \/ Writer' = "closed"
  BY <1>1 DEF Writer
<1>4. ASSUME Writer' = "cut" PROVE Len(Taken) < Len(Sent)
  <2>1. frames # << >> /\ written < FrameEnd
    BY <1>1, <1>4 DEF Writer, FrameEnd, HeaderEnd, LastFrame
  <2> QED BY <2>1, CutIsLast, LengthsMapped
<1> QED BY <1>2, <1>3, <1>4 DEF Channel!Finish

(* A size that was read whole changes nothing; a part of one breaks it off. *)
LEMMA SizeImplemented ==
  ASSUME FramingInv, ~split, RecvSize
  PROVE  Channel!Split \/ UNCHANGED <<Sent, Taken, Writer, Reader>>
<1>1. /\ receiver = "size" /\ UNCHANGED <<delivered, sender, frames, written>>
      /\ Available > 0
  BY DEF RecvSize, senderVars
<1>2. CASE split'
  <2>1. written > read
    BY <1>1 DEF Available, FramingInv, TypeOK, ReceiverPlace
  <2>2. Len(delivered) < Len(frames)
    BY <1>1, <2>1, AtNextFrame, LengthsMapped
  <2> QED BY <1>1, <1>2, <2>2, LengthsMapped DEF Channel!Split, Sent, Taken, Writer, Reader
<1>3. CASE ~split'
  BY <1>1, <1>3, WholeSize DEF Sent, Taken, Writer, Reader, FrameEnd, HeaderEnd, LastFrame
<1> QED BY <1>2, <1>3

LEMMA EndImplemented ==
  ASSUME FramingInv, ~split, RecvSizeAtEnd \/ RecvPayloadAtEnd
  PROVE  Channel!End
<1>1. /\ receiver \in {"size", "payload"} /\ sender = "closed"
      /\ read = written /\ read \in Nat /\ written \in Nat /\ got \in Nat /\ size \in Nat
      /\ UNCHANGED <<size, got, delivered, split, sender, frames, written>>
      /\ \/ receiver = "size" /\ receiver' = "ended"
         \/ receiver = "payload" /\ got < size /\ receiver' = "spinning"
  BY DEF RecvSizeAtEnd, RecvPayloadAtEnd, AtEnd, Available, senderVars, FramingInv, TypeOK, ReceiverPlace
<1>2. /\ Len(Sent) = Len(frames) /\ Len(Taken) = Len(delivered)
      /\ Len(delivered) <= Len(frames) /\ Len(frames) \in Nat /\ Len(delivered) \in Nat
  BY LengthsMapped
<1>3. CASE Len(delivered) = Len(frames)
  <2>1. receiver = "size"
    BY <1>1, <1>2, <1>3 DEF FramingInv, ReceiverPlace
  <2>2. Writer # "cut"
    BY <1>2, <1>3, CutIsLast DEF Writer
  <2>3. Writer = "closed" /\ Reader = "open" /\ Reader' = "ended" /\ UNCHANGED <<Sent, Taken, Writer>>
    BY <1>1, <2>1, <2>2 DEF Writer, Reader, Sent, Taken, FrameEnd, HeaderEnd, LastFrame
  <2> QED BY <1>2, <1>3, <2>3 DEF Channel!End, Channel!Whole
<1>4. CASE Len(delivered) < Len(frames)
  <2>1. /\ Len(delivered) + 1 \in DOMAIN frames
        /\ NextFrame.first \in Nat \ {0} /\ NextFrame.size \in Nat \ {0}
        /\ Len(delivered) + 1 < Len(frames) =>
              NextFrame.first + HeaderLen - 1 + NextFrame.size <= written
    BY <1>4, ReadBeforeWritten
  <2>2. read < NextFrame.first + HeaderLen - 1 + NextFrame.size
    <3>1. CASE receiver = "payload"
      <4>1. size = NextFrame.size /\ read = NextFrame.first + HeaderLen - 1 + got /\ got < size
        BY <1>1, <3>1 DEF FramingInv, ReceiverPlace
      <4> QED BY <1>1, <2>1, <4>1, FramingAssumption
    <3>2. CASE receiver = "size" /\ delivered = << >>
      <4>1. read = 0
        BY <3>2 DEF FramingInv, ReceiverPlace
      <4> QED BY <2>1, <4>1, FramingAssumption
    <3>3. CASE receiver = "size" /\ delivered # << >>
      <4>1. /\ read = frames[Len(delivered)].first + HeaderLen - 1 + frames[Len(delivered)].size
            /\ Len(delivered) \in DOMAIN frames
        BY <1>2, <3>3 DEF FramingInv, TypeOK, ReceiverPlace
      <4>2. NextFrame.first = frames[Len(delivered)].first + HeaderLen + frames[Len(delivered)].size
        BY <2>1, <4>1 DEF FramingInv, SenderPlace, NextFrame
      <4>3. frames[Len(delivered)].first \in Nat /\ frames[Len(delivered)].size \in Nat
        BY <4>1, FrameTyped
      <4>4. read = NextFrame.first - 1
        BY <4>1, <4>2, <4>3, FramingAssumption
      <4> QED BY <2>1, <4>4, FramingAssumption
    <3> QED BY <1>1, <3>1, <3>2, <3>3
  <2>3. Len(delivered) + 1 = Len(frames)
    <3> DEFINE e == NextFrame.first + HeaderLen - 1 + NextFrame.size
    <3>1. e \in Nat /\ (Len(delivered) + 1 < Len(frames) => e <= written) /\ read < e
      BY <2>1, <2>2, FramingAssumption
    <3> HIDE DEF e
    <3> QED BY <1>1, <1>2, <1>4, <3>1
  <2>4. FrameEnd = NextFrame.first + HeaderLen - 1 + NextFrame.size /\ frames # << >>
    BY <1>2, <1>4, <2>3 DEF FrameEnd, HeaderEnd, LastFrame, NextFrame
  <2>5. Writer = "cut"
    BY <1>1, <2>2, <2>4 DEF Writer
  <2>6. Reader = "open" /\ Reader' \in {"ended", "stuck"} /\ UNCHANGED <<Sent, Taken, Writer>>
    BY <1>1 DEF Reader, Sent, Taken, Writer, FrameEnd, HeaderEnd, LastFrame
  <2> QED BY <1>2, <2>3, <2>5, <2>6 DEF Channel!End, Channel!Whole
<1> QED BY <1>2, <1>3, <1>4

LEMMA TakeImplemented ==
  ASSUME FramingInv, ~split, RecvReturns
  PROVE  Channel!Take
<1> DEFINE d == [first |-> read - got + 1, size |-> size]
<1>1. /\ receiver = "payload" /\ got >= size /\ receiver' = "size"
      /\ delivered' = Append(delivered, d)
      /\ UNCHANGED <<read, size, got, split, sender, frames, written>>
  BY DEF RecvReturns, senderVars
<1>2. /\ Len(Sent) = Len(frames) /\ Len(Taken) = Len(delivered)
      /\ Len(frames) \in Nat /\ Len(delivered) \in Nat
      /\ Sent = [k \in 1 .. Len(frames) |-> frames[k].size]
      /\ Taken = [k \in 1 .. Len(delivered) |-> delivered[k].size]
  BY LengthsMapped
<1>3. /\ Len(delivered) < Len(frames) /\ size = NextFrame.size /\ got = size
      /\ read = NextFrame.first + HeaderLen - 1 + size
      /\ read <= written /\ read \in Nat /\ written \in Nat
  BY <1>1 DEF FramingInv, TypeOK, ReceiverPlace
<1>4. Writer = "cut" => Len(delivered) + 1 < Len(frames)
  <2>1. ASSUME Writer = "cut", Len(delivered) + 1 = Len(frames) PROVE FALSE
    <3>1. FrameEnd = NextFrame.first + HeaderLen - 1 + NextFrame.size /\ written < FrameEnd
      BY <2>1 DEF Writer, FrameEnd, HeaderEnd, LastFrame, NextFrame
    <3>2. FrameEnd = read
      BY ONLY <1>3, <3>1
    <3> QED BY <1>3, <3>1, <3>2
  <2>2. Len(delivered) + 1 = Len(frames) \/ Len(delivered) + 1 < Len(frames)
    BY <1>2, <1>3, NextOrFurther
  <2> QED BY <2>1, <2>2
<1>5. /\ DOMAIN delivered' = 1 .. Len(delivered) + 1
      /\ delivered'[Len(delivered) + 1].size = size
      /\ \A k \in 1 .. Len(delivered) : delivered'[k] = delivered[k]
  BY <1>1, <1>2 DEF FramingInv, TypeOK
<1>6. Taken' = Append(Taken, size)
  <2>1. Taken' = [k \in 1 .. Len(delivered) + 1 |-> delivered'[k].size]
    BY <1>1, <1>5 DEF Taken
  <2>2. Append(Taken, size) = [k \in 1 .. Len(Taken) + 1 |-> IF k <= Len(Taken) THEN Taken[k] ELSE size]
    BY <1>2
  <2> QED BY <1>2, <1>5, <2>1, <2>2
<1>7. Sent[Len(Taken) + 1] = size
  BY <1>2, <1>3 DEF NextFrame
<1>8. Reader = "open" /\ UNCHANGED <<Sent, Writer, Reader>>
  BY <1>1 DEF Reader, Sent, Writer, FrameEnd, HeaderEnd, LastFrame
<1> QED BY <1>2, <1>3, <1>4, <1>6, <1>7, <1>8 DEF Channel!Take, Channel!Whole

(* Once a size was split the mapping stands still.                          *)
LEMMA LostStays ==
  ASSUME split, [Next]_framingVars
  PROVE  UNCHANGED <<Sent, Taken, Writer, Reader>>
<1>1. split'
  BY DEF Next, SenderStep, Push, SendReturns, Receive, RecvSize, RecvSizeAtEnd, RecvPayload,
         RecvPayloadAtEnd, RecvReturns, Close, ProtoSend, framingVars, receiverVars
<1> QED BY <1>1 DEF Sent, Taken, Writer, Reader

LEMMA StepImplemented ==
  ASSUME FramingInv, [Next]_framingVars
  PROVE  [Channel!Next]_<<Sent, Taken, Writer, Reader>>
<1>1. CASE split
  BY <1>1, LostStays
<1>2. CASE ~split /\ UNCHANGED framingVars
  BY <1>2 DEF framingVars, senderVars, receiverVars, Sent, Taken, Writer, Reader,
              FrameEnd, HeaderEnd, LastFrame
<1>3. CASE ~split /\ (SenderStep \/ Close \/ \E n \in Sizes : ProtoSend(n))
  BY <1>3, SenderUnseen, CloseImplemented, PutImplemented DEF Channel!Next
<1>4. CASE ~split /\ RecvPayload
  BY <1>4 DEF RecvPayload, senderVars, Sent, Taken, Writer, Reader, FrameEnd, HeaderEnd, LastFrame
<1>5. CASE ~split /\ Receive /\ ~RecvPayload
  BY <1>5, SizeImplemented, EndImplemented, TakeImplemented DEF Receive, Channel!Next
<1> QED BY <1>1, <1>2, <1>3, <1>4, <1>5 DEF Next

(* The byte stream keeps the frames as FrameChannel states it: every frame  *)
(* whose proto_send came to its end arrives, also after the sender ended,   *)
(* and proto_recv reports no end before it (proto.cpp).                     *)
THEOREM FramesAreKept == Spec => KeepsFrames
<1>1. FramingInv /\ [Next]_framingVars => [Channel!Next]_(Channel!channelVars)
  BY StepImplemented DEF Channel!channelVars
<1> QED BY <1>1, InitChannel, FramingInductive, PTL DEF Spec, KeepsFrames, Channel!Spec
=============================================================================
