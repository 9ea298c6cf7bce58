-------------------------- MODULE AdsFramingProofs --------------------------
(***************************************************************************)
(* Proofs about AdsFraming, for every stream, every way TCP cuts it and      *)
(* every size of the buffer that Read fills.  Once the receive goroutine has   *)
(* begun at the first packet, what it has taken out ends where a packet ends.   *)
(***************************************************************************)
EXTENDS AdsFraming, SequenceTheorems, TLAPS

\* Frames of which CheckTCPPacketLength makes no error.
AllAreAmsPackets == \A i \in 1 .. Len(Sent) : LengthAt(Start[i]) >= AMSHeaderLength

\* receiveBuffer begins with the first byte of the packet after the last in out.
Aligned ==
  /\ Len(out) \in Nat /\ Len(out) <= Len(Sent)
  /\ out = SubSeq(Sent, 1, Len(out))
  /\ taken = Start[Len(out) + 1]
  /\ taken <= read

IInv ==
  /\ read \in Nat /\ read <= Len(Stream)
  /\ mode \in {"header", "answer"} => out = <<>>
  /\ InStep => Aligned

LEMMA Numbers ==
  /\ Len(Stream) \in Nat /\ Len(Sent) \in Nat
  /\ \A i \in 1 .. Len(Sent) + 1 : Start[i] \in Nat
  /\ Start[1] \in 0 .. Len(Stream) /\ Start[1] = 14 /\ Start[Len(Sent) + 1] = Len(Stream)
  /\ Chunk \in Nat \ {0} /\ Word \in Nat \ {0}
  <1>1. Len(Stream) \in Nat /\ Len(Sent) \in Nat
    BY StreamAssumption
  <1>2. 1 \in 1 .. Len(Sent) + 1
    BY <1>1
  <1>3. \A i \in 1 .. Len(Sent) + 1 : Start[i] \in 0 .. Len(Stream)
    <2>1. DOMAIN Start = 1 .. Len(Sent) + 1 /\ \A i \in DOMAIN Start : Start[i] \in 0 .. Len(Stream)
      BY StreamAssumption
    <2> QED
      BY <2>1
  <1>4. Start[Len(Sent) + 1] = Len(Stream) /\ Chunk \in Nat \ {0} /\ Word \in Nat \ {0}
    BY StreamAssumption
  <1>5. Start[1] = 14
    BY StreamAssumption DEF AMSTCPHeaderLength, AnswerLength
  <1> QED
    BY <1>1, <1>2, <1>3, <1>4, <1>5

LEMMA PrefixGrows ==
  ASSUME NEW S, NEW s \in Seq(S), NEW n \in Nat, n + 1 \in 1 .. Len(s)
  PROVE  Append(SubSeq(s, 1, n), s[n + 1]) = SubSeq(s, 1, n + 1)
  <1>1. 1 \in 1 .. Len(s) /\ n + 1 \in 1 .. Len(s) /\ (n + 1) - 1 = n
    OBVIOUS
  <1>2. SubSeq(s, 1, n + 1) = SubSeq(s, 1, n) \o << s[n + 1] >>
    BY <1>1, SubSeqRecursiveSecond
  <1>3. SubSeq(s, 1, n) \in Seq(S) /\ s[n + 1] \in S
    BY <1>1
  <1> QED
    BY <1>2, <1>3, AppendIsConcat

\* 6 + packetLength does not wrap for the frames of the stream.
LEMMA TotalIsTheFrame ==
  ASSUME NEW i \in 1 .. Len(Sent)
  PROVE  /\ LengthAt(Start[i]) \in Nat /\ Start[i] \in Nat
         /\ TotalAt(Start[i]) = AMSTCPHeaderLength + LengthAt(Start[i])
         /\ Start[i + 1] = Start[i] + TotalAt(Start[i])
  <1>1. /\ LengthAt(Start[i]) \in Nat
        /\ Start[i + 1] = Start[i] + AMSTCPHeaderLength + LengthAt(Start[i])
        /\ AMSTCPHeaderLength + LengthAt(Start[i]) < Word
    BY FramesAssumption
  <1>2. \A a, w \in Nat : a < w => a % w = a
    OBVIOUS
  <1>3. AMSTCPHeaderLength + LengthAt(Start[i]) \in Nat /\ Word \in Nat /\ Start[i] \in Nat
    BY <1>1, Numbers DEF AMSTCPHeaderLength
  <1>4. TotalAt(Start[i]) = AMSTCPHeaderLength + LengthAt(Start[i])
    BY <1>1, <1>2, <1>3 DEF TotalAt
  <1> QED
    BY <1>1, <1>3, <1>4 DEF AMSTCPHeaderLength

\* A whole packet is buffered only if one is left.
LEMMA PacketIsLeft ==
  ASSUME IInv, InStep, CheckTCPPacketLength
  PROVE  Len(out) + 1 \in 1 .. Len(Sent)
  <1>1. Len(out) \in Nat /\ Len(out) <= Len(Sent) /\ taken = Start[Len(out) + 1]
    BY DEF IInv, Aligned
  <1>2. read \in Nat /\ read <= Len(Stream) /\ read - taken >= 6
    BY DEF IInv, CheckTCPPacketLength, Buffered, AMSTCPHeaderLength
  <1>3. Len(out) # Len(Sent)
    BY <1>1, <1>2, Numbers
  <1> QED
    BY <1>1, <1>3, Numbers

\* The packet that is taken out is the next that was sent.
LEMMA NextIsTaken ==
  ASSUME IInv, InStep, TakePacket
  PROVE  /\ Len(out) \in Nat /\ Len(out) + 1 \in 1 .. Len(Sent)
         /\ out' = SubSeq(Sent, 1, Len(out) + 1) /\ Len(out') = Len(out) + 1
         /\ taken' = Start[Len(out) + 2] /\ taken' <= read
  <1> DEFINE i == Len(out) + 1
  <1>1. /\ i \in 1 .. Len(Sent) /\ taken = Start[i] /\ Len(out) \in Nat
        /\ out = SubSeq(Sent, 1, Len(out)) /\ i + 1 = Len(out) + 2
    BY PacketIsLeft DEF TakePacket, IInv, Aligned
  <1>2. taken' = Start[i + 1] /\ taken + TotalAt(taken) = Start[i + 1]
    BY <1>1, TotalIsTheFrame DEF TakePacket
  <1>3. out' = Append(out, Sent[i])
    BY <1>1, <1>2, FramesAssumption DEF TakePacket
  <1>4. out' = SubSeq(Sent, 1, i)
    BY <1>1, <1>3, PrefixGrows, StreamAssumption
  <1>5. Len(out') = i
    BY <1>1, <1>4, StreamAssumption
  <1>6. taken \in Nat /\ TotalAt(taken) \in Nat /\ read \in Nat
    BY <1>1, TotalIsTheFrame DEF IInv, AMSTCPHeaderLength
  <1>7. taken' <= read
    BY <1>6 DEF TakePacket, CheckTCPPacketLength, Buffered
  <1> QED
    BY <1>1, <1>2, <1>4, <1>5, <1>7

-----------------------------------------------------------------------------

LEMMA InitIsInv ==
  ASSUME Init
  PROVE  IInv
  BY Numbers DEF Init, IInv, InStep

LEMMA ReadHeaderKeeps ==
  ASSUME IInv, NEW n \in 1 .. AMSTCPHeaderLength, ReadHeader(n)
  PROVE  IInv'
  <1>1. 14 <= Len(Stream)
    BY Numbers
  <1> QED
    BY <1>1, Numbers DEF ReadHeader, IInv, InStep, AMSTCPHeaderLength

LEMMA ReadAnswerKeeps ==
  ASSUME IInv, NEW n \in 1 .. Len(Stream), ReadAnswer(n)
  PROVE  IInv'
  <1>1. read' \in Nat /\ read' <= Len(Stream) /\ taken' = read'
    BY Numbers DEF ReadAnswer, IInv
  <1>2. out' = <<>>
    BY DEF ReadAnswer, IInv
  <1>3. InStep' => taken' = Start[1]
    BY DEF ReadAnswer, InStep
  <1>4. <<>> = SubSeq(Sent, 1, 0) /\ Len(<<>>) = 0
    BY SubSeqEmpty
  <1>5. InStep' => Aligned'
    BY <1>1, <1>2, <1>3, <1>4, Numbers DEF Aligned
  <1> QED
    BY <1>1, <1>2, <1>5 DEF IInv

LEMMA AnswerTooShortKeeps ==
  ASSUME IInv, AnswerTooShort
  PROVE  IInv'
  BY DEF AnswerTooShort, IInv, InStep

LEMMA ReadKeeps ==
  ASSUME IInv, NEW n \in 1 .. Chunk, Read(n)
  PROVE  IInv'
  <1>1. read' \in Nat /\ read' <= Len(Stream) /\ read <= read'
    BY Numbers DEF Read, IInv
  <1>2. InStep' => InStep
    BY DEF Read, InStep
  <1>3. InStep' => Aligned'
    <2> SUFFICES ASSUME InStep' PROVE Aligned'
      OBVIOUS
    <2>1. Aligned /\ read \in Nat
      BY <1>2 DEF IInv
    <2>2. taken \in Nat
      BY <2>1, Numbers DEF Aligned
    <2> QED
      BY <1>1, <2>1, <2>2 DEF Read, Aligned
  <1> QED
    BY <1>1, <1>3 DEF Read, IInv

LEMMA NoFullPacketKeeps ==
  ASSUME IInv, NoFullPacket
  PROVE  IInv'
  BY DEF NoFullPacket, IInv, InStep, Aligned

LEMMA TakePacketKeeps ==
  ASSUME IInv, TakePacket
  PROVE  IInv'
  <1>1. (InStep' <=> InStep) /\ read' = read /\ mode' = "processing"
    BY DEF TakePacket, InStep
  <1>2. CASE ~InStep
    BY <1>1, <1>2 DEF IInv
  <1>3. CASE InStep
    <2>1. Aligned'
      BY <1>1, <1>3, NextIsTaken, Numbers DEF Aligned
    <2> QED
      BY <1>1, <2>1 DEF IInv
  <1> QED
    BY <1>2, <1>3

LEMMA Step ==
  ASSUME IInv, [Next]_vars
  PROVE  IInv'
  <1>1. ASSUME NEW n \in 1 .. AMSTCPHeaderLength, ReadHeader(n) PROVE IInv'
    BY <1>1, ReadHeaderKeeps
  <1>2. ASSUME NEW n \in 1 .. Len(Stream), ReadAnswer(n) PROVE IInv'
    BY <1>2, ReadAnswerKeeps
  <1>3. CASE AnswerTooShort
    BY <1>3, AnswerTooShortKeeps
  <1>4. ASSUME NEW n \in 1 .. Chunk, Read(n) PROVE IInv'
    BY <1>4, ReadKeeps
  <1>5. CASE TakePacket
    BY <1>5, TakePacketKeeps
  <1>6. CASE NoFullPacket
    BY <1>6, NoFullPacketKeeps
  <1>7. CASE UNCHANGED vars
    BY <1>7 DEF IInv, InStep, Aligned, vars
  <1> QED
    BY <1>1, <1>2, <1>3, <1>4, <1>5, <1>6, <1>7 DEF Next, Register, Receive

\* receiveBuffer begins with a packet whenever the receive goroutine began with one.
THEOREM Invariance == Spec => []IInv
  BY InitIsInv, Step, PTL DEF Spec

\* However the stream is cut, the packets come out whole, in order and with the
\* fields they were built with (client_buffer.go:69-90, ams-header/parse.go:51-97).
THEOREM PacketsComeOutWhole == Spec => []OutIsSent
  <1>1. IInv => OutIsSent
    BY DEF IInv, Aligned, OutIsSent
  <1> QED
    BY <1>1, Invariance, PTL

-----------------------------------------------------------------------------
(* A packet that is buffered whole is not left there.                      *)

LEMMA FirstIsAhead ==
  ASSUME IInv, NEW n \in 1 .. Len(Stream), ReadAnswer(n)
  PROVE  NothingHeldBack'
  <1> SUFFICES ASSUME InStep', 0 < Len(Sent)
               PROVE  read' < Start[2]
    BY DEF NothingHeldBack, ReadAnswer, IInv
  <1>1. 1 \in 1 .. Len(Sent)
    BY Numbers
  <1>2. Start[2] = Start[1] + 6 + LengthAt(Start[1]) /\ LengthAt(Start[1]) \in Nat
    BY <1>1, FramesAssumption DEF AMSTCPHeaderLength
  <1>3. read' = Start[1]
    BY DEF ReadAnswer, InStep
  <1> QED
    BY <1>2, <1>3, Numbers

LEMMA NoneIsWhole ==
  ASSUME IInv, AllAreAmsPackets, NoFullPacket
  PROVE  NothingHeldBack'
  <1> SUFFICES ASSUME InStep', Len(out) < Len(Sent)
               PROVE  read < Start[Len(out) + 2]
    BY DEF NothingHeldBack, NoFullPacket
  <1> DEFINE i == Len(out) + 1
  <1>1. InStep /\ Aligned /\ read \in Nat
    BY DEF NoFullPacket, InStep, IInv
  <1>2. i \in 1 .. Len(Sent) /\ taken = Start[i] /\ i + 1 = Len(out) + 2
    BY <1>1, Numbers DEF Aligned
  <1>3. LengthAt(taken) >= AMSHeaderLength
    BY <1>2 DEF AllAreAmsPackets
  <1>4. /\ LengthAt(taken) \in Nat /\ taken \in Nat
        /\ TotalAt(taken) = 6 + LengthAt(taken) /\ Start[i + 1] = taken + TotalAt(taken)
    BY <1>2, TotalIsTheFrame DEF AMSTCPHeaderLength
  <1>5. read - taken < 6 \/ read - taken < TotalAt(taken)
    BY <1>1, <1>3, <1>4 DEF NoFullPacket, CheckTCPPacketLength, Buffered, AMSTCPHeaderLength
  <1>6. read < Start[i + 1]
    BY <1>1, <1>4, <1>5
  <1> QED
    BY <1>2, <1>6

\* When the receive goroutine goes back to Read, receiveBuffer holds no whole
\* packet, of frames that are all long enough for an AMS header.
THEOREM NothingIsHeldBack == AllAreAmsPackets => (Spec => []NothingHeldBack)
  <1> SUFFICES ASSUME AllAreAmsPackets PROVE Spec => []NothingHeldBack
    OBVIOUS
  <1>1. Init => NothingHeldBack
    BY DEF Init, NothingHeldBack
  <1>2. ASSUME IInv, NothingHeldBack, [Next]_vars
        PROVE  NothingHeldBack'
    <2>1. ASSUME NEW n \in 1 .. AMSTCPHeaderLength, ReadHeader(n) PROVE NothingHeldBack'
      BY <2>1 DEF ReadHeader, NothingHeldBack
    <2>2. ASSUME NEW n \in 1 .. Len(Stream), ReadAnswer(n) PROVE NothingHeldBack'
      BY <1>2, <2>2, FirstIsAhead
    <2>3. CASE AnswerTooShort
      BY <2>3 DEF AnswerTooShort, NothingHeldBack
    <2>4. ASSUME NEW n \in 1 .. Chunk, Read(n) PROVE NothingHeldBack'
      BY <2>4 DEF Read, NothingHeldBack
    <2>5. CASE TakePacket
      BY <2>5 DEF TakePacket, NothingHeldBack
    <2>6. CASE NoFullPacket
      BY <1>2, <2>6, NoneIsWhole
    <2>7. CASE UNCHANGED vars
      BY <1>2, <2>7 DEF NothingHeldBack, InStep, vars
    <2> QED
      BY <1>2, <2>1, <2>2, <2>3, <2>4, <2>5, <2>6, <2>7 DEF Next, Register, Receive
  <1> QED
    BY <1>1, <1>2, Invariance, PTL DEF Spec

-----------------------------------------------------------------------------
(* Types.  Where the receive goroutine began in the middle of a packet, it      *)
(* takes lengths from bytes that are none; even then it reads within the       *)
(* stream, and what it hands on is made of bytes.                              *)

Byte == 0 .. 255
PacketType ==
  [command : Nat, stateFlags : Nat, dataLength : Nat, errorCode : Nat, invokeID : Nat,
   data : Seq(Byte)]

LEMMA Remainder ==
  ASSUME NEW a \in Nat, NEW w \in Nat \ {0}
  PROVE  a % w \in Nat /\ a % w < w
  OBVIOUS

LEMMA ByteIsSmall ==
  ASSUME NEW b \in Byte
  PROVE  b \in Nat /\ b < 256
  BY DEF Byte

LEMMA ShortIsRead ==
  ASSUME NEW s \in Seq(Byte), NEW k \in Nat, k + 2 <= Len(s)
  PROVE  U16(s, k) \in Nat /\ U16(s, k) < 65536
  <1>1. k + 1 \in 1 .. Len(s) /\ k + 2 \in 1 .. Len(s)
    OBVIOUS
  <1>2. s[k + 1] \in Byte /\ s[k + 2] \in Byte
    BY <1>1
  <1>3. s[k + 1] \in Nat /\ s[k + 1] < 256 /\ s[k + 2] \in Nat /\ s[k + 2] < 256
    BY <1>2, ByteIsSmall
  <1>4. \A a, b \in Nat : a < 256 /\ b < 256 => a + 256 * b \in Nat /\ a + 256 * b < 65536
    OBVIOUS
  <1> QED
    BY <1>3, <1>4 DEF U16

LEMMA NumberIsRead ==
  ASSUME NEW s \in Seq(Byte), NEW k \in Nat, k + 4 <= Len(s)
  PROVE  U32(s, k) \in Nat /\ U32(s, k) < Word
  <1>1. Len(s) \in Nat
    OBVIOUS
  <1>2. U16(s, k) \in Nat
    <2>1. k + 2 <= Len(s)
      BY <1>1
    <2> QED
      BY <2>1, ShortIsRead
  <1>3. U16(s, k + 2) \in Nat
    <2>1. k + 2 \in Nat /\ (k + 2) + 2 <= Len(s)
      BY <1>1
    <2> QED
      BY <2>1, ShortIsRead
  <1>4. U16(s, k) + 65536 * U16(s, k + 2) \in Nat
    BY <1>2, <1>3
  <1>5. Word \in Nat \ {0}
    BY Numbers
  <1> QED
    BY <1>4, <1>5, Remainder DEF U32

LEMMA StreamIsBytes ==
  Stream \in Seq(Byte)
  BY StreamAssumption DEF Byte

LEMMA BytesRead ==
  ASSUME NEW from \in Nat, NEW to \in Nat, from <= to, to <= Len(Stream)
  PROVE  /\ Bytes(from, to) \in Seq(Byte) /\ Len(Bytes(from, to)) = to - from
         /\ \A k \in 1 .. to - from : Bytes(from, to)[k] = Stream[from + k]
  <1>1. Len(Stream) \in Nat /\ Stream \in Seq(Byte)
    BY StreamIsBytes, Numbers
  <1>2. \A i \in from + 1 .. to : i \in 1 .. Len(Stream)
    BY <1>1
  <1>3. Bytes(from, to) \in Seq(Byte)
    BY <1>1, <1>2, SubSeqProperties DEF Bytes
  <1>4. Len(Bytes(from, to)) = to - from
    BY <1>1, <1>2, SubSeqProperties DEF Bytes
  <1>5. \A k \in 1 .. to - from : Bytes(from, to)[k] = Stream[from + k]
    BY <1>1, <1>2, SubSeqProperties DEF Bytes
  <1> QED
    BY <1>3, <1>4, <1>5

LEMMA PaddedBytes ==
  ASSUME NEW s \in Seq(Byte), NEW n \in Nat
  PROVE  Padded(s, n) \in Seq(Byte) /\ Len(Padded(s, n)) = n
  <1>1. ASSUME NEW k \in 1 .. n
        PROVE  (IF k <= Len(s) THEN s[k] ELSE 0) \in Byte
    <2>1. CASE k <= Len(s)
      <3>1. s[k] \in Byte
        BY <2>1
      <3> QED
        BY <2>1, <3>1
    <2>2. CASE ~(k <= Len(s))
      BY <2>2 DEF Byte
    <2> QED
      BY <2>1, <2>2
  <1>2. Padded(s, n) \in [1 .. n -> Byte]
    BY <1>1 DEF Padded
  <1> QED
    BY <1>2

\* The length of a packet is read from the bytes of the packet.
LEMMA LengthIsFirst ==
  ASSUME NEW from \in Nat, NEW to \in Nat, from <= to, to <= Len(Stream),
         Len(Bytes(from, to)) >= 6
  PROVE  LengthAt(from) = U32(Bytes(from, to), 2)
  <1> DEFINE s == Bytes(from, to)
  <1>1. Len(s) = to - from /\ \A k \in 1 .. to - from : s[k] = Stream[from + k]
    BY BytesRead
  <1>2. 3 \in 1 .. to - from /\ 4 \in 1 .. to - from /\ 5 \in 1 .. to - from /\ 6 \in 1 .. to - from
    BY <1>1
  <1> HIDE DEF s
  <1>3. /\ s[3] = Stream[from + 3] /\ s[4] = Stream[from + 4]
        /\ s[5] = Stream[from + 5] /\ s[6] = Stream[from + 6]
    BY <1>1, <1>2
  <1>4. U16(s, 2) = U16(Stream, from + 2) /\ U16(s, 2 + 2) = U16(Stream, from + 2 + 2)
    BY <1>3 DEF U16
  <1>5. LengthAt(from) = U32(s, 2)
    BY <1>4 DEF U32, LengthAt
  <1> QED
    BY <1>5 DEF s

\* What lies between two offsets that CheckTCPPacketLength has found makes a packet.
LEMMA PacketIsTyped ==
  ASSUME taken \in Nat, read \in Nat, read <= Len(Stream), taken <= read, CheckTCPPacketLength
  PROVE  /\ TotalAt(taken) \in Nat /\ taken + TotalAt(taken) <= read
         /\ ParsePacket(Bytes(taken, taken + TotalAt(taken))) \in PacketType
  <1> DEFINE n == TotalAt(taken)  s == Bytes(taken, taken + n)
  <1>1. taken + 6 <= read /\ Len(Stream) \in Nat
    BY Numbers DEF CheckTCPPacketLength, Buffered, AMSTCPHeaderLength
  <1>2. LengthAt(taken) \in Nat /\ LengthAt(taken) < Word
    <2>1. taken + 2 \in Nat /\ (taken + 2) + 4 <= Len(Stream)
      BY <1>1
    <2> QED
      BY <2>1, NumberIsRead, StreamIsBytes DEF LengthAt
  <1>3. n \in Nat /\ n < Word
    <2>1. 6 + LengthAt(taken) \in Nat
      BY <1>2
    <2> QED
      BY <2>1, Remainder, Numbers DEF TotalAt, AMSTCPHeaderLength
  <1> HIDE DEF n
  <1>4. taken + n <= read
    BY <1>3 DEF CheckTCPPacketLength, Buffered, n
  <1>5. s \in Seq(Byte) /\ Len(s) = n /\ \A k \in 1 .. n : s[k] = Stream[taken + k]
    <2>1. /\ taken + n \in Nat /\ taken <= taken + n /\ taken + n <= Len(Stream)
          /\ (taken + n) - taken = n
      BY <1>1, <1>3, <1>4
    <2> QED
      BY <2>1, BytesRead
  <1> HIDE DEF s
  <1>6. CASE n < 38
    <2>1. ParsePacket(s) = NoPacket
      BY <1>5, <1>6 DEF ParsePacket, MinPacketLength, AMSTCPHeaderLength, AMSHeaderLength
    <2>2. <<>> \in Seq(Byte)
      OBVIOUS
    <2>3. NoPacket \in PacketType
      BY <2>2 DEF NoPacket, PacketType
    <2> QED
      BY <1>3, <1>4, <2>1, <2>3 DEF n, s
  <1>7. CASE n >= 38
    <2>1. n = 6 + LengthAt(taken)
      <3>1. n = (6 + LengthAt(taken)) % Word
        BY DEF n, TotalAt, AMSTCPHeaderLength
      <3>2. \A a, w \in Nat : a < w => a % w = a
        OBVIOUS
      <3>3. \A a, w \in Nat : w > 38 /\ w <= a /\ a < w + w => a % w = a - w
        OBVIOUS
      <3>4. 6 + LengthAt(taken) \in Nat /\ Word \in Nat /\ Word > 38 /\ 6 + LengthAt(taken) < Word + Word
        BY <1>2, <1>3, <1>7, Numbers
      <3>5. CASE 6 + LengthAt(taken) < Word
        BY <3>1, <3>2, <3>4, <3>5
      <3>6. CASE Word <= 6 + LengthAt(taken)
        <4>1. n = (6 + LengthAt(taken)) - Word
          BY <3>1, <3>3, <3>4, <3>6
        <4> QED
          BY <1>2, <1>7, <4>1, Numbers
      <3> QED
        BY <1>2, <3>5, <3>6, Numbers
    <2>2. U32(s, 2) = LengthAt(taken)
      <3>1. /\ taken + n \in Nat /\ taken <= taken + n /\ taken + n <= Len(Stream)
            /\ Len(Bytes(taken, taken + n)) >= 6
        BY <1>1, <1>3, <1>4, <1>5, <1>7 DEF s
      <3> QED
        BY <3>1, LengthIsFirst DEF s
    <2>3. /\ U16(s, 22) \in Nat /\ U16(s, 24) \in Nat
          /\ U32(s, 26) \in Nat /\ U32(s, 30) \in Nat /\ U32(s, 34) \in Nat
      <3>1. /\ 22 + 2 <= Len(s) /\ 24 + 2 <= Len(s)
            /\ 26 + 4 <= Len(s) /\ 30 + 4 <= Len(s) /\ 34 + 4 <= Len(s)
        BY <1>3, <1>5, <1>7
      <3> QED
        BY <1>5, <3>1, ShortIsRead, NumberIsRead
    <2>4. SubSeq(s, 39, 6 + U32(s, 2)) \in Seq(Byte)
      <3>1. \A i \in 39 .. n : i \in 1 .. Len(s)
        BY <1>3, <1>5
      <3>2. SubSeq(s, 39, n) \in Seq(Byte)
        BY <1>3, <1>5, <3>1, SubSeqProperties
      <3> QED
        BY <2>1, <2>2, <3>2
    <2>5. ParsePacket(s) =
            [command |-> U16(s, 22), stateFlags |-> U16(s, 24), dataLength |-> U32(s, 26),
             errorCode |-> U32(s, 30), invokeID |-> U32(s, 34),
             data |-> SubSeq(s, 39, 6 + U32(s, 2))]
      BY <1>3, <1>5, <1>7 DEF ParsePacket, MinPacketLength, AMSTCPHeaderLength, AMSHeaderLength
    <2>6. ParsePacket(s) \in PacketType
      BY <2>3, <2>4, <2>5 DEF PacketType
    <2> QED
      BY <1>3, <1>4, <2>6 DEF n, s
  <1> QED
    BY <1>3, <1>6, <1>7

\* registerAdsPort has a whole header before it reads the answer, if perhaps not
\* the one that was sent; receiveBuffer ends where reading has come to.
TInv ==
  /\ TypeOK
  /\ mode = "header" => taken = 0
  /\ mode = "answer" => Len(head) = AMSTCPHeaderLength
  /\ taken <= read

Offset == {n \in Nat : n <= Len(Stream)}

LEMMA OffsetRange ==
  Offset = 0 .. Len(Stream)
  BY Numbers DEF Offset

LEMMA TypeParts ==
  TypeOK <=>
    /\ mode \in {"header", "answer", "reading", "processing", "panicked"}
    /\ read \in Offset /\ begun \in Offset /\ taken \in Offset
    /\ head \in Seq(Byte) /\ local \in Seq(Byte) /\ out \in Seq(PacketType)
  BY OffsetRange, Zenon DEF TypeOK, Byte, PacketType

LEMMA TypePartsNext ==
  TypeOK' <=>
    /\ mode' \in {"header", "answer", "reading", "processing", "panicked"}
    /\ read' \in Offset /\ begun' \in Offset /\ taken' \in Offset
    /\ head' \in Seq(Byte) /\ local' \in Seq(Byte) /\ out' \in Seq(PacketType)
  BY OffsetRange, Zenon DEF TypeOK, Byte, PacketType

LEMMA ReadHeaderTyped ==
  ASSUME TInv, NEW n \in 1 .. AMSTCPHeaderLength, ReadHeader(n)
  PROVE  TInv'
  <1>1. n \in Nat /\ n >= 1 /\ n <= 6 /\ 14 <= Len(Stream) /\ Len(Stream) \in Nat
    BY Numbers DEF AMSTCPHeaderLength
  <1>2. 0 \in Nat /\ 0 <= n /\ n <= Len(Stream) /\ 6 \in Nat
    BY <1>1
  <1>3. Bytes(0, n) \in Seq(Byte)
    BY <1>1, <1>2, BytesRead
  <1>4. head' = Padded(Bytes(0, n), 6)
    BY DEF ReadHeader, AMSTCPHeaderLength
  <1>5. head' \in Seq(Byte) /\ Len(head') = 6
    BY <1>2, <1>3, <1>4, PaddedBytes
  <1>6. /\ mode = "header" /\ mode' = "answer" /\ read' = n
        /\ UNCHANGED <<local, begun, taken, out>>
    BY DEF ReadHeader
  <1>7. n \in Offset
    BY <1>1, <1>2 DEF Offset
  <1>8. TypeOK'
    BY <1>5, <1>6, <1>7, TypeParts, TypePartsNext DEF TInv
  <1> QED
    BY <1>2, <1>5, <1>6, <1>8 DEF TInv, AMSTCPHeaderLength

LEMMA ReadAnswerTyped ==
  ASSUME TInv, NEW n \in 1 .. Len(Stream), ReadAnswer(n)
  PROVE  TInv'
  <1> DEFINE m == U32(head, 2)  answer == Padded(Bytes(read, read + n), m)
  <1>1. read \in Nat /\ n \in Nat /\ n >= 1 /\ read + n <= Len(Stream) /\ Len(Stream) \in Nat
    BY TypeParts, Numbers DEF TInv, Offset, ReadAnswer
  <1>2. /\ mode = "answer" /\ mode' = "reading" /\ read' = read + n /\ begun' = read'
        /\ taken' = read' /\ local' = SubSeq(answer, 1, 8) /\ 8 <= m
        /\ UNCHANGED <<head, out>>
    BY DEF ReadAnswer, AnswerLength
  <1>3. m \in Nat
    <2>1. head \in Seq(Byte)
      BY TypeParts DEF TInv
    <2>2. Len(head) = 6
      BY <1>2 DEF TInv, AMSTCPHeaderLength
    <2>3. 2 \in Nat /\ 2 + 4 <= Len(head)
      BY <2>2
    <2> QED
      BY <2>1, <2>3, NumberIsRead
  <1> HIDE DEF m
  <1>4. Bytes(read, read + n) \in Seq(Byte)
    <2>1. read + n \in Nat /\ read <= read + n
      BY <1>1
    <2> QED
      BY <1>1, <2>1, BytesRead
  <1>5. answer \in Seq(Byte) /\ Len(answer) = m
    BY <1>3, <1>4, PaddedBytes
  <1> HIDE DEF answer
  <1>6. local' \in Seq(Byte)
    <2>1. \A i \in 1 .. 8 : i \in 1 .. Len(answer)
      BY <1>2, <1>3, <1>5
    <2>2. \A i \in 1 .. 8 : answer[i] \in Byte
      BY <1>5, <2>1
    <2> QED
      BY <1>2, <2>2, SubSeqProperties
  <1>7. read' \in Offset /\ read' <= read'
    BY <1>1, <1>2 DEF Offset
  <1>8. TypeOK'
    BY <1>2, <1>6, <1>7, TypeParts, TypePartsNext DEF TInv
  <1> QED
    BY <1>2, <1>7, <1>8 DEF TInv

LEMMA ReadTyped ==
  ASSUME TInv, NEW n \in 1 .. Chunk, Read(n)
  PROVE  TInv'
  <1>1. /\ read \in Nat /\ taken \in Nat /\ taken <= read /\ n \in Nat
        /\ read + n <= Len(Stream)
    BY TypeParts, Numbers DEF TInv, Offset, Read
  <1>2. /\ mode' = "processing" /\ read' = read + n
        /\ UNCHANGED <<head, local, begun, taken, out>>
    BY DEF Read
  <1>3. read' \in Offset /\ taken' <= read'
    BY <1>1, <1>2 DEF Offset
  <1>4. TypeOK'
    BY <1>2, <1>3, TypeParts, TypePartsNext DEF TInv
  <1> QED
    BY <1>2, <1>3, <1>4 DEF TInv

LEMMA TakePacketTyped ==
  ASSUME TInv, TakePacket
  PROVE  TInv'
  <1> DEFINE n == TotalAt(taken)  packet == ParsePacket(Bytes(taken, taken + TotalAt(taken)))
  <1>1. taken \in Nat /\ read \in Nat /\ read <= Len(Stream) /\ taken <= read
    BY TypeParts DEF TInv, Offset
  <1>2. n \in Nat /\ taken + n <= read /\ packet \in PacketType
    BY <1>1, PacketIsTyped DEF TakePacket
  <1>3. /\ mode = "processing" /\ out' = Append(out, packet) /\ taken' = taken + n
        /\ UNCHANGED <<mode, read, head, local, begun>>
    BY DEF TakePacket
  <1> HIDE DEF n, packet
  <1>4. taken' \in Offset /\ taken' <= read'
    BY <1>1, <1>2, <1>3, Numbers DEF Offset
  <1>5. out' \in Seq(PacketType)
    <2>1. out \in Seq(PacketType)
      BY TypeParts DEF TInv
    <2> QED
      BY <1>2, <1>3, <2>1
  <1>6. TypeOK'
    BY <1>3, <1>4, <1>5, TypeParts, TypePartsNext DEF TInv
  <1> QED
    BY <1>3, <1>4, <1>6 DEF TInv

\* The length that is read is one of the router's, or made of what the short
\* Reads of registerAdsPort have left; no packet is taken out beyond what has come.
THEOREM TypeCorrect == Spec => []TypeOK
  <1>1. Init => TInv
    <2> SUFFICES ASSUME Init PROVE TInv
      OBVIOUS
    <2>1. 0 \in Offset /\ <<>> \in Seq(Byte) /\ <<>> \in Seq(PacketType)
      BY Numbers DEF Offset
    <2>2. TypeOK
      BY <2>1, TypeParts DEF Init
    <2> QED
      BY <2>2 DEF Init, TInv
  <1>2. TInv /\ [Next]_vars => TInv'
    <2> SUFFICES ASSUME TInv, [Next]_vars PROVE TInv'
      OBVIOUS
    <2>1. ASSUME NEW n \in 1 .. AMSTCPHeaderLength, ReadHeader(n) PROVE TInv'
      BY <2>1, ReadHeaderTyped
    <2>2. ASSUME NEW n \in 1 .. Len(Stream), ReadAnswer(n) PROVE TInv'
      BY <2>2, ReadAnswerTyped
    <2>3. ASSUME NEW n \in 1 .. Chunk, Read(n) PROVE TInv'
      BY <2>3, ReadTyped
    <2>4. CASE TakePacket
      BY <2>4, TakePacketTyped
    <2>5. CASE AnswerTooShort \/ NoFullPacket \/ UNCHANGED vars
      <3>1. /\ UNCHANGED <<read, head, local, begun, taken, out>>
            /\ mode' \in {mode, "panicked", "reading"}
        BY <2>5 DEF AnswerTooShort, NoFullPacket, vars
      <3>2. TypeOK'
        BY <3>1, TypeParts, TypePartsNext DEF TInv
      <3> QED
        BY <3>1, <3>2 DEF TInv
    <2> QED
      BY <2>1, <2>2, <2>3, <2>4, <2>5 DEF Next, Register, Receive
  <1>3. TInv => TypeOK
    BY DEF TInv
  <1> QED
    BY <1>1, <1>2, <1>3, PTL DEF Spec

-----------------------------------------------------------------------------
(* What BuildPacket writes is what ParsePacket reads.                        *)

\* t lies in s, from offset k on.
Holds(s, t, k) == k + Len(t) <= Len(s) /\ \A j \in 1 .. Len(t) : s[k + j] = t[j]

LEMMA HoldsLeft ==
  ASSUME NEW s \in Seq(Byte), NEW t \in Seq(Byte), NEW u \in Seq(Byte), NEW k \in Nat,
         Holds(s, u, k)
  PROVE  Holds(s \o t, u, k)
  <1>1. Len(s) \in Nat /\ Len(t) \in Nat /\ Len(u) \in Nat
    OBVIOUS
  <1>2. Len(s \o t) = Len(s) + Len(t)
    BY ConcatProperties
  <1>3. k + Len(u) <= Len(s \o t)
    BY <1>1, <1>2 DEF Holds
  <1>4. ASSUME NEW j \in 1 .. Len(u)
        PROVE  (s \o t)[k + j] = u[j]
    <2>1. k + j \in 1 .. Len(s) + Len(t) /\ k + j <= Len(s)
      BY <1>1 DEF Holds
    <2>2. (s \o t)[k + j] = s[k + j]
      BY <2>1, ConcatProperties
    <2> QED
      BY <2>2 DEF Holds
  <1> QED
    BY <1>3, <1>4 DEF Holds

LEMMA HoldsRight ==
  ASSUME NEW s \in Seq(Byte), NEW t \in Seq(Byte), NEW u \in Seq(Byte), NEW k \in Nat,
         Holds(t, u, k)
  PROVE  Holds(s \o t, u, Len(s) + k)
  <1>1. Len(s) \in Nat /\ Len(t) \in Nat /\ Len(u) \in Nat
    OBVIOUS
  <1>2. Len(s \o t) = Len(s) + Len(t)
    BY ConcatProperties
  <1>3. (Len(s) + k) + Len(u) <= Len(s \o t)
    BY <1>1, <1>2 DEF Holds
  <1>4. ASSUME NEW j \in 1 .. Len(u)
        PROVE  (s \o t)[(Len(s) + k) + j] = u[j]
    <2>1. /\ (Len(s) + k) + j \in 1 .. Len(s) + Len(t) /\ ~((Len(s) + k) + j <= Len(s))
          /\ ((Len(s) + k) + j) - Len(s) = k + j
      BY <1>1 DEF Holds
    <2>2. (s \o t)[(Len(s) + k) + j] = t[k + j]
      BY <2>1, ConcatProperties
    <2> QED
      BY <2>2 DEF Holds
  <1> QED
    BY <1>3, <1>4 DEF Holds

LEMMA HoldsItself ==
  ASSUME NEW t \in Seq(Byte)
  PROVE  Holds(t, t, 0)
  BY DEF Holds

LEMMA HoldsLast ==
  ASSUME NEW s \in Seq(Byte), NEW t \in Seq(Byte)
  PROVE  s \o t \in Seq(Byte) /\ Len(s \o t) = Len(s) + Len(t) /\ Holds(s \o t, t, Len(s))
  <1>1. Len(s) + 0 = Len(s)
    OBVIOUS
  <1> QED
    BY <1>1, HoldsItself, HoldsRight, ConcatProperties

LEMMA ShortIsPut ==
  ASSUME NEW n \in Nat
  PROVE  /\ PutUint16(n) \in Seq(Byte) /\ Len(PutUint16(n)) = 2
         /\ PutUint16(n)[1] = n % 256 /\ PutUint16(n)[2] = (n \div 256) % 256
  <1>1. n % 256 \in 0 .. 255 /\ (n \div 256) % 256 \in 0 .. 255
    OBVIOUS
  <1> QED
    BY <1>1 DEF PutUint16, Byte

\* A number of 16 bits survives.
LEMMA ShortSurvives ==
  ASSUME NEW s \in Seq(Byte), NEW k \in Nat, NEW n \in Nat, Holds(s, PutUint16(n), k)
  PROVE  U16(s, k) = n % 65536
  <1>1. s[k + 1] = n % 256 /\ s[k + 2] = (n \div 256) % 256
    <2> DEFINE t == PutUint16(n)
    <2>1. Len(t) = 2 /\ t[1] = n % 256 /\ t[2] = (n \div 256) % 256
      BY ShortIsPut
    <2> HIDE DEF t
    <2>2. \A j \in 1 .. 2 : s[k + j] = t[j]
      BY <2>1 DEF Holds, t
    <2>3. 1 \in 1 .. 2 /\ 2 \in 1 .. 2
      OBVIOUS
    <2> QED
      BY <2>1, <2>2, <2>3
  <1>2. (n % 256) + 256 * ((n \div 256) % 256) = n % 65536
    OBVIOUS
  <1> QED
    BY <1>1, <1>2 DEF U16

LEMMA LongIsPut ==
  ASSUME NEW n \in Nat
  PROVE  /\ PutUint32(n) \in Seq(Byte) /\ Len(PutUint32(n)) = 4
         /\ n \div 65536 \in Nat
         /\ Holds(PutUint32(n), PutUint16(n), 0)
         /\ Holds(PutUint32(n), PutUint16(n \div 65536), 2)
  <1>1. n \div 65536 \in Nat
    OBVIOUS
  <1>2. /\ PutUint16(n) \in Seq(Byte) /\ Len(PutUint16(n)) = 2
        /\ PutUint16(n \div 65536) \in Seq(Byte) /\ Len(PutUint16(n \div 65536)) = 2
    BY <1>1, ShortIsPut
  <1>3. Holds(PutUint16(n), PutUint16(n), 0)
    BY <1>2, HoldsItself
  <1>4. 0 \in Nat /\ PutUint32(n) = PutUint16(n) \o PutUint16(n \div 65536)
    BY DEF PutUint32
  <1>5. Holds(PutUint32(n), PutUint16(n), 0)
    BY <1>2, <1>3, <1>4, HoldsLeft
  <1>6. /\ PutUint32(n) \in Seq(Byte) /\ Len(PutUint32(n)) = 4
        /\ Holds(PutUint32(n), PutUint16(n \div 65536), 2)
    <2> DEFINE lo == PutUint16(n)  hi == PutUint16(n \div 65536)
    <2> HIDE DEF lo, hi
    <2>1. lo \in Seq(Byte) /\ hi \in Seq(Byte) /\ Len(lo) = 2 /\ Len(hi) = 2
      BY <1>2 DEF lo, hi
    <2>2. lo \o hi \in Seq(Byte) /\ Len(lo \o hi) = Len(lo) + Len(hi) /\ Holds(lo \o hi, hi, Len(lo))
      BY <2>1, HoldsLast
    <2>3. Len(lo \o hi) = 4 /\ Holds(lo \o hi, hi, 2)
      BY <2>1, <2>2
    <2> QED
      BY <1>4, <2>2, <2>3 DEF lo, hi
  <1> QED
    BY <1>1, <1>5, <1>6

LEMMA HoldsWithin ==
  ASSUME NEW s \in Seq(Byte), NEW t \in Seq(Byte), NEW u \in Seq(Byte),
         NEW k \in Nat, NEW l \in Nat, Holds(s, t, k), Holds(t, u, l)
  PROVE  Holds(s, u, k + l)
  <1>1. Len(s) \in Nat /\ Len(t) \in Nat /\ Len(u) \in Nat
    OBVIOUS
  <1>2. (k + l) + Len(u) <= Len(s)
    BY <1>1 DEF Holds
  <1>3. ASSUME NEW j \in 1 .. Len(u)
        PROVE  s[(k + l) + j] = u[j]
    <2>1. l + j \in 1 .. Len(t) /\ k + (l + j) = (k + l) + j
      BY <1>1 DEF Holds
    <2>2. s[k + (l + j)] = t[l + j]
      BY <2>1 DEF Holds
    <2> QED
      BY <2>1, <2>2 DEF Holds
  <1> QED
    BY <1>2, <1>3 DEF Holds

Uint32 == 4294967296

\* So does one of 32 bits, if it is less than what the sum wraps at.
LEMMA LongSurvives ==
  ASSUME NEW s \in Seq(Byte), NEW k \in Nat, NEW n \in Nat, n < Word, Word <= Uint32,
         Holds(s, PutUint32(n), k)
  PROVE  U32(s, k) = n
  <1>1. n \div 65536 \in Nat /\ n \div 65536 < 65536 /\ Word \in Nat /\ k + 0 = k
    <2>1. Word \in Nat
      BY Numbers
    <2>2. n < 65536 * 65536
      BY <2>1, SMT DEF Uint32
    <2> QED
      BY <2>1, <2>2
  <1>2. /\ PutUint32(n) \in Seq(Byte) /\ PutUint16(n) \in Seq(Byte)
        /\ PutUint16(n \div 65536) \in Seq(Byte)
    <2>1. PutUint32(n) \in Seq(Byte)
      BY LongIsPut
    <2>2. PutUint16(n) \in Seq(Byte)
      BY ShortIsPut
    <2>3. PutUint16(n \div 65536) \in Seq(Byte)
      BY <1>1, ShortIsPut
    <2> QED
      BY <2>1, <2>2, <2>3
  <1>3. U16(s, k) = n % 65536
    <2>1. 0 \in Nat
      OBVIOUS
    <2>2. Holds(PutUint32(n), PutUint16(n), 0)
      BY LongIsPut
    <2>3. Holds(s, PutUint16(n), k + 0)
      BY <1>2, <2>1, <2>2, HoldsWithin
    <2>4. Holds(s, PutUint16(n), k)
      BY <1>1, <2>3
    <2> QED
      BY <2>4, ShortSurvives
  <1>4. U16(s, k + 2) = n \div 65536
    <2>1. 2 \in Nat /\ k + 2 \in Nat
      OBVIOUS
    <2>2. Holds(PutUint32(n), PutUint16(n \div 65536), 2)
      BY LongIsPut
    <2>3. Holds(s, PutUint16(n \div 65536), k + 2)
      BY <1>2, <2>1, <2>2, HoldsWithin
    <2>4. (n \div 65536) % 65536 = n \div 65536
      BY <1>1
    <2> QED
      BY <1>1, <2>1, <2>3, <2>4, ShortSurvives
  <1>5. (n % 65536) + 65536 * (n \div 65536) = n
    OBVIOUS
  <1>6. \A a, w \in Nat : a < w => a % w = a
    OBVIOUS
  <1> QED
    BY <1>1, <1>3, <1>4, <1>5, <1>6 DEF U32

Address == {a \in Seq(Byte) : Len(a) = 8}

\* The packets whose fields fit the headers.
Fitting ==
  {p \in PacketType :
     /\ p.command < 65536 /\ p.stateFlags < 65536
     /\ p.dataLength < Word /\ p.errorCode < Word /\ p.invokeID < Word
     /\ MinPacketLength + Len(p.data) < Word}

LEMMA TcpHeaderIsPut ==
  ASSUME NEW n \in Nat
  PROVE  LET h == BuildAmsTcpHeader(0, n) IN
         h \in Seq(Byte) /\ Len(h) = 6 /\ Holds(h, PutUint32(n), 2)
  <1> DEFINE c == PutUint16(0)  l == PutUint32(n)
  <1>1. 0 \in Nat
    OBVIOUS
  <1>2. c \in Seq(Byte) /\ Len(c) = 2
    BY <1>1, ShortIsPut
  <1>3. l \in Seq(Byte) /\ Len(l) = 4
    BY LongIsPut
  <1>4. BuildAmsTcpHeader(0, n) = c \o l
    BY DEF BuildAmsTcpHeader
  <1> HIDE DEF c, l
  <1>5. c \o l \in Seq(Byte) /\ Len(c \o l) = Len(c) + Len(l) /\ Holds(c \o l, l, Len(c))
    BY <1>2, <1>3, HoldsLast
  <1>6. Len(c \o l) = 6 /\ Holds(c \o l, l, 2)
    BY <1>2, <1>3, <1>5
  <1> QED
    BY <1>4, <1>5, <1>6 DEF l

\* The AMS header after its two addresses a.
LEMMA PartsInPlace ==
  ASSUME NEW a \in Seq(Byte), Len(a) = 16,
         NEW c \in Seq(Byte), Len(c) = 2, NEW f \in Seq(Byte), Len(f) = 2,
         NEW d \in Seq(Byte), Len(d) = 4, NEW e \in Seq(Byte), Len(e) = 4,
         NEW i \in Seq(Byte), Len(i) = 4
  PROVE  LET h == a \o c \o f \o d \o e \o i IN
         /\ h \in Seq(Byte) /\ Len(h) = 32
         /\ Holds(h, c, 16) /\ Holds(h, f, 18)
         /\ Holds(h, d, 20) /\ Holds(h, e, 24) /\ Holds(h, i, 28)
  <1> DEFINE s1 == a \o c  s2 == s1 \o f  s3 == s2 \o d  s4 == s3 \o e  s5 == s4 \o i
  <1>0. 16 \in Nat /\ 18 \in Nat /\ 20 \in Nat /\ 24 \in Nat
    OBVIOUS
  <1>1. s1 \in Seq(Byte) /\ Len(s1) = 18 /\ Holds(s1, c, 16)
    <2>1. s1 \in Seq(Byte) /\ Len(s1) = Len(a) + Len(c) /\ Holds(s1, c, Len(a))
      BY HoldsLast
    <2> HIDE DEF s1
    <2> QED
      BY <2>1
  <1> HIDE DEF s1
  <1>2. s2 \in Seq(Byte) /\ Len(s2) = 20 /\ Holds(s2, f, 18) /\ Holds(s2, c, 16)
    <2>1. s2 \in Seq(Byte) /\ Len(s2) = Len(s1) + Len(f) /\ Holds(s2, f, Len(s1))
      BY <1>1, HoldsLast
    <2>2. Holds(s2, c, 16)
      BY <1>0, <1>1, HoldsLeft
    <2> HIDE DEF s2
    <2> QED
      BY <1>1, <2>1, <2>2
  <1> HIDE DEF s2
  <1>3. /\ s3 \in Seq(Byte) /\ Len(s3) = 24 /\ Holds(s3, d, 20)
        /\ Holds(s3, c, 16) /\ Holds(s3, f, 18)
    <2>1. s3 \in Seq(Byte) /\ Len(s3) = Len(s2) + Len(d) /\ Holds(s3, d, Len(s2))
      BY <1>2, HoldsLast
    <2>2. Holds(s3, c, 16) /\ Holds(s3, f, 18)
      BY <1>0, <1>2, HoldsLeft
    <2> HIDE DEF s3
    <2> QED
      BY <1>2, <2>1, <2>2
  <1> HIDE DEF s3
  <1>4. /\ s4 \in Seq(Byte) /\ Len(s4) = 28 /\ Holds(s4, e, 24)
        /\ Holds(s4, c, 16) /\ Holds(s4, f, 18) /\ Holds(s4, d, 20)
    <2>1. s4 \in Seq(Byte) /\ Len(s4) = Len(s3) + Len(e) /\ Holds(s4, e, Len(s3))
      BY <1>3, HoldsLast
    <2>2. Holds(s4, c, 16) /\ Holds(s4, f, 18) /\ Holds(s4, d, 20)
      BY <1>0, <1>3, HoldsLeft
    <2> HIDE DEF s4
    <2> QED
      BY <1>3, <2>1, <2>2
  <1> HIDE DEF s4
  <1>5. /\ s5 \in Seq(Byte) /\ Len(s5) = 32 /\ Holds(s5, i, 28)
        /\ Holds(s5, c, 16) /\ Holds(s5, f, 18) /\ Holds(s5, d, 20) /\ Holds(s5, e, 24)
    <2>1. s5 \in Seq(Byte) /\ Len(s5) = Len(s4) + Len(i) /\ Holds(s5, i, Len(s4))
      BY <1>4, HoldsLast
    <2>2. Holds(s5, c, 16) /\ Holds(s5, f, 18) /\ Holds(s5, d, 20) /\ Holds(s5, e, 24)
      BY <1>0, <1>4, HoldsLeft
    <2> HIDE DEF s5
    <2> QED
      BY <1>4, <2>1, <2>2
  <1> QED
    BY <1>5 DEF s1, s2, s3, s4

LEMMA HeaderIsPut ==
  ASSUME NEW target \in Address, NEW source \in Address, NEW p \in PacketType
  PROVE  LET h == BuildAmsHeader(target, source, p) IN
         /\ h \in Seq(Byte) /\ Len(h) = 32
         /\ Holds(h, PutUint16(p.command), 16) /\ Holds(h, PutUint16(p.stateFlags), 18)
         /\ Holds(h, PutUint32(p.dataLength), 20) /\ Holds(h, PutUint32(p.errorCode), 24)
         /\ Holds(h, PutUint32(p.invokeID), 28)
  <1> DEFINE a == target \o source
             c == PutUint16(p.command)  f == PutUint16(p.stateFlags)
             d == PutUint32(p.dataLength)  e == PutUint32(p.errorCode)  i == PutUint32(p.invokeID)
  <1>1. a \in Seq(Byte) /\ Len(a) = 16
    <2>1. /\ target \in Seq(Byte) /\ Len(target) = 8
          /\ source \in Seq(Byte) /\ Len(source) = 8
      BY DEF Address
    <2>2. a \in Seq(Byte) /\ Len(a) = Len(target) + Len(source)
      BY <2>1, HoldsLast
    <2> HIDE DEF a
    <2> QED
      BY <2>1, <2>2
  <1>2. /\ p.command \in Nat /\ p.stateFlags \in Nat /\ p.dataLength \in Nat
        /\ p.errorCode \in Nat /\ p.invokeID \in Nat
    BY DEF PacketType
  <1>3. /\ c \in Seq(Byte) /\ Len(c) = 2 /\ f \in Seq(Byte) /\ Len(f) = 2
    <2>1. \A n \in Nat : PutUint16(n) \in Seq(Byte) /\ Len(PutUint16(n)) = 2
      BY ShortIsPut
    <2> QED
      BY <1>2, <2>1
  <1>4. /\ d \in Seq(Byte) /\ Len(d) = 4 /\ e \in Seq(Byte) /\ Len(e) = 4
        /\ i \in Seq(Byte) /\ Len(i) = 4
    <2>1. \A n \in Nat : PutUint32(n) \in Seq(Byte) /\ Len(PutUint32(n)) = 4
      BY LongIsPut
    <2> QED
      BY <1>2, <2>1
  <1>5. BuildAmsHeader(target, source, p) = a \o c \o f \o d \o e \o i
    BY DEF BuildAmsHeader
  <1> HIDE DEF a, c, f, d, e, i
  <1>6. LET h == a \o c \o f \o d \o e \o i IN
        /\ h \in Seq(Byte) /\ Len(h) = 32
        /\ Holds(h, c, 16) /\ Holds(h, f, 18)
        /\ Holds(h, d, 20) /\ Holds(h, e, 24) /\ Holds(h, i, 28)
    BY <1>1, <1>3, <1>4, PartsInPlace
  <1> QED
    BY <1>5, <1>6 DEF c, f, d, e, i

LEMMA PacketIsBuilt ==
  ASSUME NEW target \in Address, NEW source \in Address, NEW p \in PacketType
  PROVE  LET s == BuildPacket(target, source, p) IN
         /\ s \in Seq(Byte) /\ Len(s) = 38 + Len(p.data)
         /\ Holds(s, PutUint32(32 + Len(p.data)), 2)
         /\ Holds(s, PutUint16(p.command), 22) /\ Holds(s, PutUint16(p.stateFlags), 24)
         /\ Holds(s, PutUint32(p.dataLength), 26) /\ Holds(s, PutUint32(p.errorCode), 30)
         /\ Holds(s, PutUint32(p.invokeID), 34)
         /\ Holds(s, p.data, 38)
  <1> DEFINE l == 32 + Len(p.data)
             t == BuildAmsTcpHeader(0, l)  h == BuildAmsHeader(target, source, p)
             m == PutUint32(l)
             c == PutUint16(p.command)  f == PutUint16(p.stateFlags)
             d == PutUint32(p.dataLength)  e == PutUint32(p.errorCode)  i == PutUint32(p.invokeID)
             Within(s) == /\ Holds(s, m, 2) /\ Holds(s, c, 22) /\ Holds(s, f, 24)
                          /\ Holds(s, d, 26) /\ Holds(s, e, 30) /\ Holds(s, i, 34)
  <1>1. /\ p.data \in Seq(Byte) /\ Len(p.data) \in Nat /\ l \in Nat
        /\ p.command \in Nat /\ p.stateFlags \in Nat /\ p.dataLength \in Nat
        /\ p.errorCode \in Nat /\ p.invokeID \in Nat
    BY DEF PacketType
  <1>2. BuildPacket(target, source, p) = (t \o h) \o p.data
    BY DEF BuildPacket, AMSHeaderLength
  <1>3. t \in Seq(Byte) /\ Len(t) = 6 /\ Holds(t, m, 2)
    BY <1>1, TcpHeaderIsPut
  <1>4. /\ h \in Seq(Byte) /\ Len(h) = 32
        /\ Holds(h, c, 16) /\ Holds(h, f, 18)
        /\ Holds(h, d, 20) /\ Holds(h, e, 24) /\ Holds(h, i, 28)
    BY HeaderIsPut
  <1>5. /\ m \in Seq(Byte) /\ c \in Seq(Byte) /\ f \in Seq(Byte)
        /\ d \in Seq(Byte) /\ e \in Seq(Byte) /\ i \in Seq(Byte)
    <2>1. \A n \in Nat : PutUint16(n) \in Seq(Byte)
      BY ShortIsPut
    <2>2. \A n \in Nat : PutUint32(n) \in Seq(Byte)
      BY LongIsPut
    <2> HIDE DEF l
    <2> QED
      BY <1>1, <2>1, <2>2
  <1> HIDE DEF t, h, m, c, f, d, e, i
  <1> DEFINE s == t \o h
  <1>6. s \in Seq(Byte) /\ Len(s) = 38
    <2>1. s \in Seq(Byte) /\ Len(s) = Len(t) + Len(h)
      BY <1>3, <1>4, HoldsLast
    <2> HIDE DEF s
    <2> QED
      BY <1>3, <1>4, <2>1
  <1>7. Within(s)
    <2>1. 2 \in Nat /\ 16 \in Nat /\ 18 \in Nat /\ 20 \in Nat /\ 24 \in Nat /\ 28 \in Nat
      OBVIOUS
    <2>2. Holds(s, m, 2)
      BY <1>3, <1>4, <1>5, <2>1, HoldsLeft
    <2>3. /\ Holds(s, c, Len(t) + 16) /\ Holds(s, f, Len(t) + 18)
      BY <1>3, <1>4, <1>5, <2>1, HoldsRight
    <2>4. /\ Holds(s, d, Len(t) + 20) /\ Holds(s, e, Len(t) + 24) /\ Holds(s, i, Len(t) + 28)
      BY <1>3, <1>4, <1>5, <2>1, HoldsRight
    <2>5. /\ Len(t) + 16 = 22 /\ Len(t) + 18 = 24
          /\ Len(t) + 20 = 26 /\ Len(t) + 24 = 30 /\ Len(t) + 28 = 34
      BY <1>3
    <2> HIDE DEF s
    <2> QED
      BY <2>2, <2>3, <2>4, <2>5
  <1> HIDE DEF s
  <1>8. Within(s \o p.data)
    <2>1. 2 \in Nat /\ 22 \in Nat /\ 24 \in Nat /\ 26 \in Nat /\ 30 \in Nat /\ 34 \in Nat
      OBVIOUS
    <2>2. Holds(s, m, 2) /\ Holds(s, c, 22) /\ Holds(s, f, 24)
      BY <1>7
    <2>3. Holds(s, d, 26) /\ Holds(s, e, 30) /\ Holds(s, i, 34)
      BY <1>7
    <2>4. Holds(s \o p.data, m, 2) /\ Holds(s \o p.data, c, 22) /\ Holds(s \o p.data, f, 24)
      BY <1>1, <1>5, <1>6, <2>1, <2>2, HoldsLeft
    <2>5. Holds(s \o p.data, d, 26) /\ Holds(s \o p.data, e, 30) /\ Holds(s \o p.data, i, 34)
      BY <1>1, <1>5, <1>6, <2>1, <2>3, HoldsLeft
    <2> QED
      BY <2>4, <2>5
  <1>9. /\ s \o p.data \in Seq(Byte) /\ Len(s \o p.data) = 38 + Len(p.data)
        /\ Holds(s \o p.data, p.data, 38)
    <2>1. /\ s \o p.data \in Seq(Byte) /\ Len(s \o p.data) = Len(s) + Len(p.data)
          /\ Holds(s \o p.data, p.data, Len(s))
      BY <1>1, <1>6, HoldsLast
    <2> QED
      BY <1>6, <2>1
  <1>10. BuildPacket(target, source, p) = s \o p.data
    BY <1>2 DEF s
  <1> QED
    BY <1>8, <1>9, <1>10 DEF m, c, f, d, e, i

LEMMA TailOf ==
  ASSUME NEW s \in Seq(Byte), NEW t \in Seq(Byte), NEW k \in Nat,
         Holds(s, t, k), Len(s) = k + Len(t)
  PROVE  SubSeq(s, k + 1, k + Len(t)) = t
  <1> DEFINE u == SubSeq(s, k + 1, k + Len(t))
  <1>1. Len(t) \in Nat
    OBVIOUS
  <1>2. \A j \in k + 1 .. k + Len(t) : s[j] \in Byte
    <2>1. \A j \in k + 1 .. k + Len(t) : j \in 1 .. Len(s)
      BY <1>1
    <2> QED
      BY <2>1
  <1>3. /\ u \in Seq(Byte)
        /\ Len(u) = IF k + 1 <= k + Len(t) THEN (k + Len(t)) - (k + 1) + 1 ELSE 0
        /\ \A j \in 1 .. (k + Len(t)) - (k + 1) + 1 : u[j] = s[(k + 1) + j - 1]
    BY <1>1, <1>2, SubSeqProperties
  <1> HIDE DEF u
  <1>4. Len(u) = Len(t)
    BY <1>1, <1>3
  <1>5. ASSUME NEW j \in 1 .. Len(t)
        PROVE  u[j] = t[j]
    <2>1. j \in 1 .. (k + Len(t)) - (k + 1) + 1 /\ (k + 1) + j - 1 = k + j
      BY <1>1
    <2>2. u[j] = s[k + j]
      BY <1>3, <2>1
    <2> QED
      BY <2>2 DEF Holds
  <1>6. u = t
    BY <1>3, <1>4, <1>5, SeqEqual
  <1> QED
    BY <1>6 DEF u

\* What send builds, processReceiveBuffer's parser reads back (ams-builder and
\* ams-header/parse.go): a packet whose fields fit the headers keeps all of them,
\* and the length in front of it is its own.
THEOREM BuiltIsParsed ==
  ASSUME NEW target \in Address, NEW source \in Address, NEW p \in Fitting,
         Word <= Uint32
  PROVE  LET s == BuildPacket(target, source, p) IN
         /\ ParsePacket(s) = p
         /\ U32(s, 2) = AMSHeaderLength + Len(p.data)
         /\ Len(s) = AMSTCPHeaderLength + U32(s, 2)
  <1> DEFINE s == BuildPacket(target, source, p)
  <1>1. /\ p \in PacketType /\ p.command < 65536 /\ p.stateFlags < 65536
        /\ p.dataLength < Word /\ p.errorCode < Word /\ p.invokeID < Word
        /\ 38 + Len(p.data) < Word
    BY DEF Fitting, MinPacketLength, AMSTCPHeaderLength, AMSHeaderLength
  <1>2. /\ p.command \in Nat /\ p.stateFlags \in Nat /\ p.dataLength \in Nat
        /\ p.errorCode \in Nat /\ p.invokeID \in Nat /\ p.data \in Seq(Byte)
    BY <1>1 DEF PacketType
  <1>2a. p = [command |-> p.command, stateFlags |-> p.stateFlags, dataLength |-> p.dataLength,
              errorCode |-> p.errorCode, invokeID |-> p.invokeID, data |-> p.data]
    BY <1>1 DEF PacketType
  <1>3. Len(p.data) \in Nat /\ 32 + Len(p.data) \in Nat /\ 32 + Len(p.data) < Word /\ Word \in Nat
    BY <1>1, <1>2, Numbers
  <1>4. /\ s \in Seq(Byte) /\ Len(s) = 38 + Len(p.data)
        /\ Holds(s, PutUint32(32 + Len(p.data)), 2)
        /\ Holds(s, PutUint16(p.command), 22) /\ Holds(s, PutUint16(p.stateFlags), 24)
        /\ Holds(s, PutUint32(p.dataLength), 26) /\ Holds(s, PutUint32(p.errorCode), 30)
        /\ Holds(s, PutUint32(p.invokeID), 34)
        /\ Holds(s, p.data, 38)
    BY <1>1, PacketIsBuilt
  <1> HIDE DEF s
  <1>5. ASSUME NEW k \in Nat, NEW n \in Nat, n < 65536, Holds(s, PutUint16(n), k)
        PROVE  U16(s, k) = n
    <2>1. n % 65536 = n
      BY <1>5
    <2> QED
      BY <1>4, <1>5, <2>1, ShortSurvives
  <1>6. ASSUME NEW k \in Nat, NEW n \in Nat, n < Word, Holds(s, PutUint32(n), k)
        PROVE  U32(s, k) = n
    BY <1>4, <1>6, LongSurvives
  <1>7. U32(s, 2) = 32 + Len(p.data)
    <2>1. 2 \in Nat
      OBVIOUS
    <2> QED
      BY <1>3, <1>4, <1>6, <2>1
  <1>8. /\ U16(s, 22) = p.command /\ U16(s, 24) = p.stateFlags
        /\ U32(s, 26) = p.dataLength /\ U32(s, 30) = p.errorCode /\ U32(s, 34) = p.invokeID
    <2>1. 22 \in Nat /\ 24 \in Nat /\ 26 \in Nat /\ 30 \in Nat /\ 34 \in Nat
      OBVIOUS
    <2>2. U16(s, 22) = p.command
      BY <1>1, <1>2, <1>4, <1>5, <2>1
    <2>3. U16(s, 24) = p.stateFlags
      BY <1>1, <1>2, <1>4, <1>5, <2>1
    <2>4. U32(s, 26) = p.dataLength
      BY <1>1, <1>2, <1>4, <1>6, <2>1
    <2>5. U32(s, 30) = p.errorCode
      BY <1>1, <1>2, <1>4, <1>6, <2>1
    <2>6. U32(s, 34) = p.invokeID
      BY <1>1, <1>2, <1>4, <1>6, <2>1
    <2> QED
      BY <2>2, <2>3, <2>4, <2>5, <2>6
  <1>9. SubSeq(s, 39, 6 + U32(s, 2)) = p.data
    <2> DEFINE t == p.data
    <2>1. t \in Seq(Byte) /\ Len(t) \in Nat /\ Holds(s, t, 38) /\ Len(s) = 38 + Len(t)
      BY <1>2, <1>3, <1>4
    <2>2. 38 + 1 = 39 /\ 38 + Len(t) = 6 + U32(s, 2)
      BY <1>3, <1>7
    <2> HIDE DEF t
    <2>3. SubSeq(s, 38 + 1, 38 + Len(t)) = t
      BY <1>4, <2>1, TailOf
    <2> QED
      BY <2>2, <2>3 DEF t
  <1>10. ParsePacket(s) =
           [command |-> U16(s, 22), stateFlags |-> U16(s, 24), dataLength |-> U32(s, 26),
            errorCode |-> U32(s, 30), invokeID |-> U32(s, 34),
            data |-> SubSeq(s, 39, 6 + U32(s, 2))]
    BY <1>3, <1>4 DEF ParsePacket, MinPacketLength, AMSTCPHeaderLength, AMSHeaderLength
  <1>11. ParsePacket(s) = p
    BY <1>8, <1>9, <1>10, <1>2a
  <1> QED
    BY <1>3, <1>4, <1>7, <1>11 DEF s, AMSHeaderLength, AMSTCPHeaderLength

\* The router builds its packets as send does.
AllAreBuilt ==
  \A i \in 1 .. Len(Sent) :
    /\ Sent[i] \in Fitting
    /\ \E target, source \in Address :
         Bytes(Start[i], Start[i + 1]) = BuildPacket(target, source, Sent[i])

LEMMA BuiltAreAmsPackets ==
  ASSUME AllAreBuilt, Word <= Uint32
  PROVE  AllAreAmsPackets
  <1> SUFFICES ASSUME NEW i \in 1 .. Len(Sent)
               PROVE  LengthAt(Start[i]) >= AMSHeaderLength
    BY DEF AllAreAmsPackets
  <1> DEFINE s == Bytes(Start[i], Start[i + 1])
  <1>1. PICK target \in Address, source \in Address : s = BuildPacket(target, source, Sent[i])
    BY DEF AllAreBuilt
  <1>2. Sent[i] \in Fitting /\ Len(Sent[i].data) \in Nat
    BY DEF AllAreBuilt, Fitting, PacketType
  <1>3. U32(s, 2) = 32 + Len(Sent[i].data) /\ Len(s) = 6 + U32(s, 2)
    BY <1>1, <1>2, BuiltIsParsed DEF AMSHeaderLength, AMSTCPHeaderLength
  <1>4. /\ Start[i] \in Nat /\ Start[i + 1] \in Nat /\ Start[i + 1] <= Len(Stream)
        /\ Start[i] <= Start[i + 1]
    <2>1. i \in 1 .. Len(Sent) + 1 /\ i + 1 \in 1 .. Len(Sent) + 1
      BY Numbers
    <2>2. Start[i] \in 0 .. Len(Stream) /\ Start[i + 1] \in 0 .. Len(Stream)
      <3>1. DOMAIN Start = 1 .. Len(Sent) + 1 /\ \A j \in DOMAIN Start : Start[j] \in 0 .. Len(Stream)
        BY StreamAssumption
      <3> QED
        BY <2>1, <3>1
    <2>3. Start[i + 1] = Start[i] + TotalAt(Start[i]) /\ TotalAt(Start[i]) \in Nat
      BY TotalIsTheFrame DEF AMSTCPHeaderLength
    <2> QED
      BY <2>1, <2>2, <2>3, Numbers
  <1>5. LengthAt(Start[i]) = U32(s, 2)
    <2>1. Len(s) >= 6
      BY <1>2, <1>3
    <2> DEFINE a == Start[i]  b == Start[i + 1]
    <2>2. a \in Nat /\ b \in Nat /\ a <= b /\ b <= Len(Stream) /\ Len(Bytes(a, b)) >= 6
      BY <1>4, <2>1
    <2> HIDE DEF a, b
    <2>3. LengthAt(a) = U32(Bytes(a, b), 2)
      BY <2>2, LengthIsFirst
    <2> QED
      BY <2>3 DEF a, b
  <1> HIDE DEF s
  <1> QED
    BY <1>2, <1>3, <1>5 DEF AMSHeaderLength

\* So from a router that builds its packets as send does, whatever they are and
\* however TCP cuts them, receiveBuffer never holds a whole packet back.
THEOREM NothingBuiltIsHeldBack ==
  AllAreBuilt /\ Word <= Uint32 => (Spec => []NothingHeldBack)
  BY BuiltAreAmsPackets, NothingIsHeldBack
=============================================================================
