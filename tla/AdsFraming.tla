----------------------------- MODULE AdsFraming -----------------------------
(***************************************************************************)
(* How the ads-go client cuts the byte stream of the router into packets:   *)
(* registerAdsPort (client_connect.go), which reads the router's answer      *)
(* straight from the connection, then the receive goroutine, which reads     *)
(* chunks into receiveBuffer and takes whole packets out (client_buffer.go,  *)
(* ams-header).  The other direction, the packets that send builds           *)
(* (ams-builder), has the same layout.                                      *)
(*                                                                          *)
(* The bytes the router sends are fixed, the constant Stream; TCP delivers    *)
(* them in order and cut at any place.  Offsets count from 0, as in the code. *)
(***************************************************************************)
EXTENDS Integers, Sequences

CONSTANTS
  Stream,  \* what the router sends: the answer to the registration, packets
  Start,   \* Start[i]: the offset of packet i; the last entry is the end
  Sent,    \* Sent[i]: what packet i says
  Chunk,   \* the size of tempBuf, 4096 in the code
  Word     \* what a uint32 wraps at, 2^32 in the code

AMSTCPHeaderLength == 6
AMSHeaderLength == 32
MinPacketLength == AMSTCPHeaderLength + AMSHeaderLength
AnswerLength == 8

ASSUME StreamAssumption ==
  /\ Stream \in Seq(0 .. 255)
  /\ Sent \in Seq([command : Nat, stateFlags : Nat, dataLength : Nat, errorCode : Nat,
                   invokeID : Nat, data : Seq(0 .. 255)])
  /\ DOMAIN Start = 1 .. Len(Sent) + 1
  /\ \A i \in DOMAIN Start : Start[i] \in 0 .. Len(Stream)
  /\ Start[1] = AMSTCPHeaderLength + AnswerLength
  /\ Start[Len(Sent) + 1] = Len(Stream)
  /\ Chunk \in Nat \ {0}
  /\ Word \in Nat \ {0}

VARIABLES
  mode,   \* where registerAdsPort or the receive goroutine is
  read,   \* how many bytes have been read from the connection
  head,   \* respAmsTcpHeader
  local,  \* Client.localAmsAddr as it came: the NetID's bytes and the port's
  begun,  \* the offset at which the receive goroutine began
  taken,  \* the offset up to which packets have been taken out of receiveBuffer
  out     \* the packets handed to handleNotification or to calls

vars == <<mode, read, head, local, begun, taken, out>>

-----------------------------------------------------------------------------
(* Numbers and headers.                                                    *)

U16(s, k) == s[k + 1] + 256 * s[k + 2]
U32(s, k) == (U16(s, k) + 65536 * U16(s, k + 2)) % Word
PutUint16(n) == <<n % 256, (n \div 256) % 256>>
PutUint32(n) == PutUint16(n) \o PutUint16(n \div 65536)

\* The first Len(s) bytes of a buffer of n zeroes are overwritten with s.
Padded(s, n) == [k \in 1 .. n |-> IF k <= Len(s) THEN s[k] ELSE 0]

BuildAmsTcpHeader(command, dataLength) == PutUint16(command) \o PutUint32(dataLength)

\* An address is its eight bytes: six of the NetID and two of the port.
BuildAmsHeader(target, source, p) ==
  target \o source \o PutUint16(p.command) \o PutUint16(p.stateFlags)
    \o PutUint32(p.dataLength) \o PutUint32(p.errorCode) \o PutUint32(p.invokeID)

\* send, and likewise the router: both headers, then the data.
BuildPacket(target, source, p) ==
  BuildAmsTcpHeader(0, AMSHeaderLength + Len(p.data)) \o BuildAmsHeader(target, source, p)
    \o p.data

\* The AmsPacket{} of parseAmsPacket when ParsePacket fails.
NoPacket ==
  [command |-> 0, stateFlags |-> 0, dataLength |-> 0, errorCode |-> 0, invokeID |-> 0,
   data |-> <<>>]

\* ParsePacket, after both of its length checks; the data ends where the
\* AMS/TCP header says, whatever dataLength says.
ParsePacket(s) ==
  IF Len(s) < MinPacketLength THEN NoPacket
  ELSE [command    |-> U16(s, 22),
        stateFlags |-> U16(s, 24),
        dataLength |-> U32(s, 26),
        errorCode  |-> U32(s, 30),
        invokeID   |-> U32(s, 34),
        data       |-> SubSeq(s, MinPacketLength + 1, AMSTCPHeaderLength + U32(s, 2))]

-----------------------------------------------------------------------------
(* receiveBuffer holds the bytes from taken to read.                       *)

Bytes(from, to) == SubSeq(Stream, from + 1, to)
Buffered == read - taken
LengthAt(k) == U32(Stream, k + 2)
TotalAt(k) == (AMSTCPHeaderLength + LengthAt(k)) % Word

\* Faulty: waits for one byte more than the packet has.
CheckTCPPacketLength_OneMore ==
  /\ Buffered >= AMSTCPHeaderLength
  /\ LengthAt(taken) >= AMSHeaderLength
  /\ Buffered > TotalAt(taken)

\* Does CheckTCPPacketLength return a length?  It returns an error for missing
\* bytes and for a length that is less than that of an AMS header.
CheckTCPPacketLength ==
  /\ Buffered >= AMSTCPHeaderLength
  /\ LengthAt(taken) >= AMSHeaderLength
  /\ Buffered >= TotalAt(taken)

\* The frames of Stream lie end to end, each with its own length in its header,
\* and hold the packets of Sent.
ASSUME FramesAssumption ==
  \A i \in 1 .. Len(Sent) :
    /\ LengthAt(Start[i]) \in Nat
    /\ Start[i + 1] = Start[i] + AMSTCPHeaderLength + LengthAt(Start[i])
    /\ AMSTCPHeaderLength + LengthAt(Start[i]) < Word
    /\ ParsePacket(Bytes(Start[i], Start[i + 1])) = Sent[i]

-----------------------------------------------------------------------------

TypeOK ==
  /\ mode \in {"header", "answer", "reading", "processing", "panicked"}
  /\ read \in 0 .. Len(Stream)
  /\ head \in Seq(0 .. 255)
  /\ local \in Seq(0 .. 255)
  /\ begun \in 0 .. Len(Stream)
  /\ taken \in 0 .. Len(Stream)
  /\ out \in Seq([command : Nat, stateFlags : Nat, dataLength : Nat, errorCode : Nat,
                  invokeID : Nat, data : Seq(0 .. 255)])

Init ==
  /\ mode = "header"
  /\ read = 0
  /\ head = <<>>
  /\ local = <<>>
  /\ begun = 0
  /\ taken = 0
  /\ out = <<>>

-----------------------------------------------------------------------------
(* registerAdsPort: two plain Reads, each of which may return less than the  *)
(* buffer holds.                                                           *)

ReadHeader(n) ==
  /\ mode = "header"
  /\ n \in 1 .. AMSTCPHeaderLength
  /\ head' = Padded(Bytes(0, n), AMSTCPHeaderLength)
  /\ read' = n
  /\ mode' = "answer"
  /\ UNCHANGED <<local, begun, taken, out>>

\* The local address is set, and Connect starts the receive goroutine.
ReadAnswer(n) ==
  /\ mode = "answer"
  /\ U32(head, 2) >= AnswerLength
  /\ n \in 1 .. U32(head, 2)
  /\ read + n <= Len(Stream)
  /\ local' = SubSeq(Padded(Bytes(read, read + n), U32(head, 2)), 1, AnswerLength)
  /\ read' = read + n
  /\ begun' = read'
  /\ taken' = read'
  /\ mode' = "reading"
  /\ UNCHANGED <<head, out>>

\* The length came out as less than eight: respData[0:6] is out of range.
AnswerTooShort ==
  /\ mode = "answer"
  /\ U32(head, 2) < AnswerLength
  /\ mode' = "panicked"
  /\ UNCHANGED <<read, head, local, begun, taken, out>>

-----------------------------------------------------------------------------
(* receive and processReceiveBuffer.                                       *)

\* Faulty: all of tempBuf is written to receiveBuffer, not its first n bytes.
Read_WholeBuffer(n) ==
  /\ mode = "reading"
  /\ n \in 1 .. Chunk
  /\ read + n <= Len(Stream)
  /\ read' = read + Chunk
  /\ mode' = "processing"
  /\ UNCHANGED <<head, local, begun, taken, out>>

\* conn.Read returns n bytes.
Read(n) ==
  /\ mode = "reading"
  /\ n \in 1 .. Chunk
  /\ read + n <= Len(Stream)
  /\ read' = read + n
  /\ mode' = "processing"
  /\ UNCHANGED <<head, local, begun, taken, out>>

\* Faulty: everything that is buffered is taken out as one packet.
TakePacket_Everything ==
  /\ mode = "processing"
  /\ CheckTCPPacketLength
  /\ out' = Append(out, ParsePacket(Bytes(taken, taken + TotalAt(taken))))
  /\ taken' = read
  /\ UNCHANGED <<mode, read, head, local, begun>>

TakePacket ==
  /\ mode = "processing"
  /\ CheckTCPPacketLength
  /\ out' = Append(out, ParsePacket(Bytes(taken, taken + TotalAt(taken))))
  /\ taken' = taken + TotalAt(taken)
  /\ UNCHANGED <<mode, read, head, local, begun>>

\* An error of CheckTCPPacketLength, any error, ends processReceiveBuffer.
NoFullPacket ==
  /\ mode = "processing"
  /\ ~CheckTCPPacketLength
  /\ mode' = "reading"
  /\ UNCHANGED <<read, head, local, begun, taken, out>>

Register ==
  \/ \E n \in 1 .. AMSTCPHeaderLength : ReadHeader(n)
  \/ \E n \in 1 .. Len(Stream) : ReadAnswer(n)
  \/ AnswerTooShort

Receive ==
  \/ \E n \in 1 .. Chunk : Read(n)
  \/ TakePacket
  \/ NoFullPacket

Next == Register \/ Receive

Spec == Init /\ [][Next]_vars

-----------------------------------------------------------------------------
(* Properties.                                                             *)

\* The receive goroutine begins where the first packet does: neither Read of
\* registerAdsPort came back short.
InStep == mode \in {"reading", "processing"} /\ begun = Start[1]

\* What ParsePacket sees is what was sent: however the stream is cut, the
\* packets come out whole, in order and with the fields they were built with
\* (client_buffer.go:69-90, ams-header/parse.go:51-97).
OutIsSent == InStep => Len(out) <= Len(Sent) /\ out = SubSeq(Sent, 1, Len(out))

\* "return // Not enough data for full packet" (client_buffer.go:74): when the
\* goroutine goes back to Read, the buffer holds no whole packet: what the router
\* has sent is out as soon as its last byte has been read.
NothingHeldBack ==
  InStep /\ mode = "reading" /\ Len(out) < Len(Sent) => read < Start[Len(out) + 2]
=============================================================================
