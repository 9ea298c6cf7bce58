---------------------------- MODULE AdsFramingMC ----------------------------
(* The stream for the run of AdsFraming: a response, a notification without *)
(* data and a response with an error.                                       *)
EXTENDS AdsFraming, SequencesExt

Client == <<5, 1, 2, 3, 1, 1, 17, 127>>
Device == <<5, 9, 8, 7, 1, 1, 83, 3>>

Packet(command, error, id, data) ==
  [command |-> command, stateFlags |-> 5, dataLength |-> Len(data), errorCode |-> error,
   invokeID |-> id, data |-> data]

MCSent == << Packet(2, 0, 258, <<7, 0, 0>>), Packet(8, 0, 0, <<>>), Packet(3, 6, 259, <<1>>) >>
Built == [i \in DOMAIN MCSent |-> BuildPacket(Client, Device, MCSent[i])]

Answer == BuildAmsTcpHeader(4096, AnswerLength) \o Client

StartOf(frames) ==
  [i \in 1 .. Len(frames) + 1 |->
     Len(Answer) + FoldLeft(LAMBDA n, f : n + Len(f), 0, SubSeq(frames, 1, i - 1))]

MCStream == Answer \o FlattenSeq(Built)
MCStart == StartOf(Built)
=============================================================================
