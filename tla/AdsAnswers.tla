------------------------------ MODULE AdsAnswers -----------------------------
(***************************************************************************)
(* What the client makes of the PLC's answers about symbols, of notification   *)
(* packets, and of the symbol table that it uploads in two requests while a     *)
(* download may replace it.                                                 *)
(*                                                                          *)
(* The PLC is external: its bytes are the encodings of what CONSTANTS give.    *)
(***************************************************************************)
EXTENDS AdsSymbols

CONSTANTS
  Symbols,       \* the symbols there are
  Tables,        \* the symbol tables of the programs, the one at the start first
  Notifications, \* payloads of notification packets
  MaxDownloads   \* bound: downloads that replace the symbol table

Texts == Seq(Nat \ {0})
Pairs == [name : Texts, value : Texts]
Dimensions == [start : Int, length : Nat]
Samples == [handle : Nat, payload : Seq(Nat)]
Stamps == [time : Nat, samples : Seq(Samples)]

\* A type GUID is kept as the 16 bytes it is.
ASSUME SymbolsAssumption ==
  Symbols \subseteq
    [indexGroup : Nat, indexOffset : Nat, size : Nat, dataType : STRING,
     flags : SUBSET STRING, arrayInfo : Seq(Dimensions),
     name : Texts, type : Texts, comment : Texts,
     typeGuid : [1 .. 16 -> Nat], attributes : Seq(Pairs)]
ASSUME TablesAssumption == Tables \in Seq(Seq(Symbols)) /\ Tables # <<>>
ASSUME NotificationsAssumption == Notifications \subseteq Seq(Stamps)
ASSUME MaxDownloadsAssumption == MaxDownloads \in Nat

VARIABLES
  asked,     \* what the client asked for, and what it parsed from the answer
  table,     \* the PLC's symbols
  downloads, \* how often they were replaced
  info       \* UploadSymbols: the size that UploadInfo gave

uploadVars == <<table, downloads, info>>
answerVars == <<asked, uploadVars>>

-----------------------------------------------------------------------------
(* parseNotification: stamps, and samples in each.                          *)

EncodeSample(s) == Le(s.handle, 4) \o Le(Len(s.payload), 4) \o s.payload
EncodeStamp(s) == Le(s.time, 8) \o Le(Len(s.samples), 4) \o Concat(EncodeSample, s.samples)
Notification(stamps) ==
  LET body == Le(Len(stamps), 4) \o Concat(EncodeStamp, stamps)
  IN Le(Len(body), 4) \o body

parseSample(q) ==
  IF ~Has(q, 8) THEN Failed(q)
  ELSE LET n == q.rest[5] IN
       SkipSome([Skip(q, 8) EXCEPT !.t = Append(@, [handle |-> q.rest[1],
                   payload |-> Padded(Drop(q.rest, 8), n)])], n)

\* Faulty: the samples of a stamp after its first are left where they are.
parseStamp_OneSample(q) ==
  IF ~Has(q, 12) THEN Failed(q)
  ELSE LET r == Times([Skip(q, 12) EXCEPT !.t = <<>>], Min({1, q.rest[9]}), parseSample)
       IN [r EXCEPT !.t = Append(q.t, [time |-> q.rest[1], samples |-> r.t])]

parseStamp(q) ==
  IF ~Has(q, 12) THEN Failed(q)
  ELSE LET r == Times([Skip(q, 12) EXCEPT !.t = <<>>], q.rest[9], parseSample)
       IN [r EXCEPT !.t = Append(q.t, [time |-> q.rest[1], samples |-> r.t])]

parseNotification(data) ==
  LET r == Reader(data, <<>>) IN
  IF Has(r, 8) THEN Times(Skip(r, 8), data[5], parseStamp) ELSE Failed(r)

-----------------------------------------------------------------------------

NothingAsked == [kind |-> "nothing"]
NoInfo == [size |-> 0, count |-> 0, of |-> 0]

AnswersInit ==
  /\ asked = NothingAsked
  /\ table = Tables[1]
  /\ downloads = 0
  /\ info = NoInfo

Fresh == asked = NothingAsked /\ info = NoInfo /\ downloads = 0

\* GetSymbol, of whose answer n bytes arrive.
GetSymbol(s, n) ==
  /\ Fresh
  /\ LET data == SubSeq(EncodeSymbol(s), 1, n) IN
     asked' = [kind |-> "symbol", what |-> s, cut |-> n < Len(EncodeSymbol(s)),
               valid |-> CheckSymbol(data), parsed |-> ParseSymbol(data)]
  /\ UNCHANGED uploadVars

Notified(n) ==
  /\ Fresh
  /\ asked' = [kind |-> "notification", what |-> n, parsed |-> parseNotification(Notification(n))]
  /\ UNCHANGED uploadVars

-----------------------------------------------------------------------------
(* UploadSymbols.                                                          *)

Blob == EncodeTable(table)

UploadInfo ==
  /\ asked = NothingAsked /\ info = NoInfo
  /\ info' = [size |-> Len(Blob), count |-> Len(table), of |-> downloads]
  /\ UNCHANGED <<asked, table, downloads>>

\* A new program, with other symbols.
Download ==
  /\ downloads < MaxDownloads
  /\ asked = NothingAsked
  /\ table' \in Range(Tables) \ {table}
  /\ downloads' = downloads + 1
  /\ UNCHANGED <<asked, info>>

\* The PLC gives as much of the table as was asked for.
UploadSymbols ==
  /\ asked = NothingAsked /\ info # NoInfo
  /\ asked' = [kind |-> "upload", what |-> table,
               parsed |-> UploadFrom(SubSeq(Blob, 1, Min({info.size, Len(Blob)})))]
  /\ UNCHANGED uploadVars

-----------------------------------------------------------------------------

AnswersNext ==
  \/ \E s \in Symbols : \E n \in 0 .. Len(EncodeSymbol(s)) : GetSymbol(s, n)
  \/ \E n \in Notifications : Notified(n)
  \/ UploadInfo
  \/ Download
  \/ UploadSymbols

AnswersSpec == AnswersInit /\ [][AnswersNext]_answerVars

-----------------------------------------------------------------------------
(* Properties.                                                             *)

\* ParseSymbol recovers a symbol; of an answer that was cut it makes none, or one
\* with the right texts and address and both halves of Flags; CheckSymbol refuses
\* no data that ParseSymbol takes (ads-symbol/parse.go:37-189).
SymbolsParsed ==
  asked.kind = "symbol" =>
    LET s == asked.what
        p == asked.parsed.symbol
    IN /\ asked.parsed.ok =>
            /\ asked.valid
            /\ p.name = s.name /\ p.type = s.type /\ p.comment = s.comment
            /\ p.indexGroup = s.indexGroup /\ p.indexOffset = s.indexOffset
            /\ p.size = s.size /\ p.dataType = s.dataType
            /\ p.flags = s.flags /\ p.arrayDimension = Len(s.arrayInfo)
       /\ ~asked.cut =>
            /\ asked.parsed.ok
            /\ p.arrayInfo = s.arrayInfo
            /\ p.typeGuid = IF "TypeGuid" \in s.flags THEN s.typeGuid ELSE <<>>
            /\ p.attributes = IF "Attributes" \in s.flags THEN s.attributes ELSE <<>>

\* Every sample of every stamp comes out with its own handle and payload. A
\* payload of no bytes at the very end makes the whole packet fail, and with it
\* the samples before it (client_subscriptions.go:250-311).
SamplesParsed ==
  asked.kind = "notification" =>
    \/ /\ asked.parsed.ok
       /\ asked.parsed.t = asked.what
    \/ /\ ~asked.parsed.ok
       /\ Last(Last(asked.what).samples).payload = <<>>

\* UploadSymbols gives the symbols of the table as it is, all of them if no
\* download came between its two requests, else the first of them
\* (client_symbols.go:59-87).
UploadIsPrefix ==
  asked.kind = "upload" =>
    LET all == [k \in DOMAIN asked.what |-> ParseSymbol(EncodeSymbol(asked.what[k])).symbol]
    IN /\ IsPrefix(asked.parsed, all)
       /\ info.of = downloads => asked.parsed = all

\* What the client makes of an answer is what the PLC said in it.
AnswersParsed == SymbolsParsed /\ SamplesParsed /\ UploadIsPrefix
=============================================================================
