------------------------------ MODULE AdsSymbols ----------------------------
(***************************************************************************)
(* Symbol information as it comes from the PLC (ads-symbol/parse.go): one    *)
(* entry, as GetSymbol asks for it, and the blob of entries that             *)
(* UploadSymbols steps through (client_symbols.go).                         *)
(*                                                                          *)
(* A buffer is a sequence of bytes.  A number of w bytes is its value in the  *)
(* first of them and zeroes in the others, so widths and places are those of  *)
(* the code and digits are not spelt out; the flags are a set in the first    *)
(* byte of their field.  A text is a sequence of non-zero bytes.             *)
(*                                                                          *)
(* The code keeps the four bytes at offset 20 of a symbol as one uint32, its   *)
(* Flags: here they are the two numbers they consist of, the flags proper in   *)
(* the low half and arrayDimension (parse.go:113) in the high half.            *)
(***************************************************************************)
EXTENDS Integers, Sequences, SequencesExt

Zeroes(n) == [k \in 1 .. n |-> 0]
Le(n, w) == <<n>> \o Zeroes(w - 1)
Text(s) == Append(s, 0)
Concat(Encode(_), seq) == FlattenSeq([k \in DOMAIN seq |-> Encode(seq[k])])

-----------------------------------------------------------------------------
(* Reading from a buffer: a reader holds the rest of it, whether every read   *)
(* so far succeeded, and the fields found.                                  *)

Reader(data, fields) == [rest |-> data, ok |-> TRUE, t |-> fields]
Failed(r) == [r EXCEPT !.ok = FALSE]
Drop(s, n) == SubSeq(s, n + 1, Len(s))
Padded(s, n) == [k \in 1 .. n |-> IF k <= Len(s) THEN s[k] ELSE 0]

\* binary.Read: all n bytes, or an error.
Has(r, n) == r.ok /\ Len(r.rest) >= n
Skip(r, n) == IF Has(r, n) THEN [r EXCEPT !.rest = Drop(@, n)] ELSE Failed(r)

\* bytes.Reader.Read: what there is, an error only when there is nothing.
SkipSome(r, n) ==
  IF r.ok /\ r.rest # <<>> THEN [r EXCEPT !.rest = Drop(@, n)] ELSE Failed(r)

\* n times Op, as long as it succeeds.
Times(r, n, Op(_)) ==
  LET f[k \in 0 .. n] == IF k = 0 THEN r ELSE LET q == f[k - 1] IN IF q.ok THEN Op(q) ELSE q
  IN f[n]

\* A pair of texts behind their two lengths of one byte each, in the buffer s.
PairName(s) == Padded(Drop(s, 2), s[1])
PairValue(s) == Padded(Drop(s, s[1] + 3), s[2])
PairLength(s) == s[1] + s[2] + 4
PairThere(s) == Len(s) >= 2 /\ Len(s) > s[1] + 3

Pair(p) == Le(Len(p.name), 1) \o Le(Len(p.value), 1) \o Text(p.name) \o Text(p.value)
Dimension(d) == Le(d.start, 4) \o Le(d.length, 4)

-----------------------------------------------------------------------------
(* One symbol.                                                             *)

SymbolHeaderLength == 30

\* The entry of a symbol, as the PLC lays it out: behind its length the numbers
\* of the header, the texts, and what not every symbol has.
SymbolNumbers(s) ==
  Le(s.indexGroup, 4) \o Le(s.indexOffset, 4) \o Le(s.size, 4) \o Le(s.dataType, 4)
    \o Le(s.flags, 2) \o Le(Len(s.arrayInfo), 2) \o Le(Len(s.name), 2) \o Le(Len(s.type), 2)
    \o Le(Len(s.comment), 2)

SymbolTexts(s) == Text(s.name) \o Text(s.type) \o Text(s.comment)

SymbolExtras(s) ==
  Concat(Dimension, s.arrayInfo)
    \o (IF "TypeGuid" \in s.flags THEN s.typeGuid ELSE <<>>)
    \o (IF "Attributes" \in s.flags
        THEN Le(Len(s.attributes), 2) \o Concat(Pair, s.attributes) ELSE <<>>)

EncodeSymbol(s) ==
  LET body == SymbolNumbers(s) \o SymbolTexts(s) \o SymbolExtras(s)
  IN Le(Len(body) + 4, 4) \o body

NoSymbol == [ok |-> FALSE]

\* DecodePlcStringBuffer: up to the first zero byte.
DecodePlcStringBuffer(s) ==
  LET zeroes == {k \in DOMAIN s : s[k] = 0}
  IN IF zeroes = {} THEN s ELSE SubSeq(s, 1, Min(zeroes) - 1)

\* The fields of the header, at their places, and what is found behind it.
Header(data) ==
  [indexGroup |-> data[5], indexOffset |-> data[9], size |-> data[13], dataType |-> data[17],
   flags |-> data[21], arrayDimension |-> data[23], nameLength |-> data[25],
   typeLength |-> data[27], commentLength |-> data[29],
   name |-> <<>>, type |-> <<>>, comment |-> <<>>, arrayInfo |-> <<>>, typeGuid |-> <<>>,
   attributes |-> <<>>]

\* The three texts behind the header, none of them read past the buffer.
ReadTexts(r) ==
  LET n == r.t.nameLength + 1
      t == r.t.typeLength + 1
      c == r.t.commentLength + 1
  IN IF ~Has(r, n + t + c) THEN Failed(r)
     ELSE [r EXCEPT !.t.name = DecodePlcStringBuffer(SubSeq(r.rest, 1, n)),
                    !.t.type = DecodePlcStringBuffer(SubSeq(r.rest, n + 1, n + t)),
                    !.t.comment = DecodePlcStringBuffer(SubSeq(r.rest, n + t + 1, n + t + c)),
                    !.rest = Drop(@, n + t + c)]

\* As many array dimensions as there are bytes for; nothing here is an error.
ReadDimensions(r) ==
  LET n == Min({r.t.arrayDimension, Len(r.rest) \div 8})
  IN [r EXCEPT
        !.t.arrayInfo = [k \in 1 .. n |->
                           [start |-> r.rest[8 * k - 7], length |-> r.rest[8 * k - 3]]],
        !.rest = Drop(@, 8 * r.t.arrayDimension)]

ReadTypeGuid(r) ==
  IF "TypeGuid" \in r.t.flags /\ r.rest # <<>>
  THEN [r EXCEPT !.t.typeGuid = Padded(r.rest, 16), !.rest = Drop(@, 16)]
  ELSE r

ReadAttribute(r) ==
  IF ~PairThere(r.rest) THEN r
  ELSE [r EXCEPT !.t.attributes = Append(@, [name |-> DecodePlcStringBuffer(PairName(r.rest)),
                                             value |-> DecodePlcStringBuffer(PairValue(r.rest))]),
                 !.rest = Drop(@, PairLength(r.rest))]

ReadAttributes(r) ==
  IF "Attributes" \in r.t.flags /\ Len(r.rest) >= 2
  THEN Times(Skip(r, 2), Head(r.rest), ReadAttribute)
  ELSE r

\* Faulty: the attributes are read before the type GUID that comes first.
ParseSymbol_GuidLast(data) ==
  LET texts == ReadTexts(Reader(Drop(data, SymbolHeaderLength), Header(data)))
  IN IF Len(data) < SymbolHeaderLength \/ ~texts.ok THEN NoSymbol
     ELSE [ok |-> TRUE, symbol |-> ReadTypeGuid(ReadAttributes(ReadDimensions(texts))).t]

\* With 30 bytes there, no read of the header fails.
ParseSymbol(data) ==
  LET texts == ReadTexts(Reader(Drop(data, SymbolHeaderLength), Header(data)))
  IN IF Len(data) < SymbolHeaderLength \/ ~texts.ok THEN NoSymbol
     ELSE [ok |-> TRUE, symbol |-> ReadAttributes(ReadTypeGuid(ReadDimensions(texts))).t]

\* CheckSymbol does not count the zero byte behind the comment.
CheckSymbol(data) ==
  /\ Len(data) >= SymbolHeaderLength
  /\ Len(data) >= SymbolHeaderLength + data[25] + 1 + data[27] + 1 + data[29]

-----------------------------------------------------------------------------
(* The symbol table.                                                       *)

EncodeTable(symbols) == Concat(EncodeSymbol, symbols)

\* Faulty: an entry that does not fit into the blob is parsed all the same.
UploadFrom_Cut(blob) ==
  LET f[pos \in 0 .. Len(blob)] ==
        LET end == Min({pos + blob[pos + 1], Len(blob)})
            entry == ParseSymbol(SubSeq(blob, pos + 1, end))
        IN IF pos + 4 > Len(blob) \/ end \notin pos + 1 .. Len(blob) THEN <<>>
           ELSE (IF entry.ok THEN <<entry.symbol>> ELSE <<>>) \o f[end]
  IN f[0]

\* The loop of UploadSymbols over the blob it was given, from pos on: it ends where
\* an entry has no length, or a length that leads out of the blob.
UploadFrom(blob) ==
  LET f[pos \in 0 .. Len(blob)] ==
        LET end == pos + blob[pos + 1]
            entry == ParseSymbol(SubSeq(blob, pos + 1, end))
        IN IF pos + 4 > Len(blob) \/ end \notin pos + 1 .. Len(blob) THEN <<>>
           ELSE (IF entry.ok THEN <<entry.symbol>> ELSE <<>>) \o f[end]
  IN f[0]
=============================================================================
