------------------------------- MODULE AdsTypes -----------------------------
(***************************************************************************)
(* Data types: the parser of a declaration (ads-datatype/parse.go) and the   *)
(* building of a complete type from declarations, which the client asks the  *)
(* PLC for one by one (client_data_types.go).  Buffers are those of           *)
(* AdsSymbols.                                                             *)
(***************************************************************************)
EXTENDS AdsSymbols

CONSTANT Table  \* the PLC's declarations, by name

-----------------------------------------------------------------------------
(* The layout of a declaration.                                            *)

TypeHeader ==
  << <<"dataLen", 4>>, <<"version", 4>>, <<"hashValue", 4>>, <<"typeHash", 4>>, <<"size", 4>>,
     <<"offset", 4>>, <<"dataType", 4>>, <<"flags", 4>>, <<"nameLen", 2>>, <<"typeLen", 2>>,
     <<"commentLen", 2>>, <<"arrayDim", 2>>, <<"numSubItems", 2>> >>

\* What the parser keeps.
TypeFields ==
  {"version", "hashValue", "typeHash", "size", "offset", "dataType", "flags", "arrayDim",
   "name", "type", "comment", "arrayInfo", "subItems", "guid", "attributes", "enumInfo",
   "extendedFlags"}
Keep(t) == [f \in TypeFields |-> t[f]]

EncodeMethod(length) == Le(length, 4) \o Zeroes(length - 4)

EncodeEnum(e, size) == Le(Len(e.name), 1) \o Text(e.name) \o Le(e.value, size)

EncodeEnumExtras(e) ==
  LET body == Le(Len(e.comment), 1) \o Le(Len(e.attributes), 1) \o Text(e.comment)
                \o Concat(Pair, e.attributes)
  IN Le(Len(body) + 2, 2) \o body

\* The optional parts, each there when its flag is.
EncodeOptional(t) ==
  LET Part(flag, bytes) == IF flag \in t.flags THEN bytes ELSE <<>> IN
  Part("TypeGuid", t.guid)
    \o Part("CopyMask", Zeroes(t.size))
    \o Part("MethodInfos", Le(Len(t.methods), 2) \o Concat(EncodeMethod, t.methods))
    \o Part("Attributes", Le(Len(t.attributes), 2) \o Concat(Pair, t.attributes))
    \o Part("EnumInfos", Le(Len(t.enumInfo), 2)
              \o Concat(LAMBDA e : EncodeEnum(e, t.size), t.enumInfo))
    \o Part("ExtendedFlags", Le(t.extendedFlags, 4))
    \o Part("DeRefTypeItem", Le(t.derefs, 2) \o Zeroes(16 * t.derefs))
    \o (IF "EnumInfos" \in t.flags
        THEN Part("ExtendedEnumInfos", Concat(EncodeEnumExtras, t.enumInfo)) ELSE <<>>)

RECURSIVE EncodeType(_)
\* A declaration as the PLC sends it, its sub-items within.
EncodeType(t) ==
  LET body ==
        Le(t.version, 4) \o Le(t.hashValue, 4) \o Le(t.typeHash, 4) \o Le(t.size, 4)
          \o Le(t.offset, 4) \o Le(t.dataType, 4) \o Le(t.flags, 4) \o Le(Len(t.name), 2)
          \o Le(Len(t.type), 2) \o Le(Len(t.comment), 2) \o Le(Len(t.arrayInfo), 2)
          \o Le(Len(t.subItems), 2) \o Text(t.name) \o Text(t.type) \o Text(t.comment)
          \o Concat(Dimension, t.arrayInfo) \o Concat(EncodeType, t.subItems)
          \o EncodeOptional(t)
  IN Le(Len(body) + 4, 4) \o body

RECURSIVE Parsed(_)
\* What parsing is to recover: parts without a flag come out empty, and method
\* tables, copy masks and dereferenced types are skipped.
Parsed(t) ==
  LET Part(flag, value, none) == IF flag \in t.flags THEN value ELSE none
      extras == {"EnumInfos", "ExtendedEnumInfos"} \subseteq t.flags
  IN Keep([t EXCEPT
       !.subItems = [k \in DOMAIN t.subItems |-> Parsed(t.subItems[k])],
       !.guid = Part("TypeGuid", @, <<>>),
       !.attributes = Part("Attributes", @, <<>>),
       !.enumInfo = Part("EnumInfos",
          [k \in DOMAIN t.enumInfo |->
             IF extras THEN t.enumInfo[k]
             ELSE [t.enumInfo[k] EXCEPT !.comment = <<>>, !.attributes = <<>>]], <<>>),
       !.extendedFlags = Part("ExtendedFlags", @, 0)])

-----------------------------------------------------------------------------
(* ParseDataType.                                                          *)

\* A field <<name, width>> of the header.
ReadField(r, f) ==
  IF Has(r, f[2]) THEN Skip([r EXCEPT !.t = (f[1] :> Head(r.rest)) @@ @], f[2]) ELSE Failed(r)

ReadHeader(data, fields, start) == FoldLeft(ReadField, Reader(data, start), fields)

EmptyType ==
  [name |-> <<>>, type |-> <<>>, comment |-> <<>>, arrayInfo |-> <<>>, subItems |-> <<>>,
   guid |-> <<>>, attributes |-> <<>>, enumInfo |-> <<>>, extendedFlags |-> 0]

\* parseString: n bytes and the zero behind them.
parseString(r, field, n) ==
  IF Has(r, n + 1) THEN [Skip(r, n + 1) EXCEPT !.t[field] = SubSeq(r.rest, 1, n)]
  ELSE Failed(r)

parseStrings(r) ==
  IF ~r.ok THEN r
  ELSE parseString(parseString(parseString(r, "name", r.t.nameLen), "type", r.t.typeLen),
                   "comment", r.t.commentLen)

parseArrayInfo(r) ==
  IF ~r.ok THEN r
  ELSE Times(r, r.t.arrayDim, LAMBDA q :
         IF ~Has(q, 8) THEN Failed(q)
         ELSE Skip([q EXCEPT !.t.arrayInfo =
                      Append(@, [start |-> q.rest[1], length |-> q.rest[5]])], 8))

\* TypeGuid.
parseTypeGuid(r) == [SkipSome(r, 16) EXCEPT !.t.guid = Padded(r.rest, 16)]

\* CopyMask is as long as the type, and skipped without looking.
parseCopyMask(r) == [r EXCEPT !.rest = Drop(@, r.t.size)]

\* Faulty: the length of a method's entry is taken not to count itself.
parseMethodInfos_LengthApart(r) ==
  IF ~Has(r, 2) THEN Failed(r)
  ELSE Times(Skip(r, 2), Head(r.rest), LAMBDA q :
         IF ~Has(q, 4) THEN Failed(q) ELSE SkipSome(Skip(q, 4), Head(q.rest)))

\* MethodInfos: each entry has its own length in front, which counts itself.
parseMethodInfos(r) ==
  IF ~Has(r, 2) THEN Failed(r)
  ELSE Times(Skip(r, 2), Head(r.rest), LAMBDA q :
         IF ~Has(q, 4) THEN Failed(q) ELSE SkipSome(Skip(q, 4), Head(q.rest) - 4))

\* One attribute, onto the reader's list.
parseAttribute(q) ==
  IF ~PairThere(q.rest) THEN Failed(q)
  ELSE [q EXCEPT !.t.attributes = Append(@, [name |-> PairName(q.rest),
                                             value |-> PairValue(q.rest)]),
                 !.rest = Drop(@, PairLength(q.rest))]

parseAttributes(r) ==
  IF Has(r, 2) THEN Times(Skip(r, 2), Head(r.rest), parseAttribute) ELSE Failed(r)

\* EnumInfos: a name, and a value as wide as the type; a value of no bytes is 0,
\* but at the end of the data it fails like any other.
parseEnumInfos(r) ==
  IF ~Has(r, 2) THEN Failed(r)
  ELSE Times(Skip(r, 2), Head(r.rest), LAMBDA q :
         LET n == Head(q.rest)
             value == Drop(q.rest, n + 2)
         IN IF Len(q.rest) < 2 \/ value = <<>> THEN Failed(q)
            ELSE [q EXCEPT
                    !.t.enumInfo = Append(@, [name |-> Padded(Tail(q.rest), n),
                                              value |-> Head(Append(Padded(value, r.t.size), 0)),
                                              comment |-> <<>>, attributes |-> <<>>]),
                    !.rest = Drop(@, n + 2 + r.t.size)])

parseExtendedFlags(r) == ReadField(r, <<"extendedFlags", 4>>)

parseDeRefTypeItem(r) ==
  IF Has(r, 2) THEN Times(Skip(r, 2), Head(r.rest), LAMBDA q : SkipSome(q, 16)) ELSE Failed(r)

\* ExtendedEnumInfos, for each value that EnumInfos gave: length, the lengths of
\* the comment and of the list, the comment, the attributes.
parseExtendedEnumInfos(r) ==
  FoldLeft(LAMBDA q, i :
    IF ~Has(q, 4) \/ Len(q.rest) = 4 THEN Failed(q)
    ELSE LET n == q.rest[3]
             start == [Skip(q, 4) EXCEPT !.t.attributes = <<>>, !.rest = Drop(@, n + 1)]
             done == Times(start, q.rest[4], parseAttribute)
         IN [done EXCEPT
               !.t.enumInfo[i].comment = Padded(Drop(q.rest, 4), n),
               !.t.enumInfo[i].attributes = done.t.attributes,
               !.t.attributes = r.t.attributes],
    r, [k \in DOMAIN r.t.enumInfo |-> k])

\* Each part that has its flag set, in this order.
parseOptionalFields(r) ==
  LET Part(q, flag, Parse(_)) == IF q.ok /\ flag \in q.t.flags THEN Parse(q) ELSE q
      early == Part(Part(Part(Part(Part(r, "TypeGuid", parseTypeGuid), "CopyMask", parseCopyMask),
                    "MethodInfos", parseMethodInfos), "Attributes", parseAttributes),
                    "EnumInfos", parseEnumInfos)
  IN Part(Part(Part(early, "ExtendedFlags", parseExtendedFlags),
               "DeRefTypeItem", parseDeRefTypeItem), "ExtendedEnumInfos", parseExtendedEnumInfos)

RECURSIVE ParseDataType(_)

\* parseSubItems: each behind its length, which counts itself, parsed in a buffer
\* of its own.
parseSubItem(q) ==
  LET n == Head(q.rest) IN
  IF q.rest = <<>> THEN Failed(q)
  ELSE IF n < 4 \/ Len(q.rest) <= 4 THEN Failed(q)
  ELSE LET sub == ParseDataType(Padded(q.rest, n))
       IN IF sub.ok
          THEN [q EXCEPT !.t.subItems = Append(@, Keep(sub.t)), !.rest = Drop(@, n)]
          ELSE Failed(q)

ParseDataType(data) ==
  LET header == ReadHeader(data, TypeHeader, EmptyType)
      arrays == parseArrayInfo(parseStrings(header))
  IN IF ~arrays.ok THEN arrays
     ELSE LET subs == Times(arrays, arrays.t.numSubItems, parseSubItem)
          IN IF subs.ok THEN parseOptionalFields(subs) ELSE subs

-----------------------------------------------------------------------------
(* BuildDataType.  A type that cannot be built is NoType.                   *)

NoType == [size |-> 0]

\* getDataTypeDeclaration: one request for each declaration.
getDataTypeDeclaration(name) ==
  IF name \notin DOMAIN Table THEN NoType
  ELSE LET r == ParseDataType(EncodeType(Table[name])) IN IF r.ok THEN Keep(r.t) ELSE NoType

RECURSIVE BuildDataType(_)

\* Faulty: the offset of a member is the one its type was declared with.
BuildMember_NoOffset(member) ==
  LET built == BuildDataType(member.type) IN
  IF built = NoType THEN NoType
  ELSE [built EXCEPT !.name = member.name, !.comment = member.comment]

\* A struct's member: its type, with the member's own name, offset and comment.
BuildMember(member) ==
  LET built == BuildDataType(member.type) IN
  IF built = NoType THEN NoType
  ELSE [built EXCEPT !.name = member.name, !.offset = member.offset,
                     !.comment = member.comment]

\* An array's element, with the dimensions of both.
BuildElements(t) ==
  LET built == BuildDataType(t.type) IN
  IF built = NoType THEN NoType ELSE [built EXCEPT !.arrayInfo = t.arrayInfo \o @]

BuildDataType(name) ==
  LET t == getDataTypeDeclaration(name) IN
  IF t = NoType THEN NoType
  ELSE IF t.subItems # <<>>
       THEN LET members == [k \in DOMAIN t.subItems |-> BuildMember(t.subItems[k])]
            IN IF \E k \in DOMAIN members : members[k] = NoType THEN NoType
               ELSE [t EXCEPT !.subItems = members]
       ELSE IF t.arrayDim > 0 THEN BuildElements(t)
       ELSE [t EXCEPT !.type = t.name, !.name = <<>>]
=============================================================================
