----------------------------- MODULE AdsValuesMC ----------------------------
(* Small instances of AdsValues: texts are short sequences of numbers.        *)
EXTENDS AdsValues

Dim(length) == [start |-> 1, length |-> length]
Name(n) == <<n>>

\* A declaration with nothing optional.
Plain(name, kind, size) ==
  [version |-> 1, hashValue |-> 2, typeHash |-> 3, size |-> size, offset |-> 0,
   dataType |-> kind, flags |-> {}, arrayDim |-> 0, name |-> name, type |-> <<>>,
   comment |-> <<>>, arrayInfo |-> <<>>, subItems |-> <<>>, guid |-> <<>>,
   attributes |-> <<>>, enumInfo |-> <<>>, extendedFlags |-> 0, methods |-> <<>>, derefs |-> 0]
Member(name, type, offset) ==
  [Plain(name, "OTHER", 0) EXCEPT !.type = type, !.offset = offset, !.comment = <<9>>]
Array(name, size, type, dims) ==
  [Plain(name, "OTHER", size) EXCEPT !.type = type, !.arrayInfo = dims, !.arrayDim = Len(dims)]
Struct(name, size, members) == [Plain(name, "BIGTYPE", size) EXCEPT !.subItems = members]

Primitives == <<"BIT", "INT8", "UINT8", "INT16", "UINT16", "INT32", "UINT32", "INT64", "UINT64",
                "REAL32", "REAL64", "STRING", "WSTRING">>
PrimitiveSize == <<1, 1, 1, 2, 2, 4, 4, 8, 8, 4, 8, 4, 8>>
P(kind) == Name(CHOOSE k \in DOMAIN Primitives : Primitives[k] = kind)

\* 21: a struct with padding; 22: 2 x 2 numbers; 23: the struct twice; 24: a
\* struct of a string and all of those; 25: numbers of every width; 26: a row of
\* rows; 27: a struct with a wide string; 28: rows and a number; 29: 24 without
\* the array of structs.
MCTable ==
  [n \in {Name(k) : k \in DOMAIN Primitives} |->
     Plain(n, Primitives[n[1]], PrimitiveSize[n[1]])]
  @@ <<21>> :> Struct(<<21>>, 4, <<Member(<<1>>, P("BIT"), 0), Member(<<2>>, P("INT16"), 2)>>)
  @@ <<22>> :> Array(<<22>>, 8, P("INT16"), <<Dim(2), Dim(2)>>)
  @@ <<23>> :> Array(<<23>>, 8, <<21>>, <<Dim(2)>>)
  @@ <<24>> :> Struct(<<24>>, 25, <<Member(<<3>>, P("STRING"), 0), Member(<<4>>, <<21>>, 5),
                                   Member(<<5>>, <<22>>, 9), Member(<<6>>, <<23>>, 17)>>)
  @@ <<29>> :> Struct(<<29>>, 17, <<Member(<<3>>, P("STRING"), 0), Member(<<4>>, <<21>>, 5),
                                   Member(<<5>>, <<22>>, 9)>>)
  @@ <<25>> :> Struct(<<25>>, 43, [k \in 1 .. 11 |->
                 Member(<<k>>, Name(k), <<0, 1, 2, 3, 5, 7, 11, 15, 23, 31, 35>>[k])])
  @@ <<26>> :> Array(<<26>>, 24, <<22>>, <<Dim(3)>>)
  @@ <<27>> :> Struct(<<27>>, 13, <<Member(<<1>>, P("WSTRING"), 0), Member(<<2>>, P("STRING"), 8)>>)
  @@ <<28>> :> Struct(<<28>>, 16, <<Member(<<1>>, <<22>>, 0), Member(<<2>>, P("REAL64"), 8)>>)

MCPairs == <<[name |-> <<5>>, value |-> <<6, 7>>], [name |-> <<8, 9>>, value |-> <<>>]>>
Enums == <<[name |-> <<1>>, value |-> 0, comment |-> <<4>>, attributes |-> <<>>],
           [name |-> <<2, 3>>, value |-> 1, comment |-> <<>>, attributes |-> MCPairs]>>

TypeFlags == {"TypeGuid", "CopyMask", "MethodInfos", "Attributes", "EnumInfos", "ExtendedFlags",
              "DeRefTypeItem", "ExtendedEnumInfos"}

\* A declaration with the optional parts that flags name, and one of it as a
\* sub-item before further parts.
Full(flags) ==
  [Plain(<<1, 2>>, "INT16", 2) EXCEPT
     !.flags = flags, !.type = <<3>>, !.comment = <<4, 4>>, !.arrayInfo = <<Dim(2), Dim(3)>>,
     !.arrayDim = 2, !.guid = [k \in 1 .. 16 |-> k], !.attributes = MCPairs, !.enumInfo = Enums,
     !.extendedFlags = 7, !.methods = <<6, 9>>, !.derefs = 2]
MCDeclarations ==
  {Full(f) : f \in SUBSET TypeFlags}
    \union {[Full({"Attributes"}) EXCEPT !.subItems = <<Full(f), Full({})>>] :
              f \in {TypeFlags, {"TypeGuid", "Attributes"}, {"EnumInfos"}}}

Symbol(name, type, size, flags, dims) ==
  [indexGroup |-> 16448, indexOffset |-> size + Len(dims), size |-> size, dataType |-> "INT16",
   flags |-> flags, arrayInfo |-> dims, name |-> name, type |-> type, comment |-> <<1>>,
   typeGuid |-> [k \in 1 .. 16 |-> k], attributes |-> MCPairs]
MCSymbols ==
  {Symbol(<<1, 1>>, P("INT16"), 2, {}, <<>>),
   Symbol(<<2>>, <<22>>, 8, {"TypeGuid", "Attributes"}, <<Dim(2), Dim(2)>>),
   Symbol(<<3, 3, 3>>, <<21>>, 4, {"Attributes"}, <<>>)}

\* All of them, and every part of them, each in one order.
MCTables == <<SetToSeq(MCSymbols)>> \o SetToSeq({SetToSeq(T) : T \in SUBSET MCSymbols \ {MCSymbols}})

Sample(h, payload) == [handle |-> h, payload |-> payload]
MCNotifications ==
  LET samples == {<<Sample(1, <<5>>)>>, <<Sample(2, <<>>), Sample(1, <<6, 0, 7>>)>>,
                  <<Sample(1, <<5>>), Sample(2, <<>>)>>}
  IN UNION {[1 .. n -> [time : {3}, samples : samples]] : n \in 1 .. 2}

Numbers(i) ==
  {GoNumber(go, n) : go \in Accepted(i) \ {"bool"},
     n \in {-(ByteValues ^ i.width) \div 2, -(ByteValues ^ i.width) \div 2 - 1, -1, 0,
            ByteValues ^ i.width \div 2 - 1, ByteValues ^ i.width \div 2,
            ByteValues ^ i.width - 1, ByteValues ^ i.width}}
MCInputs ==
  [kind \in DOMAIN IntTypes |-> Numbers(IntTypes[kind]) \union {GoNumber("bool", 1), GoString(<<1>>)}]
    @@ [kind \in DOMAIN Reals |-> {GoNumber("float64", 5), GoNumber("float32", 4), GoNumber("int", 3)}]
    @@ [kind \in {"STRING", "WSTRING"} |->
          {GoString(<<>>), GoString(<<3>>), GoString(<<2, 3, 1>>), GoString(<<1, 2, 3, 1>>),
           GoNumber("int", 1)}]
    @@ "BIT" :> {GoNumber("bool", 0), GoNumber("bool", 1), GoNumber("int", 0), GoNumber("int", 2)}

MCVariables == {<<21>>, <<22>>, <<23>>, <<24>>, <<25>>, <<26>>, <<28>>, <<29>>}
WideVariables == {P("WSTRING"), <<27>>}
=============================================================================
