---------------------------- MODULE AdsSerializer ---------------------------
(***************************************************************************)
(* ads-serializer and ads-primitives: a Go value from the bytes of a          *)
(* variable and back, as the variable's complete type (AdsTypes) says.       *)
(*                                                                          *)
(* Go values are records: [go, n] a number or a bool, [go, s] a string,       *)
(* [go, items] a slice, [go, fields] a map.  A byte takes ByteValues values,  *)
(* which gives every width its own range.  Strings are ASCII.  A float32 is   *)
(* a float64 whose number is rounded to a multiple of Coarse.               *)
(***************************************************************************)
EXTENDS AdsTypes

CONSTANTS ByteValues, Coarse

Nil == [go |-> "nil"]
Error == [go |-> "error"]
Panic == [go |-> "panic"]
Bad == {Error, Panic}

GoNumber(kind, n) == [go |-> kind, n |-> n]
GoString(s) == [go |-> "string", s |-> s]
GoSlice(items) == [go |-> "slice", items |-> items]
GoMap(fields) == [go |-> "map", fields |-> fields]

\* The whole is bad as its first bad part is.
Whole(parts, Make(_)) ==
  LET bad == {k \in DOMAIN parts : parts[k] \in Bad}
  IN IF bad = {} THEN Make(parts) ELSE parts[Min(bad)]

-----------------------------------------------------------------------------
(* Numbers.                                                                *)

\* The integer types: width, sign, and the Go type they are read as.
IntType(width, signed, go) == [width |-> width, signed |-> signed, go |-> go]
IntTypes ==
  "INT8" :> IntType(1, TRUE, "int8") @@ "UINT8" :> IntType(1, FALSE, "uint8")
    @@ "INT16" :> IntType(2, TRUE, "int16") @@ "UINT16" :> IntType(2, FALSE, "uint16")
    @@ "INT32" :> IntType(4, TRUE, "int32") @@ "UINT32" :> IntType(4, FALSE, "uint32")
    @@ "INT64" :> IntType(8, TRUE, "int64") @@ "UINT64" :> IntType(8, FALSE, "uint64")
Reals == "REAL32" :> [width |-> 4, go |-> "float32"] @@ "REAL64" :> [width |-> 8, go |-> "float64"]

InRange(i, n) ==
  IF i.signed THEN -(ByteValues ^ i.width) <= 2 * n /\ 2 * n < ByteValues ^ i.width
  ELSE 0 <= n /\ n < ByteValues ^ i.width

\* toInt8 .. toUint64 take bool, int, and the types of the same sign that are
\* at least as wide.
Accepted(i) ==
  {"bool", "int"} \union
    {IntTypes[d].go : d \in {e \in DOMAIN IntTypes :
       IntTypes[e].signed = i.signed /\ IntTypes[e].width >= i.width}}

\* Faulty: a number out of range is cut to the width.
ConvertInt_Wraps(i, value) ==
  IF value.go \in Accepted(i)
  THEN LET all == ByteValues ^ i.width
           n == value.n % all
       IN GoNumber(i.go, IF i.signed /\ 2 * n >= all THEN n - all ELSE n)
  ELSE Error

ConvertInt(i, value) ==
  IF value.go \in Accepted(i) /\ InRange(i, value.n) THEN GoNumber(i.go, value.n) ELSE Error

Round32(n) == (n \div Coarse) * Coarse

\* toFloat32, toFloat64: no range is checked.
ConvertReal(r, value) ==
  IF value.go \notin {"bool", "int", "float32", "float64"} THEN Error
  ELSE GoNumber(r.go, IF r.go = "float32" THEN Round32(value.n) ELSE value.n)

-----------------------------------------------------------------------------
(* Deserialize.                                                            *)

ReadNumber(data, width, go) == IF Len(data) < width THEN Error ELSE GoNumber(go, Head(data))

\* ReadBool .. ReadString; a WSTRING is read as a STRING.
ReadPrimitive(data, kind) ==
  CASE kind = "VOID" -> Nil
    [] kind = "BIT" -> IF data = <<>> THEN Error
                       ELSE GoNumber("bool", IF Head(data) # 0 THEN 1 ELSE 0)
    [] kind \in DOMAIN IntTypes -> ReadNumber(data, IntTypes[kind].width, IntTypes[kind].go)
    [] kind \in DOMAIN Reals -> ReadNumber(data, Reals[kind].width, Reals[kind].go)
    [] kind \in {"STRING", "WSTRING"} -> GoString(DecodePlcStringBuffer(data))
    [] OTHER -> Error

\* A slice expression data[n:], and what comes of it.
From(data, n, Then(_)) == IF n > Len(data) THEN Panic ELSE Then(Drop(data, n))

RECURSIVE Product(_)
Product(dims) == IF dims = <<>> THEN 1 ELSE Head(dims).length * Product(Tail(dims))

RECURSIVE Deserialize(_, _, _)
RECURSIVE ReadDimension(_, _, _, _)

\* convertArrayDimension, from dataPos on: an element that gives an error is nil.
ReadDimension(data, t, dims, dataPos) ==
  LET stride == t.size * Product(Tail(dims))
      Item(k) ==
        IF Len(dims) > 1 THEN ReadDimension(data, t, Tail(dims), dataPos + (k - 1) * stride)
        ELSE From(data, dataPos + (k - 1) * stride, LAMBDA d :
               LET v == Deserialize(d, t, TRUE) IN IF v = Error THEN Nil ELSE v)
  IN Whole([k \in 1 .. Head(dims).length |-> Item(k)], GoSlice)

Deserialize(data, t, isArrayItem) ==
  IF t.subItems # <<>> /\ (t.arrayInfo = <<>> \/ isArrayItem)
  THEN From(data, t.offset, LAMBDA d :
         Whole([k \in DOMAIN t.subItems |-> Deserialize(d, t.subItems[k], FALSE)],
               LAMBDA vs : GoMap([name \in {t.subItems[k].name : k \in DOMAIN vs} |->
                 vs[CHOOSE k \in DOMAIN vs : t.subItems[k].name = name]])))
  ELSE IF t.arrayInfo # <<>> /\ ~isArrayItem THEN ReadDimension(data, t, t.arrayInfo, 0)
  ELSE From(data, t.offset, LAMBDA d : ReadPrimitive(d, t.dataType))

-----------------------------------------------------------------------------
(* Serialize.  The bytes are in a slice of their own: [go, bytes].           *)

Bytes(data) == [go |-> "bytes", bytes |-> data]
Joined(parts) == Whole(parts, LAMBDA ps : Bytes(FlattenSeq([k \in DOMAIN ps |-> ps[k].bytes])))

\* What a converted number is on the wire.
Converted(v, width) == IF v = Error THEN Error ELSE Bytes(Le(v.n, width))

SizeOr(size, default) == IF size <= 0 THEN default ELSE size

\* The terminator is not thought of.
WriteString(s, size) == Padded(s, size)

\* UTF-16LE, with the last two bytes left to the terminator.
Wide(s, size) ==
  Padded(Concat(LAMBDA c : <<c, 0>>, SubSeq(s, 1, Min({Len(s), size \div 2 - 1}))), size)

WritePrimitive(value, t) ==
  LET kind == t.dataType IN
  CASE kind = "VOID" -> Bytes(<<>>)
    [] kind = "BIT" -> IF value.go \in {"bool", "int"} /\ value.n \in {0, 1}
                       THEN Bytes(<<value.n>>) ELSE Error
    [] kind \in DOMAIN IntTypes -> Converted(ConvertInt(IntTypes[kind], value), IntTypes[kind].width)
    [] kind \in DOMAIN Reals -> Converted(ConvertReal(Reals[kind], value), Reals[kind].width)
    [] kind = "STRING" /\ value.go = "string" -> Bytes(WriteString(value.s, SizeOr(t.size, 80)))
    [] kind = "WSTRING" /\ value.go = "string" -> Bytes(Wide(value.s, SizeOr(t.size, 160)))
    [] OTHER -> Error

\* copy(buf[offset:], part).
Over(buf, offset, part) ==
  [k \in DOMAIN buf |-> IF k - offset \in DOMAIN part THEN part[k - offset] ELSE buf[k]]

\* Fields in the order of the declaration, when no offset is known.
InSequence(t, data) ==
  LET all == FlattenSeq(data) IN
  IF t.size = 0 THEN Bytes(all) ELSE IF Len(all) > t.size THEN Error ELSE Bytes(Padded(all, t.size))

\* Faulty: what is not written keeps the byte that was written before it.
AtOffsets_NoZeroes(t, data) ==
  Bytes(FoldLeft(LAMBDA buf, k : Over(buf, t.subItems[k].offset, data[k]),
                 [k \in 1 .. t.size |-> 1], [k \in DOMAIN data |-> k]))

\* Fields at their offsets, zeroes between them.
AtOffsets(t, data) ==
  LET End(k) == t.subItems[k].offset + Len(data[k])
      size == IF t.size = 0 THEN Max({End(k) : k \in DOMAIN data}) ELSE t.size
  IN IF \E k \in DOMAIN data : End(k) > size THEN Error
     ELSE Bytes(FoldLeft(LAMBDA buf, k : Over(buf, t.subItems[k].offset, data[k]),
                         Zeroes(size), [k \in DOMAIN data |-> k]))

RECURSIVE Serialize(_, _, _)
RECURSIVE WriteDimension(_, _, _)

\* writeArray: an element that is not there is an index out of range.
WriteDimension(value, t, dims) ==
  IF value.go # "slice" THEN Error
  ELSE Joined([k \in 1 .. Head(dims).length |->
         IF k > Len(value.items) THEN Panic
         ELSE IF Len(dims) > 1 THEN WriteDimension(value.items[k], t, Tail(dims))
         ELSE Serialize(value.items[k], t, TRUE)])

WriteStruct(value, t) ==
  IF value.go # "map" THEN Error
  ELSE Whole([k \in DOMAIN t.subItems |->
                LET sub == t.subItems[k] IN
                IF sub.name \notin DOMAIN value.fields THEN Error
                ELSE Serialize(value.fields[sub.name], sub, FALSE)],
             LAMBDA parts :
               LET data == [k \in DOMAIN parts |-> parts[k].bytes] IN
               IF \A k \in DOMAIN data : t.subItems[k].offset = 0 THEN InSequence(t, data)
               ELSE AtOffsets(t, data))

\* An element of an array of structs gets to WritePrimitive, and BIGTYPE there
\* is an error.
Serialize(value, t, isArrayItem) ==
  IF t.subItems # <<>> /\ t.arrayInfo = <<>> THEN WriteStruct(value, t)
  ELSE IF t.arrayInfo # <<>> /\ ~isArrayItem THEN WriteDimension(value, t, t.arrayInfo)
  ELSE WritePrimitive(value, t)
=============================================================================
