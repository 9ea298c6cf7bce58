------------------------------ MODULE AdsValues -----------------------------
(***************************************************************************)
(* Values: a variable that the client reads, changes in one place, writes and  *)
(* reads again (ReadValue and WriteValue, whose requests AdsOperations         *)
(* interleaves), with the declarations it is read by; next to the answers that  *)
(* AdsAnswers has the client parse.                                          *)
(*                                                                          *)
(* The PLC is external: its bytes are the encodings of what CONSTANTS give,    *)
(* and a variable lies in memory as the declarations say.                   *)
(***************************************************************************)
EXTENDS AdsSerializer, AdsAnswers

CONSTANTS
  Variables,     \* names of the types of the variables that are read and written
  Declarations,  \* further declarations to parse
  Inputs         \* Inputs[kind]: the Go values an application puts in

VARIABLES
  declared,  \* the declaration the client asked for, and what it parsed
  variable,  \* the type of the variable at hand
  memory,    \* its bytes in the PLC
  at,        \* how far the application has come with it
  held,      \* the value the application holds
  edit       \* what it changed in it

valueVars == <<variable, memory, at, held, edit>>
vars == <<declared, valueVars, answerVars>>

-----------------------------------------------------------------------------
(* Where a variable's primitive parts are, by the declarations alone.        *)

RECURSIVE Elements(_, _)
Elements(dims, size) ==
  IF dims = <<>> THEN {[path |-> <<>>, at |-> 0]}
  ELSE {[path |-> <<[index |-> k]>> \o e.path,
         at |-> (k - 1) * size * Product(Tail(dims)) + e.at] :
          k \in 1 .. Head(dims).length, e \in Elements(Tail(dims), size)}

Within(parts, path, offset) ==
  {[p EXCEPT !.path = path \o @, !.at = @ + offset] : p \in parts}

RECURSIVE Parts(_)
Parts(name) ==
  LET t == Table[name] IN
  IF t.subItems # <<>>
  THEN UNION {Within(Parts(s.type), <<[field |-> s.name]>>, s.offset) : s \in Range(t.subItems)}
  ELSE IF t.arrayInfo # <<>>
  THEN UNION {Within(Parts(t.type), e.path, e.at) : e \in Elements(t.arrayInfo, Table[t.type].size)}
  ELSE {[path |-> <<>>, at |-> 0, size |-> t.size, kind |-> t.dataType]}

RECURSIVE Get(_, _)
Get(v, path) ==
  IF path = <<>> THEN v
  ELSE IF "index" \in DOMAIN Head(path) THEN Get(v.items[Head(path).index], Tail(path))
  ELSE Get(v.fields[Head(path).field], Tail(path))

RECURSIVE Put(_, _, _)
Put(v, path, x) ==
  IF path = <<>> THEN x
  ELSE IF "index" \in DOMAIN Head(path)
  THEN [v EXCEPT !.items[Head(path).index] = Put(@, Tail(path), x)]
  ELSE [v EXCEPT !.fields[Head(path).field] = Put(@, Tail(path), x)]

IsText(kind) == kind \in {"STRING", "WSTRING"}

\* How the PLC stores the part's value.
Image(p, v) ==
  CASE p.kind = "STRING" -> Padded(v.s, p.size)
    [] p.kind = "WSTRING" -> Padded(Concat(LAMBDA c : <<c, 0>>, v.s), p.size)
    [] OTHER -> Le(v.n, p.size)

\* The variable with the values that Value gives its parts, zeroes between them.
Laid(name, Value(_)) ==
  LET parts == Parts(name)
      Covers(p, k) == p.at < k /\ k <= p.at + p.size
  IN [k \in 1 .. Table[name].size |->
        IF \E p \in parts : Covers(p, k)
        THEN LET p == CHOOSE q \in parts : Covers(q, k) IN Image(p, Value(p))[k - p.at]
        ELSE 0]

GoKind(kind) ==
  CASE kind = "BIT" -> "bool"
    [] kind \in DOMAIN IntTypes -> IntTypes[kind].go
    [] kind \in DOMAIN Reals -> Reals[kind].go

\* What the PLC has in a part to begin with: another value in each.
First(p) ==
  IF IsText(p.kind) THEN GoString(<<1 + (p.at % (ByteValues - 1)), 1>>)
  ELSE GoNumber(GoKind(p.kind), IF p.kind = "REAL32" THEN Coarse ELSE (p.at + 1) % (IF p.kind = "BIT" THEN 2 ELSE ByteValues \div 2))

\* The value a part can hold that is the one given, if there is one.
Fits(p, x) ==
  CASE IsText(p.kind) -> x.go = "string" /\ Len(x.s) <= (IF p.kind = "STRING" THEN p.size - 1
                                                           ELSE p.size \div 2 - 1)
    [] p.kind \in DOMAIN IntTypes -> "n" \in DOMAIN x /\ x.go \in Accepted(IntTypes[p.kind])
                                       /\ InRange(IntTypes[p.kind], x.n)
    [] p.kind = "BIT" -> x.go \in {"bool", "int"} /\ x.n \in {0, 1}
    [] OTHER -> x.go \in {"bool", "int", "float32", "float64"}

Kept(p, x) ==
  IF IsText(p.kind) THEN x
  ELSE GoNumber(GoKind(p.kind), IF p.kind = "REAL32" THEN Round32(x.n) ELSE x.n)

-----------------------------------------------------------------------------

NoEdit == [path |-> <<>>]

Init ==
  /\ declared = NothingAsked
  /\ variable = <<>>
  /\ memory = <<>>
  /\ at = "new"
  /\ held = Nil
  /\ edit = NoEdit
  /\ AnswersInit

NothingBegun == at = "new" /\ declared = NothingAsked

\* getDataTypeDeclaration.
GetDeclaration(d) ==
  /\ NothingBegun /\ Fresh
  /\ declared' = [kind |-> "declaration", what |-> d, parsed |-> ParseDataType(EncodeType(d))]
  /\ UNCHANGED <<valueVars, answerVars>>

-----------------------------------------------------------------------------
(* ReadValue and WriteValue.                                                *)

\* The application turns to a variable, which the PLC has set.
Begin(name) ==
  /\ NothingBegun /\ Fresh
  /\ variable' = name
  /\ memory' = Laid(name, First)
  /\ at' = "begun"
  /\ UNCHANGED <<declared, held, edit, answerVars>>

ReadValue ==
  /\ at \in {"begun", "written"}
  /\ held' = Deserialize(memory, BuildDataType(variable), FALSE)
  /\ at' = IF at = "begun" THEN "read" ELSE "read again"
  /\ UNCHANGED <<declared, variable, memory, edit, answerVars>>

\* The application changes one part.
Edit(p, x) ==
  /\ at = "read"
  /\ held' = Put(held, p.path, x)
  /\ edit' = [part |-> p, value |-> x]
  /\ at' = "edited"
  /\ UNCHANGED <<declared, variable, memory, answerVars>>

WriteValue ==
  LET data == Serialize(held, BuildDataType(variable), FALSE) IN
  /\ at = "edited"
  /\ IF data \in Bad THEN at' = "refused" /\ UNCHANGED memory
     ELSE at' = "written" /\ memory' = data.bytes
  /\ UNCHANGED <<declared, variable, held, edit, answerVars>>

-----------------------------------------------------------------------------

Next ==
  \/ NothingBegun /\ AnswersNext /\ UNCHANGED <<declared, valueVars>>
  \/ \E d \in Declarations : GetDeclaration(d)
  \/ \E name \in Variables : Begin(name)
  \/ ReadValue
  \/ at = "read" /\ \E p \in Parts(variable) : \E x \in Inputs[p.kind] : Edit(p, x)
  \/ WriteValue

Spec == Init /\ [][Next]_vars

-----------------------------------------------------------------------------
(* Properties.                                                             *)

\* What the PLC has in part p, as a Go value.
Stored(p) ==
  LET bytes == SubSeq(memory, p.at + 1, p.at + p.size) IN
  IF p.kind = "STRING" THEN GoString(DecodePlcStringBuffer(bytes))
  ELSE GoNumber(GoKind(p.kind), Head(bytes))

\* Deserialize finds every part, at any depth of structs in arrays in structs,
\* where the declarations put it (deserialize.go:44-85, client_data_types.go:35-77).
\* A STRING written without its terminator is left out.
ReadsTheLayout ==
  at = "read" \/ (at = "read again" /\ Fits(edit.part, edit.value)) =>
    \A p \in Parts(variable) : p.kind # "WSTRING" => Get(held, p.path) = Stored(p)

\* A write puts the given value, and no other number that a cut to the width
\* would make of it, in its place; every other part stays and the bytes between
\* the parts are zero: "honor the PLC-reported layout so padding bytes remain
\* zero" (serialize.go:100), "ensuring data integrity" (convert.go:7).
WritesWhatWasGiven ==
  at = "written" /\ Fits(edit.part, edit.value) =>
    memory = Laid(variable, LAMBDA p : IF p = edit.part THEN Kept(p, edit.value) ELSE First(p))

StructsInArrays ==
  \E p \in Parts(variable) : \E k \in 1 .. Len(p.path) - 1 :
    "index" \in DOMAIN p.path[k] /\ "field" \in DOMAIN p.path[k + 1]

\* What fits is not refused, except that an array of structs cannot be written
\* at all (serialize.go:49, 335); a number that does not fit is refused, and the
\* variable stays as it was.
RefusesWhatDoesNotFit ==
  /\ at = "refused" => ~Fits(edit.part, edit.value) \/ StructsInArrays
  /\ at = "refused" => memory = Laid(variable, First)
  /\ at = "written" /\ ~IsText(edit.part.kind) => Fits(edit.part, edit.value)

\* "ADST_STRING, ADST_WSTRING: strings (WSTRING uses UTF-16LE encoding)"
\* (ads-serializer/doc.go:14): a string that fits reads back as it was written.
WrittenReadsBack ==
  at = "read again" /\ IsText(edit.part.kind) /\ Fits(edit.part, edit.value) =>
    Get(held, edit.part.path) = edit.value

\* ParseDataType recovers a declaration, with any set of its optional parts, its
\* sub-items and what comes after them (ads-datatype/parse.go:139-446).
DeclarationsParsed ==
  declared.kind = "declaration" =>
    declared.parsed.ok /\ Keep(declared.parsed.t) = Parsed(declared.what)
=============================================================================
