--------------------------- MODULE AdsOperationsMC --------------------------
(* The example PLC project (plc/example/src/Globals/GVL_Global.TcGVL), as    *)
(* far as the commands use it, and a second program after it.                *)
EXTENDS AdsOperations, SequencesExt

CONSTANTS cli, other

Ints == {"bool", "int", "int8", "int16"}
Types ==
  [ BOOL |-> [size |-> 1, takes |-> {"bool", "int"}, length |-> 0],
    INT |-> [size |-> 2, takes |-> Ints, length |-> 0],
    TIME |-> [size |-> 4, takes |-> {"bool", "int", "uint32"}, length |-> 0],
    ARRAY |-> [size |-> 202, takes |-> {"slice"}, length |-> 101],
    ST_Sample |-> [size |-> 4, takes |-> {"map"}, length |-> 0] ]

At(cell, type) == [cell |-> cell, type |-> type, size |-> Types[type].size]
BoolVars == {"bMyBool", "bMyBoolToogle", "bTimedBoolToogle", "bIntCounterActive",
         "bBoolToggleActive", "bTimedCounterActive", "bTimedToggleActive"}
IntVars == {"nMyInt", "nMyIntCounter", "nTimedIntCounter"}

\* The cells of the variables that the checks tell apart; the others share.
Declared(names, at) == FoldSet(LAMBDA n, f : f @@ (Global(n) :> at), <<>>, names)
Example ==
  [ symbols |-> Declared({"nMyInt"}, At(2, "INT")) @@ Declared({"bMyBool"}, At(3, "BOOL"))
      @@ Declared({"tCyclePeriod"}, At(4, "TIME")) @@ Declared({"aIntArray"}, At(4, "ARRAY"))
      @@ Declared({"stMySampleStruct"}, At(4, "ST_Sample"))
      @@ Declared(IntVars, At(4, "INT")) @@ Declared(BoolVars, At(4, "BOOL")),
    types |-> Types ]

\* The variables have changed places, one its type, and one is gone.
Changed ==
  [ symbols |-> Declared({"nMyInt"}, At(3, "INT")) @@ Declared({"bMyBool"}, At(2, "INT"))
      @@ Declared({"stMySampleStruct"}, [At(4, "ST_Sample") EXCEPT !.size = 6])
      @@ Declared(IntVars, At(4, "INT")) @@ Declared(BoolVars \ {"bTimedBoolToogle"}, At(4, "BOOL")),
    types |-> [Types EXCEPT !.ST_Sample.size = 6] ]

MCPrograms == <<Example, Changed>>
\* Every command, and what the poller asks, next to a call that writes bMyBool
\* by its address in the first program.
MCCommands ==
  cli :> Append(Handlers, Command("poller", <<OfSystem("ReadTcSystemExtendedState")>>))
    @@ other :> <<Command("application", <<Call("WriteRaw", RawPath, Go("byte", 0))>>)>>
=============================================================================
