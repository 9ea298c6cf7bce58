----------------------------- MODULE AdsCommands ----------------------------
(***************************************************************************)
(* The client calls each command of the command line program makes          *)
(* (src/cmd/cli).  A command is its calls, one after the other, and whether *)
(* it goes on to the next one after an error; no handler retries.  Arguments *)
(* are those a handler accepts: others end in a usage message.              *)
(***************************************************************************)
EXTENDS Naturals, Sequences

\* Values as Go has them: the type an argument is converted to, and as much
\* of the value as matters: its size, its truth, or its number of elements.
Go(type, n) == [go |-> type, n |-> n]
NoValue == Go("nil", 0)

Call(name, path, value) == [call |-> name, path |-> path, value |-> value]
Read(path) == Call("ReadValue", path, NoValue)
Write(path, value) == Call("WriteValue", path, value)
OfSystem(name) == Call(name, "", NoValue)

\* The address of read_raw and write_raw, given in the code.
RawPath == "0x1010290:0x80000001"

Command(name, calls) == [name |-> name, calls |-> calls, goesOn |-> FALSE]
Listing(name, calls) == [name |-> name, calls |-> calls, goesOn |-> TRUE]

Global(name) == "GVL_Global." \o name

\* handleEnableCounter and its likes.
Flag(name, flag) ==
  << Command(name, <<Write(Global(flag), Go("bool", 1))>>),
     Command(name, <<Write(Global(flag), Go("bool", 0))>>) >>
EnableCommands ==
  Flag("enable_counter", "bIntCounterActive")
    \o Flag("enable_toggle", "bBoolToggleActive")
    \o Flag("enable_timed_counter", "bTimedCounterActive")
    \o Flag("enable_timed_toggle", "bTimedToggleActive")

\* handleResetCounters returns at the first error, whatever is reset by then.
ResetCounters ==
  Command("reset_counters",
    << Write(Global("nMyIntCounter"), Go("int", 0)),
       Write(Global("bMyBoolToogle"), Go("bool", 0)),
       Write(Global("nTimedIntCounter"), Go("int", 0)),
       Write(Global("bTimedBoolToogle"), Go("bool", 0)) >>)

\* handleReadCounters and handleReadStatus print each value or error.  Two of
\* the flags read_status asks for are not the ones enable_* writes.
ReadCounters ==
  Listing("read_counters",
    << Read(Global("nMyIntCounter")), Read(Global("bMyBoolToogle")),
       Read(Global("nTimedIntCounter")), Read(Global("bTimedBoolToogle")) >>)
ReadStatus ==
  Listing("read_status",
    << Read(Global("nIntCounterActive")), Read(Global("bBoolToggleActive")),
       Read(Global("nTimedCounterActive")), Read(Global("bTimedToggleActive")) >>)

\* handleSetCyclePeriod writes milliseconds as an int32.
SetPeriod == Command("set_period", <<Write(Global("tCyclePeriod"), Go("int32", 1))>>)
ReadPeriod == Command("read_period", <<Read(Global("tCyclePeriod"))>>)

\* cmd_write.go: a number that is an integer is written as an int, another
\* as a float64; write_array takes five numbers.
WriteCommands ==
  << Command("write_value", <<Write(Global("nMyInt"), Go("int", 5))>>),
     Command("write_value", <<Write(Global("nMyInt"), Go("float64", 5))>>),
     Command("write_bool", <<Write(Global("bMyBool"), Go("bool", 0))>>),
     Command("write_bool", <<Write(Global("bMyBool"), Go("bool", 1))>>),
     Command("write_object", <<Write(Global("stMySampleStruct"), Go("map", 1))>>),
     Command("write_array", <<Write(Global("aIntArray"), Go("slice", 5))>>) >>

\* cmd_read.go: list_symbols asks for the size of the table and then for it.
ReadCommands ==
  << Command("read_value", <<Read(Global("nMyInt"))>>),
    Command("read_bool", <<Read(Global("bMyBool"))>>),
    Command("read_object", <<Read(Global("stMySampleStruct"))>>),
    Command("read_array", <<Read(Global("aIntArray"))>>),
    Command("list_symbols", <<OfSystem("UploadInfo"), OfSystem("Upload")>>) >>

\* handleReadAttributes looks the symbol and its type up before ReadValue
\* does so again.
ReadAttributes ==
  LET path == Global("nMyInt") IN
  Command("read_attributes",
    <<Call("GetSymbol", path, NoValue), Call("GetDataType", path, NoValue), Read(path)>>)

RawCommands ==
  << Command("read_raw", <<Call("ReadRaw", RawPath, NoValue)>>),
    Command("write_raw", <<Call("WriteRaw", RawPath, Go("byte", 1))>>) >>

\* cmd_system.go; state_loop repeats state until it is interrupted.
SystemCommands ==
  << Command("device_info", <<OfSystem("ReadDeviceInfo")>>),
    Command("state", <<OfSystem("ReadTcSystemState")>>),
    Listing("state_loop", <<OfSystem("ReadTcSystemState"), OfSystem("ReadTcSystemState")>>),
    Command("monitor", <<OfSystem("GetCurrentState")>>),
    Command("set_state", <<OfSystem("SetTcSystemToConfig")>>),
    Command("set_state", <<OfSystem("SetTcSystemToRun")>>) >>

\* The table by which handleCommand finds a handler (handlers.go), without
\* the subscription commands.
Handlers ==
  EnableCommands \o WriteCommands \o ReadCommands \o RawCommands \o SystemCommands
    \o <<ResetCounters, ReadCounters, ReadStatus, SetPeriod, ReadPeriod, ReadAttributes>>
=============================================================================
