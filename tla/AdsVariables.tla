---------------------------- MODULE AdsVariables ----------------------------
(***************************************************************************)
(* What ReadValue, WriteValue, ReadRaw and WriteRaw promise, without the     *)
(* requests they are made of: a call that succeeds has read or written its   *)
(* variable in one instant between its beginning and its end; one that fails *)
(* may have written it, before or after it returned.  A download of another  *)
(* PLC program during a call withdraws the promise: the call may then reach   *)
(* whatever is now where its variable was.  AdsOperations implements this.   *)
(***************************************************************************)
CONSTANTS
  Callers,     \* the goroutines that call
  Paths,       \* the names of variables
  Cells,       \* the PLC's memory, a cell for a variable
  Values,      \* what a cell can hold
  Programs,    \* the PLC's programs: functions from Paths to Cells or Nowhere
  Nowhere      \* where a variable is that the program does not have

VARIABLES
  place,       \* place[v]: the cell of variable v in the current program
  memory,      \* memory[c]: the value in cell c
  call,        \* call[p]: the call of p that runs
  late         \* writes given up by their callers, which may still happen

vars == <<place, memory, call, late>>

Idle == [kind |-> "none"]

NewCalls ==
  [kind : {"read", "write"}, path : Paths, value : Values, moved : {FALSE}, done : {FALSE}]

\* The cells a call may reach.
Reach(p) == IF call[p].moved THEN Cells ELSE {place[call[p].path]} \intersect Cells

Init ==
  /\ place \in Programs
  /\ memory \in [Cells -> Values]
  /\ call = [p \in Callers |-> Idle]
  /\ late = {}

Begin(p) ==
  /\ call[p].kind \in {"none", "returned"}
  /\ call'[p] \in NewCalls
  /\ call' = [call EXCEPT ![p] = call'[p]]
  /\ UNCHANGED <<place, memory, late>>

TakeValue(p) ==
  /\ call[p].kind = "read" /\ ~call[p].done
  /\ \E c \in Reach(p) :
       call' = [call EXCEPT ![p] = [@ EXCEPT !.value = memory[c], !.done = TRUE]]
  /\ UNCHANGED <<place, memory, late>>

PutValue(p) ==
  /\ call[p].kind = "write" /\ ~call[p].done
  /\ \E c \in Reach(p) : memory' = [memory EXCEPT ![c] = call[p].value]
  /\ call' = [call EXCEPT ![p].done = TRUE]
  /\ UNCHANGED <<place, late>>

Succeed(p) ==
  /\ call[p].kind \in {"read", "write"} /\ call[p].done
  /\ call' = [call EXCEPT ![p] = [kind |-> "returned", value |-> call[p].value]]
  /\ UNCHANGED <<place, memory, late>>

\* A call is refused at once, for the state of the system.
Refuse(p) ==
  /\ call[p].kind \in {"none", "returned"}
  /\ call' = [call EXCEPT ![p] = Idle]
  /\ UNCHANGED <<place, memory, late>>

\* A write that is given up before it has happened may yet happen.
Fail(p) ==
  /\ call[p].kind \in {"read", "write"}
  /\ call' = [call EXCEPT ![p] = Idle]
  /\ \/ UNCHANGED late
     \/ /\ call[p].kind = "write" /\ ~call[p].done
        /\ \E c \in Reach(p) : late' = late \union {[cell |-> c, value |-> call[p].value]}
  /\ UNCHANGED <<place, memory>>

PutLate(w) ==
  /\ w \in late
  /\ memory' = [memory EXCEPT ![w.cell] = w.value]
  /\ late' \in {late, late \ {w}}
  /\ UNCHANGED <<place, call>>

\* Writes that will not happen any more are forgotten.
ForgetLate ==
  /\ late' \subseteq late
  /\ UNCHANGED <<place, memory, call>>

Download ==
  /\ place' \in Programs
  /\ call' = [p \in Callers |->
       IF call[p].kind \in {"read", "write"} THEN [call[p] EXCEPT !.moved = TRUE]
       ELSE call[p]]
  /\ memory' \in [Cells -> Values]
  /\ UNCHANGED late

Next ==
  \/ \E p \in Callers :
       Begin(p) \/ TakeValue(p) \/ PutValue(p) \/ Succeed(p) \/ Fail(p) \/ Refuse(p)
  \/ \E w \in late : PutLate(w)
  \/ ForgetLate
  \/ Download

Spec == Init /\ [][Next]_vars
=============================================================================
