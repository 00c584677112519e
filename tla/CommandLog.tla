----------------------------- MODULE CommandLog -----------------------------
(***************************************************************************)
(* What the command runner promises whoever listens to the events of one   *)
(* execution (dto/command_execution.go, internal/commandexec/runner.go):   *)
(* first a START, then the lines of each channel in order and each once,   *)
(* then a result, possibly a line repeated with the exit code, and one     *)
(* last event that agrees with the result.  A quiet execution tells        *)
(* nothing.  CommandExec implements it.                                    *)
(***************************************************************************)
EXTENDS Integers, Sequences

CONSTANTS Channels, MaxLines, NoLine

VARIABLES
    log,      \* the events told so far
    told,     \* told[c]: lines of channel c that have been told
    result,   \* "none" until the execution is decided, then "ok" or "error"
    ended,    \* the last event has been told
    quiet     \* nothing is told

vars == <<log, told, result, ended, quiet>>

Event(type, line, code) == [type |-> type, line |-> line, exitCode |-> code]
Tell(event) == log' = IF quiet THEN log ELSE Append(log, event)

Init ==
    /\ log = <<>>
    /\ told = [c \in Channels |-> 0]
    /\ result = "none"
    /\ ended = FALSE
    /\ quiet \in BOOLEAN

Begin ==
    /\ log = <<>> /\ result = "none"
    /\ Tell(Event("START", NoLine, FALSE))
    /\ UNCHANGED <<told, result, ended, quiet>>

Open == (quiet \/ log # <<>>) /\ ~ended

TellLine(c) ==
    /\ Open /\ result = "none"
    /\ told[c] < MaxLines
    /\ told' = [told EXCEPT ![c] = @ + 1]
    /\ Tell(Event("UPDATE", <<c, told[c] + 1>>, FALSE))
    /\ UNCHANGED <<result, ended, quiet>>

Decide ==
    /\ Open /\ result = "none"
    /\ result' \in {"ok", "error"}
    /\ UNCHANGED <<log, told, ended, quiet>>

\* The exit code comes with a line that has been told before.
TellExitCode ==
    /\ Open /\ result # "none"
    /\ \E c \in Channels, n \in 1 .. MaxLines :
         /\ n <= told[c]
         /\ Tell(Event("UPDATE", <<c, n>>, TRUE))
    /\ UNCHANGED <<told, result, ended, quiet>>

End ==
    /\ Open /\ result # "none"
    /\ Tell(Event(IF result = "ok" THEN "STOP" ELSE "ERROR", NoLine, TRUE))
    /\ ended' = TRUE
    /\ UNCHANGED <<told, result, quiet>>

Next ==
    \/ Begin
    \/ \E c \in Channels : TellLine(c)
    \/ Decide
    \/ TellExitCode
    \/ End

Spec == Init /\ [][Next]_vars
=============================================================================
