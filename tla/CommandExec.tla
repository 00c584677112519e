---------------------------- MODULE CommandExec ----------------------------
(***************************************************************************)
(* One execution of the shared command runner,                             *)
(* internal/commandexec/runner.go: the caller that stores a snapshot and   *)
(* starts the process, one goroutine scanning each of the two pipes, the   *)
(* goroutine that waits for them and for the process, and the caller of    *)
(* Execute that polls the snapshot.  Executions share only the mutex of    *)
(* the snapshot map, each under its own key, so one of them is enough.     *)
(*                                                                         *)
(* A line of output is its channel and its number on that channel.  The    *)
(* events of the execution are kept in the order they were emitted.        *)
(***************************************************************************)
EXTENDS Integers, Sequences, FiniteSets

CONSTANTS
    BufferSize,   \* lines a snapshot keeps (500 in the code)
    PipeSize,     \* lines a pipe holds before a write blocks
    MaxLines,     \* bound: lines the process writes on each channel
    MayOverrun    \* BOOLEAN: lines longer than the scanner's 1 MiB buffer happen

ASSUME SizesAssumption ==
    /\ BufferSize \in Nat \ {0}
    /\ PipeSize \in Nat \ {0}
    /\ MaxLines \in Nat
    /\ MayOverrun \in BOOLEAN

VARIABLES
    caller,      \* where Start or Execute is
    proc,        \* the process: "none", "running", "blocked" in a write, "gone"
    exitOK,      \* whether the process left with status 0
    cancelled,   \* the caller's context is done
    written,     \* written[c]: lines the process has written on channel c
    taken,       \* taken[c]: lines the scanner of c has put into the snapshot
    overrun,     \* overrun[c]: an overlong line is next on channel c
    scanner,     \* scanner[c]: "off", "scan", "emit" or "done"
    waiter,      \* "off", "wait", "last", "terminal" or "done"
    snapshot,    \* the executionState stored in the map
    sent         \* the events emitted so far

vars == <<caller, proc, exitOK, cancelled, written, taken, overrun, scanner,
          waiter, snapshot, sent>>
procVars == <<proc, exitOK, written, overrun>>

Channels == {"stdout", "stderr"}
Line == Channels \X (1 .. MaxLines)
NoLine == <<"none", 0>>

Event(type, line, code) == [type |-> type, line |-> line, exitCode |-> code]

\* emitCommandEvent, skipped for a quiet execution
Emit(event) ==
    sent' = IF snapshot.quiet THEN sent ELSE Append(sent, event)

\* Mutants of Trim: the oldest lines are kept; one line too many is kept.
TrimOldest(lines) ==
    IF Len(lines) > BufferSize THEN SubSeq(lines, 1, BufferSize) ELSE lines
\* A snapshot keeps the newest BufferSize lines.
Trim(lines) ==
    IF Len(lines) > BufferSize
    THEN SubSeq(lines, Len(lines) - BufferSize + 1, Len(lines))
    ELSE lines

\* The line repeated with the exit code: the newest on stderr, if there is one
LastOutputLine(lines) ==
    LET errs == {i \in DOMAIN lines : lines[i][1] = "stderr"}
        from == IF errs = {} THEN DOMAIN lines ELSE errs
    IN  lines[CHOOSE i \in from : \A j \in from : j <= i]

Init ==
    /\ caller = "new"
    /\ proc = "none"
    /\ exitOK = FALSE
    /\ cancelled = FALSE
    /\ written = [c \in Channels |-> 0]
    /\ taken = [c \in Channels |-> 0]
    /\ overrun = [c \in Channels |-> FALSE]
    /\ scanner = [c \in Channels |-> "off"]
    /\ waiter = "off"
    /\ \E quiet \in BOOLEAN :
         snapshot = [stored |-> FALSE, running |-> FALSE, quiet |-> quiet,
                     outcome |-> "none", lines |-> <<>>]
    /\ sent = <<>>

-----------------------------------------------------------------------------
(* The caller: startWithInput, then executeWithInput's polling *)

Store ==
    /\ caller = "new"
    /\ caller' = "announce"
    /\ snapshot' = [snapshot EXCEPT !.stored = TRUE, !.running = TRUE]
    /\ UNCHANGED <<procVars, cancelled, taken, scanner, waiter, sent>>

AnnounceStart ==
    /\ caller = "announce"
    /\ caller' = "spawn"
    /\ Emit(Event("START", NoLine, FALSE))
    /\ UNCHANGED <<procVars, cancelled, taken, scanner, waiter, snapshot>>

\* cmd.Start and the three goroutines; it refuses a context that is done.
Spawn ==
    /\ caller = "spawn"
    /\ ~cancelled
    /\ caller' = "started"
    /\ proc' = "running"
    /\ scanner' = [c \in Channels |-> "scan"]
    /\ waiter' = "wait"
    /\ UNCHANGED <<exitOK, written, overrun, cancelled, taken, snapshot, sent>>

\* A pipe or the process cannot be created: terminateWithError, first half
SpawnFails ==
    /\ caller = "spawn"
    /\ caller' = "report"
    /\ snapshot' = [snapshot EXCEPT !.running = FALSE, !.outcome = "error"]
    /\ UNCHANGED <<procVars, cancelled, taken, scanner, waiter, sent>>

\* terminateWithError, second half: the event follows the unlock
ReportFailure ==
    /\ caller = "report"
    /\ caller' = "failed"
    /\ Emit(Event("ERROR", NoLine, TRUE))
    /\ UNCHANGED <<procVars, cancelled, taken, scanner, waiter, snapshot>>

\* Execute returns the first snapshot it finds finished, or gives up with
\* its context; a caller of Start stays at "started".
Poll ==
    /\ caller = "started"
    /\ \/ ~snapshot.running /\ caller' = "answered"
       \/ cancelled /\ caller' = "abandoned"
    /\ UNCHANGED <<procVars, cancelled, taken, scanner, waiter, snapshot, sent>>

Cancel ==
    /\ ~cancelled
    /\ cancelled' = TRUE
    /\ UNCHANGED <<procVars, caller, taken, scanner, waiter, snapshot, sent>>

-----------------------------------------------------------------------------
(* The process *)

ProcessWrites(c) ==
    /\ proc = "running"
    /\ ~overrun[c]
    /\ written[c] < MaxLines
    /\ written[c] - taken[c] < PipeSize
    /\ written' = [written EXCEPT ![c] = @ + 1]
    /\ UNCHANGED <<proc, exitOK, overrun, caller, cancelled, taken, scanner,
                   waiter, snapshot, sent>>

\* An overlong line may still fit in the pipe, or leave the process blocked.
ProcessOverruns(c) ==
    /\ MayOverrun
    /\ proc = "running"
    /\ ~overrun[c]
    /\ overrun' = [overrun EXCEPT ![c] = TRUE]
    /\ proc' \in {"running", "blocked"}
    /\ UNCHANGED <<exitOK, written, caller, cancelled, taken, scanner, waiter,
                   snapshot, sent>>

ProcessExits ==
    /\ proc = "running"
    /\ proc' = "gone"
    /\ exitOK' \in BOOLEAN
    /\ UNCHANGED <<written, overrun, caller, cancelled, taken, scanner, waiter,
                   snapshot, sent>>

\* Mutant of Kill: the process is started without the caller's context.
NoKill == FALSE

\* exec.CommandContext kills the process once the context is done.
Kill ==
    /\ cancelled
    /\ proc \in {"running", "blocked"}
    /\ proc' = "gone"
    /\ exitOK' = FALSE
    /\ UNCHANGED <<written, overrun, caller, cancelled, taken, scanner, waiter,
                   snapshot, sent>>

-----------------------------------------------------------------------------
(* scanPipe *)

\* One line goes into the snapshot; a done context ends the scan instead.
ScanLine(c) ==
    /\ scanner[c] = "scan"
    /\ taken[c] < written[c]
    /\ IF cancelled
       THEN /\ scanner' = [scanner EXCEPT ![c] = "done"]
            /\ UNCHANGED <<taken, snapshot>>
       ELSE /\ scanner' = [scanner EXCEPT ![c] = "emit"]
            /\ taken' = [taken EXCEPT ![c] = @ + 1]
            /\ snapshot' = [snapshot EXCEPT !.lines =
                              Trim(Append(@, <<c, taken[c] + 1>>))]
    /\ UNCHANGED <<procVars, caller, cancelled, waiter, sent>>

\* The line's event follows the unlock.
EmitLine(c) ==
    /\ scanner[c] = "emit"
    /\ scanner' = [scanner EXCEPT ![c] = "scan"]
    /\ Emit(Event("UPDATE", <<c, taken[c]>>, FALSE))
    /\ UNCHANGED <<procVars, caller, cancelled, taken, waiter, snapshot>>

\* End of file, or an overlong line, which makes the scanner give up for good
ScanEnds(c) ==
    /\ scanner[c] = "scan"
    /\ taken[c] = written[c]
    /\ overrun[c] \/ proc = "gone"
    /\ scanner' = [scanner EXCEPT ![c] = "done"]
    /\ UNCHANGED <<procVars, caller, cancelled, taken, waiter, snapshot, sent>>

-----------------------------------------------------------------------------
(* The waiting goroutine *)

\* Mutants of ScannersDone: the wait group counts stdout's scanner only; the
\* last emissions of the scanners are not waited for.
StdoutDone == scanner["stdout"] = "done"
ReadersDone == \A c \in Channels : scanner[c] # "scan"

ScannersDone == \A c \in Channels : scanner[c] = "done"

\* wg.Wait, cmd.Wait and the final snapshot; a done context makes cmd.Wait fail.
Finish ==
    /\ waiter = "wait"
    /\ ScannersDone
    /\ proc = "gone"
    /\ waiter' = IF snapshot.lines = <<>> THEN "terminal" ELSE "last"
    /\ snapshot' = [snapshot EXCEPT
                      !.running = FALSE,
                      !.outcome = IF exitOK /\ ~cancelled THEN "ok" ELSE "error"]
    /\ UNCHANGED <<procVars, caller, cancelled, taken, scanner, sent>>

AnnounceExitCode ==
    /\ waiter = "last"
    /\ waiter' = "terminal"
    /\ Emit(Event("UPDATE", LastOutputLine(snapshot.lines), TRUE))
    /\ UNCHANGED <<procVars, caller, cancelled, taken, scanner, snapshot>>

AnnounceEnd ==
    /\ waiter = "terminal"
    /\ waiter' = "done"
    /\ Emit(Event(IF snapshot.outcome = "ok" THEN "STOP" ELSE "ERROR", NoLine, TRUE))
    /\ UNCHANGED <<procVars, caller, cancelled, taken, scanner, snapshot>>

-----------------------------------------------------------------------------

Starter == Store \/ AnnounceStart \/ Spawn \/ SpawnFails \/ ReportFailure
Process == (\E c \in Channels : ProcessWrites(c) \/ ProcessOverruns(c)) \/ ProcessExits
Scanner(c) == ScanLine(c) \/ EmitLine(c) \/ ScanEnds(c)
Waiter == Finish \/ AnnounceExitCode \/ AnnounceEnd

Next ==
    \/ Starter
    \/ Poll
    \/ Cancel
    \/ Process
    \/ Kill
    \/ \E c \in Channels : Scanner(c)
    \/ Waiter

Spec == Init /\ [][Next]_vars

\* The goroutines run; the process writes a bounded number of lines and exits
\* when nothing blocks it; the context need not be cancelled.
FairSpec ==
    /\ Spec
    /\ WF_vars(Starter) /\ WF_vars(Waiter) /\ WF_vars(Kill) /\ WF_vars(ProcessExits)
    /\ \A c \in Channels : WF_vars(Scanner(c))

-----------------------------------------------------------------------------
(* Properties *)

Snapshots == [stored : BOOLEAN, running : BOOLEAN, quiet : BOOLEAN,
              outcome : {"none", "ok", "error"}, lines : Seq(Line)]
Events == [type : {"START", "UPDATE", "STOP", "ERROR"},
           line : Line \cup {NoLine}, exitCode : BOOLEAN]

\* Every variable keeps its type, and the snapshot never outgrows its buffer
\* (runner.go:301 trims after every append).
TypeOK ==
    /\ caller \in {"new", "announce", "spawn", "started", "report", "failed",
                   "answered", "abandoned"}
    /\ proc \in {"none", "running", "blocked", "gone"}
    /\ exitOK \in BOOLEAN
    /\ cancelled \in BOOLEAN
    /\ written \in [Channels -> 0 .. MaxLines]
    /\ taken \in [Channels -> 0 .. MaxLines]
    /\ overrun \in [Channels -> BOOLEAN]
    /\ scanner \in [Channels -> {"off", "scan", "emit", "done"}]
    /\ waiter \in {"off", "wait", "last", "terminal", "done"}
    /\ snapshot \in Snapshots
    /\ Len(snapshot.lines) <= BufferSize
    /\ sent \in Seq(Events)

Terminal == {"STOP", "ERROR"}

\* The events of an execution are START, then updates, then one STOP or ERROR:
\* nothing follows the terminal event, although three goroutines and the caller
\* emit without a lock (runner.go:99, 116, 180-204, 309).
TerminalIsLast ==
    \A i \in DOMAIN sent :
        /\ (sent[i].type = "START") <=> (i = 1)
        /\ sent[i].type \in Terminal => i = Len(sent)

\* Where a sequence of lines holds those of channel c, and whether they follow one
\* another without a gap, the newest of them being the one numbered last
Of(c, lines) == {i \in DOMAIN lines : lines[i][1] = c}
FollowUpTo(c, lines, last) ==
    LET of == Of(c, lines)
    IN  /\ \A i \in of : (\A j \in of : j <= i) => lines[i][2] = last
        /\ \A i, j \in of : i < j /\ (\A k \in of : k <= i \/ j <= k) =>
                lines[j][2] = lines[i][2] + 1

\* The lines that UPDATE events have announced, at the place of their event
Announced ==
    [i \in DOMAIN sent |->
        IF sent[i].type = "UPDATE" /\ ~sent[i].exitCode THEN sent[i].line ELSE NoLine]

\* A snapshot is the newest output: the buffered lines of a channel are the last
\* ones its scanner took, without a gap, and none is dropped before the buffer
\* is full (runner.go:296-303).
BufferIsTail ==
    /\ \A c \in Channels : FollowUpTo(c, snapshot.lines, taken[c])
    /\ LET total == taken["stdout"] + taken["stderr"]
       IN  Len(snapshot.lines) = IF total < BufferSize THEN total ELSE BufferSize

\* A successful execution hid nothing: when the outcome is "ok" and no line
\* overran the scanner, both channels were read to the end and every line was
\* announced once, in its channel's order (runner.go:137-178, 281-318).
SuccessIsComplete ==
    (snapshot.outcome = "ok" /\ ~snapshot.quiet /\ \A c \in Channels : ~overrun[c]) =>
        LET lines == Announced
        IN  \A c \in Channels :
                /\ FollowUpTo(c, lines, written[c])
                /\ \A n \in 1 .. written[c] : \E i \in DOMAIN lines : lines[i] = <<c, n>>

\* What a client is shown is what the process wrote: the newest lines while it
\* runs, and nothing missing once it has succeeded.
SnapshotIsTrue == BufferIsTail /\ SuccessIsComplete

\* A finished snapshot is final: what Execute returned is what every later
\* GetSnapshot returns, and the scanners add nothing (runner.go:244, 296, 160).
FinishedIsFinal ==
    [][snapshot.stored /\ ~snapshot.running => snapshot' = snapshot]_vars

\* A started execution finishes, whatever the output and whenever the context is
\* cancelled, unless its process is blocked in a write of an overlong line that
\* the scanner gave up reading: then Execute waits until its context is done.
FinishesOrBlocked ==
    snapshot.running ~> (~snapshot.running \/ (proc = "blocked" /\ ~cancelled))

\* What listeners are promised: START, each line of each channel once and in
\* order, a result, possibly a line repeated with the exit code, one last event that
\* agrees with the result (module CommandLog).  A line has been told once its
\* scanner has left "emit" (runner.go:309).
Log == INSTANCE CommandLog WITH
           log    <- sent,
           told   <- [c \in Channels |-> IF scanner[c] = "emit" THEN taken[c] - 1
                                         ELSE taken[c]],
           result <- snapshot.outcome,
           ended  <- waiter = "done" \/ caller = "failed",
           quiet  <- snapshot.quiet
KeepsTheLog == Log!Spec

\* The runner's test waits for a finished snapshot and then requires the
\* terminal event among those received (runner_test.go:79, 104).
FinishedIsAnnounced ==
    (caller = "started" /\ ~snapshot.running /\ ~snapshot.quiet) =>
        \E i \in DOMAIN sent : sent[i].type \in Terminal

=============================================================================
