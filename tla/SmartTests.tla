----------------------------- MODULE SmartTests -----------------------------
(***************************************************************************)
(* SmartService: the self-tests of one disk.                               *)
(*                                                                         *)
(* A request starts the disk's test under the mutex of the service.  The   *)
(* library starts a goroutine that follows the test and returns at once;   *)
(* the goroutine looks at the disk every few seconds and tells its         *)
(* progress until the test is over or its expected time has gone by.  Each *)
(* report is an event for the web interface.  The unit of time is one tick *)
(* of such a goroutine.                                                    *)
(***************************************************************************)
EXTENDS Naturals

CONSTANTS
    None,
    Callers,     \* requests
    Expected,    \* the ticks that the test should take
    MaxTests,    \* bound on the tests that are started
    MaxFailures  \* bound on the looks at the disk that fail

VARIABLES
    mutex,    \* s.mutex: who holds it
    pc,       \* where each request is
    test,     \* the number of the test the disk runs, None when it runs none
    started,  \* how many tests there have been
    poller,   \* where the goroutine of each test is
    elapsed,  \* how long each goroutine has followed its test
    told,     \* the last event of a test: whether it says that a test runs
    failures

vars == <<mutex, pc, test, started, poller, elapsed, told, failures>>

Tests == 1 .. started

TypeOK ==
    /\ mutex \in Callers \cup {None} /\ pc \in [Callers -> {"idle", "final"}]
    /\ started \in 0 .. MaxTests /\ test \in Tests \cup {None}
    /\ poller \in [1 .. MaxTests -> {"none", "born", "polls", "done"}]
    /\ elapsed \in [1 .. MaxTests -> 0 .. Expected]
    /\ told \in {"nothing", "running", "over"} /\ failures \in 0 .. MaxFailures

Init ==
    /\ mutex = None /\ pc = [c \in Callers |-> "idle"]
    /\ test = None /\ started = 0
    /\ poller = [n \in 1 .. MaxTests |-> "none"] /\ elapsed = [n \in 1 .. MaxTests |-> 0]
    /\ told = "nothing" /\ failures = 0

(* RunSelfTestWithProgress: the test starts and its goroutine with it.  A  *)
(* disk that runs a test refuses another, and the request changes nothing. *)
StartSelfTest(c) ==
    /\ pc[c] = "idle" /\ mutex = None /\ test = None /\ started < MaxTests
    /\ mutex' = c /\ pc' = [pc EXCEPT ![c] = "final"]
    /\ started' = started + 1 /\ test' = started + 1
    /\ poller' = [poller EXCEPT ![started + 1] = "born"]
    /\ UNCHANGED <<elapsed, told, failures>>

(* The request's last event, "completed without error".                    *)
EmitFinal(c) ==
    /\ pc[c] = "final"
    /\ pc' = [pc EXCEPT ![c] = "idle"] /\ mutex' = None
    /\ told' = "over"
    /\ UNCHANGED <<test, started, poller, elapsed, failures>>

(* An abort tells nobody, neither the goroutine nor the web interface.     *)
AbortSelfTest(c) ==
    /\ pc[c] = "idle" /\ mutex = None /\ test # None
    /\ test' = None
    /\ UNCHANGED <<mutex, pc, started, poller, elapsed, told, failures>>

(* The disk finishes its test.                                             *)
TestEnds ==
    /\ test # None /\ test' = None
    /\ UNCHANGED <<mutex, pc, started, poller, elapsed, told, failures>>

(* "Test started"                                                          *)
TellStarted(n) ==
    /\ poller[n] = "born"
    /\ poller' = [poller EXCEPT ![n] = "polls"]
    /\ told' = "running"
    /\ UNCHANGED <<mutex, pc, test, started, elapsed, failures>>

Later(n) == IF elapsed[n] < Expected THEN elapsed[n] + 1 ELSE Expected

(* Mutant of Over: the expected time does not count.                       *)
OverWhenItEnds(n) == test = None

(* A look at the disk does not tell whose test runs, and the expected time *)
(* counts as the test's end.                                               *)
Over(n) == test = None \/ Later(n) = Expected

(* One tick: the progress is told, and a second time when all is over.     *)
(* All of these events say that the test runs.                             *)
Poll(n) ==
    /\ poller[n] = "polls"
    /\ elapsed' = [elapsed EXCEPT ![n] = Later(n)]
    /\ poller' = [poller EXCEPT ![n] = IF Over(n) THEN "done" ELSE @]
    /\ told' = "running"
    /\ UNCHANGED <<mutex, pc, test, started, failures>>

(* The disk cannot be read: the error is told, and nothing is decided.     *)
PollFails(n) ==
    /\ poller[n] = "polls" /\ failures < MaxFailures
    /\ failures' = failures + 1
    /\ elapsed' = [elapsed EXCEPT ![n] = Later(n)]
    /\ told' = "running"
    /\ UNCHANGED <<mutex, pc, test, started, poller>>

Next ==
    \/ \E c \in Callers : StartSelfTest(c) \/ EmitFinal(c) \/ AbortSelfTest(c)
    \/ TestEnds
    \/ \E n \in Tests : TellStarted(n) \/ Poll(n) \/ PollFails(n)

(* Goroutines go on and their ticker ticks.  Nothing is assumed of the     *)
(* disk: a test may last for ever.                                         *)
Spec ==
    /\ Init /\ [][Next]_vars
    /\ \A c \in Callers : WF_vars(EmitFinal(c))
    /\ \A n \in 1 .. MaxTests : WF_vars(n \in Tests /\ (TellStarted(n) \/ Poll(n)))

-----------------------------------------------------------------------------
(* Every goroutine that follows a test ends, be the disk's test finished,  *)
(* aborted, replaced by another one or endless: otherwise the disk is      *)
(* woken by it for ever.                                                   *)
PollersEnd == \A n \in 1 .. MaxTests : poller[n] \in {"born", "polls"} ~> poller[n] = "done"

(* What StartSelfTest's comment says of its last event (smart_service.go   *)
(* line 379): the web interface always receives running = false after the  *)
(* test finishes.  The event is sent when the test has only been started,  *)
(* and the events after it all say that the test runs.                     *)
ToldWhenOver ==
    (test = None /\ mutex = None /\ \A n \in Tests : poller[n] = "done") => told # "running"

(* Only one goroutine at a time follows the disk.  An abort leaves the old *)
(* one on its way, and a test that is started before its next tick is told *)
(* of by two.                                                              *)
OneFollows == \A m, n \in Tests : poller[m] = "polls" /\ poller[n] = "polls" => m = n

=============================================================================
