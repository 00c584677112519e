---------------------------- MODULE CommandsProofs ----------------------------
(***************************************************************************)
(* What holds of CommandExec for every size of buffer and pipe and every   *)
(* number of lines, and of UserAccounts for any users and requests.        *)
(***************************************************************************)
EXTENDS MCCommands, SequenceTheorems, WellFoundedInduction, TLAPS

-----------------------------------------------------------------------------
(* Facts about numbers and sequences *)

Below == {p \in Nat \X Nat : p[1] < p[2]}

LEMMA LeastExists ==
    ASSUME NEW T \in SUBSET Nat, T # {}
    PROVE  \E x \in T : \A y \in T : x <= y
<1>1. Below = OpToRel(<, Nat)
  BY DEF OpToRel, Below
<1>2. IsWellFoundedOn(Below, Nat)
  BY <1>1, NatLessThanWellFounded, Zenon
<1>3. PICK x \in T : \A y \in T : ~(<<y, x>> \in Below)
  BY <1>2, WFMin
<1>4. \A a, b \in Nat : <<a, b>> \in Below <=> a < b
  BY DEF Below
<1>5. ASSUME NEW y \in T
      PROVE  x <= y
  <2>1. y \in Nat /\ x \in Nat /\ ~(y < x)
    BY <1>3, <1>4
  <2> QED  BY <2>1
<1> QED  BY <1>5

LEMMA GreatestExists ==
    ASSUME NEW n \in Nat, NEW T \in SUBSET (1 .. n), T # {}
    PROVE  \E x \in T : \A y \in T : y <= x
<1> DEFINE Far == {n - x : x \in T}
<1>1. ASSUME NEW w \in Far
      PROVE  w \in Nat
  <2>1. PICK x \in T : w = n - x
    OBVIOUS
  <2> QED  BY <2>1
<1>2. Far \in SUBSET Nat /\ Far # {}
  <2>1. Far # {}
    OBVIOUS
  <2> QED  BY <1>1, <2>1
<1>3. PICK w \in Far : \A y \in Far : w <= y
  BY <1>2, LeastExists
<1>4. PICK x \in T : w = n - x
  BY <1>3
<1>5. \A y \in T : n - x <= n - y
  BY <1>3, <1>4
<1> QED  BY <1>5

(* Trimming keeps the length, drops no last line and invents none.          *)
LEMMA TrimKeeps ==
    ASSUME NEW S, NEW lines \in Seq(S)
    PROVE  /\ Trim(lines) \in Seq(S)
           /\ Len(Trim(lines)) <= BufferSize
           /\ lines # <<>> => Trim(lines) # <<>>
           /\ \A i \in DOMAIN Trim(lines) : \E j \in DOMAIN lines : Trim(lines)[i] = lines[j]
<1>1. Len(lines) \in Nat /\ DOMAIN lines = 1 .. Len(lines) /\ BufferSize \in Nat \ {0}
  BY SizesAssumption
<1>2. CASE Len(lines) > BufferSize
  <2> DEFINE m == Len(lines) - BufferSize + 1
  <2>1. Trim(lines) = SubSeq(lines, m, Len(lines))
    BY <1>2 DEF Trim
  <2>2. m \in 1 .. Len(lines)
    BY <1>1, <1>2
  <2>3. /\ SubSeq(lines, m, Len(lines)) \in Seq(S)
        /\ Len(SubSeq(lines, m, Len(lines))) = BufferSize
        /\ \A i \in 1 .. BufferSize : SubSeq(lines, m, Len(lines))[i] = lines[m + i - 1]
    BY <1>1, <1>2, <2>2, SubSeqProperties
  <2>4. ASSUME NEW i \in DOMAIN Trim(lines)
        PROVE  \E j \in DOMAIN lines : Trim(lines)[i] = lines[j]
    <3>1. i \in 1 .. BufferSize
      BY <1>1, <2>1, <2>3
    <3>2. m + i - 1 \in DOMAIN lines
      BY <1>1, <1>2, <3>1
    <3> QED  BY <2>1, <2>3, <3>1, <3>2
  <2>5. Trim(lines) # <<>>
    <3>1. Len(Trim(lines)) = BufferSize
      BY <2>1, <2>3
    <3>2. BufferSize # 0 /\ Len(<<>>) = 0
      BY <1>1
    <3> QED  BY <3>1, <3>2
  <2> QED  BY <1>1, <2>1, <2>3, <2>4, <2>5
<1>3. CASE ~(Len(lines) > BufferSize)
  BY <1>1, <1>3 DEF Trim
<1> QED  BY <1>2, <1>3

(* The line repeated with the exit code is one of the buffered lines.       *)
LEMMA LastLineIsBuffered ==
    ASSUME NEW lines \in Seq(Line), lines # <<>>
    PROVE  \E i \in DOMAIN lines : LastOutputLine(lines) = lines[i]
<1> DEFINE errs == {i \in DOMAIN lines : lines[i][1] = "stderr"}
           from == IF errs = {} THEN DOMAIN lines ELSE errs
<1>1. Len(lines) \in Nat /\ DOMAIN lines = 1 .. Len(lines) /\ DOMAIN lines # {}
  OBVIOUS
<1>2. from \in SUBSET (1 .. Len(lines)) /\ from # {}
  BY <1>1
<1>3. \E i \in from : \A j \in from : j <= i
  BY <1>1, <1>2, GreatestExists
<1> HIDE DEF from
<1>4. (CHOOSE i \in from : \A j \in from : j <= i) \in from
  BY <1>3
<1>5. LastOutputLine(lines) = lines[CHOOSE i \in from : \A j \in from : j <= i]
  BY DEF LastOutputLine, from
<1> QED  BY <1>1, <1>2, <1>4, <1>5

-----------------------------------------------------------------------------
(* The invariant *)

(* How far the caller, the scanners and the waiter are, and what the        *)
(* snapshot and the events show of it.                                      *)
BeforeStart == caller \in {"new", "announce", "spawn", "report", "failed"}

Phases ==
    /\ BeforeStart => waiter = "off"
    /\ ~BeforeStart => waiter # "off"
    /\ waiter = "off" => \A c \in Channels : scanner[c] = "off" /\ taken[c] = 0
    /\ waiter \in {"last", "terminal", "done"} => ScannersDone
    /\ waiter = "last" => snapshot.lines # <<>>
    /\ \A c \in Channels : scanner[c] = "emit" => taken[c] > 0

Decided ==
    /\ caller \in {"report", "failed"} => snapshot.outcome = "error"
    /\ snapshot.outcome = "none" <=>
           caller \notin {"report", "failed"} /\ waiter \in {"off", "wait"}
    /\ snapshot.stored <=> caller # "new"
    /\ snapshot.running <=> snapshot.stored /\ snapshot.outcome = "none"

Begun ==
    /\ caller \in {"new", "announce"} => sent = <<>>
    /\ caller \notin {"new", "announce"} => snapshot.quiet \/ sent # <<>>

(* A buffered line has been taken from its channel, which has written it.   *)
LinesAreTaken ==
    /\ \A c \in Channels : taken[c] <= written[c]
    /\ \A i \in DOMAIN snapshot.lines :
           \E c \in Channels, n \in 1 .. MaxLines :
               snapshot.lines[i] = <<c, n>> /\ n <= taken[c]

Inv == TypeOK /\ Phases /\ Decided /\ Begun /\ LinesAreTaken

LEMMA InvInit == Init => Inv
<1> SUFFICES ASSUME Init
             PROVE  Inv
  OBVIOUS
<1>1. PICK quiet \in BOOLEAN :
         snapshot = [stored |-> FALSE, running |-> FALSE, quiet |-> quiet,
                     outcome |-> "none", lines |-> <<>>]
  BY DEF Init
<1>2. TypeOK
  <2>1. <<>> \in Seq(Line) /\ <<>> \in Seq(Events) /\ Len(<<>>) = 0
    OBVIOUS
  <2>2. 0 \in 0 .. MaxLines /\ 0 <= BufferSize
    BY SizesAssumption
  <2>3. snapshot \in Snapshots /\ Len(snapshot.lines) <= BufferSize
    BY <1>1, <2>1, <2>2 DEF Snapshots
  <2> QED  BY <2>1, <2>2, <2>3 DEF Init, TypeOK
<1> QED  BY <1>1, <1>2 DEF Init, Inv, Phases, Decided, Begun, LinesAreTaken, BeforeStart

(* An emitted event is an event, and there is one unless the execution is   *)
(* quiet.                                                                   *)
LEMMA EmitStep ==
    ASSUME TypeOK, NEW e \in Events, Emit(e)
    PROVE  /\ sent' \in Seq(Events)
           /\ snapshot.quiet \/ sent' # <<>>
<1>1. Append(sent, e) \in Seq(Events) /\ Append(sent, e) # <<>>
  BY DEF TypeOK
<1> QED  BY <1>1 DEF TypeOK, Emit

LEMMA EventType ==
    ASSUME NEW t \in {"START", "UPDATE", "STOP", "ERROR"}, NEW l \in Line \cup {NoLine},
           NEW code \in BOOLEAN
    PROVE  Event(t, l, code) \in Events
  BY DEF Event, Events

LEMMA TakenIsLine ==
    ASSUME TypeOK, NEW c \in Channels, taken[c] > 0
    PROVE  <<c, taken[c]>> \in Line
  BY SizesAssumption DEF TypeOK, Line

LEMMA RepeatedIsTaken ==
    ASSUME Inv, snapshot.lines # <<>>
    PROVE  \E c \in Channels, n \in 1 .. MaxLines :
               LastOutputLine(snapshot.lines) = <<c, n>> /\ n <= taken[c]
<1>1. snapshot.lines \in Seq(Line)
  BY DEF Inv, TypeOK, Snapshots
<1>2. PICK i \in DOMAIN snapshot.lines : LastOutputLine(snapshot.lines) = snapshot.lines[i]
  BY <1>1, LastLineIsBuffered
<1> QED  BY <1>2 DEF Inv, LinesAreTaken

(* The one step that changes the buffer.                                    *)
LEMMA ScanLineStep ==
    ASSUME Inv, NEW c \in Channels, ScanLine(c)
    PROVE  Inv'
<1> USE SizesAssumption DEF Inv
<1>1. CASE cancelled
  BY ZenonT(60), <1>1 DEF ScanLine, TypeOK, Phases, Decided, Begun, LinesAreTaken, BeforeStart, ScannersDone,
     procVars
<1>2. CASE ~cancelled
  <2> DEFINE line == <<c, taken[c] + 1>>
             more == Append(snapshot.lines, line)
  <2>1. /\ scanner[c] = "scan" /\ scanner' = [scanner EXCEPT ![c] = "emit"]
        /\ taken[c] < written[c] /\ taken' = [taken EXCEPT ![c] = @ + 1]
        /\ snapshot' = [snapshot EXCEPT !.lines = Trim(more)]
        /\ UNCHANGED <<proc, exitOK, written, overrun, caller, cancelled, waiter, sent>>
    BY <1>2 DEF ScanLine, procVars
  <2>2. /\ snapshot.lines \in Seq(Line) /\ line \in Line
        /\ taken[c] \in 0 .. MaxLines /\ taken[c] + 1 \in 1 .. MaxLines
    BY <2>1 DEF TypeOK, Snapshots, Line
  <2>3. more \in Seq(Line) /\ more # <<>>
    BY <2>2, AppendProperties
  <2>4. /\ Trim(more) \in Seq(Line) /\ Len(Trim(more)) <= BufferSize
        /\ Trim(more) # <<>>
        /\ \A i \in DOMAIN Trim(more) : \E j \in DOMAIN more : Trim(more)[i] = more[j]
    BY <2>3, TrimKeeps
  <2>5. snapshot' \in Snapshots /\ snapshot'.lines = Trim(more)
        /\ snapshot'.quiet = snapshot.quiet /\ snapshot'.outcome = snapshot.outcome
    BY <2>1, <2>4 DEF TypeOK, Snapshots
  <2>6. TypeOK'
    BY <2>1, <2>2, <2>4, <2>5 DEF TypeOK
  <2>7. Phases' /\ Decided' /\ Begun'
    BY <2>1, <2>2, <2>4, <2>5 DEF TypeOK, Phases, Decided, Begun, BeforeStart, ScannersDone
  <2>8. ASSUME NEW i \in DOMAIN snapshot'.lines
        PROVE  \E d \in Channels, n \in 1 .. MaxLines :
                   snapshot'.lines[i] = <<d, n>> /\ n <= taken'[d]
    <3>1. PICK j \in DOMAIN more : snapshot'.lines[i] = more[j]
      BY <2>4, <2>5
    <3>2. CASE j \in DOMAIN snapshot.lines
      <4>1. more[j] = snapshot.lines[j]
        BY <2>2, <3>2
      <4>2. PICK d \in Channels, n \in 1 .. MaxLines :
                snapshot.lines[j] = <<d, n>> /\ n <= taken[d]
        BY <3>2 DEF LinesAreTaken
      <4>3. taken[d] <= taken'[d]
        BY <2>1, <2>2 DEF TypeOK
      <4>4. n <= taken'[d]
        BY <2>6, <4>2, <4>3 DEF TypeOK
      <4> QED  BY <3>1, <4>1, <4>2, <4>4
    <3>3. CASE j \notin DOMAIN snapshot.lines
      <4>1. more[j] = line
        BY <2>2, <3>3
      <4>2. taken'[c] = taken[c] + 1
        BY <2>1 DEF TypeOK
      <4> QED  BY <2>2, <3>1, <4>1, <4>2
    <3> QED  BY <3>2, <3>3
  <2>9. LinesAreTaken'
    <3>1. \A d \in Channels : taken'[d] <= written'[d]
      BY <2>1, <2>2 DEF TypeOK, LinesAreTaken
    <3> QED  BY <2>8, <3>1 DEF LinesAreTaken
  <2> QED  BY <2>6, <2>7, <2>9
<1> QED  BY <1>1, <1>2

LEMMA InvStep == Inv /\ [Next]_vars => Inv'
<1> SUFFICES ASSUME Inv, [Next]_vars
             PROVE  Inv'
  OBVIOUS
<1> USE SizesAssumption DEF Inv
<1> USE DEF Phases, Decided, Begun, LinesAreTaken, BeforeStart, ScannersDone
<1>1. CASE Store
  BY <1>1 DEF Store, TypeOK, Snapshots, procVars
<1>2. CASE AnnounceStart
  <2>1. Event("START", NoLine, FALSE) \in Events
    BY EventType
  <2> QED  BY <1>2, <2>1, EmitStep DEF AnnounceStart, TypeOK, procVars
<1>3. CASE Spawn
  BY <1>3 DEF Spawn, TypeOK
<1>4. CASE SpawnFails
  BY <1>4 DEF SpawnFails, TypeOK, Snapshots, procVars
<1>5. CASE ReportFailure
  <2>1. Event("ERROR", NoLine, TRUE) \in Events
    BY EventType
  <2> QED  BY <1>5, <2>1, EmitStep DEF ReportFailure, TypeOK, procVars
<1>6. CASE Poll
  BY <1>6 DEF Poll, TypeOK, procVars
<1>7. CASE Cancel
  BY <1>7 DEF Cancel, TypeOK, procVars
<1>8. CASE Process
  <2>1. ASSUME NEW c \in Channels, ProcessWrites(c)
        PROVE  Inv'
    BY <2>1 DEF ProcessWrites, TypeOK
  <2>2. ASSUME NEW c \in Channels, ProcessOverruns(c)
        PROVE  Inv'
    BY <2>2 DEF ProcessOverruns, TypeOK
  <2>3. ASSUME ProcessExits
        PROVE  Inv'
    BY <2>3 DEF ProcessExits, TypeOK
  <2> QED  BY <1>8, <2>1, <2>2, <2>3 DEF Process
<1>9. CASE Kill
  BY <1>9 DEF Kill, TypeOK
<1>10. ASSUME NEW c \in Channels, Scanner(c)
       PROVE  Inv'
  <2>1. CASE EmitLine(c)
    <3>1. taken[c] > 0
      BY <2>1 DEF EmitLine, TypeOK
    <3>2. Event("UPDATE", <<c, taken[c]>>, FALSE) \in Events
      BY <3>1, TakenIsLine, EventType
    <3> QED  BY <2>1, <3>2, EmitStep DEF EmitLine, TypeOK, procVars
  <2>2. CASE ScanEnds(c)
    BY <2>2 DEF ScanEnds, TypeOK, procVars
  <2> QED  BY <1>10, <2>1, <2>2, ScanLineStep DEF Scanner
<1>11. CASE Finish
  BY <1>11 DEF Finish, TypeOK, Snapshots, procVars
<1>12. CASE AnnounceExitCode
  <2>1. PICK c \in Channels, n \in 1 .. MaxLines :
            LastOutputLine(snapshot.lines) = <<c, n>> /\ n <= taken[c]
    BY <1>12, RepeatedIsTaken DEF AnnounceExitCode
  <2>2. Event("UPDATE", LastOutputLine(snapshot.lines), TRUE) \in Events
    BY <2>1, EventType DEF Line
  <2> QED  BY <1>12, <2>2, EmitStep DEF AnnounceExitCode, TypeOK, procVars
<1>13. CASE AnnounceEnd
  <2>1. Event(IF snapshot.outcome = "ok" THEN "STOP" ELSE "ERROR", NoLine, TRUE) \in Events
    BY EventType
  <2> QED  BY <1>13, <2>1, EmitStep DEF AnnounceEnd, TypeOK, procVars
<1>14. CASE UNCHANGED vars
  BY <1>14 DEF vars, procVars, TypeOK
<1> QED
  BY <1>1, <1>2, <1>3, <1>4, <1>5, <1>6, <1>7, <1>8, <1>9, <1>10, <1>11, <1>12, <1>13, <1>14
  DEF Next, Starter, Waiter

(* Every reachable state is well typed, and the snapshot never holds more   *)
(* lines than its buffer.                                                   *)
THEOREM TypeCorrect == Spec => []TypeOK
<1>1. Inv => TypeOK
  BY DEF Inv
<1> QED  BY <1>1, InvInit, InvStep, PTL DEF Spec

-----------------------------------------------------------------------------
(* The order of the events *)

Ended == waiter = "done" \/ caller = "failed"
Unended == \A i \in DOMAIN sent : sent[i].type \notin Terminal
OrderInv == TerminalIsLast /\ (~Ended => Unended)

(* An event emitted before the end keeps the order.                         *)
LEMMA EmitInOrder ==
    ASSUME TypeOK, TerminalIsLast, Unended, NEW e \in Events, Emit(e),
           snapshot.quiet \/ (e.type = "START" <=> sent = <<>>)
    PROVE  TerminalIsLast' /\ (e.type \notin Terminal => Unended')
<1>1. CASE snapshot.quiet
  BY <1>1 DEF Emit, TerminalIsLast, Unended
<1>2. CASE ~snapshot.quiet
  <2>1. sent \in Seq(Events) /\ sent' = Append(sent, e)
    BY <1>2 DEF Emit, TypeOK
  <2>2. /\ Len(sent) \in Nat /\ Len(sent') = Len(sent) + 1
        /\ DOMAIN sent = 1 .. Len(sent) /\ DOMAIN sent' = 1 .. Len(sent')
        /\ \A i \in 1 .. Len(sent) : sent'[i] = sent[i]
        /\ sent'[Len(sent) + 1] = e
    BY <2>1, AppendProperties
  <2>3. sent = <<>> <=> Len(sent) = 0
    BY <2>1
  <2>4. ASSUME NEW i \in DOMAIN sent'
        PROVE  /\ (sent'[i].type = "START") <=> (i = 1)
               /\ sent'[i].type \in Terminal => i = Len(sent')
               /\ e.type \notin Terminal => sent'[i].type \notin Terminal
    <3>1. CASE i \in DOMAIN sent
      BY <2>2, <3>1 DEF TerminalIsLast, Unended
    <3>2. CASE i = Len(sent) + 1
      BY <1>2, <2>2, <2>3, <3>2
    <3> QED  BY <2>2, <3>1, <3>2
  <2> QED  BY <2>4 DEF TerminalIsLast, Unended
<1> QED  BY <1>1, <1>2

LEMMA OrderStep == Inv /\ OrderInv /\ [Next]_vars => OrderInv'
<1> SUFFICES ASSUME Inv, OrderInv, [Next]_vars
             PROVE  OrderInv'
  OBVIOUS
<1>1. ASSUME sent' = sent, Ended' = Ended
      PROVE  OrderInv'
  BY <1>1 DEF OrderInv, TerminalIsLast, Unended
<1>2. ASSUME NEW e \in Events, Emit(e), ~Ended,
             snapshot.quiet \/ (e.type = "START" <=> sent = <<>>),
             e.type \in Terminal => Ended'
      PROVE  OrderInv'
  BY <1>2, EmitInOrder DEF OrderInv, Inv
<1> USE DEF Ended
<1>3. CASE AnnounceStart
  <2>1. Event("START", NoLine, FALSE) \in Events
    BY EventType
  <2> QED
    BY <1>2, <1>3, <2>1 DEF AnnounceStart, Inv, Begun, Phases, BeforeStart, Event, Terminal
<1>4. CASE ReportFailure
  <2>1. Event("ERROR", NoLine, TRUE) \in Events
    BY EventType
  <2> QED
    BY <1>2, <1>4, <2>1 DEF ReportFailure, Inv, Begun, Phases, BeforeStart, Event, Terminal
<1>5. ASSUME NEW c \in Channels, EmitLine(c)
      PROVE  OrderInv'
  <2>1. taken[c] > 0
    BY <1>5 DEF EmitLine, Inv, Phases
  <2>2. Event("UPDATE", <<c, taken[c]>>, FALSE) \in Events
    BY <2>1, TakenIsLine, EventType DEF Inv
  <2>3. caller \notin {"new", "announce", "failed"} /\ waiter # "done"
    BY <1>5 DEF EmitLine, Inv, Phases, BeforeStart, ScannersDone
  <2> QED
    BY <1>2, <1>5, <2>2, <2>3 DEF EmitLine, Inv, Begun, Event, Terminal
<1>6. CASE AnnounceExitCode
  <2>1. PICK c \in Channels, n \in 1 .. MaxLines :
            LastOutputLine(snapshot.lines) = <<c, n>> /\ n <= taken[c]
    BY <1>6, RepeatedIsTaken DEF AnnounceExitCode, Inv, Phases
  <2>2. Event("UPDATE", LastOutputLine(snapshot.lines), TRUE) \in Events
    BY <2>1, EventType DEF Line
  <2>3. caller \notin {"new", "announce", "failed"}
    BY <1>6 DEF AnnounceExitCode, Inv, Phases, BeforeStart
  <2> QED
    BY <1>2, <1>6, <2>2, <2>3 DEF AnnounceExitCode, Inv, Begun, Event, Terminal
<1>7. CASE AnnounceEnd
  <2>1. Event(IF snapshot.outcome = "ok" THEN "STOP" ELSE "ERROR", NoLine, TRUE) \in Events
    BY EventType
  <2>2. caller \notin {"new", "announce", "failed"}
    BY <1>7 DEF AnnounceEnd, Inv, Phases, BeforeStart
  <2> QED
    BY <1>2, <1>7, <2>1, <2>2 DEF AnnounceEnd, Inv, Begun, Event, Terminal
<1>8. CASE Store \/ Spawn \/ SpawnFails
  BY <1>1, <1>8 DEF Store, Spawn, SpawnFails, procVars, Inv, Phases, BeforeStart
<1>9. CASE Poll \/ Cancel \/ Process \/ Kill
  BY <1>1, <1>9 DEF Poll, Cancel, Process, Kill, ProcessWrites, ProcessOverruns, ProcessExits,
     procVars
<1>10. ASSUME NEW c \in Channels, ScanLine(c) \/ ScanEnds(c)
       PROVE  OrderInv'
  BY <1>1, <1>10 DEF ScanLine, ScanEnds, procVars
<1>11. CASE Finish
  BY <1>1, <1>11 DEF Finish, procVars
<1>12. CASE UNCHANGED vars
  BY <1>1, <1>12 DEF vars, procVars
<1> QED
  BY <1>3, <1>4, <1>5, <1>6, <1>7, <1>8, <1>9, <1>10, <1>11, <1>12
  DEF Next, Starter, Scanner, Waiter

(* START comes first and the STOP or ERROR last, however the two scanners,  *)
(* the waiter and the caller interleave.                                    *)
THEOREM EndComesLast == Spec => []TerminalIsLast
<1>1. Init => OrderInv
  BY DEF Init, OrderInv, TerminalIsLast, Unended
<1>2. OrderInv => TerminalIsLast
  BY DEF OrderInv
<1> QED  BY <1>1, <1>2, InvInit, InvStep, OrderStep, PTL DEF Spec

-----------------------------------------------------------------------------
(* CommandExec implements CommandLog *)

LEMMA LogStep == Inv /\ [Next]_vars => [Log!Next]_(Log!vars)
<1> SUFFICES ASSUME Inv, [Next]_vars
             PROVE  Log!Next \/ UNCHANGED Log!vars
  OBVIOUS
<1> DEFINE told == [c \in Channels |-> IF scanner[c] = "emit" THEN taken[c] - 1 ELSE taken[c]]
<1>0. ASSUME sent' = sent, told' = told, snapshot'.outcome = snapshot.outcome,
             (waiter = "done" \/ caller = "failed")' = (waiter = "done" \/ caller = "failed"),
             snapshot'.quiet = snapshot.quiet
      PROVE  UNCHANGED Log!vars
  BY <1>0 DEF Log!vars
<1>1. CASE Store \/ Spawn \/ Poll \/ Cancel \/ Process \/ Kill
  <2>1. UNCHANGED <<sent, taken>> /\ snapshot'.outcome = snapshot.outcome
        /\ snapshot'.quiet = snapshot.quiet
        /\ (waiter = "done" \/ caller = "failed")' = (waiter = "done" \/ caller = "failed")
        /\ \A c \in Channels : scanner'[c] = "emit" <=> scanner[c] = "emit"
    BY <1>1 DEF Store, Spawn, Poll, Cancel, Process, Kill, ProcessWrites, ProcessOverruns,
       ProcessExits, procVars, Inv, TypeOK, Snapshots, Phases, BeforeStart
  <2> QED  BY <1>0, <2>1
<1>2. CASE AnnounceStart
  BY <1>2 DEF AnnounceStart, Emit, Event, Log!Next, Log!Begin, Log!Tell, Log!Event, Inv, Begun,
     Decided, Phases, BeforeStart
<1>3. CASE SpawnFails
  BY <1>3 DEF SpawnFails, procVars, Log!Next, Log!Decide, Log!Open, Inv, TypeOK, Snapshots,
     Begun, Decided, Phases, BeforeStart
<1>4. CASE ReportFailure
  BY <1>4 DEF ReportFailure, Emit, Event, procVars, Log!Next, Log!End, Log!Open, Log!Tell,
     Log!Event, Inv, Begun, Decided, Phases, BeforeStart
<1>5. ASSUME NEW c \in Channels, ScanLine(c)
      PROVE  UNCHANGED Log!vars
  <2>1. CASE cancelled
    BY <1>0, <1>5, <2>1 DEF ScanLine, procVars, Inv, TypeOK
  <2>2. CASE ~cancelled
    <3>1. told' = told
      <4>1. /\ scanner[c] = "scan" /\ scanner' = [scanner EXCEPT ![c] = "emit"]
            /\ taken' = [taken EXCEPT ![c] = @ + 1]
        BY <1>5, <2>2 DEF ScanLine
      <4>2. /\ scanner'[c] = "emit" /\ taken'[c] = taken[c] + 1 /\ taken[c] \in Int
            /\ \A d \in Channels \ {c} : scanner'[d] = scanner[d] /\ taken'[d] = taken[d]
        BY <4>1, SizesAssumption DEF Inv, TypeOK
      <4>3. (IF scanner'[c] = "emit" THEN taken'[c] - 1 ELSE taken'[c]) = taken[c]
        BY <4>2
      <4> QED  BY <4>1, <4>2, <4>3
    <3>2. UNCHANGED <<sent, waiter, caller>> /\ snapshot'.outcome = snapshot.outcome
          /\ snapshot'.quiet = snapshot.quiet
      BY <1>5, <2>2 DEF ScanLine, procVars, Inv, TypeOK, Snapshots
    <3> QED  BY <1>0, <3>1, <3>2
  <2> QED  BY <2>1, <2>2
<1>6. ASSUME NEW c \in Channels, EmitLine(c)
      PROVE  Log!TellLine(c)
  <2>1. scanner[c] = "emit" /\ scanner' = [scanner EXCEPT ![c] = "scan"] /\ taken[c] > 0
        /\ UNCHANGED <<caller, taken, waiter, snapshot>>
        /\ Emit(Event("UPDATE", <<c, taken[c]>>, FALSE))
    BY <1>6 DEF EmitLine, procVars, Inv, Phases
  <2>2. taken[c] \in 1 .. MaxLines
    BY <2>1, SizesAssumption DEF Inv, TypeOK
  <2>3. told[c] = taken[c] - 1 /\ told[c] + 1 = taken[c] /\ told[c] < MaxLines
    BY <2>1, <2>2, SizesAssumption
  <2>4. told' = [told EXCEPT ![c] = told[c] + 1]
    BY <2>1, <2>2, <2>3 DEF Inv, TypeOK
  <2>5. caller \notin {"new", "announce", "report", "failed"} /\ waiter \in {"off", "wait"}
    BY <2>1 DEF Inv, TypeOK, Phases, BeforeStart, ScannersDone
  <2>6. (snapshot.quiet \/ sent # <<>>) /\ snapshot.outcome = "none"
    BY <2>5 DEF Inv, Begun, Decided
  <2>7. sent' = IF snapshot.quiet THEN sent
                ELSE Append(sent, [type |-> "UPDATE", line |-> <<c, told[c] + 1>>,
                                   exitCode |-> FALSE])
    BY <2>1, <2>3 DEF Emit, Event
  <2> QED
    BY <2>1, <2>3, <2>4, <2>5, <2>6, <2>7 DEF Log!TellLine, Log!Open, Log!Tell, Log!Event
<1>7. ASSUME NEW c \in Channels, ScanEnds(c)
      PROVE  UNCHANGED Log!vars
  BY <1>0, <1>7 DEF ScanEnds, procVars, Inv, TypeOK
<1>8. CASE Finish
  <2>1. UNCHANGED <<sent, taken, scanner, caller>> /\ waiter = "wait"
        /\ waiter' \in {"terminal", "last"}
        /\ snapshot'.outcome \in {"ok", "error"} /\ snapshot'.quiet = snapshot.quiet
    BY <1>8 DEF Finish, procVars, Inv, TypeOK, Snapshots
  <2>2. caller \notin {"new", "announce", "report", "failed"}
    BY <2>1 DEF Inv, Phases, BeforeStart
  <2> QED
    BY <2>1, <2>2 DEF Log!Next, Log!Decide, Log!Open, Inv, Begun, Decided
<1>9. CASE AnnounceExitCode
  <2>1. waiter = "last" /\ waiter' = "terminal" /\ snapshot.lines # <<>>
        /\ UNCHANGED <<caller, taken, scanner, snapshot>>
        /\ Emit(Event("UPDATE", LastOutputLine(snapshot.lines), TRUE))
    BY <1>9 DEF AnnounceExitCode, procVars, Inv, Phases
  <2>2. PICK c \in Channels, n \in 1 .. MaxLines :
            LastOutputLine(snapshot.lines) = <<c, n>> /\ n <= taken[c]
    BY <2>1, RepeatedIsTaken
  <2>3. caller \notin {"new", "announce", "report", "failed"} /\ scanner[c] = "done"
    BY <2>1 DEF Inv, Phases, BeforeStart, ScannersDone
  <2>4. snapshot.outcome # "none" /\ (snapshot.quiet \/ sent # <<>>)
    BY <2>1, <2>3 DEF Inv, Begun, Decided
  <2>5. n <= told[c] /\ told' = told
    BY <2>1, <2>2, <2>3
  <2>6. sent' = IF snapshot.quiet THEN sent
                ELSE Append(sent, [type |-> "UPDATE", line |-> <<c, n>>, exitCode |-> TRUE])
    BY <2>1, <2>2 DEF Emit, Event
  <2>7. Log!TellExitCode
    BY <2>1, <2>3, <2>4, <2>5, <2>6 DEF Log!TellExitCode, Log!Open, Log!Tell, Log!Event
  <2> QED  BY <2>7 DEF Log!Next
<1>10. CASE AnnounceEnd
  <2>1. caller \notin {"new", "announce", "report", "failed"}
    BY <1>10 DEF AnnounceEnd, Inv, Phases, BeforeStart
  <2> QED
    BY <1>10, <2>1 DEF AnnounceEnd, Emit, Event, procVars, Log!Next, Log!End, Log!Open, Log!Tell,
       Log!Event, Inv, Begun, Decided
<1>11. CASE UNCHANGED vars
  BY <1>0, <1>11 DEF vars, procVars
<1> QED
  BY <1>1, <1>2, <1>3, <1>4, <1>5, <1>6, <1>7, <1>8, <1>9, <1>10, <1>11
  DEF Next, Starter, Scanner, Waiter, Log!Next

(* One execution of the runner is a CommandLog: every step tells what the   *)
(* abstract log may tell next, or nothing.                                  *)
THEOREM ImplementsLog == Spec => KeepsTheLog
<1>1. Init => Log!Init
  BY DEF Init, Log!Init
<1> QED  BY <1>1, InvInit, InvStep, LogStep, PTL DEF Spec, KeepsTheLog, Log!Spec

(* What Execute has returned is what every later query returns: a finished  *)
(* snapshot never changes.                                                  *)
THEOREM FinishedStays == Spec => FinishedIsFinal
<1>1. Inv /\ [Next]_vars =>
          [snapshot.stored /\ ~snapshot.running => snapshot' = snapshot]_vars
  <2> SUFFICES ASSUME Inv, Next, snapshot.stored, ~snapshot.running
               PROVE  snapshot' = snapshot
    OBVIOUS
  <2>1. /\ snapshot.outcome # "none" /\ caller \notin {"new", "spawn"}
        /\ waiter \notin {"off", "wait"} \/ caller \in {"report", "failed"}
        /\ \A c \in Channels : scanner[c] # "scan"
    BY DEF Inv, TypeOK, Snapshots, Decided, Phases, BeforeStart, ScannersDone
  <2> QED
    BY <2>1 DEF Next, Starter, Store, AnnounceStart, Spawn, SpawnFails, ReportFailure, Poll,
       Cancel, Process, ProcessWrites, ProcessOverruns, ProcessExits, Kill, Scanner, ScanLine,
       EmitLine, ScanEnds, Waiter, Finish, AnnounceExitCode, AnnounceEnd, Inv, Phases, BeforeStart
<1> QED  BY <1>1, InvInit, InvStep, PTL DEF Spec, FinishedIsFinal
-----------------------------------------------------------------------------
(* What a client is shown *)

(* Appending a line of a channel, or one that is not of it, to lines that   *)
(* follow each other.                                                       *)
LEMMA AppendFollows ==
    ASSUME NEW S, NEW lines \in Seq(S), NEW c, NEW last \in Nat, FollowUpTo(c, lines, last),
           NEW x \in S
    PROVE  /\ x[1] # c => FollowUpTo(c, Append(lines, x), last)
           /\ x[1] = c /\ x[2] = last + 1 => FollowUpTo(c, Append(lines, x), last + 1)
<1> DEFINE more == Append(lines, x)
           n == Len(lines)
<1>1. /\ n \in Nat /\ DOMAIN lines = 1 .. n /\ DOMAIN more = 1 .. n + 1
      /\ \A i \in 1 .. n : more[i] = lines[i]
      /\ more[n + 1] = x
  BY AppendProperties
<1> HIDE DEF more, n
<1>2. CASE x[1] # c
  <2>1. Of(c, more) = Of(c, lines) /\ Of(c, lines) \subseteq 1 .. n
    BY <1>1, <1>2 DEF Of
  <2> QED  BY <1>1, <1>2, <2>1 DEF FollowUpTo, more
<1>3. CASE x[1] = c /\ x[2] = last + 1
  <2>1. Of(c, more) = Of(c, lines) \cup {n + 1} /\ Of(c, lines) \subseteq 1 .. n
    BY <1>1, <1>3 DEF Of
  <2>2. ASSUME NEW i \in Of(c, more), \A j \in Of(c, more) : j <= i
        PROVE  more[i][2] = last + 1
    <3>1. n + 1 <= i /\ i \in 1 .. n + 1
      <4>1. n + 1 \in Of(c, more) /\ Of(c, more) \subseteq 1 .. n + 1
        BY <1>1, <2>1
      <4> QED  BY <2>2, <4>1
    <3>2. i = n + 1
      BY <1>1, <3>1
    <3> QED  BY <1>1, <1>3, <3>2
  <2>3. ASSUME NEW i \in Of(c, more), NEW j \in Of(c, more), i < j,
               \A k \in Of(c, more) : k <= i \/ j <= k
        PROVE  more[j][2] = more[i][2] + 1
    <3>1. i \in Of(c, lines) /\ i \in 1 .. n
      BY <1>1, <2>1, <2>3
    <3>2. CASE j \in Of(c, lines)
      BY <1>1, <2>1, <2>3, <3>1, <3>2 DEF FollowUpTo
    <3>3. CASE j = n + 1
      <4>1. \A k \in Of(c, lines) : k <= i
        BY <1>1, <2>1, <2>3, <3>3
      <4>2. lines[i][2] = last
        BY <3>1, <4>1 DEF FollowUpTo
      <4> QED  BY <1>1, <1>3, <3>1, <3>3, <4>2
    <3> QED  BY <2>1, <3>2, <3>3
  <2> QED  BY <1>2, <2>2, <2>3 DEF FollowUpTo, more
<1> QED  BY <1>2, <1>3 DEF more

(* Dropping the oldest lines leaves no gap.                                 *)
LEMMA TrimFollows ==
    ASSUME NEW S, NEW lines \in Seq(S), NEW c, NEW last \in Nat, FollowUpTo(c, lines, last)
    PROVE  FollowUpTo(c, Trim(lines), last)
<1>1. CASE Len(lines) > BufferSize
  <2> DEFINE n == Len(lines)
             m == n - BufferSize
             kept == Trim(lines)
  <2>1. n \in Nat /\ DOMAIN lines = 1 .. n /\ BufferSize \in Nat \ {0} /\ m \in Nat
        /\ n = m + BufferSize
    BY <1>1, SizesAssumption
  <2>2. kept = SubSeq(lines, m + 1, n)
    BY <1>1 DEF Trim
  <2>3. /\ Len(kept) = BufferSize /\ DOMAIN kept = 1 .. BufferSize
        /\ \A i \in 1 .. BufferSize : kept[i] = lines[m + i]
    <3> DEFINE p == m + 1
    <3>1. /\ p \in 1 .. n + 1 /\ n \in p - 1 .. n /\ n \in Nat
          /\ (IF p <= n THEN n - p + 1 ELSE 0) = BufferSize
          /\ n - p + 1 = BufferSize
          /\ \A i \in 1 .. BufferSize : p + i - 1 = m + i
      BY <2>1
    <3> HIDE DEF p
    <3>2. kept = SubSeq(lines, p, n)
      BY <2>2 DEF p
    <3> HIDE DEF kept, n, m
    <3>3. n = Len(lines)
      BY DEF n
    <3>4. /\ kept \in Seq(S) /\ Len(kept) = BufferSize
          /\ \A i \in 1 .. n - p + 1 : kept[i] = lines[p + i - 1]
      BY <3>1, <3>2, <3>3, SubSeqProperties
    <3> QED  BY <3>1, <3>4
  <2> HIDE DEF n, m, kept
  <2>4. /\ \A i \in 1 .. BufferSize : i \in Of(c, kept) <=> m + i \in Of(c, lines)
        /\ Of(c, kept) \subseteq 1 .. BufferSize /\ Of(c, lines) \subseteq 1 .. n
    <3>1. \A i \in 1 .. BufferSize : m + i \in 1 .. n
      BY <2>1
    <3> QED  BY <2>1, <2>3, <3>1 DEF Of
  <2>5. \A j \in Of(c, lines) : m < j => j - m \in Of(c, kept) /\ j = m + (j - m)
    <3> SUFFICES ASSUME NEW j \in Of(c, lines), m < j
                 PROVE  j - m \in Of(c, kept) /\ j = m + (j - m)
      OBVIOUS
    <3>1. j - m \in 1 .. BufferSize /\ j = m + (j - m)
      BY <2>1, <2>4
    <3> QED  BY <2>4, <3>1
  <2>6. ASSUME NEW i \in Of(c, kept), \A j \in Of(c, kept) : j <= i
        PROVE  kept[i][2] = last
    <3>1. i \in 1 .. BufferSize /\ m + i \in Of(c, lines) /\ kept[i] = lines[m + i]
      BY <2>3, <2>4
    <3>2. ASSUME NEW j \in Of(c, lines)
          PROVE  j <= m + i
      <4>1. CASE m < j
        <5>1. j - m <= i /\ j \in Nat
          BY <2>4, <2>5, <2>6, <4>1
        <5> QED  BY <2>1, <3>1, <5>1
      <4>2. CASE ~(m < j)
        BY <2>1, <2>4, <3>1, <4>2
      <4> QED  BY <4>1, <4>2
    <3> QED  BY <3>1, <3>2 DEF FollowUpTo
  <2>7. ASSUME NEW i \in Of(c, kept), NEW j \in Of(c, kept), i < j,
               \A k \in Of(c, kept) : k <= i \/ j <= k
        PROVE  kept[j][2] = kept[i][2] + 1
    <3>1. /\ i \in 1 .. BufferSize /\ m + i \in Of(c, lines) /\ kept[i] = lines[m + i]
          /\ j \in 1 .. BufferSize /\ m + j \in Of(c, lines) /\ kept[j] = lines[m + j]
      BY <2>3, <2>4
    <3>2. m + i < m + j
      BY <2>1, <2>7, <3>1
    <3>3. ASSUME NEW k \in Of(c, lines)
          PROVE  k <= m + i \/ m + j <= k
      <4>1. CASE m < k
        <5>1. (k - m <= i \/ j <= k - m) /\ k \in Nat
          BY <2>4, <2>5, <2>7, <4>1
        <5> QED  BY <2>1, <3>1, <5>1
      <4>2. CASE ~(m < k)
        BY <2>1, <2>4, <3>1, <4>2
      <4> QED  BY <4>1, <4>2
    <3> QED  BY ZenonT(60), <3>1, <3>2, <3>3 DEF FollowUpTo
  <2> QED  BY <2>6, <2>7 DEF FollowUpTo, kept
<1>2. CASE ~(Len(lines) > BufferSize)
  BY <1>2 DEF Trim
<1> QED  BY <1>1, <1>2

LEMMA TrimLength ==
    ASSUME NEW S, NEW lines \in Seq(S)
    PROVE  Len(Trim(lines)) = IF Len(lines) < BufferSize THEN Len(lines) ELSE BufferSize
<1>1. Len(lines) \in Nat /\ BufferSize \in Nat \ {0}
  BY SizesAssumption
<1>2. CASE Len(lines) > BufferSize
  <2> DEFINE m == Len(lines) - BufferSize + 1
  <2>1. m \in 1 .. Len(lines) /\ Len(lines) \in 1 .. Len(lines)
        /\ Len(lines) - m + 1 = BufferSize
    BY <1>1, <1>2
  <2>2. Len(SubSeq(lines, m, Len(lines))) = Len(lines) - m + 1
    BY <2>1, SubSeqProperties
  <2> QED  BY <1>1, <1>2, <2>1, <2>2 DEF Trim
<1>3. CASE ~(Len(lines) > BufferSize)
  BY <1>1, <1>3 DEF Trim
<1> QED  BY <1>2, <1>3

(* The snapshot.  Only a scanner changes its lines.                         *)
LEMMA TailStep == Inv /\ BufferIsTail /\ [Next]_vars => BufferIsTail'
<1> SUFFICES ASSUME Inv, BufferIsTail, [Next]_vars
             PROVE  BufferIsTail'
  OBVIOUS
<1>1. ASSUME snapshot'.lines = snapshot.lines, taken' = taken
      PROVE  BufferIsTail'
  BY <1>1 DEF BufferIsTail
<1>2. ASSUME NEW c \in Channels, ScanLine(c), ~cancelled
      PROVE  BufferIsTail'
  <2> DEFINE line == <<c, taken[c] + 1>>
             more == Append(snapshot.lines, line)
  <2>1. /\ taken[c] < written[c] /\ taken' = [taken EXCEPT ![c] = @ + 1]
        /\ snapshot' = [snapshot EXCEPT !.lines = Trim(more)]
    BY <1>2 DEF ScanLine
  <2>2. /\ snapshot.lines \in Seq(Line) /\ line \in Line /\ snapshot'.lines = Trim(more)
        /\ \A d \in Channels : taken[d] \in Nat /\ taken[d] \in 0 .. MaxLines
        /\ taken' = [d \in Channels |-> IF d = c THEN taken[c] + 1 ELSE taken[d]]
    <3>1. /\ \A d \in Channels : taken[d] \in Nat /\ taken[d] \in 0 .. MaxLines
          /\ taken[c] + 1 \in 1 .. MaxLines
      BY <2>1, SizesAssumption DEF Inv, TypeOK
    <3>2. /\ snapshot.lines \in Seq(Line) /\ line \in Line
      BY <3>1 DEF Inv, TypeOK, Snapshots, Line
    <3>3. snapshot'.lines = Trim(more)
      <4> HIDE DEF more
      <4> QED  BY <2>1 DEF Inv, TypeOK, Snapshots
    <3>4. taken' = [d \in Channels |-> IF d = c THEN taken[c] + 1 ELSE taken[d]]
      BY <2>1 DEF Inv, TypeOK
    <3> QED  BY <3>1, <3>2, <3>3, <3>4
  <2>3. more \in Seq(Line) /\ Len(more) = Len(snapshot.lines) + 1 /\ Len(snapshot.lines) \in Nat
    BY <2>2, AppendProperties
  <2>4. \A d \in Channels : FollowUpTo(d, snapshot.lines, taken[d])
    BY DEF BufferIsTail
  <2>5. ASSUME NEW d \in Channels
        PROVE  FollowUpTo(d, more, taken'[d]) /\ taken'[d] \in Nat
    <3>1. line[1] = c /\ line[2] = taken[c] + 1
      OBVIOUS
    <3> HIDE DEF line
    <3> QED  BY <2>2, <2>4, <3>1, AppendFollows
  <2> HIDE DEF more
  <2>6. \A d \in Channels : FollowUpTo(d, snapshot'.lines, taken'[d])
    BY <2>2, <2>3, <2>5, TrimFollows
  <2>7. LET total == taken'["stdout"] + taken'["stderr"]
        IN  Len(snapshot'.lines) = IF total < BufferSize THEN total ELSE BufferSize
    <3>1. taken'["stdout"] + taken'["stderr"] = taken["stdout"] + taken["stderr"] + 1
      BY <2>2 DEF Channels
    <3>2. Len(Trim(more)) = IF Len(more) < BufferSize THEN Len(more) ELSE BufferSize
      BY <2>3, TrimLength
    <3>3. LET total == taken["stdout"] + taken["stderr"]
          IN  /\ Len(snapshot.lines) = IF total < BufferSize THEN total ELSE BufferSize
              /\ total \in Nat
      BY <2>2 DEF BufferIsTail, Channels
    <3> QED  BY <2>2, <2>3, <3>1, <3>2, <3>3, SizesAssumption
  <2> QED  BY <2>6, <2>7 DEF BufferIsTail
<1>3. ASSUME NEW c \in Channels, ScanLine(c), cancelled
      PROVE  BufferIsTail'
  BY <1>1, <1>3 DEF ScanLine
<1>4. CASE Starter \/ Poll \/ Cancel \/ Process \/ Kill \/ Waiter \/ UNCHANGED vars
  BY <1>1, <1>4 DEF Starter, Store, AnnounceStart, Spawn, SpawnFails, ReportFailure, Poll, Cancel,
     Process, ProcessWrites, ProcessOverruns, ProcessExits, Kill, Waiter, Finish, AnnounceExitCode,
     AnnounceEnd, vars, Inv, TypeOK, Snapshots
<1>5. ASSUME NEW c \in Channels, EmitLine(c) \/ ScanEnds(c)
      PROVE  BufferIsTail'
  BY <1>1, <1>5 DEF EmitLine, ScanEnds
<1> QED
  BY <1>2, <1>3, <1>4, <1>5 DEF Next, Scanner

(* The events.  What is told of a channel is what its scanner has taken,    *)
(* but for the line it is about to announce.                                *)
Told(c) == IF scanner[c] = "emit" THEN taken[c] - 1 ELSE taken[c]

AllAnnounced ==
    ~snapshot.quiet =>
        \A c \in Channels :
            /\ FollowUpTo(c, Announced, Told(c))
            /\ \A n \in 1 .. Told(c) : \E i \in DOMAIN Announced : Announced[i] = <<c, n>>

(* A scanner ends at the end of what was written, unless the context ends   *)
(* or a line overruns it; the waiter calls it a success then only.          *)
Drained ==
    /\ \A c \in Channels : scanner[c] = "done" =>
           cancelled \/ overrun[c] \/ (proc = "gone" /\ taken[c] = written[c])
    /\ snapshot.outcome = "ok" =>
           /\ proc = "gone"
           /\ \A c \in Channels :
                 scanner[c] = "done" /\ (overrun[c] \/ taken[c] = written[c])

LEMMA AnnouncedType ==
    ASSUME TypeOK
    PROVE  Announced \in Seq(Line \cup {NoLine}) /\ DOMAIN Announced = DOMAIN sent
<1>1. sent \in Seq(Events) /\ Len(sent) \in Nat /\ DOMAIN sent = 1 .. Len(sent)
  BY DEF TypeOK
<1>2. \A i \in DOMAIN sent : sent[i].line \in Line \cup {NoLine}
  <2>1. \A i \in DOMAIN sent : sent[i] \in Events
    BY <1>1
  <2> QED  BY <2>1 DEF Events
<1>3. Announced \in [1 .. Len(sent) -> Line \cup {NoLine}]
  BY <1>1, <1>2 DEF Announced
<1> QED  BY <1>1, <1>3, SeqDef

(* One more event announces its line or none.                               *)
LEMMA EmitAnnounces ==
    ASSUME TypeOK, ~snapshot.quiet, NEW e \in Events, Emit(e)
    PROVE  Announced' = Append(Announced, IF e.type = "UPDATE" /\ ~e.exitCode THEN e.line ELSE NoLine)
<1> DEFINE x == IF e.type = "UPDATE" /\ ~e.exitCode THEN e.line ELSE NoLine
           n == Len(sent)
<1>1. sent \in Seq(Events) /\ sent' = Append(sent, e)
  BY DEF TypeOK, Emit
<1>2. /\ n \in Nat /\ DOMAIN sent = 1 .. n /\ DOMAIN sent' = 1 .. n + 1
      /\ \A i \in 1 .. n : sent'[i] = sent[i]
      /\ sent'[n + 1] = e
  BY <1>1, AppendProperties
<1>3. /\ Announced \in Seq(Line \cup {NoLine}) /\ DOMAIN Announced = 1 .. n
      /\ Len(Announced) = n
  BY <1>2, AnnouncedType
<1>4. /\ Append(Announced, x) = [i \in 1 .. n + 1 |-> IF i = n + 1 THEN x ELSE Announced[i]]
  BY <1>2, <1>3
<1> HIDE DEF n
<1>5. Announced' = [i \in 1 .. n + 1 |->
                       IF sent'[i].type = "UPDATE" /\ ~sent'[i].exitCode THEN sent'[i].line ELSE NoLine]
  BY <1>2 DEF Announced
<1>6. ASSUME NEW i \in 1 .. n + 1
      PROVE  Announced'[i] = IF i = n + 1 THEN x ELSE Announced[i]
  <2>1. CASE i = n + 1
    BY <1>2, <1>5, <2>1
  <2>2. CASE i # n + 1
    <3>1. i \in 1 .. n
      BY <1>2, <2>2
    <3> QED  BY <1>2, <1>5, <2>2, <3>1 DEF Announced
  <2> QED  BY <2>1, <2>2
<1> QED  BY <1>4, <1>5, <1>6

LEMMA ToldType ==
    ASSUME Inv
    PROVE  \A c \in Channels : Told(c) \in Nat
BY SizesAssumption DEF Inv, TypeOK, Phases, Told

(* An event that announces no line.                                         *)
LEMMA OtherEventStep ==
    ASSUME Inv, AllAnnounced, NEW e \in Events, Emit(e), e.type # "UPDATE" \/ e.exitCode,
           snapshot'.quiet = snapshot.quiet, \A c \in Channels : Told(c)' = Told(c)
    PROVE  AllAnnounced'
<1> SUFFICES ASSUME ~snapshot.quiet, NEW c \in Channels
             PROVE  /\ FollowUpTo(c, Announced', Told(c))
                    /\ \A n \in 1 .. Told(c) : \E i \in DOMAIN Announced' : Announced'[i] = <<c, n>>
  BY DEF AllAnnounced
<1>1. Announced' = Append(Announced, NoLine) /\ Announced \in Seq(Line \cup {NoLine})
  BY EmitAnnounces, AnnouncedType DEF Inv
<1>2. NoLine[1] # c /\ NoLine \in Line \cup {NoLine}
  BY DEF NoLine, Channels
<1>3. FollowUpTo(c, Announced', Told(c))
  BY <1>1, <1>2, AppendFollows, ToldType DEF AllAnnounced
<1>4. \A i \in DOMAIN Announced : i \in DOMAIN Announced' /\ Announced'[i] = Announced[i]
  BY <1>1, AppendProperties
<1> QED  BY <1>3, <1>4 DEF AllAnnounced

(* The event of a line.                                                     *)
LEMMA EmitLineStep ==
    ASSUME Inv, AllAnnounced, NEW c \in Channels, EmitLine(c)
    PROVE  AllAnnounced'
<1>1. /\ scanner[c] = "emit" /\ scanner' = [scanner EXCEPT ![c] = "scan"]
      /\ Emit(Event("UPDATE", <<c, taken[c]>>, FALSE))
      /\ taken' = taken /\ snapshot' = snapshot
  BY DEF EmitLine
<1>2. taken[c] > 0 /\ taken[c] \in Nat
  BY <1>1, SizesAssumption DEF Inv, TypeOK, Phases
<1>3. /\ Told(c) \in Nat /\ taken[c] = Told(c) + 1 /\ Told(c)' = Told(c) + 1
      /\ \A d \in Channels \ {c} : Told(d)' = Told(d)
  BY <1>1, <1>2 DEF Told, Inv, TypeOK
<1> DEFINE x == <<c, taken[c]>>
           e == Event("UPDATE", x, FALSE)
<1>4. x \in Line /\ x[1] = c /\ x[2] = taken[c] /\ e \in Events
  BY <1>2, TakenIsLine, EventType DEF Inv
<1>5. e.type = "UPDATE" /\ ~e.exitCode /\ e.line = x
  BY DEF Event
<1> SUFFICES ASSUME ~snapshot.quiet, NEW d \in Channels
             PROVE  /\ FollowUpTo(d, Announced', Told(d)')
                    /\ \A n \in 1 .. Told(d)' : \E i \in DOMAIN Announced' : Announced'[i] = <<d, n>>
  BY <1>1 DEF AllAnnounced
<1> HIDE DEF x, e
<1>6. Announced' = Append(Announced, x) /\ Announced \in Seq(Line \cup {NoLine})
  BY <1>1, <1>4, <1>5, EmitAnnounces, AnnouncedType DEF Inv, e, x
<1>7. FollowUpTo(d, Announced, Told(d)) /\ Told(d) \in Nat
  BY ToldType DEF AllAnnounced
<1>8. FollowUpTo(d, Announced', Told(d)')
  <2>1. CASE d = c
    BY <1>3, <1>4, <1>6, <1>7, <2>1, AppendFollows
  <2>2. CASE d # c
    BY <1>3, <1>4, <1>6, <1>7, <2>2, AppendFollows
  <2> QED  BY <2>1, <2>2
<1>9. /\ \A i \in DOMAIN Announced : i \in DOMAIN Announced' /\ Announced'[i] = Announced[i]
      /\ \E i \in DOMAIN Announced' : Announced'[i] = x
  <2>1. /\ Len(Announced) + 1 \in DOMAIN Announced' /\ Announced'[Len(Announced) + 1] = x
        /\ \A i \in DOMAIN Announced : i \in DOMAIN Announced' /\ Announced'[i] = Announced[i]
    BY <1>4, <1>6, AppendProperties
  <2> QED  BY <2>1
<1>10. ASSUME NEW n \in 1 .. Told(d)'
       PROVE  \E i \in DOMAIN Announced' : Announced'[i] = <<d, n>>
  <2>1. CASE n \in 1 .. Told(d)
    BY <1>9, <2>1 DEF AllAnnounced
  <2>2. CASE n \notin 1 .. Told(d)
    <3>1. d = c /\ n = taken[c]
      BY <1>3, <1>7, <2>2
    <3> QED  BY <1>9, <3>1 DEF x
  <2> QED  BY <2>1, <2>2
<1> QED  BY <1>8, <1>10

LEMMA AnnouncedStep == Inv /\ AllAnnounced /\ [Next]_vars => AllAnnounced'
<1> SUFFICES ASSUME Inv, AllAnnounced, [Next]_vars
             PROVE  AllAnnounced'
  OBVIOUS
<1>1. ASSUME sent' = sent, snapshot'.quiet = snapshot.quiet,
             \A c \in Channels : Told(c)' = Told(c)
      PROVE  AllAnnounced'
  <2>1. Announced' = Announced
    BY <1>1 DEF Announced
  <2> QED  BY <1>1, <2>1 DEF AllAnnounced
<1>2. CASE Store \/ SpawnFails \/ Poll \/ Cancel \/ Process \/ Kill \/ Finish
  BY <1>1, <1>2 DEF Told, Store, SpawnFails, Poll, Cancel, Process, ProcessWrites, ProcessOverruns,
     ProcessExits, Kill, Finish, procVars, Inv, TypeOK, Snapshots
<1>3. CASE Spawn
  BY <1>1, <1>3 DEF Told, Spawn, Inv, TypeOK, Phases, BeforeStart
<1>4. ASSUME NEW e \in Events, Emit(e), e.type # "UPDATE" \/ e.exitCode,
             snapshot' = snapshot, taken' = taken, scanner' = scanner
      PROVE  AllAnnounced'
  BY <1>4, OtherEventStep DEF Told
<1>5. CASE AnnounceStart
  BY <1>4, <1>5, EventType DEF AnnounceStart, Event
<1>6. CASE ReportFailure
  BY <1>4, <1>6, EventType DEF ReportFailure, Event
<1>7. CASE AnnounceExitCode
  <2>1. PICK c \in Channels, n \in 1 .. MaxLines :
            LastOutputLine(snapshot.lines) = <<c, n>> /\ n <= taken[c]
    BY <1>7, RepeatedIsTaken DEF AnnounceExitCode, Inv, Phases
  <2>2. Event("UPDATE", LastOutputLine(snapshot.lines), TRUE) \in Events
    BY <2>1, EventType DEF Line
  <2> QED  BY <1>4, <1>7, <2>2 DEF AnnounceExitCode, Event
<1>8. CASE AnnounceEnd
  <2>1. Event(IF snapshot.outcome = "ok" THEN "STOP" ELSE "ERROR", NoLine, TRUE) \in Events
    BY EventType
  <2> QED  BY <1>4, <1>8, <2>1 DEF AnnounceEnd, Event
<1>9. ASSUME NEW c \in Channels, ScanLine(c)
      PROVE  AllAnnounced'
  <2>1. \A d \in Channels : taken[d] \in Nat
    BY SizesAssumption DEF Inv, TypeOK
  <2>2. sent' = sent /\ snapshot'.quiet = snapshot.quiet
    BY <1>9 DEF ScanLine, Inv, TypeOK, Snapshots
  <2>3. \A d \in Channels : Told(d)' = Told(d)
    <3>1. CASE cancelled
      BY <1>9, <3>1 DEF ScanLine, Told, Inv, TypeOK
    <3>2. CASE ~cancelled
      <4>1. /\ scanner[c] = "scan" /\ scanner'[c] = "emit" /\ taken'[c] = taken[c] + 1
            /\ \A d \in Channels \ {c} : scanner'[d] = scanner[d] /\ taken'[d] = taken[d]
        BY <1>9, <3>2 DEF ScanLine, Inv, TypeOK
      <4>2. Told(c)' = Told(c)
        BY <2>1, <4>1 DEF Told
      <4> QED  BY <4>1, <4>2 DEF Told
    <3> QED  BY <3>1, <3>2
  <2> QED  BY <1>1, <2>2, <2>3
<1>10. ASSUME NEW c \in Channels, ScanEnds(c)
       PROVE  AllAnnounced'
  BY <1>1, <1>10 DEF ScanEnds, Told, Inv, TypeOK
<1>11. CASE UNCHANGED vars
  BY <1>1, <1>11 DEF vars, Told
<1> QED
  BY <1>2, <1>3, <1>5, <1>6, <1>7, <1>8, <1>9, <1>10, <1>11, EmitLineStep
  DEF Next, Starter, Scanner, Waiter

LEMMA DrainedStep == Inv /\ Drained /\ [Next]_vars => Drained'
<1> SUFFICES ASSUME Inv, Drained, [Next]_vars
             PROVE  Drained'
  OBVIOUS
<1> USE DEF Inv, TypeOK, Snapshots, Drained
<1>1. CASE Store \/ AnnounceStart \/ SpawnFails \/ ReportFailure \/ Poll \/ Cancel
           \/ AnnounceExitCode \/ AnnounceEnd \/ UNCHANGED vars
  BY <1>1 DEF Store, AnnounceStart, SpawnFails, ReportFailure, Poll, Cancel, AnnounceExitCode,
     AnnounceEnd, vars, procVars
<1>2. CASE Spawn
  BY <1>2 DEF Spawn, Phases, Decided, BeforeStart
<1>3. CASE Process \/ Kill
  BY <1>3 DEF Process, ProcessWrites, ProcessOverruns, ProcessExits, Kill
<1>4. ASSUME NEW c \in Channels, ScanLine(c)
      PROVE  Drained'
  <2>1. snapshot'.outcome = snapshot.outcome /\ snapshot.outcome # "ok"
    BY <1>4 DEF ScanLine
  <2> QED  BY <1>4, <2>1 DEF ScanLine, procVars
<1>5. ASSUME NEW c \in Channels, EmitLine(c) \/ ScanEnds(c)
      PROVE  Drained'
  BY <1>5 DEF EmitLine, ScanEnds, procVars
<1>6. CASE Finish
  BY <1>6 DEF Finish, ScannersDone, procVars
<1> QED
  BY <1>1, <1>2, <1>3, <1>4, <1>5, <1>6 DEF Next, Starter, Scanner, Waiter

(* Whatever the sizes of buffer and pipe, a snapshot shows the newest lines *)
(* of each channel without a gap, and a success has announced all of them.  *)
THEOREM ShownIsTrue == Spec => []SnapshotIsTrue
<1> DEFINE ShownInv == BufferIsTail /\ AllAnnounced /\ Drained
<1>1. Init => ShownInv
  <2> SUFFICES ASSUME Init
               PROVE  ShownInv
    OBVIOUS
  <2>1. /\ snapshot.lines = <<>> /\ sent = <<>> /\ snapshot.outcome = "none"
        /\ \A c \in Channels : taken[c] = 0 /\ scanner[c] = "off"
    BY DEF Init
  <2>2. Announced = <<>>
    BY <2>1 DEF Announced
  <2>3. \A c \in Channels : FollowUpTo(c, <<>>, 0) /\ Told(c) = 0
    BY <2>1 DEF FollowUpTo, Of, Told
  <2>4. BufferIsTail
    BY <2>1, <2>3, SizesAssumption DEF BufferIsTail, Channels
  <2> QED  BY <2>1, <2>2, <2>3, <2>4 DEF AllAnnounced, Drained
<1>2. Inv /\ ShownInv /\ [Next]_vars => Inv' /\ ShownInv'
  BY InvStep, TailStep, AnnouncedStep, DrainedStep
<1>3. Inv /\ ShownInv => SnapshotIsTrue
  <2> SUFFICES ASSUME Inv, ShownInv, snapshot.outcome = "ok", ~snapshot.quiet,
                      \A c \in Channels : ~overrun[c]
               PROVE  \A c \in Channels :
                        /\ FollowUpTo(c, Announced, written[c])
                        /\ \A n \in 1 .. written[c] : \E i \in DOMAIN Announced : Announced[i] = <<c, n>>
    BY DEF SnapshotIsTrue, SuccessIsComplete
  <2>1. \A c \in Channels : Told(c) = written[c]
    BY DEF Drained, Told
  <2> QED  BY <2>1 DEF AllAnnounced
<1> QED  BY <1>1, <1>2, <1>3, InvInit, PTL DEF Spec

-----------------------------------------------------------------------------
(* Users and their accounts *)

(* What the proofs about UserAccounts take for granted: None is none of    *)
(* the values it stands beside, and the service makes a user of its own.   *)
UsersAssumption ==
    /\ None \notin U!Row /\ None \notin U!Op /\ None \notin Passwords
    /\ \A c, r, a : None # [by |-> c, row |-> r, admin |-> a]
    /\ Admin \in Names /\ Default \in Passwords

(* Requests at a time are about different users, and every username has an *)
(* account of its own.                                                     *)
Separate == ~Overlap /\ \A u \in Names : U!Account(u) = u

About(c) == {op[c].from, op[c].to}
Busy(c) == op[c] # None

(* The stages of an update's transaction.                                  *)
InTransaction == {"free", "remove", "rename", "readd", "key", "password", "save"}

UsersTyped ==
    /\ row \in [Names -> U!Row \cup {None}] /\ unix \subseteq Names
    /\ samba \in [Names -> Passwords \cup {None}]
    /\ pc \in [Callers -> U!Stages] /\ op \in [Callers -> U!Op \cup {None}]
    /\ \A c \in Callers : pc[c] = "idle" <=> op[c] = None
    /\ up \in BOOLEAN /\ spoilt \subseteq Names
    /\ \/ db = None
       \/ \E c \in Callers, r \in [Names -> U!Row \cup {None}] :
            \E a : db = [by |-> c, row |-> r, admin |-> a]

(* No two requests at a time are about one user.                           *)
Apart ==
    \A c, d \in Callers : c # d /\ Busy(c) /\ Busy(d) => About(c) \cap About(d) = {}

(* A transaction is the one of a request in it, and holds no other row back. *)
HolderUpdates ==
    /\ \A c \in Callers : pc[c] \in InTransaction <=> U!Holds(c)
    /\ db # None => \A u \in Names \ About(db.by) : db.row[u] = row[u]

DownIsQuiet == ~up => db = None /\ \A c \in Callers : ~Busy(c)

Right(u) == U!Logins(u) = IF U!Live(u) THEN {row[u].password} ELSE {}
GoneIsGone(u) == ~U!Live(u) => U!Logins(u) = {}

(* A user whom no request is about can log in as the row says; while the   *)
(* service is down, a deleted one cannot.                                  *)
OthersAreRight ==
    \A u \in Names \ spoilt : (\A c \in Callers : Busy(c) => u \notin About(c)) =>
        IF up THEN Right(u) ELSE GoneIsGone(u)

Had(c) == U!Live(op[c].from) /\ row[op[c].from].password = op[c].old
Leaves(c) == op[c].from # op[c].to => ~U!Live(op[c].from) /\ op[c].from \notin unix

(* What a request has done at each of its stages, to users that no failure *)
(* has touched.                                                            *)
Halfway(c) ==
    LET from == op[c].from  to == op[c].to
    IN /\ pc[c] \in {"useradd", "add"} =>
            from = to /\ U!Live(to) /\ row[to].password = op[c].password
       /\ pc[c] \in {"begin", "free"} =>
            Had(c) /\ (from \in spoilt \/ Right(from)) /\ (to \in spoilt \/ Right(to))
       /\ pc[c] \in {"free", "remove", "rename", "readd", "key"} =>
            from # to /\ Had(c) /\ ~U!Live(to)
       /\ pc[c] \in {"readd", "key"} => from \notin unix /\ to \in unix
       /\ pc[c] = "key" => samba[to] = op[c].password
       /\ pc[c] \in {"password", "save"} =>
            U!Live(to) /\ Leaves(c) /\ (to \in spoilt \/ to \in unix)
       /\ pc[c] = "save" => to \in spoilt \/ samba[to] = op[c].password
       /\ pc[c] \in {"drop", "deluser"} => from = to /\ ~U!Live(to)
       /\ pc[c] = "deluser" => samba[to] = None

UsersInv ==
    /\ UsersTyped /\ Apart /\ HolderUpdates /\ DownIsQuiet /\ OthersAreRight
    /\ \A c \in Callers : Busy(c) => Halfway(c)

(* The users of S are all that a step changes ...                           *)
OnlyOf(S) ==
    \A u \in Names \ S :
      /\ row'[u] = row[u] /\ samba'[u] = samba[u]
      /\ u \in unix' <=> u \in unix
      /\ u \in spoilt' <=> u \in spoilt

(* ... and c is the only request that goes on.                             *)
OthersWait(c) == \A d \in Callers \ {c} : pc'[d] = pc[d] /\ op'[d] = op[d]

LEMMA AccountsAreNames ==
    ASSUME Separate
    PROVE  U!Accounts = Names
  BY DEF Separate, U!Accounts

LEMMA SameLogins ==
    ASSUME Separate, NEW u \in Names, row'[u] = row[u], samba'[u] = samba[u], u \in unix' <=> u \in unix
    PROVE  U!Live(u)' = U!Live(u) /\ Right(u)' = Right(u)
<1>1. U!Account(u) = u
  BY DEF Separate
<1>2. U!Account(u)' = u
  BY <1>1 DEF U!Account
<1>3. U!Live(u)' = U!Live(u)
  BY DEF U!Live
<1>4. U!Logins(u)' = U!Logins(u)
  BY <1>1, <1>2 DEF U!Logins
<1> QED  BY <1>3, <1>4 DEF Right

(* A step about the users of S leaves everybody else, and every other       *)
(* request, as they are.                                                   *)
LEMMA Frame ==
    ASSUME Separate, UsersInv, up, up', NEW c \in Callers, NEW S \in SUBSET Names,
           UsersTyped', OnlyOf(S), OthersWait(c),
           \A d \in Callers \ {c} : Busy(d) => About(d) \cap S = {},
           Busy(c) => About(c) = S,
           Busy(c)' => About(c)' = S /\ Halfway(c)',
           ~Busy(c)' => \A u \in S \ spoilt' : Right(u)'
    PROVE  Apart' /\ OthersAreRight' /\ \A d \in Callers : Busy(d)' => Halfway(d)'
<1>1. ASSUME NEW d \in Callers \ {c}
      PROVE  Busy(d)' = Busy(d) /\ About(d)' = About(d) /\ pc'[d] = pc[d] /\ op'[d] = op[d]
  BY <1>1 DEF OthersWait, Busy, About
<1>2. Apart'
  <2> SUFFICES ASSUME NEW d \in Callers, NEW e \in Callers, d # e, Busy(d)', Busy(e)'
               PROVE  About(d)' \cap About(e)' = {}
    BY DEF Apart
  <2>1. CASE d = c
    BY <2>1, <1>1
  <2>2. CASE e = c
    BY <2>2, <1>1
  <2>3. CASE d # c /\ e # c
    BY <2>3, <1>1 DEF UsersInv, Apart
  <2> QED  BY <2>1, <2>2, <2>3
<1>3. OthersAreRight'
  <2> SUFFICES ASSUME NEW u \in Names, u \notin spoilt',
                      \A d \in Callers : Busy(d)' => u \notin About(d)'
               PROVE  Right(u)'
    BY DEF OthersAreRight
  <2>1. CASE u \in S
    BY <2>1
  <2>2. CASE u \notin S
    <3>1. row'[u] = row[u] /\ samba'[u] = samba[u] /\ (u \in unix' <=> u \in unix) /\ u \notin spoilt
      BY <2>2 DEF OnlyOf
    <3>2. \A d \in Callers : Busy(d) => u \notin About(d)
      BY <2>2, <1>1
    <3>3. Right(u)
      BY <3>1, <3>2 DEF UsersInv, OthersAreRight
    <3> QED  BY <3>1, <3>3, SameLogins
  <2> QED  BY <2>1, <2>2
<1>4. ASSUME NEW d \in Callers, Busy(d)'
      PROVE  Halfway(d)'
  <2>1. CASE d = c
    BY <2>1, <1>4
  <2>2. CASE d # c
    <3>1. Busy(d) /\ Halfway(d) /\ pc'[d] = pc[d] /\ op'[d] = op[d]
      BY <2>2, <1>1, <1>4 DEF UsersInv
    <3>2. PICK from \in Names, to \in Names : op[d].from = from /\ op[d].to = to
      BY <3>1 DEF UsersInv, UsersTyped, Busy, U!Op
    <3>3. from \notin S /\ to \notin S
      BY <2>2, <3>1, <3>2 DEF About
    <3>4. /\ row'[from] = row[from] /\ row'[to] = row[to] /\ samba'[to] = samba[to]
          /\ samba'[from] = samba[from]
          /\ (from \in unix' <=> from \in unix) /\ (to \in unix' <=> to \in unix)
          /\ (from \in spoilt' <=> from \in spoilt) /\ (to \in spoilt' <=> to \in spoilt)
      BY <3>2, <3>3 DEF OnlyOf
    <3>5. /\ U!Live(from)' = U!Live(from) /\ Right(from)' = Right(from)
          /\ U!Live(to)' = U!Live(to) /\ Right(to)' = Right(to)
      BY <3>4, SameLogins
    <3>6. op'[d].from = from /\ op'[d].to = to
      BY <3>1, <3>2
    <3>7. (Had(d)' <=> Had(d)) /\ (Leaves(d)' <=> Leaves(d))
      BY <3>1, <3>2, <3>4, <3>5, <3>6 DEF Had, Leaves, U!Live
    <3> QED  BY <3>1, <3>2, <3>4, <3>5, <3>6, <3>7 DEF Halfway, U!Live
  <2> QED  BY <2>1, <2>2
<1> QED  BY <1>2, <1>3, <1>4

(* Where a request is.                                                     *)
LEMMA Running ==
    ASSUME UsersInv, NEW c \in Callers, pc[c] # "idle"
    PROVE  /\ up /\ Busy(c) /\ Halfway(c) /\ op[c] \in U!Op
           /\ op[c].from \in Names /\ op[c].to \in Names
           /\ op[c].password \in Passwords /\ op[c].old \in Passwords
           /\ About(c) \in SUBSET Names
           /\ pc[c] \in InTransaction <=> U!Holds(c)
           /\ \A d \in Callers \ {c} : Busy(d) => About(d) \cap About(c) = {}
<1>1. Busy(c) /\ op[c] \in U!Op
  BY DEF UsersInv, UsersTyped, Busy
<1>2. up
  BY <1>1 DEF UsersInv, DownIsQuiet, UsersTyped
<1> QED  BY <1>1, <1>2 DEF UsersInv, HolderUpdates, Apart, About, U!Op

(* A step of c about its own users.                                        *)
LEMMA Stepped ==
    ASSUME Separate, UsersInv, NEW c \in Callers, pc[c] # "idle", up' = up,
           UsersTyped', HolderUpdates', OnlyOf(About(c)), OthersWait(c),
           op'[c] = op[c] \/ op'[c] = None,
           op'[c] = op[c] => Halfway(c)',
           op'[c] = None => \A u \in About(c) \ spoilt' : Right(u)'
    PROVE  UsersInv'
<1> DEFINE S == About(c)
<1>1. /\ up /\ Busy(c) /\ S \in SUBSET Names
      /\ \A d \in Callers \ {c} : Busy(d) => About(d) \cap S = {}
  BY Running
<1>2. PICK T \in SUBSET Names : T = S
  BY <1>1
<1>3. Busy(c)' => About(c)' = T /\ Halfway(c)'
  BY <1>2 DEF Busy, About
<1>4. ~Busy(c)' => \A u \in T \ spoilt' : Right(u)'
  <2> SUFFICES ASSUME ~Busy(c)', NEW u \in T \ spoilt'
               PROVE  Right(u)'
    OBVIOUS
  <2>1. op'[c] = None
    BY DEF Busy
  <2> QED  BY <2>1, <1>2
<1>5. OnlyOf(T) /\ \A d \in Callers \ {c} : Busy(d) => About(d) \cap T = {}
  BY <1>1, <1>2
<1>6. Busy(c) => About(c) = T
  BY <1>2
<1>7. Apart' /\ OthersAreRight' /\ \A d \in Callers : Busy(d)' => Halfway(d)'
  <2> HIDE DEF S
  <2> QED  BY <1>1, <1>3, <1>4, <1>5, <1>6, Frame
<1> QED  BY <1>1, <1>7 DEF UsersInv, DownIsQuiet

(* A request that goes on to another stage, in or out of its transaction as *)
(* before, with the rows as they are.                                      *)
LEMMA Onward ==
    ASSUME UsersAssumption, Separate, UsersInv, NEW c \in Callers, pc[c] # "idle",
           NEW stage \in U!Stages \ {"idle"}, U!Goto(c, stage),
           stage \in InTransaction <=> pc[c] \in InTransaction,
           UNCHANGED <<db, row, up, spoilt>>, unix' \in SUBSET Names,
           samba' \in [Names -> Passwords \cup {None}],
           \A u \in Names \ About(c) : samba'[u] = samba[u] /\ (u \in unix' <=> u \in unix),
           Halfway(c)'
    PROVE  UsersInv'
<1>1. pc' = [pc EXCEPT ![c] = stage] /\ op' = op
  BY DEF U!Goto
<1>2. UsersTyped'
  <2>1. pc' \in [Callers -> U!Stages] /\ \A d \in Callers : pc'[d] = "idle" <=> op'[d] = None
    BY <1>1, Running DEF UsersInv, UsersTyped, Busy
  <2> QED  BY <1>1, <2>1 DEF UsersInv, UsersTyped
<1>3. OthersWait(c) /\ OnlyOf(About(c)) /\ op'[c] = op[c] /\ op[c] # None
  BY <1>1, Running DEF OthersWait, OnlyOf, UsersInv, UsersTyped, Busy
<1>4. HolderUpdates'
  <2>1. \A d \in Callers : pc'[d] \in InTransaction <=> pc[d] \in InTransaction
    BY <1>1 DEF UsersInv, UsersTyped
  <2> QED  BY <1>1, <2>1 DEF UsersInv, HolderUpdates, U!Holds, About
<1> QED  BY <1>2, <1>3, <1>4, Stepped

(* A request that ends, with its transaction if it had one.                *)
LEMMA RequestEnded ==
    ASSUME UsersAssumption, Separate, UsersInv, NEW c \in Callers, pc[c] # "idle", U!Ends(c), up' = up,
           row' \in [Names -> U!Row \cup {None}], unix' \in SUBSET Names,
           samba' \in [Names -> Passwords \cup {None}], spoilt' \in SUBSET Names,
           OnlyOf(About(c)), db' = IF U!Holds(c) THEN None ELSE db, ~U!Holds(c) => row' = row,
           \A u \in About(c) \ spoilt' : Right(u)'
    PROVE  UsersInv'
<1>1. pc' = [pc EXCEPT ![c] = "idle"] /\ op' = [op EXCEPT ![c] = None]
  BY DEF U!Ends
<1>2. UsersTyped'
  <2>1. /\ pc' \in [Callers -> U!Stages] /\ op' \in [Callers -> U!Op \cup {None}]
        /\ \A d \in Callers : pc'[d] = "idle" <=> op'[d] = None
    BY <1>1 DEF UsersInv, UsersTyped, U!Stages
  <2>2. UsersTyped /\ (db' = None \/ db' = db)
    BY DEF UsersInv
  <2> QED  BY ZenonT(60), <2>1, <2>2 DEF UsersTyped
<1>3. OthersWait(c) /\ op'[c] = None
  BY <1>1 DEF OthersWait, UsersInv, UsersTyped
<1>4. HolderUpdates'
  <2>1. pc'[c] \notin InTransaction /\ \A d \in Callers \ {c} : pc'[d] = pc[d] /\ op'[d] = op[d]
    BY <1>1 DEF UsersInv, UsersTyped, InTransaction
  <2>2. CASE U!Holds(c)
    <3>1. db' = None /\ \A d \in Callers \ {c} : ~U!Holds(d)
      BY <2>2 DEF U!Holds
    <3>2. \A d \in Callers : ~U!Holds(d)'
      BY <3>1 DEF U!Holds
    <3> QED  BY <2>1, <3>1, <3>2 DEF UsersInv, HolderUpdates
  <2>3. CASE ~U!Holds(c)
    <3>1. db' = db /\ row' = row /\ (db # None => db.by \in Callers \ {c})
      BY <2>3 DEF U!Holds, UsersInv, UsersTyped
    <3>2. db # None => About(db.by)' = About(db.by)
      BY <2>1, <3>1 DEF About
    <3>3. ~U!Holds(c)' /\ \A d \in Callers : U!Holds(d)' <=> U!Holds(d)
      BY <2>3, <3>1 DEF U!Holds
    <3> QED  BY <2>1, <3>1, <3>2, <3>3 DEF UsersInv, HolderUpdates
  <2> QED  BY <2>2, <2>3
<1>5. op[c] # None
  BY Running DEF Busy
<1> QED  BY <1>2, <1>3, <1>4, <1>5, Stepped

(* A request that fails, whatever it has done to its own users' accounts.   *)
LEMMA GivenUp ==
    ASSUME UsersAssumption, Separate, UsersInv, NEW c \in Callers, pc[c] # "idle", U!GivesUp(c),
           unix' \in SUBSET Names, samba' \in [Names -> Passwords \cup {None}],
           \A u \in Names \ About(c) : samba'[u] = samba[u] /\ (u \in unix' <=> u \in unix)
    PROVE  UsersInv'
<1>1. U!Ends(c) /\ up' = up /\ spoilt' = spoilt \cup About(c)
  BY DEF U!GivesUp, About
<1>2. spoilt' \in SUBSET Names
  BY <1>1, Running DEF UsersInv, UsersTyped
<1>3. /\ row' \in [Names -> U!Row \cup {None}]
      /\ \A u \in Names \ About(c) : row'[u] = row[u]
      /\ db' = IF U!Holds(c) THEN None ELSE db
      /\ ~U!Holds(c) => row' = row
  <2>1. CASE U!Holds(c)
    <3>1. db # None /\ db.by = c /\ row' = db.row /\ db' = None
      BY <2>1 DEF U!GivesUp, U!Holds
    <3>2. db.row \in [Names -> U!Row \cup {None}]
      BY <3>1 DEF UsersInv, UsersTyped
    <3> QED  BY <2>1, <3>1, <3>2 DEF UsersInv, HolderUpdates
  <2>2. CASE ~U!Holds(c)
    BY <2>2 DEF U!GivesUp, UsersInv, UsersTyped
  <2> QED  BY <2>1, <2>2
<1>4. OnlyOf(About(c)) /\ About(c) \ spoilt' = {}
  BY <1>1, <1>3 DEF OnlyOf
<1> QED  BY <1>1, <1>2, <1>3, <1>4, RequestEnded

-----------------------------------------------------------------------------
(* The steps of a request *)

LEMMA StepUserAdd ==
    ASSUME UsersAssumption, Separate, UsersInv, NEW c \in Callers, U!UserAdd(c)
    PROVE  UsersInv'
<1>1. pc[c] = "useradd" /\ samba' = samba
  BY DEF U!UserAdd
<1>2. PICK to \in Names : op[c].from = to /\ op[c].to = to /\ U!Account(to) = to /\ About(c) = {to}
  BY <1>1, Running DEF Halfway, Separate, About
<1>3. samba' \in [Names -> Passwords \cup {None}] /\ unix \in SUBSET Names
  BY <1>1 DEF UsersInv, UsersTyped
<1>4. CASE unix' = unix \cup {to} /\ U!Goto(c, "add") /\ U!Keep
  <2>1. op' = op /\ pc'[c] = "add" /\ row' = row
    BY <1>4 DEF U!Goto, U!Keep, UsersInv, UsersTyped
  <2>2. Halfway(c)'
    BY <1>1, <2>1, Running DEF Halfway, U!Live
  <2> QED  BY <1>1, <1>2, <1>3, <1>4, <2>2, Onward DEF U!Keep, U!Stages, InTransaction
<1>5. CASE U!GivesUp(c) /\ unix' = unix
  BY <1>1, <1>3, <1>5, GivenUp
<1> QED  BY <1>2, <1>4, <1>5 DEF U!UserAdd

LEMMA StepSmbPasswdAdd ==
    ASSUME UsersAssumption, Separate, UsersInv, NEW c \in Callers, U!SmbPasswdAdd(c)
    PROVE  UsersInv'
<1>1. pc[c] = "add" /\ unix' = unix
  BY DEF U!SmbPasswdAdd
<1>2. PICK to \in Names : op[c].from = to /\ op[c].to = to /\ U!Account(to) = to /\ About(c) = {to}
  BY <1>1, Running DEF Halfway, Separate, About
<1>3. unix' \in SUBSET Names /\ samba \in [Names -> Passwords \cup {None}] /\ op[c].password \in Passwords
  BY <1>1, Running DEF UsersInv, UsersTyped
<1>4. CASE U!SetsPassword(c) /\ to \in unix /\ U!Ends(c) /\ spoilt' = spoilt \ {to} /\ UNCHANGED <<db, row, up>>
  <2>1. samba' = [samba EXCEPT ![to] = op[c].password]
    BY <1>2, <1>4 DEF U!SetsPassword
  <2>2. samba' \in [Names -> Passwords \cup {None}] /\ OnlyOf(About(c))
    BY <1>1, <1>2, <1>3, <1>4, <2>1 DEF OnlyOf
  <2>3. U!Live(to) /\ row[to].password = op[c].password /\ ~U!Holds(c)
    BY <1>1, <1>2, Running DEF Halfway, InTransaction
  <2>4. Right(to)'
    <3>1. U!Account(to)' = to /\ to \in unix' /\ samba'[to] = op[c].password /\ op[c].password # None
      BY <1>1, <1>2, <1>3, <1>4, <2>1 DEF U!Account, UsersAssumption
    <3> QED  BY <1>4, <2>3, <3>1 DEF Right, U!Logins, U!Live
  <2>5. row' \in [Names -> U!Row \cup {None}] /\ spoilt' \in SUBSET Names
    BY <1>4 DEF UsersInv, UsersTyped
  <2> QED  BY <1>1, <1>2, <1>3, <1>4, <2>2, <2>3, <2>4, <2>5, RequestEnded
<1>5. CASE U!GivesUp(c) /\ samba' \in {samba, [samba EXCEPT ![to] = op[c].password]}
  BY <1>1, <1>2, <1>3, <1>5, GivenUp
<1> QED  BY <1>2, <1>4, <1>5 DEF U!SmbPasswdAdd, U!SetsPassword

LEMMA StepBegin ==
    ASSUME UsersAssumption, Separate, UsersInv, NEW c \in Callers, U!Begin(c)
    PROVE  UsersInv'
<1>1. pc[c] = "begin" /\ db = None /\ UNCHANGED <<row, unix, samba, up, spoilt>>
  BY DEF U!Begin, U!accounts
<1>2. PICK from \in Names, to \in Names :
         op[c].from = from /\ op[c].to = to /\ U!Account(to) = to /\ About(c) = {from, to}
  BY <1>1, Running DEF Separate, About
<1>3. /\ U!Live(from) /\ row[from].password = op[c].old
      /\ from \in spoilt \/ Right(from)
      /\ to \in spoilt \/ Right(to)
  BY <1>1, <1>2, Running DEF Halfway, Had
<1>4. /\ \A u \in Names : Right(u)' = Right(u)
      /\ OnlyOf(About(c)) /\ ~U!Holds(c)
      /\ row' \in [Names -> U!Row \cup {None}] /\ samba' \in [Names -> Passwords \cup {None}]
      /\ unix' \in SUBSET Names /\ spoilt' \in SUBSET Names
  BY <1>1, SameLogins DEF UsersInv, UsersTyped, OnlyOf, U!Holds
<1>5. CASE U!Ends(c) /\ db' = db
  BY <1>1, <1>2, <1>3, <1>4, <1>5, RequestEnded
<1>6. CASE /\ ~(U!Renames(c) /\ U!Live(to))
           /\ db' = [by |-> c, row |-> row, admin |-> admin]
           /\ U!Goto(c, IF U!Renames(c) THEN "free" ELSE U!AfterName(c))
  <2> DEFINE stage == IF U!Renames(c) THEN "free" ELSE U!AfterName(c)
  <2>1. PICK s \in {"free", "password", "save"} : s = stage
    BY DEF U!AfterName
  <2>2. pc' = [pc EXCEPT ![c] = s] /\ op' = op
    BY <1>6, <2>1 DEF U!Goto
  <2>3. OthersWait(c) /\ op'[c] = op[c] /\ op[c] # None /\ pc'[c] = s
    BY <1>1, <2>2, Running DEF OthersWait, Busy, UsersInv, UsersTyped
  <2>4. UsersTyped'
    <3>1. pc' \in [Callers -> U!Stages] /\ \A d \in Callers : pc'[d] = "idle" <=> op'[d] = None
      BY <1>1, <2>2, <2>3 DEF UsersInv, UsersTyped, U!Stages
    <3>2. \E d \in Callers, r \in [Names -> U!Row \cup {None}] : \E a : db' = [by |-> d, row |-> r, admin |-> a]
      BY <1>1, <1>4, <1>6
    <3> QED  BY <1>1, <2>2, <3>1, <3>2 DEF UsersInv, UsersTyped
  <2>5. HolderUpdates'
    <3>1. db' # None /\ db'.by = c /\ db'.row = row'
      BY <1>1, <1>6 DEF UsersAssumption
    <3>2. \A d \in Callers : U!Holds(d)' <=> d = c
      BY <3>1 DEF U!Holds
    <3>3. \A d \in Callers \ {c} : pc[d] \notin InTransaction
      BY <1>1 DEF UsersInv, HolderUpdates, U!Holds
    <3>4. \A d \in Callers : pc'[d] \in InTransaction <=> d = c
      BY <2>2, <2>3, <3>3 DEF OthersWait, InTransaction
    <3> QED  BY <3>1, <3>2, <3>4 DEF HolderUpdates
  <2>6. Halfway(c)'
    <3>1. /\ op'[c].from = from /\ op'[c].to = to /\ op'[c] = op[c]
          /\ U!Live(from)' /\ row'[from].password = op'[c].old
          /\ U!Live(to)' = U!Live(to)
          /\ from \in spoilt' \/ Right(from)'
          /\ to \in spoilt' \/ Right(to)'
      BY <1>1, <1>2, <1>3, <1>4, <2>3 DEF U!Live
    <3>2. CASE U!Renames(c)
      <4>1. s = "free" /\ from # to /\ ~U!Live(to)
        BY <1>2, <1>6, <2>1, <3>2 DEF U!Renames
      <4> QED  BY <2>3, <3>1, <4>1 DEF Halfway, Had
    <3>3. CASE ~U!Renames(c)
      <4>1. from = to /\ s \in {"password", "save"} /\ (s = "save" => op[c].password = op[c].old)
        BY <1>2, <2>1, <3>3 DEF U!Renames, U!AfterName
      <4>2. to \in spoilt \/ (to \in unix /\ samba[to] = op[c].old)
        BY <1>2, <1>3, <4>1 DEF Right, U!Logins
      <4> QED  BY <1>1, <2>3, <3>1, <4>1, <4>2 DEF Halfway, Leaves
    <3> QED  BY <3>2, <3>3
  <2> QED  BY <1>1, <1>4, <2>3, <2>4, <2>5, <2>6, Stepped
<1> QED  BY <1>2, <1>5, <1>6 DEF U!Begin

(* What a request in its transaction has to say of its users.              *)
LEMMA Updating ==
    ASSUME Separate, UsersInv, NEW c \in Callers, pc[c] \in {"free", "remove", "rename", "readd", "key"}
    PROVE  \E from, to \in Names :
             /\ op[c].from = from /\ op[c].to = to /\ About(c) = {from, to} /\ from # to
             /\ U!Account(from) = from /\ U!Account(to) = to
             /\ U!Live(from) /\ row[from].password = op[c].old /\ ~U!Live(to)
             /\ U!Holds(c)
<1>1. pc[c] # "idle"
  OBVIOUS
<1> QED  BY <1>1, Running DEF Halfway, Had, Separate, About, InTransaction

LEMMA StepIsFree ==
    ASSUME UsersAssumption, Separate, UsersInv, NEW c \in Callers, U!IsFree(c)
    PROVE  UsersInv'
<1>1. pc[c] = "free" /\ UNCHANGED <<row, unix, samba, up, spoilt>>
  BY DEF U!IsFree, U!accounts, U!Keep
<1>2. PICK from, to \in Names :
         /\ op[c].from = from /\ op[c].to = to /\ About(c) = {from, to} /\ from # to
         /\ U!Account(from) = from /\ U!Account(to) = to
         /\ U!Live(from) /\ row[from].password = op[c].old /\ ~U!Live(to)
         /\ U!Holds(c)
  BY <1>1, Updating
<1>3. (from \in spoilt \/ Right(from)) /\ (to \in spoilt \/ Right(to))
  BY <1>1, <1>2, Running DEF Halfway
<1>4. /\ \A u \in Names : Right(u)' = Right(u)
      /\ OnlyOf(About(c))
      /\ row' \in [Names -> U!Row \cup {None}] /\ samba' \in [Names -> Passwords \cup {None}]
      /\ unix' \in SUBSET Names /\ spoilt' \in SUBSET Names
  BY <1>1, SameLogins DEF UsersInv, UsersTyped, OnlyOf
<1>5. CASE to \notin unix /\ samba[to] = None /\ U!Goto(c, "remove") /\ U!Keep
  <2>1. op' = op /\ pc'[c] = "remove"
    BY <1>5 DEF U!Goto, UsersInv, UsersTyped
  <2>2. Halfway(c)'
    BY <1>1, <1>2, <2>1 DEF Halfway, Had, U!Live
  <2> QED  BY <1>1, <1>4, <1>5, <2>2, Onward DEF U!Keep, U!Stages, InTransaction, OnlyOf
<1>6. CASE U!Ends(c) /\ db' = None
  BY <1>1, <1>2, <1>3, <1>4, <1>6, RequestEnded
<1> QED  BY <1>2, <1>5, <1>6 DEF U!IsFree

LEMMA StepRemoveOld ==
    ASSUME UsersAssumption, Separate, UsersInv, NEW c \in Callers, U!RemoveOld(c)
    PROVE  UsersInv'
<1>1. pc[c] = "remove" /\ unix' = unix /\ U!Goto(c, "rename") /\ UNCHANGED <<db, row, up, spoilt>>
  BY DEF U!RemoveOld
<1>2. PICK from, to \in Names :
         /\ op[c].from = from /\ op[c].to = to /\ About(c) = {from, to} /\ from # to
         /\ U!Account(from) = from /\ U!Account(to) = to
         /\ U!Live(from) /\ row[from].password = op[c].old /\ ~U!Live(to)
         /\ U!Holds(c)
  BY <1>1, Updating
<1>3. samba' \in {samba, [samba EXCEPT ![from] = None]}
  BY <1>2 DEF U!RemoveOld
<1>4. /\ samba' \in [Names -> Passwords \cup {None}] /\ unix' \in SUBSET Names
      /\ \A u \in Names \ About(c) : samba'[u] = samba[u]
  BY <1>1, <1>2, <1>3 DEF UsersInv, UsersTyped
<1>5. op' = op /\ pc'[c] = "rename"
  BY <1>1 DEF U!Goto, UsersInv, UsersTyped
<1>6. Halfway(c)'
  BY <1>1, <1>2, <1>5 DEF Halfway, Had, U!Live
<1> QED  BY <1>1, <1>4, <1>6, Onward DEF U!Stages, InTransaction

LEMMA StepUserMod ==
    ASSUME UsersAssumption, Separate, UsersInv, NEW c \in Callers, U!UserMod(c)
    PROVE  UsersInv'
<1>1. pc[c] = "rename" /\ samba' = samba
  BY DEF U!UserMod
<1>2. PICK from, to \in Names :
         /\ op[c].from = from /\ op[c].to = to /\ About(c) = {from, to} /\ from # to
         /\ U!Account(from) = from /\ U!Account(to) = to
         /\ U!Live(from) /\ row[from].password = op[c].old /\ ~U!Live(to)
         /\ U!Holds(c)
  BY <1>1, Updating
<1>3. unix' \in {unix, (unix \ {from}) \cup {to}}
  BY <1>2 DEF U!UserMod, U!Moved, U!Keep
<1>4. /\ samba' \in [Names -> Passwords \cup {None}] /\ unix' \in SUBSET Names
      /\ \A u \in Names \ About(c) : samba'[u] = samba[u] /\ (u \in unix' <=> u \in unix)
  BY <1>1, <1>2, <1>3 DEF UsersInv, UsersTyped
<1>5. CASE U!Moved(c) /\ U!Goto(c, "readd") /\ U!Keep
  <2>1. op' = op /\ pc'[c] = "readd" /\ unix' = (unix \ {from}) \cup {to} /\ row' = row
    BY <1>2, <1>5 DEF U!Goto, U!Moved, U!Keep, UsersInv, UsersTyped
  <2>2. Halfway(c)'
    BY <1>2, <2>1 DEF Halfway, Had, U!Live
  <2> QED  BY <1>1, <1>4, <1>5, <2>2, Onward DEF U!Keep, U!Stages, InTransaction
<1>6. CASE U!GivesUp(c)
  BY <1>1, <1>4, <1>6, GivenUp
<1> QED  BY <1>2, <1>5, <1>6 DEF U!UserMod

LEMMA StepReAdd ==
    ASSUME UsersAssumption, Separate, UsersInv, NEW c \in Callers, U!ReAdd(c)
    PROVE  UsersInv'
<1>1. pc[c] = "readd" /\ unix' = unix
  BY DEF U!ReAdd
<1>2. PICK from, to \in Names :
         /\ op[c].from = from /\ op[c].to = to /\ About(c) = {from, to} /\ from # to
         /\ U!Account(from) = from /\ U!Account(to) = to
         /\ U!Live(from) /\ row[from].password = op[c].old /\ ~U!Live(to)
         /\ U!Holds(c)
  BY <1>1, Updating
<1>3. op[c].password \in Passwords /\ from \notin unix /\ to \in unix
  BY <1>1, <1>2, Running DEF Halfway
<1>4. samba' \in {samba, [samba EXCEPT ![to] = op[c].password]}
  BY <1>2 DEF U!ReAdd, U!SetsPassword, U!Keep
<1>5. /\ samba' \in [Names -> Passwords \cup {None}] /\ unix' \in SUBSET Names
      /\ \A u \in Names \ About(c) : samba'[u] = samba[u] /\ (u \in unix' <=> u \in unix)
  BY <1>1, <1>2, <1>3, <1>4 DEF UsersInv, UsersTyped
<1>6. CASE U!SetsPassword(c) /\ U!Goto(c, "key") /\ U!Keep
  <2>1. op' = op /\ pc'[c] = "key" /\ samba'[to] = op[c].password /\ row' = row
    BY <1>2, <1>6 DEF U!Goto, U!SetsPassword, U!Keep, UsersInv, UsersTyped
  <2>2. Halfway(c)'
    BY <1>1, <1>2, <1>3, <2>1 DEF Halfway, Had, U!Live
  <2> QED  BY <1>1, <1>5, <1>6, <2>2, Onward DEF U!Keep, U!Stages, InTransaction
<1>7. CASE U!GivesUp(c)
  BY <1>1, <1>5, <1>7, GivenUp
<1> QED  BY <1>2, <1>6, <1>7 DEF U!ReAdd

LEMMA StepRenameKey ==
    ASSUME UsersAssumption, Separate, UsersInv, NEW c \in Callers, U!RenameKey(c)
    PROVE  UsersInv'
<1>1. pc[c] = "key" /\ UNCHANGED <<unix, samba>>
  BY DEF U!RenameKey, U!accounts
<1>2. PICK from, to \in Names :
         /\ op[c].from = from /\ op[c].to = to /\ About(c) = {from, to} /\ from # to
         /\ U!Account(from) = from /\ U!Account(to) = to
         /\ U!Live(from) /\ row[from].password = op[c].old /\ ~U!Live(to)
         /\ U!Holds(c)
  BY <1>1, Updating
<1>3. from \notin unix /\ to \in unix /\ samba[to] = op[c].password
  BY <1>1, <1>2, Running DEF Halfway
<1>4. unix' \in SUBSET Names /\ samba' \in [Names -> Passwords \cup {None}]
  BY <1>1 DEF UsersInv, UsersTyped
<1>5. CASE U!GivesUp(c)
  BY <1>1, <1>4, <1>5, GivenUp
<1>6. CASE /\ row' = [row EXCEPT ![to] = row[from], ![from] = None]
           /\ U!Goto(c, U!AfterName(c)) /\ UNCHANGED <<db, up, spoilt>>
  <2>1. PICK s \in {"password", "save"} :
           s = U!AfterName(c) /\ (s = "save" => op[c].password = op[c].old)
    BY DEF U!AfterName
  <2>2. pc' = [pc EXCEPT ![c] = s] /\ op' = op
    BY <1>6, <2>1 DEF U!Goto
  <2>3. OthersWait(c) /\ op'[c] = op[c] /\ op[c] # None /\ pc'[c] = s
    BY <1>1, <2>2, Running DEF OthersWait, Busy, UsersInv, UsersTyped
  <2>4. /\ row' \in [Names -> U!Row \cup {None}]
        /\ row'[from] = None /\ row'[to] = row[from]
        /\ \A u \in Names \ About(c) : row'[u] = row[u]
    BY <1>2, <1>6 DEF UsersInv, UsersTyped
  <2>5. UsersTyped'
    <3>1. pc' \in [Callers -> U!Stages] /\ \A d \in Callers : pc'[d] = "idle" <=> op'[d] = None
      BY <1>1, <2>2, <2>3 DEF UsersInv, UsersTyped, U!Stages
    <3> QED  BY <1>1, <1>6, <2>2, <2>4, <3>1 DEF UsersInv, UsersTyped
  <2>6. HolderUpdates'
    <3>1. db' = db /\ db # None /\ db.by = c /\ About(c)' = About(c)
      BY <1>2, <1>6, <2>2 DEF U!Holds, About
    <3>2. \A d \in Callers : pc'[d] \in InTransaction <=> pc[d] \in InTransaction
      BY <1>1, <2>2 DEF UsersInv, UsersTyped, InTransaction
    <3>3. \A d \in Callers : U!Holds(d)' <=> U!Holds(d)
      BY <3>1 DEF U!Holds
    <3> QED  BY <2>4, <3>1, <3>2, <3>3 DEF UsersInv, HolderUpdates
  <2>7. Halfway(c)'
    <3>1. U!Live(to)' /\ ~U!Live(from)'
      BY <1>2, <2>4 DEF U!Live
    <3> QED  BY <1>1, <1>2, <1>3, <1>6, <2>1, <2>3, <3>1 DEF Halfway, Leaves
  <2>8. OnlyOf(About(c))
    BY <1>1, <1>6, <2>4 DEF OnlyOf
  <2> QED  BY <1>1, <1>6, <2>3, <2>5, <2>6, <2>7, <2>8, Stepped
<1> QED  BY <1>2, <1>5, <1>6 DEF U!RenameKey

LEMMA StepSmbPasswd ==
    ASSUME UsersAssumption, Separate, UsersInv, NEW c \in Callers, U!SmbPasswd(c)
    PROVE  UsersInv'
<1>1. pc[c] = "password" /\ unix' = unix
  BY DEF U!SmbPasswd
<1>2. PICK from, to \in Names :
         /\ op[c].from = from /\ op[c].to = to /\ About(c) = {from, to} /\ U!Account(to) = to
  BY <1>1, Running DEF Separate, About
<1>3. /\ U!Live(to) /\ (to \in spoilt \/ to \in unix) /\ op[c].password \in Passwords
      /\ from # to => ~U!Live(from) /\ from \notin unix
  BY <1>1, <1>2, Running DEF Halfway, Leaves
<1>4. samba' \in {samba, [samba EXCEPT ![to] = op[c].password]}
  BY <1>2 DEF U!SmbPasswd, U!SetsPassword, U!Keep
<1>5. /\ samba' \in [Names -> Passwords \cup {None}] /\ unix' \in SUBSET Names
      /\ \A u \in Names \ About(c) : samba'[u] = samba[u] /\ (u \in unix' <=> u \in unix)
  BY <1>1, <1>2, <1>3, <1>4 DEF UsersInv, UsersTyped
<1>6. CASE U!SetsPassword(c) /\ U!Goto(c, "save") /\ U!Keep
  <2>1. op' = op /\ pc'[c] = "save" /\ samba'[to] = op[c].password /\ UNCHANGED <<row, spoilt>>
    BY <1>2, <1>6 DEF U!Goto, U!SetsPassword, U!Keep, UsersInv, UsersTyped
  <2>2. Halfway(c)'
    BY <1>1, <1>2, <1>3, <2>1 DEF Halfway, Leaves, U!Live
  <2> QED  BY <1>1, <1>5, <1>6, <2>2, Onward DEF U!Keep, U!Stages, InTransaction
<1>7. CASE U!GivesUp(c)
  BY <1>1, <1>5, <1>7, GivenUp
<1> QED  BY <1>2, <1>6, <1>7 DEF U!SmbPasswd

LEMMA StepSave ==
    ASSUME UsersAssumption, Separate, UsersInv, NEW c \in Callers, U!Save(c)
    PROVE  UsersInv'
<1>1. pc[c] = "save" /\ U!Ends(c) /\ db' = None /\ UNCHANGED <<unix, samba, up, spoilt>>
  BY DEF U!Save, U!accounts
<1>2. PICK from, to \in Names :
         /\ op[c].from = from /\ op[c].to = to /\ About(c) = {from, to}
         /\ U!Account(to) = to /\ U!Account(from) = from
  BY <1>1, Running DEF Separate, About
<1>3. /\ U!Live(to) /\ (to \in spoilt \/ (to \in unix /\ samba[to] = op[c].password))
      /\ from # to => ~U!Live(from) /\ from \notin unix
      /\ op[c].password \in Passwords /\ U!Holds(c)
  BY <1>1, <1>2, Running DEF Halfway, Leaves, InTransaction
<1>4. row' = [row EXCEPT ![to].password = op[c].password]
  BY <1>2, <1>3 DEF U!Save
<1>5. row[to] \in U!Row
  BY <1>2, <1>3 DEF U!Live, UsersInv, UsersTyped
<1>6. row'[to] = [row[to] EXCEPT !.password = op[c].password]
  BY <1>2, <1>4 DEF UsersInv, UsersTyped
<1>7. /\ row'[to] \in U!Row /\ row'[to].live = row[to].live /\ row'[to].password = op[c].password
      /\ \A u \in Names \ {to} : row'[u] = row[u]
  BY <1>2, <1>3, <1>4, <1>5, <1>6 DEF UsersInv, UsersTyped, U!Row
<1>8. row' \in [Names -> U!Row \cup {None}]
  BY <1>2, <1>4, <1>7 DEF UsersInv, UsersTyped
<1>9. OnlyOf(About(c))
  BY <1>1, <1>2, <1>7 DEF OnlyOf
<1>10. ASSUME to \notin spoilt
       PROVE  Right(to)'
  <2>1. U!Account(to)' = to /\ to \in unix' /\ samba'[to] = op[c].password /\ op[c].password # None
    BY <1>1, <1>2, <1>3, <1>10 DEF U!Account, UsersAssumption
  <2>2. U!Live(to)'
    BY <1>3, <1>7 DEF U!Live, UsersAssumption
  <2> QED  BY <1>7, <2>1, <2>2 DEF Right, U!Logins
<1>11. ASSUME from # to
       PROVE  Right(from)'
  <2>1. U!Account(from)' = from /\ from \notin unix'
    BY <1>1, <1>2, <1>3, <1>11 DEF U!Account
  <2>2. ~U!Live(from)'
    BY <1>2, <1>3, <1>7, <1>11 DEF U!Live
  <2> QED  BY <2>1, <2>2 DEF Right, U!Logins
<1>12. \A u \in About(c) \ spoilt' : Right(u)'
  BY <1>1, <1>2, <1>10, <1>11
<1>13. /\ samba' \in [Names -> Passwords \cup {None}] /\ unix' \in SUBSET Names
       /\ spoilt' \in SUBSET Names
  BY <1>1 DEF UsersInv, UsersTyped
<1> QED  BY <1>1, <1>3, <1>8, <1>9, <1>12, <1>13, RequestEnded

LEMMA StepSmbPasswdDrop ==
    ASSUME UsersAssumption, Separate, UsersInv, NEW c \in Callers, U!SmbPasswdDrop(c)
    PROVE  UsersInv'
<1>1. pc[c] = "drop" /\ unix' = unix
  BY DEF U!SmbPasswdDrop
<1>2. PICK to \in Names : op[c].from = to /\ op[c].to = to /\ U!Account(to) = to /\ About(c) = {to}
  BY <1>1, Running DEF Halfway, Separate, About
<1>3. samba' \in {samba, [samba EXCEPT ![to] = None]} /\ ~U!Live(to)
  BY <1>1, <1>2, Running DEF U!SmbPasswdDrop, Halfway
<1>4. /\ samba' \in [Names -> Passwords \cup {None}] /\ unix' \in SUBSET Names
      /\ \A u \in Names \ About(c) : samba'[u] = samba[u] /\ (u \in unix' <=> u \in unix)
  BY <1>1, <1>2, <1>3 DEF UsersInv, UsersTyped
<1>5. CASE samba' = [samba EXCEPT ![to] = None] /\ U!Goto(c, "deluser") /\ U!Keep
  <2>1. op' = op /\ pc'[c] = "deluser" /\ samba'[to] = None /\ row' = row
    BY <1>2, <1>5 DEF U!Goto, U!Keep, UsersInv, UsersTyped
  <2>2. Halfway(c)'
    BY <1>2, <1>3, <2>1 DEF Halfway, U!Live
  <2> QED  BY <1>1, <1>4, <1>5, <2>2, Onward DEF U!Keep, U!Stages, InTransaction
<1>6. CASE U!GivesUp(c)
  BY <1>1, <1>4, <1>6, GivenUp
<1> QED  BY <1>2, <1>5, <1>6 DEF U!SmbPasswdDrop

LEMMA StepDelUser ==
    ASSUME UsersAssumption, Separate, UsersInv, NEW c \in Callers, U!DelUser(c)
    PROVE  UsersInv'
<1>1. pc[c] = "deluser" /\ samba' = samba
  BY DEF U!DelUser
<1>2. PICK to \in Names : op[c].from = to /\ op[c].to = to /\ U!Account(to) = to /\ About(c) = {to}
  BY <1>1, Running DEF Halfway, Separate, About
<1>3. unix' \in {unix, unix \ {to}} /\ ~U!Live(to) /\ samba[to] = None
  BY <1>1, <1>2, Running DEF U!DelUser, Halfway
<1>4. /\ samba' \in [Names -> Passwords \cup {None}] /\ unix' \in SUBSET Names
      /\ \A u \in Names \ About(c) : samba'[u] = samba[u] /\ (u \in unix' <=> u \in unix)
  BY <1>1, <1>2, <1>3 DEF UsersInv, UsersTyped
<1>5. CASE unix' = unix \ {to} /\ U!Ends(c) /\ U!Keep
  <2>1. UNCHANGED <<db, row, up, spoilt>> /\ ~U!Holds(c)
    BY <1>1, <1>5, Running DEF U!Keep, InTransaction
  <2>2. Right(to)'
    <3>1. U!Account(to)' = to /\ to \notin unix' /\ ~U!Live(to)'
      BY <1>2, <1>3, <1>5, <2>1 DEF U!Account, U!Live
    <3> QED  BY <3>1 DEF Right, U!Logins
  <2>3. OnlyOf(About(c)) /\ row' \in [Names -> U!Row \cup {None}] /\ spoilt' \in SUBSET Names
    BY <1>4, <2>1 DEF OnlyOf, UsersInv, UsersTyped
  <2> QED  BY <1>1, <1>2, <1>4, <1>5, <2>1, <2>2, <2>3, RequestEnded
<1>6. CASE U!GivesUp(c)
  BY <1>1, <1>4, <1>6, GivenUp
<1> QED  BY <1>2, <1>5, <1>6 DEF U!DelUser

-----------------------------------------------------------------------------
(* Requests, and the starts and ends of the service *)

LEMMA NewRequest ==
    ASSUME UsersAssumption, Separate, UsersInv, NEW c \in Callers, NEW o \in U!Op,
           NEW stage \in {"useradd", "begin", "drop"}, U!Requested(c, o, stage),
           row' \in [Names -> U!Row \cup {None}],
           \A u \in Names \ {o.from, o.to} : row'[u] = row[u],
           op'[c] = o => Halfway(c)'
    PROVE  UsersInv'
<1>1. /\ up /\ pc[c] = "idle" /\ db = None /\ op[c] = None /\ o # None
      /\ pc' = [pc EXCEPT ![c] = stage] /\ op' = [op EXCEPT ![c] = o]
      /\ UNCHANGED <<unix, samba, db, up, spoilt>>
  BY DEF U!Requested, UsersInv, UsersTyped, UsersAssumption
<1>2. op'[c] = o /\ pc'[c] = stage /\ OthersWait(c)
  BY <1>1 DEF UsersInv, UsersTyped, OthersWait
<1>3. {o.from, o.to} \in SUBSET Names
  BY DEF U!Op
<1>4. \A d \in Callers \ {c} : Busy(d) => About(d) \cap {o.from, o.to} = {}
  BY DEF U!Requested, Separate, Busy, About
<1>5. UsersTyped'
  <2>1. /\ pc' \in [Callers -> U!Stages] /\ op' \in [Callers -> U!Op \cup {None}]
        /\ \A d \in Callers : pc'[d] = "idle" <=> op'[d] = None
    BY <1>1, <1>2 DEF UsersInv, UsersTyped, U!Stages, OthersWait
  <2> QED  BY <1>1, <2>1 DEF UsersInv, UsersTyped
<1>6. HolderUpdates'
  <2>1. \A d \in Callers : ~U!Holds(d) /\ ~U!Holds(d)'
    BY <1>1 DEF U!Holds
  <2>2. \A d \in Callers : pc'[d] \notin InTransaction
    BY <1>2, <2>1 DEF UsersInv, HolderUpdates, OthersWait, InTransaction
  <2> QED  BY <1>1, <2>1, <2>2 DEF HolderUpdates
<1>7. OnlyOf({o.from, o.to})
  BY <1>1 DEF OnlyOf
<1>8. ~Busy(c) /\ Busy(c)' /\ About(c)' = {o.from, o.to}
  BY <1>1, <1>2 DEF Busy, About
<1>9. Apart' /\ OthersAreRight' /\ \A d \in Callers : Busy(d)' => Halfway(d)'
  <2>1. PICK S \in SUBSET Names : S = {o.from, o.to}
    BY <1>3
  <2> QED  BY <1>1, <1>2, <1>4, <1>5, <1>7, <1>8, <2>1, Frame
<1> QED  BY <1>1, <1>5, <1>6, <1>9 DEF UsersInv, DownIsQuiet

LEMMA NewRow ==
    ASSUME UsersAssumption, NEW p \in Passwords, NEW r, r = [live |-> TRUE, password |-> p]
    PROVE  r \in U!Row /\ r # None /\ r.live /\ r.password = p
<1>1. r \in U!Row
  BY DEF U!Row
<1>2. r.live /\ r.password = p
  OBVIOUS
<1> QED  BY <1>1, <1>2 DEF UsersAssumption

LEMMA StepCreateUser ==
    ASSUME UsersAssumption, Separate, UsersInv, NEW c \in Callers, NEW u \in Names, NEW p \in Passwords,
           U!CreateUser(c, u, p)
    PROVE  UsersInv'
<1> DEFINE o == [from |-> u, to |-> u, password |-> p, old |-> p]
<1>1. /\ U!Requested(c, o, "useradd") /\ o \in U!Op
      /\ row' = [row EXCEPT ![u] = [live |-> TRUE, password |-> p]]
  BY DEF U!CreateUser, U!Op
<1>2. row' \in [Names -> U!Row \cup {None}] /\ \A v \in Names \ {u} : row'[v] = row[v]
  BY <1>1 DEF UsersInv, UsersTyped, U!Row
<1>3. pc'[c] = "useradd"
  BY <1>1 DEF U!Requested, UsersInv, UsersTyped
<1>4. op'[c] = o => Halfway(c)'
  <2>1. row'[u] = [live |-> TRUE, password |-> p] /\ row'[u] \in U!Row
    BY <1>1 DEF UsersInv, UsersTyped, U!Row
  <2>2. U!Live(u)' /\ row'[u].password = p
    BY <2>1, NewRow DEF U!Live
  <2> QED  BY <1>3, <2>2 DEF Halfway
<1> QED  BY <1>1, <1>2, <1>4, NewRequest

LEMMA StepReadUser ==
    ASSUME UsersAssumption, Separate, UsersInv, NEW c \in Callers, NEW u \in Names, NEW v \in Names,
           NEW p \in Passwords, U!ReadUser(c, u, v, p)
    PROVE  UsersInv'
<1> DEFINE o == [from |-> u, to |-> v, password |-> p, old |-> row[u].password]
<1>1. U!Requested(c, o, "begin") /\ U!Live(u) /\ row' = row
  BY DEF U!ReadUser
<1>2. o \in U!Op
  BY <1>1 DEF U!Op, U!Live, UsersInv, UsersTyped, U!Row
<1>3. up /\ pc'[c] = "begin" /\ op[c] = None /\ UNCHANGED <<unix, samba, spoilt>>
  BY <1>1 DEF U!Requested, UsersInv, UsersTyped
<1>4. op'[c] = o => Halfway(c)'
  <2>1. \A d \in Callers : Busy(d) => u \notin About(d) /\ v \notin About(d)
    BY <1>1, <1>3 DEF U!Requested, Separate, Busy, About
  <2>2. (u \in spoilt \/ Right(u)) /\ (v \in spoilt \/ Right(v))
    BY <1>3, <2>1 DEF UsersInv, OthersAreRight
  <2>3. Right(u)' = Right(u) /\ Right(v)' = Right(v) /\ U!Live(u)'
    BY <1>1, <1>3, SameLogins DEF U!Live
  <2> QED  BY <1>1, <1>3, <2>2, <2>3 DEF Halfway, Had
<1>5. row' \in [Names -> U!Row \cup {None}]
  BY <1>1 DEF UsersInv, UsersTyped
<1> QED  BY <1>1, <1>2, <1>4, <1>5, NewRequest

LEMMA StepDeleteUser ==
    ASSUME UsersAssumption, Separate, UsersInv, NEW c \in Callers, NEW u \in Names, U!DeleteUser(c, u)
    PROVE  UsersInv'
<1> DEFINE o == [from |-> u, to |-> u, password |-> row[u].password, old |-> row[u].password]
<1>1. U!Requested(c, o, "drop") /\ U!Live(u) /\ row' = [row EXCEPT ![u].live = FALSE]
  BY DEF U!DeleteUser
<1>2. row[u] \in U!Row
  BY <1>1 DEF U!Live, UsersInv, UsersTyped
<1>3. o \in U!Op
  BY <1>2 DEF U!Op, U!Row
<1>4. row'[u] = [row[u] EXCEPT !.live = FALSE] /\ \A v \in Names \ {u} : row'[v] = row[v]
  BY <1>1 DEF UsersInv, UsersTyped
<1>5. row'[u] \in U!Row /\ ~row'[u].live
  BY <1>2, <1>4 DEF U!Row
<1>6. row' \in [Names -> U!Row \cup {None}]
  BY <1>1, <1>4, <1>5 DEF UsersInv, UsersTyped
<1>7. pc'[c] = "drop"
  BY <1>1 DEF U!Requested, UsersInv, UsersTyped
<1>8. op'[c] = o => Halfway(c)'
  BY <1>5, <1>7 DEF Halfway, U!Live
<1> QED  BY <1>1, <1>3, <1>4, <1>6, <1>8, NewRequest

(* Everybody idle, without a transaction.                                  *)
LEMMA Quietly ==
    ASSUME UsersTyped', db' = None, \A c \in Callers : pc'[c] = "idle", OthersAreRight'
    PROVE  UsersInv'
<1>1. \A c \in Callers : ~Busy(c)'
  BY DEF UsersTyped, Busy
<1>2. \A c \in Callers : ~U!Holds(c)'
  BY DEF U!Holds
<1> QED  BY <1>1, <1>2 DEF UsersInv, Apart, HolderUpdates, InTransaction, DownIsQuiet

LEMMA StepStart ==
    ASSUME UsersAssumption, Separate, UsersInv, U!Start
    PROVE  UsersInv'
<1> DEFINE first == \A u \in Names : ~U!Live(u)
           rows == IF first THEN [row EXCEPT ![Admin] = [live |-> TRUE, password |-> Default]] ELSE row
           users == {u \in Names : rows[u] # None /\ rows[u].live}
<1>1. /\ ~up /\ up' /\ up' \in BOOLEAN /\ UNCHANGED <<db, pc, op>> /\ row' = rows
      /\ db = None /\ \A c \in Callers : ~Busy(c) /\ pc[c] = "idle"
  BY DEF U!Start, UsersInv, DownIsQuiet, UsersTyped, Busy
<1>2. PICK failed \in SUBSET users :
        /\ unix' = unix \cup {U!Account(u) : u \in users \ failed}
        /\ samba' \in {s \in [U!Accounts -> Passwords \cup {None}] : \A a \in U!Accounts :
             LET its == {u \in users \ failed : U!Account(u) = a}
             IN IF its = {} THEN s[a] = samba[a] ELSE \E u \in its : s[a] = rows[u].password}
        /\ spoilt' = (spoilt \ users) \cup failed
  BY DEF U!Start
<1>3. rows \in [Names -> U!Row \cup {None}]
  BY DEF UsersInv, UsersTyped, U!Row, UsersAssumption
<1>4. \A u \in users : row'[u] = rows[u] /\ row'[u] \in U!Row /\ u \in Names
  BY <1>1, <1>3
<1>5. \A u \in Names : U!Live(u)' <=> u \in users
  BY <1>1 DEF U!Live
<1>6. ASSUME NEW u \in Names \ users
      PROVE  row'[u] = row[u] /\ ~U!Live(u)
  <2>1. CASE first
    <3>1. rows[Admin] = [live |-> TRUE, password |-> Default]
      BY <2>1 DEF UsersInv, UsersTyped, UsersAssumption
    <3>2. rows[Admin] \in U!Row
      BY <3>1, NewRow DEF UsersAssumption
    <3>3. Admin \in users
      BY <3>1, NewRow DEF UsersAssumption
    <3>4. u # Admin
      BY <1>6, <3>3
    <3> QED  BY <1>1, <2>1, <3>4 DEF UsersInv, UsersTyped
  <2>2. CASE ~first
    BY <1>1, <1>6, <2>2 DEF U!Live
  <2> QED  BY <2>1, <2>2
<1> HIDE DEF first, rows, users
<1>7. unix' = unix \cup (users \ failed) /\ users \in SUBSET Names
  BY <1>2, <1>4 DEF Separate
<1>8. samba' \in [Names -> Passwords \cup {None}]
  BY <1>2, AccountsAreNames
<1>9. ASSUME NEW u \in users \ failed
      PROVE  samba'[u] = row'[u].password
  BY <1>2, <1>4, <1>7, <1>9, AccountsAreNames DEF Separate
<1>10. ASSUME NEW u \in Names \ users
       PROVE  samba'[u] = samba[u]
  BY <1>2, <1>7, <1>10, AccountsAreNames DEF Separate
<1>11. UsersTyped'
  <2>1. unix' \in SUBSET Names /\ spoilt' \in SUBSET Names
    BY <1>2, <1>7 DEF UsersInv, UsersTyped
  <2> QED  BY <1>1, <1>3, <1>8, <2>1 DEF UsersInv, UsersTyped
<1>12. OthersAreRight'
  <2> SUFFICES ASSUME NEW u \in Names, u \notin spoilt'
               PROVE  Right(u)'
    BY <1>1 DEF OthersAreRight
  <2>1. U!Account(u) = u /\ U!Account(u)' = u
    BY DEF Separate, U!Account
  <2>2. CASE u \in users
    <3>1. u \in unix' /\ samba'[u] = row'[u].password /\ row'[u].password # None /\ U!Live(u)'
      BY <1>2, <1>4, <1>5, <1>7, <1>9, <2>2 DEF U!Row, UsersAssumption
    <3> QED  BY <2>1, <3>1 DEF Right, U!Logins
  <2>3. CASE u \notin users
    <3>1. u \notin spoilt /\ ~U!Live(u) /\ ~U!Live(u)' /\ (u \in unix' <=> u \in unix) /\ samba'[u] = samba[u]
      BY <1>2, <1>5, <1>6, <1>7, <1>10, <2>3
    <3>2. U!Logins(u) = {}
      BY <1>1, <3>1 DEF UsersInv, OthersAreRight, GoneIsGone
    <3> QED  BY <2>1, <3>1, <3>2 DEF Right, U!Logins
  <2> QED  BY <2>2, <2>3
<1> QED  BY <1>1, <1>11, <1>12, Quietly

LEMMA StepStop ==
    ASSUME UsersAssumption, Separate, UsersInv, U!Stop
    PROVE  UsersInv'
<1>1. /\ up /\ ~up' /\ up' \in BOOLEAN /\ db' = None
      /\ spoilt' = spoilt \cup UNION {About(c) : c \in {d \in Callers : pc[d] # "idle"}}
      /\ pc' = [c \in Callers |-> "idle"] /\ op' = [c \in Callers |-> None]
      /\ IF db = None THEN row' = row ELSE row' = db.row
      /\ \/ UNCHANGED <<unix, samba>>
         \/ unix' = {} /\ samba' = [a \in Names |-> None]
  BY AccountsAreNames DEF U!Stop, U!accounts, About
<1>2. \A c \in Callers : Busy(c) => About(c) \subseteq spoilt'
  BY <1>1 DEF UsersInv, UsersTyped, Busy
<1>3. \A c \in Callers : Busy(c) => About(c) \subseteq Names
  BY DEF UsersInv, UsersTyped, Busy, About, U!Op
<1>4. /\ row' \in [Names -> U!Row \cup {None}]
      /\ \A u \in Names \ spoilt' : row'[u] = row[u]
  <2>1. CASE db = None
    BY <1>1, <2>1 DEF UsersInv, UsersTyped
  <2>2. CASE db # None
    <3>1. db.by \in Callers /\ db.row \in [Names -> U!Row \cup {None}] /\ row' = db.row
      BY <1>1, <2>2 DEF UsersInv, UsersTyped
    <3>2. pc[db.by] \in InTransaction
      BY <2>2, <3>1 DEF UsersInv, HolderUpdates, U!Holds
    <3>3. Busy(db.by)
      BY <3>1, <3>2 DEF UsersInv, UsersTyped, Busy, InTransaction
    <3> QED  BY <1>2, <2>2, <3>1, <3>3 DEF UsersInv, HolderUpdates
  <2> QED  BY <2>1, <2>2
<1>5. UsersTyped'
  <2>1. unix' \in SUBSET Names /\ samba' \in [Names -> Passwords \cup {None}] /\ spoilt' \in SUBSET Names
    <3>1. UNION {About(c) : c \in {d \in Callers : pc[d] # "idle"}} \subseteq Names
      BY <1>3 DEF UsersInv, UsersTyped, Busy
    <3> QED  BY <1>1, <3>1 DEF UsersInv, UsersTyped
  <2> QED  BY <1>1, <1>4, <2>1 DEF UsersTyped, U!Stages
<1>6. OthersAreRight'
  <2> SUFFICES ASSUME NEW u \in Names, u \notin spoilt'
               PROVE  GoneIsGone(u)'
    BY <1>1 DEF OthersAreRight
  <2>1. Right(u)
    BY <1>1, <1>2 DEF UsersInv, OthersAreRight
  <2>2. CASE UNCHANGED <<unix, samba>>
    <3>1. U!Live(u)' = U!Live(u) /\ Right(u)' = Right(u)
      BY <1>4, <2>2, SameLogins
    <3> QED  BY <2>1, <3>1 DEF Right, GoneIsGone
  <2>3. CASE unix' = {}
    BY <2>3 DEF GoneIsGone, U!Logins
  <2> QED  BY <1>1, <2>2, <2>3
<1> QED  BY <1>1, <1>5, <1>6, Quietly

-----------------------------------------------------------------------------
LEMMA UsersInit ==
    ASSUME UsersAssumption, Separate, U!Init
    PROVE  UsersInv
<1>1. UsersTyped /\ ~up /\ db = None /\ (\A c \in Callers : op[c] = None /\ pc[c] = "idle")
  BY AccountsAreNames DEF U!Init, UsersTyped, U!Stages
<1>2. OthersAreRight
  BY <1>1 DEF OthersAreRight, GoneIsGone, U!Logins, U!Init
<1> QED  BY <1>1, <1>2 DEF UsersInv, Apart, HolderUpdates, U!Holds, InTransaction, DownIsQuiet, Busy

LEMMA UsersStep ==
    ASSUME UsersAssumption, Separate, UsersInv, [U!Next]_userVars
    PROVE  UsersInv'
<1>1. CASE UNCHANGED userVars
  <2>1. /\ UsersTyped' /\ Apart' /\ HolderUpdates' /\ DownIsQuiet'
        /\ \A c \in Callers : Busy(c)' = Busy(c) /\ About(c)' = About(c)
    BY <1>1 DEF userVars, UsersInv, UsersTyped, Apart, HolderUpdates, DownIsQuiet, Busy, About, U!Holds
  <2>2. \A u \in Names : U!Live(u)' = U!Live(u) /\ U!Logins(u)' = U!Logins(u) /\ Right(u)' = Right(u)
    BY <1>1, SameLogins DEF userVars, U!Live, U!Logins, U!Account
  <2>3. OthersAreRight'
    BY <1>1, <2>1, <2>2 DEF userVars, UsersInv, OthersAreRight, GoneIsGone
  <2>4. \A c \in Callers : Busy(c) => Halfway(c)'
    <3> SUFFICES ASSUME NEW c \in Callers, Busy(c)
                 PROVE  Halfway(c)'
      OBVIOUS
    <3>1. Halfway(c)' <=> Halfway(c)
      BY <1>1 DEF userVars, Halfway, Had, Leaves, Right, U!Live, U!Logins, U!Account
    <3> QED  BY <3>1 DEF UsersInv
  <2> QED  BY <2>1, <2>3, <2>4 DEF UsersInv
<1>2. CASE U!Start
  BY <1>2, StepStart
<1>3. CASE U!Stop
  BY <1>3, StepStop
<1>4. ASSUME NEW c \in Callers, NEW u \in Names, NEW p \in Passwords, U!CreateUser(c, u, p)
      PROVE  UsersInv'
  BY <1>4, StepCreateUser
<1>5. ASSUME NEW c \in Callers, NEW u \in Names, NEW v \in Names, NEW p \in Passwords, U!ReadUser(c, u, v, p)
      PROVE  UsersInv'
  BY <1>5, StepReadUser
<1>6. ASSUME NEW c \in Callers, NEW u \in Names, U!DeleteUser(c, u)
      PROVE  UsersInv'
  BY <1>6, StepDeleteUser
<1>7. ASSUME NEW c \in Callers, U!Step(c)
      PROVE  UsersInv'
  BY <1>7, StepUserAdd, StepSmbPasswdAdd, StepBegin, StepIsFree, StepRemoveOld, StepUserMod,
     StepReAdd, StepRenameKey, StepSmbPasswd, StepSave, StepSmbPasswdDrop, StepDelUser DEF U!Step
<1> QED  BY <1>1, <1>2, <1>3, <1>4, <1>5, <1>6, <1>7 DEF U!Next

(* Between requests, every user whom no failure has touched logs in with    *)
(* the row's password and nobody else does, for any usernames, passwords,   *)
(* requests, failures and starts: UserService, with requests at a time      *)
(* about different users and usernames that keep their own account.         *)
THEOREM UsersLogIn ==
    ASSUME UsersAssumption, Separate
    PROVE  U!Spec => []LoginsWork
<1>1. U!Init => UsersInv
  BY UsersInit
<1>2. UsersInv /\ [U!Next]_userVars => UsersInv'
  BY UsersStep
<1>3. UsersInv => LoginsWork
  <2> SUFFICES ASSUME UsersInv, up, \A c \in Callers : pc[c] = "idle", NEW u \in Names \ spoilt
               PROVE  Right(u)
    BY DEF LoginsWork, U!LoginsWork, Right
  <2>1. \A c \in Callers : ~Busy(c)
    BY DEF UsersInv, UsersTyped, Busy
  <2> QED  BY <2>1 DEF UsersInv, OthersAreRight
<1> QED  BY <1>1, <1>2, <1>3, PTL DEF U!Spec, U!vars, userVars
=============================================================================
