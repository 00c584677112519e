---------------------------- MODULE StoresProofs ----------------------------
(***************************************************************************)
(* What the run of MCStores checks of the component in Home Assistant, of  *)
(* the problems and of the filesystem tools, for any number of requests,   *)
(* files, keys, rows and calls.                                            *)
(***************************************************************************)
EXTENDS MCStores, Integers, TLAPS

-----------------------------------------------------------------------------
(* The component in Home Assistant *)

(* Requests as the run has them, removals not beside installations; and no  *)
(* installed version is newer than the developer's archive, so that two     *)
(* installations at once extract the same one.                              *)
ComponentAssumption ==
    /\ Length \in Nat /\ Manifest \in C!Files
    /\ Embedded \in Nat \ {0} /\ Develop \subseteq Nat /\ Initial \subseteq Nat
    /\ Cut \notin C!Versions \cup {0} /\ None \notin Clients \cup {"install", "uninstall"}
    /\ Requests \subseteq {"install", "uninstall", "status", "fixed", "core"}
    /\ ~Overlap
    /\ \A v \in Initial, d \in Develop \ {0} : v <= d

(* The version that every installation extracts.                           *)
Extracted == IF channel = "develop" /\ develop # 0 THEN develop ELSE Embedded

RequestStages ==
    {"idle", "resolve", "look", "remove", "mkdir", "open", "write", "stat", "ask", "sync", "dismiss", "restart"}

Judged ==
    [who : Clients \cup {None}, op : Requests \cup {"none"}, result : {"none", "ok", "failed"}]

ComponentTyped ==
    /\ channel \in Channels /\ develop \in Develop /\ dir \in BOOLEAN
    /\ files \in [C!Files -> {0, Cut, Extracted} \cup Initial]
    /\ cpc \in [Clients -> RequestStages] /\ op \in [Clients -> Requests \cup {None}]
    /\ want \in [Clients -> {0, Extracted}] /\ next \in [Clients -> 1 .. Length + 1]
    /\ linked \in [Clients -> BOOLEAN] /\ verdict \in Judged
    /\ failures \in Nat /\ dying = FALSE

Copying == {"mkdir", "open", "write"}

(* What a request is at.                                                   *)
RequestInv(c) ==
    /\ cpc[c] = "idle" => op[c] = None
    /\ cpc[c] = "remove" => op[c] \in {"install", "uninstall"}
    /\ cpc[c] = "resolve" => op[c] = "install"
    /\ cpc[c] = "look" => op[c] = "uninstall"
    /\ cpc[c] \in Copying => op[c] = "install"
    /\ cpc[c] \in {"remove"} \cup Copying /\ op[c] = "install" => want[c] = Extracted
    /\ cpc[c] \in {"idle", "resolve", "look", "remove"} => next[c] = 1
    /\ cpc[c] \in {"open", "write"} => next[c] \in C!Files
    /\ linked[c] => cpc[c] = "write"

Apart == \A b, c \in Clients : op[b] = "install" => op[c] # "uninstall"

(* A file that is being written where it will be found.                    *)
Written(f) == \E b \in Clients : cpc[b] = "write" /\ linked[b] /\ next[b] = f

(* The files that a request has written.                                   *)
Passed(c, f) == cpc[c] = "ask" \/ f < next[c]

(* What the last removal's request is at, and has got so far.              *)
VerdictIsOpen ==
    verdict.result = "none" /\ verdict.who # None =>
        /\ cpc[verdict.who] \in Copying \cup {"ask"}
        /\ verdict.op = op[verdict.who]
        /\ cpc[verdict.who] = "write" => linked[verdict.who]
VerdictIsKnown ==
    IF verdict.who = None THEN verdict = C!Unknown
    ELSE /\ verdict.op \in {"install", "uninstall"}
         /\ \A f \in C!Files : files[f] \in {0, Cut, Extracted}
Uninstalled == verdict.op = "uninstall" => ~dir /\ \A c \in Clients : cpc[c] \notin Copying
Got(f) == verdict.result = "ok" \/ (verdict.result = "none" /\ Passed(verdict.who, f))
Installed ==
    verdict.op = "install" =>
        \A f \in C!Files : Got(f) => files[f] = Extracted \/ (files[f] = Cut /\ Written(f))

VerdictInv == VerdictIsOpen /\ VerdictIsKnown /\ Uninstalled /\ Installed

(* Whoever has its file in the directory has something there.              *)
LinkedIsThere == \A c \in Clients : linked[c] => files[next[c]] # 0

(* Will ask for the restart, or make it.                                    *)
WillAsk(c) == cpc[c] \in Copying \cup {"ask", "restart"}

(* As long as nothing has failed, a directory that is not there is being   *)
(* made again, and so is a manifest.                                       *)
DirIsMade ==
    ~dir /\ (\E c \in Clients : cpc[c] = "open") => \E d \in Clients : cpc[d] = "mkdir" /\ next[d] = 1

PastManifest(c) ==
    (cpc[c] \in Copying /\ next[c] > Manifest) \/ (cpc[c] = "write" /\ next[c] = Manifest)
BeforeManifest(c) ==
    (cpc[c] \in {"mkdir", "open"} /\ next[c] <= Manifest) \/ (cpc[c] = "write" /\ next[c] < Manifest)
ManifestIsMade ==
    files[Manifest] = 0 /\ (\E c \in Clients : PastManifest(c)) => \E d \in Clients : BeforeManifest(d)

(* As long as nothing has failed, somebody is to ask or has asked.         *)
Settled == files = loaded \/ restartAsked \/ restarting \/ \E c \in Clients : WillAsk(c)
AskedInv == failures = 0 => DirIsMade /\ ManifestIsMade /\ Settled

DirectoryInv ==
    /\ ComponentTyped /\ \A c \in Clients : RequestInv(c)
    /\ Apart /\ VerdictInv /\ LinkedIsThere

ComponentInv == DirectoryInv /\ AskedInv
LEMMA ComponentFacts ==
    ASSUME ComponentAssumption, develop \in Develop
    PROVE  /\ Extracted \in Nat \ {0} /\ Extracted \in C!Versions /\ Extracted # Cut /\ Cut # 0
           /\ Manifest \in 1 .. Length /\ C!Files = 1 .. Length /\ Length \in Nat
<1>1. Extracted \in {Embedded} \cup (Develop \ {0})
  BY DEF Extracted
<1> QED  BY <1>1 DEF ComponentAssumption, C!Versions, C!Files

LEMMA Went ==
    ASSUME ComponentTyped, NEW c \in Clients, NEW from, NEW to \in RequestStages, C!Goto(c, from, to)
    PROVE  /\ cpc[c] = from /\ cpc'[c] = to /\ cpc' \in [Clients -> RequestStages]
           /\ \A b \in Clients \ {c} : cpc'[b] = cpc[b]
  BY DEF ComponentTyped, C!Goto

LEMMA Stopped ==
    ASSUME ComponentAssumption, ComponentTyped, NEW c \in Clients, NEW from, C!Stops(c, from)
    PROVE  /\ cpc[c] = from /\ cpc'[c] = "idle" /\ cpc' \in [Clients -> RequestStages]
           /\ op'[c] = None /\ op' \in [Clients -> Requests \cup {None}]
           /\ want' \in [Clients -> {0, Extracted}]
           /\ next'[c] = 1 /\ next' \in [Clients -> 1 .. Length + 1]
           /\ linked'[c] = FALSE /\ linked' \in [Clients -> BOOLEAN]
           /\ \A b \in Clients \ {c} : /\ cpc'[b] = cpc[b] /\ op'[b] = op[b] /\ want'[b] = want[b]
                                       /\ next'[b] = next[b] /\ linked'[b] = linked[b]
<1>1. Length \in Nat /\ 1 \in 1 .. Length + 1
  BY DEF ComponentAssumption
<1>2. "idle" \in RequestStages
  BY DEF RequestStages
<1> QED  BY <1>1, <1>2, Went DEF C!Stops, ComponentTyped

(* A step of a request that neither opens nor writes a file.               *)
LEMMA GoKeeps ==
    ASSUME ComponentAssumption, DirectoryInv, NEW c \in Clients,
           cpc' \in [Clients -> RequestStages], want' \in [Clients -> {0, Extracted}],
           \A b \in Clients \ {c} : cpc'[b] = cpc[b] /\ want'[b] = want[b],
           RequestInv(c)', cpc[c] # "write", cpc'[c] # "write",
           cpc[c] \in Copying \cup {"ask"} => cpc'[c] \in Copying \cup {"ask"},
           cpc'[c] \in Copying => cpc[c] \in Copying,
           cpc'[c] = "ask" => next[c] > Length,
           dir' = dir \/ (cpc[c] \in Copying /\ dir' = TRUE),
           failures' \in Nat,
           UNCHANGED <<channel, develop, dying, files, op, next, linked, verdict>>
    PROVE  DirectoryInv'
<1>1. Extracted' = Extracted
  BY DEF Extracted
<1>2. ComponentTyped'
  BY <1>1 DEF DirectoryInv, ComponentTyped
<1>3. \A b \in Clients : RequestInv(b)'
  BY <1>1 DEF DirectoryInv, RequestInv
<1>4. \A f : Written(f)' <=> Written(f)
  BY DEF Written
<1>5. Apart' /\ LinkedIsThere'
  BY DEF DirectoryInv, Apart, LinkedIsThere
<1>6. VerdictInv'
  <2>1. \A f \in C!Files : f <= Length
    BY ComponentFacts DEF DirectoryInv, ComponentTyped
  <2>2. \A b \in Clients, f \in C!Files : Passed(b, f)' => Passed(b, f)
    BY <2>1 DEF Passed, DirectoryInv, ComponentTyped, C!Files, ComponentAssumption
  <2>3. verdict.who \in Clients \cup {None}
    BY DEF DirectoryInv, ComponentTyped, Judged
  <2>4. VerdictIsOpen' /\ VerdictIsKnown' /\ Uninstalled'
    BY <1>1, <2>3 DEF DirectoryInv, VerdictInv, VerdictIsOpen, VerdictIsKnown, Uninstalled, Copying, C!Unknown
  <2>5. Installed'
    <3> SUFFICES ASSUME verdict.op = "install", NEW f \in C!Files, Got(f)'
                 PROVE  files[f] = Extracted \/ (files[f] = Cut /\ Written(f))
      BY <1>1, <1>4 DEF Installed
    <3>1. verdict.who # None
      BY DEF DirectoryInv, VerdictInv, VerdictIsKnown, C!Unknown
    <3>2. Got(f)
      BY <2>2, <2>3, <3>1 DEF Got
    <3> QED  BY <3>2 DEF DirectoryInv, VerdictInv, Installed
  <2> QED  BY <2>4, <2>5 DEF VerdictInv
<1> QED  BY <1>2, <1>3, <1>5, <1>6 DEF DirectoryInv

(* A request ends; if well, it has not copied or has asked for the restart.  *)
LEMMA EndsKeeps ==
    ASSUME ComponentAssumption, DirectoryInv, NEW c \in Clients, NEW from, NEW result \in {"ok", "failed"},
           C!Ends(c, from, result), result = "ok" => from \notin Copying, from # "write",
           failures' \in Nat, UNCHANGED <<channel, develop, dying, dir, files>>
    PROVE  DirectoryInv'
<1>1. Extracted' = Extracted
  BY DEF Extracted
<1>2. /\ C!Stops(c, from)
      /\ verdict' = IF verdict.who = c /\ verdict.result = "none"
                    THEN [verdict EXCEPT !.result = result] ELSE verdict
  BY DEF C!Ends, C!Judge
<1>3. /\ cpc[c] = from /\ cpc'[c] = "idle" /\ cpc' \in [Clients -> RequestStages]
      /\ op'[c] = None /\ op' \in [Clients -> Requests \cup {None}]
      /\ want' \in [Clients -> {0, Extracted}]
      /\ next'[c] = 1 /\ next' \in [Clients -> 1 .. Length + 1]
      /\ linked'[c] = FALSE /\ linked' \in [Clients -> BOOLEAN]
      /\ \A b \in Clients \ {c} : /\ cpc'[b] = cpc[b] /\ op'[b] = op[b] /\ want'[b] = want[b]
                                  /\ next'[b] = next[b] /\ linked'[b] = linked[b]
  BY <1>2, Stopped DEF DirectoryInv
<1>4. verdict' \in Judged /\ verdict'.who = verdict.who /\ verdict'.op = verdict.op
  BY <1>2 DEF DirectoryInv, ComponentTyped, Judged
<1>5. ComponentTyped'
  BY <1>1, <1>3, <1>4 DEF DirectoryInv, ComponentTyped
<1>6. \A b \in Clients : RequestInv(b)'
  BY <1>1, <1>3 DEF DirectoryInv, RequestInv, Copying
<1>7. \A f : Written(f)' <=> Written(f)
  BY <1>3 DEF Written
<1>8. Apart' /\ LinkedIsThere'
  BY <1>3, <1>5 DEF DirectoryInv, Apart, LinkedIsThere, ComponentAssumption
<1>9. VerdictInv'
  <2>1. CASE verdict.who = c /\ verdict.result = "none"
    <3>1. verdict'.result = result /\ verdict'.who = c
      BY <1>2, <2>1 DEF DirectoryInv, ComponentTyped, Judged
    <3>2. cpc[c] \in Copying \cup {"ask"} /\ verdict.who # None
      BY <2>1 DEF DirectoryInv, VerdictInv, VerdictIsOpen, ComponentAssumption
    <3>3. result = "ok" => \A f \in C!Files : Passed(verdict.who, f)
      BY <1>3, <2>1, <3>2 DEF Passed
    <3>4. VerdictIsOpen' /\ VerdictIsKnown' /\ Uninstalled'
      BY <1>1, <1>3, <1>4, <2>1, <3>1, <3>2
      DEF DirectoryInv, VerdictInv, VerdictIsOpen, VerdictIsKnown, Uninstalled, Copying
    <3>5. Installed'
      <4> SUFFICES ASSUME verdict.op = "install", NEW f \in C!Files, Got(f)'
                   PROVE  files[f] = Extracted \/ (files[f] = Cut /\ Written(f))
        BY <1>1, <1>4, <1>7 DEF Installed
      <4>1. Got(f)
        BY <2>1, <3>1, <3>3 DEF Got
      <4> QED  BY <4>1 DEF DirectoryInv, VerdictInv, Installed
    <3> QED  BY <3>4, <3>5 DEF VerdictInv
  <2>2. CASE ~(verdict.who = c /\ verdict.result = "none")
    <3>1. verdict' = verdict /\ verdict.who \in Clients \cup {None}
      BY <1>2, <2>2 DEF DirectoryInv, ComponentTyped, Judged
    <3>2. \A b \in Clients \ {c}, f \in C!Files : Passed(b, f)' => Passed(b, f)
      BY <1>3 DEF Passed
    <3>3. VerdictIsOpen' /\ VerdictIsKnown' /\ Uninstalled'
      BY <1>1, <1>3, <2>2, <3>1
      DEF DirectoryInv, VerdictInv, VerdictIsOpen, VerdictIsKnown, Uninstalled, Copying, C!Unknown
    <3>4. Installed'
      <4> SUFFICES ASSUME verdict.op = "install", NEW f \in C!Files, Got(f)'
                   PROVE  files[f] = Extracted \/ (files[f] = Cut /\ Written(f))
        BY <1>1, <1>7, <2>2, <3>1 DEF Installed
      <4>1. verdict.who # None
        BY DEF DirectoryInv, VerdictInv, VerdictIsKnown, C!Unknown
      <4>2. Got(f)
        <5>1. CASE verdict.result = "ok"
          BY <5>1 DEF Got
        <5>2. CASE verdict.result = "none"
          BY <1>3, <2>2, <3>1, <3>2, <4>1, <5>2 DEF Got, DirectoryInv, VerdictInv, VerdictIsOpen
        <5> QED  BY <2>2, <3>1, <5>1, <5>2 DEF Got
      <4> QED  BY <4>2 DEF DirectoryInv, VerdictInv, Installed
    <3> QED  BY <3>3, <3>4 DEF VerdictInv
  <2> QED  BY <2>1, <2>2
<1> QED  BY <1>5, <1>6, <1>8, <1>9 DEF DirectoryInv

(* A request fails that has nothing of its own in the directory.           *)
LEMMA StopsKeeps ==
    ASSUME ComponentAssumption, DirectoryInv, NEW c \in Clients, NEW from, C!Stops(c, from),
           from \in Copying \cup {"ask"} => verdict.who # c \/ verdict.result # "none",
           linked[c] = FALSE,
           failures' \in Nat, UNCHANGED <<channel, develop, dying, dir, files, verdict>>
    PROVE  DirectoryInv'
<1>1. Extracted' = Extracted
  BY DEF Extracted
<1>3. /\ cpc[c] = from /\ cpc'[c] = "idle" /\ cpc' \in [Clients -> RequestStages]
      /\ op'[c] = None /\ op' \in [Clients -> Requests \cup {None}]
      /\ want' \in [Clients -> {0, Extracted}]
      /\ next'[c] = 1 /\ next' \in [Clients -> 1 .. Length + 1]
      /\ linked'[c] = FALSE /\ linked' \in [Clients -> BOOLEAN]
      /\ \A b \in Clients \ {c} : /\ cpc'[b] = cpc[b] /\ op'[b] = op[b] /\ want'[b] = want[b]
                                  /\ next'[b] = next[b] /\ linked'[b] = linked[b]
  BY Stopped DEF DirectoryInv
<1>5. ComponentTyped'
  BY <1>1, <1>3 DEF DirectoryInv, ComponentTyped
<1>6. \A b \in Clients : RequestInv(b)'
  BY <1>1, <1>3 DEF DirectoryInv, RequestInv, Copying
<1>7. \A f : Written(f)' <=> Written(f)
  BY <1>3 DEF Written
<1>8. Apart' /\ LinkedIsThere'
  BY <1>3, <1>5 DEF DirectoryInv, Apart, LinkedIsThere, ComponentAssumption
<1>9. VerdictInv'
  <2>1. verdict.who \in Clients \cup {None}
    BY DEF DirectoryInv, ComponentTyped, Judged
  <2>2. \A b \in Clients \ {c}, f \in C!Files : Passed(b, f)' => Passed(b, f)
    BY <1>3 DEF Passed
  <2>3. VerdictIsOpen' /\ VerdictIsKnown' /\ Uninstalled'
    BY <1>1, <1>3, <2>1
    DEF DirectoryInv, VerdictInv, VerdictIsOpen, VerdictIsKnown, Uninstalled, Copying, C!Unknown
  <2>4. Installed'
    <3> SUFFICES ASSUME verdict.op = "install", NEW f \in C!Files, Got(f)'
                 PROVE  files[f] = Extracted \/ (files[f] = Cut /\ Written(f))
      BY <1>1, <1>7, <2>1 DEF Installed
    <3>1. verdict.who # None
      BY DEF DirectoryInv, VerdictInv, VerdictIsKnown, C!Unknown
    <3>2. Got(f)
      <4>1. CASE verdict.result = "ok"
        BY <4>1 DEF Got
      <4>2. CASE verdict.result = "none"
        BY <1>3, <2>1, <2>2, <3>1, <4>2 DEF Got, DirectoryInv, VerdictInv, VerdictIsOpen
      <4> QED  BY <2>1, <4>1, <4>2 DEF Got
    <3> QED  BY <3>2 DEF DirectoryInv, VerdictInv, Installed
  <2> QED  BY <2>3, <2>4 DEF VerdictInv
<1> QED  BY <1>5, <1>6, <1>8, <1>9 DEF DirectoryInv

LEMMA BeginKeeps ==
    ASSUME ComponentAssumption, DirectoryInv, NEW c \in Clients, NEW o \in Requests, C!Begin(c, o)
    PROVE  DirectoryInv'
<1>1. /\ cpc[c] = "idle" /\ cpc' = [cpc EXCEPT ![c] = C!First[o]] /\ op' = [op EXCEPT ![c] = o]
      /\ UNCHANGED <<channel, develop, dying, dir, files, want, next, linked, verdict, failures>>
  BY DEF C!Begin, C!Goto, C!diskVars
<1>2. Extracted' = Extracted
  BY <1>1 DEF Extracted
<1>3. /\ C!First[o] \in {"resolve", "look", "stat", "dismiss", "restart"}
      /\ C!First[o] = "resolve" => o = "install"
      /\ C!First[o] = "look" => o = "uninstall"
  <2>1. o \in {"install", "uninstall", "status", "fixed", "core"}
    BY DEF ComponentAssumption
  <2> QED  BY <2>1 DEF C!First
<1>4. ComponentTyped'
  BY <1>1, <1>2, <1>3 DEF DirectoryInv, ComponentTyped, RequestStages
<1>5. \A b \in Clients : RequestInv(b)'
  <2> TAKE b \in Clients
  <2>1. RequestInv(b) /\ cpc \in [Clients -> RequestStages] /\ op \in [Clients -> Requests \cup {None}]
    BY DEF DirectoryInv, ComponentTyped
  <2>2. CASE b = c
    <3>1. cpc'[b] = C!First[o] /\ op'[b] = o /\ next'[b] = 1 /\ ~linked'[b]
      BY <1>1, <2>1, <2>2 DEF RequestInv
    <3> QED  BY <1>1, <1>3, <3>1 DEF RequestInv, Copying
  <2>3. CASE b # c
    BY <1>1, <1>2, <2>1, <2>3 DEF RequestInv
  <2> QED  BY <2>2, <2>3
<1>6. Apart'
  <2>1. op \in [Clients -> Requests \cup {None}]
    BY DEF DirectoryInv, ComponentTyped
  <2>2. o = "install" => \A b \in Clients : op[b] # "uninstall"
    BY DEF C!Begin, C!Against, ComponentAssumption
  <2>3. o = "uninstall" => \A b \in Clients : op[b] # "install"
    BY DEF C!Begin, C!Against, ComponentAssumption
  <2> QED  BY <1>1, <2>1, <2>2, <2>3 DEF DirectoryInv, Apart
<1>7. cpc'[c] = C!First[o] /\ \A b \in Clients \ {c} : cpc'[b] = cpc[b] /\ op'[b] = op[b]
  BY <1>1 DEF DirectoryInv, ComponentTyped
<1>8. \A f : Written(f)' <=> Written(f)
  BY <1>1, <1>3, <1>7 DEF Written
<1>9. LinkedIsThere'
  BY <1>1 DEF DirectoryInv, LinkedIsThere
<1>10. VerdictInv'
  <2>1. verdict.who \in Clients \cup {None}
    BY DEF DirectoryInv, ComponentTyped, Judged
  <2>2. \A b \in Clients, f \in C!Files : Passed(b, f)' => Passed(b, f)
    BY <1>1, <1>3, <1>7 DEF Passed
  <2>3. VerdictIsOpen' /\ VerdictIsKnown' /\ Uninstalled'
    BY <1>1, <1>2, <1>3, <1>7, <2>1
    DEF DirectoryInv, VerdictInv, VerdictIsOpen, VerdictIsKnown, Uninstalled, Copying, C!Unknown
  <2>4. Installed'
    <3> SUFFICES ASSUME verdict.op = "install", NEW f \in C!Files, Got(f)'
                 PROVE  files[f] = Extracted \/ (files[f] = Cut /\ Written(f))
      BY <1>1, <1>2, <1>8 DEF Installed
    <3>1. verdict.who # None
      BY DEF DirectoryInv, VerdictInv, VerdictIsKnown, C!Unknown
    <3>2. Got(f)
      BY <1>1, <2>1, <2>2, <3>1 DEF Got
    <3> QED  BY <3>2 DEF DirectoryInv, VerdictInv, Installed
  <2> QED  BY <2>3, <2>4 DEF VerdictInv
<1> QED  BY <1>4, <1>5, <1>6, <1>9, <1>10 DEF DirectoryInv

LEMMA ResolveKeeps ==
    ASSUME ComponentAssumption, DirectoryInv, NEW c \in Clients, C!Resolve(c)
    PROVE  DirectoryInv'
<1>1. /\ cpc[c] = "resolve" /\ cpc' = [cpc EXCEPT ![c] = "remove"] /\ want' = [want EXCEPT ![c] = C!Chosen]
      /\ channel = "develop" => files[Manifest] # Cut
      /\ UNCHANGED <<channel, develop, dying, dir, files, op, next, linked, verdict, failures>>
  BY DEF C!Resolve, C!Goto, C!diskVars
<1>2. C!Chosen = Extracted
  <2>1. CASE channel = "develop" /\ develop # 0
    <3>1. files[Manifest] \in {0, Extracted} \cup Initial /\ Extracted = develop /\ develop \in Develop \ {0}
      BY <1>1, <2>1, ComponentFacts DEF DirectoryInv, ComponentTyped, Extracted, C!Files
    <3>2. develop \in Nat
      BY <3>1 DEF ComponentAssumption
    <3>3. CASE files[Manifest] \in {0, develop}
      BY <2>1, <3>1, <3>2, <3>3 DEF C!Chosen
    <3>4. CASE files[Manifest] \in Initial
      <4>1. files[Manifest] <= develop
        BY <3>1, <3>4 DEF ComponentAssumption
      <4> QED  BY <2>1, <3>1, <4>1 DEF C!Chosen
    <3> QED  BY <3>1, <3>3, <3>4
  <2>2. CASE ~(channel = "develop" /\ develop # 0)
    BY <2>2 DEF C!Chosen, Extracted
  <2> QED  BY <2>1, <2>2
<1>3. /\ cpc' \in [Clients -> RequestStages] /\ want' \in [Clients -> {0, Extracted}]
      /\ cpc'[c] = "remove" /\ want'[c] = Extracted
      /\ \A b \in Clients \ {c} : cpc'[b] = cpc[b] /\ want'[b] = want[b]
  BY <1>1, <1>2 DEF DirectoryInv, ComponentTyped, RequestStages
<1>4. RequestInv(c)'
  <2>1. Extracted' = Extracted
    BY <1>1 DEF Extracted
  <2> QED  BY <1>1, <1>3, <2>1 DEF DirectoryInv, RequestInv, Copying
<1> QED  BY <1>1, <1>3, <1>4, GoKeeps DEF Copying, DirectoryInv, ComponentTyped

(* A step that only takes the request from one place to the next.          *)
LEMMA MovesKeep ==
    ASSUME ComponentAssumption, DirectoryInv, NEW c \in Clients, NEW from, NEW to \in RequestStages,
           C!Goto(c, from, to),
           from # "write", to # "write", from \in Copying => to \in Copying \cup {"ask"},
           to \in Copying => from \in Copying,
           to = "ask" => next[c] > Length, RequestInv(c)',
           dir' = dir \/ (from \in Copying /\ dir' = TRUE),
           failures' \in Nat,
           from # "ask",
           UNCHANGED <<channel, develop, dying, files, op, want, next, linked, verdict>>
    PROVE  DirectoryInv'
<1>1. /\ cpc[c] = from /\ cpc'[c] = to /\ cpc' \in [Clients -> RequestStages]
      /\ \A b \in Clients \ {c} : cpc'[b] = cpc[b]
  BY Went DEF DirectoryInv
<1>2. want' \in [Clients -> {0, Extracted}]
  BY DEF DirectoryInv, ComponentTyped
<1> QED  BY <1>1, <1>2, GoKeeps

LEMMA SmallStepsKeep ==
    ASSUME ComponentAssumption, DirectoryInv, NEW c \in Clients,
           \/ C!Look(c) \/ C!MakeDir(c) \/ C!ManifestThere(c) \/ C!GetStatus(c) \/ C!DismissFixed(c)
    PROVE  DirectoryInv'
<1>0. RequestInv(c) /\ failures \in Nat /\ next[c] \in 1 .. Length + 1 /\ Length \in Nat
  BY DEF DirectoryInv, ComponentTyped, ComponentAssumption
<1>a. ASSUME UNCHANGED <<channel, develop>>  PROVE Extracted' = Extracted
  BY <1>a DEF Extracted
<1>b. ASSUME NEW from, NEW to, C!Goto(c, from, to)  PROVE cpc[c] = from /\ cpc'[c] = to
  BY <1>b DEF C!Goto, DirectoryInv, ComponentTyped
<1>1. CASE C!Look(c)
  <2>1. /\ C!Goto(c, "look", "remove")
        /\ UNCHANGED <<channel, develop, dying, dir, files, op, want, next, linked, verdict, failures>>
    BY <1>1 DEF C!Look, C!diskVars
  <2>2. RequestInv(c)'
    BY <1>0, <1>a, <1>b, <2>1 DEF RequestInv, Copying
  <2>3. "remove" \in RequestStages
    BY DEF RequestStages
  <2> QED  BY <1>0, <2>1, <2>2, <2>3, MovesKeep DEF Copying
<1>2. CASE C!MakeDir(c)
  <2>1. /\ C!Goto(c, "mkdir", "open") /\ next[c] <= Length /\ dir' = TRUE
        /\ UNCHANGED <<channel, develop, dying, files, op, want, next, linked, verdict, failures>>
    BY <1>2 DEF C!MakeDir
  <2>2. RequestInv(c)'
    BY <1>0, <1>a, <1>b, <2>1 DEF RequestInv, Copying, C!Files
  <2>3. "open" \in RequestStages
    BY DEF RequestStages
  <2> QED  BY <1>0, <2>1, <2>2, <2>3, MovesKeep DEF Copying
<1>3. CASE C!ManifestThere(c)
  <2>1. /\ C!Goto(c, "mkdir", "ask") /\ next[c] > Length
        /\ UNCHANGED <<channel, develop, dying, dir, files, op, want, next, linked, verdict, failures>>
    BY <1>3 DEF C!ManifestThere, C!diskVars
  <2>2. RequestInv(c)'
    BY <1>0, <1>a, <1>b, <2>1 DEF RequestInv, Copying
  <2>3. "ask" \in RequestStages
    BY DEF RequestStages
  <2> QED  BY <1>0, <2>1, <2>2, <2>3, MovesKeep DEF Copying
<1>4. CASE C!GetStatus(c)
  <2>1. /\ C!Goto(c, "stat", "sync")
        /\ UNCHANGED <<channel, develop, dying, dir, files, op, want, next, linked, verdict, failures>>
    BY <1>4 DEF C!GetStatus, C!diskVars
  <2>2. RequestInv(c)'
    BY <1>0, <1>a, <1>b, <2>1 DEF RequestInv, Copying
  <2>3. "sync" \in RequestStages
    BY DEF RequestStages
  <2> QED  BY <1>0, <2>1, <2>2, <2>3, MovesKeep DEF Copying
<1>5. CASE C!DismissFixed(c)
  <2>1. /\ C!Goto(c, "dismiss", "restart") /\ failures' \in Nat
        /\ UNCHANGED <<channel, develop, dying, dir, files, op, want, next, linked, verdict>>
    BY <1>0, <1>5 DEF C!DismissFixed, C!diskVars, C!Fails
  <2>2. RequestInv(c)'
    BY <1>0, <1>a, <1>b, <2>1 DEF RequestInv, Copying
  <2>3. "restart" \in RequestStages
    BY DEF RequestStages
  <2> QED  BY <1>0, <2>1, <2>2, <2>3, MovesKeep DEF Copying
<1> QED  BY <1>1, <1>2, <1>3, <1>4, <1>5

LEMMA EndingsKeep ==
    ASSUME ComponentAssumption, DirectoryInv, NEW c \in Clients,
           \/ C!ResolveFails(c) \/ C!NothingToRemove(c) \/ C!OpenFails(c) \/ C!ManifestMissing(c)
           \/ C!Ask(c) \/ C!AskFails(c) \/ C!StatusFails(c) \/ C!SyncIssueStatus(c)
           \/ C!RestartHomeAssistant(c)
    PROVE  DirectoryInv'
<1>0. failures \in Nat
  BY DEF DirectoryInv, ComponentTyped
<1>1. PICK from \in {"resolve", "look", "open", "mkdir", "ask", "stat", "sync", "restart"}, result \in {"ok", "failed"} :
        C!Ends(c, from, result) /\ (result = "ok" => from \notin Copying)
  BY DEF C!ResolveFails, C!NothingToRemove, C!OpenFails, C!ManifestMissing, C!Ask, C!AskFails, C!StatusFails,
         C!SyncIssueStatus, C!RestartHomeAssistant, Copying
<1>2. failures' \in Nat /\ UNCHANGED <<channel, develop, dying, dir, files>>
  BY <1>0 DEF C!ResolveFails, C!NothingToRemove, C!OpenFails, C!ManifestMissing, C!Ask, C!AskFails, C!StatusFails,
         C!SyncIssueStatus, C!RestartHomeAssistant, C!diskVars, C!Fails
<1> QED  BY <1>1, <1>2, EndsKeeps

(* Nothing is left of what was there, nor of the files that others have    *)
(* open.                                                                    *)
LEMMA RemoveAllKeeps ==
    ASSUME ComponentAssumption, DirectoryInv, NEW c \in Clients, C!RemoveAll(c)
    PROVE  DirectoryInv'
<1>1. /\ C!Goto(c, "remove", IF op[c] = "install" THEN "mkdir" ELSE "ask")
      /\ dir' = FALSE /\ files' = [f \in C!Files |-> 0] /\ linked' = [b \in Clients |-> FALSE]
      /\ verdict' = [who |-> c, op |-> op[c], result |-> "none"]
      /\ UNCHANGED <<channel, develop, dying, op, want, next, failures>>
  BY DEF C!RemoveAll, C!Nothing
<1>2. Extracted' = Extracted
  BY <1>1 DEF Extracted
<1>3. cpc[c] = "remove" /\ op[c] \in {"install", "uninstall"} /\ op[c] \in Requests /\ next[c] = 1
  <2>1. RequestInv(c) /\ op \in [Clients -> Requests \cup {None}] /\ cpc[c] = "remove"
    BY <1>1 DEF DirectoryInv, ComponentTyped, C!Goto
  <2> QED  BY <2>1 DEF RequestInv, ComponentAssumption
<1>4. /\ cpc'[c] = IF op[c] = "install" THEN "mkdir" ELSE "ask"
      /\ cpc' \in [Clients -> RequestStages] /\ \A b \in Clients \ {c} : cpc'[b] = cpc[b]
  BY <1>1, Went DEF DirectoryInv, RequestStages
<1>5. ComponentTyped'
  BY <1>1, <1>2, <1>3, <1>4 DEF DirectoryInv, ComponentTyped, Judged
<1>6. \A b \in Clients : RequestInv(b)'
  <2> TAKE b \in Clients
  <2>1. RequestInv(b) /\ ~linked'[b]
    BY <1>1 DEF DirectoryInv
  <2>2. CASE b = c
    BY <1>1, <1>2, <1>3, <1>4, <2>1, <2>2 DEF RequestInv, Copying
  <2>3. CASE b # c
    BY <1>1, <1>2, <1>4, <2>1, <2>3 DEF RequestInv
  <2> QED  BY <2>2, <2>3
<1>7. Apart' /\ LinkedIsThere'
  BY <1>1 DEF DirectoryInv, Apart, LinkedIsThere
<1>8. VerdictInv'
  <2>1. VerdictIsOpen' /\ VerdictIsKnown'
    BY <1>1, <1>3, <1>4 DEF VerdictIsOpen, VerdictIsKnown, Copying, ComponentAssumption, C!Unknown
  <2>2. Uninstalled'
    <3> SUFFICES ASSUME op[c] = "uninstall", NEW b \in Clients  PROVE cpc'[b] \notin Copying
      BY <1>1 DEF Uninstalled
    <3>1. CASE b = c
      BY <1>4, <3>1 DEF Copying
    <3>2. CASE b # c
      BY <1>4, <3>2 DEF DirectoryInv, RequestInv, Apart
    <3> QED  BY <3>1, <3>2
  <2>3. Installed'
    <3> SUFFICES ASSUME op[c] = "install", NEW f \in C!Files, Got(f)'  PROVE FALSE
      BY <1>1, <1>2 DEF Installed
    <3>1. f < 1
      BY <1>1, <1>3, <1>4 DEF Got, Passed
    <3> QED  BY <3>1 DEF C!Files, ComponentAssumption
  <2> QED  BY <2>1, <2>2, <2>3 DEF VerdictInv
<1> QED  BY <1>5, <1>6, <1>7, <1>8 DEF DirectoryInv

(* Some of the files are left.                                              *)
LEMMA RemoveFailsKeeps ==
    ASSUME ComponentAssumption, DirectoryInv, NEW c \in Clients, C!RemoveFails(c)
    PROVE  DirectoryInv'
<1>1. PICK gone \in SUBSET C!Files :
        /\ files' = [f \in C!Files |-> IF f \in gone THEN 0 ELSE files[f]]
        /\ linked' = [b \in Clients |-> linked[b] /\ next[b] \notin gone /\ b # c]
  BY DEF C!RemoveFails
<1>2. /\ C!Goto(c, "remove", "idle") /\ verdict' = C!Unknown
      /\ op' = [op EXCEPT ![c] = None] /\ want' = [want EXCEPT ![c] = 0] /\ failures' = failures + 1
      /\ UNCHANGED <<channel, develop, dying, dir, next>>
  BY DEF C!RemoveFails, C!Fails
<1>3. Extracted' = Extracted
  BY <1>2 DEF Extracted
<1>4. /\ cpc[c] = "remove" /\ cpc'[c] = "idle" /\ next[c] = 1
      /\ cpc' \in [Clients -> RequestStages] /\ \A b \in Clients \ {c} : cpc'[b] = cpc[b]
  <2>1. "idle" \in RequestStages
    BY DEF RequestStages
  <2>2. /\ cpc[c] = "remove" /\ cpc'[c] = "idle"
        /\ cpc' \in [Clients -> RequestStages] /\ \A b \in Clients \ {c} : cpc'[b] = cpc[b]
    BY <1>2, <2>1, Went DEF DirectoryInv
  <2> QED  BY <2>2 DEF DirectoryInv, RequestInv
<1>5. ComponentTyped'
  <2>1. files' \in [C!Files -> {0, Cut, Extracted} \cup Initial]
    BY <1>1 DEF DirectoryInv, ComponentTyped
  <2>2. linked' \in [Clients -> BOOLEAN]
    BY <1>1 DEF DirectoryInv, ComponentTyped
  <2>3. verdict' \in Judged
    BY <1>2 DEF Judged, C!Unknown
  <2>4. op' \in [Clients -> Requests \cup {None}] /\ want' \in [Clients -> {0, Extracted}]
    BY <1>2 DEF DirectoryInv, ComponentTyped
  <2> QED  BY <1>2, <1>3, <1>4, <2>1, <2>2, <2>3, <2>4 DEF DirectoryInv, ComponentTyped
<1>6. \A b \in Clients : RequestInv(b)'
  <2> TAKE b \in Clients
  <2>1. RequestInv(b) /\ (linked'[b] => linked[b] /\ b # c)
    BY <1>1 DEF DirectoryInv
  <2>2. op' = [op EXCEPT ![c] = None] /\ op \in [Clients -> Requests \cup {None}] /\ want \in [Clients -> {0, Extracted}]
    BY <1>2 DEF DirectoryInv, ComponentTyped
  <2>3. CASE b = c
    BY <1>2, <1>4, <2>1, <2>2, <2>3 DEF RequestInv, Copying
  <2>4. CASE b # c
    BY <1>2, <1>3, <1>4, <2>1, <2>2, <2>4 DEF RequestInv
  <2> QED  BY <2>3, <2>4
<1>7. Apart'
  BY <1>2 DEF DirectoryInv, ComponentTyped, Apart, ComponentAssumption
<1>8. LinkedIsThere'
  <2> SUFFICES ASSUME NEW b \in Clients, linked'[b]  PROVE files'[next[b]] # 0
    BY <1>2 DEF LinkedIsThere
  <2>1. linked[b] /\ next[b] \notin gone /\ next[b] \in C!Files
    BY <1>1 DEF DirectoryInv, RequestInv
  <2> QED  BY <1>1, <2>1 DEF DirectoryInv, LinkedIsThere
<1>9. VerdictInv'
  BY <1>2 DEF VerdictInv, VerdictIsOpen, VerdictIsKnown, Uninstalled, Installed, C!Unknown
<1> QED  BY <1>5, <1>6, <1>7, <1>8, <1>9 DEF DirectoryInv

LEMMA OpenFileKeeps ==
    ASSUME ComponentAssumption, DirectoryInv, NEW c \in Clients, C!OpenFile(c)
    PROVE  DirectoryInv'
<1>1. /\ C!Goto(c, "open", "write") /\ dir
      /\ files' = [files EXCEPT ![next[c]] = Cut] /\ linked' = [linked EXCEPT ![c] = TRUE]
      /\ UNCHANGED <<channel, develop, dying, dir, op, want, next, verdict, failures>>
  BY DEF C!OpenFile
<1>2. Extracted' = Extracted
  BY <1>1 DEF Extracted
<1>3. /\ cpc[c] = "open" /\ cpc'[c] = "write"
      /\ cpc' \in [Clients -> RequestStages] /\ \A b \in Clients \ {c} : cpc'[b] = cpc[b]
  BY <1>1, Went DEF DirectoryInv, RequestStages
<1>4. next[c] \in C!Files
  BY <1>3 DEF DirectoryInv, RequestInv
<1>5. ComponentTyped'
  BY <1>1, <1>2, <1>3 DEF DirectoryInv, ComponentTyped
<1>6. \A b \in Clients : RequestInv(b)'
  <2> TAKE b \in Clients
  <2>1. RequestInv(b) /\ linked \in [Clients -> BOOLEAN]
    BY DEF DirectoryInv, ComponentTyped
  <2>2. CASE b = c
    BY <1>1, <1>2, <1>3, <2>1, <2>2 DEF RequestInv, Copying
  <2>3. CASE b # c
    BY <1>1, <1>2, <1>3, <2>1, <2>3 DEF RequestInv
  <2> QED  BY <2>2, <2>3
<1>7. Apart'
  BY <1>1 DEF DirectoryInv, Apart
<1>8. \A b \in Clients : b # c => (linked'[b] <=> linked[b])
  BY <1>1 DEF DirectoryInv, ComponentTyped
<1>9. linked'[c] /\ files'[next[c]] = Cut /\ \A f \in C!Files \ {next[c]} : files'[f] = files[f]
  BY <1>1, <1>4 DEF DirectoryInv, ComponentTyped
<1>10. LinkedIsThere'
  <2> SUFFICES ASSUME NEW b \in Clients, linked'[b]  PROVE files'[next[b]] # 0
    BY <1>1 DEF LinkedIsThere
  <2>1. Cut # 0
    BY DEF ComponentAssumption
  <2>2. CASE next[b] = next[c]
    BY <1>9, <2>1, <2>2
  <2>3. CASE next[b] # next[c]
    <3>1. linked[b] /\ next[b] \in C!Files
      BY <1>8, <2>3 DEF DirectoryInv, RequestInv
    <3> QED  BY <1>9, <2>3, <3>1 DEF DirectoryInv, LinkedIsThere
  <2> QED  BY <2>2, <2>3
<1>11. VerdictInv'
  <2>1. verdict.who \in Clients \cup {None}
    BY DEF DirectoryInv, ComponentTyped, Judged
  <2>2. VerdictIsOpen'
    BY <1>1, <1>3, <1>8, <1>9, <2>1 DEF DirectoryInv, VerdictInv, VerdictIsOpen, Copying
  <2>3. VerdictIsKnown'
    BY <1>1, <1>2, <1>9 DEF DirectoryInv, VerdictInv, VerdictIsKnown, C!Unknown
  <2>4. Uninstalled'
    BY <1>1, <1>3, <2>1 DEF DirectoryInv, VerdictInv, Uninstalled, Copying
  <2>5. Installed'
    <3> SUFFICES ASSUME verdict.op = "install", NEW f \in C!Files, Got(f)'
                 PROVE  files'[f] = Extracted \/ (files'[f] = Cut /\ Written(f)')
      BY <1>1, <1>2 DEF Installed
    <3>1. Written(next[c])'
      BY <1>1, <1>3, <1>9 DEF Written
    <3>2. CASE f = next[c]
      BY <1>1, <1>9, <3>1, <3>2
    <3>3. CASE f # next[c]
      <4>1. verdict.who # None
        BY DEF DirectoryInv, VerdictInv, VerdictIsKnown, C!Unknown
      <4>2. \A b \in Clients : Passed(b, f)' => Passed(b, f)
        BY <1>1, <1>3 DEF Passed
      <4>3. Got(f)
        BY <1>1, <2>1, <4>1, <4>2 DEF Got
      <4>4. Written(f) => Written(f)'
        BY <1>1, <1>3, <1>8 DEF Written
      <4> QED  BY <1>9, <3>3, <4>3, <4>4 DEF DirectoryInv, VerdictInv, Installed
    <3> QED  BY <3>2, <3>3
  <2> QED  BY <2>2, <2>3, <2>4, <2>5 DEF VerdictInv
<1> QED  BY <1>5, <1>6, <1>7, <1>10, <1>11 DEF DirectoryInv

LEMMA CopyFileKeeps ==
    ASSUME ComponentAssumption, DirectoryInv, NEW c \in Clients, C!CopyFile(c)
    PROVE  DirectoryInv'
<1>1. /\ C!Goto(c, "write", "mkdir")
      /\ next' = [next EXCEPT ![c] = @ + 1] /\ linked' = [linked EXCEPT ![c] = FALSE]
      /\ UNCHANGED <<channel, develop, dying, dir, op, want, verdict, failures>>
      /\ ~linked[c] => files' = files
      /\ linked[c] => \E content \in {want[c]} \cup (IF files[next[c]] \in {Cut, want[c]} THEN {} ELSE {Cut}) :
                        files' = [files EXCEPT ![next[c]] = content]
  BY DEF C!CopyFile
<1>2. Extracted' = Extracted
  BY <1>1 DEF Extracted
<1>3. /\ cpc[c] = "write" /\ cpc'[c] = "mkdir"
      /\ cpc' \in [Clients -> RequestStages] /\ \A b \in Clients \ {c} : cpc'[b] = cpc[b]
  BY <1>1, Went DEF DirectoryInv, RequestStages
<1>4. next[c] \in C!Files /\ next[c] \in 1 .. Length /\ want[c] = Extracted /\ Length \in Nat
  BY <1>3 DEF DirectoryInv, RequestInv, Copying, C!Files, ComponentAssumption
<1>5. /\ next'[c] = next[c] + 1 /\ next' \in [Clients -> 1 .. Length + 1]
      /\ linked' \in [Clients -> BOOLEAN] /\ linked'[c] = FALSE
      /\ \A b \in Clients \ {c} : next'[b] = next[b] /\ linked'[b] = linked[b]
  BY <1>1, <1>4 DEF DirectoryInv, ComponentTyped
<1>6. /\ files' \in [C!Files -> {0, Cut, Extracted} \cup Initial]
      /\ \A f \in C!Files \ {next[c]} : files'[f] = files[f]
      /\ linked[c] => files'[next[c]] \in {Cut, Extracted}
      /\ linked[c] /\ files[next[c]] \in {Cut, Extracted} => files'[next[c]] = Extracted
  BY <1>1, <1>4 DEF DirectoryInv, ComponentTyped
<1>7. ComponentTyped'
  BY <1>1, <1>2, <1>3, <1>5, <1>6 DEF DirectoryInv, ComponentTyped
<1>8. \A b \in Clients : RequestInv(b)'
  <2> TAKE b \in Clients
  <2>1. RequestInv(b)
    BY DEF DirectoryInv
  <2>2. CASE b = c
    BY <1>1, <1>2, <1>3, <1>5, <2>1, <2>2 DEF RequestInv, Copying
  <2>3. CASE b # c
    BY <1>1, <1>2, <1>3, <1>5, <2>1, <2>3 DEF RequestInv
  <2> QED  BY <2>2, <2>3
<1>9. Apart'
  BY <1>1 DEF DirectoryInv, Apart
<1>10. LinkedIsThere'
  <2> SUFFICES ASSUME NEW b \in Clients, linked'[b]  PROVE files'[next'[b]] # 0
    BY DEF LinkedIsThere
  <2>1. b # c /\ linked[b] /\ next'[b] = next[b] /\ next[b] \in C!Files /\ files[next[b]] # 0
    BY <1>5 DEF DirectoryInv, RequestInv, LinkedIsThere
  <2>2. Cut # 0 /\ Extracted # 0
    BY ComponentFacts DEF DirectoryInv, ComponentTyped, ComponentAssumption
  <2>3. CASE linked[c] /\ next[b] = next[c]
    BY <1>6, <2>1, <2>2, <2>3
  <2>4. CASE ~linked[c] \/ next[b] # next[c]
    BY <1>1, <1>6, <2>1, <2>4
  <2> QED  BY <2>3, <2>4
<1>11. VerdictInv'
  <2>1. verdict.who \in Clients \cup {None}
    BY DEF DirectoryInv, ComponentTyped, Judged
  <2>2. VerdictIsOpen' /\ Uninstalled'
    BY <1>1, <1>3, <1>5, <2>1 DEF DirectoryInv, VerdictInv, VerdictIsOpen, Uninstalled, Copying
  <2>3. VerdictIsKnown'
    <3>1. verdict.who # None => \A f \in C!Files : files'[f] \in {0, Cut, Extracted}
      BY <1>1, <1>6 DEF DirectoryInv, VerdictInv, VerdictIsKnown
    <3> QED  BY <1>1, <1>2, <3>1 DEF DirectoryInv, VerdictInv, VerdictIsKnown, C!Unknown
  <2>4. Installed'
    <3> SUFFICES ASSUME verdict.op = "install", NEW f \in C!Files, Got(f)'
                 PROVE  files'[f] = Extracted \/ (files'[f] = Cut /\ Written(f)')
      BY <1>1, <1>2 DEF Installed
    <3>1. /\ verdict.who # None /\ verdict.who \in Clients
          /\ \A g \in C!Files : files[g] \in {0, Cut, Extracted}
      BY <2>1 DEF DirectoryInv, VerdictInv, VerdictIsKnown, C!Unknown
    <3>2. CASE linked[c] /\ f = next[c]
      <4>1. files[f] # 0
        BY <3>2 DEF DirectoryInv, LinkedIsThere
      <4> QED  BY <1>6, <3>1, <3>2, <4>1
    <3>3. CASE ~(linked[c] /\ f = next[c])
      <4>1. files'[f] = files[f]
        BY <1>1, <1>6, <3>3
      <4>2. Written(f) => Written(f)'
        BY <1>3, <1>5, <3>3 DEF Written
      <4>3. Got(f)
        <5>1. CASE verdict.result = "ok"
          BY <5>1 DEF Got
        <5>2. CASE verdict.result = "none" /\ verdict.who # c
          BY <1>1, <1>3, <1>5, <3>1, <5>2 DEF Got, Passed
        <5>3. CASE verdict.result = "none" /\ verdict.who = c
          <6>1. linked[c]
            BY <1>3, <3>1, <5>3 DEF DirectoryInv, VerdictInv, VerdictIsOpen
          <6>2. f < next[c] + 1 /\ f # next[c] /\ f \in Nat /\ next[c] \in Nat
            BY <1>1, <1>3, <1>4, <1>5, <3>3, <5>3, <6>1 DEF Got, Passed, C!Files
          <6>3. f < next[c]
            BY <6>2
          <6> QED  BY <5>3, <6>3 DEF Got, Passed
        <5> QED  BY <1>1, <5>1, <5>2, <5>3 DEF Got
      <4> QED  BY <4>1, <4>2, <4>3 DEF DirectoryInv, VerdictInv, Installed
    <3> QED  BY <3>2, <3>3
  <2> QED  BY <2>2, <2>3, <2>4 DEF VerdictInv
<1> QED  BY <1>7, <1>8, <1>9, <1>10, <1>11 DEF DirectoryInv

(* A copy that fails leaves its file cut short; unless that file is not in *)
(* the directory any more, nothing is said of the last removal from then.  *)
LEMMA CopyFailsKeeps ==
    ASSUME ComponentAssumption, DirectoryInv, NEW c \in Clients, C!CopyFails(c)
    PROVE  DirectoryInv'
<1>1. /\ C!Stops(c, "write") /\ verdict' = IF linked[c] THEN C!Unknown ELSE verdict
      /\ failures' = failures + 1 /\ UNCHANGED <<channel, develop, dying, dir, files>>
  BY DEF C!CopyFails, C!Fails, C!diskVars
<1>2. Extracted' = Extracted
  BY <1>1 DEF Extracted
<1>3. /\ cpc[c] = "write" /\ cpc'[c] = "idle" /\ cpc' \in [Clients -> RequestStages]
      /\ op'[c] = None /\ op' \in [Clients -> Requests \cup {None}]
      /\ want' \in [Clients -> {0, Extracted}]
      /\ next'[c] = 1 /\ next' \in [Clients -> 1 .. Length + 1]
      /\ linked'[c] = FALSE /\ linked' \in [Clients -> BOOLEAN]
      /\ \A b \in Clients \ {c} : /\ cpc'[b] = cpc[b] /\ op'[b] = op[b] /\ want'[b] = want[b]
                                  /\ next'[b] = next[b] /\ linked'[b] = linked[b]
  BY <1>1, Stopped DEF DirectoryInv
<1>4. failures' \in Nat /\ linked[c] \in BOOLEAN
  BY <1>1 DEF DirectoryInv, ComponentTyped
<1>5. CASE linked[c]
  <2>1. verdict' = C!Unknown /\ verdict' \in Judged
    BY <1>1, <1>5 DEF Judged, C!Unknown
  <2>2. ComponentTyped'
    BY <1>1, <1>2, <1>3, <1>4, <2>1 DEF DirectoryInv, ComponentTyped
  <2>3. \A b \in Clients : RequestInv(b)'
    BY <1>2, <1>3 DEF DirectoryInv, RequestInv, Copying
  <2>4. Apart' /\ LinkedIsThere'
    BY <1>1, <1>3, <2>2 DEF DirectoryInv, Apart, LinkedIsThere, ComponentAssumption
  <2>5. VerdictInv'
    BY <2>1 DEF VerdictInv, VerdictIsOpen, VerdictIsKnown, Uninstalled, Installed, C!Unknown
  <2> QED  BY <2>2, <2>3, <2>4, <2>5 DEF DirectoryInv
<1>6. CASE linked[c] = FALSE
  <2>1. verdict' = verdict
    BY <1>1, <1>6
  <2>2. verdict.who # c \/ verdict.result # "none"
    BY <1>3, <1>6 DEF DirectoryInv, VerdictInv, VerdictIsOpen, ComponentAssumption
  <2> QED  BY <1>1, <1>4, <1>6, <2>1, <2>2, StopsKeeps
<1> QED  BY <1>4, <1>5, <1>6

LEMMA CallFailsKeeps ==
    ASSUME ComponentAssumption, DirectoryInv, NEW c \in Clients, C!CallFails(c)
    PROVE  DirectoryInv'
<1>1. PICK from \in {"sync", "restart", "supervisor", "answered"} : C!Stops(c, from)
  BY DEF C!CallFails
<1>2. failures' \in Nat /\ UNCHANGED <<channel, develop, dying, dir, files, verdict>>
  BY DEF C!CallFails, C!Fails, C!diskVars, DirectoryInv, ComponentTyped
<1>3. cpc[c] = from
  BY <1>1, Stopped DEF DirectoryInv
<1>4. linked[c] = FALSE
  BY <1>3 DEF DirectoryInv, ComponentTyped, RequestInv
<1> QED  BY <1>1, <1>2, <1>4, StopsKeeps DEF Copying

(* The server ends, and every request with it.                             *)
LEMMA DiesKeeps ==
    ASSUME ComponentAssumption, DirectoryInv, C!Dies
    PROVE  DirectoryInv'
<1>1. /\ cpc' = [c \in Clients |-> "idle"] /\ op' = [c \in Clients |-> None]
      /\ want' = [c \in Clients |-> 0] /\ next' = [c \in Clients |-> 1]
      /\ linked' = [c \in Clients |-> FALSE] /\ dying' = FALSE /\ failures' = failures + 1
      /\ verdict' = IF verdict.result = "none" \/ \E c \in Clients : linked[c] THEN C!Unknown ELSE verdict
      /\ UNCHANGED <<channel, develop, dir, files>>
  BY DEF C!Dies, C!diskVars, C!Fails, DirectoryInv, ComponentTyped
<1>2. Extracted' = Extracted
  BY <1>1 DEF Extracted
<1>3. ComponentTyped'
  <2>1. verdict' \in Judged
    BY <1>1 DEF DirectoryInv, ComponentTyped, Judged, C!Unknown
  <2>2. 1 \in 1 .. Length + 1
    BY DEF ComponentAssumption
  <2> QED  BY <1>1, <1>2, <2>1, <2>2 DEF DirectoryInv, ComponentTyped, RequestStages
<1>4. \A c \in Clients : RequestInv(c)'
  BY <1>1 DEF RequestInv, Copying
<1>5. Apart' /\ LinkedIsThere'
  BY <1>1 DEF Apart, LinkedIsThere, ComponentAssumption
<1>6. VerdictInv'
  <2>1. CASE verdict.result = "none" \/ \E c \in Clients : linked[c]
    BY <1>1, <2>1 DEF VerdictInv, VerdictIsOpen, VerdictIsKnown, Uninstalled, Installed, C!Unknown
  <2>2. CASE verdict.result # "none" /\ \A c \in Clients : ~linked[c]
    <3>1. verdict' = verdict
      BY <1>1, <2>2
    <3>2. VerdictIsOpen' /\ VerdictIsKnown'
      BY <1>1, <1>2, <2>2, <3>1 DEF DirectoryInv, VerdictInv, VerdictIsOpen, VerdictIsKnown, C!Unknown
    <3>3. Uninstalled'
      BY <1>1, <3>1 DEF DirectoryInv, VerdictInv, Uninstalled, Copying
    <3>4. Installed'
      BY <1>1, <1>2, <2>2, <3>1 DEF DirectoryInv, VerdictInv, Installed, Got, Written
    <3> QED  BY <3>2, <3>3, <3>4 DEF VerdictInv
  <2> QED  BY <2>1, <2>2
<1> QED  BY <1>3, <1>4, <1>5, <1>6 DEF DirectoryInv

(* What does not touch the requests nor the directory.                     *)
LEMMA ElsewhereKeeps ==
    ASSUME ComponentAssumption, DirectoryInv,
           UNCHANGED <<channel, develop, dying, dir, files, cpc, op, want, next, linked, verdict, failures>>
    PROVE  DirectoryInv'
<1>1. Extracted' = Extracted
  BY DEF Extracted
<1>2. ComponentTyped' /\ Apart' /\ LinkedIsThere'
  BY <1>1 DEF DirectoryInv, ComponentTyped, Apart, LinkedIsThere
<1>3. \A c \in Clients : RequestInv(c)'
  BY <1>1 DEF DirectoryInv, RequestInv
<1>4. VerdictIsOpen' /\ VerdictIsKnown' /\ Uninstalled'
  BY <1>1 DEF DirectoryInv, VerdictInv, VerdictIsOpen, VerdictIsKnown, Uninstalled
<1>5. Installed'
  BY <1>1 DEF DirectoryInv, VerdictInv, Installed, Got, Passed, Written
<1> QED  BY <1>2, <1>3, <1>4, <1>5 DEF DirectoryInv, VerdictInv

LEMMA DirectoryInit ==
    ASSUME ComponentAssumption, C!Init
    PROVE  DirectoryInv
<1>1. PICK v \in Initial : files = [f \in C!Files |-> v]
  BY DEF C!Init, C!Whole
<1>2. /\ channel \in Channels /\ develop \in Develop /\ dir \in BOOLEAN /\ dying = FALSE
      /\ cpc = [c \in Clients |-> "idle"] /\ op = [c \in Clients |-> None]
      /\ want = [c \in Clients |-> 0] /\ next = [c \in Clients |-> 1]
      /\ linked = [c \in Clients |-> FALSE] /\ verdict = C!Unknown /\ failures = 0
  BY DEF C!Init
<1>3. ComponentTyped
  <2>1. 1 \in 1 .. Length + 1
    BY DEF ComponentAssumption
  <2> QED  BY <1>1, <1>2, <2>1 DEF ComponentTyped, RequestStages, Judged, C!Unknown
<1>4. \A c \in Clients : RequestInv(c)
  BY <1>2 DEF RequestInv, Copying
<1>5. Apart /\ LinkedIsThere
  BY <1>2 DEF Apart, LinkedIsThere, ComponentAssumption
<1>6. VerdictInv
  BY <1>2 DEF VerdictInv, VerdictIsOpen, VerdictIsKnown, Uninstalled, Installed, C!Unknown
<1> QED  BY <1>3, <1>4, <1>5, <1>6 DEF DirectoryInv

LEMMA DirectoryStep ==
    ASSUME ComponentAssumption, DirectoryInv, [C!Next]_(C!vars)
    PROVE  DirectoryInv'
<1>1. ASSUME NEW c \in Clients, NEW o \in Requests, C!Begin(c, o)  PROVE DirectoryInv'
  BY <1>1, BeginKeeps
<1>2. ASSUME NEW c \in Clients, C!Install(c)  PROVE DirectoryInv'
  BY <1>2, ResolveKeeps, SmallStepsKeep, EndingsKeep, OpenFileKeeps, CopyFileKeeps, CopyFailsKeeps DEF C!Install
<1>3. ASSUME NEW c \in Clients,
             \/ C!RemoveAll(c) \/ C!Look(c) \/ C!NothingToRemove(c) \/ C!RemoveFails(c)
             \/ C!Ask(c) \/ C!AskFails(c) \/ C!GetStatus(c) \/ C!StatusFails(c) \/ C!SyncIssueStatus(c)
             \/ C!DismissFixed(c) \/ C!RestartHomeAssistant(c) \/ C!CallFails(c)
      PROVE  DirectoryInv'
  BY <1>3, RemoveAllKeeps, RemoveFailsKeeps, SmallStepsKeep, EndingsKeep, CallFailsKeeps
<1>4. ASSUME NEW c \in Clients, C!RestartSelfApp(c) \/ C!DismissRestarted(c)  PROVE DirectoryInv'
  <2>1. cpc[c] \in {"supervisor", "answered"}
    BY <1>4 DEF C!RestartSelfApp, C!DismissRestarted, C!Ends, C!Stops, C!Goto
  <2> QED  BY <2>1 DEF DirectoryInv, ComponentTyped, RequestStages
<1>5. ASSUME C!HomeAssistantStarts \/ C!Hello \/ UNCHANGED C!vars  PROVE DirectoryInv'
  BY <1>5, ElsewhereKeeps DEF C!HomeAssistantStarts, C!Hello, C!vars, C!diskVars, C!callVars
<1>6. ASSUME C!Dies  PROVE DirectoryInv'
  BY <1>6, DiesKeeps
<1> QED  BY <1>1, <1>2, <1>3, <1>4, <1>5, <1>6 DEF C!Next

(* A step of a request that does not copy.                                  *)
LEMMA CopiesStay ==
    ASSUME DirIsMade, ManifestIsMade, UNCHANGED <<dir, files>>,
           \A b \in Clients : {cpc[b], cpc'[b]} \cap Copying # {} => cpc'[b] = cpc[b] /\ next'[b] = next[b]
    PROVE  DirIsMade' /\ ManifestIsMade'
<1>1. \A b \in Clients : /\ cpc[b] \in Copying => cpc'[b] = cpc[b] /\ next'[b] = next[b]
                         /\ cpc'[b] \in Copying => cpc'[b] = cpc[b] /\ next'[b] = next[b]
  OBVIOUS
<1>2. DirIsMade'
  BY <1>1 DEF DirIsMade, Copying
<1>3. \A b \in Clients : (PastManifest(b)' <=> PastManifest(b)) /\ (BeforeManifest(b)' <=> BeforeManifest(b))
  BY <1>1 DEF PastManifest, BeforeManifest, Copying
<1>4. ManifestIsMade'
  BY <1>3 DEF ManifestIsMade
<1> QED  BY <1>2, <1>4

(* The steps of an installation into the directory: whoever removes it     *)
(* under another makes it again.                                            *)
LEMMA CopyingAsks ==
    ASSUME ComponentAssumption, DirectoryInv, DirIsMade, ManifestIsMade, NEW c \in Clients,
           \/ C!MakeDir(c) \/ C!OpenFile(c) \/ C!OpenFails(c) \/ C!CopyFile(c)
           \/ C!ManifestThere(c) \/ C!ManifestMissing(c)
    PROVE  DirIsMade' /\ ManifestIsMade' /\ \E d \in Clients : WillAsk(d)'
<1>0. /\ cpc \in [Clients -> RequestStages] /\ next \in [Clients -> 1 .. Length + 1]
      /\ Length \in Nat /\ Manifest \in 1 .. Length /\ files \in [C!Files -> {0, Cut, Extracted} \cup Initial]
      /\ \A b \in Clients : RequestInv(b)
      /\ Cut # 0 /\ Extracted # 0 /\ Manifest \in C!Files
  BY ComponentFacts DEF DirectoryInv, ComponentTyped, ComponentAssumption, C!Files
<1>a. ASSUME NEW b \in Clients, cpc'[b] = cpc[b], next'[b] = next[b]
      PROVE  /\ PastManifest(b)' <=> PastManifest(b)
             /\ BeforeManifest(b)' <=> BeforeManifest(b)
             /\ WillAsk(b)' <=> WillAsk(b)
  BY <1>a DEF PastManifest, BeforeManifest, WillAsk
<1>1. CASE C!MakeDir(c)
  <2>1. /\ cpc[c] = "mkdir" /\ cpc' = [cpc EXCEPT ![c] = "open"] /\ dir' = TRUE /\ files' = files /\ next' = next
    BY <1>1 DEF C!MakeDir, C!Goto
  <2>2. cpc'[c] = "open" /\ \A b \in Clients \ {c} : cpc'[b] = cpc[b]
    BY <1>0, <2>1
  <2>3. DirIsMade' /\ WillAsk(c)'
    BY <2>1, <2>2 DEF DirIsMade, WillAsk, Copying
  <2>4. (PastManifest(c)' => PastManifest(c)) /\ (BeforeManifest(c) => BeforeManifest(c)')
    BY <2>1, <2>2 DEF PastManifest, BeforeManifest, Copying
  <2>5. ManifestIsMade'
    BY <1>a, <2>1, <2>2, <2>4 DEF ManifestIsMade
  <2> QED  BY <2>3, <2>5
<1>2. CASE C!OpenFile(c)
  <2>1. /\ cpc[c] = "open" /\ cpc' = [cpc EXCEPT ![c] = "write"] /\ dir /\ dir' = dir /\ next' = next
        /\ files' = [files EXCEPT ![next[c]] = Cut]
    BY <1>2 DEF C!OpenFile, C!Goto
  <2>2. cpc'[c] = "write" /\ \A b \in Clients \ {c} : cpc'[b] = cpc[b]
    BY <1>0, <2>1
  <2>3. DirIsMade' /\ WillAsk(c)'
    BY <2>1, <2>2 DEF DirIsMade, WillAsk, Copying
  <2>4. next[c] \in C!Files /\ next[c] \in Nat
    BY <1>0, <2>1 DEF RequestInv, C!Files
  <2>5. CASE next[c] = Manifest
    <3>1. files'[Manifest] # 0
      BY <1>0, <2>1, <2>5
    <3> QED  BY <2>3, <3>1 DEF ManifestIsMade
  <2>6. CASE next[c] # Manifest
    <3>1. files'[Manifest] = files[Manifest]
      BY <1>0, <2>1, <2>6
    <3>2. (PastManifest(c)' => PastManifest(c)) /\ (BeforeManifest(c) => BeforeManifest(c)')
      BY <1>0, <2>1, <2>2, <2>4, <2>6 DEF PastManifest, BeforeManifest, Copying
    <3>3. ManifestIsMade'
      BY <1>a, <2>1, <2>2, <3>1, <3>2 DEF ManifestIsMade
    <3> QED  BY <2>3, <3>3
  <2> QED  BY <2>5, <2>6
<1>3. CASE C!OpenFails(c)
  <2>1. C!Stops(c, "open") /\ ~dir /\ UNCHANGED <<dir, files>>
    BY <1>3 DEF C!OpenFails, C!Ends, C!diskVars
  <2>2. /\ cpc[c] = "open" /\ cpc'[c] = "idle"
        /\ \A b \in Clients \ {c} : cpc'[b] = cpc[b] /\ next'[b] = next[b]
    BY <2>1, Stopped DEF DirectoryInv
  <2>3. PICK d \in Clients : cpc[d] = "mkdir" /\ next[d] = 1
    BY <2>1, <2>2 DEF DirIsMade
  <2>4. cpc'[d] = "mkdir" /\ next'[d] = 1
    BY <2>2, <2>3
  <2>5. 1 <= Manifest
    BY <1>0
  <2>6. WillAsk(d)' /\ BeforeManifest(d)'
    BY <2>4, <2>5 DEF WillAsk, BeforeManifest, Copying
  <2>7. DirIsMade' /\ ManifestIsMade'
    BY <2>4, <2>6 DEF DirIsMade, ManifestIsMade
  <2> QED  BY <2>6, <2>7
<1>4. CASE C!CopyFile(c)
  <2>1. /\ cpc[c] = "write" /\ cpc' = [cpc EXCEPT ![c] = "mkdir"] /\ dir' = dir
        /\ next' = [next EXCEPT ![c] = @ + 1]
        /\ ~linked[c] => files' = files
        /\ linked[c] => \E content \in {want[c]} \cup (IF files[next[c]] \in {Cut, want[c]} THEN {} ELSE {Cut}) :
                          files' = [files EXCEPT ![next[c]] = content]
    BY <1>4 DEF C!CopyFile, C!Goto
  <2>2. /\ cpc'[c] = "mkdir" /\ next'[c] = next[c] + 1 /\ next[c] \in C!Files /\ next[c] \in 1 .. Length
        /\ want[c] = Extracted
        /\ \A b \in Clients \ {c} : cpc'[b] = cpc[b] /\ next'[b] = next[b]
    BY <1>0, <2>1 DEF RequestInv, Copying, C!Files
  <2>3. DirIsMade' /\ WillAsk(c)'
    BY <2>1, <2>2 DEF DirIsMade, WillAsk, Copying
  <2>4. CASE next[c] = Manifest
    <3>1. CASE linked[c]
      <4>1. files'[Manifest] # 0
        BY <1>0, <2>1, <2>2, <2>4, <3>1
      <4> QED  BY <2>3, <4>1 DEF ManifestIsMade
    <3>2. CASE ~linked[c]
      <4>1. files' = files /\ PastManifest(c) /\ ~BeforeManifest(c)
        BY <1>0, <2>1, <2>2, <2>4, <3>2 DEF PastManifest, BeforeManifest
      <4>2. ManifestIsMade'
        BY <1>a, <2>2, <4>1 DEF ManifestIsMade
      <4> QED  BY <2>3, <4>2
    <3> QED  BY <3>1, <3>2
  <2>5. CASE next[c] # Manifest
    <3>1. files'[Manifest] = files[Manifest]
      BY <1>0, <2>1, <2>5
    <3>2. (PastManifest(c)' => PastManifest(c)) /\ (BeforeManifest(c) => BeforeManifest(c)')
      BY <1>0, <2>1, <2>2, <2>5 DEF PastManifest, BeforeManifest, Copying
    <3>3. ManifestIsMade'
      BY <1>a, <2>2, <3>1, <3>2 DEF ManifestIsMade
    <3> QED  BY <2>3, <3>3
  <2> QED  BY <2>4, <2>5
<1>5. CASE C!ManifestThere(c)
  <2>1. /\ cpc[c] = "mkdir" /\ cpc' = [cpc EXCEPT ![c] = "ask"] /\ next[c] > Length /\ files[Manifest] # 0
        /\ UNCHANGED <<dir, files, next>>
    BY <1>5 DEF C!ManifestThere, C!Goto, C!diskVars
  <2>2. cpc'[c] = "ask" /\ next[c] # 1 /\ \A b \in Clients \ {c} : cpc'[b] = cpc[b]
    BY <1>0, <2>1
  <2>3. DirIsMade' /\ ManifestIsMade' /\ WillAsk(c)'
    BY <2>1, <2>2 DEF DirIsMade, ManifestIsMade, WillAsk
  <2> QED  BY <2>3
<1>6. CASE C!ManifestMissing(c)
  <2>1. C!Stops(c, "mkdir") /\ next[c] > Length /\ files[Manifest] = 0 /\ UNCHANGED <<dir, files>>
    BY <1>6 DEF C!ManifestMissing, C!Ends, C!diskVars
  <2>2. /\ cpc[c] = "mkdir" /\ cpc'[c] = "idle"
        /\ \A b \in Clients \ {c} : cpc'[b] = cpc[b] /\ next'[b] = next[b]
    BY <2>1, Stopped DEF DirectoryInv
  <2>3. next[c] > Manifest /\ next[c] # 1 /\ PastManifest(c) /\ ~BeforeManifest(c)
    BY <1>0, <2>1, <2>2 DEF PastManifest, BeforeManifest, Copying
  <2>4. PICK d \in Clients : BeforeManifest(d)
    BY <2>1, <2>3 DEF ManifestIsMade
  <2>5. BeforeManifest(d)' /\ WillAsk(d)'
    BY <1>a, <2>2, <2>3, <2>4 DEF BeforeManifest, WillAsk, Copying
  <2>6. DirIsMade' /\ ManifestIsMade'
    BY <2>1, <2>2, <2>3, <2>5 DEF DirIsMade, ManifestIsMade
  <2> QED  BY <2>5, <2>6
<1> QED  BY <1>1, <1>2, <1>3, <1>4, <1>5, <1>6

LEMMA RemoveAllAsks ==
    ASSUME ComponentAssumption, DirectoryInv, NEW c \in Clients, C!RemoveAll(c)
    PROVE  DirIsMade' /\ ManifestIsMade' /\ WillAsk(c)'
<1>1. /\ cpc[c] = "remove" /\ cpc' = [cpc EXCEPT ![c] = IF op[c] = "install" THEN "mkdir" ELSE "ask"]
      /\ next' = next /\ cpc \in [Clients -> RequestStages]
      /\ next[c] = 1 /\ op[c] \in {"install", "uninstall"}
  BY DEF C!RemoveAll, C!Goto, DirectoryInv, ComponentTyped, RequestInv
<1>2. 1 <= Manifest
  BY DEF ComponentAssumption, C!Files
<1>3. CASE op[c] = "install"
  <2>1. cpc'[c] = "mkdir"
    BY <1>1, <1>3
  <2>2. WillAsk(c)' /\ BeforeManifest(c)'
    BY <1>1, <1>2, <2>1 DEF WillAsk, BeforeManifest, Copying
  <2> QED  BY <1>1, <2>1, <2>2 DEF DirIsMade, ManifestIsMade
<1>4. CASE op[c] = "uninstall"
  <2>1. cpc'[c] = "ask"
    BY <1>1, <1>4
  <2>2. \A b \in Clients : cpc'[b] \notin Copying
    <3> TAKE b \in Clients
    <3>1. CASE b = c
      BY <2>1, <3>1 DEF Copying
    <3>2. CASE b # c
      BY <1>1, <1>4, <3>2 DEF DirectoryInv, RequestInv, Apart
    <3> QED  BY <3>1, <3>2
  <2>3. \A b \in Clients : ~PastManifest(b)'
    BY <2>2 DEF PastManifest, Copying
  <2> QED  BY <2>1, <2>2, <2>3 DEF DirIsMade, ManifestIsMade, WillAsk, Copying
<1> QED  BY <1>1, <1>3, <1>4

LEMMA AskedStep ==
    ASSUME ComponentAssumption, DirectoryInv, AskedInv, [C!Next]_(C!vars)
    PROVE  AskedInv'
<1> SUFFICES ASSUME failures' = 0  PROVE DirIsMade' /\ ManifestIsMade' /\ Settled'
  BY DEF AskedInv
<1>0. failures \in Nat /\ dying = FALSE /\ cpc \in [Clients -> RequestStages]
  BY DEF DirectoryInv, ComponentTyped
<1>a. ~C!Fails
  BY <1>0 DEF C!Fails
<1>b. ASSUME failures = 0  PROVE DirIsMade /\ ManifestIsMade /\ Settled
  BY <1>b DEF AskedInv
<1>1. ASSUME NEW c \in Clients,
             \/ C!MakeDir(c) \/ C!OpenFile(c) \/ C!OpenFails(c) \/ C!CopyFile(c)
             \/ C!ManifestThere(c) \/ C!ManifestMissing(c)
      PROVE  DirIsMade' /\ ManifestIsMade' /\ Settled'
  <2>1. failures = 0
    BY <1>1 DEF C!MakeDir, C!OpenFile, C!OpenFails, C!CopyFile, C!ManifestThere, C!ManifestMissing
  <2> QED  BY <1>1, <1>b, <2>1, CopyingAsks DEF Settled
<1>2. ASSUME NEW c \in Clients, C!RemoveAll(c)
      PROVE  DirIsMade' /\ ManifestIsMade' /\ Settled'
  BY <1>2, RemoveAllAsks DEF Settled
<1>3. ASSUME NEW c \in Clients,
             \/ \E o \in Requests : C!Begin(c, o)
             \/ C!Resolve(c) \/ C!Look(c) \/ C!GetStatus(c)
      PROVE  DirIsMade' /\ ManifestIsMade' /\ Settled'
  <2>1. PICK from \in {"idle", "resolve", "look", "stat"},
             to \in {"resolve", "look", "stat", "dismiss", "restart", "remove", "sync"} : C!Goto(c, from, to)
    <3>1. \A o \in Requests : o \in {"install", "uninstall", "status", "fixed", "core"}
      BY DEF ComponentAssumption
    <3>2. \A o \in Requests : C!First[o] \in {"resolve", "look", "stat", "dismiss", "restart"}
      BY <3>1 DEF C!First
    <3> QED  BY <1>3, <3>2 DEF C!Begin, C!Resolve, C!Look, C!GetStatus
  <2>2. UNCHANGED <<dir, files, next, loaded, restartAsked, restarting, failures>>
    BY <1>3 DEF C!Begin, C!Resolve, C!Look, C!GetStatus, C!diskVars, C!coreVars, C!problemVars
  <2>3. cpc[c] = from /\ cpc'[c] = to /\ \A b \in Clients \ {c} : cpc'[b] = cpc[b]
    BY <1>0, <2>1 DEF C!Goto
  <2>4. DirIsMade' /\ ManifestIsMade'
    BY <1>b, <2>2, <2>3, CopiesStay DEF Copying
  <2>5. \A b \in Clients : WillAsk(b) => WillAsk(b)'
    BY <2>3 DEF WillAsk, Copying
  <2> QED  BY <1>b, <2>2, <2>4, <2>5 DEF Settled
<1>4. ASSUME NEW c \in Clients, C!ResolveFails(c) \/ C!NothingToRemove(c) \/ C!StatusFails(c) \/ C!SyncIssueStatus(c)
      PROVE  DirIsMade' /\ ManifestIsMade' /\ Settled'
  <2>1. PICK from \in {"resolve", "look", "stat", "sync"} : C!Stops(c, from)
    BY <1>4 DEF C!ResolveFails, C!NothingToRemove, C!StatusFails, C!SyncIssueStatus, C!Ends
  <2>2. UNCHANGED <<dir, files, loaded, restartAsked, restarting, failures>>
    BY <1>4 DEF C!ResolveFails, C!NothingToRemove, C!StatusFails, C!SyncIssueStatus, C!diskVars, C!coreVars, C!problemVars
  <2>3. /\ cpc[c] = from /\ cpc'[c] = "idle"
        /\ \A b \in Clients \ {c} : cpc'[b] = cpc[b] /\ next'[b] = next[b]
    BY <2>1, Stopped DEF DirectoryInv
  <2>4. DirIsMade' /\ ManifestIsMade'
    BY <1>b, <2>2, <2>3, CopiesStay DEF Copying
  <2>5. \A b \in Clients : WillAsk(b) => WillAsk(b)'
    BY <2>3 DEF WillAsk, Copying
  <2> QED  BY <1>b, <2>2, <2>4, <2>5 DEF Settled
<1>5. ASSUME NEW c \in Clients, C!Ask(c) \/ C!RestartHomeAssistant(c)
      PROVE  DirIsMade' /\ ManifestIsMade' /\ Settled'
  <2>1. PICK from \in {"ask", "restart"} : C!Stops(c, from)
    BY <1>5 DEF C!Ask, C!RestartHomeAssistant, C!Ends
  <2>2. UNCHANGED <<dir, files, failures>> /\ (restartAsked' = TRUE \/ restarting' = TRUE)
    BY <1>5 DEF C!Ask, C!RestartHomeAssistant, C!diskVars
  <2>3. /\ cpc[c] = from /\ cpc'[c] = "idle"
        /\ \A b \in Clients \ {c} : cpc'[b] = cpc[b] /\ next'[b] = next[b]
    BY <2>1, Stopped DEF DirectoryInv
  <2>4. DirIsMade' /\ ManifestIsMade'
    BY <1>b, <2>2, <2>3, CopiesStay DEF Copying
  <2> QED  BY <2>2, <2>4 DEF Settled
<1>6. ASSUME NEW c \in Clients, C!DismissFixed(c)
      PROVE  DirIsMade' /\ ManifestIsMade' /\ Settled'
  <2>1. C!Goto(c, "dismiss", "restart") /\ UNCHANGED <<dir, files, next, failures>>
    BY <1>6, <1>a DEF C!DismissFixed, C!diskVars
  <2>2. cpc[c] = "dismiss" /\ cpc'[c] = "restart" /\ \A b \in Clients \ {c} : cpc'[b] = cpc[b]
    BY <1>0, <2>1 DEF C!Goto
  <2>3. DirIsMade' /\ ManifestIsMade'
    BY <1>b, <2>1, <2>2, CopiesStay DEF Copying
  <2>4. WillAsk(c)'
    BY <2>2 DEF WillAsk
  <2> QED  BY <2>3, <2>4 DEF Settled
<1>7. ASSUME NEW c \in Clients,
             \/ C!RemoveFails(c) \/ C!CopyFails(c) \/ C!AskFails(c) \/ C!CallFails(c)
             \/ C!RestartSelfApp(c) \/ C!DismissRestarted(c)
      PROVE  FALSE
  <2>1. C!RestartSelfApp(c) \/ C!DismissRestarted(c)
    BY <1>7, <1>a DEF C!RemoveFails, C!CopyFails, C!AskFails, C!CallFails
  <2>2. cpc[c] \in {"supervisor", "answered"}
    BY <2>1 DEF C!RestartSelfApp, C!DismissRestarted, C!Ends, C!Stops, C!Goto
  <2> QED  BY <1>0, <2>2 DEF RequestStages
<1>8. ASSUME C!Dies  PROVE FALSE
  BY <1>0, <1>8, <1>a DEF C!Dies
<1>9. ASSUME C!HomeAssistantStarts \/ C!Hello \/ UNCHANGED C!vars
      PROVE  DirIsMade' /\ ManifestIsMade' /\ Settled'
  <2>1. UNCHANGED <<dir, files, cpc, next, restartAsked, failures>>
    BY <1>9 DEF C!HomeAssistantStarts, C!Hello, C!vars, C!diskVars, C!callVars, C!problemVars
  <2>2. DirIsMade' /\ ManifestIsMade'
    BY <1>b, <2>1, CopiesStay
  <2>3. loaded' = files \/ UNCHANGED <<loaded, restarting>>
    BY <1>9 DEF C!HomeAssistantStarts, C!Hello, C!vars, C!coreVars
  <2>4. \A b \in Clients : WillAsk(b)' <=> WillAsk(b)
    BY <2>1 DEF WillAsk
  <2> QED  BY <1>b, <2>1, <2>2, <2>3, <2>4 DEF Settled
<1> QED  BY <1>1, <1>2, <1>3, <1>4, <1>5, <1>6, <1>7, <1>8, <1>9 DEF C!Next, C!Install

(* Both, in every reachable state.                                         *)
LEMMA ComponentAlways ==
    ASSUME ComponentAssumption
    PROVE  C!Spec => []ComponentInv
<1>1. C!Init => ComponentInv
  <2> SUFFICES ASSUME C!Init  PROVE AskedInv
    BY DirectoryInit DEF ComponentInv
  <2>1. files = loaded /\ \A c \in Clients : cpc[c] = "idle"
    BY DEF C!Init
  <2> QED  BY <2>1 DEF AskedInv, DirIsMade, ManifestIsMade, Settled, PastManifest, Copying
<1>2. ComponentInv /\ [C!Next]_(C!vars) => ComponentInv'
  BY DirectoryStep, AskedStep DEF ComponentInv
<1> QED  BY <1>1, <1>2, PTL DEF C!Spec

(* LastRemoverGets: once no request is under way, the one that removed the *)
(* directory last has got what it reported, a whole component of one       *)
(* version or no directory, however many have extracted at the same time   *)
(* (InstallOrUpgradeFromZip, Uninstall).                                   *)
THEOREM LastRemoverHasIt ==
    ASSUME ComponentAssumption
    PROVE  C!Spec => []LastRemoverGets
<1>1. ASSUME ComponentInv  PROVE LastRemoverGets
  <2> SUFFICES ASSUME C!Quiet, verdict.result = "ok"
               PROVE  IF verdict.op = "install" THEN \E v \in C!Versions : files = C!Whole(v) ELSE ~dir
    BY DEF LastRemoverGets, C!LastRemoverGets
  <2>1. VerdictIsKnown /\ Uninstalled /\ Installed /\ files \in [C!Files -> {0, Cut, Extracted} \cup Initial]
    BY <1>1 DEF ComponentInv, DirectoryInv, VerdictInv, ComponentTyped
  <2>2. verdict.op \in {"install", "uninstall"}
    BY <2>1 DEF VerdictIsKnown, C!Unknown
  <2>3. CASE verdict.op = "install"
    <3>1. \A f \in C!Files : files[f] = Extracted
      BY <2>1, <2>3 DEF Installed, Got, Written, C!Quiet
    <3>2. files = C!Whole(Extracted)
      BY <2>1, <3>1 DEF C!Whole
    <3>3. Extracted \in C!Versions
      BY <1>1, ComponentFacts DEF ComponentInv, DirectoryInv, ComponentTyped
    <3> QED  BY <2>3, <3>2, <3>3
  <2>4. CASE verdict.op = "uninstall"
    BY <2>1, <2>4 DEF Uninstalled
  <2> QED  BY <2>2, <2>3, <2>4
<1> QED  BY <1>1, ComponentAlways, PTL

(* RestartIsAsked: as long as nothing has failed, whatever Home Assistant  *)
(* has not loaded as it is on the disk is asked for; no confirmation,      *)
(* restart or other request at the same time loses the question            *)
(* (UpsertRestartRequiredRepair, RestartHACore).                           *)
THEOREM RestartStaysAsked ==
    ASSUME ComponentAssumption
    PROVE  C!Spec => []RestartIsAsked
<1>1. ASSUME ComponentInv  PROVE RestartIsAsked
  BY <1>1 DEF ComponentInv, AskedInv, Settled, WillAsk, Copying, RestartIsAsked, C!RestartIsAsked, C!Quiet
<1> QED  BY <1>1, ComponentAlways, PTL

-----------------------------------------------------------------------------
(* The problems *)

(* Two actors, failures and restarts: what ProblemsProofs says of any      *)
(* instance of Problems, of the one that the run has.                      *)
TP == INSTANCE ProblemsProofs WITH
    rows <- pRows, cache <- pCache, queue <- pQueue, shown <- pShown, Keys <- ProblemKeys,
    Actors <- Clients, Ops <- {"upsert", "dismiss", "fix", "get"}, MayRestart <- TRUE

(* One actor, in the long run.                                             *)
OP == INSTANCE ProblemsProofs WITH
    rows <- pRows, cache <- pCache, queue <- pQueue, shown <- pShown, Keys <- ProblemKeys,
    Severities <- Shown, Ops <- {"upsert", "fix"}, MaxQueue <- MaxBacklog,
    MayFail <- FALSE, MayRestart <- FALSE

(* One call at a time works on a key; None is no row and no call.          *)
ProblemsAssumption(severities) ==
    /\ Overlap = FALSE
    /\ None \notin [id : Nat, open : BOOLEAN, severity : severities]
    /\ None \notin [op : {"upsert", "dismiss", "fix", "get"}, key : ProblemKeys, severity : severities]

OneGoroutine == Actors # {} /\ \A a, b \in Actors : a = b

(* The steps of Two are those of TP. *)
LEMMA TwoSteps ==
    /\ Two!Init => TP!Init
    /\ [Two!Next]_(Two!vars) => [TP!Next]_(TP!vars)
<1>1. Two!Init => TP!Init
  BY DEF Two!Init, TP!Init
<1>2. ASSUME NEW a \in Clients, Two!Call(a)  PROVE TP!Call(a)
  <2>1. Two!Busy = TP!Busy
    BY DEF Two!Busy, TP!Busy
  <2>2. \A k : Two!Quiet(k) <=> TP!Quiet(k)
    BY <2>1 DEF Two!Quiet, TP!Quiet
  <2>3. Two!Cardinality(Two!Busy) = TP!Cardinality(TP!Busy)
    BY <2>1, Zenon DEF Two!Cardinality, TP!Cardinality
  <2> QED  BY <1>2, <2>1, <2>2, <2>3 DEF Two!Call, TP!Call, Two!Goto, TP!Goto, Two!storeVars, TP!storeVars,
      Two!haVars, TP!haVars, Two!bridgeVars, TP!bridgeVars
<1>3. ASSUME NEW a \in Clients, Two!FindNothing(a)  PROVE TP!FindNothing(a)
  BY <1>3 DEF Two!FindNothing, TP!FindNothing, Two!MoveTo, TP!MoveTo, Two!Goto, TP!Goto, Two!storeVars,
      TP!storeVars, Two!haVars, TP!haVars, Two!bridgeVars, TP!bridgeVars
<1>4. ASSUME NEW a \in Clients, Two!FindRow(a)  PROVE TP!FindRow(a)
  BY <1>4 DEF Two!FindRow, TP!FindRow, Two!Goto, TP!Goto, Two!First, TP!First, Two!storeVars, TP!storeVars,
      Two!haVars, TP!haVars, Two!bridgeVars, TP!bridgeVars
<1>5. ASSUME NEW a \in Clients, Two!Write(a)  PROVE TP!Write(a)
  BY <1>5 DEF Two!Write, TP!Write, Two!Goto, TP!Goto, Two!WriteUpsert, TP!WriteUpsert, Two!WriteFix,
      TP!WriteFix, Two!WriteDismiss, TP!WriteDismiss, Two!Save, TP!Save, Two!storeVars, TP!storeVars,
      Two!haVars, TP!haVars, Two!bridgeVars, TP!bridgeVars
<1>6. ASSUME NEW a \in Clients, Two!Cache(a)  PROVE TP!Cache(a)
  BY <1>6 DEF Two!Cache, TP!Cache, Two!MoveTo, TP!MoveTo, Two!Goto, TP!Goto, Two!storeVars, TP!storeVars,
      Two!haVars, TP!haVars, Two!bridgeVars, TP!bridgeVars
<1>7. ASSUME NEW a \in Clients, Two!RouteToRepair(a)  PROVE TP!RouteToRepair(a)
  BY <1>7 DEF Two!RouteToRepair, TP!RouteToRepair, Two!MoveTo, TP!MoveTo, Two!Goto, TP!Goto, Two!AsRepair,
      TP!AsRepair, Two!Terminal, TP!Terminal, Two!storeVars, TP!storeVars, Two!haVars, TP!haVars,
      Two!bridgeVars, TP!bridgeVars
<1>8. ASSUME NEW a \in Clients, Two!Enqueue(a)  PROVE TP!Enqueue(a)
  BY <1>8 DEF Two!Enqueue, TP!Enqueue, Two!MoveTo, TP!MoveTo, Two!Goto, TP!Goto, Two!AsRepair, TP!AsRepair,
      Two!Terminal, TP!Terminal, Two!ActionOf, TP!ActionOf, Two!storeVars, TP!storeVars, Two!haVars, TP!haVars,
      Two!bridgeVars, TP!bridgeVars
<1>9. ASSUME NEW a \in Clients, Two!RouteToHA(a)  PROVE TP!RouteToHA(a)
  BY <1>9 DEF Two!RouteToHA, TP!RouteToHA, Two!Goto, TP!Goto, Two!AsRepair, TP!AsRepair, Two!Terminal,
      TP!Terminal, Two!ActionOf, TP!ActionOf, Two!storeVars, TP!storeVars, Two!haVars, TP!haVars,
      Two!bridgeVars, TP!bridgeVars
<1>10. ASSUME NEW a \in Clients, Two!Flush(a)  PROVE TP!Flush(a)
  BY <1>10 DEF Two!Flush, TP!Flush, Two!Goto, TP!Goto, Two!storeVars, TP!storeVars, Two!haVars, TP!haVars,
      Two!bridgeVars, TP!bridgeVars
<1>11. ASSUME NEW a \in Clients, Two!SkipCreate(a)  PROVE TP!SkipCreate(a)
  BY <1>11 DEF Two!SkipCreate, TP!SkipCreate, Two!Current, TP!Current, Two!NextAction, TP!NextAction,
      Two!MoveTo, TP!MoveTo, Two!Goto, TP!Goto, Two!storeVars, TP!storeVars, Two!haVars, TP!haVars,
      Two!bridgeVars, TP!bridgeVars
<1>12. ASSUME NEW a \in Clients, Two!CallCreate(a)  PROVE TP!CallCreate(a)
  BY <1>12 DEF Two!CallCreate, TP!CallCreate, Two!Goto, TP!Goto, Two!Current, TP!Current, Two!storeVars,
      TP!storeVars, Two!haVars, TP!haVars, Two!bridgeVars, TP!bridgeVars
<1>13. ASSUME NEW a \in Clients, Two!CallDismiss(a)  PROVE TP!CallDismiss(a)
  BY <1>13 DEF Two!CallDismiss, TP!CallDismiss, Two!Goto, TP!Goto, Two!Current, TP!Current, Two!storeVars,
      TP!storeVars, Two!haVars, TP!haVars, Two!bridgeVars, TP!bridgeVars
<1>14. ASSUME NEW a \in Clients, Two!Track(a)  PROVE TP!Track(a)
  BY <1>14 DEF Two!Track, TP!Track, Two!NextAction, TP!NextAction, Two!MoveTo, TP!MoveTo, Two!Goto, TP!Goto,
      Two!Current, TP!Current, Two!storeVars, TP!storeVars, Two!haVars, TP!haVars, Two!bridgeVars,
      TP!bridgeVars
<1>15. ASSUME NEW a \in Clients, Two!SendFails(a)  PROVE TP!SendFails(a)
  BY <1>15 DEF Two!SendFails, TP!SendFails, Two!MoveTo, TP!MoveTo, Two!Goto, TP!Goto, Two!storeVars,
      TP!storeVars, Two!haVars, TP!haVars, Two!bridgeVars, TP!bridgeVars
<1>16. ASSUME NEW a \in Clients, Two!Step(a)  PROVE TP!Step(a)
  BY <1>16, <1>3, <1>4, <1>5, <1>6, <1>7, <1>8, <1>9, <1>10, <1>11, <1>12, <1>13, <1>14, <1>15 DEF Two!Step,
      TP!Step
<1>17. ASSUME Two!Environment \/ Two!NewDay  PROVE TP!Environment \/ TP!NewDay
  <2>1. Two!Busy = TP!Busy
    BY DEF Two!Busy, TP!Busy
  <2> QED  BY <1>17, <2>1 DEF Two!Environment, TP!Environment, Two!NewDay, TP!NewDay, Two!HAStarts,
      TP!HAStarts, Two!HAStops, TP!HAStops, Two!ComponentChanges, TP!ComponentChanges, Two!storeVars,
      TP!storeVars, Two!haVars, TP!haVars, Two!bridgeVars, TP!bridgeVars
<1>18. ASSUME Two!Restart  PROVE TP!Restart
  BY <1>18 DEF Two!Restart, TP!Restart, Two!Last, TP!Last
<1>19. UNCHANGED Two!vars => UNCHANGED TP!vars
  BY DEF Two!vars, TP!vars, Two!storeVars, TP!storeVars, Two!haVars, TP!haVars, Two!bridgeVars, TP!bridgeVars
<1> QED  BY <1>1, <1>2, <1>16, <1>17, <1>18, <1>19 DEF Two!Next, TP!Next

(* CacheIsStore: while no call works on a key, the cache holds what the    *)
(* table does, also after a restart (Create, Fix, Dismiss, Get, loadCache  *)
(* of the problem service).                                                *)
THEOREM CacheFollowsTable ==
    ASSUME ProblemsAssumption(Severities)
    PROVE  Two!Spec => []CacheIsStore
<1>1. TP!Setting
  BY DEF ProblemsAssumption, TP!Setting, TP!OneAtATime, TP!NoneIsApart, TP!Row, TP!Job
<1>2. TP!Spec => []TP!CacheIsStore
  BY <1>1, TP!ListedIsTrue
<1>3. TP!CacheIsStore => CacheIsStore
  BY DEF CacheIsStore, TP!CacheIsStore, Two!CacheIsStore, TP!Quiet, Two!Quiet, TP!Busy, Two!Busy
<1> QED  BY <1>2, <1>3, TwoSteps, PTL DEF Two!Spec, TP!Spec

(* The steps of One are those of OP. *)
LEMMA OneSteps ==
    /\ One!Init => OP!Init
    /\ [One!Next]_(One!vars) => [OP!Next]_(OP!vars)
<1>1. One!Init => OP!Init
  BY DEF One!Init, OP!Init
<1>2. ASSUME NEW a \in Actors, One!Call(a)  PROVE OP!Call(a)
  <2>1. One!Busy = OP!Busy
    BY DEF One!Busy, OP!Busy
  <2>2. \A k : One!Quiet(k) <=> OP!Quiet(k)
    BY <2>1 DEF One!Quiet, OP!Quiet
  <2>3. One!Cardinality(One!Busy) = OP!Cardinality(OP!Busy)
    BY <2>1, Zenon DEF One!Cardinality, OP!Cardinality
  <2> QED  BY <1>2, <2>1, <2>2, <2>3 DEF One!Call, OP!Call, One!Goto, OP!Goto, One!storeVars, OP!storeVars,
      One!haVars, OP!haVars, One!bridgeVars, OP!bridgeVars
<1>3. ASSUME NEW a \in Actors, One!FindNothing(a)  PROVE OP!FindNothing(a)
  BY <1>3 DEF One!FindNothing, OP!FindNothing, One!MoveTo, OP!MoveTo, One!Goto, OP!Goto, One!storeVars,
      OP!storeVars, One!haVars, OP!haVars, One!bridgeVars, OP!bridgeVars
<1>4. ASSUME NEW a \in Actors, One!FindRow(a)  PROVE OP!FindRow(a)
  BY <1>4 DEF One!FindRow, OP!FindRow, One!Goto, OP!Goto, One!First, OP!First, One!storeVars, OP!storeVars,
      One!haVars, OP!haVars, One!bridgeVars, OP!bridgeVars
<1>5. ASSUME NEW a \in Actors, One!Write(a)  PROVE OP!Write(a)
  BY <1>5 DEF One!Write, OP!Write, One!Goto, OP!Goto, One!WriteUpsert, OP!WriteUpsert, One!WriteFix,
      OP!WriteFix, One!WriteDismiss, OP!WriteDismiss, One!Save, OP!Save, One!storeVars, OP!storeVars,
      One!haVars, OP!haVars, One!bridgeVars, OP!bridgeVars
<1>6. ASSUME NEW a \in Actors, One!Cache(a)  PROVE OP!Cache(a)
  BY <1>6 DEF One!Cache, OP!Cache, One!MoveTo, OP!MoveTo, One!Goto, OP!Goto, One!storeVars, OP!storeVars,
      One!haVars, OP!haVars, One!bridgeVars, OP!bridgeVars
<1>7. ASSUME NEW a \in Actors, One!RouteToRepair(a)  PROVE OP!RouteToRepair(a)
  BY <1>7 DEF One!RouteToRepair, OP!RouteToRepair, One!MoveTo, OP!MoveTo, One!Goto, OP!Goto, One!AsRepair,
      OP!AsRepair, One!Terminal, OP!Terminal, One!storeVars, OP!storeVars, One!haVars, OP!haVars,
      One!bridgeVars, OP!bridgeVars
<1>8. ASSUME NEW a \in Actors, One!Enqueue(a)  PROVE OP!Enqueue(a)
  BY <1>8 DEF One!Enqueue, OP!Enqueue, One!MoveTo, OP!MoveTo, One!Goto, OP!Goto, One!AsRepair, OP!AsRepair,
      One!Terminal, OP!Terminal, One!ActionOf, OP!ActionOf, One!storeVars, OP!storeVars, One!haVars, OP!haVars,
      One!bridgeVars, OP!bridgeVars
<1>9. ASSUME NEW a \in Actors, One!RouteToHA(a)  PROVE OP!RouteToHA(a)
  BY <1>9 DEF One!RouteToHA, OP!RouteToHA, One!Goto, OP!Goto, One!AsRepair, OP!AsRepair, One!Terminal,
      OP!Terminal, One!ActionOf, OP!ActionOf, One!storeVars, OP!storeVars, One!haVars, OP!haVars,
      One!bridgeVars, OP!bridgeVars
<1>10. ASSUME NEW a \in Actors, One!Flush(a)  PROVE OP!Flush(a)
  BY <1>10 DEF One!Flush, OP!Flush, One!Goto, OP!Goto, One!storeVars, OP!storeVars, One!haVars, OP!haVars,
      One!bridgeVars, OP!bridgeVars
<1>11. ASSUME NEW a \in Actors, One!SkipCreate(a)  PROVE OP!SkipCreate(a)
  BY <1>11 DEF One!SkipCreate, OP!SkipCreate, One!Current, OP!Current, One!NextAction, OP!NextAction,
      One!MoveTo, OP!MoveTo, One!Goto, OP!Goto, One!storeVars, OP!storeVars, One!haVars, OP!haVars,
      One!bridgeVars, OP!bridgeVars
<1>12. ASSUME NEW a \in Actors, One!CallCreate(a)  PROVE OP!CallCreate(a)
  BY <1>12 DEF One!CallCreate, OP!CallCreate, One!Goto, OP!Goto, One!Current, OP!Current, One!storeVars,
      OP!storeVars, One!haVars, OP!haVars, One!bridgeVars, OP!bridgeVars
<1>13. ASSUME NEW a \in Actors, One!CallDismiss(a)  PROVE OP!CallDismiss(a)
  BY <1>13 DEF One!CallDismiss, OP!CallDismiss, One!Goto, OP!Goto, One!Current, OP!Current, One!storeVars,
      OP!storeVars, One!haVars, OP!haVars, One!bridgeVars, OP!bridgeVars
<1>14. ASSUME NEW a \in Actors, One!Track(a)  PROVE OP!Track(a)
  BY <1>14 DEF One!Track, OP!Track, One!NextAction, OP!NextAction, One!MoveTo, OP!MoveTo, One!Goto, OP!Goto,
      One!Current, OP!Current, One!storeVars, OP!storeVars, One!haVars, OP!haVars, One!bridgeVars,
      OP!bridgeVars
<1>15. ASSUME NEW a \in Actors, One!SendFails(a)  PROVE OP!SendFails(a)
  BY <1>15 DEF One!SendFails, OP!SendFails, One!MoveTo, OP!MoveTo, One!Goto, OP!Goto, One!storeVars,
      OP!storeVars, One!haVars, OP!haVars, One!bridgeVars, OP!bridgeVars
<1>16. ASSUME NEW a \in Actors, One!Step(a)  PROVE OP!Step(a)
  BY <1>16, <1>3, <1>4, <1>5, <1>6, <1>7, <1>8, <1>9, <1>10, <1>11, <1>12, <1>13, <1>14, <1>15 DEF One!Step,
      OP!Step
<1>17. ASSUME One!Environment \/ One!NewDay  PROVE OP!Environment \/ OP!NewDay
  <2>1. One!Busy = OP!Busy
    BY DEF One!Busy, OP!Busy
  <2> QED  BY <1>17, <2>1 DEF One!Environment, OP!Environment, One!NewDay, OP!NewDay, One!HAStarts,
      OP!HAStarts, One!HAStops, OP!HAStops, One!ComponentChanges, OP!ComponentChanges, One!storeVars,
      OP!storeVars, One!haVars, OP!haVars, One!bridgeVars, OP!bridgeVars
<1>18. ASSUME One!Restart  PROVE OP!Restart
  BY <1>18 DEF One!Restart, OP!Restart, One!Last, OP!Last
<1>19. UNCHANGED One!vars => UNCHANGED OP!vars
  BY DEF One!vars, OP!vars, One!storeVars, OP!storeVars, One!haVars, OP!haVars, One!bridgeVars, OP!bridgeVars
<1> QED  BY <1>1, <1>2, <1>16, <1>17, <1>18, <1>19 DEF One!Next, OP!Next

(* FixedIsSilent: with one goroutine that calls and a Home Assistant that  *)
(* answers, nothing shown or queued speaks of a problem that is fixed      *)
(* (handleProblemEvent, flushQueue).                                       *)
THEOREM FixedIsNotSpokenOf ==
    ASSUME OneGoroutine, ProblemsAssumption(Shown)
    PROVE  One!Spec => []FixedIsSilent
<1>1. OP!Setting /\ OP!OneCaller
  BY DEF ProblemsAssumption, OneGoroutine, OP!Setting, OP!OneCaller, OP!OneAtATime, OP!NoneIsApart, OP!Row, OP!Job
<1>2. OP!Spec => []OP!FixedIsSilent
  BY <1>1, OP!FixedStaysSilent
<1>3. OP!FixedIsSilent => FixedIsSilent
  BY DEF FixedIsSilent, OP!FixedIsSilent, One!FixedIsSilent, OP!Busy, One!Busy, OP!After, One!After
<1> QED  BY <1>2, <1>3, OneSteps, PTL DEF One!Spec, OP!Spec

-----------------------------------------------------------------------------
(* The hardware *)

(* Only those call who refresh the map.                                     *)
HardwareAssumption == Readers = {} /\ None \notin Nat /\ None \notin H!Callers

HardwareStages == {"idle", "invalidate", "refresh", "joined", "look", "ask", "store", "answered"}
HardwareTyped ==
    /\ host \in Nat /\ hcache \in Nat \cup {None} /\ disks \in Nat \cup {None}
    /\ hpc \in [H!Callers -> HardwareStages] /\ answer \in [H!Callers -> Nat \cup {None}]

(* One refresh runs, and only it asks and stores.                          *)
AskerInv(c) ==
    /\ hpc[c] \in {"look", "ask", "store", "answered"} => hflight = c
    /\ hpc[c] \in {"ask", "store"} => hcache = None
    /\ hpc[c] \notin {"store", "answered"} => answer[c] = None
    /\ hpc[c] = "store" => answer[c] # None
    /\ answer[c] # None => answer[c] <= host
    /\ hpc[c] = "answered" /\ answer[c] # None /\ hcache # None => answer[c] <= hcache

(* What the map was filled from is not newer than what it can be filled    *)
(* from next.                                                              *)
MapIsOldest ==
    disks # None =>
        /\ disks <= host
        /\ hcache # None => disks <= hcache
        /\ \A c \in H!Callers : answer[c] # None => disks <= answer[c]

HardwareInv ==
    /\ HardwareTyped /\ MapIsOldest /\ \A c \in H!Callers : AskerInv(c)
    /\ hcache # None => hcache <= host

LEMMA HardwareInit ==
    ASSUME HardwareAssumption, H!Init  PROVE HardwareInv
<1>1. /\ host = 0 /\ hcache = None /\ disks = None
      /\ hpc = [c \in H!Callers |-> "idle"] /\ answer = [c \in H!Callers |-> None]
  BY DEF H!Init
<1>2. HardwareTyped /\ MapIsOldest
  BY <1>1 DEF HardwareTyped, MapIsOldest, HardwareStages
<1>3. \A c \in H!Callers : AskerInv(c)
  BY <1>1 DEF AskerInv
<1> QED  BY <1>1, <1>2, <1>3 DEF HardwareInv

(* The steps that neither ask nor store, nor fill the map.                 *)
LEMMA HardwareStays ==
    ASSUME HardwareAssumption, HardwareInv,
           hpc' \in [H!Callers -> HardwareStages],
           \A c \in H!Callers :
              \/ hpc'[c] = hpc[c]
              \/ {hpc[c], hpc'[c]} \subseteq {"idle", "invalidate", "refresh", "joined"},
           host' \in Nat /\ host' >= host, hcache' \in {hcache, None}, hflight' = hflight,
           UNCHANGED <<disks, answer>>
    PROVE  HardwareInv'
<1>1. HardwareTyped' /\ MapIsOldest' /\ (hcache' # None => hcache' <= host')
  BY DEF HardwareInv, HardwareTyped, MapIsOldest
<1>2. ASSUME NEW c \in H!Callers  PROVE AskerInv(c)'
  <2>1. AskerInv(c) /\ answer[c] \in Nat \cup {None} /\ host \in Nat
    BY DEF HardwareInv, HardwareTyped
  <2>2. hpc'[c] \in {"look", "ask", "store", "answered"} => hpc'[c] = hpc[c]
    OBVIOUS
  <2>3. hpc'[c] \notin {"store", "answered"} => hpc[c] \notin {"store", "answered"}
    OBVIOUS
  <2> QED  BY <2>1, <2>2, <2>3 DEF AskerInv
<1> QED  BY <1>1, <1>2 DEF HardwareInv

LEMMA HardwareGoes ==
    ASSUME HardwareInv, NEW c \in H!Callers, NEW from, NEW to \in HardwareStages, H!Goto(c, from, to)
    PROVE  /\ hpc[c] = from /\ hpc'[c] = to /\ hpc' \in [H!Callers -> HardwareStages]
           /\ \A b \in H!Callers \ {c} : hpc'[b] = hpc[b]
  BY DEF HardwareInv, HardwareTyped, H!Goto

(* A refresh begins, asks, stores and ends.                                *)
LEMMA AskerStep ==
    ASSUME HardwareAssumption, HardwareInv, NEW c \in H!Callers,
           \/ H!GetVolumesData(c) \/ H!RefreshEnds(c) \/ H!LookIntoCache(c)
           \/ H!AskSupervisor(c) \/ H!AskFails(c) \/ H!StoreAnswer(c)
    PROVE  HardwareInv' /\ (disks # None => disks' # None /\ disks' >= disks)
<1>0. /\ host \in Nat /\ hcache \in Nat \cup {None} /\ disks \in Nat \cup {None}
      /\ hpc \in [H!Callers -> HardwareStages] /\ answer \in [H!Callers -> Nat \cup {None}]
      /\ \A b \in H!Callers : AskerInv(b)
      /\ None \notin Nat /\ c # None
  BY DEF HardwareInv, HardwareTyped, HardwareAssumption
<1>1. CASE H!GetVolumesData(c)
  <2>1. UNCHANGED <<host, hcache, disks, answer>>
    BY <1>1 DEF H!GetVolumesData, H!hostVars
  <2>2. CASE hflight = None
    <3>1. H!Goto(c, "refresh", "look") /\ hflight' = c
      BY <1>1, <2>2 DEF H!GetVolumesData
    <3>2. /\ hpc[c] = "refresh" /\ hpc'[c] = "look" /\ hpc' \in [H!Callers -> HardwareStages]
          /\ \A b \in H!Callers \ {c} : hpc'[b] = hpc[b]
      BY <3>1, HardwareGoes DEF HardwareStages
    <3>3. \A b \in H!Callers : hpc[b] \notin {"look", "ask", "store", "answered"}
      BY <1>0, <2>2 DEF AskerInv, HardwareAssumption
    <3>4. \A b \in H!Callers : AskerInv(b)'
      BY <1>0, <2>1, <3>1, <3>2, <3>3 DEF AskerInv
    <3> QED  BY <1>0, <2>1, <3>2, <3>4 DEF HardwareInv, HardwareTyped, MapIsOldest
  <2>3. CASE hflight # None
    <3>1. H!Goto(c, "refresh", "joined") /\ hflight' = hflight
      BY <1>1, <2>3 DEF H!GetVolumesData
    <3>2. /\ hpc[c] = "refresh" /\ hpc'[c] = "joined" /\ hpc' \in [H!Callers -> HardwareStages]
          /\ \A b \in H!Callers \ {c} : hpc'[b] = hpc[b]
      BY <3>1, HardwareGoes DEF HardwareStages
    <3> QED  BY <1>0, <2>1, <3>1, <3>2, HardwareStays
  <2> QED  BY <2>2, <2>3
<1>2. CASE H!RefreshEnds(c)
  <2>1. /\ hpc[c] = "answered" /\ hflight' = None
        /\ disks' = IF answer[c] = None THEN disks ELSE answer[c]
        /\ hpc' = [b \in H!Callers |-> IF b = c \/ hpc[b] = "joined" THEN "idle" ELSE hpc[b]]
        /\ answer' = [answer EXCEPT ![c] = None]
        /\ UNCHANGED <<host, hcache>>
    BY <1>2 DEF H!RefreshEnds, H!hostVars
  <2>2. \A b \in H!Callers : /\ hpc'[b] \in {"look", "ask", "store", "answered"} => b # c /\ hpc'[b] = hpc[b]
                             /\ hpc'[b] = hpc[b] \/ hpc'[b] = "idle"
    BY <2>1
  <2>3. \A b \in H!Callers : hpc'[b] \notin {"look", "ask", "store", "answered"}
    BY <1>0, <2>1, <2>2 DEF AskerInv
  <2>4. \A b \in H!Callers : answer'[b] = None
    BY <1>0, <2>1, <2>3 DEF AskerInv
  <2>5. \A b \in H!Callers : AskerInv(b)'
    BY <2>3, <2>4 DEF AskerInv
  <2>6. HardwareTyped'
    BY <1>0, <2>1 DEF HardwareTyped, HardwareStages
  <2>7. answer[c] # None => answer[c] <= host /\ (hcache # None => answer[c] <= hcache)
    BY <1>0, <2>1 DEF AskerInv
  <2>8. MapIsOldest'
    BY <1>0, <2>1, <2>4, <2>7 DEF HardwareInv, MapIsOldest
  <2>9. disks # None => disks' # None /\ disks' >= disks
    BY <1>0, <2>1 DEF HardwareInv, MapIsOldest
  <2> QED  BY <2>1, <2>5, <2>6, <2>8, <2>9 DEF HardwareInv
<1>3. CASE H!LookIntoCache(c)
  <2>1. /\ H!Goto(c, "look", IF hcache # None \/ ~hready THEN "answered" ELSE "ask")
        /\ answer' = [answer EXCEPT ![c] = hcache]
        /\ UNCHANGED <<host, hcache, hflight, disks>>
    BY <1>3 DEF H!LookIntoCache, H!hostVars
  <2>2. /\ hpc[c] = "look" /\ hpc'[c] \in {"answered", "ask"} /\ (hpc'[c] = "ask" => hcache = None)
        /\ hpc' \in [H!Callers -> HardwareStages] /\ \A b \in H!Callers \ {c} : hpc'[b] = hpc[b]
    BY <2>1, HardwareGoes DEF HardwareStages
  <2>3. answer'[c] = hcache /\ \A b \in H!Callers \ {c} : answer'[b] = answer[b]
    BY <1>0, <2>1
  <2>4. \A b \in H!Callers : AskerInv(b)'
    BY <1>0, <2>1, <2>2, <2>3 DEF HardwareInv, AskerInv
  <2>5. HardwareTyped' /\ MapIsOldest'
    BY <1>0, <2>1, <2>2, <2>3 DEF HardwareInv, HardwareTyped, MapIsOldest
  <2> QED  BY <1>0, <2>1, <2>4, <2>5 DEF HardwareInv
<1>4. CASE H!AskSupervisor(c)
  <2>1. /\ H!Goto(c, "ask", "store") /\ answer' = [answer EXCEPT ![c] = host]
        /\ UNCHANGED <<host, hcache, hflight, disks>>
    BY <1>4 DEF H!AskSupervisor, H!hostVars
  <2>2. /\ hpc[c] = "ask" /\ hpc'[c] = "store"
        /\ hpc' \in [H!Callers -> HardwareStages] /\ \A b \in H!Callers \ {c} : hpc'[b] = hpc[b]
    BY <2>1, HardwareGoes DEF HardwareStages
  <2>3. answer'[c] = host /\ \A b \in H!Callers \ {c} : answer'[b] = answer[b]
    BY <1>0, <2>1
  <2>4. \A b \in H!Callers : AskerInv(b)'
    BY <1>0, <2>1, <2>2, <2>3 DEF AskerInv
  <2>5. HardwareTyped' /\ MapIsOldest'
    BY <1>0, <2>1, <2>2, <2>3 DEF HardwareInv, HardwareTyped, MapIsOldest
  <2> QED  BY <1>0, <2>1, <2>4, <2>5 DEF HardwareInv
<1>5. CASE H!AskFails(c)
  <2>1. H!Goto(c, "ask", "answered") /\ UNCHANGED <<host, hcache, hflight, disks, answer>>
    BY <1>5 DEF H!AskFails, H!hostVars
  <2>2. /\ hpc[c] = "ask" /\ hpc'[c] = "answered"
        /\ hpc' \in [H!Callers -> HardwareStages] /\ \A b \in H!Callers \ {c} : hpc'[b] = hpc[b]
    BY <2>1, HardwareGoes DEF HardwareStages
  <2>3. \A b \in H!Callers : AskerInv(b)'
    BY <1>0, <2>1, <2>2 DEF AskerInv
  <2> QED  BY <1>0, <2>1, <2>2, <2>3 DEF HardwareInv, HardwareTyped, MapIsOldest
<1>6. CASE H!StoreAnswer(c)
  <2>1. H!Goto(c, "store", "answered") /\ hcache' = answer[c] /\ UNCHANGED <<host, hflight, disks, answer>>
    BY <1>6 DEF H!StoreAnswer, H!hostVars
  <2>2. /\ hpc[c] = "store" /\ hpc'[c] = "answered"
        /\ hpc' \in [H!Callers -> HardwareStages] /\ \A b \in H!Callers \ {c} : hpc'[b] = hpc[b]
    BY <2>1, HardwareGoes DEF HardwareStages
  <2>3. answer[c] # None /\ answer[c] \in Nat /\ answer[c] <= host
    BY <1>0, <2>2 DEF AskerInv
  <2>4. ASSUME NEW b \in H!Callers  PROVE AskerInv(b)'
    <3>1. CASE b = c
      BY <1>0, <2>1, <2>2, <2>3, <3>1 DEF AskerInv
    <3>2. CASE b # c
      <4>1. hpc[b] \notin {"look", "ask", "store", "answered"}
        BY <1>0, <2>2, <3>2 DEF AskerInv
      <4> QED  BY <1>0, <2>1, <2>2, <3>2, <4>1 DEF AskerInv
    <3> QED  BY <3>1, <3>2
  <2>5. HardwareTyped' /\ MapIsOldest'
    BY <1>0, <2>1, <2>2, <2>3 DEF HardwareInv, HardwareTyped, MapIsOldest
  <2> QED  BY <1>0, <2>1, <2>3, <2>4, <2>5 DEF HardwareInv
<1> QED  BY <1>1, <1>2, <1>3, <1>4, <1>5, <1>6

LEMMA HardwareStep ==
    ASSUME HardwareAssumption, HardwareInv, [H!Next]_(H!vars)
    PROVE  HardwareInv' /\ (disks # None => disks' # None /\ disks' >= disks)
<1>0. /\ host \in Nat /\ disks \in Nat \cup {None} /\ hpc \in [H!Callers -> HardwareStages]
      /\ H!Refreshers \subseteq H!Callers /\ Others \subseteq H!Callers /\ Udev \in H!Callers
  BY DEF HardwareInv, HardwareTyped, H!Callers, H!Refreshers
<1>1. ASSUME UNCHANGED <<disks, answer, hflight>>, host' \in Nat, host' >= host, hcache' \in {hcache, None},
             hpc' = hpc
      PROVE  HardwareInv' /\ (disks # None => disks' # None /\ disks' >= disks)
  BY <1>0, <1>1, HardwareStays
<1>2. ASSUME UNCHANGED <<disks, answer, hflight, host>>, hcache' \in {hcache, None},
             NEW c \in H!Callers, NEW from \in {"idle", "invalidate"}, NEW to \in {"invalidate", "refresh"},
             H!Goto(c, from, to)
      PROVE  HardwareInv' /\ (disks # None => disks' # None /\ disks' >= disks)
  <2>1. /\ hpc[c] = from /\ hpc'[c] = to
        /\ hpc' \in [H!Callers -> HardwareStages] /\ \A b \in H!Callers \ {c} : hpc'[b] = hpc[b]
    BY <1>2, HardwareGoes DEF HardwareStages
  <2> QED  BY <1>0, <1>2, <2>1, HardwareStays
<1>3. CASE H!Change \/ H!HomeAssistantStops \/ H!Expire \/ UNCHANGED H!vars
  BY <1>0, <1>1, <1>3 DEF H!Change, H!HomeAssistantStops, H!Expire, H!vars, H!hostVars, H!callVars
<1>4. CASE H!OnUdevEvent
  BY <1>0, <1>2, <1>4 DEF H!OnUdevEvent
<1>5. ASSUME NEW c \in Others, H!HomeAssistantStarts(c) \/ H!OnFormatted(c) \/ H!RequestVolumes(c)
      PROVE  HardwareInv' /\ (disks # None => disks' # None /\ disks' >= disks)
  BY <1>0, <1>2, <1>5 DEF H!HomeAssistantStarts, H!OnFormatted, H!RequestVolumes, H!hostVars
<1>6. ASSUME NEW c \in H!Refreshers, H!InvalidateHardwareInfo(c)
      PROVE  HardwareInv' /\ (disks # None => disks' # None /\ disks' >= disks)
  BY <1>0, <1>2, <1>6 DEF H!InvalidateHardwareInfo, H!hostVars
<1>7. ASSUME NEW c \in H!Callers,
             \/ H!GetVolumesData(c) \/ H!RefreshEnds(c) \/ H!LookIntoCache(c)
             \/ H!AskSupervisor(c) \/ H!AskFails(c) \/ H!StoreAnswer(c)
      PROVE  HardwareInv' /\ (disks # None => disks' # None /\ disks' >= disks)
  BY <1>7, AskerStep
<1> QED  BY <1>0, <1>3, <1>4, <1>5, <1>6, <1>7 DEF H!Next, HardwareAssumption

(* MapNeverGoesBack: however the refreshes of formats, of Home Assistant's *)
(* starts and of the udev events overlap, the disk map is never filled     *)
(* from older hardware than it has been (getVolumesData, GetHardwareInfo). *)
THEOREM MapGoesOn ==
    ASSUME HardwareAssumption
    PROVE  H!Spec => MapNeverGoesBack
<1>1. H!Init => HardwareInv
  BY HardwareInit
<1>2. HardwareInv /\ [H!Next]_(H!vars) =>
        HardwareInv' /\ [disks # None => disks' # None /\ disks' >= disks]_(H!vars)
  BY HardwareStep
<1> QED  BY <1>1, <1>2, PTL DEF H!Spec, MapNeverGoesBack, H!MapNeverGoesBack

-----------------------------------------------------------------------------
(* The filesystem tools *)

Adapters == {"ext4", "vfat", "exfat", "xfs", "btrfs", "ntfs", "f2fs", "gfs2", "hfsplus", "reiserfs", "apfs", "zfs"}

(* ext4 and APFS are not judged, nor are those that take a failure of the  *)
(* tool for a damage of the device when the tool fails.                    *)
ToolAssumption ==
    /\ Filesystems \subseteq Adapters
    /\ Trusted \subseteq Adapters \ {"ext4", "apfs"}
    /\ Trusted \cap Failing \subseteq {"exfat", "gfs2", "reiserfs", "zfs"}
    /\ ~Overlap

(* What a tool that looks or repairs answers.                              *)
Corrects(k) ==
    IF k \in {"ext4", "vfat", "gfs2", "reiserfs"} THEN {1, 2} ELSE IF k \in {"exfat", "xfs"} THEN {1} ELSE {0}
Leaves(k) ==
    IF k \in {"ext4", "vfat", "exfat", "gfs2"} THEN {4}
    ELSE IF k = "reiserfs" THEN {4, 6} ELSE IF k = "xfs" THEN {2} ELSE {1}
Sees(k) == IF k = "xfs" THEN {1, 2} ELSE IF k = "btrfs" THEN {0, 1} ELSE Leaves(k)

Sound(a) == damage = "none" /\ a.code = 0 /\ a.word = "none" /\ a.left = "none" /\ ~a.failed
Mended(fix, a) ==
    /\ damage = "fixable" /\ (fix \/ fs = "hfsplus") /\ a.left = "none" /\ ~a.failed
    /\ a.code \in Corrects(fs) /\ a.word = IF fs = "btrfs" THEN "error" ELSE "fixed"
Found(fix, a) ==
    /\ a.left = damage /\ damage # "none" /\ a.word = "error" /\ ~a.failed
    /\ a.code \in IF fix THEN Leaves(fs) ELSE Sees(fs)

LEMMA ExitsAre ==
    ASSUME fs \in Filesystems, damage \in F!Damages, NEW fix \in BOOLEAN, NEW a \in F!Exits(fix)
    PROVE  Sound(a) \/ Mended(fix, a) \/ Found(fix, a)
<1>1. F!Corrected[fs] = Corrects(fs) /\ F!LeftAlone[fs] = Leaves(fs)
  BY DEF F!Corrected, F!LeftAlone, Corrects, Leaves
<1>2. F!OnlyLooking(fs) = Sees(fs)
  BY <1>1 DEF F!OnlyLooking, Sees
<1>3. CASE damage = "none"
  BY <1>3 DEF F!Exits, F!Answer, Sound
<1>4. CASE damage = "fixable" /\ (fix \/ fs = "hfsplus")
  <2>1. PICK c \in Corrects(fs) :
          a = [F!Answer(c, IF fs = "btrfs" THEN "error" ELSE "fixed", FALSE) EXCEPT !.left = "none"]
    BY <1>1, <1>4 DEF F!Exits
  <2> QED  BY <1>4, <2>1 DEF F!Answer, Mended
<1>5. CASE damage # "none" /\ ~(damage = "fixable" /\ (fix \/ fs = "hfsplus"))
  <2>1. PICK c \in IF fix THEN Leaves(fs) ELSE Sees(fs) : a = F!Answer(c, "error", FALSE)
    BY <1>1, <1>2, <1>5 DEF F!Exits
  <2> QED  BY <1>5, <2>1 DEF F!Answer, Found
<1> QED  BY <1>3, <1>4, <1>5

(* What a check says of how the tool has left the device.                  *)
Truthful(says, of) ==
    ~says.error =>
        /\ says.fixed \/ ~says.found => of.left = "none"
        /\ ~says.ok \/ (says.found /\ ~says.fixed) => of.left # "none"

(* What the adapters make of a code and of a word.                         *)
LEMMA CodesAreTruthful ==
    ASSUME NEW a, NEW corrected, NEW left, 0 \notin corrected \cup left, corrected \cap left = {},
           a.code = 0 \/ a.code \in corrected => a.left = "none",
           a.code # 0 /\ a.code \notin corrected /\ a.code \in left => a.left # "none"
    PROVE  Truthful(F!ByCode(a, corrected, left), a)
<1>1. CASE a.code = 0
  <2>1. F!ByCode(a, corrected, left) = F!Clean
    BY <1>1 DEF F!ByCode
  <2> QED  BY <1>1, <2>1 DEF Truthful, F!Clean, F!Result
<1>2. CASE a.code # 0 /\ a.code \in corrected
  <2>1. F!ByCode(a, corrected, left) = F!Repaired
    BY <1>2 DEF F!ByCode
  <2> QED  BY <1>2, <2>1 DEF Truthful, F!Repaired, F!Result
<1>3. CASE a.code # 0 /\ a.code \notin corrected /\ a.code \in left
  <2>1. F!ByCode(a, corrected, left) = F!Left
    BY <1>3 DEF F!ByCode
  <2> QED  BY <1>3, <2>1 DEF Truthful, F!Left, F!Result
<1>4. CASE a.code # 0 /\ a.code \notin corrected /\ a.code \notin left
  <2>1. F!ByCode(a, corrected, left) = F!Failed
    BY <1>4 DEF F!ByCode
  <2> QED  BY <2>1 DEF Truthful, F!Failed, F!Result
<1> QED  BY <1>1, <1>2, <1>3, <1>4

LEMMA WordsAreTruthful ==
    ASSUME NEW a, NEW words, NEW found \in {F!Repaired, F!Reported},
           a.code = 0 /\ a.word \in words => ((a.left = "none") <=> (found = F!Repaired)),
           a.code = 0 /\ a.word \notin words => a.left = "none"
    PROVE  Truthful(F!ByWord(a, words, found), a)
<1>1. F!Repaired # F!Reported
  BY DEF F!Repaired, F!Reported, F!Result
<1>2. CASE a.code # 0
  <2>1. F!ByWord(a, words, found) = F!Failed
    BY <1>2 DEF F!ByWord
  <2> QED  BY <2>1 DEF Truthful, F!Failed, F!Result
<1>3. CASE a.code = 0 /\ a.word \in words
  <2>1. F!ByWord(a, words, found) = found
    BY <1>3 DEF F!ByWord
  <2>2. CASE found = F!Repaired
    BY <1>3, <2>1, <2>2 DEF Truthful, F!Repaired, F!Result
  <2>3. CASE found = F!Reported
    BY <1>1, <1>3, <2>1, <2>3 DEF Truthful, F!Reported, F!Result
  <2> QED  BY <2>2, <2>3
<1>4. CASE a.code = 0 /\ a.word \notin words
  <2>1. F!ByWord(a, words, found) = F!Clean
    BY <1>4 DEF F!ByWord
  <2> QED  BY <1>4, <2>1 DEF Truthful, F!Clean, F!Result
<1> QED  BY <1>2, <1>3, <1>4

LEMMA CheckIsTruthful ==
    ASSUME ToolAssumption, fs \in Filesystems, damage \in F!Damages,
           NEW c, c.do = "check", c.fix \in BOOLEAN, NEW a \in F!Outcomes(c)
    PROVE  Truthful(F!TaskResult(c, a), a)
<1>1. Sound(a) \/ Mended(c.fix, a) \/ Found(c.fix, a) \/ a.code \in {8, -1}
  <2>1. F!Outcomes(c) = F!Exits(c.fix) \cup F!Fails \cup
                        {[b EXCEPT !.left = e.left] : b \in F!Fails, e \in F!Exits(c.fix)}
    BY DEF F!Outcomes
  <2>2. \/ a \in F!Exits(c.fix)
        \/ a \in F!Fails
        \/ \E b \in F!Fails, e \in F!Exits(c.fix) : a = [b EXCEPT !.left = e.left]
    BY <2>1
  <2>3. \A b \in F!Fails : b.code \in {8, -1} /\ \A l : [b EXCEPT !.left = l].code \in {8, -1}
    BY DEF F!Fails, F!Answer
  <2> QED  BY <2>2, <2>3, ExitsAre
<1>2. \A r : F!Task(c, a, r) = r
  BY DEF F!Task
<1>3. CASE fs \in {"ext4", "vfat", "exfat", "gfs2", "reiserfs"}
  <2>1. F!TaskResult(c, a) = F!ByCode(a, Corrects(fs), Leaves(fs))
    BY <1>2, <1>3 DEF F!TaskResult, F!Ext4Task, F!VfatTask, F!ExfatTask, F!Gfs2Task, F!ReiserfsTask, Corrects, Leaves
  <2>2. a.code = 0 \/ a.code \in Corrects(fs) => a.left = "none"
    BY <1>1, <1>3 DEF Sound, Mended, Found, Corrects, Leaves, Sees
  <2>3. a.code # 0 /\ a.code \notin Corrects(fs) /\ a.code \in Leaves(fs) => a.left # "none"
    BY <1>1, <1>3 DEF Sound, Mended, Found, Corrects, Leaves, Sees
  <2>4. 0 \notin Corrects(fs) \cup Leaves(fs) /\ Corrects(fs) \cap Leaves(fs) = {}
    BY <1>3 DEF Corrects, Leaves
  <2> QED  BY <2>1, <2>2, <2>3, <2>4, CodesAreTruthful
<1>4. CASE fs = "xfs"
  <2>1. CASE a.code = 1 /\ ~c.fix
    <3>1. F!TaskResult(c, a) = F!Reported
      BY <1>2, <1>4, <2>1 DEF F!TaskResult, F!XfsTask
    <3>2. a.left # "none"
      BY <1>1, <1>4, <2>1 DEF Sound, Mended, Found
    <3> QED  BY <3>1, <3>2 DEF Truthful, F!Reported, F!Result
  <2>2. CASE ~(a.code = 1 /\ ~c.fix)
    <3>1. F!TaskResult(c, a) = F!ByCode(a, {1}, {2})
      BY <1>2, <1>4, <2>2 DEF F!TaskResult, F!XfsTask
    <3>2. a.code \in {0, 1} => a.left = "none"
      BY <1>1, <1>4, <2>2 DEF Sound, Mended, Found, Corrects, Leaves, Sees
    <3>3. a.code = 2 => a.left # "none"
      BY <1>1, <1>4 DEF Sound, Mended, Found, Corrects
    <3> QED  BY <3>1, <3>2, <3>3, CodesAreTruthful
  <2> QED  BY <2>1, <2>2
<1>5. CASE fs = "btrfs"
  <2> DEFINE found == IF c.fix THEN F!Repaired ELSE F!Reported
  <2>1. F!TaskResult(c, a) = F!ByWord(a, {"error"}, found)
    BY <1>2, <1>5 DEF F!TaskResult, F!BtrfsTask
  <2>2. F!Repaired # F!Reported
    BY DEF F!Repaired, F!Reported, F!Result
  <2>3. a.code = 0 /\ a.word = "error" => ((a.left = "none") <=> (found = F!Repaired))
    BY <1>1, <1>5, <2>2 DEF Sound, Mended, Found, Leaves, Sees
  <2>4. a.code = 0 /\ a.word # "error" => a.left = "none"
    BY <1>1, <1>5 DEF Sound, Mended, Found, Leaves, Sees
  <2> QED  BY <2>1, <2>3, <2>4, WordsAreTruthful
<1>6. CASE fs \in {"ntfs", "f2fs", "hfsplus"}
  <2>1. a.code = 0 => a.left = "none" /\ a.word \in {"none", "fixed"}
    BY <1>1, <1>6 DEF Sound, Mended, Found, Leaves, Sees
  <2>2. Truthful(F!ByWord(a, {"fixed"}, F!Repaired), a)
    BY <2>1, WordsAreTruthful
  <2>3. CASE fs \in {"ntfs", "f2fs"}
    <3>1. F!TaskResult(c, a) = F!ByWord(a, {"fixed"}, F!Repaired)
      BY <1>2, <2>3 DEF F!TaskResult, F!NtfsTask, F!F2fsTask
    <3> QED  BY <2>2, <3>1
  <2>4. CASE fs = "hfsplus"
    <3>1. F!TaskResult(c, a) = [F!ByWord(a, {"fixed"}, F!Repaired) EXCEPT !.fixed = (a.word = "fixed")]
      BY <1>2, <2>4 DEF F!TaskResult, F!HfsplusTask
    <3>2. CASE a.code = 0
      <4>1. F!ByWord(a, {"fixed"}, F!Repaired) \in {F!Repaired, F!Clean}
        BY <3>2 DEF F!ByWord
      <4>2. F!TaskResult(c, a).found = F!ByWord(a, {"fixed"}, F!Repaired).found /\ F!TaskResult(c, a).ok
        BY <3>1, <4>1 DEF F!Repaired, F!Clean, F!Result
      <4>3. F!TaskResult(c, a).found => F!TaskResult(c, a).fixed
        BY <2>1, <3>1, <3>2 DEF F!ByWord, F!Repaired, F!Clean, F!Result
      <4> QED  BY <2>1, <3>2, <4>2, <4>3 DEF Truthful
    <3>3. CASE a.code # 0
      <4>1. F!ByWord(a, {"fixed"}, F!Repaired) = F!Failed
        BY <3>3 DEF F!ByWord
      <4> QED  BY <3>1, <4>1 DEF Truthful, F!Failed, F!Result
    <3> QED  BY <3>2, <3>3
  <2> QED  BY <1>6, <2>3, <2>4
<1>7. CASE fs \in {"apfs", "zfs"}
  <2>1. F!TaskResult(c, a) = F!Refused
    BY <1>7 DEF F!TaskResult, F!ApfsTask, F!ZfsTask
  <2> QED  BY <2>1 DEF Truthful, F!Refused, F!Result
<1> QED  BY <1>3, <1>4, <1>5, <1>6, <1>7 DEF ToolAssumption, Adapters

(* What a tool says of the state.                                          *)
LEMMA StateIsTruthful ==
    ASSUME ToolAssumption, fs \in Filesystems, fs \in Trusted, fs \notin {"apfs", "zfs"}, damage \in F!Damages,
           NEW a \in F!Inspects \cup F!Fails
    PROVE  /\ F!StateOf(a).clean => damage = "none" \/ a.left = "none"
           /\ F!StateOf(a).errors => damage # "none"
<1>1. \/ Sound(a) \/ Mended(FALSE, a) \/ Found(FALSE, a)
      \/ a.code \in {8, -1} /\ fs \in Failing
  <2>1. a \in F!Inspects => Sound(a) \/ Mended(FALSE, a) \/ Found(FALSE, a)
    BY ExitsAre DEF F!Inspects, ToolAssumption
  <2>2. a \in F!Fails => a.code \in {8, -1} /\ fs \in Failing
    BY DEF F!Fails, F!Answer
  <2> QED  BY <2>1, <2>2
<1>2. fs \in Failing => fs \in {"exfat", "gfs2", "reiserfs"}
  BY DEF ToolAssumption
<1>a. F!NoState.clean = FALSE /\ F!NoState.errors = FALSE
  BY DEF F!NoState
<1>b. \A x, y : F!State(x, y).clean = x /\ F!State(x, y).errors = y
  BY DEF F!State
<1>3. CASE fs \in {"vfat", "xfs", "f2fs", "hfsplus"}
  <2>1. F!StateOf(a) \in {F!ByExit(a), F!NoState}
    BY <1>3 DEF F!StateOf, F!VfatState, F!XfsState, F!F2fsState, F!HfsplusState, F!Unless
  <2>2. F!ByExit(a).clean = (a.code = 0) /\ F!ByExit(a).errors = (a.code # 0)
    BY <1>b DEF F!ByExit
  <2>3. a.code = 0 => damage = "none" \/ a.left = "none"
    BY <1>1, <1>2, <1>3 DEF Sound, Mended, Found, Leaves, Sees
  <2>4. a.code # 0 => damage # "none"
    BY <1>1, <1>2, <1>3 DEF Sound, Mended, Found
  <2> QED  BY <1>a, <2>1, <2>2, <2>3, <2>4
<1>4. CASE fs \in {"exfat", "gfs2", "reiserfs"}
  <2> DEFINE bad == IF fs = "exfat" THEN {1, 4} ELSE IF fs = "gfs2" THEN {1, 2, 4} ELSE {1, 2, 4, 6}
  <2>1. F!StateOf(a) \in {F!ByCodes(a, bad), F!NoState}
    BY <1>4 DEF F!StateOf, F!ExfatState, F!Gfs2State, F!ReiserfsState, F!Unless
  <2>2. F!ByCodes(a, bad).clean = (a.code = 0) /\ F!ByCodes(a, bad).errors = (a.code \in bad)
    BY <1>b DEF F!ByCodes
  <2>3. a.code = 0 => damage = "none" \/ a.left = "none"
    BY <1>1, <1>4 DEF Sound, Mended, Found, Leaves, Sees
  <2>4. a.code \in bad => damage # "none"
    BY <1>1, <1>4 DEF Sound, Mended, Found
  <2> QED  BY <1>a, <2>1, <2>2, <2>3, <2>4
<1>5. CASE fs \in {"btrfs", "ntfs"}
  <2> DEFINE sound == a.code = 0 /\ a.word # "error"
  <2>1. F!StateOf(a) = F!State(sound, ~sound) \/ F!StateOf(a) = F!NoState
    BY <1>5 DEF F!StateOf, F!BtrfsState, F!NtfsState, F!Unless
  <2>2. sound => damage = "none" \/ a.left = "none"
    BY <1>1, <1>2, <1>5 DEF Sound, Mended, Found
  <2>3. ~sound => damage # "none"
    BY <1>1, <1>2, <1>5 DEF Sound, Mended, Found
  <2>4. F!State(sound, ~sound).clean = sound /\ F!State(sound, ~sound).errors = ~sound
    BY <1>b
  <2> HIDE DEF sound
  <2> QED  BY <1>a, <2>1, <2>2, <2>3, <2>4
<1> QED  BY <1>3, <1>4, <1>5 DEF ToolAssumption, Adapters

(* What is asked, and what is kept under which command.                     *)
LEMMA ToolCalls ==
    ASSUME NEW c \in F!Changes \cup F!Questions
    PROVE  /\ c.do \in {"check", "format", "set", "label", "state"}
           /\ c.do = "check" => c.fix \in BOOLEAN /\ c \in F!Tasks
           /\ c.do \in {"set", "label", "state"} => c \in F!Keys
           /\ c \in F!Questions <=> c.do \in {"label", "state"}
           /\ F!Cached(c) => c.do \in {"set", "label", "state"}
  BY DEF F!Changes, F!Tasks, F!Questions, F!Keys, F!Call, F!Cached

LEMMA ToollessIsNotCached ==
    ASSUME NEW c, F!Toolless(c), fs \in Adapters
    PROVE  ~F!Cached(c)
<1>1. \A k \in {"label", "set"} : fs \in {"apfs", "zfs"} => F!LabelAccess[k] = "none"
  BY DEF F!LabelAccess, F!ApfsLabel, F!ZfsLabel, F!Access
<1> QED  BY <1>1 DEF F!Toolless, F!Cached

ToolTyped ==
    /\ fs \in Filesystems /\ damage \in damages /\ damages \subseteq F!Damages
    /\ label \in labels
    /\ tpc \in [Clients -> {"idle", "run", "known", "ran"}]
    /\ call \in [Clients -> F!Changes \cup F!Questions \cup {None}]
    /\ output = [p \in Clients |-> output[p]]
    /\ tcache = [k \in F!Keys |-> tcache[k]]
    /\ unmounted = None \/ "says" \notin DOMAIN unmounted

(* What a tool has answered holds until it is told or kept.                *)
ToolInv(p) ==
    /\ tpc[p] # "idle" => call[p] \in F!Changes \cup F!Questions
    /\ tpc[p] = "known" => F!Cached(call[p])
    /\ tpc[p] = "ran" /\ F!Cached(call[p]) => F!SaysSo(call[p], output[p])
    /\ tpc[p] = "ran" /\ call[p].do = "check" => Truthful(F!TaskResult(call[p], output[p]), output[p])

ToolsInv ==
    /\ ToolTyped /\ \A p \in Clients : ToolInv(p)
    /\ AnswersAreTrue /\ ChecksAreTrue

(* What was so is not unsaid by what comes.                                 *)
LEMMA SayingsLast ==
    ASSUME ToolTyped, fs' = fs, damages \subseteq damages', labels \subseteq labels'
    PROVE  \A k, a : k.do \in {"label", "set", "state"} /\ F!SaysSo(k, a) => F!SaysSo(k, a)'
<1> SUFFICES ASSUME NEW k, NEW a, k.do \in {"label", "set", "state"}, F!SaysSo(k, a)  PROVE F!SaysSo(k, a)'
  OBVIOUS
<1>1. F!StateOf(a)' = F!StateOf(a)
  BY DEF F!StateOf, F!Ext4State, F!VfatState, F!ExfatState, F!XfsState, F!BtrfsState, F!NtfsState, F!F2fsState,
         F!Gfs2State, F!HfsplusState, F!ReiserfsState, F!ApfsState, F!ZfsState
<1>2. damages # {"none"} => damages' # {"none"}
  BY DEF ToolTyped
<1>3. CASE k.do \in {"label", "set"}
  BY <1>3 DEF F!SaysSo
<1>4. CASE k.do = "state"
  <2> DEFINE s == F!StateOf(a)
  <2>1. F!SaysSo(k, a) <=> (fs \in Trusted => (s.clean => "none" \in damages) /\ (s.errors => damages # {"none"}))
    BY <1>4 DEF F!SaysSo
  <2>2. F!SaysSo(k, a)' <=>
          (fs' \in Trusted => (s'.clean => "none" \in damages') /\ (s'.errors => damages' # {"none"}))
    BY <1>4 DEF F!SaysSo
  <2>3. s' = s
    BY <1>1
  <2> HIDE DEF s
  <2> QED  BY <1>2, <2>1, <2>2, <2>3
<1> QED  BY <1>3, <1>4

LEMMA AdapterStays ==
    ASSUME fs' = fs
    PROVE  \A c, a : (F!Cached(c)' <=> F!Cached(c)) /\ F!TaskResult(c, a)' = F!TaskResult(c, a)
  BY DEF F!Cached, F!LabelAccess, F!TaskResult, F!Ext4Task, F!VfatTask, F!ExfatTask, F!XfsTask, F!BtrfsTask,
         F!NtfsTask, F!F2fsTask, F!Gfs2Task, F!HfsplusTask, F!ReiserfsTask, F!ApfsTask, F!ZfsTask

(* A caller that does nothing, and an answer that is not touched.          *)
LEMMA OthersStay ==
    ASSUME ToolsInv, fs' = fs, damages \subseteq damages', labels \subseteq labels',
           NEW p \in Clients, tpc'[p] = tpc[p], call'[p] = call[p], output'[p] = output[p]
    PROVE  ToolInv(p)'
<1>1. PICK c, a : c = call[p] /\ a = output[p]
  OBVIOUS
<1>2. tpc[p] # "idle" /\ F!Cached(c) => c.do \in {"label", "set", "state"}
  BY <1>1, ToolCalls DEF ToolsInv, ToolInv
<1>3. ToolInv(p)
  BY DEF ToolsInv
<1>4. call'[p] = c /\ output'[p] = a
  BY <1>1
<1>5. tpc[p] = "ran" /\ F!Cached(c)' => F!SaysSo(c, a)'
  BY <1>1, <1>2, <1>3, AdapterStays, SayingsLast DEF ToolInv, ToolsInv
<1>6. tpc[p] = "ran" /\ c.do = "check" => Truthful(F!TaskResult(c, a)', a)
  BY <1>1, <1>3, AdapterStays DEF ToolInv
<1>7. /\ tpc'[p] # "idle" => call'[p] \in F!Changes \cup F!Questions
      /\ tpc'[p] = "known" => F!Cached(call[p])'
  BY <1>1, <1>3, <1>4, AdapterStays DEF ToolInv
<1> QED  BY <1>4, <1>5, <1>6, <1>7 DEF ToolInv

LEMMA AnswersStay ==
    ASSUME ToolsInv, fs' = fs, damages \subseteq damages', labels \subseteq labels',
           NEW k \in F!Keys, tcache'[k] \in {tcache[k], None}, tcache'[k] # None
    PROVE  F!SaysSo(k, tcache[k])'
<1>1. tcache'[k] = tcache[k] /\ tcache[k] # None
  OBVIOUS
<1>2. F!SaysSo(k, tcache[k])
  BY <1>1 DEF ToolsInv, AnswersAreTrue, F!AnswersAreTrue
<1>3. PICK a : a = tcache[k]
  OBVIOUS
<1>4. F!SaysSo(k, a)'
  BY <1>2, <1>3, SayingsLast DEF ToolsInv, F!Keys, F!Questions, F!Call
<1> QED  BY <1>1, <1>3, <1>4

(* A step in which no tool answers and nobody is told.                     *)
LEMMA ToolsStay ==
    ASSUME ToolsInv, fs' = fs, damages \subseteq damages', labels' = labels, damage' \in damages', label' = label,
           damages' \subseteq F!Damages,
           UNCHANGED <<tpc, call, output, unmounted>>,
           tcache' = tcache \/ \E k \in F!Keys : tcache' = [tcache EXCEPT ![k] = None],
           told' = told \/ told' = None \/ "says" \notin DOMAIN told'
    PROVE  ToolsInv'
<1>1. ToolTyped'
  <2>1. tcache' = [k \in F!Keys |-> tcache'[k]]
    BY DEF ToolsInv, ToolTyped
  <2>2. output' = [p \in Clients |-> output'[p]]
    BY DEF ToolsInv, ToolTyped
  <2>3. /\ fs' \in Filesystems /\ damage' \in damages' /\ damages' \subseteq F!Damages /\ label' \in labels'
        /\ tpc' \in [Clients -> {"idle", "run", "known", "ran"}]
        /\ unmounted' = None \/ "says" \notin DOMAIN unmounted'
    BY DEF ToolsInv, ToolTyped
  <2>4. call' \in [Clients -> F!Changes \cup F!Questions \cup {None}]
    BY DEF ToolsInv, ToolTyped
  <2> QED  BY <2>1, <2>2, <2>3, <2>4 DEF ToolTyped
<1>2. \A p \in Clients : ToolInv(p)'
  BY OthersStay
<1>3. AnswersAreTrue'
  <2>1. \A k \in F!Keys : tcache'[k] \in {tcache[k], None}
    BY DEF ToolsInv, ToolTyped
  <2> QED  BY <2>1, AnswersStay DEF AnswersAreTrue, F!AnswersAreTrue
<1>4. ChecksAreTrue'
  BY DEF ToolsInv, ChecksAreTrue, F!ChecksAreTrue
<1> QED  BY <1>1, <1>2, <1>3, <1>4 DEF ToolsInv

(* One caller goes on; it keeps its answer, or puts it into the cache.     *)
LEMMA CallerGoes ==
    ASSUME ToolsInv, fs' = fs, damages \subseteq damages', labels \subseteq labels', damage' \in damages',
           label' \in labels', damages' \subseteq F!Damages,
           NEW p \in Clients, NEW to \in {"idle", "run", "known", "ran"}, F!Enter(p, to),
           NEW c \in F!Changes \cup F!Questions \cup {None}, call' = [call EXCEPT ![p] = c],
           NEW a, output' = [output EXCEPT ![p] = a],
           ToolInv(p)',
           \/ tcache' = tcache
           \/ /\ call[p] \in F!Keys /\ tcache' = [tcache EXCEPT ![call[p]] = output[p]]
              /\ F!SaysSo(call[p], output[p]),
           unmounted' = unmounted \/ "says" \notin DOMAIN unmounted',
           told' = told \/ told' = None \/ "says" \notin DOMAIN told'
    PROVE  ToolsInv'
<1>1. ToolTyped'
  <2>1. tcache' = [k \in F!Keys |-> tcache'[k]]
    BY DEF ToolsInv, ToolTyped
  <2>2. output' = [q \in Clients |-> output'[q]]
    BY DEF ToolsInv, ToolTyped
  <2>3. /\ fs' \in Filesystems
        /\ tpc' \in [Clients -> {"idle", "run", "known", "ran"}]
        /\ unmounted' = None \/ "says" \notin DOMAIN unmounted'
    BY DEF ToolsInv, ToolTyped, F!Enter
  <2>4. call' \in [Clients -> F!Changes \cup F!Questions \cup {None}]
    BY DEF ToolsInv, ToolTyped
  <2> QED  BY <2>1, <2>2, <2>3, <2>4 DEF ToolTyped
<1>2. ASSUME NEW q \in Clients  PROVE ToolInv(q)'
  <2>1. CASE q = p
    BY <2>1
  <2>2. CASE q # p
    <3>1. tpc'[q] = tpc[q] /\ call'[q] = call[q] /\ output'[q] = output[q]
      BY <2>2 DEF ToolsInv, ToolTyped, F!Enter
    <3> QED  BY <3>1, OthersStay
  <2> QED  BY <2>1, <2>2
<1>3. AnswersAreTrue'
  <2>1. CASE tcache' = tcache
    BY <2>1, AnswersStay DEF AnswersAreTrue, F!AnswersAreTrue
  <2>2. CASE /\ call[p] \in F!Keys /\ tcache' = [tcache EXCEPT ![call[p]] = output[p]]
             /\ F!SaysSo(call[p], output[p])
    <3>1. ASSUME NEW k \in F!Keys, tcache'[k] # None  PROVE F!SaysSo(k, tcache[k])'
      <4>1. CASE k = call[p]
        <5>1. PICK b : b = output[p]
          OBVIOUS
        <5>2. F!SaysSo(k, b)'
          BY <2>2, <4>1, <5>1, SayingsLast DEF ToolsInv, F!Keys, F!Questions, F!Call
        <5>3. tcache'[k] = b
          BY <2>2, <4>1, <5>1 DEF ToolsInv, ToolTyped
        <5> QED  BY <5>2, <5>3
      <4>2. CASE k # call[p]
        <5>1. tcache'[k] = tcache[k]
          BY <2>2, <4>2 DEF ToolsInv, ToolTyped
        <5> QED  BY <3>1, <5>1, AnswersStay
      <4> QED  BY <4>1, <4>2
    <3> QED  BY <3>1 DEF AnswersAreTrue, F!AnswersAreTrue
  <2> QED  BY <2>1, <2>2
<1>4. ChecksAreTrue'
  BY DEF ToolsInv, ChecksAreTrue, F!ChecksAreTrue
<1> QED  BY <1>1, <1>2, <1>3, <1>4 DEF ToolsInv

LEMMA StatesAreNotChecks ==
    ASSUME fs \in Adapters
    PROVE  \A a : "says" \notin DOMAIN F!StateOf(a)
<1>1. (\A x, y : "says" \notin DOMAIN F!State(x, y)) /\ "says" \notin DOMAIN F!NoState
  BY DEF F!State, F!NoState
<1>2. \A x, y, z : "says" \notin DOMAIN F!Unless(z, F!State(x, y))
  BY <1>1 DEF F!Unless
<1> TAKE a
<1>3. CASE fs \in {"ext4", "vfat", "exfat", "xfs"}
  BY <1>1, <1>2, <1>3 DEF F!StateOf, F!Ext4State, F!VfatState, F!ExfatState, F!XfsState, F!ByExit, F!ByCodes
<1>4. CASE fs \in {"btrfs", "ntfs", "f2fs", "gfs2"}
  BY <1>1, <1>2, <1>4 DEF F!StateOf, F!BtrfsState, F!NtfsState, F!F2fsState, F!Gfs2State, F!ByExit, F!ByCodes
<1>5. CASE fs \in {"hfsplus", "reiserfs", "apfs", "zfs"}
  BY <1>1, <1>5 DEF F!StateOf, F!HfsplusState, F!ReiserfsState, F!ApfsState, F!ZfsState, F!ByExit, F!ByCodes
<1> QED  BY <1>3, <1>4, <1>5 DEF Adapters

(* What a tool answers leaves the device as it says, and is so.            *)
LEMMA OutcomesAreSo ==
    ASSUME ToolAssumption, ToolTyped, NEW c \in F!Changes \cup F!Questions, NEW a \in F!Outcomes(c)
    PROVE  a.left \in F!Damages
<1>0. damage \in F!Damages /\ fs \in Filesystems
  BY DEF ToolTyped
<1>1. \A b \in F!Fails : b.left = damage
  BY DEF F!Fails, F!Answer
<1>a. F!Damages = {"none", "fixable", "lasting"}
  BY DEF F!Damages
<1>2. \A fix \in BOOLEAN : \A b \in F!Exits(fix) : b.left \in F!Damages
  BY <1>0, ExitsAre DEF Sound, Mended, Found, F!Damages
<1>3. CASE c.do = "check"
  <2>1. F!Outcomes(c) = F!Exits(c.fix) \cup F!Fails \cup
                        {[b EXCEPT !.left = e.left] : b \in F!Fails, e \in F!Exits(c.fix)}
    BY <1>3 DEF F!Outcomes
  <2>2. \/ a \in F!Exits(c.fix)
        \/ a \in F!Fails
        \/ \E b \in F!Fails, e \in F!Exits(c.fix) : a = [b EXCEPT !.left = e.left]
    BY <2>1
  <2>3. \A b \in F!Fails : \A l : [b EXCEPT !.left = l].left = l
    BY DEF F!Fails, F!Answer
  <2>4. c.fix \in BOOLEAN
    BY <1>3, ToolCalls
  <2>5. a \in F!Exits(c.fix) => a.left \in F!Damages
    BY <1>2, <2>4
  <2>6. ASSUME NEW b \in F!Fails, NEW e \in F!Exits(c.fix), a = [b EXCEPT !.left = e.left]
        PROVE  a.left \in F!Damages
    BY <1>2, <2>3, <2>4, <2>6
  <2> QED  BY <1>0, <1>1, <2>2, <2>5, <2>6
<1>4. CASE c.do = "format"
  <2>2. F!Outcomes(c) = {[F!Answer(0, "none", FALSE) EXCEPT !.left = "none", !.label = c.label]} \cup
                        {[b EXCEPT !.left = "lasting"] : b \in F!Fails}
    BY <1>4 DEF F!Outcomes
  <2>4. \/ a = [F!Answer(0, "none", FALSE) EXCEPT !.left = "none", !.label = c.label]
        \/ \E b \in F!Fails : a = [b EXCEPT !.left = "lasting"]
    BY <2>2
  <2>5. CASE a = [F!Answer(0, "none", FALSE) EXCEPT !.left = "none", !.label = c.label]
    BY <1>a, <2>5 DEF F!Answer
  <2>6. ASSUME NEW b \in F!Fails, a = [b EXCEPT !.left = "lasting"]  PROVE a.left = "lasting"
    BY <2>6 DEF F!Fails, F!Answer
  <2> QED  BY <1>a, <2>4, <2>5, <2>6
<1>5. CASE c.do = "set"
  <2>1. F!Outcomes(c) = {[F!Answer(0, "none", FALSE) EXCEPT !.label = c.label]} \cup F!Fails \cup
                        {[b EXCEPT !.label = c.label] : b \in F!Fails}
    BY <1>5 DEF F!Outcomes
  <2>4. \/ a = [F!Answer(0, "none", FALSE) EXCEPT !.label = c.label] \/ a \in F!Fails
        \/ \E b \in F!Fails : a = [b EXCEPT !.label = c.label]
    BY <2>1
  <2>5. CASE a = [F!Answer(0, "none", FALSE) EXCEPT !.label = c.label]
    BY <1>0, <2>5 DEF F!Answer
  <2>6. ASSUME NEW b \in F!Fails, a = [b EXCEPT !.label = c.label]  PROVE a.left = damage
    BY <2>6 DEF F!Fails, F!Answer
  <2> QED  BY <1>0, <1>1, <2>4, <2>5, <2>6
<1>6. CASE c.do = "label"
  <2>1. a \notin F!Fails => a.left = damage
    BY <1>6 DEF F!Outcomes, F!Answer
  <2> QED  BY <1>0, <1>1, <2>1
<1>7. CASE c.do = "state"
  <2>1. a \in F!Inspects \cup F!Fails
    BY <1>7 DEF F!Outcomes
  <2>2. CASE a \in F!Inspects /\ fs = "ext4"
    <3>1. PICK w \in {"clean", "not clean", "clean with errors"} : a = F!Answer(0, w, FALSE)
      BY <2>2 DEF F!Inspects
    <3>2. a.left = damage
      BY <3>1 DEF F!Answer
    <3> QED  BY <1>0, <3>2
  <2>3. CASE a \in F!Inspects /\ fs # "ext4"
    <3>1. a \in F!Exits(FALSE)
      BY <2>3 DEF F!Inspects
    <3> QED  BY <1>2, <3>1
  <2> QED  BY <1>0, <1>1, <2>1, <2>2, <2>3
<1> QED  BY <1>3, <1>4, <1>5, <1>6, <1>7, ToolCalls

LEMMA OutcomesAreTrue ==
    ASSUME ToolAssumption, ToolTyped, NEW c \in F!Changes \cup F!Questions, NEW a \in F!Outcomes(c), F!Cached(c),
           fs' = fs, damages' = damages \cup {a.left}, labels' = labels \cup {a.label}
    PROVE  F!SaysSo(c, a)'
<1>0. damage \in F!Damages /\ fs \in Filesystems /\ damage \in damages /\ label \in labels
  BY DEF ToolTyped
<1>1. \A b \in F!Fails : b.code # 0
  BY DEF F!Fails, F!Answer
<1>2. CASE c.do = "set"
  <2>1. F!Outcomes(c) = {[F!Answer(0, "none", FALSE) EXCEPT !.label = c.label]} \cup F!Fails \cup
                        {[b EXCEPT !.label = c.label] : b \in F!Fails}
    BY <1>2 DEF F!Outcomes
  <2>2. \A b \in F!Fails : \A l : [b EXCEPT !.label = l].code # 0
    BY DEF F!Fails, F!Answer
  <2>3. [F!Answer(0, "none", FALSE) EXCEPT !.label = c.label].label = c.label
    BY DEF F!Answer
  <2>4. a.code = 0 => c.label \in labels'
    BY <1>1, <2>1, <2>2, <2>3
  <2> QED  BY <1>2, <2>4 DEF F!SaysSo
<1>3. CASE c.do = "label"
  <2>1. a.code = 0 => a.label = label
    BY <1>1, <1>3 DEF F!Outcomes, F!Answer
  <2> QED  BY <1>0, <1>3, <2>1 DEF F!SaysSo
<1>4. CASE c.do = "state"
  <2> DEFINE s == F!StateOf(a)
  <2>1. a \in F!Inspects \cup F!Fails /\ fs \notin {"apfs", "zfs"}
    BY <1>4 DEF F!Outcomes, F!Cached
  <2>2. fs \in Trusted => /\ s.clean => damage = "none" \/ a.left = "none"
                          /\ s.errors => damage # "none"
    BY <1>0, <2>1, StateIsTruthful
  <2>3. F!StateOf(a)' = F!StateOf(a)
    BY DEF F!StateOf, F!Ext4State, F!VfatState, F!ExfatState, F!XfsState, F!BtrfsState, F!NtfsState, F!F2fsState,
           F!Gfs2State, F!HfsplusState, F!ReiserfsState, F!ApfsState, F!ZfsState
  <2>4. F!SaysSo(c, a)' <=>
          (fs' \in Trusted => (s'.clean => "none" \in damages') /\ (s'.errors => damages' # {"none"}))
    BY <1>4 DEF F!SaysSo
  <2>5. s' = s
    BY <2>3
  <2> HIDE DEF s
  <2> QED  BY <1>0, <2>2, <2>4, <2>5
<1> QED  BY <1>2, <1>3, <1>4, ToolCalls


(* Begin: what is known already is handed out, what needs no tool is not   *)
(* kept, and the rest is asked of the tool.                                *)
LEMMA BeginKeepsTools ==
    ASSUME ToolAssumption, ToolsInv, NEW p \in Clients, NEW c \in F!Changes \cup F!Questions, F!Begin(p, c)
    PROVE  ToolsInv'
<1>1. /\ fs' = fs /\ damage' = damage /\ label' = label /\ damages' = damages /\ labels' = labels
      /\ tcache' = tcache /\ unmounted' = unmounted /\ told' = None /\ call' = [call EXCEPT ![p] = c]
      /\ damage \in damages /\ damages \subseteq F!Damages /\ label \in labels /\ fs \in Adapters
  BY DEF F!Begin, F!device, F!history, ToolsInv, ToolTyped, ToolAssumption
<1>2. call'[p] = c
  BY <1>1 DEF ToolsInv, ToolTyped
<1>3. output = [output EXCEPT ![p] = output[p]]
  BY DEF ToolsInv, ToolTyped
<1>4. CASE F!Toolless(c) /\ F!Enter(p, "ran") /\ UNCHANGED output
  <2>1. tpc'[p] = "ran" /\ ~F!Cached(c)
    BY <1>1, <1>4, ToollessIsNotCached DEF F!Enter, ToolsInv, ToolTyped
  <2>2. c.do = "check" => fs \in {"apfs", "zfs"}
    BY <1>4 DEF F!Toolless
  <2>3. \A a : c.do = "check" => Truthful(F!TaskResult(c, a), a)
    <3>1. \A a : c.do = "check" => F!TaskResult(c, a) = F!Refused
      BY <2>2 DEF F!TaskResult, F!ApfsTask, F!ZfsTask
    <3> QED  BY <3>1 DEF Truthful, F!Refused, F!Result
  <2>4. PICK a : a = output'[p]
    OBVIOUS
  <2>5. c.do = "check" => Truthful(F!TaskResult(c, a)', a)
    BY <1>1, <2>3, AdapterStays
  <2>6. ToolInv(p)'
    BY <1>1, <1>2, <2>1, <2>4, <2>5, AdapterStays DEF ToolInv
  <2>7. output' = [output EXCEPT ![p] = output[p]]
    BY <1>3, <1>4
  <2> QED  BY <1>1, <1>4, <2>6, <2>7, CallerGoes
<1>5. CASE ~F!Toolless(c) /\ F!Cached(c) /\ tcache[c] # None
           /\ output' = [output EXCEPT ![p] = tcache[c]] /\ F!Enter(p, "known")
  <2>1. tpc'[p] = "known"
    BY <1>5 DEF F!Enter, ToolsInv, ToolTyped
  <2>2. ToolInv(p)'
    BY <1>1, <1>2, <1>5, <2>1, AdapterStays DEF ToolInv
  <2> QED  BY <1>1, <1>5, <2>2, CallerGoes
<1>6. CASE ~F!Toolless(c) /\ F!Enter(p, "run") /\ UNCHANGED output
  <2>1. tpc'[p] = "run"
    BY <1>6 DEF F!Enter, ToolsInv, ToolTyped
  <2>2. ToolInv(p)'
    BY <1>1, <1>2, <2>1 DEF ToolInv
  <2>3. output' = [output EXCEPT ![p] = output[p]]
    BY <1>3, <1>6
  <2> QED  BY <1>1, <1>6, <2>2, <2>3, CallerGoes
<1> QED  BY <1>4, <1>5, <1>6 DEF F!Begin

(* Remember: the last state, which no check has told.                      *)
LEMMA RememberKeepsTools ==
    ASSUME ToolsInv, NEW p \in Clients, F!Remember(p)
    PROVE  ToolsInv'
<1>1. "says" \notin DOMAIN F!State(TRUE, FALSE)
  BY DEF F!State
<1>2. unmounted # None => "says" \notin DOMAIN unmounted
  BY DEF ToolsInv, ToolTyped
<1>3. told' = F!State(TRUE, FALSE) \/ (unmounted # None /\ told' = unmounted)
  BY DEF F!Remember
<1>4. "says" \notin DOMAIN told'
  BY <1>1, <1>2, <1>3
<1> QED  BY <1>4, ToolsStay DEF F!Remember, F!device, F!history, ToolsInv, ToolTyped

(* Run: the answer is of the device as the tool leaves it.                 *)
LEMMA RunKeepsTools ==
    ASSUME ToolAssumption, ToolsInv, NEW p \in Clients, F!Run(p)
    PROVE  ToolsInv'
<1> DEFINE c == call[p]
<1>1. PICK a \in F!Outcomes(c) : output' = [output EXCEPT ![p] = a] /\ damage' = a.left /\ label' = a.label
  BY DEF F!Run
<1>2. /\ fs' = fs /\ call' = call /\ told' = told /\ tcache' = tcache /\ unmounted' = unmounted
      /\ damages' = damages \cup {a.left} /\ labels' = labels \cup {a.label}
      /\ tpc[p] = "run" /\ F!Enter(p, "ran")
  BY <1>1 DEF F!Run
<1>3. c \in F!Changes \cup F!Questions
  BY <1>2 DEF ToolsInv, ToolInv
<1>4. a.left \in F!Damages
  BY <1>3, OutcomesAreSo DEF ToolsInv
<1>5. /\ damages \subseteq damages' /\ labels \subseteq labels' /\ damage' \in damages' /\ label' \in labels'
      /\ damages' \subseteq F!Damages
  BY <1>1, <1>2, <1>4 DEF ToolsInv, ToolTyped
<1>6. call' = [call EXCEPT ![p] = c]
  BY <1>2 DEF ToolsInv, ToolTyped
<1>7. tpc'[p] = "ran" /\ output'[p] = a /\ call'[p] = c
  BY <1>1, <1>2 DEF F!Enter, ToolsInv, ToolTyped
<1>8. ToolInv(p)'
  <2>1. F!Cached(c) => F!SaysSo(c, a)'
    BY <1>2, <1>3, OutcomesAreTrue DEF ToolsInv
  <2>2. c.do = "check" => Truthful(F!TaskResult(c, a), a)
    BY <1>3, CheckIsTruthful, ToolCalls DEF ToolsInv, ToolTyped
  <2>3. PICK k : k = c
    OBVIOUS
  <2>4. F!Cached(k)' => F!SaysSo(k, a)'
    BY <1>2, <2>1, <2>3, AdapterStays
  <2>5. k.do = "check" => Truthful(F!TaskResult(k, a)', a)
    BY <1>2, <2>2, <2>3, AdapterStays
  <2>6. call'[p] = k /\ k \in F!Changes \cup F!Questions
    BY <1>3, <1>7, <2>3
  <2> QED  BY <1>7, <2>4, <2>5, <2>6 DEF ToolInv
<1> HIDE DEF c
<1> QED  BY <1>1, <1>2, <1>3, <1>5, <1>6, <1>8, CallerGoes

(* Reply: the answer of a tool is kept, that of the cache is not.          *)
LEMMA ReplyKeepsTools ==
    ASSUME ToolAssumption, ToolsInv, NEW p \in Clients, F!Reply(p)
    PROVE  ToolsInv'
<1>1. /\ fs' = fs /\ damage' = damage /\ label' = label /\ damages' = damages /\ labels' = labels
      /\ call' = [call EXCEPT ![p] = None] /\ output' = [output EXCEPT ![p] = None] /\ F!Enter(p, "idle")
      /\ damage \in damages /\ damages \subseteq F!Damages /\ label \in labels /\ fs \in Adapters
  BY DEF F!Reply, F!Over, F!device, F!history, ToolsInv, ToolTyped, ToolAssumption
<1>2. tpc'[p] = "idle"
  BY <1>1 DEF F!Enter, ToolsInv, ToolTyped
<1>3. ToolInv(p)'
  BY <1>2 DEF ToolInv
<1>4. \/ tcache' = tcache
      \/ /\ call[p] \in F!Keys /\ tcache' = [tcache EXCEPT ![call[p]] = output[p]]
         /\ F!SaysSo(call[p], output[p])
  <2>1. call[p] \in F!Keys
    BY DEF F!Reply, F!Keys
  <2>2. CASE tpc[p] = "ran" /\ F!Cached(call[p])
    BY <2>1, <2>2 DEF F!Reply, ToolsInv, ToolInv
  <2>3. CASE ~(tpc[p] = "ran" /\ F!Cached(call[p]))
    BY <2>3 DEF F!Reply
  <2> QED  BY <2>2, <2>3
<1>5. "says" \notin DOMAIN F!StateOf(output[p])
  BY <1>1, StatesAreNotChecks
<1>6. told' = None \/ "says" \notin DOMAIN told'
  BY <1>5 DEF F!Reply
<1>7. unmounted' = unmounted \/ "says" \notin DOMAIN unmounted'
  BY <1>5 DEF F!Reply
<1> QED  BY <1>1, <1>3, <1>4, <1>6, <1>7, CallerGoes

(* Keep: what was set is kept as the answer of the command that set it.    *)
LEMMA KeepKeepsTools ==
    ASSUME ToolAssumption, ToolsInv, NEW p \in Clients, F!Keep(p)
    PROVE  ToolsInv'
<1>1. /\ fs' = fs /\ damage' = damage /\ label' = label /\ damages' = damages /\ labels' = labels
      /\ call' = call /\ output' = output /\ told' = told /\ unmounted' = unmounted
      /\ tpc[p] = "ran" /\ F!Enter(p, "known") /\ F!Cached(call[p])
      /\ tcache' = [tcache EXCEPT ![call[p]] = output[p]]
      /\ call[p] \in F!Changes \cup F!Questions
      /\ damage \in damages /\ damages \subseteq F!Damages /\ label \in labels
  BY DEF F!Keep, F!device, F!history, ToolsInv, ToolTyped
<1>2. call' = [call EXCEPT ![p] = call[p]] /\ output' = [output EXCEPT ![p] = output[p]]
  BY <1>1 DEF ToolsInv, ToolTyped
<1>3. tpc'[p] = "known"
  BY <1>1 DEF F!Enter, ToolsInv, ToolTyped
<1>4. PICK k : k = call[p]
  OBVIOUS
<1>5. call'[p] = k /\ F!Cached(k)' /\ k \in F!Changes \cup F!Questions
  BY <1>1, <1>4, AdapterStays
<1>6. ToolInv(p)'
  BY <1>3, <1>5 DEF ToolInv
<1>7. call[p] \in F!Keys /\ F!SaysSo(call[p], output[p])
  BY <1>1, ToolCalls DEF ToolsInv, ToolInv
<1> QED  BY <1>1, <1>2, <1>6, <1>7, CallerGoes

(* Conclude: nothing is left in the cache, and no answer is on its way     *)
(* that will be kept.                                                      *)
LEMMA ConcludeKeepsTools ==
    ASSUME ToolAssumption, ToolsInv, NEW p \in Clients, F!Conclude(p)
    PROVE  ToolsInv'
<1>1. /\ fs' = fs /\ damage' = damage /\ label' = label /\ unmounted' = unmounted
      /\ call' = [call EXCEPT ![p] = None] /\ output' = [output EXCEPT ![p] = None] /\ F!Enter(p, "idle")
      /\ tcache' = [k \in F!Keys |-> None] /\ damages' = {damage} /\ labels' = {label}
      /\ damage \in damages /\ damages \subseteq F!Damages
      /\ \A q \in Clients : tpc[q] = "ran" => ~F!Cached(call[q])
  BY DEF F!Conclude, F!Over, F!Flush, F!device, ToolsInv, ToolTyped, ToolAssumption
<1>2. ToolTyped'
  <2>1. /\ fs' \in Filesystems /\ damage' \in damages' /\ damages' \subseteq F!Damages /\ label' \in labels'
        /\ tcache' = [k \in F!Keys |-> tcache'[k]] /\ output' = [q \in Clients |-> output'[q]]
        /\ unmounted' = None \/ "says" \notin DOMAIN unmounted'
    BY <1>1 DEF ToolsInv, ToolTyped
  <2>2. /\ tpc' \in [Clients -> {"idle", "run", "known", "ran"}]
        /\ call' \in [Clients -> F!Changes \cup F!Questions \cup {None}]
    BY <1>1 DEF F!Enter, ToolsInv, ToolTyped
  <2> QED  BY <2>1, <2>2 DEF ToolTyped
<1>3. ASSUME NEW q \in Clients  PROVE ToolInv(q)'
  <2>1. CASE q = p
    <3>1. tpc'[q] = "idle"
      BY <1>1, <2>1 DEF F!Enter, ToolsInv, ToolTyped
    <3> QED  BY <3>1 DEF ToolInv
  <2>2. CASE q # p
    <3>1. tpc'[q] = tpc[q] /\ call'[q] = call[q] /\ output'[q] = output[q]
      BY <1>1, <2>2 DEF F!Enter, ToolsInv, ToolTyped
    <3>2. PICK c, a : c = call[q] /\ a = output[q]
      OBVIOUS
    <3>3. ToolInv(q)
      BY DEF ToolsInv
    <3>4. tpc[q] = "ran" => ~F!Cached(c)'
      BY <1>1, <3>2, AdapterStays
    <3>5. tpc[q] = "known" => F!Cached(c)'
      BY <1>1, <3>2, <3>3, AdapterStays DEF ToolInv
    <3>6. tpc[q] = "ran" /\ c.do = "check" => Truthful(F!TaskResult(c, a)', a)
      BY <1>1, <3>2, <3>3, AdapterStays DEF ToolInv
    <3>7. call'[q] = c /\ output'[q] = a /\ (tpc[q] # "idle" => c \in F!Changes \cup F!Questions)
      BY <3>1, <3>2, <3>3 DEF ToolInv
    <3> QED  BY <3>1, <3>4, <3>5, <3>6, <3>7 DEF ToolInv
  <2> QED  BY <2>1, <2>2
<1>4. AnswersAreTrue'
  BY <1>1 DEF AnswersAreTrue, F!AnswersAreTrue
<1>5. ChecksAreTrue'
  <2>1. CASE call[p].do # "check"
    <3>1. told' = None
      BY <2>1 DEF F!Conclude
    <3> QED  BY <3>1 DEF ChecksAreTrue, F!ChecksAreTrue
  <2>2. CASE call[p].do = "check"
    <3> DEFINE says == F!TaskResult(call[p], output[p])
    <3>1. told' = [says |-> says, of |-> output[p]]
      BY <2>2 DEF F!Conclude
    <3>2. tpc[p] = "ran"
      <4>1. call[p] \in F!Changes \cup F!Questions /\ (tpc[p] = "known" => F!Cached(call[p]))
        BY DEF F!Conclude, ToolsInv, ToolInv
      <4> QED  BY <2>2, <4>1, ToolCalls DEF F!Conclude
    <3>3. Truthful(says, output[p])
      BY <2>2, <3>2 DEF ToolsInv, ToolInv
    <3>4. told'.says = says /\ told'.of = output[p]
      BY <3>1
    <3>5. Truthful(told'.says, told'.of)
      BY <3>3, <3>4
    <3> QED  BY <3>5 DEF ChecksAreTrue, F!ChecksAreTrue, Truthful
  <2> QED  BY <2>1, <2>2
<1> QED  BY <1>2, <1>3, <1>4, <1>5 DEF ToolsInv

LEMMA ToolsInitially ==
    ASSUME F!Init
    PROVE  ToolsInv
<1>1. ToolTyped
  BY DEF F!Init, ToolTyped, F!Damages
<1>2. \A p \in Clients : ToolInv(p)
  BY DEF F!Init, ToolInv
<1>3. AnswersAreTrue /\ ChecksAreTrue
  BY DEF F!Init, AnswersAreTrue, F!AnswersAreTrue, ChecksAreTrue, F!ChecksAreTrue
<1> QED  BY <1>1, <1>2, <1>3 DEF ToolsInv

LEMMA ToolsAreKept ==
    ASSUME ToolAssumption, ToolsInv, [F!Next]_(F!vars)
    PROVE  ToolsInv'
<1>1. ASSUME NEW p \in Clients, NEW c \in F!Changes \cup F!Questions, F!Begin(p, c)  PROVE ToolsInv'
  BY <1>1, BeginKeepsTools
<1>2. ASSUME NEW p \in Clients, F!Remember(p)  PROVE ToolsInv'
  BY <1>2, RememberKeepsTools
<1>3. ASSUME NEW p \in Clients, F!Run(p)  PROVE ToolsInv'
  BY <1>3, RunKeepsTools
<1>4. ASSUME NEW p \in Clients, F!Reply(p)  PROVE ToolsInv'
  BY <1>4, ReplyKeepsTools
<1>5. ASSUME NEW p \in Clients, F!Keep(p)  PROVE ToolsInv'
  BY <1>5, KeepKeepsTools
<1>6. ASSUME NEW p \in Clients, F!Conclude(p)  PROVE ToolsInv'
  BY <1>6, ConcludeKeepsTools
<1>7. CASE F!Expire
  BY <1>7, ToolsStay DEF F!Expire, F!device, F!callVars, F!history, ToolsInv, ToolTyped
<1>8. CASE F!Mount
  BY <1>8, ToolsStay DEF F!Mount, F!callVars, F!history, ToolsInv, ToolTyped
<1>9. CASE F!Wear
  <2>1. damage' \in F!Damages
    BY <1>9 DEF F!Wear, F!Damages
  <2> QED  BY <1>9, <2>1, ToolsStay DEF F!Wear, F!callVars, ToolsInv, ToolTyped
<1>10. CASE UNCHANGED F!vars
  BY <1>10, ToolsStay DEF F!vars, F!device, F!callVars, F!history, ToolsInv, ToolTyped
<1> QED  BY <1>1, <1>2, <1>3, <1>4, <1>5, <1>6, <1>7, <1>8, <1>9, <1>10 DEF F!Next

(* What is served from the cache was so at some moment since the last      *)
(* change that somebody was told of: flushing the whole cache when a       *)
(* change is over is enough (FilesystemAdapterCache, invalidate), provided *)
(* no answer asked for before the flush is stored after it.                *)
THEOREM ToolAnswersAreTrue ==
    ASSUME ToolAssumption
    PROVE  F!Spec => []AnswersAreTrue
<1>1. ToolsInv => AnswersAreTrue
  BY DEF ToolsInv
<1> QED  BY <1>1, ToolsInitially, ToolsAreKept, PTL DEF F!Spec

(* What an adapter says of a check is how its tool has left the device,    *)
(* whichever exit code or word it is read from.                            *)
THEOREM ToolChecksAreTrue ==
    ASSUME ToolAssumption
    PROVE  F!Spec => []ChecksAreTrue
<1>1. ToolsInv => ChecksAreTrue
  BY DEF ToolsInv
<1> QED  BY <1>1, ToolsInitially, ToolsAreKept, PTL DEF F!Spec

-----------------------------------------------------------------------------
(* The run *)

(* A step of one system is not a step of another.                          *)
LEMMA StoresAreApart ==
    ASSUME [StoresNext]_storesVars
    PROVE  /\ UNCHANGED world
           /\ [C!Next]_(C!vars) /\ [H!Next]_(H!vars) /\ [F!Next]_(F!vars)
           /\ world = "two" => [Two!Next]_(Two!vars)
           /\ world = "one" => [One!Next]_(One!vars)
<1>1. /\ UNCHANGED componentVars => UNCHANGED C!vars
      /\ UNCHANGED hardwareVars => UNCHANGED H!vars
      /\ UNCHANGED toolVars => UNCHANGED F!vars
      /\ UNCHANGED problemVars => UNCHANGED Two!vars
      /\ UNCHANGED problemVars => UNCHANGED One!vars
  <2>1. UNCHANGED componentVars => UNCHANGED C!vars
    BY DEF componentVars, C!vars, C!diskVars, C!coreVars, C!problemVars, C!callVars
  <2>2. UNCHANGED hardwareVars => UNCHANGED H!vars
    BY DEF hardwareVars, H!vars, H!hostVars, H!callVars
  <2>3. UNCHANGED toolVars => UNCHANGED F!vars
    BY DEF toolVars, F!vars, F!device, F!callVars, F!history
  <2>4. UNCHANGED problemVars => UNCHANGED Two!vars
    BY DEF problemVars, Two!vars, Two!storeVars, Two!haVars, Two!bridgeVars
  <2>5. UNCHANGED problemVars => UNCHANGED One!vars
    BY DEF problemVars, One!vars, One!storeVars, One!haVars, One!bridgeVars
  <2> QED  BY <2>1, <2>2, <2>3, <2>4, <2>5
<1>2. UNCHANGED storesVars =>
        UNCHANGED <<componentVars, hardwareVars, toolVars, problemVars, world>>
  BY DEF storesVars
<1>3. CASE world = "volumes" /\ Next /\ UNCHANGED <<problemVars, componentVars, hardwareVars, toolVars, world>>
  BY <1>1, <1>3
<1>4. CASE world = "two" /\ Two!Next /\ UNCHANGED <<vars, componentVars, hardwareVars, toolVars, world>>
  BY <1>1, <1>4
<1>5. CASE world = "one" /\ One!Next /\ UNCHANGED <<vars, componentVars, hardwareVars, toolVars, world>>
  BY <1>1, <1>5
<1>6. CASE world = "component" /\ C!Next /\ UNCHANGED <<vars, problemVars, hardwareVars, toolVars, world>>
  BY <1>1, <1>6
<1>7. CASE world = "hardware" /\ H!Next /\ UNCHANGED <<vars, problemVars, componentVars, toolVars, world>>
  BY <1>1, <1>7
<1>8. CASE world = "tools" /\ F!Next /\ UNCHANGED <<vars, problemVars, componentVars, hardwareVars, world>>
  BY <1>1, <1>8
<1>9. CASE UNCHANGED storesVars
  BY <1>1, <1>2, <1>9
<1> QED  BY <1>3, <1>4, <1>5, <1>6, <1>7, <1>8, <1>9 DEF StoresNext

(* What the run of MCStores checks of the six systems, for every value of  *)
(* the constants: each of them keeps what it promises above.               *)
THEOREM StoresKeepTheirPromises ==
    ASSUME ComponentAssumption, HardwareAssumption, ToolAssumption, OneGoroutine,
           ProblemsAssumption(Severities), ProblemsAssumption(Shown)
    PROVE  StoresSpec => /\ []CacheIsStore /\ []FixedIsSilent
                         /\ []LastRemoverGets /\ []RestartIsAsked /\ MapNeverGoesBack
                         /\ []AnswersAreTrue /\ []ChecksAreTrue
<1>1. StoresInit => /\ C!Init /\ H!Init /\ F!Init
                    /\ world = "two" => Two!Init
                    /\ world = "one" => One!Init
  BY DEF StoresInit
<1>2. ~(world = "two") => CacheIsStore
  BY DEF CacheIsStore
<1>3. ~(world = "one") => FixedIsSilent
  BY DEF FixedIsSilent
<1>4. [StoresNext]_storesVars =>
        /\ world = "two" => (world = "two")' /\ [Two!Next]_(Two!vars)
        /\ ~(world = "two") => ~(world = "two")'
        /\ world = "one" => (world = "one")' /\ [One!Next]_(One!vars)
        /\ ~(world = "one") => ~(world = "one")'
        /\ [C!Next]_(C!vars) /\ [H!Next]_(H!vars) /\ [F!Next]_(F!vars)
  BY StoresAreApart
<1>5. StoresSpec => /\ C!Spec /\ H!Spec /\ F!Spec
                    /\ world = "two" => Two!Spec
                    /\ world = "one" => One!Spec
  BY <1>1, <1>4, PTL DEF StoresSpec, C!Spec, H!Spec, F!Spec, Two!Spec, One!Spec
<1>6. StoresSpec => (~(world = "two") => [](~(world = "two"))) /\ (~(world = "one") => [](~(world = "one")))
  BY <1>4, PTL DEF StoresSpec
<1>7. Two!Spec => []CacheIsStore
  BY CacheFollowsTable
<1>8. One!Spec => []FixedIsSilent
  BY FixedIsNotSpokenOf
<1>9. C!Spec => []LastRemoverGets /\ []RestartIsAsked
  BY LastRemoverHasIt, RestartStaysAsked
<1>10. H!Spec => MapNeverGoesBack
  BY MapGoesOn
<1>11. F!Spec => []AnswersAreTrue /\ []ChecksAreTrue
  BY ToolAnswersAreTrue, ToolChecksAreTrue
<1>12. StoresSpec => []CacheIsStore
  BY <1>2, <1>5, <1>6, <1>7, PTL
<1>13. StoresSpec => []FixedIsSilent
  BY <1>3, <1>5, <1>6, <1>8, PTL
<1>14. StoresSpec => /\ []LastRemoverGets /\ []RestartIsAsked /\ MapNeverGoesBack
                     /\ []AnswersAreTrue /\ []ChecksAreTrue
  BY <1>5, <1>9, <1>10, <1>11, PTL
<1> QED  BY <1>12, <1>13, <1>14
=============================================================================
