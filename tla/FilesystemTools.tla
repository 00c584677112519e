-------------------------- MODULE FilesystemTools --------------------------
(***************************************************************************)
(* The twelve adapters of service/filesystem and the cache of commands     *)
(* they share: what each makes of the exit codes and words of its tools,   *)
(* and which of a tool's answers it remembers.                             *)
(*                                                                         *)
(* A device has one filesystem, which may be damaged, and a label.         *)
(* Callers format and check it, set and read its label and ask for its     *)
(* state.  Formats and checks exclude each other; nothing else does.       *)
(* Answers to some questions are kept for thirty minutes under the command *)
(* line that asked; whoever may have changed the device flushes them all.  *)
(***************************************************************************)
EXTENDS Integers, FiniteSets

CONSTANTS
    Filesystems,  \* the adapters of a run, by name
    Callers,      \* requests and the statistics loop
    Labels,
    Failing,      \* the filesystems whose tools may fail for other reasons
    Trusted,      \* those whose GetState is judged by AnswersAreTrue
    MaxCalls,     \* bound on the calls of a behaviour
    Overlap,      \* whether a flush may come before a question asked earlier is answered
    None

VARIABLES
    fs,         \* the filesystem of the device
    damage,     \* what is wrong with it
    label,
    mounted,
    cache,      \* commandResultCache, by command
    unmounted,  \* lastUnmountedState of the NTFS adapter
    pc,
    call,       \* what each caller has asked for
    answer,     \* what its tool has answered
    told,       \* what the adapter has made of the last one
    calls,      \* counts the calls
    damages,    \* history: what has been wrong since the last change was over
    labels      \* history: the labels since then

device == <<fs, damage, label, mounted>>
callVars == <<pc, call, answer, told, calls>>
history == <<damages, labels>>
vars == <<device, cache, unmounted, callVars, history>>

Damages == {"none", "fixable", "lasting"}

(* The calls of an adapter.  AutoFix is an option of a check.               *)
Call(do, fix, l) == [do |-> do, fix |-> fix, label |-> l]
Tasks == {Call("check", f, None) : f \in BOOLEAN} \cup {Call("format", FALSE, l) : l \in Labels}
Changes == Tasks \cup {Call("set", FALSE, l) : l \in Labels}
Questions == {Call(q, FALSE, None) : q \in {"label", "state"}}

(* What runCommandMode returns: the exit code, a word of the output, and    *)
(* whether the command was cancelled or could not be run.  With it, the     *)
(* label that was read and the state in which the tool has left the device. *)
Answer(code, word, failed) ==
    [code |-> code, word |-> word, failed |-> failed, label |-> label, left |-> damage]

-----------------------------------------------------------------------------
(* The tools, as the adapters and their comments describe them.  A tool    *)
(* repairs what is fixable if it may; the one of HFS+ is not asked.         *)

Corrected ==
    [k \in Filesystems |->
        CASE k \in {"ext4", "vfat", "gfs2", "reiserfs"} -> {1, 2}
          [] k \in {"exfat", "xfs"} -> {1}
          [] OTHER -> {0}]
LeftAlone ==
    [k \in Filesystems |->
        CASE k \in {"ext4", "vfat", "exfat", "gfs2"} -> {4}
          [] k = "reiserfs" -> {4, 6}
          [] k = "xfs" -> {2}
          [] OTHER -> {1}]
OnlyLooking(k) == CASE k = "xfs" -> {1, 2} [] k = "btrfs" -> {0, 1} [] OTHER -> LeftAlone[k]

Exits(fix) ==
    CASE damage = "none" -> {Answer(0, "none", FALSE)}
      [] damage = "fixable" /\ (fix \/ fs = "hfsplus") ->
            {[Answer(c, IF fs = "btrfs" THEN "error" ELSE "fixed", FALSE) EXCEPT !.left = "none"] :
                c \in Corrected[fs]}
      [] OTHER ->
            {Answer(c, "error", FALSE) : c \in IF fix THEN LeftAlone[fs] ELSE OnlyLooking(fs)}

(* tune2fs prints the state in words; the others are their checks.          *)
Inspects ==
    IF fs = "ext4"
    THEN {Answer(0, w, FALSE) :
            w \in IF damage = "none" THEN {"clean"} ELSE {"not clean", "clean with errors"}}
    ELSE Exits(FALSE)

(* A tool may fail, or be cancelled by the request or the end of its task.  *)
Fails == IF fs \in Failing THEN {Answer(8, "none", FALSE), Answer(-1, "none", TRUE)} ELSE {}

-----------------------------------------------------------------------------
(* What the adapters make of an answer *)

Result(ok, found, fixed, error) == [ok |-> ok, found |-> found, fixed |-> fixed, error |-> error]
Clean    == Result(TRUE, FALSE, FALSE, FALSE)
Repaired == Result(TRUE, TRUE, TRUE, FALSE)
Reported == Result(TRUE, TRUE, FALSE, FALSE)
Left     == Result(FALSE, TRUE, FALSE, FALSE)
Failed   == Result(FALSE, TRUE, FALSE, TRUE)
Refused  == Result(FALSE, FALSE, FALSE, TRUE)

(* A format fails with its tool.  A check reports the exit code, and an     *)
(* error with every code that the adapter does not know.                    *)
Formatted(a) == IF a.code = 0 THEN Clean ELSE Failed
ByCode(a, corrected, left) ==
    CASE a.code = 0 -> Clean
      [] a.code \in corrected -> Repaired
      [] a.code \in left -> Left
      [] OTHER -> Failed
ByWord(a, words, found) ==
    CASE a.code # 0 -> Failed [] a.code = 0 /\ a.word \in words -> found [] OTHER -> Clean
Task(c, a, checked) == IF c.do = "format" THEN Formatted(a) ELSE checked

Ext4Task(c, a) == Task(c, a, ByCode(a, {1, 2}, {4}))
VfatTask(c, a) == Task(c, a, ByCode(a, {1, 2}, {4}))
ExfatTask(c, a) == Task(c, a, ByCode(a, {1}, {4}))
XfsTaskUnasked(c, a) == Task(c, a, ByCode(a, {1}, {2}))  \* mutant: as if it may always fix
XfsTask(c, a) ==
    Task(c, a, IF a.code = 1 /\ ~c.fix THEN Reported ELSE ByCode(a, {1}, {2}))
BtrfsTask(c, a) == Task(c, a, ByWord(a, {"error"}, IF c.fix THEN Repaired ELSE Reported))
NtfsTask(c, a) == Task(c, a, ByWord(a, {"fixed"}, Repaired))
F2fsTask(c, a) == Task(c, a, ByWord(a, {"fixed"}, Repaired))
Gfs2Task(c, a) == Task(c, a, ByCode(a, {1, 2}, {4}))
HfsplusTask(c, a) ==
    Task(c, a, [ByWord(a, {"fixed"}, Repaired) EXCEPT !.fixed = (a.word = "fixed")])
ReiserfsTask(c, a) == Task(c, a, ByCode(a, {1, 2}, {4, 6}))
ApfsTask == Refused
ZfsTask == Refused

TaskResult(c, a) ==
    CASE fs = "ext4" -> Ext4Task(c, a) [] fs = "vfat" -> VfatTask(c, a)
      [] fs = "exfat" -> ExfatTask(c, a) [] fs = "xfs" -> XfsTask(c, a)
      [] fs = "btrfs" -> BtrfsTask(c, a) [] fs = "ntfs" -> NtfsTask(c, a)
      [] fs = "f2fs" -> F2fsTask(c, a) [] fs = "gfs2" -> Gfs2Task(c, a)
      [] fs = "hfsplus" -> HfsplusTask(c, a) [] fs = "reiserfs" -> ReiserfsTask(c, a)
      [] fs = "apfs" -> ApfsTask [] fs = "zfs" -> ZfsTask

(* GetLabel and SetLabel: through the cache, directly, or not at all.       *)
Access(get, set) == [label |-> get, set |-> set]
Ext4Label == Access("direct", "direct")
VfatLabel == Access("cached", "cached")
ExfatLabel == Access("direct", "direct")
XfsLabel == Access("cached", "cached")
BtrfsLabel == Access("direct", "direct")
NtfsLabel == Access("cached", "cached")
F2fsLabel == Access("direct", "none")
Gfs2Label == Access("none", "none")
HfsplusLabel == Access("none", "none")
ReiserfsLabel == Access("cached", "cached")
ApfsLabel == Access("none", "none")
ZfsLabel == Access("none", "none")

LabelAccess ==
    CASE fs = "ext4" -> Ext4Label [] fs = "vfat" -> VfatLabel [] fs = "exfat" -> ExfatLabel
      [] fs = "xfs" -> XfsLabel [] fs = "btrfs" -> BtrfsLabel [] fs = "ntfs" -> NtfsLabel
      [] fs = "f2fs" -> F2fsLabel [] fs = "gfs2" -> Gfs2Label [] fs = "hfsplus" -> HfsplusLabel
      [] fs = "reiserfs" -> ReiserfsLabel [] fs = "apfs" -> ApfsLabel [] fs = "zfs" -> ZfsLabel

(* GetState.  Neither clean nor with errors is "unknown".                   *)
State(clean, errors) == [clean |-> clean, errors |-> errors, error |-> FALSE]
NoState == [clean |-> FALSE, errors |-> FALSE, error |-> TRUE]
Unless(failed, state) == IF failed THEN NoState ELSE state
ByExit(a) == State(a.code = 0, a.code # 0)
ByCodes(a, bad) == State(a.code = 0, a.code \in bad)

Ext4State(a) ==
    Unless(a.failed \/ a.code # 0,
           State(a.word \in {"clean", "not clean", "clean with errors"}, a.word = "clean with errors"))
VfatState(a) == Unless(a.failed, ByExit(a))
ExfatState(a) == Unless(a.failed, ByCodes(a, {1, 4}))
XfsState(a) == Unless(a.failed, ByExit(a))
BtrfsState(a) ==
    LET sound == a.code = 0 /\ a.word # "error" IN Unless(a.failed, State(sound, ~sound))
NtfsState(a) ==
    LET sound == a.code = 0 /\ a.word # "error" IN Unless(a.failed, State(sound, ~sound))
F2fsState(a) == ByExit(a)
Gfs2State(a) == ByCodes(a, {1, 2, 4})
HfsplusState(a) == ByExit(a)
ReiserfsState(a) == ByCodes(a, {1, 2, 4, 6})
ApfsState == State(TRUE, FALSE)
ZfsState == State(FALSE, FALSE)

StateOf(a) ==
    CASE fs = "ext4" -> Ext4State(a) [] fs = "vfat" -> VfatState(a) [] fs = "exfat" -> ExfatState(a)
      [] fs = "xfs" -> XfsState(a) [] fs = "btrfs" -> BtrfsState(a) [] fs = "ntfs" -> NtfsState(a)
      [] fs = "f2fs" -> F2fsState(a) [] fs = "gfs2" -> Gfs2State(a)
      [] fs = "hfsplus" -> HfsplusState(a) [] fs = "reiserfs" -> ReiserfsState(a)
      [] fs = "apfs" -> ApfsState [] fs = "zfs" -> ZfsState

-----------------------------------------------------------------------------
(* The calls *)

Keys == Questions \cup {Call("set", FALSE, l) : l \in Labels}
Cached(c) ==
    \/ c.do = "state" /\ fs \notin {"apfs", "zfs"}
    \/ c.do \in {"label", "set"} /\ LabelAccess[IF c.do = "set" THEN "set" ELSE "label"] = "cached"

(* Calls that the adapter answers without a tool.                           *)
Toolless(c) ==
    \/ fs \in {"apfs", "zfs"}
    \/ c.do \in {"label", "set"} /\ LabelAccess[IF c.do = "set" THEN "set" ELSE "label"] = "none"

(* ntfsfix is not run on what is mounted.                                   *)
Untouchable(c) == fs = "ntfs" /\ mounted /\ c.do = "state"

Idle(p) == pc[p] = "idle" /\ calls < MaxCalls
Enter(p, next) == pc' = [pc EXCEPT ![p] = next]

TypeOK ==
    /\ fs \in Filesystems /\ damage \in Damages /\ label \in Labels /\ mounted \in BOOLEAN
    /\ pc \in [Callers -> {"idle", "run", "known", "ran"}]
    /\ call \in [Callers -> Changes \cup Questions \cup {None}]
    /\ calls \in 0 .. MaxCalls
    /\ damages \subseteq Damages /\ damage \in damages
    /\ labels \subseteq Labels /\ label \in labels
    /\ \A k \in Keys : cache[k] # None => Cached(k)

Init ==
    /\ fs \in Filesystems /\ damage = "none" /\ label \in Labels /\ mounted = FALSE
    /\ cache = [k \in Keys |-> None] /\ unmounted = None
    /\ pc = [p \in Callers |-> "idle"] /\ call = [p \in Callers |-> None]
    /\ answer = [p \in Callers |-> None] /\ told = None /\ calls = 0
    /\ damages = {damage} /\ labels = {label}

(* runCommandCached: what is in the cache is not asked again.  A format or  *)
(* a check is registered for the device, and refused while another is.      *)
Begin(p, c) ==
    /\ Idle(p) /\ ~Untouchable(c)
    /\ c \in Tasks => \A q \in Callers : pc[q] = "idle" \/ call[q] \notin Tasks
    /\ call' = [call EXCEPT ![p] = c] /\ calls' = calls + 1
    /\ told' = None
    /\ \/ Toolless(c) /\ Enter(p, "ran") /\ UNCHANGED answer
       \/ /\ ~Toolless(c) /\ Cached(c) /\ cache[c] # None
          /\ answer' = [answer EXCEPT ![p] = cache[c]] /\ Enter(p, "known")
       \/ /\ ~Toolless(c) /\ (Cached(c) => cache[c] = None)
          /\ Enter(p, "run") /\ UNCHANGED answer
    /\ UNCHANGED <<device, cache, unmounted, history>>

(* NtfsAdapter.GetState of a mounted device: the last state before it was   *)
(* mounted, or clean.                                                       *)
Remember(p) ==
    /\ Idle(p) /\ Untouchable(Call("state", FALSE, None))
    /\ told' = IF unmounted = None THEN State(TRUE, FALSE) ELSE unmounted
    /\ calls' = calls + 1
    /\ UNCHANGED <<device, cache, unmounted, pc, call, answer, history>>

(* The tool answers, and leaves the device as it does.  One that fails may  *)
(* have done its work, and a format that fails has done damage.             *)
Outcomes(c) ==
    CASE c.do = "check" ->
           Exits(c.fix) \cup Fails \cup
           {[a EXCEPT !.left = b.left] : a \in Fails, b \in Exits(c.fix)}
      [] c.do = "format" ->
           {[Answer(0, "none", FALSE) EXCEPT !.left = "none", !.label = c.label]} \cup
           {[a EXCEPT !.left = "lasting"] : a \in Fails}
      [] c.do = "set" ->
           {[Answer(0, "none", FALSE) EXCEPT !.label = c.label]} \cup Fails \cup
           {[a EXCEPT !.label = c.label] : a \in Fails}
      [] c.do = "label" -> {Answer(0, "none", FALSE)} \cup Fails
      [] c.do = "state" -> Inspects \cup Fails

Run(p) ==
    /\ pc[p] = "run" /\ Enter(p, "ran")
    /\ \E a \in Outcomes(call[p]) :
          /\ answer' = [answer EXCEPT ![p] = a]
          /\ damage' = a.left /\ label' = a.label
    /\ damages' = damages \cup {damage'} /\ labels' = labels \cup {label'}
    /\ UNCHANGED <<fs, mounted, cache, unmounted, call, told, calls>>

Over(p) ==
    /\ Enter(p, "idle")
    /\ call' = [call EXCEPT ![p] = None] /\ answer' = [answer EXCEPT ![p] = None]

(* GetLabel and GetState return.  runCommandCachedMode keeps every answer,  *)
(* also that of a tool that failed.                                         *)
Reply(p) ==
    /\ pc[p] \in {"ran", "known"} /\ call[p] \in Questions /\ Over(p)
    /\ cache' = IF pc[p] = "ran" /\ Cached(call[p]) THEN [cache EXCEPT ![call[p]] = answer[p]]
                ELSE cache
    /\ told' = IF call[p].do = "state" THEN StateOf(answer[p]) ELSE None
    /\ IF fs = "ntfs" /\ call[p].do = "state" /\ ~StateOf(answer[p]).error
       THEN unmounted' = StateOf(answer[p]) ELSE UNCHANGED unmounted
    /\ UNCHANGED <<device, calls, history>>

(* Four of the SetLabels go through the cache as well.                      *)
Keep(p) ==
    /\ pc[p] = "ran" /\ Enter(p, "known")
    /\ call[p] \in Changes /\ Cached(call[p])
    /\ cache' = [cache EXCEPT ![call[p]] = answer[p]]
    /\ UNCHANGED <<device, unmounted, call, answer, told, calls, history>>

FlushNothing == UNCHANGED cache  \* mutant: nobody defers the call

(* Format, Check and SetLabel return: invalidateCommandResultCache is       *)
(* deferred in each of them.                                                *)
Flush == cache' = [k \in Keys |-> None]
Conclude(p) ==
    /\ call[p] \in Changes /\ Over(p) /\ Flush
    /\ pc[p] = "known" \/ (pc[p] = "ran" /\ ~Cached(call[p]))
    /\ Overlap \/ \A q \in Callers : pc[q] = "ran" => ~Cached(call[q])
    /\ told' = IF call[p].do # "check" THEN None
               ELSE [says |-> TaskResult(call[p], answer[p]), of |-> answer[p]]
    /\ damages' = {damage} /\ labels' = {label}
    /\ UNCHANGED <<device, unmounted, calls>>

(* Entries of the cache expire.  The device is damaged in use; it is        *)
(* mounted and unmounted, which only the NTFS adapter looks at.             *)
Expire == \E k \in Keys : /\ cache[k] # None /\ cache' = [cache EXCEPT ![k] = None]
                          /\ UNCHANGED <<device, unmounted, callVars, history>>
Mount ==
    /\ fs = "ntfs" /\ mounted' = ~mounted
    /\ UNCHANGED <<fs, damage, label, cache, unmounted, callVars, history>>
Wear ==
    /\ \/ damage = "none" /\ damage' \in {"fixable", "lasting"}
       \/ damage = "fixable" /\ damage' = "lasting"
    /\ damages' = damages \cup {damage'}
    /\ UNCHANGED <<fs, label, mounted, cache, unmounted, callVars, labels>>

Next ==
    \/ \E p \in Callers :
         \/ \E c \in Changes \cup Questions : Begin(p, c)
         \/ Remember(p) \/ Run(p) \/ Reply(p) \/ Keep(p) \/ Conclude(p)
    \/ Expire \/ Mount \/ Wear

Quiet == \A p \in Callers : pc[p] = "idle"

Spec == Init /\ [][Next]_vars

-----------------------------------------------------------------------------
(* Properties *)

(* What a stored answer says was so at some moment since the last format,   *)
(* check or change of the label was over.  States are judged for some only. *)
SaysSo(k, a) ==
    CASE k.do = "label" -> a.code = 0 => a.label \in labels
      [] k.do = "set" -> a.code = 0 => k.label \in labels
      [] k.do = "state" ->
           fs \in Trusted => LET s == StateOf(a) IN
              /\ s.clean => "none" \in damages
              /\ s.errors => damages # {"none"}

(* An answer that is served from the cache is not from before the last      *)
(* change that somebody has been told of: the state and the label are those *)
(* of some moment since, and a label said to be set was set since.          *)
AnswersAreTrue == \A k \in Keys : cache[k] # None => SaysSo(k, cache[k])

(* What a check says of its device is how the tool has left it: what is     *)
(* fixed or was not found is not there, and what is left is.                *)
ChecksAreTrue ==
    told # None /\ "says" \in DOMAIN told /\ ~told.says.error =>
        /\ told.says.fixed \/ ~told.says.found => told.of.left = "none"
        /\ ~told.says.ok \/ (told.says.found /\ ~told.says.fixed) => told.of.left # "none"
=============================================================================
