------------------------------ MODULE Launcher ------------------------------
(***************************************************************************)
(* The threads of Scripts/central_app_launcher.py that collect from        *)
(* devices:                                                                *)
(*   - the main thread, which tails bluetoothctl's log (process_line);     *)
(*   - ble_thread_function and btc_thread_function, which walk the devices *)
(*     seen and launch the tools;                                          *)
(*   - one ApplicationThread per launched tool process.                    *)
(* The sniffers' thread is SniffleRotation.tla.                            *)
(*                                                                         *)
(* One action is one statement that touches shared state, or one critical  *)
(* section in which nothing can block.  A `with` inside a `with` is two    *)
(* actions or more: the thread holds the outer lock while it waits for the *)
(* inner one.                                                              *)
(***************************************************************************)
EXTENDS LauncherState

CONSTANTS
    Lines,          \* the log lines process_line may be given
    MaxLines,       \* bound: log lines read
    MaxFaults       \* bound: failed log writes, failed fork()s

(* A line starts at the step of process_line that handles it; the CHG lines *)
(* do not say the family, and are looked up among the BLE devices first.    *)
Line == [at: {"new", "del"}, f: Family, a: Addr, r: {NewRssi}]
          \cup [at: {"rssi"}, f: {"BLE"}, a: Addr, r: Rssi]
          \cup [at: {"apple"}, f: {"BLE"}, a: Addr, r: {NewRssi}]

ASSUME InputsAssumption ==
    /\ Lines \subseteq Line
    /\ MaxLines \in Nat
    /\ MaxFaults \in Nat

VARIABLES
    bdaddrs,        \* ble_bdaddrs, btc_bdaddrs
    deprioritized,  \* ble_/btc_deprioritized_bdaddrs
    attempts,       \* device_connect_attempts
    success,        \* gatt_/lmp2thprint_/sdp_success_bdaddrs
    lock,           \* the owner of each lock
    line,           \* the main thread: the line it is processing, and where
    th,             \* the BLE and BTC threads
    app,            \* the ApplicationThreads
    present,        \* bluetoothd's device list (not part of the launcher)
    lines, faults   \* counters behind the bounds

vars == <<bdaddrs, deprioritized, attempts, success, lock, line, th, app,
          present, lines, faults>>

shared == <<bdaddrs, deprioritized, attempts, success, lock>>

world == <<present, lines, faults>>

(* Where the threads can be: the main thread in process_line, a collector  *)
(* thread in its loop, an ApplicationThread in run.                        *)
LineAt == {"read", "new", "rssi", "apple", "apple_put", "apple_del", "del"}

ThreadAt == {"off", "snapshot", "sort", "next", "wait", "check", "skip",
             "choose", "reprio", "restore", "attempt", "success", "finished",
             "member", "lock", "popen", "reboot", "join", "dead"}

AppAt == {"free", "run", "record", "done?", "delete"}

LineState == [at: LineAt, f: Family, a: Addr \cup {NONE}, r: Rssi]

ThreadState ==
    [at: ThreadAt, keys: SUBSET Addr, todo: Dict, total: Nat, skips: Nat,
     cur: Addr \cup {NONE}, tool: Tool \cup {NONE}]

AppState == [at: AppAt, tool: Tool \cup {NONE}, a: Addr \cup {NONE}]

TypeOK ==
    /\ bdaddrs \in [Family -> Dict]
    /\ deprioritized \in [Family -> Dict]
    /\ attempts \in [Addr -> Nat]
    /\ success \in [Tool -> SUBSET Addr]
    /\ lock \in [Locks -> Threads \cup {NONE}]
    /\ line \in LineState
    /\ th \in [Family -> ThreadState]
    /\ app \in [Apps -> AppState]
    /\ present \subseteq Addr
    /\ lines \in 0..MaxLines
    /\ faults \in 0..MaxFaults

NoLine == [at |-> "read", f |-> "BLE", a |-> NONE, r |-> NewRssi]

NewThread(f) ==
    [at |-> IF f \in Enabled THEN "snapshot" ELSE "off", keys |-> {},
     todo |-> EmptyDict, total |-> 0, skips |-> 0, cur |-> NONE, tool |-> NONE]

NoApp == [at |-> "free", tool |-> NONE, a |-> NONE]

(* What the process starts from, at boot and after a reboot. *)
Boot(b, d, n, s, l, ln, t, ap) ==
    /\ b = [f \in Family |-> EmptyDict]
    /\ d = [f \in Family |-> EmptyDict]
    /\ n = [a \in Addr |-> 0]
    /\ s = [t1 \in Tool |-> {}]
    /\ l = [k \in Locks |-> NONE]
    /\ ln = NoLine
    /\ t = [f \in Family |-> NewThread(f)]
    /\ ap = [i \in Apps |-> NoApp]

Init ==
    /\ Boot(bdaddrs, deprioritized, attempts, success, lock, line, th, app)
    /\ present = {}
    /\ lines = 0
    /\ faults = 0

----------------------------------------------------------------------------
Free(l) == lock[l] = NONE

Acquire(l, p) == Free(l) /\ lock' = [lock EXCEPT ![l] = p]

Release(l) == lock' = [lock EXCEPT ![l] = NONE]

(* with lock: if key in dict: del dict[key].  The family's lock must be free. *)
locked_delete_from_dict(f, a) ==
    /\ Free(BdaddrsLock(f))
    /\ bdaddrs' = [bdaddrs EXCEPT ![f] = Remove(@, a)]

(* Every tool of a family, enabled or not, has to have succeeded. *)
all_2thprints_done(f, a) ==
    \A t \in Tool : FamilyOf(t) = f => a \in success[t]

----------------------------------------------------------------------------
(* The main thread: process_line on one log line after another. *)

DoneWithLine == line' = NoLine

(* A CHG line is looked up among the BLE devices, then among the BTC ones. *)
NextFamily(at) ==
    line' = IF line.f = "BLE"
              THEN [line EXCEPT !.at = at, !.f = "BTC"]
              ELSE NoLine

(* bluetoothctl appends a line, [NEW] for a device bluetoothd did not list, *)
(* the others for one it does, and the main thread picks it up.  The first  *)
(* thing a [NEW] line does, before any lock, is to reset the counter.       *)
ReadLine(l) ==
    /\ line.at = "read"
    /\ (l.a \in present) = (l.at # "new")
    /\ lines < MaxLines
    /\ lines' = lines + 1
    /\ line' = l
    /\ attempts' = IF l.at = "new" THEN [attempts EXCEPT ![l.a] = 0]
                                   ELSE attempts
    /\ present' = IF l.at = "new" THEN present \cup {l.a}
                  ELSE IF l.at = "del" THEN present \ {l.a} ELSE present
    /\ UNCHANGED <<bdaddrs, deprioritized, success, lock, th, app, faults>>

InsertNew ==
    /\ line.at = "new"
    /\ Free(BdaddrsLock(line.f))
    /\ bdaddrs' = [bdaddrs EXCEPT ![line.f] = Put(@, line.a, NewRssi)]
    /\ DoneWithLine
    /\ UNCHANGED <<deprioritized, attempts, success, lock, th, app, world>>

(* Seeded fault: gives back an attempt that was never made. *)
GiveAnyAttemptBack(f, a, r) ==
    IF bdaddrs[f][a] < r THEN [attempts EXCEPT ![a] = @ - 1] ELSE attempts

(* A stronger signal than the last one gives one attempt back. *)
GiveAttemptBack(f, a, r) ==
    IF bdaddrs[f][a] < r /\ attempts[a] > 1
      THEN [attempts EXCEPT ![a] = @ - 1]
      ELSE attempts

UpdateRssi ==
    /\ line.at = "rssi"
    /\ Free(BdaddrsLock(line.f))
    /\ IF line.a \in Keys(bdaddrs[line.f])
         THEN /\ attempts' = GiveAttemptBack(line.f, line.a, line.r)
              /\ bdaddrs' = [bdaddrs EXCEPT ![line.f] = Put(@, line.a, line.r)]
         ELSE UNCHANGED <<attempts, bdaddrs>>
    /\ NextFamily("rssi")
    /\ UNCHANGED <<deprioritized, success, lock, th, app, world>>

(* Manufacturer 0x004c: the device moves to the deprioritized dictionary, *)
(* under the family's lock and, for the insertion, the other lock too.    *)
AppleFound ==
    /\ line.at = "apple"
    /\ line.a \in Keys(bdaddrs[line.f])
    /\ Acquire(BdaddrsLock(line.f), "main")
    /\ line' = [line EXCEPT !.at = "apple_put"]
    /\ UNCHANGED <<bdaddrs, deprioritized, attempts, success, th, app, world>>

AppleNotFound ==
    /\ line.at = "apple"
    /\ Free(BdaddrsLock(line.f))
    /\ line.a \notin Keys(bdaddrs[line.f])
    /\ NextFamily("apple")
    /\ UNCHANGED <<shared, th, app, world>>

Deprioritize ==
    /\ line.at = "apple_put"
    /\ Free(DeprioritizedLock(line.f))
    /\ deprioritized' = [deprioritized EXCEPT
                           ![line.f] = Put(@, line.a, bdaddrs[line.f][line.a])]
    /\ line' = [line EXCEPT !.at = "apple_del"]
    /\ UNCHANGED <<bdaddrs, attempts, success, lock, th, app, world>>

DeprioritizeDelete ==
    /\ line.at = "apple_del"
    /\ bdaddrs' = [bdaddrs EXCEPT ![line.f] = Remove(@, line.a)]
    /\ Release(BdaddrsLock(line.f))
    /\ NextFamily("apple")
    /\ UNCHANGED <<deprioritized, attempts, success, th, app, world>>

DeleteDevice ==
    /\ line.at = "del"
    /\ locked_delete_from_dict(line.f, line.a)
    /\ DoneWithLine
    /\ UNCHANGED <<deprioritized, attempts, success, lock, th, app, world>>

process_line ==
    \/ \E l \in Lines : ReadLine(l)
    \/ InsertNew
    \/ UpdateRssi
    \/ AppleFound
    \/ AppleNotFound
    \/ Deprioritize
    \/ DeprioritizeDelete
    \/ DeleteDevice

----------------------------------------------------------------------------
(* ble_thread_function and btc_thread_function.  f is the family. *)

At(f, p) == th[f].at = p

Goto(f, p) == th' = [th EXCEPT ![f].at = p]

(* The uncaught exceptions: Python ends the thread and the others go on.   *)
(* A `with` it was inside of is left, so the lock it held is released.     *)
Die(f) == th' = [th EXCEPT ![f] = [NewThread(f) EXCEPT !.at = "dead"]]

(* sorted(bdaddrs.keys(), key=lambda x: bdaddrs[x][1]) copies the keys ... *)
TakeSnapshot(f) ==
    /\ At(f, "snapshot")
    /\ th' = [th EXCEPT ![f].at = "sort", ![f].keys = Keys(bdaddrs[f]),
                        ![f].todo = EmptyDict,
                        ![f].total = Cardinality(Keys(bdaddrs[f])),
                        ![f].skips = 0]
    /\ UNCHANGED <<shared, line, app, world>>

(* ... then looks every key up, with no lock held.  A key deleted since is *)
(* a KeyError.                                                             *)
EvaluateKey(f, a) ==
    /\ At(f, "sort")
    /\ a \in th[f].keys
    /\ IF a \in Keys(bdaddrs[f])
         THEN th' = [th EXCEPT ![f].keys = @ \ {a},
                               ![f].todo = Put(@, a, bdaddrs[f][a])]
         ELSE Die(f)
    /\ UNCHANGED <<shared, line, app, world>>

SortDone(f) ==
    /\ At(f, "sort")
    /\ th[f].keys = {}
    /\ Goto(f, "next")
    /\ UNCHANGED <<shared, line, app, world>>

(* The strongest signal first; equals in any order. *)
NextDevice(f, a) ==
    /\ At(f, "next")
    /\ a \in Keys(th[f].todo)
    /\ \A b \in Keys(th[f].todo) : th[f].todo[a] >= th[f].todo[b]
    /\ th' = [th EXCEPT ![f].at = "check", ![f].cur = a,
                        ![f].todo = Remove(@, a)]
    /\ UNCHANGED <<shared, line, app, world>>

ListDone(f) ==
    /\ At(f, "next")
    /\ Keys(th[f].todo) = {}
    /\ th' = [th EXCEPT ![f].at = "wait", ![f].cur = NONE]
    /\ UNCHANGED <<shared, line, app, world>>

(* while(len(bdaddrs) == 0): pass *)
BusyWaitOver(f) ==
    /\ At(f, "wait")
    /\ Keys(bdaddrs[f]) # {}
    /\ Goto(f, "snapshot")
    /\ UNCHANGED <<shared, line, app, world>>

(* Seeded fault: > for >=. *)
ExhaustedLate(a) == a \in SkipAddrs \/ attempts[a] > MaxAttempts

Exhausted(a) == a \in SkipAddrs \/ attempts[a] >= MaxAttempts

CheckAttempts(f) ==
    /\ At(f, "check")
    /\ th' = IF Exhausted(th[f].cur)
               THEN [th EXCEPT ![f].at = "skip", ![f].skips = @ + 1]
               ELSE [th EXCEPT ![f].at = "attempt"]
    /\ UNCHANGED <<shared, line, app, world>>

(* Seeded fault: a skipped device stays in the dictionary. *)
SkipWithoutDelete(f) ==
    /\ At(f, "skip")
    /\ Goto(f, "choose")
    /\ UNCHANGED <<shared, line, app, world>>

SkipDevice(f) ==
    /\ At(f, "skip")
    /\ locked_delete_from_dict(f, th[f].cur)
    /\ Goto(f, "choose")
    /\ UNCHANGED <<deprioritized, attempts, success, lock, line, app, world>>

(* When the whole list was skipped one deprioritized device gets its turn. *)
ChooseDeprioritized(f) ==
    /\ At(f, "choose")
    /\ IF th[f].skips = th[f].total /\ Keys(deprioritized[f]) # {}
         THEN \E a \in Keys(deprioritized[f]) :
                th' = [th EXCEPT ![f].at = "reprio", ![f].cur = a]
         ELSE Goto(f, "next")
    /\ UNCHANGED <<shared, line, app, world>>

ReprioritizeEnter(f) ==
    /\ At(f, "reprio")
    /\ Acquire(ReprioritizeLock(f), f)
    /\ Goto(f, "restore")
    /\ UNCHANGED <<bdaddrs, deprioritized, attempts, success, line, app, world>>

(* Seeded fault: the device goes to ble_bdaddrs, whatever its family. *)
RestoreToBle(f) ==
    /\ At(f, "restore")
    /\ Free(DeprioritizedLock(f))
    /\ IF th[f].cur \in Keys(deprioritized[f])
         THEN /\ bdaddrs' = [bdaddrs EXCEPT
                   !["BLE"] = Put(@, th[f].cur, deprioritized[f][th[f].cur])]
              /\ deprioritized' = [deprioritized EXCEPT
                   ![f] = Remove(@, th[f].cur)]
         ELSE UNCHANGED <<bdaddrs, deprioritized>>
    /\ Release(ReprioritizeLock(f))
    /\ Goto(f, "next")
    /\ UNCHANGED <<attempts, success, line, app, world>>

reprioritize_bdaddr(f) ==
    /\ At(f, "restore")
    /\ Free(DeprioritizedLock(f))
    /\ IF th[f].cur \in Keys(deprioritized[f])
         THEN /\ bdaddrs' = [bdaddrs EXCEPT
                   ![f] = Put(@, th[f].cur, deprioritized[f][th[f].cur])]
              /\ deprioritized' = [deprioritized EXCEPT
                   ![f] = Remove(@, th[f].cur)]
         ELSE UNCHANGED <<bdaddrs, deprioritized>>
    /\ Release(ReprioritizeLock(f))
    /\ Goto(f, "next")
    /\ UNCHANGED <<attempts, success, line, app, world>>

(* The tool stages, in the order the code has them. *)
FirstTool(f) ==
    IF f = "BLE" THEN IF "GATT" \in ToolsOn THEN "GATT" ELSE NONE
    ELSE IF "LMP2thprint" \in ToolsOn THEN "LMP2thprint"
    ELSE IF "SDP" \in ToolsOn THEN "SDP" ELSE NONE

ToolAfter(t) == IF t = "LMP2thprint" /\ "SDP" \in ToolsOn THEN "SDP" ELSE NONE

Stage(f, t) ==
    th' = [th EXCEPT ![f].tool = t, ![f].at = IF t = NONE THEN "join"
                                                          ELSE "success"]

CountAttempt(f) ==
    /\ At(f, "attempt")
    /\ attempts' = [attempts EXCEPT ![th[f].cur] = @ + 1]
    /\ Stage(f, FirstTool(f))
    /\ UNCHANGED <<bdaddrs, deprioritized, success, lock, line, app, world>>

(* Seeded fault: the success dictionary is not consulted. *)
CollectAgain(f) ==
    /\ At(f, "success")
    /\ Free(SuccessLock(th[f].tool))
    /\ Goto(f, "member")
    /\ UNCHANGED <<shared, line, app, world>>

NotYetCollected(f) ==
    /\ At(f, "success")
    /\ Free(SuccessLock(th[f].tool))
    /\ th[f].cur \notin success[th[f].tool]
    /\ Goto(f, "member")
    /\ UNCHANGED <<shared, line, app, world>>

(* Already collected.  The device is also removed when nothing is left to  *)
(* collect from it; the success lock is held meanwhile.                    *)
AlreadyCollected(f) ==
    /\ At(f, "success")
    /\ th[f].cur \in success[th[f].tool]
    /\ IF all_2thprints_done(f, th[f].cur)
         THEN Acquire(SuccessLock(th[f].tool), f) /\ Goto(f, "finished")
         ELSE /\ Free(SuccessLock(th[f].tool))
              /\ Stage(f, ToolAfter(th[f].tool))
              /\ UNCHANGED lock
    /\ UNCHANGED <<bdaddrs, deprioritized, attempts, success, line, app, world>>

(* The BLE thread then goes straight to the next device (`continue`). *)
RemoveFinished(f) ==
    /\ At(f, "finished")
    /\ locked_delete_from_dict(f, th[f].cur)
    /\ Release(SuccessLock(th[f].tool))
    /\ IF f = "BLE" THEN Goto(f, "next") ELSE Stage(f, ToolAfter(th[f].tool))
    /\ UNCHANGED <<deprioritized, attempts, success, line, app, world>>

(* Still in the dictionary?  First asked without the lock. *)
CheckStillKnown(f) ==
    /\ At(f, "member")
    /\ IF th[f].cur \in Keys(bdaddrs[f])
         THEN Goto(f, IF f = "BLE" THEN "lock" ELSE "popen")
         ELSE Stage(f, ToolAfter(th[f].tool))
    /\ UNCHANGED <<shared, line, app, world>>

(* The BLE thread asks again with ble_bdaddrs_lock held, and keeps it while *)
(* it launches the getter.                                                  *)
RecheckStillKnown(f) ==
    /\ At(f, "lock")
    /\ IF th[f].cur \in Keys(bdaddrs[f])
         THEN Acquire(BdaddrsLock(f), f) /\ Goto(f, "popen")
         ELSE /\ Free(BdaddrsLock(f))
              /\ Stage(f, ToolAfter(th[f].tool))
              /\ UNCHANGED lock
    /\ UNCHANGED <<bdaddrs, deprioritized, attempts, success, line, app, world>>

LeaveLaunch(f) == IF f = "BLE" THEN Release(BdaddrsLock(f)) ELSE UNCHANGED lock

(* launch_application and ApplicationThread.start() *)
LaunchTool(f, i) ==
    /\ At(f, "popen")
    /\ app[i].at = "free"
    /\ app' = [app EXCEPT ![i] = [at |-> "run", tool |-> th[f].tool,
                                  a |-> th[f].cur]]
    /\ LeaveLaunch(f)
    /\ Stage(f, ToolAfter(th[f].tool))
    /\ UNCHANGED <<bdaddrs, deprioritized, attempts, success, line, world>>

Fault == faults < MaxFaults /\ faults' = faults + 1

(* external_log_write fails: quit() ends this thread only. *)
LogWriteFails(f) ==
    /\ At(f, "popen")
    /\ Fault
    /\ LeaveLaunch(f)
    /\ Die(f)
    /\ UNCHANGED <<bdaddrs, deprioritized, attempts, success, line, app, present, lines>>

(* Popen raises: force_reboot, with the lock still held. *)
LaunchFails(f) ==
    /\ At(f, "popen")
    /\ Fault
    /\ Goto(f, "reboot")
    /\ UNCHANGED <<shared, line, app, present, lines>>

(* `sudo reboot` takes effect: everything in memory is gone. *)
Reboot(f) ==
    /\ At(f, "reboot")
    /\ Boot(bdaddrs', deprioritized', attempts', success', lock', line', th', app')
    /\ present' = {}
    /\ UNCHANGED <<lines, faults>>

(* It does not: launch_application returns None and the thread goes on. *)
RebootFails(f) ==
    /\ At(f, "reboot")
    /\ LeaveLaunch(f)
    /\ Stage(f, ToolAfter(th[f].tool))
    /\ UNCHANGED <<bdaddrs, deprioritized, attempts, success, line, app, world>>

(* The ApplicationThreads f started that have not finished. *)
Live(f) == {i \in Apps : app[i].at # "free" /\ FamilyOf(app[i].tool) = f}

JoinThreads(f) ==
    /\ At(f, "join")
    /\ Live(f) = {}
    /\ Goto(f, "next")
    /\ UNCHANGED <<shared, line, app, world>>

collector_thread(f) ==
    \/ TakeSnapshot(f)
    \/ \E a \in Addr : EvaluateKey(f, a) \/ NextDevice(f, a)
    \/ SortDone(f)
    \/ ListDone(f)
    \/ BusyWaitOver(f)
    \/ CheckAttempts(f)
    \/ SkipDevice(f)
    \/ ChooseDeprioritized(f)
    \/ ReprioritizeEnter(f)
    \/ reprioritize_bdaddr(f)
    \/ CountAttempt(f)
    \/ NotYetCollected(f)
    \/ AlreadyCollected(f)
    \/ RemoveFinished(f)
    \/ CheckStillKnown(f)
    \/ RecheckStillKnown(f)
    \/ \E i \in Apps : LaunchTool(f, i)
    \/ LogWriteFails(f)
    \/ LaunchFails(f)
    \/ Reboot(f)
    \/ RebootFails(f)
    \/ JoinThreads(f)

----------------------------------------------------------------------------
(* ApplicationThread.run *)

AppGoto(i, p) == app' = [app EXCEPT ![i].at = p]

AppEnds(i) == app' = [app EXCEPT ![i] = NoApp]

(* The tool exits with code 0. *)
ToolSucceeds(i) ==
    /\ app[i].at = "run"
    /\ AppGoto(i, "record")
    /\ UNCHANGED <<shared, line, th, world>>

(* It exits with another code, which is only logged. *)
ToolFails(i) ==
    /\ app[i].at = "run"
    /\ AppEnds(i)
    /\ UNCHANGED <<shared, line, th, world>>

(* It does not exit in time: kill(), wait(), log. *)
ToolTimesOut(i) ==
    /\ app[i].at = "run"
    /\ AppEnds(i)
    /\ UNCHANGED <<shared, line, th, world>>

(* The success could not be logged: quit() ends the thread here. *)
SuccessLogFails(i) ==
    /\ app[i].at = "record"
    /\ Fault
    /\ AppEnds(i)
    /\ UNCHANGED <<shared, line, th, present, lines>>

RecordSuccess(i) ==
    /\ app[i].at = "record"
    /\ Acquire(SuccessLock(app[i].tool), i)
    /\ success' = [success EXCEPT ![app[i].tool] = @ \cup {app[i].a}]
    /\ AppGoto(i, "done?")
    /\ UNCHANGED <<bdaddrs, deprioritized, attempts, line, th, world>>

(* all_2thprints_done reads the other tool's dictionary without its lock. *)
CheckAllDone(i) ==
    /\ app[i].at = "done?"
    /\ IF all_2thprints_done(FamilyOf(app[i].tool), app[i].a)
         THEN AppGoto(i, "delete") /\ UNCHANGED lock
         ELSE AppEnds(i) /\ Release(SuccessLock(app[i].tool))
    /\ UNCHANGED <<bdaddrs, deprioritized, attempts, success, line, th, world>>

RemoveCollected(i) ==
    /\ app[i].at = "delete"
    /\ locked_delete_from_dict(FamilyOf(app[i].tool), app[i].a)
    /\ Release(SuccessLock(app[i].tool))
    /\ AppEnds(i)
    /\ UNCHANGED <<deprioritized, attempts, success, line, th, world>>

ApplicationThread_run(i) ==
    \/ ToolSucceeds(i)
    \/ ToolFails(i)
    \/ ToolTimesOut(i)
    \/ SuccessLogFails(i)
    \/ RecordSuccess(i)
    \/ CheckAllDone(i)
    \/ RemoveCollected(i)

----------------------------------------------------------------------------
(* The log is at its end and the threads spin on empty dictionaries, or are *)
(* gone: inotify.read() and the busy waits change nothing.                  *)
Quiescent ==
    /\ line.at = "read"
    /\ lines = MaxLines
    /\ \A f \in Family : th[f].at \in {"off", "wait", "dead"}
    /\ \A i \in Apps : app[i].at = "free"
    /\ UNCHANGED vars

Next ==
    \/ process_line
    \/ \E f \in Enabled : collector_thread(f)
    \/ \E i \in Apps : ApplicationThread_run(i)
    \/ Quiescent

Spec == Init /\ [][Next]_vars

(* Every thread keeps running (the GIL is handed round and a lock that is   *)
(* let go is taken), and process.wait(timeout) returns.  Nothing says that  *)
(* bluetoothctl writes another line or that a tool exits by itself.         *)
Fairness ==
    /\ WF_vars(process_line /\ line.at # "read")
    /\ \A f \in Enabled : WF_vars(collector_thread(f))
    /\ \A i \in Apps : /\ WF_vars(ToolTimesOut(i))
                       /\ WF_vars(ApplicationThread_run(i) /\ app[i].at # "run")

FairSpec == Spec /\ Fairness

----------------------------------------------------------------------------
(* Locks and who waits for them. *)

(* The lock a thread is about to take: at most one. *)
MainWants ==
    IF line.at \in {"new", "rssi", "apple", "del"} THEN {BdaddrsLock(line.f)}
    ELSE IF line.at = "apple_put" THEN {DeprioritizedLock(line.f)} ELSE {}

CollectorWants(f) ==
    IF th[f].at \in {"skip", "finished", "lock"} THEN {BdaddrsLock(f)}
    ELSE IF th[f].at = "reprio" THEN {ReprioritizeLock(f)}
    ELSE IF th[f].at = "restore" THEN {DeprioritizedLock(f)}
    ELSE IF th[f].at = "success" THEN {SuccessLock(th[f].tool)} ELSE {}

AppWants(i) ==
    IF app[i].at = "record" THEN {SuccessLock(app[i].tool)}
    ELSE IF app[i].at = "delete" THEN {BdaddrsLock(FamilyOf(app[i].tool))}
    ELSE {}

Wants(p) ==
    IF p = "main" THEN MainWants
    ELSE IF p \in Family THEN CollectorWants(p) ELSE AppWants(p)

BlockedIn(p, P) == \E l \in Wants(p) : lock[l] \in P

(* Deadlock freedom of the seven locks: in every group of threads there is *)
(* one that does not wait for a lock another member of the group holds.    *)
(* The nested `with` statements of ApplicationThread.run, of process_line, *)
(* of the collector threads and of reprioritize_*_bdaddr take the locks in *)
(* compatible orders, the wrong lock of reprioritize_btc_bdaddr included.  *)
NoDeadlock ==
    \A P \in SUBSET Threads : P # {} => \E p \in P : ~BlockedIn(p, P)

----------------------------------------------------------------------------
(* Properties. *)

(* Line 464 compares the counter and line 483 increments it, in two threads *)
(* that share the counter and take no lock: it can pass max_connect_attempts *)
(* by the number of threads that are between the two, and by no more.        *)
AttemptsBounded ==
    \A a \in Addr :
      attempts[a] + Cardinality({f \in Enabled : At(f, "attempt") /\ th[f].cur = a})
        <= MaxAttempts + Cardinality(Enabled) - 1

Tracked(f) == Keys(bdaddrs[f]) \cup Keys(deprioritized[f])

(* Why a device may be forgotten: a [DEL] line, too many attempts, nothing *)
(* left to collect, or a reboot.                                           *)
MayForget(f, a) ==
    \/ line.at = "del" /\ line.a = a
    \/ th[f].at \in {"skip", "finished"} /\ th[f].cur = a
    \/ \E i \in Apps : app[i].at = "delete" /\ app[i].a = a
    \/ \E g \in Family : th[g].at = "reboot"

KeepsDevices(f) ==
    \A a \in Tracked(f) : a \in Tracked(f)' \/ MayForget(f, a)

(* Moving a BLE device to the deprioritized dictionary (process_line) and   *)
(* back (reprioritize_ble_bdaddr), in any interleaving, never loses it.     *)
NoBleDeviceLost == [][KeepsDevices("BLE")]_vars

(* The same of BTC devices, for which reprioritize_btc_bdaddr takes the      *)
(* wrong lock (line 435), but in one place: between line 389, which lists a  *)
(* device as deprioritized, and line 390, which deletes it from btc_bdaddrs, *)
(* it may have been put back there.                                          *)
BtcDeviceLostOnlyHere ==
    [][\A a \in Tracked("BTC") :
          \/ a \in Tracked("BTC")' \/ MayForget("BTC", a)
          \/ line.at = "apple_del" /\ line.f = "BTC" /\ line.a = a
               /\ a \notin Keys(deprioritized["BTC"])]_vars

(* One process per tool at a time, none for a device already collected, a   *)
(* success is never forgotten: the launcher implements ToolSchedule.        *)
RunningJobs ==
    [t \in Tool |-> {<<i, app[i].a>> : i \in {j \in Apps :
        app[j].tool = t /\ app[j].at \in {"run", "record"}}}]

Schedule == INSTANCE ToolSchedule WITH Job <- Apps, running <- RunningJobs,
                                       done <- success

ImplementsToolSchedule == Schedule!Spec

Dead(f) == th[f].at = "dead"

(* No device stays in ble_bdaddrs for ever: it is collected, or attempted   *)
(* until it is skipped, unless the BLE thread died of an exception.         *)
BleDevicesDrain ==
    \A a \in Addr : a \in Keys(bdaddrs["BLE"])
                      ~> (a \notin Keys(bdaddrs["BLE"]) \/ Dead("BLE"))

----------------------------------------------------------------------------
(* What the comments of the code say, and the code does not do. *)

(* Line 52: the counter "can be reset by a device appearing in a [DEL]      *)
(* statement and then a [NEW] statement": so a device is only dropped for   *)
(* too many attempts (lines 472, 582) if its counter says so at that moment. *)
DroppedOnlyIfExhausted ==
    \A f \in Family : (At(f, "skip") /\ th[f].cur \in Keys(bdaddrs[f]))
                        => Exhausted(th[f].cur)

(* Line 406: "Decided NOT to delete from the deprioritized bdaddrs": moving *)
(* a BTC device to btc_deprioritized_bdaddrs (line 388) and back (line 441) *)
(* never loses it.                                                          *)
NoBtcDeviceLost == [][KeepsDevices("BTC")]_vars

(* Line 498: "We have to check whether bdaddr is still in ble_bdaddrs       *)
(* because it could have been deleted via finding a [DEL] in the            *)
(* bluetoothctl log": a [DEL] line never ends the BLE thread.               *)
BleThreadSurvives == Dead("BLE") => faults > 0

(* Lines 397-399: keeping a deprioritized device listed after its [DEL]     *)
(* prevents "wasting resources on re-scans due to not immediately knowing   *)
(* their deprioritized devices": so no getter is launched (line 519) for a  *)
(* device that is on the deprioritized list.                                *)
NoScanOfDeprioritized ==
    At("BLE", "popen") => th["BLE"].cur \notin Keys(deprioritized["BLE"])
============================================================================
