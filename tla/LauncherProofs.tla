--------------------------- MODULE LauncherProofs ---------------------------
(***************************************************************************)
(* Proofs about Launcher, for any number of devices, ApplicationThreads,   *)
(* attempts, log lines and faults: the locks, the lists, and that Launcher *)
(* implements ToolSchedule.                                                *)
(***************************************************************************)
EXTENDS Launcher, FiniteSetTheorems, TLAPS

----------------------------------------------------------------------------
(* Dictionaries. *)

(* A dictionary's values are signal strengths. *)
LEMMA DictLookup ==
    ASSUME NEW d \in Dict, NEW a \in Keys(d)
    PROVE  d[a] \in Rssi /\ a \in Addr
  BY DEF Dict, Keys

(* Inserting keeps a dictionary a dictionary. *)
LEMMA DictPut ==
    ASSUME NEW d \in Dict, NEW a \in Addr, NEW r \in Rssi
    PROVE  Put(d, a, r) \in Dict /\ Keys(Put(d, a, r)) = Keys(d) \cup {a}
<1>1. PICK S \in SUBSET Addr : d \in [S -> Rssi]
  BY DEF Dict
<1>2. Put(d, a, r) \in [S \cup {a} -> Rssi]
  BY <1>1 DEF Put
<1>3. QED
  BY <1>1, <1>2 DEF Dict, Put, Keys

(* So does deleting. *)
LEMMA DictRemove ==
    ASSUME NEW d \in Dict, NEW a
    PROVE  Remove(d, a) \in Dict /\ Keys(Remove(d, a)) = Keys(d) \ {a}
<1>1. PICK S \in SUBSET Addr : d \in [S -> Rssi]
  BY DEF Dict
<1>2. Remove(d, a) \in [S \ {a} -> Rssi]
  BY <1>1 DEF Remove
<1>3. QED
  BY <1>1, <1>2 DEF Dict, Remove, Keys

(* The empty dictionary is one. *)
LEMMA DictEmpty == EmptyDict \in Dict /\ Keys(EmptyDict) = {}
<1>1. EmptyDict \in [{} -> Rssi]
  BY DEF EmptyDict
<1>2. QED
  BY <1>1 DEF Dict, Keys, EmptyDict

(* There are finitely many keys, so a list of them has a length. *)
LEMMA DictSize ==
    ASSUME NEW d \in Dict
    PROVE  Cardinality(Keys(d)) \in Nat /\ Keys(d) \subseteq Addr
<1>1. Keys(d) \subseteq Addr
  BY DEF Dict, Keys
<1>2. QED
  BY <1>1, FS_Subset, FS_CardinalityType, LauncherAssumption

----------------------------------------------------------------------------
(* The inductive invariant: which registers are set where (type             *)
(* correctness needs it), which locks a thread holds where, and what the    *)
(* main thread may rely on while it moves a device under the family's lock. *)

Busy == {"check", "skip", "choose", "reprio", "restore", "attempt", "success",
         "finished", "member", "lock", "popen", "reboot", "join"}

InStage == {"success", "finished", "member", "lock", "popen", "reboot"}

LineInv == line.at # "read" => line.a \in Addr

ThreadSet(f, r) ==
    /\ r.at \in Busy => r.cur \in Addr
    /\ r.at \in InStage => r.tool \in Tool /\ FamilyOf(r.tool) = f
    /\ r.at = "lock" => f = "BLE"

ThreadInv == \A f \in Family : ThreadSet(f, th[f])

AppSet(r) == r.at # "free" => r.tool \in Tool /\ r.a \in Addr

AppInv == \A i \in Apps : AppSet(app[i])

ControlInv == TypeOK /\ LineInv /\ ThreadInv /\ AppInv

(* The lock a thread has taken: at most one. *)
MainHolds(l) == line.at \in {"apple_put", "apple_del"} /\ l = BdaddrsLock(line.f)

CollectorHolds(f, l) ==
    \/ th[f].at = "restore" /\ l = ReprioritizeLock(f)
    \/ th[f].at = "finished" /\ l = SuccessLock(th[f].tool)
    \/ th[f].at \in {"popen", "reboot"} /\ f = "BLE" /\ l = BdaddrsLock(f)

AppHolds(i, l) == app[i].at \in {"done?", "delete"} /\ l = SuccessLock(app[i].tool)

Holds(p, l) ==
    IF p = "main" THEN MainHolds(l)
    ELSE IF p \in Family THEN CollectorHolds(p, l) ELSE AppHolds(p, l)

LockInv == \A l \in Locks, p \in Threads : lock[l] = p <=> Holds(p, l)

MoveInv ==
    /\ line.at \in {"apple_put", "apple_del"} => line.a \in Keys(bdaddrs[line.f])
    /\ line.at = "apple_del" /\ line.f = "BLE"
         => line.a \in Keys(deprioritized["BLE"])

IInv == ControlInv /\ LockInv /\ MoveInv

(* What Boot sets is well formed, at the start and after a reboot. *)
LEMMA BootTypes ==
    ASSUME NEW b, NEW d, NEW n, NEW s, NEW l, NEW ln, NEW t, NEW ap,
           Boot(b, d, n, s, l, ln, t, ap)
    PROVE  /\ b \in [Family -> Dict]
           /\ d \in [Family -> Dict]
           /\ n \in [Addr -> Nat]
           /\ s \in [Tool -> SUBSET Addr]
           /\ l \in [Locks -> Threads \cup {NONE}]
           /\ ln \in LineState
           /\ t \in [Family -> ThreadState]
           /\ ap \in [Apps -> AppState]
           /\ ln.at = "read"
           /\ \A f \in Family : t[f].at \in {"off", "snapshot"}
           /\ \A i \in Apps : ap[i].at = "free"
           /\ \A k \in Locks : l[k] = NONE
<1> USE LauncherAssumption, DictEmpty DEF Boot
<1>1. ln \in LineState /\ ln.at = "read"
  BY DEF NoLine, LineState, LineAt, Family
<1>2. /\ t \in [Family -> ThreadState]
      /\ \A f \in Family : t[f].at \in {"off", "snapshot"}
  BY DEF NewThread, ThreadState, ThreadAt
<1>3. /\ ap \in [Apps -> AppState]
      /\ \A i \in Apps : ap[i].at = "free"
  BY DEF NoApp, AppState, AppAt
<1>4. QED
  BY <1>1, <1>2, <1>3

(* Every state the launcher starts in satisfies the invariant. *)
LEMMA InitIInv == Init => IInv
<1> SUFFICES ASSUME Init PROVE IInv
  OBVIOUS
<1>1. Boot(bdaddrs, deprioritized, attempts, success, lock, line, th, app)
  BY DEF Init
<1>2. ControlInv
  BY <1>1, BootTypes, InputsAssumption
     DEF Init, ControlInv, TypeOK, LineInv, ThreadInv, AppInv, ThreadSet, AppSet, Busy, InStage
<1>3. LockInv
  BY <1>1, BootTypes, LauncherAssumption
     DEF LockInv, Holds, MainHolds, CollectorHolds, AppHolds, Threads, Family
<1>4. MoveInv
  BY <1>1, BootTypes DEF MoveInv
<1>5. QED
  BY <1>2, <1>3, <1>4 DEF IInv

(* And every state it reboots into. *)
LEMMA RebootIInv == ASSUME NEW f \in Family, TypeOK, Reboot(f) PROVE IInv'
<1>1. /\ Boot(bdaddrs', deprioritized', attempts', success', lock', line', th', app')
      /\ present' = {} /\ lines' = lines /\ faults' = faults
  BY DEF Reboot
<1>2. ControlInv'
  BY <1>1, BootTypes DEF ControlInv, TypeOK, LineInv, ThreadInv, AppInv, ThreadSet, AppSet, Busy, InStage
<1>3. LockInv'
  BY <1>1, BootTypes, LauncherAssumption
     DEF LockInv, Holds, MainHolds, CollectorHolds, AppHolds, Threads, Family
<1>4. MoveInv'
  BY <1>1, BootTypes DEF MoveInv
<1>5. QED
  BY <1>2, <1>3, <1>4 DEF IInv

(* The steps of the main thread. *)
LEMMA MainControl == IInv /\ process_line => ControlInv'
<1> SUFFICES ASSUME ControlInv, MoveInv, process_line PROVE ControlInv'
  BY DEF IInv
<1> USE LauncherAssumption, InputsAssumption
        DEF ControlInv, TypeOK, LineInv, ThreadInv, AppInv
<1>1. ASSUME NEW l \in Lines, ReadLine(l) PROVE ControlInv'
  <2>1. l \in Line
    OBVIOUS
  <2>2. /\ l \in LineState
        /\ l.a \in Addr
    BY <2>1 DEF Line, LineState, LineAt, Family
  <2>3. attempts' \in [Addr -> Nat]
    BY <1>1 DEF ReadLine
  <2>4. present' \subseteq Addr /\ lines' \in 0..MaxLines
    BY <1>1, <2>2 DEF ReadLine
  <2>5. QED
    BY <1>1, <2>2, <2>3, <2>4 DEF ReadLine
<1>2. CASE InsertNew
  BY <1>2, DictPut DEF InsertNew, DoneWithLine, NoLine, LineState, LineAt, Family, world
<1>3. CASE UpdateRssi
  <2>0. line.a \in Addr /\ line.f \in Family /\ line.r \in Rssi
    BY <1>3 DEF UpdateRssi, LineState
  <2>1. attempts' \in [Addr -> Nat]
    <3>1. GiveAttemptBack(line.f, line.a, line.r) \in [Addr -> Nat]
      BY <2>0 DEF GiveAttemptBack
    <3>2. QED
      BY <1>3, <3>1 DEF UpdateRssi
  <2>2. bdaddrs' \in [Family -> Dict]
    <3>1. Put(bdaddrs[line.f], line.a, line.r) \in Dict
      BY <2>0, DictPut
    <3>2. \/ bdaddrs' = [bdaddrs EXCEPT ![line.f] = Put(bdaddrs[line.f], line.a, line.r)]
          \/ bdaddrs' = bdaddrs
      BY <1>3 DEF UpdateRssi
    <3>3. QED
      BY <3>1, <3>2
  <2>3. /\ line' \in LineState
        /\ LineInv'
    BY <1>3 DEF UpdateRssi, NextFamily, NoLine, LineState, LineAt, Family
  <2>4. QED
    BY <1>3, <2>1, <2>2, <2>3 DEF UpdateRssi, world
<1>4. CASE AppleFound
  BY <1>4 DEF AppleFound, Acquire, LineState, LineAt, world, Threads
<1>5. CASE AppleNotFound
  BY <1>5 DEF AppleNotFound, NextFamily, NoLine, LineState, LineAt, Family, shared, world
<1>6. CASE Deprioritize
  <2>1. line.a \in Addr /\ bdaddrs[line.f][line.a] \in Rssi
    BY <1>6, DictLookup DEF Deprioritize, MoveInv, LineState
  <2>2. deprioritized' \in [Family -> Dict]
    BY <1>6, <2>1, DictPut DEF Deprioritize
  <2>3. QED
    BY <1>6, <2>2 DEF Deprioritize, LineState, LineAt, world
<1>7. CASE DeprioritizeDelete
  BY <1>7, DictRemove DEF DeprioritizeDelete, Release, NextFamily, NoLine, LineState, LineAt, Family, world
<1>8. CASE DeleteDevice
  BY <1>8, DictRemove DEF DeleteDevice, locked_delete_from_dict, DoneWithLine,
                          NoLine, LineState, LineAt, Family, world
<1>9. QED
  BY <1>1, <1>2, <1>3, <1>4, <1>5, <1>6, <1>7, <1>8 DEF process_line

(* Replacing one thread's registers. *)
LEMMA ThreadUpdate ==
    ASSUME NEW f \in Family, NEW r \in ThreadState, ThreadSet(f, r),
           th \in [Family -> ThreadState], ThreadInv, th' = [th EXCEPT ![f] = r]
    PROVE  th' \in [Family -> ThreadState] /\ ThreadInv'
  BY DEF ThreadInv

LEMMA GotoUpdate ==
    ASSUME NEW f \in Family, NEW p \in ThreadAt, Goto(f, p),
           th \in [Family -> ThreadState], ThreadInv,
           p \in Busy => th[f].cur \in Addr,
           p \in InStage => th[f].tool \in Tool /\ FamilyOf(th[f].tool) = f,
           p = "lock" => f = "BLE"
    PROVE  th' \in [Family -> ThreadState] /\ ThreadInv'
<1> DEFINE r == [th[f] EXCEPT !.at = p]
<1>1. r \in ThreadState /\ ThreadSet(f, r)
  BY DEF ThreadState, ThreadSet
<1>2. th' = [th EXCEPT ![f] = r]
  BY DEF Goto
<1>3. QED
  BY <1>1, <1>2, ThreadUpdate

(* The next tool of a family is one of its tools. *)
LEMMA NextTool ==
    ASSUME NEW f \in Family
    PROVE  /\ FirstTool(f) = NONE \/ (FirstTool(f) \in Tool /\ FamilyOf(FirstTool(f)) = f)
           /\ \A t \in Tool : FamilyOf(t) = f =>
                ToolAfter(t) = NONE \/ (ToolAfter(t) \in Tool /\ FamilyOf(ToolAfter(t)) = f)
  BY DEF FirstTool, ToolAfter, Family, Tool, FamilyOf

LEMMA StageUpdate ==
    ASSUME NEW f \in Family, NEW t, Stage(f, t),
           t = NONE \/ (t \in Tool /\ FamilyOf(t) = f),
           th \in [Family -> ThreadState], ThreadInv, th[f].cur \in Addr
    PROVE  th' \in [Family -> ThreadState] /\ ThreadInv'
<1> DEFINE p == IF t = NONE THEN "join" ELSE "success"
           r == [th[f] EXCEPT !.tool = t, !.at = p]
<1>1. r \in ThreadState /\ ThreadSet(f, r)
  BY DEF ThreadState, ThreadSet, ThreadAt, InStage
<1>2. th' = [th EXCEPT ![f] = r]
  BY DEF Stage
<1>3. QED
  BY <1>1, <1>2, ThreadUpdate

(* An uncaught exception clears the registers. *)
LEMMA DieUpdate ==
    ASSUME NEW f \in Family, Die(f), th \in [Family -> ThreadState], ThreadInv
    PROVE  th' \in [Family -> ThreadState] /\ ThreadInv'
<1> DEFINE r == [NewThread(f) EXCEPT !.at = "dead"]
<1>1. r \in ThreadState /\ ThreadSet(f, r)
  BY DictEmpty DEF ThreadState, ThreadSet, ThreadAt, InStage, Busy, NewThread
<1>2. th' = [th EXCEPT ![f] = r]
  BY DEF Die
<1>3. QED
  BY <1>1, <1>2, ThreadUpdate

(* Replacing one ApplicationThread's registers. *)
LEMMA AppUpdate ==
    ASSUME NEW i \in Apps, NEW r \in AppState, AppSet(r),
           app \in [Apps -> AppState], AppInv, app' = [app EXCEPT ![i] = r]
    PROVE  app' \in [Apps -> AppState] /\ AppInv'
  BY DEF AppInv

LEMMA AppGotoUpdate ==
    ASSUME NEW i \in Apps, NEW p \in AppAt, AppGoto(i, p),
           app \in [Apps -> AppState], AppInv, app[i].at # "free"
    PROVE  app' \in [Apps -> AppState] /\ AppInv'
<1> DEFINE r == [app[i] EXCEPT !.at = p]
<1>1. r \in AppState /\ AppSet(r)
  BY DEF AppState, AppSet, AppInv
<1>2. app' = [app EXCEPT ![i] = r]
  BY DEF AppGoto
<1>3. QED
  BY <1>1, <1>2, AppUpdate

LEMMA AppEndsUpdate ==
    ASSUME NEW i \in Apps, AppEnds(i), app \in [Apps -> AppState], AppInv
    PROVE  app' \in [Apps -> AppState] /\ AppInv'
<1>1. NoApp \in AppState /\ AppSet(NoApp)
  BY DEF AppState, AppSet, AppAt, NoApp
<1>2. QED
  BY <1>1, AppUpdate DEF AppEnds

(* Taking and leaving a lock. *)
LEMMA LockUpdate ==
    ASSUME NEW l, NEW p \in Threads, lock \in [Locks -> Threads \cup {NONE}],
           Acquire(l, p) \/ Release(l)
    PROVE  lock' \in [Locks -> Threads \cup {NONE}]
  BY DEF Acquire, Release

(* Deleting from a dictionary. *)
LEMMA DeleteUpdate ==
    ASSUME NEW f \in Family, NEW a, locked_delete_from_dict(f, a),
           bdaddrs \in [Family -> Dict]
    PROVE  bdaddrs' \in [Family -> Dict]
  BY DictRemove DEF locked_delete_from_dict

(* The steps of a collector thread, one action at a time. *)
LEMMA CollectorControl ==
    ASSUME NEW f \in Family, ControlInv, collector_thread(f) PROVE ControlInv'
<1>t. /\ th \in [Family -> ThreadState] /\ ThreadInv /\ th[f] \in ThreadState
      /\ th[f].at \in ThreadAt /\ th[f].keys \subseteq Addr /\ th[f].todo \in Dict
      /\ th[f].total \in Nat /\ th[f].skips \in Nat
      /\ th[f].at \in Busy => th[f].cur \in Addr
      /\ th[f].at \in InStage => th[f].tool \in Tool /\ FamilyOf(th[f].tool) = f
  BY DEF ControlInv, TypeOK, ThreadState, ThreadInv, ThreadSet
<1>s. /\ bdaddrs \in [Family -> Dict] /\ deprioritized \in [Family -> Dict]
      /\ attempts \in [Addr -> Nat] /\ lock \in [Locks -> Threads \cup {NONE}]
      /\ app \in [Apps -> AppState] /\ AppInv /\ faults \in 0..MaxFaults
      /\ f \in Threads
  BY DEF ControlInv, TypeOK, Threads
<1>a. ASSUME th' \in [Family -> ThreadState], ThreadInv',
             bdaddrs' \in [Family -> Dict], deprioritized' \in [Family -> Dict],
             attempts' \in [Addr -> Nat], lock' \in [Locks -> Threads \cup {NONE}],
             app' \in [Apps -> AppState], AppInv', faults' \in 0..MaxFaults,
             success' = success, line' = line, present' = present, lines' = lines
      PROVE  ControlInv'
  BY <1>a DEF ControlInv, TypeOK, LineInv
<1>u. ASSUME th' \in [Family -> ThreadState], ThreadInv',
             UNCHANGED <<shared, line, app, world>>
      PROVE  ControlInv'
  BY <1>u DEF ControlInv, TypeOK, LineInv, AppInv, shared, world
<1> USE DEF Busy, InStage, ThreadAt
<1>1. CASE TakeSnapshot(f)
  <2> DEFINE r == [th[f] EXCEPT !.at = "sort", !.keys = Keys(bdaddrs[f]), !.todo = EmptyDict,
                                !.total = Cardinality(Keys(bdaddrs[f])), !.skips = 0]
  <2>1. r \in ThreadState /\ ThreadSet(f, r)
    <3>1. Keys(bdaddrs[f]) \in SUBSET Addr /\ Cardinality(Keys(bdaddrs[f])) \in Nat
      BY <1>s, DictSize
    <3>2. QED
      BY <1>t, <3>1, DictEmpty DEF ThreadState, ThreadSet
  <2>2. th' = [th EXCEPT ![f] = r]
    BY <1>1, <1>t DEF TakeSnapshot
  <2>3. QED
    BY <1>1, <1>t, <1>u, <2>1, <2>2, ThreadUpdate DEF TakeSnapshot
<1>2. ASSUME NEW a \in Addr, EvaluateKey(f, a) PROVE ControlInv'
  <2>1. CASE a \in Keys(bdaddrs[f])
    <3> DEFINE r == [th[f] EXCEPT !.keys = @ \ {a}, !.todo = Put(@, a, bdaddrs[f][a])]
    <3>1. Put(th[f].todo, a, bdaddrs[f][a]) \in Dict
      BY <1>t, <1>s, <2>1, DictLookup, DictPut
    <3>2. r \in ThreadState /\ ThreadSet(f, r)
      BY <1>t, <3>1, <1>2 DEF ThreadState, ThreadSet, EvaluateKey, At
    <3>3. th' = [th EXCEPT ![f] = r]
      BY <1>2, <2>1, <1>t DEF EvaluateKey
    <3>4. QED
      BY <1>2, <1>t, <1>u, <3>2, <3>3, ThreadUpdate DEF EvaluateKey
  <2>2. CASE a \notin Keys(bdaddrs[f])
    BY <1>2, <1>t, <1>u, <2>2, DieUpdate DEF EvaluateKey
  <2>3. QED
    BY <2>1, <2>2
<1>3. ASSUME NEW a \in Addr, NextDevice(f, a) PROVE ControlInv'
  <2> DEFINE r == [th[f] EXCEPT !.at = "check", !.cur = a, !.todo = Remove(@, a)]
  <2>1. r \in ThreadState /\ ThreadSet(f, r)
    BY <1>t, DictRemove DEF ThreadState, ThreadSet
  <2>2. th' = [th EXCEPT ![f] = r]
    BY <1>3, <1>t DEF NextDevice
  <2>3. QED
    BY <1>3, <1>t, <1>u, <2>1, <2>2, ThreadUpdate DEF NextDevice
<1>4. CASE SortDone(f)
  BY <1>4, <1>t, <1>u, GotoUpdate DEF SortDone, At
<1>5. CASE ListDone(f)
  <2> DEFINE r == [th[f] EXCEPT !.at = "wait", !.cur = NONE]
  <2>1. r \in ThreadState /\ ThreadSet(f, r)
    BY <1>t DEF ThreadState, ThreadSet
  <2>2. th' = [th EXCEPT ![f] = r]
    BY <1>5, <1>t DEF ListDone
  <2>3. QED
    BY <1>5, <1>t, <1>u, <2>1, <2>2, ThreadUpdate DEF ListDone
<1>6. CASE BusyWaitOver(f)
  BY <1>6, <1>t, <1>u, GotoUpdate DEF BusyWaitOver, At
<1>7. CASE CheckAttempts(f)
  <2> DEFINE r == IF Exhausted(th[f].cur) THEN [th[f] EXCEPT !.at = "skip", !.skips = @ + 1]
                                          ELSE [th[f] EXCEPT !.at = "attempt"]
  <2>1. r \in ThreadState /\ ThreadSet(f, r)
    BY <1>t, <1>7 DEF ThreadState, ThreadSet, CheckAttempts, At
  <2>2. th' = [th EXCEPT ![f] = r]
    BY <1>7, <1>t DEF CheckAttempts
  <2>3. QED
    BY <1>7, <1>t, <1>u, <2>1, <2>2, ThreadUpdate DEF CheckAttempts
<1>8. CASE SkipDevice(f)
  <2>1. th' \in [Family -> ThreadState] /\ ThreadInv'
    BY <1>8, <1>t, GotoUpdate DEF SkipDevice, At
  <2>2. bdaddrs' \in [Family -> Dict]
    BY <1>8, <1>s, DeleteUpdate DEF SkipDevice
  <2>3. QED
    BY <1>8, <1>s, <1>a, <2>1, <2>2 DEF SkipDevice, AppInv, world
<1>9. CASE ChooseDeprioritized(f)
  <2>1. CASE th[f].skips = th[f].total /\ Keys(deprioritized[f]) # {}
    <3>1. PICK a \in Keys(deprioritized[f]) :
               th' = [th EXCEPT ![f].at = "reprio", ![f].cur = a]
      BY <1>9, <2>1 DEF ChooseDeprioritized
    <3> DEFINE r == [th[f] EXCEPT !.at = "reprio", !.cur = a]
    <3>2. a \in Addr
      BY <1>s, DictLookup
    <3>3. r \in ThreadState /\ ThreadSet(f, r)
      BY <1>t, <3>2 DEF ThreadState, ThreadSet
    <3>4. th' = [th EXCEPT ![f] = r]
      BY <3>1, <1>t
    <3>5. QED
      BY <1>9, <1>t, <1>u, <3>3, <3>4, ThreadUpdate DEF ChooseDeprioritized
  <2>2. CASE ~(th[f].skips = th[f].total /\ Keys(deprioritized[f]) # {})
    BY <1>9, <1>t, <1>u, <2>2, GotoUpdate DEF ChooseDeprioritized, At
  <2>3. QED
    BY <2>1, <2>2
<1>10. CASE ReprioritizeEnter(f)
  <2>1. th' \in [Family -> ThreadState] /\ ThreadInv'
    BY <1>10, <1>t, GotoUpdate DEF ReprioritizeEnter, At
  <2>2. lock' \in [Locks -> Threads \cup {NONE}]
    BY <1>10, <1>s, LockUpdate DEF ReprioritizeEnter
  <2>3. QED
    BY <1>10, <1>s, <1>a, <2>1, <2>2 DEF ReprioritizeEnter, AppInv, world
<1>11. CASE reprioritize_bdaddr(f)
  <2>1. th' \in [Family -> ThreadState] /\ ThreadInv'
    BY <1>11, <1>t, GotoUpdate DEF reprioritize_bdaddr, At
  <2>2. lock' \in [Locks -> Threads \cup {NONE}]
    BY <1>11, <1>s, LockUpdate DEF reprioritize_bdaddr
  <2>3. bdaddrs' \in [Family -> Dict] /\ deprioritized' \in [Family -> Dict]
    <3>1. CASE th[f].cur \in Keys(deprioritized[f])
      <4>1. Put(bdaddrs[f], th[f].cur, deprioritized[f][th[f].cur]) \in Dict
        BY <1>s, <3>1, DictLookup, DictPut
      <4>2. Remove(deprioritized[f], th[f].cur) \in Dict
        BY <1>s, DictRemove
      <4>3. QED
        BY <1>11, <1>s, <3>1, <4>1, <4>2 DEF reprioritize_bdaddr
    <3>2. CASE th[f].cur \notin Keys(deprioritized[f])
      BY <1>11, <1>s, <3>2 DEF reprioritize_bdaddr
    <3>3. QED
      BY <3>1, <3>2
  <2>4. QED
    BY <1>11, <1>s, <1>a, <2>1, <2>2, <2>3 DEF reprioritize_bdaddr, AppInv, world
<1>12. CASE CountAttempt(f)
  <2>1. th' \in [Family -> ThreadState] /\ ThreadInv'
    BY <1>12, <1>t, StageUpdate, NextTool DEF CountAttempt, At
  <2>2. attempts' \in [Addr -> Nat]
    BY <1>12, <1>s, <1>t DEF CountAttempt, At
  <2>3. QED
    BY <1>12, <1>s, <1>a, <2>1, <2>2 DEF CountAttempt, AppInv, world
<1>13. CASE NotYetCollected(f)
  BY <1>13, <1>t, <1>u, GotoUpdate DEF NotYetCollected, At
<1>14. CASE AlreadyCollected(f)
  <2>1. CASE all_2thprints_done(f, th[f].cur)
    <3>1. th' \in [Family -> ThreadState] /\ ThreadInv'
      BY <1>14, <1>t, <2>1, GotoUpdate DEF AlreadyCollected, At
    <3>2. lock' \in [Locks -> Threads \cup {NONE}]
      BY <1>14, <1>s, <2>1, LockUpdate DEF AlreadyCollected
    <3>3. QED
      BY <1>14, <1>s, <1>a, <3>1, <3>2 DEF AlreadyCollected, AppInv, world
  <2>2. CASE ~all_2thprints_done(f, th[f].cur)
    <3>1. th' \in [Family -> ThreadState] /\ ThreadInv'
      BY <1>14, <1>t, <2>2, StageUpdate, NextTool DEF AlreadyCollected, At
    <3>2. QED
      BY <1>14, <1>s, <1>a, <2>2, <3>1 DEF AlreadyCollected, AppInv, world
  <2>3. QED
    BY <2>1, <2>2
<1>15. CASE RemoveFinished(f)
  <2>1. th' \in [Family -> ThreadState] /\ ThreadInv'
    <3>1. CASE f = "BLE"
      BY <1>15, <1>t, <3>1, GotoUpdate DEF RemoveFinished, At
    <3>2. CASE f # "BLE"
      BY <1>15, <1>t, <3>2, StageUpdate, NextTool DEF RemoveFinished, At
    <3>3. QED
      BY <3>1, <3>2
  <2>2. bdaddrs' \in [Family -> Dict]
    BY <1>15, <1>s, DeleteUpdate DEF RemoveFinished
  <2>3. lock' \in [Locks -> Threads \cup {NONE}]
    BY <1>15, <1>s, LockUpdate DEF RemoveFinished
  <2>4. QED
    BY <1>15, <1>s, <1>a, <2>1, <2>2, <2>3 DEF RemoveFinished, AppInv, world
<1>16. CASE CheckStillKnown(f)
  <2>1. th' \in [Family -> ThreadState] /\ ThreadInv'
    <3>1. CASE th[f].cur \in Keys(bdaddrs[f])
      BY <1>16, <1>t, <3>1, GotoUpdate DEF CheckStillKnown, At
    <3>2. CASE th[f].cur \notin Keys(bdaddrs[f])
      BY <1>16, <1>t, <3>2, StageUpdate, NextTool DEF CheckStillKnown, At
    <3>3. QED
      BY <3>1, <3>2
  <2>2. QED
    BY <1>16, <1>u, <2>1 DEF CheckStillKnown
<1>17. CASE RecheckStillKnown(f)
  <2>1. CASE th[f].cur \in Keys(bdaddrs[f])
    <3>1. th' \in [Family -> ThreadState] /\ ThreadInv'
      BY <1>17, <1>t, <2>1, GotoUpdate DEF RecheckStillKnown, At
    <3>2. lock' \in [Locks -> Threads \cup {NONE}]
      BY <1>17, <1>s, <2>1, LockUpdate DEF RecheckStillKnown
    <3>3. QED
      BY <1>17, <1>s, <1>a, <3>1, <3>2 DEF RecheckStillKnown, AppInv, world
  <2>2. CASE th[f].cur \notin Keys(bdaddrs[f])
    <3>1. th' \in [Family -> ThreadState] /\ ThreadInv'
      BY <1>17, <1>t, <2>2, StageUpdate, NextTool DEF RecheckStillKnown, At
    <3>2. QED
      BY <1>17, <1>s, <1>a, <2>2, <3>1 DEF RecheckStillKnown, AppInv, world
  <2>3. QED
    BY <2>1, <2>2
<1>l. LeaveLaunch(f) => lock' \in [Locks -> Threads \cup {NONE}]
  BY <1>s, LockUpdate DEF LeaveLaunch
<1>18. ASSUME NEW i \in Apps, LaunchTool(f, i) PROVE ControlInv'
  <2> DEFINE r == [at |-> "run", tool |-> th[f].tool, a |-> th[f].cur]
  <2>1. th' \in [Family -> ThreadState] /\ ThreadInv'
    BY <1>18, <1>t, StageUpdate, NextTool DEF LaunchTool, At
  <2>2. r \in AppState /\ AppSet(r)
    BY <1>18, <1>t DEF LaunchTool, At, AppState, AppSet, AppAt
  <2>3. app' \in [Apps -> AppState] /\ AppInv'
    BY <1>18, <1>s, <2>2, AppUpdate DEF LaunchTool
  <2>4. QED
    BY <1>18, <1>s, <1>a, <1>l, <2>1, <2>3 DEF LaunchTool, world
<1>f. Fault => faults' \in 0..MaxFaults
  BY <1>s, InputsAssumption DEF Fault
<1>19. CASE LogWriteFails(f)
  <2>1. th' \in [Family -> ThreadState] /\ ThreadInv'
    BY <1>19, <1>t, DieUpdate DEF LogWriteFails
  <2>2. QED
    BY <1>19, <1>s, <1>a, <1>l, <1>f, <2>1 DEF LogWriteFails, AppInv
<1>20. CASE LaunchFails(f)
  <2>1. th' \in [Family -> ThreadState] /\ ThreadInv'
    BY <1>20, <1>t, GotoUpdate DEF LaunchFails, At
  <2>2. QED
    BY <1>20, <1>s, <1>a, <1>f, <2>1 DEF LaunchFails, AppInv, shared
<1>21. CASE Reboot(f)
  BY <1>21, RebootIInv DEF ControlInv, IInv
<1>22. CASE RebootFails(f)
  <2>1. th' \in [Family -> ThreadState] /\ ThreadInv'
    BY <1>22, <1>t, StageUpdate, NextTool DEF RebootFails, At
  <2>2. QED
    BY <1>22, <1>s, <1>a, <1>l, <2>1 DEF RebootFails, AppInv, world
<1>23. CASE JoinThreads(f)
  BY <1>23, <1>t, <1>u, GotoUpdate DEF JoinThreads, At
<1>24. QED
  BY <1>1, <1>2, <1>3, <1>4, <1>5, <1>6, <1>7, <1>8, <1>9, <1>10, <1>11, <1>12,
     <1>13, <1>14, <1>15, <1>16, <1>17, <1>18, <1>19, <1>20, <1>21, <1>22, <1>23
     DEF collector_thread

(* The steps of an ApplicationThread. *)
LEMMA AppControl ==
    ASSUME NEW i \in Apps, ControlInv, ApplicationThread_run(i) PROVE ControlInv'
<1>s. /\ app \in [Apps -> AppState] /\ AppInv
      /\ app[i].at # "free" => app[i].tool \in Tool /\ app[i].a \in Addr
      /\ bdaddrs \in [Family -> Dict] /\ success \in [Tool -> SUBSET Addr]
      /\ lock \in [Locks -> Threads \cup {NONE}] /\ faults \in 0..MaxFaults
      /\ i \in Threads
  BY DEF ControlInv, TypeOK, AppInv, AppSet, Threads
<1>a. ASSUME app' \in [Apps -> AppState], AppInv',
             bdaddrs' \in [Family -> Dict], success' \in [Tool -> SUBSET Addr],
             lock' \in [Locks -> Threads \cup {NONE}], faults' \in 0..MaxFaults,
             UNCHANGED <<deprioritized, attempts, line, th, present, lines>>
      PROVE  ControlInv'
  BY <1>a DEF ControlInv, TypeOK, LineInv, ThreadInv
<1>1. CASE ToolSucceeds(i)
  <2>1. app' \in [Apps -> AppState] /\ AppInv'
    BY <1>1, <1>s, AppGotoUpdate DEF ToolSucceeds, AppAt
  <2>2. QED
    BY <1>1, <1>s, <1>a, <2>1 DEF ToolSucceeds, shared, world
<1>2. CASE ToolFails(i)
  BY <1>2, <1>s, <1>a, AppEndsUpdate DEF ToolFails, shared, world
<1>3. CASE ToolTimesOut(i)
  BY <1>3, <1>s, <1>a, AppEndsUpdate DEF ToolTimesOut, shared, world
<1>4. CASE SuccessLogFails(i)
  <2>1. faults' \in 0..MaxFaults
    BY <1>4, <1>s, InputsAssumption DEF SuccessLogFails, Fault
  <2>2. QED
    BY <1>4, <1>s, <1>a, <2>1, AppEndsUpdate DEF SuccessLogFails, shared
<1>5. CASE RecordSuccess(i)
  <2>1. app' \in [Apps -> AppState] /\ AppInv'
    BY <1>5, <1>s, AppGotoUpdate DEF RecordSuccess, AppAt
  <2>2. success' \in [Tool -> SUBSET Addr]
    BY <1>5, <1>s DEF RecordSuccess
  <2>3. lock' \in [Locks -> Threads \cup {NONE}]
    BY <1>5, <1>s, LockUpdate DEF RecordSuccess
  <2>4. QED
    BY <1>5, <1>s, <1>a, <2>1, <2>2, <2>3 DEF RecordSuccess, world
<1>6. CASE CheckAllDone(i)
  <2>1. app' \in [Apps -> AppState] /\ AppInv'
    BY <1>6, <1>s, AppGotoUpdate, AppEndsUpdate DEF CheckAllDone, AppAt
  <2>2. lock' \in [Locks -> Threads \cup {NONE}]
    BY <1>6, <1>s, LockUpdate DEF CheckAllDone
  <2>3. QED
    BY <1>6, <1>s, <1>a, <2>1, <2>2 DEF CheckAllDone, world
<1>7. CASE RemoveCollected(i)
  <2>1. bdaddrs' \in [Family -> Dict]
    BY <1>7, <1>s, DeleteUpdate DEF RemoveCollected, FamilyOf, Family
  <2>2. lock' \in [Locks -> Threads \cup {NONE}]
    BY <1>7, <1>s, LockUpdate DEF RemoveCollected
  <2>3. QED
    BY <1>7, <1>s, <1>a, <2>1, <2>2, AppEndsUpdate DEF RemoveCollected, world
<1>8. QED
  BY <1>1, <1>2, <1>3, <1>4, <1>5, <1>6, <1>7 DEF ApplicationThread_run

----------------------------------------------------------------------------
(* The locks. *)

(* Thread p takes lock k, leaves it, or does neither, and no other thread's *)
(* holdings change.                                                         *)
LEMMA LockStep ==
    ASSUME NEW p \in Threads, NEW k \in Locks, LockInv,
           lock \in [Locks -> Threads \cup {NONE}],
           \A q \in Threads \ {p}, l \in Locks : Holds(q, l)' <=> Holds(q, l),
           \/ /\ lock' = lock
              /\ \A l \in Locks : Holds(p, l)' <=> Holds(p, l)
           \/ /\ Acquire(k, p)
              /\ \A l \in Locks : ~Holds(p, l) /\ (Holds(p, l)' <=> l = k)
           \/ /\ Release(k)
              /\ \A l \in Locks : (Holds(p, l) <=> l = k) /\ ~Holds(p, l)'
    PROVE  LockInv'
<1> SUFFICES ASSUME NEW l \in Locks, NEW q \in Threads
             PROVE  lock'[l] = q <=> Holds(q, l)'
  BY DEF LockInv
<1>0. NONE \notin Threads
  BY LauncherAssumption DEF Threads
<1>1. CASE lock' = lock /\ \A m \in Locks : Holds(p, m)' <=> Holds(p, m)
  BY <1>1 DEF LockInv
<1>2. CASE Acquire(k, p) /\ \A m \in Locks : ~Holds(p, m) /\ (Holds(p, m)' <=> m = k)
  <2>1. lock[k] = NONE /\ lock' = [lock EXCEPT ![k] = p]
    BY <1>2 DEF Acquire, Free
  <2>2. CASE q = p
    BY <1>0, <1>2, <2>1, <2>2 DEF LockInv
  <2>3. CASE q # p
    BY <1>0, <1>2, <2>1, <2>3 DEF LockInv
  <2>4. QED
    BY <2>2, <2>3
<1>3. CASE Release(k) /\ \A m \in Locks : (Holds(p, m) <=> m = k) /\ ~Holds(p, m)'
  <2>1. lock[k] = p /\ lock' = [lock EXCEPT ![k] = NONE]
    BY <1>3 DEF Release, LockInv
  <2>2. CASE q = p
    BY <1>0, <1>3, <2>1, <2>2 DEF LockInv
  <2>3. CASE q # p
    BY <1>0, <1>3, <2>1, <2>3 DEF LockInv
  <2>4. QED
    BY <2>2, <2>3
<1>4. QED
  BY <1>1, <1>2, <1>3

(* The three kinds of threads are told apart. *)
LEMMA HoldsCases ==
    /\ \A l : Holds("main", l) <=> MainHolds(l)
    /\ \A f \in Family : \A l : Holds(f, l) <=> CollectorHolds(f, l)
    /\ \A i \in Apps : \A l : Holds(i, l) <=> AppHolds(i, l)
    /\ \A l : Holds("main", l)' <=> MainHolds(l)'
    /\ \A f \in Family : \A l : Holds(f, l)' <=> CollectorHolds(f, l)'
    /\ \A i \in Apps : \A l : Holds(i, l)' <=> AppHolds(i, l)'
  BY LauncherAssumption DEF Holds, Family

LEMMA LockNames ==
    /\ \A f \in Family : BdaddrsLock(f) \in Locks /\ ReprioritizeLock(f) \in Locks
    /\ \A t \in Tool : SuccessLock(t) \in Locks
  BY DEF Locks, ReprioritizeLock, Family

(* process_line takes and leaves the family's lock only around a move. *)
LEMMA MainLock == ASSUME ControlInv, LockInv, process_line PROVE LockInv'
<1>0. /\ "main" \in Threads /\ line.f \in Family /\ BdaddrsLock(line.f) \in Locks
      /\ lock \in [Locks -> Threads \cup {NONE}]
      /\ line \in LineState
  BY LockNames DEF ControlInv, TypeOK, LineState, Threads
<1>o. ASSUME th' = th, app' = app
      PROVE  \A q \in Threads \ {"main"}, l \in Locks : Holds(q, l)' <=> Holds(q, l)
  BY <1>o DEF Holds, CollectorHolds, AppHolds
<1>m. ASSUME th' = th, app' = app,
             \/ lock' = lock /\ (\A l \in Locks : MainHolds(l)' <=> MainHolds(l))
             \/ /\ Acquire(BdaddrsLock(line.f), "main")
                /\ \A l \in Locks : ~MainHolds(l) /\ (MainHolds(l)' <=> l = BdaddrsLock(line.f))
             \/ /\ Release(BdaddrsLock(line.f))
                /\ \A l \in Locks : (MainHolds(l) <=> l = BdaddrsLock(line.f)) /\ ~MainHolds(l)'
      PROVE  LockInv'
  BY <1>m, <1>0, <1>o, LockStep, HoldsCases
<1> USE DEF MainHolds
<1>1. ASSUME NEW l \in Lines, ReadLine(l) PROVE LockInv'
  <2>1. line.at = "read" /\ line' = l /\ l.at \notin {"apple_put", "apple_del"}
    BY <1>1, InputsAssumption DEF ReadLine, Line
  <2>2. QED
    BY <1>1, <2>1, <1>m DEF ReadLine
<1>2. CASE InsertNew
  BY <1>2, <1>m DEF InsertNew, DoneWithLine, NoLine
<1>3. CASE UpdateRssi
  <2>1. line'.at \notin {"apple_put", "apple_del"}
    BY <1>3, <1>0 DEF UpdateRssi, NextFamily, NoLine, LineState
  <2>2. QED
    BY <1>3, <2>1, <1>m DEF UpdateRssi
<1>4. CASE AppleFound
  <2>1. line'.at = "apple_put" /\ line'.f = line.f
    BY <1>4, <1>0 DEF AppleFound, LineState
  <2>2. QED
    BY <1>4, <2>1, <1>m DEF AppleFound
<1>5. CASE AppleNotFound
  <2>1. line'.at \notin {"apple_put", "apple_del"}
    BY <1>5, <1>0 DEF AppleNotFound, NextFamily, NoLine, LineState
  <2>2. QED
    BY <1>5, <2>1, <1>m DEF AppleNotFound, shared
<1>6. CASE Deprioritize
  <2>1. line'.at = "apple_del" /\ line'.f = line.f
    BY <1>6, <1>0 DEF Deprioritize, LineState
  <2>2. QED
    BY <1>6, <2>1, <1>m DEF Deprioritize
<1>7. CASE DeprioritizeDelete
  <2>1. line'.at \notin {"apple_put", "apple_del"}
    BY <1>7, <1>0 DEF DeprioritizeDelete, NextFamily, NoLine, LineState
  <2>2. QED
    BY <1>7, <2>1, <1>m DEF DeprioritizeDelete
<1>8. CASE DeleteDevice
  BY <1>8, <1>m DEF DeleteDevice, DoneWithLine, NoLine
<1>9. QED
  BY <1>1, <1>2, <1>3, <1>4, <1>5, <1>6, <1>7, <1>8 DEF process_line

(* Where a collector thread is after a step, and that the other one did not *)
(* move.                                                                    *)
LEMMA ThreadMoves ==
    ASSUME NEW f \in Family, th \in [Family -> ThreadState]
    PROVE  /\ \A p : Goto(f, p) => /\ th'[f].at = p /\ th'[f].tool = th[f].tool
                                   /\ \A g \in Family \ {f} : th'[g] = th[g]
           /\ \A t : Stage(f, t) => /\ th'[f].at \in {"join", "success"}
                                    /\ \A g \in Family \ {f} : th'[g] = th[g]
           /\ Die(f) => /\ th'[f].at = "dead"
                        /\ \A g \in Family \ {f} : th'[g] = th[g]
  BY DEF Goto, Stage, Die, NewThread, ThreadState

LEMMA CollectorLock ==
    ASSUME NEW f \in Family, ControlInv, LockInv, collector_thread(f) PROVE LockInv'
<1> DEFINE Others == \A g \in Family \ {f} : th'[g] = th[g]
           Quiet == {"snapshot", "sort", "next", "wait", "check", "skip", "choose", "reprio",
                     "attempt", "success", "member", "lock", "join", "dead"}
<1>0. /\ f \in Threads /\ th \in [Family -> ThreadState]
      /\ lock \in [Locks -> Threads \cup {NONE}]
      /\ BdaddrsLock(f) \in Locks /\ ReprioritizeLock(f) \in Locks
      /\ th[f].at \in InStage => SuccessLock(th[f].tool) \in Locks
  BY LockNames DEF ControlInv, TypeOK, Threads, ThreadInv, ThreadSet
<1>o. ASSUME line' = line, app' = app, Others
      PROVE  \A q \in Threads \ {f}, l \in Locks : Holds(q, l)' <=> Holds(q, l)
  BY <1>o DEF Holds, MainHolds, CollectorHolds, AppHolds
<1>n. /\ th[f].at \in Quiet => \A l : ~CollectorHolds(f, l)
      /\ th'[f].at \in Quiet => \A l : ~CollectorHolds(f, l)'
  BY DEF CollectorHolds
<1>q. ASSUME line' = line, app' = app, Others, lock' = lock, th[f].at \in Quiet, th'[f].at \in Quiet
      PROVE  LockInv'
  BY <1>q, <1>0, <1>o, <1>n, LockStep, HoldsCases
<1>k. ASSUME NEW k \in Locks, line' = line, app' = app, Others,
             \/ lock' = lock /\ (\A l \in Locks : CollectorHolds(f, l)' <=> CollectorHolds(f, l))
             \/ /\ Acquire(k, f) /\ th[f].at \in Quiet
                /\ \A l \in Locks : CollectorHolds(f, l)' <=> l = k
             \/ /\ Release(k) /\ th'[f].at \in Quiet
                /\ \A l \in Locks : CollectorHolds(f, l) <=> l = k
      PROVE  LockInv'
  BY <1>k, <1>0, <1>o, <1>n, LockStep, HoldsCases
<1>1. CASE TakeSnapshot(f)
  <2>1. th'[f].at = "sort" /\ Others
    BY <1>0, <1>1 DEF TakeSnapshot, ThreadState
  <2>2. QED
    BY <1>1, <1>q, <2>1 DEF TakeSnapshot, At, shared
<1>2. ASSUME NEW a \in Addr, EvaluateKey(f, a) PROVE LockInv'
  <2>1. th'[f].at \in {"sort", "dead"} /\ Others
    <3>1. CASE a \in Keys(bdaddrs[f])
      BY <1>0, <1>2, <3>1 DEF EvaluateKey, At, ThreadState
    <3>2. CASE a \notin Keys(bdaddrs[f])
      BY <1>0, <1>2, <3>2, ThreadMoves DEF EvaluateKey
    <3>3. QED
      BY <3>1, <3>2
  <2>2. QED
    BY <1>2, <1>q, <2>1 DEF EvaluateKey, At, shared
<1>3. ASSUME NEW a \in Addr, NextDevice(f, a) PROVE LockInv'
  <2>1. th'[f].at = "check" /\ Others
    BY <1>0, <1>3 DEF NextDevice, ThreadState
  <2>2. QED
    BY <1>3, <1>q, <2>1 DEF NextDevice, At, shared
<1>4. CASE SortDone(f)
  BY <1>4, <1>0, <1>q, ThreadMoves DEF SortDone, At, shared
<1>5. CASE ListDone(f)
  <2>1. th'[f].at = "wait" /\ Others
    BY <1>0, <1>5 DEF ListDone, ThreadState
  <2>2. QED
    BY <1>5, <1>q, <2>1 DEF ListDone, At, shared
<1>6. CASE BusyWaitOver(f)
  BY <1>6, <1>0, <1>q, ThreadMoves DEF BusyWaitOver, At, shared
<1>7. CASE CheckAttempts(f)
  <2>1. th'[f].at \in {"skip", "attempt"} /\ Others
    BY <1>0, <1>7 DEF CheckAttempts, ThreadState
  <2>2. QED
    BY <1>7, <1>q, <2>1 DEF CheckAttempts, At, shared
<1>8. CASE SkipDevice(f)
  BY <1>8, <1>0, <1>q, ThreadMoves DEF SkipDevice, At
<1>9. CASE ChooseDeprioritized(f)
  <2>1. th'[f].at \in {"reprio", "next"} /\ Others
    <3>1. CASE th[f].skips = th[f].total /\ Keys(deprioritized[f]) # {}
      BY <1>0, <1>9, <3>1 DEF ChooseDeprioritized, ThreadState
    <3>2. CASE ~(th[f].skips = th[f].total /\ Keys(deprioritized[f]) # {})
      BY <1>0, <1>9, <3>2, ThreadMoves DEF ChooseDeprioritized
    <3>3. QED
      BY <3>1, <3>2
  <2>2. QED
    BY <1>9, <1>q, <2>1 DEF ChooseDeprioritized, At, shared
<1>10. CASE ReprioritizeEnter(f)
  <2>1. th[f].at \in Quiet /\ th'[f].at = "restore" /\ Others
    BY <1>10, <1>0, ThreadMoves DEF ReprioritizeEnter, At
  <2>2. \A l \in Locks : CollectorHolds(f, l)' <=> l = ReprioritizeLock(f)
    BY <2>1 DEF CollectorHolds
  <2>3. QED
    BY <1>10, <1>0, <1>k, <2>1, <2>2 DEF ReprioritizeEnter
<1>11. CASE reprioritize_bdaddr(f)
  <2>1. th[f].at = "restore" /\ th'[f].at \in Quiet /\ Others
    BY <1>11, <1>0, ThreadMoves DEF reprioritize_bdaddr, At
  <2>2. \A l \in Locks : CollectorHolds(f, l) <=> l = ReprioritizeLock(f)
    BY <2>1 DEF CollectorHolds
  <2>3. QED
    BY <1>11, <1>0, <1>k, <2>1, <2>2 DEF reprioritize_bdaddr
<1>12. CASE CountAttempt(f)
  BY <1>12, <1>0, <1>q, ThreadMoves DEF CountAttempt, At
<1>13. CASE NotYetCollected(f)
  BY <1>13, <1>0, <1>q, ThreadMoves DEF NotYetCollected, At, shared
<1>14. CASE AlreadyCollected(f)
  <2>0. th[f].at = "success" /\ SuccessLock(th[f].tool) \in Locks
    BY <1>14, <1>0 DEF AlreadyCollected, At, InStage
  <2>1. CASE all_2thprints_done(f, th[f].cur)
    <3>1. th'[f].at = "finished" /\ th'[f].tool = th[f].tool /\ Others
      BY <1>14, <1>0, <2>1, ThreadMoves DEF AlreadyCollected
    <3>2. \A l \in Locks : CollectorHolds(f, l)' <=> l = SuccessLock(th[f].tool)
      BY <3>1 DEF CollectorHolds
    <3>3. QED
      BY <1>14, <1>k, <2>0, <2>1, <3>1, <3>2 DEF AlreadyCollected
  <2>2. CASE ~all_2thprints_done(f, th[f].cur)
    BY <1>14, <1>0, <1>q, <2>0, <2>2, ThreadMoves DEF AlreadyCollected
  <2>3. QED
    BY <2>1, <2>2
<1>15. CASE RemoveFinished(f)
  <2>1. th[f].at = "finished" /\ SuccessLock(th[f].tool) \in Locks
    BY <1>15, <1>0 DEF RemoveFinished, At, InStage
  <2>2. th'[f].at \in {"next", "join", "success"} /\ Others
    BY <1>15, <1>0, ThreadMoves DEF RemoveFinished
  <2>3. \A l \in Locks : CollectorHolds(f, l) <=> l = SuccessLock(th[f].tool)
    BY <2>1 DEF CollectorHolds
  <2>4. QED
    BY <1>15, <1>k, <2>1, <2>2, <2>3 DEF RemoveFinished
<1>16. CASE CheckStillKnown(f)
  <2>1. /\ th'[f].at \in {"join", "success", "lock"} \/ (th'[f].at = "popen" /\ f # "BLE")
        /\ Others
    BY <1>16, <1>0, ThreadMoves DEF CheckStillKnown
  <2>2. th[f].at \in Quiet
    BY <1>16 DEF CheckStillKnown, At
  <2>3. \A l \in Locks : CollectorHolds(f, l)' <=> CollectorHolds(f, l)
    BY <2>1, <2>2 DEF CollectorHolds
  <2>4. QED
    BY <1>16, <1>0, <1>k, <2>1, <2>3 DEF CheckStillKnown, shared
<1>17. CASE RecheckStillKnown(f)
  <2>0. th[f].at \in Quiet
    BY <1>17 DEF RecheckStillKnown, At
  <2>1. CASE th[f].cur \in Keys(bdaddrs[f])
    <3>1. th'[f].at = "popen" /\ Others
      BY <1>17, <1>0, <2>1, ThreadMoves DEF RecheckStillKnown
    <3>2. f = "BLE"
      BY <1>17 DEF RecheckStillKnown, At, ControlInv, ThreadInv, ThreadSet
    <3>3. \A l \in Locks : CollectorHolds(f, l)' <=> l = BdaddrsLock(f)
      BY <3>1, <3>2 DEF CollectorHolds
    <3>4. QED
      BY <1>17, <1>0, <1>k, <2>0, <2>1, <3>1, <3>3 DEF RecheckStillKnown
  <2>2. CASE th[f].cur \notin Keys(bdaddrs[f])
    BY <1>17, <1>0, <1>q, <2>0, <2>2, ThreadMoves DEF RecheckStillKnown
  <2>3. QED
    BY <2>1, <2>2
<1>l. ASSUME LeaveLaunch(f), th[f].at \in {"popen", "reboot"}, th'[f].at \in Quiet,
             Others, line' = line, app' = app
      PROVE  LockInv'
  <2>1. CASE f = "BLE"
    <3>1. \A l \in Locks : CollectorHolds(f, l) <=> l = BdaddrsLock(f)
      BY <1>l, <2>1 DEF CollectorHolds
    <3>2. QED
      BY <1>l, <1>0, <1>k, <2>1, <3>1 DEF LeaveLaunch
  <2>2. CASE f # "BLE"
    <3>1. \A l \in Locks : CollectorHolds(f, l)' <=> CollectorHolds(f, l)
      BY <1>l, <2>2 DEF CollectorHolds
    <3>2. QED
      BY <1>l, <1>0, <1>k, <2>2, <3>1 DEF LeaveLaunch
  <2>3. QED
    BY <2>1, <2>2
<1>18. ASSUME NEW i \in Apps, LaunchTool(f, i) PROVE LockInv'
  <2>1. th[f].at = "popen" /\ th'[f].at \in Quiet /\ Others /\ line' = line
    BY <1>18, <1>0, ThreadMoves DEF LaunchTool, At
  <2>2. \A j \in Apps, l \in Locks : AppHolds(j, l)' <=> AppHolds(j, l)
    BY <1>18 DEF LaunchTool, AppHolds, ControlInv, TypeOK
  <2>3. \A q \in Threads \ {f}, l \in Locks : Holds(q, l)' <=> Holds(q, l)
    BY <2>1, <2>2 DEF Holds, MainHolds, CollectorHolds, Threads
  <2>4. CASE f = "BLE"
    <3>1. \A l \in Locks : CollectorHolds(f, l) <=> l = BdaddrsLock(f)
      BY <2>1, <2>4 DEF CollectorHolds
    <3>2. Release(BdaddrsLock(f))
      BY <1>18, <2>4 DEF LaunchTool, LeaveLaunch
    <3>3. QED
      BY <1>0, <1>n, <2>1, <2>3, <3>1, <3>2, LockStep, HoldsCases
  <2>5. CASE f # "BLE"
    <3>1. \A l \in Locks : CollectorHolds(f, l)' <=> CollectorHolds(f, l)
      BY <2>1, <2>5 DEF CollectorHolds
    <3>2. lock' = lock
      BY <1>18, <2>5 DEF LaunchTool, LeaveLaunch
    <3>3. QED
      BY <1>0, <2>3, <3>1, <3>2, LockStep, HoldsCases
  <2>6. QED
    BY <2>4, <2>5
<1>19. CASE LogWriteFails(f)
  BY <1>19, <1>0, <1>l, ThreadMoves DEF LogWriteFails, At
<1>20. CASE LaunchFails(f)
  <2>1. th[f].at = "popen" /\ th'[f].at = "reboot" /\ Others
    BY <1>20, <1>0, ThreadMoves DEF LaunchFails, At
  <2>2. \A l \in Locks : CollectorHolds(f, l)' <=> CollectorHolds(f, l)
    BY <2>1 DEF CollectorHolds
  <2>3. QED
    BY <1>20, <1>0, <1>k, <2>1, <2>2 DEF LaunchFails, shared
<1>21. CASE Reboot(f)
  BY <1>21, RebootIInv DEF ControlInv, IInv
<1>22. CASE RebootFails(f)
  BY <1>22, <1>0, <1>l, ThreadMoves DEF RebootFails, At
<1>23. CASE JoinThreads(f)
  BY <1>23, <1>0, <1>q, ThreadMoves DEF JoinThreads, At, shared
<1>24. QED
  BY <1>1, <1>2, <1>3, <1>4, <1>5, <1>6, <1>7, <1>8, <1>9, <1>10, <1>11, <1>12,
     <1>13, <1>14, <1>15, <1>16, <1>17, <1>18, <1>19, <1>20, <1>21, <1>22, <1>23
     DEF collector_thread

(* An ApplicationThread holds a success lock from recording to its end. *)
LEMMA AppLock ==
    ASSUME NEW i \in Apps, ControlInv, LockInv, ApplicationThread_run(i) PROVE LockInv'
<1> DEFINE Others == \A j \in Apps \ {i} : app'[j] = app[j]
<1>0. /\ i \in Threads /\ app \in [Apps -> AppState]
      /\ lock \in [Locks -> Threads \cup {NONE}]
      /\ app[i].at # "free" => SuccessLock(app[i].tool) \in Locks
      /\ BdaddrsLock("BLE") \in Locks
  BY LockNames DEF ControlInv, TypeOK, Threads, AppInv, AppSet, Family
<1>g. /\ \A p : AppGoto(i, p) => app'[i].at = p /\ app'[i].tool = app[i].tool /\ Others
      /\ AppEnds(i) => app'[i].at = "free" /\ Others
  BY <1>0 DEF AppGoto, AppEnds, NoApp, AppState
<1>o. ASSUME line' = line, th' = th, Others
      PROVE  \A q \in Threads \ {i}, l \in Locks : Holds(q, l)' <=> Holds(q, l)
  BY <1>o DEF Holds, MainHolds, CollectorHolds, AppHolds, Threads
<1>k. ASSUME NEW k \in Locks, line' = line, th' = th, Others,
             \/ lock' = lock /\ (\A l \in Locks : AppHolds(i, l)' <=> AppHolds(i, l))
             \/ /\ Acquire(k, i)
                /\ \A l \in Locks : ~AppHolds(i, l) /\ (AppHolds(i, l)' <=> l = k)
             \/ /\ Release(k)
                /\ \A l \in Locks : (AppHolds(i, l) <=> l = k) /\ ~AppHolds(i, l)'
      PROVE  LockInv'
  BY <1>k, <1>0, <1>o, LockStep, HoldsCases
<1>q. ASSUME app[i].at \in {"run", "record"}, app'[i].at \in {"free", "record"},
             line' = line, th' = th, lock' = lock, Others
      PROVE  LockInv'
  <2>1. \A l \in Locks : AppHolds(i, l)' <=> AppHolds(i, l)
    BY <1>q DEF AppHolds
  <2>2. QED
    BY <1>q, <1>0, <1>k, <2>1
<1>1. CASE ToolSucceeds(i)
  BY <1>1, <1>g, <1>q DEF ToolSucceeds, shared
<1>2. CASE ToolFails(i)
  BY <1>2, <1>g, <1>q DEF ToolFails, shared
<1>3. CASE ToolTimesOut(i)
  BY <1>3, <1>g, <1>q DEF ToolTimesOut, shared
<1>4. CASE SuccessLogFails(i)
  BY <1>4, <1>g, <1>q DEF SuccessLogFails, shared
<1>5. CASE RecordSuccess(i)
  <2>1. app[i].at = "record" /\ app'[i].at = "done?" /\ app'[i].tool = app[i].tool /\ Others
    BY <1>5, <1>g DEF RecordSuccess
  <2>2. \A l \in Locks : ~AppHolds(i, l) /\ (AppHolds(i, l)' <=> l = SuccessLock(app[i].tool))
    BY <2>1 DEF AppHolds
  <2>3. QED
    BY <1>5, <1>0, <1>k, <2>1, <2>2 DEF RecordSuccess
<1>6. CASE CheckAllDone(i)
  <2>1. app[i].at = "done?"
    BY <1>6 DEF CheckAllDone
  <2>2. CASE all_2thprints_done(FamilyOf(app[i].tool), app[i].a)
    <3>1. app'[i].at = "delete" /\ app'[i].tool = app[i].tool /\ Others
      BY <1>6, <1>g, <2>2 DEF CheckAllDone
    <3>2. \A l \in Locks : AppHolds(i, l)' <=> AppHolds(i, l)
      BY <2>1, <3>1 DEF AppHolds
    <3>3. QED
      BY <1>6, <1>0, <1>k, <2>2, <3>1, <3>2 DEF CheckAllDone
  <2>3. CASE ~all_2thprints_done(FamilyOf(app[i].tool), app[i].a)
    <3>1. app'[i].at = "free" /\ Others
      BY <1>6, <1>g, <2>3 DEF CheckAllDone
    <3>2. \A l \in Locks : (AppHolds(i, l) <=> l = SuccessLock(app[i].tool)) /\ ~AppHolds(i, l)'
      BY <2>1, <3>1 DEF AppHolds
    <3>3. QED
      BY <1>6, <1>0, <1>k, <2>1, <2>3, <3>1, <3>2 DEF CheckAllDone
  <2>4. QED
    BY <2>2, <2>3
<1>7. CASE RemoveCollected(i)
  <2>1. app[i].at = "delete" /\ app'[i].at = "free" /\ Others
    BY <1>7, <1>g DEF RemoveCollected
  <2>2. \A l \in Locks : (AppHolds(i, l) <=> l = SuccessLock(app[i].tool)) /\ ~AppHolds(i, l)'
    BY <2>1 DEF AppHolds
  <2>3. QED
    BY <1>7, <1>0, <1>k, <2>1, <2>2 DEF RemoveCollected
<1>8. QED
  BY <1>1, <1>2, <1>3, <1>4, <1>5, <1>6, <1>7 DEF ApplicationThread_run

----------------------------------------------------------------------------
(* The move to the deprioritized dictionary. *)

(* Who deletes from a family's dictionary has waited for its lock, so the   *)
(* main thread is not in the middle of a move in that family.               *)
LEMMA DeleteDuringMove ==
    ASSUME ControlInv, LockInv, NEW f \in Family, Free(BdaddrsLock(f)),
           line.at \in {"apple_put", "apple_del"}
    PROVE  line.f # f
<1>1. "main" \in Threads /\ BdaddrsLock(f) \in Locks
  BY LockNames DEF Threads
<1>2. ~MainHolds(BdaddrsLock(f))
  BY <1>1, LauncherAssumption, HoldsCases DEF LockInv, Free
<1>3. QED
  BY <1>2 DEF MainHolds

(* What the moves of the main thread rely on survives its own steps. *)
LEMMA MainMove == ASSUME ControlInv, MoveInv, process_line PROVE MoveInv'
<1>0. line \in LineState /\ line.f \in Family /\ bdaddrs \in [Family -> Dict]
      /\ deprioritized \in [Family -> Dict] /\ LineInv
  BY DEF ControlInv, TypeOK, LineState
<1>n. ASSUME line'.at \notin {"apple_put", "apple_del"} PROVE MoveInv'
  BY <1>n DEF MoveInv
<1>f. ASSUME NEW p \in {"rssi", "apple"}, NextFamily(p)
      PROVE  line'.at \notin {"apple_put", "apple_del"}
  BY <1>f, <1>0 DEF NextFamily, NoLine, LineState
<1>1. ASSUME NEW l \in Lines, ReadLine(l) PROVE MoveInv'
  BY <1>1, <1>n, InputsAssumption DEF ReadLine, Line
<1>2. CASE InsertNew
  BY <1>2, <1>n DEF InsertNew, DoneWithLine, NoLine
<1>3. CASE UpdateRssi
  BY <1>3, <1>n, <1>f DEF UpdateRssi
<1>4. CASE AppleFound
  BY <1>4, <1>0 DEF AppleFound, MoveInv, LineState
<1>5. CASE AppleNotFound
  BY <1>5, <1>n, <1>f DEF AppleNotFound
<1>6. CASE Deprioritize
  <2>1. line'.at = "apple_del" /\ line'.f = line.f /\ line'.a = line.a /\ bdaddrs' = bdaddrs
    BY <1>6, <1>0 DEF Deprioritize, LineState
  <2>2. line.a \in Addr /\ line.a \in Keys(bdaddrs[line.f])
    BY <1>6, <1>0 DEF Deprioritize, MoveInv, LineInv
  <2>3. line.a \in Keys(deprioritized'[line.f])
    BY <1>6, <1>0, <2>2, DictPut, DictLookup DEF Deprioritize
  <2>4. QED
    BY <2>1, <2>2, <2>3 DEF MoveInv
<1>7. CASE DeprioritizeDelete
  BY <1>7, <1>n, <1>f DEF DeprioritizeDelete
<1>8. CASE DeleteDevice
  BY <1>8, <1>n DEF DeleteDevice, DoneWithLine, NoLine
<1>9. QED
  BY <1>1, <1>2, <1>3, <1>4, <1>5, <1>6, <1>7, <1>8 DEF process_line

(* No step of another thread but a reboot touches the dictionaries in a way *)
(* that a move could notice.                                                *)
LEMMA DeleteMove ==
    ASSUME IInv, NEW f \in Family, NEW a, locked_delete_from_dict(f, a),
           line' = line, deprioritized' = deprioritized
    PROVE  MoveInv'
<1>1. line.at \in {"apple_put", "apple_del"} => line.f # f
  BY DeleteDuringMove DEF IInv, locked_delete_from_dict
<1>2. bdaddrs \in [Family -> Dict] /\ line.f \in Family
  BY DEF IInv, ControlInv, TypeOK, LineState
<1>3. line.f # f => bdaddrs'[line.f] = bdaddrs[line.f]
  BY <1>2 DEF locked_delete_from_dict
<1>4. QED
  BY <1>1, <1>3 DEF IInv, MoveInv

LEMMA CollectorMove ==
    ASSUME NEW f \in Family, IInv, collector_thread(f) PROVE MoveInv'
<1>0. bdaddrs \in [Family -> Dict] /\ deprioritized \in [Family -> Dict] /\ line.f \in Family
  BY DEF IInv, ControlInv, TypeOK, LineState
<1>u. ASSUME UNCHANGED <<line, bdaddrs, deprioritized>> PROVE MoveInv'
  BY <1>u DEF IInv, MoveInv
<1>8. CASE SkipDevice(f)
  BY <1>8, DeleteMove DEF SkipDevice
<1>11. CASE reprioritize_bdaddr(f)
  <2>1. CASE th[f].cur \in Keys(deprioritized[f])
    <3>1. th[f].cur \in Addr /\ deprioritized[f][th[f].cur] \in Rssi
      BY <1>0, <2>1, DictLookup
    <3>2. \A g \in Family : Keys(bdaddrs[g]) \subseteq Keys(bdaddrs'[g])
      BY <1>0, <1>11, <2>1, <3>1, DictPut DEF reprioritize_bdaddr
    <3>3. line' = line
      BY <1>11 DEF reprioritize_bdaddr
    <3>4. CASE f = "BLE"
      <4>1. lock[BdaddrsLock("BLE")] = "BLE"
        BY <1>11, <3>4, HoldsCases, LockNames
           DEF reprioritize_bdaddr, At, IInv, LockInv, CollectorHolds, ReprioritizeLock, Threads
      <4>2. ~MainHolds(BdaddrsLock("BLE"))
        BY <4>1, HoldsCases, LockNames DEF IInv, LockInv, Threads, Family
      <4>3. QED
        BY <3>2, <3>3, <4>2, <1>0 DEF IInv, MoveInv, MainHolds
    <3>5. CASE f # "BLE"
      <4>1. deprioritized'["BLE"] = deprioritized["BLE"]
        BY <1>0, <1>11, <2>1, <3>5 DEF reprioritize_bdaddr, Family
      <4>2. QED
        BY <3>2, <3>3, <4>1, <1>0 DEF IInv, MoveInv
    <3>6. QED
      BY <3>4, <3>5
  <2>2. CASE th[f].cur \notin Keys(deprioritized[f])
    BY <1>11, <1>u, <2>2 DEF reprioritize_bdaddr
  <2>3. QED
    BY <2>1, <2>2
<1>15. CASE RemoveFinished(f)
  BY <1>15, DeleteMove DEF RemoveFinished
<1>21. CASE Reboot(f)
  BY <1>21, RebootIInv DEF ControlInv, IInv
<1>r. CASE ~(SkipDevice(f) \/ reprioritize_bdaddr(f) \/ RemoveFinished(f) \/ Reboot(f))
  BY <1>r, <1>u
     DEF collector_thread, TakeSnapshot, EvaluateKey, NextDevice, SortDone, ListDone,
         BusyWaitOver, CheckAttempts, ChooseDeprioritized, ReprioritizeEnter, CountAttempt,
         NotYetCollected, AlreadyCollected, CheckStillKnown, RecheckStillKnown, LaunchTool,
         LogWriteFails, LaunchFails, RebootFails, JoinThreads, shared
<1>24. QED
  BY <1>8, <1>11, <1>15, <1>21, <1>r

LEMMA AppMove ==
    ASSUME NEW i \in Apps, IInv, ApplicationThread_run(i) PROVE MoveInv'
<1>1. CASE RemoveCollected(i)
  BY <1>1, DeleteMove DEF RemoveCollected, FamilyOf, Family
<1>2. CASE ~RemoveCollected(i)
  BY <1>2 DEF IInv, MoveInv, ApplicationThread_run, ToolSucceeds, ToolFails, ToolTimesOut,
              SuccessLogFails, RecordSuccess, CheckAllDone, shared
<1>3. QED
  BY <1>1, <1>2

----------------------------------------------------------------------------
(* The invariant is inductive. *)
LEMMA NextIInv == IInv /\ [Next]_vars => IInv'
<1> SUFFICES ASSUME IInv, [Next]_vars PROVE IInv'
  OBVIOUS
<1>1. CASE process_line
  BY <1>1, MainControl, MainLock, MainMove DEF IInv
<1>2. ASSUME NEW f \in Enabled, collector_thread(f) PROVE IInv'
  <2>1. f \in Family
    BY LauncherAssumption
  <2>2. QED
    BY <1>2, <2>1, CollectorControl, CollectorLock, CollectorMove DEF IInv
<1>3. ASSUME NEW i \in Apps, ApplicationThread_run(i) PROVE IInv'
  BY <1>3, AppControl, AppLock, AppMove DEF IInv
<1>4. CASE UNCHANGED vars
  BY <1>4 DEF IInv, ControlInv, TypeOK, LineInv, ThreadInv, AppInv, LockInv, Holds, MainHolds,
              CollectorHolds, AppHolds, MoveInv, vars
<1>5. QED
  BY <1>1, <1>2, <1>3, <1>4 DEF Next, Quiescent

LEMMA AlwaysIInv == Spec => []IInv
  BY InitIInv, NextIInv, PTL DEF Spec

(* The globals and every thread's registers keep their types: the threads   *)
(* never look a device up under None, nor a tool that is not the family's.  *)
THEOREM TypeCorrect == Spec => []TypeOK
<1>1. IInv => TypeOK
  BY DEF IInv, ControlInv
<1>2. QED
  BY <1>1, AlwaysIInv, PTL

(* A thread that holds one of the locks waits only for a lock further down: *)
(* success, then bdaddrs, then deprioritized, and the last are never held   *)
(* across a wait.                                                           *)
LEMMA LockOrder ==
    ASSUME ControlInv, NEW q \in Threads, NEW k \in Locks, Holds(q, k)
    PROVE  /\ \A f \in Family : k # DeprioritizedLock(f)
           /\ \A l \in Wants(q) : \/ \E f \in Family : l = DeprioritizedLock(f)
                                  \/ /\ \E f \in Family : l = BdaddrsLock(f)
                                     /\ \A f \in Family : k # BdaddrsLock(f)
<1> USE LauncherAssumption DEF ControlInv, TypeOK
<1>1. CASE q = "main"
  BY <1>1 DEF Holds, MainHolds, Wants, MainWants, BdaddrsLock, DeprioritizedLock, LineState
<1>2. CASE q \in Family
  <2>1. q # "main"
    BY <1>2 DEF Family
  <2>2. CollectorHolds(q, k)
    BY <1>2, <2>1 DEF Holds
  <2>3. Wants(q) = CollectorWants(q)
    BY <1>2, <2>1 DEF Wants
  <2>4. QED
    BY <1>2, <2>2, <2>3 DEF CollectorHolds, CollectorWants, BdaddrsLock, DeprioritizedLock,
                            SuccessLock, ReprioritizeLock, Family
<1>3. CASE q \in Apps
  <2>1. q # "main" /\ q \notin Family
    BY <1>3
  <2>2. AppHolds(q, k)
    BY <2>1 DEF Holds
  <2>3. Wants(q) = AppWants(q)
    BY <2>1 DEF Wants
  <2>4. QED
    BY <2>2, <2>3 DEF AppHolds, AppWants, BdaddrsLock, DeprioritizedLock, SuccessLock,
                      FamilyOf, Family
<1>4. QED
  BY <1>1, <1>2, <1>3 DEF Threads

(* A lock a thread waits for is one of the seven. *)
LEMMA WantsLocks ==
    ASSUME ControlInv, NEW q \in Threads, NEW l \in Wants(q) PROVE l \in Locks
<1> USE LauncherAssumption DEF ControlInv, TypeOK
<1>1. CASE q = "main"
  BY <1>1 DEF Wants, MainWants, LineState, Locks
<1>2. CASE q \in Family
  <2>1. l \in CollectorWants(q)
    BY <1>2 DEF Wants, Family
  <2>2. th[q].at = "success" => th[q].tool \in Tool
    BY <1>2 DEF ThreadInv, ThreadSet, InStage
  <2>3. QED
    BY <1>2, <2>1, <2>2, LockNames DEF CollectorWants, Locks
<1>3. CASE q \in Apps
  <2>1. l \in AppWants(q)
    BY <1>3 DEF Wants
  <2>2. app[q].at # "free" => app[q].tool \in Tool
    BY <1>3 DEF AppInv, AppSet
  <2>3. QED
    BY <2>1, <2>2, LockNames DEF AppWants, FamilyOf, Family
<1>4. QED
  BY <1>1, <1>2, <1>3 DEF Threads

(* The seven locks cannot deadlock, however many tool processes run: a      *)
(* circle of waiting threads would have to go down the lock order for ever. *)
THEOREM DeadlockFree == Spec => []NoDeadlock
<1>1. IInv => NoDeadlock
  <2> SUFFICES ASSUME IInv, NEW P \in SUBSET Threads, P # {},
                      \A p \in P : BlockedIn(p, P)
               PROVE  FALSE
    BY DEF NoDeadlock
  <2>0. ControlInv
    BY DEF IInv
  <2>1. ASSUME NEW p \in P
        PROVE  \E q \in P, l \in Wants(p) : l \in Locks /\ Holds(q, l)
    <3>1. PICK l \in Wants(p) : lock[l] \in P
      BY <2>1 DEF BlockedIn
    <3>2. p \in Threads /\ lock[l] \in Threads
      BY <3>1, <2>1
    <3>3. l \in Locks
      BY <2>0, <3>2, WantsLocks
    <3>4. Holds(lock[l], l)
      BY <3>2, <3>3 DEF IInv, LockInv
    <3>5. QED
      BY <3>1, <3>3, <3>4
  <2>2. PICK p \in P : TRUE
    OBVIOUS
  <2>3. PICK q1 \in P, l1 \in Wants(p) : l1 \in Locks /\ Holds(q1, l1)
    BY <2>1
  <2>4. PICK q2 \in P, l2 \in Wants(q1) : l2 \in Locks /\ Holds(q2, l2)
    BY <2>1
  <2>5. PICK q3 \in P, l3 \in Wants(q2) : l3 \in Locks /\ Holds(q3, l3)
    BY <2>1
  <2>6. \E f \in Family : l2 = BdaddrsLock(f)
    BY <2>0, <2>3, <2>4, LockOrder
  <2>7. \E f \in Family : l3 = DeprioritizedLock(f)
    BY <2>0, <2>4, <2>5, <2>6, LockOrder
  <2>8. QED
    BY <2>0, <2>5, <2>7, LockOrder
<1>2. QED
  BY <1>1, AlwaysIInv, PTL

----------------------------------------------------------------------------
(* No device is lost, but for BTC devices in one place: the main thread has *)
(* listed the device as deprioritized, and it has been put back since.      *)
LostHere(g, a) ==
    /\ g = "BTC" /\ line.at = "apple_del" /\ line.f = "BTC" /\ line.a = a
    /\ a \notin Keys(deprioritized["BTC"])

Kept(g) == \A a \in Tracked(g) : a \in Tracked(g)' \/ MayForget(g, a) \/ LostHere(g, a)

LEMMA MainKeeps == ASSUME IInv, NEW g \in Family, process_line PROVE Kept(g)
<1>0. /\ bdaddrs \in [Family -> Dict] /\ deprioritized \in [Family -> Dict]
      /\ line \in LineState /\ line.f \in Family
      /\ line.at # "read" => line.a \in Addr
  BY DEF IInv, ControlInv, TypeOK, LineState, LineInv, Family
<1>g. ASSUME Keys(bdaddrs[g]) \subseteq Keys(bdaddrs'[g]),
             Keys(deprioritized[g]) \subseteq Keys(deprioritized'[g])
      PROVE  Kept(g)
  BY <1>g DEF Kept, Tracked
<1>1. ASSUME NEW l \in Lines, ReadLine(l) PROVE Kept(g)
  BY <1>1, <1>g DEF ReadLine
<1>2. CASE InsertNew
  <2>1. Keys(Put(bdaddrs[line.f], line.a, NewRssi)) = Keys(bdaddrs[line.f]) \cup {line.a}
    BY <1>0, <1>2, DictPut, LauncherAssumption DEF InsertNew
  <2>2. QED
    BY <1>0, <1>2, <1>g, <2>1 DEF InsertNew
<1>3. CASE UpdateRssi
  <2>1. Keys(Put(bdaddrs[line.f], line.a, line.r)) = Keys(bdaddrs[line.f]) \cup {line.a}
    BY <1>0, <1>3, DictPut DEF UpdateRssi, LineState
  <2>2. QED
    BY <1>0, <1>3, <1>g, <2>1 DEF UpdateRssi
<1>4. CASE AppleFound
  BY <1>4, <1>g DEF AppleFound
<1>5. CASE AppleNotFound
  BY <1>5, <1>g DEF AppleNotFound, shared
<1>6. CASE Deprioritize
  <2>1. line.a \in Keys(bdaddrs[line.f])
    BY <1>6 DEF Deprioritize, IInv, MoveInv
  <2>2. Keys(Put(deprioritized[line.f], line.a, bdaddrs[line.f][line.a]))
          = Keys(deprioritized[line.f]) \cup {line.a}
    BY <1>0, <2>1, DictPut, DictLookup
  <2>3. QED
    BY <1>0, <1>6, <1>g, <2>2 DEF Deprioritize
<1>7. CASE DeprioritizeDelete
  <2>1. CASE line.f = g
    <3>1. /\ line.at = "apple_del" /\ deprioritized' = deprioritized
          /\ line.a \in Keys(deprioritized[g]) \/ LostHere(g, line.a)
      BY <1>0, <1>7, <2>1 DEF DeprioritizeDelete, IInv, MoveInv, Family, LostHere
    <3>2. Keys(bdaddrs'[g]) = Keys(bdaddrs[g]) \ {line.a}
      BY <1>0, <1>7, <2>1, DictRemove DEF DeprioritizeDelete
    <3>3. QED
      BY <3>1, <3>2 DEF Kept, Tracked
  <2>2. CASE line.f # g
    BY <1>0, <1>7, <1>g, <2>2 DEF DeprioritizeDelete
  <2>3. QED
    BY <2>1, <2>2
<1>8. CASE DeleteDevice
  <2>1. CASE line.f = g
    <3>1. Keys(bdaddrs'[g]) = Keys(bdaddrs[g]) \ {line.a}
      BY <1>0, <1>8, <2>1, DictRemove DEF DeleteDevice, locked_delete_from_dict
    <3>2. QED
      BY <1>8, <3>1 DEF DeleteDevice, Kept, Tracked, MayForget
  <2>2. CASE line.f # g
    BY <1>0, <1>8, <1>g, <2>2 DEF DeleteDevice, locked_delete_from_dict
  <2>3. QED
    BY <2>1, <2>2
<1>9. QED
  BY <1>1, <1>2, <1>3, <1>4, <1>5, <1>6, <1>7, <1>8 DEF process_line

(* A deletion by another thread only concerns the device it names. *)
LEMMA DeleteKeeps ==
    ASSUME IInv, NEW f \in Family, NEW g \in Family, NEW a, locked_delete_from_dict(f, a),
           deprioritized' = deprioritized, f = g => MayForget(g, a)
    PROVE  Kept(g)
<1>0. bdaddrs \in [Family -> Dict]
  BY DEF IInv, ControlInv, TypeOK, Family
<1>1. CASE f = g
  <2>1. Keys(bdaddrs'[g]) = Keys(bdaddrs[g]) \ {a}
    BY <1>0, <1>1, DictRemove DEF locked_delete_from_dict
  <2>2. QED
    BY <1>1, <2>1 DEF Kept, Tracked
<1>2. CASE f # g
  BY <1>0, <1>2 DEF locked_delete_from_dict, Kept, Tracked
<1>3. QED
  BY <1>1, <1>2

(* Only these steps of a collector thread change the two dictionaries. *)
LEMMA OthersMoveNothing ==
    ASSUME NEW f \in Family, collector_thread(f),
           ~(SkipDevice(f) \/ reprioritize_bdaddr(f) \/ RemoveFinished(f) \/ Reboot(f))
    PROVE  bdaddrs' = bdaddrs /\ deprioritized' = deprioritized
<1>1. ASSUME NEW a \in Addr, EvaluateKey(f, a) PROVE UNCHANGED shared
  BY <1>1 DEF EvaluateKey
<1>2. ASSUME NEW a \in Addr, NextDevice(f, a) PROVE UNCHANGED shared
  BY <1>2 DEF NextDevice
<1>3. CASE ~ \E a \in Addr : EvaluateKey(f, a) \/ NextDevice(f, a)
  BY <1>3
     DEF collector_thread, TakeSnapshot, SortDone, ListDone, BusyWaitOver,
         CheckAttempts, ChooseDeprioritized, ReprioritizeEnter, CountAttempt,
         NotYetCollected, AlreadyCollected, CheckStillKnown, RecheckStillKnown, LaunchTool,
         LogWriteFails, LaunchFails, RebootFails, JoinThreads, shared
<1>4. QED
  BY <1>1, <1>2, <1>3 DEF shared

LEMMA CollectorKeeps ==
    ASSUME IInv, NEW f \in Family, NEW g \in Family, collector_thread(f) PROVE Kept(g)
<1>0. bdaddrs \in [Family -> Dict] /\ deprioritized \in [Family -> Dict]
  BY DEF IInv, ControlInv, TypeOK, Family
<1>u. ASSUME UNCHANGED <<bdaddrs, deprioritized>> PROVE Kept(g)
  BY <1>u DEF Kept, Tracked
<1>8. CASE SkipDevice(f)
  BY <1>8, DeleteKeeps DEF SkipDevice, MayForget, At
<1>11. CASE reprioritize_bdaddr(f)
  <2>1. CASE th[f].cur \in Keys(deprioritized[f])
    <3>1. th[f].cur \in Addr /\ deprioritized[f][th[f].cur] \in Rssi
      BY <1>0, <2>1, DictLookup
    <3>2. Keys(bdaddrs'[f]) = Keys(bdaddrs[f]) \cup {th[f].cur}
      BY <1>0, <1>11, <2>1, <3>1, DictPut DEF reprioritize_bdaddr
    <3>3. Keys(deprioritized'[f]) = Keys(deprioritized[f]) \ {th[f].cur}
      BY <1>0, <1>11, <2>1, DictRemove DEF reprioritize_bdaddr
    <3>4. f # g => UNCHANGED <<bdaddrs[g], deprioritized[g]>>
      BY <1>0, <1>11, <2>1 DEF reprioritize_bdaddr
    <3>5. QED
      BY <3>2, <3>3, <3>4 DEF Kept, Tracked
  <2>2. CASE th[f].cur \notin Keys(deprioritized[f])
    BY <1>11, <1>u, <2>2 DEF reprioritize_bdaddr
  <2>3. QED
    BY <2>1, <2>2
<1>15. CASE RemoveFinished(f)
  BY <1>15, DeleteKeeps DEF RemoveFinished, MayForget, At
<1>21. CASE Reboot(f)
  BY <1>21 DEF Reboot, At, Kept, MayForget
<1>r. CASE UNCHANGED <<bdaddrs, deprioritized>>
  BY <1>r, <1>u
<1>24. QED
  BY <1>8, <1>11, <1>15, <1>21, <1>r, OthersMoveNothing

LEMMA AppKeeps ==
    ASSUME IInv, NEW i \in Apps, NEW g \in Family, ApplicationThread_run(i) PROVE Kept(g)
<1>1. CASE RemoveCollected(i)
  <2>1. MayForget(g, app[i].a)
    BY <1>1 DEF RemoveCollected, MayForget
  <2>2. QED
    BY <1>1, <2>1, DeleteKeeps DEF RemoveCollected, FamilyOf, Family
<1>2. CASE ~RemoveCollected(i)
  BY <1>2 DEF Kept, Tracked, ApplicationThread_run, ToolSucceeds, ToolFails,
              ToolTimesOut, SuccessLogFails, RecordSuccess, CheckAllDone, shared
<1>3. QED
  BY <1>1, <1>2

LEMMA NextKeeps == ASSUME IInv, NEW g \in Family, Next PROVE Kept(g) \/ UNCHANGED vars
<1>1. CASE process_line
  BY <1>1, MainKeeps
<1>2. ASSUME NEW f \in Enabled, collector_thread(f) PROVE Kept(g)
  BY <1>2, LauncherAssumption, CollectorKeeps
<1>3. ASSUME NEW i \in Apps, ApplicationThread_run(i) PROVE Kept(g)
  BY <1>3, AppKeeps
<1>4. QED
  BY <1>1, <1>2, <1>3 DEF Next, Quiescent

(* A BLE device leaves the two dictionaries only by a [DEL] line, after too  *)
(* many attempts, when nothing is left to collect from it, or in a reboot:   *)
(* the moves between them, in any interleaving, do not lose it.              *)
THEOREM BleDevicesKept == Spec => NoBleDeviceLost
<1>1. IInv /\ [Next]_vars => [KeepsDevices("BLE")]_vars
  <2> SUFFICES ASSUME IInv, Next PROVE KeepsDevices("BLE") \/ UNCHANGED vars
    OBVIOUS
  <2>1. Kept("BLE") \/ UNCHANGED vars
    BY NextKeeps DEF Family
  <2>2. QED
    BY <2>1 DEF Kept, LostHere, KeepsDevices
<1>2. QED
  BY <1>1, AlwaysIInv, PTL DEF Spec, NoBleDeviceLost

(* Nor is a BTC device, whose way back takes the wrong lock (line 435), but  *)
(* in the one place where the main thread deletes, at line 390, what it has  *)
(* listed as deprioritized and another thread has put back since.            *)
THEOREM BtcDevicesKept == Spec => BtcDeviceLostOnlyHere
<1> DEFINE Lost ==
      \A a \in Tracked("BTC") :
         \/ a \in Tracked("BTC")' \/ MayForget("BTC", a)
         \/ line.at = "apple_del" /\ line.f = "BTC" /\ line.a = a
              /\ a \notin Keys(deprioritized["BTC"])
<1>1. IInv /\ [Next]_vars => [Lost]_vars
  <2> SUFFICES ASSUME IInv, Next PROVE Lost \/ UNCHANGED vars
    OBVIOUS
  <2>1. Kept("BTC") \/ UNCHANGED vars
    BY NextKeeps DEF Family
  <2>2. QED
    BY <2>1 DEF Kept, LostHere
<1>2. QED
  BY <1>1, AlwaysIInv, PTL DEF Spec, BtcDeviceLostOnlyHere

----------------------------------------------------------------------------
(* The attempts are bounded. *)

(* The threads between the comparison with max_connect_attempts and the     *)
(* increment: each has seen a counter below the bound.                      *)
Between(a) == {f \in Enabled : At(f, "attempt") /\ th[f].cur = a}

BoundedFor(a) ==
    attempts[a] + Cardinality(Between(a)) <= MaxAttempts + Cardinality(Enabled) - 1

LEMMA SubsetsOfEnabled ==
    ASSUME NEW S \in SUBSET Enabled, NEW T \in SUBSET S
    PROVE  /\ IsFiniteSet(S) /\ IsFiniteSet(T)
           /\ Cardinality(S) \in Nat /\ Cardinality(T) \in Nat /\ Cardinality(Enabled) \in Nat
           /\ Cardinality(T) <= Cardinality(S) /\ Cardinality(S) <= Cardinality(Enabled)
<1>1. IsFiniteSet(Family)
  <2>1. IsFiniteSet({"BLE"}) /\ IsFiniteSet({"BLE"} \cup {"BTC"})
    BY FS_Singleton, FS_AddElement
  <2>2. Family = {"BLE"} \cup {"BTC"}
    BY DEF Family
  <2>3. QED
    BY <2>1, <2>2
<1>2. Enabled \subseteq Family
  BY LauncherAssumption
<1>3. IsFiniteSet(Enabled)
  BY <1>1, <1>2, FS_Subset
<1>4. IsFiniteSet(S) /\ Cardinality(S) <= Cardinality(Enabled)
  BY <1>3, FS_Subset
<1>5. IsFiniteSet(T) /\ Cardinality(T) <= Cardinality(S)
  BY <1>4, FS_Subset
<1>6. QED
  BY <1>3, <1>4, <1>5, FS_CardinalityType

(* A counter below the bound may be anybody's. *)
LEMMA BelowIsBounded ==
    ASSUME NEW a \in Addr, attempts[a] \in Nat, attempts[a] < MaxAttempts
    PROVE  BoundedFor(a)
<1>1. Between(a) \in SUBSET Enabled
  BY DEF Between
<1>2. /\ Cardinality(Between(a)) \in Nat /\ Cardinality(Enabled) \in Nat
      /\ Cardinality(Between(a)) <= Cardinality(Enabled)
  BY <1>1, SubsetsOfEnabled
<1>3. MaxAttempts \in Nat
  BY LauncherAssumption
<1>4. QED
  BY <1>2, <1>3 DEF BoundedFor

(* Fewer threads in between and no more attempts. *)
LEMMA FewerIsBounded ==
    ASSUME NEW a \in Addr, BoundedFor(a), attempts[a] \in Nat, attempts'[a] \in Nat,
           attempts'[a] <= attempts[a], Between(a)' \subseteq Between(a)
    PROVE  BoundedFor(a)'
<1>1. Between(a) \in SUBSET Enabled /\ Between(a)' \in SUBSET Between(a)
  BY DEF Between
<1>2. /\ Cardinality(Between(a)) \in Nat /\ Cardinality(Between(a)') \in Nat
      /\ Cardinality(Enabled) \in Nat
      /\ Cardinality(Between(a)') <= Cardinality(Between(a))
  BY <1>1, SubsetsOfEnabled
<1>3. MaxAttempts \in Nat
  BY LauncherAssumption
<1>4. QED
  BY <1>2, <1>3 DEF BoundedFor

(* Nobody enters the stretch between the two. *)
NobodyEnters ==
    \A f \in Enabled : At(f, "attempt")' => At(f, "attempt") /\ th'[f].cur = th[f].cur

LEMMA NobodyBounded ==
    ASSUME IInv, IInv', NobodyEnters, NEW a \in Addr, BoundedFor(a),
           attempts'[a] <= attempts[a]
    PROVE  BoundedFor(a)'
<1>1. attempts[a] \in Nat /\ attempts'[a] \in Nat
  BY DEF IInv, ControlInv, TypeOK
<1>2. Between(a)' \subseteq Between(a)
  BY DEF NobodyEnters, Between
<1>3. QED
  BY <1>1, <1>2, FewerIsBounded

LEMMA CountBounded ==
    ASSUME IInv, IInv', NEW f \in Enabled, CountAttempt(f), NEW a \in Addr, BoundedFor(a)
    PROVE  BoundedFor(a)'
<1>0. /\ th \in [Family -> ThreadState] /\ f \in Family /\ Enabled \subseteq Family
      /\ attempts \in [Addr -> Nat] /\ At(f, "attempt")
      /\ attempts' = [attempts EXCEPT ![th[f].cur] = @ + 1]
  BY LauncherAssumption DEF IInv, ControlInv, TypeOK, CountAttempt
<1>1. /\ th'[f].at # "attempt" /\ \A g \in Family \ {f} : th'[g] = th[g]
  BY <1>0 DEF CountAttempt, Stage, ThreadState
<1>2. CASE th[f].cur = a
  <2>1. Between(a)' = Between(a) \ {f} /\ f \in Between(a) /\ Between(a) \in SUBSET Enabled
    BY <1>0, <1>1, <1>2 DEF Between, At
  <2>2. IsFiniteSet(Between(a)) /\ Cardinality(Between(a)) \in Nat
        /\ Cardinality(Enabled) \in Nat
    BY <2>1, SubsetsOfEnabled
  <2>3. Cardinality(Between(a)') = Cardinality(Between(a)) - 1
    BY <2>1, <2>2, FS_RemoveElement
  <2>4. attempts'[a] = attempts[a] + 1 /\ attempts[a] \in Nat
    BY <1>0, <1>2
  <2>5. MaxAttempts \in Nat
    BY LauncherAssumption
  <2>6. QED
    BY <2>2, <2>3, <2>4, <2>5 DEF BoundedFor
<1>3. CASE th[f].cur # a
  <2>1. attempts'[a] = attempts[a] /\ attempts[a] \in Nat
    BY <1>0, <1>3
  <2>2. Between(a)' \subseteq Between(a)
    BY <1>0, <1>1 DEF Between, At
  <2>3. QED
    BY <2>1, <2>2, FewerIsBounded
<1>4. QED
  BY <1>2, <1>3

LEMMA CheckBounded ==
    ASSUME IInv, IInv', NEW f \in Enabled, CheckAttempts(f), NEW a \in Addr, BoundedFor(a)
    PROVE  BoundedFor(a)'
<1>0. /\ th \in [Family -> ThreadState] /\ f \in Family /\ Enabled \subseteq Family
      /\ attempts \in [Addr -> Nat] /\ attempts' = attempts
  BY LauncherAssumption DEF IInv, ControlInv, TypeOK, CheckAttempts, shared
<1>1. /\ \A g \in Family \ {f} : th'[g] = th[g]
      /\ th'[f].cur = th[f].cur
      /\ Exhausted(th[f].cur) => th'[f].at = "skip"
  BY <1>0 DEF CheckAttempts, ThreadState
<1>2. CASE th[f].cur = a /\ ~Exhausted(a)
  <2>1. attempts[a] < MaxAttempts /\ attempts[a] \in Nat
    BY <1>0, <1>2, LauncherAssumption DEF Exhausted
  <2>2. Between(a)' \in SUBSET Enabled
    BY DEF Between
  <2>3. /\ Cardinality(Between(a)') \in Nat /\ Cardinality(Enabled) \in Nat
        /\ Cardinality(Between(a)') <= Cardinality(Enabled)
    BY <2>2, SubsetsOfEnabled
  <2>4. QED
    BY <1>0, <2>1, <2>3, LauncherAssumption DEF BoundedFor
<1>3. CASE ~(th[f].cur = a /\ ~Exhausted(a))
  <2>1. Between(a)' \subseteq Between(a)
    BY <1>0, <1>1, <1>3 DEF Between, At
  <2>2. QED
    BY <1>0, <2>1, FewerIsBounded
<1>4. QED
  BY <1>2, <1>3

LEMMA StepBounded ==
    ASSUME IInv, IInv', Next, NEW a \in Addr, BoundedFor(a)
    PROVE  BoundedFor(a)'
<1>0. /\ th \in [Family -> ThreadState] /\ Enabled \subseteq Family
      /\ attempts \in [Addr -> Nat] /\ attempts' \in [Addr -> Nat]
      /\ MaxAttempts \in Nat \ {0}
  BY LauncherAssumption DEF IInv, ControlInv, TypeOK
<1>1. ASSUME process_line PROVE BoundedFor(a)'
  <2>1. NobodyEnters
    BY <1>1 DEF process_line, ReadLine, InsertNew, UpdateRssi, AppleFound, AppleNotFound,
                Deprioritize, DeprioritizeDelete, DeleteDevice, NobodyEnters, At
  <2>2. attempts'[a] <= attempts[a] \/ attempts'[a] = 0
    <3>1. ASSUME NEW l \in Lines, ReadLine(l) PROVE attempts'[a] <= attempts[a] \/ attempts'[a] = 0
      BY <1>0, <3>1 DEF ReadLine
    <3>2. ASSUME UpdateRssi PROVE attempts'[a] <= attempts[a]
      BY <1>0, <3>2 DEF UpdateRssi, GiveAttemptBack
    <3>3. ASSUME process_line, ~UpdateRssi, \A l \in Lines : ~ReadLine(l)
          PROVE attempts'[a] <= attempts[a]
      BY <1>0, <3>3 DEF process_line, InsertNew, AppleFound, AppleNotFound, Deprioritize,
                        DeprioritizeDelete, DeleteDevice, shared
    <3>4. QED
      BY <1>1, <3>1, <3>2, <3>3
  <2>3. CASE attempts'[a] <= attempts[a]
    BY <2>1, <2>3, NobodyBounded
  <2>4. CASE attempts'[a] = 0
    <3>1. Between(a)' \in SUBSET Enabled
      BY DEF Between
    <3>2. /\ Cardinality(Between(a)') \in Nat /\ Cardinality(Enabled) \in Nat
          /\ Cardinality(Between(a)') <= Cardinality(Enabled)
      BY <3>1, SubsetsOfEnabled
    <3>3. QED
      BY <1>0, <2>4, <3>2 DEF BoundedFor
  <2>5. QED
    BY <2>2, <2>3, <2>4
<1>2. ASSUME NEW f \in Enabled, collector_thread(f) PROVE BoundedFor(a)'
  <2>0. f \in Family
    BY <1>0
  <2>1. CASE CountAttempt(f)
    BY <2>1, CountBounded
  <2>2. CASE CheckAttempts(f)
    BY <2>2, CheckBounded
  <2>3. CASE Reboot(f)
    <3>1. attempts'[a] = 0 /\ \A g \in Enabled : ~(th'[g].at = "attempt")
      BY <1>0, <2>3 DEF Reboot, Boot, NewThread
    <3>2. NobodyEnters
      BY <3>1 DEF NobodyEnters, At
    <3>3. QED
      BY <1>0, <3>1, <3>2, NobodyBounded
  <2>r. CASE ~(CountAttempt(f) \/ CheckAttempts(f) \/ Reboot(f))
    <3>1. attempts' = attempts
      BY <1>2, <2>r
         DEF collector_thread, TakeSnapshot, EvaluateKey, NextDevice, SortDone, ListDone,
             BusyWaitOver, SkipDevice, ChooseDeprioritized, ReprioritizeEnter,
             reprioritize_bdaddr, NotYetCollected, AlreadyCollected, RemoveFinished,
             CheckStillKnown, RecheckStillKnown, LaunchTool, LogWriteFails, LaunchFails,
             RebootFails, JoinThreads, shared
    <3>2. \A g \in Family \ {f} : th'[g] = th[g]
      BY <1>0, <1>2, <2>0, <2>r
         DEF collector_thread, TakeSnapshot, EvaluateKey, NextDevice, SortDone, ListDone,
             BusyWaitOver, SkipDevice, ChooseDeprioritized, ReprioritizeEnter,
             reprioritize_bdaddr, NotYetCollected, AlreadyCollected, RemoveFinished,
             CheckStillKnown, RecheckStillKnown, LaunchTool, LogWriteFails, LaunchFails,
             RebootFails, JoinThreads, Goto, Stage, Die
    <3>3. th'[f].at # "attempt"
      <4>1. ASSUME NEW b \in Addr, EvaluateKey(f, b) \/ NextDevice(f, b) PROVE th'[f].at # "attempt"
        BY <1>0, <2>0, <4>1 DEF EvaluateKey, NextDevice, Die, At, NewThread, ThreadState
      <4>2. CASE TakeSnapshot(f) \/ SortDone(f) \/ ListDone(f) \/ BusyWaitOver(f) \/ SkipDevice(f)
        BY <1>0, <2>0, <4>2 DEF TakeSnapshot, SortDone, ListDone, BusyWaitOver, SkipDevice, Goto,
                                ThreadState
      <4>3. CASE \/ ChooseDeprioritized(f) \/ ReprioritizeEnter(f) \/ reprioritize_bdaddr(f)
                 \/ NotYetCollected(f) \/ JoinThreads(f) \/ LaunchFails(f)
        BY <1>0, <2>0, <4>3 DEF ChooseDeprioritized, ReprioritizeEnter, reprioritize_bdaddr,
                                NotYetCollected, JoinThreads, LaunchFails, Goto, ThreadState
      <4>4. CASE \/ AlreadyCollected(f) \/ RemoveFinished(f) \/ CheckStillKnown(f)
                 \/ RecheckStillKnown(f)
        BY <1>0, <2>0, <4>4 DEF AlreadyCollected, RemoveFinished, CheckStillKnown,
                                RecheckStillKnown, Goto, Stage, ThreadState
      <4>5. CASE (\E i \in Apps : LaunchTool(f, i)) \/ RebootFails(f) \/ LogWriteFails(f)
        BY <1>0, <2>0, <4>5 DEF LaunchTool, RebootFails, LogWriteFails, Stage, Die, NewThread,
                                ThreadState
      <4>6. QED
        BY <1>2, <2>r, <4>1, <4>2, <4>3, <4>4, <4>5 DEF collector_thread
    <3>4. NobodyEnters
      BY <1>0, <3>2, <3>3 DEF NobodyEnters, At
    <3>5. QED
      BY <1>0, <3>1, <3>4, NobodyBounded
  <2>4. QED
    BY <2>1, <2>2, <2>3, <2>r
<1>3. ASSUME NEW i \in Apps, ApplicationThread_run(i) PROVE BoundedFor(a)'
  <2>1. attempts' = attempts /\ th' = th
    BY <1>3 DEF ApplicationThread_run, ToolSucceeds, ToolFails, ToolTimesOut, SuccessLogFails,
                RecordSuccess, CheckAllDone, RemoveCollected, shared
  <2>2. QED
    BY <1>0, <2>1, NobodyBounded DEF NobodyEnters, At
<1>4. ASSUME Quiescent PROVE BoundedFor(a)'
  BY <1>0, <1>4, NobodyBounded DEF NobodyEnters, At, Quiescent, vars
<1>5. QED
  BY <1>1, <1>2, <1>3, <1>4 DEF Next

(* device_connect_attempts passes max_connect_attempts by the number of      *)
(* threads between the comparison (line 464) and the increment (line 483)    *)
(* at most, although the two share the counter and take no lock, and a line  *)
(* of the log may reset it or give an attempt back in between.               *)
THEOREM AttemptsAreBounded == Spec => []AttemptsBounded
<1> DEFINE Bounded == \A a \in Addr : BoundedFor(a)
<1>1. Init => Bounded
  <2> SUFFICES ASSUME Init, NEW a \in Addr PROVE BoundedFor(a)
    OBVIOUS
  <2>1. attempts[a] = 0
    BY DEF Init, Boot
  <2>2. 0 < MaxAttempts
    BY LauncherAssumption
  <2>3. QED
    BY <2>1, <2>2, BelowIsBounded
<1>2. IInv /\ IInv' /\ Bounded /\ [Next]_vars => Bounded'
  <2> SUFFICES ASSUME IInv, IInv', Bounded, [Next]_vars, NEW a \in Addr PROVE BoundedFor(a)'
    OBVIOUS
  <2>1. CASE Next
    BY <2>1, StepBounded
  <2>2. CASE UNCHANGED vars
    BY <2>2 DEF BoundedFor, Between, At, vars
  <2>3. QED
    BY <2>1, <2>2
<1>3. Bounded => AttemptsBounded
  BY DEF BoundedFor, Between, AttemptsBounded
<1>4. QED
  BY <1>1, <1>2, <1>3, AlwaysIInv, PTL DEF Spec

----------------------------------------------------------------------------
(* The launcher implements ToolSchedule. *)

(* The thread of a family waits for its jobs, is gone, or has gone on from  *)
(* the first tool to the second one meanwhile.                              *)
Beside(i, r) ==
    \/ r.at \in {"join", "dead"}
    \/ r.at \in InStage /\ r.tool = "SDP" /\ app[i].tool = "LMP2thprint"

(* Between the look at the success dictionary and the launch. *)
Launching == {"member", "lock", "popen", "reboot"}

ToDo(r) == r.at \in Launching => r.cur \notin success[r.tool]

(* Each tool has one job at most, and the device a thread is about to       *)
(* launch a tool for has still not been collected: nobody else could have.  *)
JobInv ==
    /\ \A i \in Apps : app[i].at # "free" => Beside(i, th[FamilyOf(app[i].tool)])
    /\ \A i, j \in Apps : app[i].at # "free" /\ app[j].at # "free"
                            /\ app[i].tool = app[j].tool => i = j
    /\ \A f \in Family : ToDo(th[f])

(* What the step of a thread has to leave, if it launches nothing. *)
LEMMA ThreadKeepsJobs ==
    ASSUME NEW f \in Family, NEW r, th \in [Family -> ThreadState], JobInv,
           th' = [th EXCEPT ![f] = r], app' = app, success' = success,
           \A i \in Apps : app[i].at # "free" /\ FamilyOf(app[i].tool) = f => Beside(i, r),
           ToDo(r)
    PROVE  JobInv'
<1>1. \A i \in Apps : app[i].at # "free" => Beside(i, th'[FamilyOf(app[i].tool)])
  BY DEF JobInv, FamilyOf, Family
<1>2. \A g \in Family : ToDo(th'[g])
  BY DEF JobInv
<1>3. QED
  BY <1>1, <1>2 DEF JobInv, Beside, ToDo

(* Outside of the stages and of join() a thread has no job. *)
LEMMA NoJobs ==
    ASSUME NEW f \in Family, JobInv, th[f].at \notin InStage \cup {"join", "dead"},
           NEW i \in Apps, app[i].at # "free"
    PROVE  FamilyOf(app[i].tool) # f
  BY DEF JobInv, Beside

(* Going on to the next tool, if there is one. *)
LEMMA StageKeepsJobs ==
    ASSUME NEW f \in Family, ControlInv, JobInv, th[f].at \in InStage,
           Stage(f, ToolAfter(th[f].tool)), app' = app, success' = success
    PROVE  JobInv'
<1> DEFINE t == ToolAfter(th[f].tool)
           r == [th[f] EXCEPT !.tool = t, !.at = IF t = NONE THEN "join" ELSE "success"]
<1>1. th \in [Family -> ThreadState] /\ th[f] \in ThreadState
  BY DEF ControlInv, TypeOK
<1>2. th' = [th EXCEPT ![f] = r]
  BY DEF Stage
<1>3. r.at \in {"join", "success"} /\ (th[f].tool = "SDP" => r.at = "join")
  BY <1>1 DEF ThreadState, ToolAfter
<1>4. ASSUME NEW i \in Apps, app[i].at # "free", FamilyOf(app[i].tool) = f
      PROVE  Beside(i, r)
  <2>1. th[f].tool = "SDP"
    BY <1>4 DEF JobInv, Beside, InStage
  <2>2. QED
    BY <1>3, <2>1 DEF Beside
<1>5. ToDo(r)
  BY <1>3 DEF ToDo, Launching
<1> HIDE DEF r
<1>6. QED
  BY <1>1, <1>2, <1>4, <1>5, ThreadKeepsJobs

(* Going on within the stage of a tool. *)
LEMMA GotoKeepsJobs ==
    ASSUME NEW f \in Family, ControlInv, JobInv, th[f].at \in InStage,
           NEW p \in InStage \cup {"dead"}, Goto(f, p), app' = app, success' = success,
           p \in Launching => th[f].cur \notin success[th[f].tool]
    PROVE  JobInv'
<1> DEFINE r == [th[f] EXCEPT !.at = p]
<1>1. th \in [Family -> ThreadState] /\ th[f] \in ThreadState
  BY DEF ControlInv, TypeOK
<1>2. th' = [th EXCEPT ![f] = r]
  BY DEF Goto
<1>3. r.at = p /\ r.tool = th[f].tool /\ r.cur = th[f].cur
  BY <1>1 DEF ThreadState
<1>4. ASSUME NEW i \in Apps, app[i].at # "free", FamilyOf(app[i].tool) = f
      PROVE  Beside(i, r)
  <2>1. th[f].tool = "SDP" /\ app[i].tool = "LMP2thprint"
    BY <1>4 DEF JobInv, Beside, InStage
  <2>2. QED
    BY <1>3, <2>1 DEF Beside
<1>5. ToDo(r)
  BY <1>3 DEF ToDo
<1> HIDE DEF r
<1>6. QED
  BY <1>1, <1>2, <1>4, <1>5, ThreadKeepsJobs

(* Going anywhere without a job. *)
LEMMA IdleKeepsJobs ==
    ASSUME NEW f \in Family, ControlInv, JobInv, app' = app, success' = success,
           \A g \in Family \ {f} : th'[g] = th[g], th'[f].at \notin Launching,
           \A i \in Apps : app[i].at # "free" => FamilyOf(app[i].tool) # f
    PROVE  JobInv'
<1>1. \A i \in Apps : app[i].at # "free" => Beside(i, th'[FamilyOf(app[i].tool)])
  BY DEF JobInv, FamilyOf, Family
<1>2. \A g \in Family : ToDo(th'[g])
  BY DEF JobInv, ToDo
<1>3. QED
  BY <1>1, <1>2 DEF JobInv, Beside, ToDo

(* The steps of a collector thread. *)
LEMMA LaunchKeepsJobs ==
    ASSUME NEW f \in Family, NEW i \in Apps, ControlInv, JobInv, LaunchTool(f, i)
    PROVE  JobInv' /\ \A j \in Apps : app[j].at # "free" => app[j].tool # th[f].tool
<1> DEFINE t == th[f].tool
           r == [th[f] EXCEPT !.tool = ToolAfter(t),
                              !.at = IF ToolAfter(t) = NONE THEN "join" ELSE "success"]
<1>1. /\ th \in [Family -> ThreadState] /\ th[f] \in ThreadState
      /\ app \in [Apps -> AppState] /\ AppInv
      /\ t \in Tool /\ FamilyOf(t) = f
  BY DEF ControlInv, TypeOK, ThreadInv, ThreadSet, LaunchTool, At, InStage
<1>2. /\ th' = [th EXCEPT ![f] = r] /\ success' = success
      /\ app' = [app EXCEPT ![i] = [at |-> "run", tool |-> t, a |-> th[f].cur]]
      /\ th[f].at = "popen" /\ app[i].at = "free"
  BY DEF LaunchTool, Stage, At
<1>3. /\ r.at \in {"join", "success"}
      /\ r.at = "join" \/ (t = "LMP2thprint" /\ r.at = "success" /\ r.tool = "SDP")
  BY <1>1, LauncherAssumption DEF ThreadState, ToolAfter, Tool
<1>4. ASSUME NEW j \in Apps, app[j].at # "free", FamilyOf(app[j].tool) = f
      PROVE  t = "SDP" /\ app[j].tool = "LMP2thprint"
  BY <1>2, <1>4 DEF JobInv, Beside
<1> HIDE DEF r
<1>5. \A j \in Apps : app[j].at # "free" => app[j].tool # t
  BY <1>1, <1>4
<1>6. ASSUME NEW j \in Apps, app'[j].at # "free"
      PROVE  Beside(j, th[FamilyOf(app[j].tool)])' 
  <2>1. CASE j = i
    <3>1. app'[j].tool = t /\ th'[FamilyOf(t)] = r
      BY <1>1, <1>2, <2>1
    <3>2. QED
      BY <1>3, <3>1 DEF Beside, InStage
  <2>2. CASE j # i
    <3>1. app'[j] = app[j] /\ app[j].tool \in Tool
      BY <1>1, <1>2, <1>6, <2>2 DEF AppInv, AppSet
    <3>2. CASE FamilyOf(app[j].tool) = f
      <4>1. th'[FamilyOf(app'[j].tool)] = r /\ r.at = "join"
        BY <1>1, <1>2, <1>3, <1>4, <1>6, <3>1, <3>2
      <4>2. QED
        BY <4>1 DEF Beside
    <3>3. CASE FamilyOf(app[j].tool) # f
      <4>1. th'[FamilyOf(app'[j].tool)] = th[FamilyOf(app[j].tool)]
        BY <1>1, <1>2, <3>1, <3>3 DEF FamilyOf, Family
      <4>2. Beside(j, th[FamilyOf(app[j].tool)])
        BY <1>6, <3>1 DEF JobInv
      <4>3. QED
        BY <3>1, <4>1, <4>2 DEF Beside
    <3>4. QED
      BY <3>2, <3>3
  <2>3. QED
    BY <2>1, <2>2
<1>7. \A j, k \in Apps : app'[j].at # "free" /\ app'[k].at # "free"
                            /\ app'[j].tool = app'[k].tool => j = k
  BY <1>1, <1>2, <1>5 DEF JobInv
<1>8. \A g \in Family : ToDo(th[g])'
  BY <1>1, <1>2, <1>3 DEF JobInv, ToDo, Launching
<1>9. QED
  BY <1>5, <1>6, <1>7, <1>8 DEF JobInv

LEMMA WanderKeepsJobs ==
    ASSUME NEW f \in Family, ControlInv, JobInv,
           \/ TakeSnapshot(f)
           \/ \E a \in Addr : EvaluateKey(f, a) \/ NextDevice(f, a)
           \/ SortDone(f) \/ ListDone(f) \/ BusyWaitOver(f) \/ CheckAttempts(f)
           \/ SkipDevice(f) \/ ChooseDeprioritized(f) \/ ReprioritizeEnter(f)
           \/ reprioritize_bdaddr(f) \/ CountAttempt(f) \/ JoinThreads(f)
    PROVE  JobInv' /\ app' = app /\ success' = success
<1> USE DEF At, Goto, Die, Stage, shared, world, Launching
<1>t. th \in [Family -> ThreadState] /\ th[f] \in ThreadState
  BY DEF ControlInv, TypeOK
<1>1. app' = app /\ success' = success
  BY DEF TakeSnapshot, EvaluateKey, NextDevice, SortDone, ListDone, BusyWaitOver, CheckAttempts,
     SkipDevice, ChooseDeprioritized, ReprioritizeEnter, reprioritize_bdaddr, CountAttempt, JoinThreads
<1>2. \A i \in Apps : app[i].at # "free" => FamilyOf(app[i].tool) # f
  <2>1. CASE JoinThreads(f)
    BY <2>1 DEF JoinThreads, Live
  <2>2. CASE ~JoinThreads(f)
    <3>1. th[f].at \notin InStage \cup {"join", "dead"}
      BY <2>2 DEF InStage, TakeSnapshot, EvaluateKey, NextDevice, SortDone, ListDone,
         BusyWaitOver, CheckAttempts, SkipDevice, ChooseDeprioritized, ReprioritizeEnter,
         reprioritize_bdaddr, CountAttempt
    <3>2. QED
      BY <3>1, NoJobs
  <2>3. QED
    BY <2>1, <2>2
<1>3. /\ \A g \in Family \ {f} : th'[g] = th[g]
      /\ th'[f].at \notin Launching
  <2> USE <1>t DEF ThreadState
  <2>1. CASE TakeSnapshot(f)
    BY <2>1 DEF TakeSnapshot
  <2>2. ASSUME NEW a \in Addr, EvaluateKey(f, a)
        PROVE  /\ \A g \in Family \ {f} : th'[g] = th[g]
               /\ th'[f].at \notin Launching
    <3>1. CASE Die(f)
      BY <3>1 DEF NewThread
    <3>2. CASE ~Die(f)
      <4>1. th[f].at = "sort"
        BY <2>2 DEF EvaluateKey
      <4>2. th' = [th EXCEPT ![f].keys = @ \ {a}, ![f].todo = Put(@, a, bdaddrs[f][a])]
        BY <2>2, <3>2 DEF EvaluateKey
      <4>3. QED
        BY <4>1, <4>2
    <3>3. QED
      BY <3>1, <3>2
  <2>3. ASSUME NEW a \in Addr, NextDevice(f, a)
        PROVE  /\ \A g \in Family \ {f} : th'[g] = th[g]
               /\ th'[f].at \notin Launching
    BY <2>3 DEF NextDevice
  <2>4. CASE SortDone(f) \/ BusyWaitOver(f) \/ SkipDevice(f) \/ ReprioritizeEnter(f)
                \/ reprioritize_bdaddr(f) \/ JoinThreads(f)
    <3>1. Goto(f, "next") \/ Goto(f, "snapshot") \/ Goto(f, "choose") \/ Goto(f, "restore")
      BY <2>4 DEF SortDone, BusyWaitOver, SkipDevice, ReprioritizeEnter, reprioritize_bdaddr,
         JoinThreads
    <3>2. QED
      BY <3>1
  <2>5. CASE ListDone(f)
    BY <2>5 DEF ListDone
  <2>6. CASE CheckAttempts(f)
    BY <2>6 DEF CheckAttempts
  <2>7. CASE ChooseDeprioritized(f)
    BY <2>7 DEF ChooseDeprioritized
  <2>8. CASE CountAttempt(f)
    BY <2>8 DEF CountAttempt
  <2>9. QED
    BY <2>1, <2>2, <2>3, <2>4, <2>5, <2>6, <2>7, <2>8
<1>4. QED
  BY <1>1, <1>2, <1>3, IdleKeepsJobs

LEMMA ToolStepKeepsJobs ==
    ASSUME NEW f \in Family, ControlInv, JobInv,
           \/ NotYetCollected(f) \/ AlreadyCollected(f) \/ RemoveFinished(f)
           \/ CheckStillKnown(f) \/ RecheckStillKnown(f)
           \/ LogWriteFails(f) \/ LaunchFails(f) \/ RebootFails(f)
    PROVE  JobInv' /\ app' = app /\ success' = success
<1> USE DEF At, shared, world, Launching, InStage
<1>1. app' = app /\ success' = success
  BY DEF NotYetCollected, AlreadyCollected, RemoveFinished, CheckStillKnown, RecheckStillKnown,
     LogWriteFails, LaunchFails, RebootFails
<1>2. th[f].at \in InStage
  BY DEF NotYetCollected, AlreadyCollected, RemoveFinished, CheckStillKnown, RecheckStillKnown,
     LogWriteFails, LaunchFails, RebootFails
<1>3. th[f].at \in Launching => th[f].cur \notin success[th[f].tool]
  BY DEF JobInv, ToDo
<1>4. CASE Stage(f, ToolAfter(th[f].tool))
  BY <1>1, <1>2, <1>4, StageKeepsJobs
<1>5. CASE \E p \in InStage : Goto(f, p) /\ (p \in Launching => th[f].cur \notin success[th[f].tool])
  BY <1>1, <1>2, <1>5, GotoKeepsJobs
<1>6. CASE RemoveFinished(f) /\ f = "BLE"
  <2>1. \A i \in Apps : app[i].at # "free" => FamilyOf(app[i].tool) # f
    <3> SUFFICES ASSUME NEW i \in Apps, app[i].at # "free", FamilyOf(app[i].tool) = f
                 PROVE  FALSE
      OBVIOUS
    <3>1. app[i].tool = "LMP2thprint"
      BY <1>2 DEF JobInv, Beside
    <3>2. QED
      BY <1>6, <3>1 DEF FamilyOf
  <2>2. th \in [Family -> ThreadState] /\ th[f] \in ThreadState
    BY DEF ControlInv, TypeOK
  <2>3. /\ \A g \in Family \ {f} : th'[g] = th[g]
        /\ th'[f].at \notin Launching
    BY <1>6, <2>2 DEF RemoveFinished, Goto, ThreadState
  <2>4. QED
    BY <1>1, <2>1, <2>3, IdleKeepsJobs
<1>7. CASE LogWriteFails(f)
  <2> DEFINE r == [NewThread(f) EXCEPT !.at = "dead"]
  <2>1. th' = [th EXCEPT ![f] = r]
    BY <1>7 DEF LogWriteFails, Die
  <2>2. r.at = "dead"
    BY DEF NewThread
  <2> HIDE DEF r
  <2>3. QED
    BY <1>1, <2>1, <2>2, ThreadKeepsJobs DEF ControlInv, TypeOK, Beside, ToDo
<1>8. QED
  <2>1. CASE NotYetCollected(f)
    BY <1>5, <2>1 DEF NotYetCollected
  <2>2. CASE AlreadyCollected(f)
    BY <1>4, <1>5, <2>2 DEF AlreadyCollected
  <2>3. CASE RemoveFinished(f)
    BY <1>4, <1>6, <2>3 DEF RemoveFinished
  <2>4. CASE CheckStillKnown(f)
    BY <1>3, <1>4, <1>5, <2>4 DEF CheckStillKnown
  <2>5. CASE RecheckStillKnown(f)
    BY <1>3, <1>4, <1>5, <2>5 DEF RecheckStillKnown
  <2>6. CASE LaunchFails(f)
    BY <1>3, <1>5, <2>6 DEF LaunchFails
  <2>7. CASE RebootFails(f)
    BY <1>4, <2>7 DEF RebootFails
  <2>8. QED
    BY <1>7, <2>1, <2>2, <2>3, <2>4, <2>5, <2>6, <2>7

(* The steps of an ApplicationThread: only its tool's success is recorded,  *)
(* and the thread of its family is not about to launch that tool.           *)
LEMMA AppKeepsJobs ==
    ASSUME NEW i \in Apps, ControlInv, JobInv, ApplicationThread_run(i)
    PROVE  JobInv'
<1> USE DEF shared, world
<1>1. /\ app \in [Apps -> AppState] /\ app[i] \in AppState /\ AppInv
      /\ success \in [Tool -> SUBSET Addr] /\ ThreadInv
      /\ th' = th /\ app[i].at # "free"
      /\ app[i].tool \in Tool /\ FamilyOf(app[i].tool) \in Family
  BY DEF ControlInv, TypeOK, ApplicationThread_run, ToolSucceeds, ToolFails, ToolTimesOut,
     SuccessLogFails, RecordSuccess, CheckAllDone, RemoveCollected, AppInv, AppSet, FamilyOf, Family
<1>2. /\ \A j \in Apps \ {i} : app'[j] = app[j]
      /\ app'[i].at # "free" => app'[i].tool = app[i].tool
  <2>1. AppEnds(i) \/ AppGoto(i, "record") \/ AppGoto(i, "done?") \/ AppGoto(i, "delete")
    BY DEF ApplicationThread_run, ToolSucceeds, ToolFails, ToolTimesOut, SuccessLogFails,
       RecordSuccess, CheckAllDone, RemoveCollected
  <2>2. QED
    BY <1>1, <2>1 DEF AppEnds, AppGoto, NoApp, AppState
<1>3. \A j \in Apps : app'[j].at # "free" => app[j].at # "free" /\ app'[j].tool = app[j].tool
  BY <1>1, <1>2
<1>4. \A j \in Apps : app'[j].at # "free" => Beside(j, th[FamilyOf(app[j].tool)])'
  BY <1>1, <1>3 DEF JobInv, Beside
<1>5. \A j, k \in Apps : app'[j].at # "free" /\ app'[k].at # "free"
                            /\ app'[j].tool = app'[k].tool => j = k
  BY <1>3 DEF JobInv
<1>6. \A t \in Tool \ {app[i].tool} : success'[t] = success[t]
  BY <1>1 DEF ApplicationThread_run, ToolSucceeds, ToolFails, ToolTimesOut,
     SuccessLogFails, RecordSuccess, CheckAllDone, RemoveCollected
<1>7. ASSUME NEW f \in Family, th[f].at \in Launching
      PROVE  th[f].tool \in Tool \ {app[i].tool}
  <2>1. th[f].tool \in Tool /\ FamilyOf(th[f].tool) = f
    BY <1>1, <1>7 DEF ThreadInv, ThreadSet, Launching, InStage
  <2>2. CASE FamilyOf(app[i].tool) = f
    <3>1. Beside(i, th[f])
      BY <1>1, <2>2 DEF JobInv
    <3>2. QED
      BY <1>7, <2>1, <3>1 DEF Beside, Launching
  <2>3. QED
    BY <2>1, <2>2
<1>8. \A f \in Family : ToDo(th[f])'
  BY <1>1, <1>6, <1>7 DEF JobInv, ToDo
<1>9. QED
  BY <1>4, <1>5, <1>8 DEF JobInv

(* At the start and after a reboot. *)
LEMMA BootJobs ==
    ASSUME NEW b, NEW d, NEW n, NEW s, NEW l, NEW ln, NEW t, NEW ap,
           Boot(b, d, n, s, l, ln, t, ap)
    PROVE  /\ \A i \in Apps : ap[i].at = "free"
           /\ \A f \in Family : t[f].at \notin Launching
           /\ s = [u \in Tool |-> {}]
  BY DEF Boot, NoApp, NewThread, Launching

LEMMA InitJobs == Init => JobInv
  BY BootJobs DEF Init, JobInv, ToDo

LEMMA NextJobs == IInv /\ JobInv /\ [Next]_vars => JobInv'
<1> SUFFICES ASSUME ControlInv, JobInv, [Next]_vars PROVE JobInv'
  BY DEF IInv
<1>1. CASE process_line
  <2>1. th' = th /\ app' = app /\ success' = success
    BY <1>1 DEF process_line, ReadLine, InsertNew, UpdateRssi, AppleFound, AppleNotFound,
       Deprioritize, DeprioritizeDelete, DeleteDevice, shared
  <2>2. QED
    BY <2>1 DEF JobInv, Beside, ToDo
<1>2. ASSUME NEW f \in Enabled, collector_thread(f) PROVE JobInv'
  <2>1. f \in Family
    BY LauncherAssumption
  <2>2. CASE Reboot(f)
    <3>1. Boot(bdaddrs', deprioritized', attempts', success', lock', line', th', app')
      BY <2>2 DEF Reboot
    <3>2. QED
      BY <3>1, BootJobs DEF JobInv, ToDo
  <2>3. CASE \E i \in Apps : LaunchTool(f, i)
    BY <2>1, <2>3, LaunchKeepsJobs
  <2>4. QED
    BY <1>2, <2>1, <2>2, <2>3, WanderKeepsJobs, ToolStepKeepsJobs DEF collector_thread
<1>3. ASSUME NEW i \in Apps, ApplicationThread_run(i) PROVE JobInv'
  BY <1>3, AppKeepsJobs
<1>4. CASE UNCHANGED vars
  BY <1>4 DEF vars, JobInv, Beside, ToDo
<1>5. QED
  BY <1>1, <1>2, <1>3, <1>4 DEF Next, Quiescent

----------------------------------------------------------------------------
(* The refinement: every step of the launcher is one of ToolSchedule, seen  *)
(* through RunningJobs, or changes nothing of it.                           *)
Works(r) == r.at \in {"run", "record"}

LEMMA SameJobs ==
    ASSUME \A i \in Apps : \/ app'[i] = app[i]
                           \/ ~Works(app[i]) /\ ~Works(app'[i])
                           \/ /\ Works(app[i]) /\ Works(app'[i])
                              /\ app'[i].tool = app[i].tool /\ app'[i].a = app[i].a
    PROVE  RunningJobs' = RunningJobs
  BY DEF RunningJobs, Works

(* A job that is not working any more leaves its tool without one. *)
LEMMA JobEnds ==
    ASSUME NEW i \in Apps, ControlInv, JobInv, Works(app[i]),
           \A j \in Apps \ {i} : app'[j] = app[j], ~Works(app'[i])
    PROVE  /\ app[i].tool \in Tool /\ app[i].a \in Addr
           /\ RunningJobs[app[i].tool] = {<<i, app[i].a>>}
           /\ RunningJobs' = [RunningJobs EXCEPT ![app[i].tool] = {}]
<1> DEFINE t == app[i].tool
<1>1. app[i].at # "free" /\ t \in Tool /\ app[i].a \in Addr
  BY DEF Works, ControlInv, AppInv, AppSet
<1>2. \A j \in Apps : app[j].tool = t /\ Works(app[j]) => j = i
  BY <1>1 DEF JobInv, Works
<1>3. RunningJobs[t] = {<<i, app[i].a>>}
  BY <1>1, <1>2 DEF RunningJobs, Works
<1>4. RunningJobs'[t] = {}
  BY <1>1, <1>2 DEF RunningJobs, Works
<1>5. \A u \in Tool \ {t} : RunningJobs'[u] = RunningJobs[u]
  BY DEF RunningJobs, Works
<1>6. QED
  BY <1>1, <1>3, <1>4, <1>5 DEF RunningJobs

LEMMA JobStarts ==
    ASSUME NEW f \in Family, NEW i \in Apps, ControlInv, JobInv, LaunchTool(f, i)
    PROVE  Schedule!Start(th[f].tool, i, th[f].cur) /\ th[f].tool \in Tool /\ th[f].cur \in Addr
<1> DEFINE t == th[f].tool
<1>1. /\ t \in Tool /\ th[f].cur \in Addr /\ app \in [Apps -> AppState]
      /\ th[f].cur \notin success[t]
      /\ app' = [app EXCEPT ![i] = [at |-> "run", tool |-> t, a |-> th[f].cur]]
      /\ app[i].at = "free" /\ success' = success
  BY DEF LaunchTool, At, ControlInv, TypeOK, ThreadInv, ThreadSet, InStage, Busy, JobInv, ToDo, Launching
<1>2. \A j \in Apps : Works(app[j]) => app[j].tool # t
  BY LaunchKeepsJobs DEF Works
<1>3. RunningJobs[t] = {}
  BY <1>1, <1>2 DEF RunningJobs, Works
<1>4. RunningJobs'[t] = {<<i, th[f].cur>>}
  BY <1>1, <1>2 DEF RunningJobs, Works
<1>5. \A u \in Tool \ {t} : RunningJobs'[u] = RunningJobs[u]
  BY <1>1 DEF RunningJobs, Works
<1>6. RunningJobs' = [RunningJobs EXCEPT ![t] = {<<i, th[f].cur>>}]
  BY <1>4, <1>5 DEF RunningJobs
<1>7. QED
  BY <1>1, <1>3, <1>6 DEF Schedule!Start

LEMMA AppImplements ==
    ASSUME NEW i \in Apps, ControlInv, JobInv, ApplicationThread_run(i)
    PROVE  [Schedule!Next]_(Schedule!vars)
<1> USE DEF shared, world
<1>1. app \in [Apps -> AppState] /\ app[i] \in AppState /\ success \in [Tool -> SUBSET Addr]
  BY DEF ControlInv, TypeOK
<1>2. CASE ToolFails(i) \/ ToolTimesOut(i) \/ SuccessLogFails(i)
  <2>1. Works(app[i]) /\ success' = success /\ AppEnds(i)
    BY <1>2 DEF ToolFails, ToolTimesOut, SuccessLogFails, Works
  <2>2. (\A j \in Apps \ {i} : app'[j] = app[j]) /\ ~Works(app'[i])
    BY <1>1, <2>1 DEF AppEnds, NoApp, Works
  <2>3. app[i].tool \in Tool /\ Schedule!Fail(app[i].tool)
    BY <2>1, <2>2, JobEnds DEF Schedule!Fail
  <2>4. QED
    BY <2>3 DEF Schedule!Next
<1>3. CASE RecordSuccess(i)
  <2>1. /\ Works(app[i]) /\ AppGoto(i, "done?")
        /\ success' = [success EXCEPT ![app[i].tool] = @ \cup {app[i].a}]
    BY <1>3 DEF RecordSuccess, Works
  <2>2. (\A j \in Apps \ {i} : app'[j] = app[j]) /\ ~Works(app'[i])
    BY <1>1, <2>1 DEF AppGoto, AppState, Works
  <2>3. /\ app[i].tool \in Tool /\ app[i].a \in Addr
        /\ Schedule!Succeed(app[i].tool, i, app[i].a)
    BY <2>1, <2>2, JobEnds DEF Schedule!Succeed
  <2>4. QED
    BY <2>3 DEF Schedule!Next
<1>4. CASE ToolSucceeds(i)
  <2>1. /\ \A j \in Apps \ {i} : app'[j] = app[j]
        /\ Works(app[i]) /\ Works(app'[i])
        /\ app'[i].tool = app[i].tool /\ app'[i].a = app[i].a /\ success' = success
    BY <1>1, <1>4 DEF ToolSucceeds, AppGoto, Works, AppState
  <2>2. QED
    BY <2>1, SameJobs DEF Schedule!vars
<1>5. CASE CheckAllDone(i) \/ RemoveCollected(i)
  <2>1. /\ \A j \in Apps \ {i} : app'[j] = app[j]
        /\ ~Works(app[i]) /\ ~Works(app'[i]) /\ success' = success
    BY <1>1, <1>5 DEF CheckAllDone, RemoveCollected, AppGoto, AppEnds, Works, AppState, NoApp
  <2>2. QED
    BY <2>1, SameJobs DEF Schedule!vars
<1>6. QED
  BY <1>2, <1>3, <1>4, <1>5 DEF ApplicationThread_run

LEMMA NextImplements == IInv /\ JobInv /\ [Next]_vars => [Schedule!Next]_(Schedule!vars)
<1> SUFFICES ASSUME ControlInv, JobInv, [Next]_vars PROVE [Schedule!Next]_(Schedule!vars)
  BY DEF IInv
<1>1. CASE app' = app /\ success' = success
  BY <1>1, SameJobs DEF Schedule!vars
<1>2. CASE process_line
  BY <1>1, <1>2 DEF process_line, ReadLine, InsertNew, UpdateRssi, AppleFound, AppleNotFound,
     Deprioritize, DeprioritizeDelete, DeleteDevice, shared
<1>3. ASSUME NEW f \in Enabled, collector_thread(f)
      PROVE  [Schedule!Next]_(Schedule!vars)
  <2>1. f \in Family
    BY LauncherAssumption
  <2>2. CASE Reboot(f)
    <3>1. Boot(bdaddrs', deprioritized', attempts', success', lock', line', th', app')
      BY <2>2 DEF Reboot
    <3>2. (\A i \in Apps : app'[i].at = "free") /\ success' = [t \in Tool |-> {}]
      BY <3>1, BootJobs
    <3>3. RunningJobs' = [t \in Tool |-> {}]
      BY <3>2 DEF RunningJobs
    <3>4. QED
      BY <3>2, <3>3 DEF Schedule!Next, Schedule!PowerCycle
  <2>3. CASE \E i \in Apps : LaunchTool(f, i)
    BY <2>1, <2>3, JobStarts DEF Schedule!Next
  <2>4. QED
    BY <1>1, <1>3, <2>1, <2>2, <2>3, WanderKeepsJobs, ToolStepKeepsJobs DEF collector_thread
<1>4. ASSUME NEW i \in Apps, ApplicationThread_run(i)
      PROVE  [Schedule!Next]_(Schedule!vars)
  BY <1>4, AppImplements
<1>5. CASE UNCHANGED vars
  BY <1>1, <1>5 DEF vars
<1>6. QED
  BY <1>2, <1>3, <1>4, <1>5 DEF Next, Quiescent

LEMMA InitImplements == Init => Schedule!Init
<1> SUFFICES ASSUME Init PROVE Schedule!Init
  OBVIOUS
<1>1. (\A i \in Apps : app[i].at = "free") /\ success = [t \in Tool |-> {}]
  BY BootJobs DEF Init
<1>2. RunningJobs = [t \in Tool |-> {}]
  BY <1>1 DEF RunningJobs
<1>3. QED
  BY <1>1, <1>2 DEF Schedule!Init

(* Whatever the log says and however the tools end, each tool runs for one  *)
(* device at a time, and never again for a device it has succeeded on: the  *)
(* threads of central_app_launcher.py implement ToolSchedule.               *)
THEOREM LauncherImplementsToolSchedule == Spec => ImplementsToolSchedule
<1>1. Spec => []JobInv
  BY InitJobs, NextJobs, AlwaysIInv, PTL DEF Spec
<1>2. QED
  BY <1>1, InitImplements, NextImplements, AlwaysIInv, PTL
     DEF Spec, ImplementsToolSchedule, Schedule!Spec

============================================================================
