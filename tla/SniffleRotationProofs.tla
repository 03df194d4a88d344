------------------------ MODULE SniffleRotationProofs ------------------------
(***************************************************************************)
(* Proofs about SniffleRotation, for any set of ports and of process ids,  *)
(* any number of failing launches, and whether or not an hour is long      *)
(* (Prompt).                                                               *)
(***************************************************************************)
EXTENDS SniffleRotation, FiniteSetTheorems, TLAPS

(* A sniffer that follows connections, until its thread has given the port *)
(* back: from then on the next one may follow.                             *)
Follower(i) == proc[i].follow /\ proc[i].at \in {"run", "lookup", "reset"}

(* Port 0 is the one permission to follow: it is the first dongle's, and    *)
(* while it is there the only follower is the one just launched with it.    *)
FollowInv ==
    /\ \A i, j \in Pids : Follower(i) /\ Follower(j) => i = j
    /\ \A i \in Pids : Follower(i) => proc[i].port = FirstPort
    /\ \A p \in Ports : status[p] = FollowNext => p = FirstPort
    /\ \A i \in Pids : status[FirstPort] = FollowNext /\ Follower(i)
                          => at = "store" /\ spawned.pid = i

SpawnInv ==
    IF at = "store"
    THEN /\ spawned.pid \in Pids /\ spawned.port \in Ports
         /\ proc[spawned.pid].at = "run" /\ proc[spawned.pid].port = spawned.port
    ELSE spawned = NoSpawn

(* A pid stays in serial_port_status after a sniffer has exited by itself;  *)
(* no new sniffer has that pid.                                             *)
PortInv ==
    /\ \A p \in Ports, i \in Pids :
          status[p] = i /\ proc[i].at # "free" => proc[i].port = p
    /\ \A i \in Pids : proc[i].at = "reset" => proc[i].key \in Ports /\ proc[i].key = proc[i].port

IInv == TypeOK /\ FollowInv /\ SpawnInv /\ PortInv

-----------------------------------------------------------------------------
LEMMA BootHolds ==
    ASSUME NEW n \in 0..MaxFaults,
           Boot(status, at, todo, spawned, proc, started), faults = n
    PROVE  IInv
<1> USE SniffleAssumption
<1>1. \A i \in Pids : proc[i].at = "free" /\ ~proc[i].follow
  BY DEF Boot, NoProc
<1>2. TypeOK
  BY DEF Boot, TypeOK, NoProc, NoSpawn, FollowNext, NoFollowNext
<1>3. FollowInv
  BY <1>1 DEF Boot, FollowInv, Follower, FollowNext, NoFollowNext
<1>4. SpawnInv /\ PortInv
  BY <1>1 DEF Boot, SpawnInv, PortInv
<1>5. QED
  BY <1>2, <1>3, <1>4 DEF IInv

LEMMA SpawnKeeps ==
    ASSUME IInv, NEW p \in Ports, NEW i \in Pids, SpawnSniffer(p, i)
    PROVE  IInv'
<1> DEFINE r == [at |-> "run", port |-> p, follow |-> status[p] = FollowNext, key |-> NONE]
<1> USE SniffleAssumption DEF IInv
<1>1. /\ at = "launch" /\ at' = "store" /\ status' = status /\ todo' = todo
      /\ started' = started /\ faults' = faults
      /\ proc[i].at = "free" /\ (\A q \in Ports : status[q] # i)
      /\ proc' = [proc EXCEPT ![i] = r] /\ spawned' = [pid |-> i, port |-> p]
  BY DEF SpawnSniffer
<1>2. r \in [at: {"free", "run", "lookup", "reset", "notify"},
             port: Ports \cup {NONE}, follow: BOOLEAN, key: Ports \cup {NONE}]
  OBVIOUS
<1>3. /\ r.at = "run" /\ r.port = p /\ r.follow = (status[p] = FollowNext)
  OBVIOUS
<1> HIDE DEF r
<1>4. proc'[i] = r /\ \A j \in Pids \ {i} : proc'[j] = proc[j]
  BY <1>1 DEF TypeOK
<1>5. TypeOK'
  BY <1>1, <1>2 DEF TypeOK
<1>6. \A j \in Pids : status[FirstPort] = FollowNext => ~Follower(j)
  BY <1>1 DEF FollowInv
<1>7. /\ Follower(i)' => status[p] = FollowNext /\ p = FirstPort
      /\ \A j \in Pids \ {i} : Follower(j)' => Follower(j)
  BY <1>3, <1>4 DEF FollowInv, Follower
<1>8. FollowInv'
  BY <1>1, <1>3, <1>4, <1>6, <1>7 DEF FollowInv
<1>9. SpawnInv'
  BY <1>1, <1>3, <1>4 DEF SpawnInv
<1>10. PortInv'
  BY <1>1, <1>3, <1>4 DEF PortInv
<1>11. QED
  BY <1>5, <1>8, <1>9, <1>10

LEMMA StoreKeeps ==
    ASSUME IInv, StorePid
    PROVE  IInv'
<1> USE SniffleAssumption DEF IInv, StorePid
<1>1. /\ spawned.pid \in Pids /\ spawned.port \in Ports
      /\ proc[spawned.pid].at = "run" /\ proc[spawned.pid].port = spawned.port
  BY DEF SpawnInv
<1>2. /\ status'[spawned.port] = spawned.pid
      /\ \A q \in Ports : q # spawned.port => status'[q] = status[q]
  BY <1>1 DEF TypeOK
<1>3. status' \in [Ports -> {FollowNext, NoFollowNext} \cup Pids]
  BY <1>1 DEF TypeOK
<1>4. TypeOK'
  BY <1>1, <1>3 DEF TypeOK, NoSpawn
<1>5. \A i \in Pids : Follower(i)' <=> Follower(i)
  BY DEF Follower
<1>6. spawned.pid # FollowNext
  BY <1>1 DEF FollowNext
<1>7. \A i \in Pids : ~(status'[FirstPort] = FollowNext /\ Follower(i))
  <2> SUFFICES ASSUME NEW i \in Pids, status'[FirstPort] = FollowNext, Follower(i)
               PROVE  FALSE
    OBVIOUS
  <2>1. FirstPort # spawned.port
    BY <1>2, <1>6
  <2>2. spawned.pid = i /\ proc[i].port = FirstPort
    BY <1>2, <2>1 DEF FollowInv
  <2>3. QED
    BY <1>1, <2>1, <2>2
<1>8. FollowInv'
  BY <1>2, <1>5, <1>6, <1>7 DEF FollowInv
<1>9. SpawnInv'
  BY DEF SpawnInv
<1>10. PortInv'
  BY <1>1, <1>2 DEF PortInv
<1>11. QED
  BY <1>4, <1>8, <1>9, <1>10

(* Steps of the thread that only move it, and main's notify(). *)
LEMMA MovesKeep ==
    ASSUME IInv, at # "store", at' \in {"launch", "reboot", "enter", "waiting"},
           todo' \subseteq Ports, started' \in BOOLEAN, faults' \in 0..MaxFaults,
           UNCHANGED <<status, spawned, proc>>
    PROVE  IInv'
<1>1. TypeOK' /\ SpawnInv' /\ PortInv'
  BY DEF IInv, TypeOK, SpawnInv, PortInv
<1>2. \A i \in Pids : Follower(i)' <=> Follower(i)
  BY DEF Follower
<1>3. FollowInv'
  BY <1>2 DEF IInv, FollowInv
<1>4. QED
  BY <1>1, <1>3 DEF IInv

LEMMA ThreadKeeps ==
    ASSUME IInv, sniffle_thread_function
    PROVE  IInv'
<1>1. ASSUME NEW p \in Ports, SpawnFails(p) PROVE IInv'
  BY <1>1, MovesKeep, SniffleAssumption DEF SpawnFails, IInv, TypeOK
<1>2. ASSUME Reboot PROVE IInv'
  <2>1. faults' = faults /\ faults \in 0..MaxFaults
    BY <1>2 DEF Reboot, IInv, TypeOK
  <2>2. Boot(status', at', todo', spawned', proc', started')
    BY <1>2 DEF Reboot
  <2> USE SniffleAssumption
  <2>3. \A i \in Pids : proc'[i].at = "free" /\ ~proc'[i].follow
    BY <2>2 DEF Boot, NoProc
  <2>4. TypeOK'
    BY <2>1, <2>2 DEF Boot, TypeOK, NoProc, NoSpawn, FollowNext, NoFollowNext
  <2>5. FollowInv'
    BY <2>2, <2>3 DEF Boot, FollowInv, Follower, FollowNext, NoFollowNext
  <2>6. SpawnInv' /\ PortInv'
    BY <2>2, <2>3 DEF Boot, SpawnInv, PortInv
  <2>7. QED
    BY <2>4, <2>5, <2>6 DEF IInv
<1>3. ASSUME RebootFails PROVE IInv'
  BY <1>3, MovesKeep DEF RebootFails, IInv, TypeOK
<1>4. ASSUME PassDone PROVE IInv'
  BY <1>4, MovesKeep DEF PassDone, IInv, TypeOK
<1>5. ASSUME EnterWait PROVE IInv'
  BY <1>5, MovesKeep DEF EnterWait, IInv, TypeOK
<1>6. QED
  BY <1>1, <1>2, <1>3, <1>4, <1>5, SpawnKeeps, StoreKeeps DEF sniffle_thread_function

LEMMA MainKeeps ==
    ASSUME IInv, MainNotifies
    PROVE  IInv'
<1>1. CASE at = "waiting"
  BY <1>1, MovesKeep DEF MainNotifies, Notify, IInv, TypeOK
<1>2. CASE at # "waiting"
  <2>1. TypeOK' /\ SpawnInv' /\ PortInv'
    BY <1>2 DEF MainNotifies, Notify, IInv, TypeOK, SpawnInv, PortInv
  <2>2. FollowInv'
    BY <1>2 DEF MainNotifies, Notify, IInv, FollowInv, Follower
  <2>3. QED
    BY <2>1, <2>2 DEF IInv
<1>3. QED
  BY <1>1, <1>2

-----------------------------------------------------------------------------
(* A sniffer's thread takes a step: it is not the one just launched, follows *)
(* only if it did, and what it says of the ports remains true.               *)
LEMMA SnifferSteps ==
    ASSUME IInv, NEW i \in Pids, spawned.pid # i,
           NEW r \in [at: {"free", "run", "lookup", "reset", "notify"},
                      port: Ports \cup {NONE}, follow: BOOLEAN, key: Ports \cup {NONE}],
           proc' = [proc EXCEPT ![i] = r],
           r.at \in {"run", "lookup", "reset"}
              => /\ r.follow = proc[i].follow /\ proc[i].at \in {"run", "lookup", "reset"},
           r.at # "free" => r.port = proc[i].port /\ proc[i].at # "free",
           r.at = "reset" => r.key \in Ports /\ r.key = r.port,
           todo' \subseteq Ports,
           \/ at' = at
           \/ at = "waiting" /\ at' = "launch",
           UNCHANGED <<status, spawned, started, faults>>
    PROVE  IInv'
<1> USE DEF IInv
<1>1. proc'[i] = r /\ \A j \in Pids \ {i} : proc'[j] = proc[j]
  BY DEF TypeOK
<1>2. TypeOK'
  BY DEF TypeOK
<1>3. \A j \in Pids : Follower(j)' => Follower(j) /\ proc'[j].port = proc[j].port
  BY <1>1 DEF Follower
<1>4. FollowInv'
  BY <1>3 DEF FollowInv
<1>5. SpawnInv'
  BY <1>1 DEF SpawnInv
<1>6. PortInv'
  BY <1>1 DEF PortInv
<1>7. QED
  BY <1>2, <1>4, <1>5, <1>6

LEMMA ResetKeeps ==
    ASSUME IInv, NEW i \in Pids, ResetStatus(i)
    PROVE  IInv'
<1> DEFINE free == IF proc[i].follow THEN FollowNext ELSE NoFollowNext
           k == proc[i].key
<1> USE SniffleAssumption DEF IInv
<1>1. /\ proc[i].at = "reset" /\ status' = [status EXCEPT ![k] = free]
      /\ proc' = [proc EXCEPT ![i].at = "notify"]
      /\ UNCHANGED <<at, todo, spawned, started, faults>>
  BY DEF ResetStatus
<1>2. k \in Ports /\ k = proc[i].port
  BY <1>1 DEF PortInv
<1>3. /\ free \in {FollowNext, NoFollowNext} /\ free \notin Pids
      /\ free = FollowNext <=> proc[i].follow
  BY DEF FollowNext, NoFollowNext
<1> HIDE DEF free, k
<1>4. /\ status'[k] = free /\ \A q \in Ports : q # k => status'[q] = status[q]
      /\ status' \in [Ports -> {FollowNext, NoFollowNext} \cup Pids]
  BY <1>1, <1>2, <1>3 DEF TypeOK
<1>5. /\ proc'[i] = [proc[i] EXCEPT !.at = "notify"]
      /\ \A j \in Pids \ {i} : proc'[j] = proc[j]
      /\ proc'[i].at = "notify" /\ proc'[i].port = proc[i].port
  BY <1>1 DEF TypeOK
<1>6. TypeOK'
  BY <1>1, <1>4 DEF TypeOK
<1>7. \A j \in Pids : Follower(j)' => j # i /\ Follower(j)
  BY <1>5 DEF Follower
<1>8. free = FollowNext => Follower(i) /\ k = FirstPort
  BY <1>1, <1>2, <1>3 DEF Follower, FollowInv
<1>9. free = FollowNext => \A j \in Pids : ~Follower(j)'
  BY <1>7, <1>8 DEF FollowInv
<1>10. FollowInv'
  <2>1. \A j, l \in Pids : Follower(j)' /\ Follower(l)' => j = l
    BY <1>7 DEF FollowInv
  <2>2. \A j \in Pids : Follower(j)' => proc'[j].port = FirstPort
    BY <1>5, <1>7 DEF FollowInv
  <2>3. \A q \in Ports : status'[q] = FollowNext => q = FirstPort
    BY <1>4, <1>8 DEF FollowInv
  <2>4. \A j \in Pids : status'[FirstPort] = FollowNext /\ Follower(j)'
                           => at' = "store" /\ spawned'.pid = j
    BY <1>1, <1>2, <1>4, <1>7, <1>9 DEF FollowInv
  <2>5. QED
    BY <2>1, <2>2, <2>3, <2>4 DEF FollowInv
<1>11. SpawnInv'
  BY <1>1, <1>5 DEF SpawnInv
<1>12. PortInv'
  <2>1. ASSUME NEW q \in Ports, NEW j \in Pids, status'[q] = j, proc'[j].at # "free"
        PROVE  proc'[j].port = q
    <3>1. status[q] = j
      BY <1>3, <1>4, <2>1
    <3>2. proc[j].at # "free" /\ proc'[j].port = proc[j].port
      BY <1>1, <1>5, <2>1
    <3>3. QED
      BY <3>1, <3>2 DEF PortInv
  <2>2. \A j \in Pids : proc'[j].at = "reset" =>
            proc'[j].key \in Ports /\ proc'[j].key = proc'[j].port
    BY <1>5 DEF PortInv
  <2>3. QED
    BY <2>1, <2>2 DEF PortInv
<1>13. QED
  BY <1>6, <1>10, <1>11, <1>12

LEMMA RunKeeps ==
    ASSUME IInv, NEW i \in Pids, ApplicationThread_run(i)
    PROVE  IInv'
<1> DEFINE R == [at: {"free", "run", "lookup", "reset", "notify"},
                 port: Ports \cup {NONE}, follow: BOOLEAN, key: Ports \cup {NONE}]
<1>1. /\ proc[i] \in R /\ NoProc \in R /\ NoProc.at = "free" /\ todo \subseteq Ports
      /\ \A j \in Pids : proc[j] \in R
  BY DEF IInv, TypeOK, NoProc
<1>2. proc[i].at # "run" => spawned.pid # i
  BY SniffleAssumption DEF IInv, SpawnInv, NoSpawn
<1>3. ASSUME SnifferExits(i) PROVE IInv'
  BY <1>1, <1>3, SnifferSteps DEF SnifferExits, Started
<1>4. ASSUME SnifferTimesOut(i) PROVE IInv'
  <2> DEFINE r == [proc[i] EXCEPT !.at = "lookup"]
  <2>1. r \in R /\ r.at = "lookup" /\ r.follow = proc[i].follow /\ r.port = proc[i].port
    BY <1>1
  <2>2. proc' = [proc EXCEPT ![i] = r]
    BY <1>4 DEF SnifferTimesOut
  <2> HIDE DEF r
  <2>3. QED
    BY <1>1, <1>4, <2>1, <2>2, SnifferSteps DEF SnifferTimesOut, Started
<1>5. ASSUME LookUpPort(i) PROVE IInv'
  <2>1. CASE proc' = [proc EXCEPT ![i] = NoProc]
    BY <1>1, <1>2, <1>5, <2>1, SnifferSteps DEF LookUpPort
  <2>2. ASSUME NEW p \in Ports, status[p] = i,
               proc' = [proc EXCEPT ![i].at = "reset", ![i].key = p]
        PROVE  IInv'
    <3> DEFINE r == [proc[i] EXCEPT !.at = "reset", !.key = p]
    <3>1. /\ r \in R /\ r.at = "reset" /\ r.follow = proc[i].follow /\ r.port = proc[i].port
          /\ r.key = p
      BY <1>1
    <3>2. proc' = [proc EXCEPT ![i] = r]
      BY <1>1, <2>2 DEF IInv, TypeOK
    <3>3. proc[i].at = "lookup" /\ proc[i].port = p
      BY <1>5, <2>2 DEF LookUpPort, IInv, PortInv
    <3>4. /\ spawned.pid # i /\ UNCHANGED <<status, at, todo, spawned, started, faults>>
      BY <1>2, <1>5, <3>3 DEF LookUpPort
    <3>5. r.key \in Ports /\ r.key = r.port /\ r.port = proc[i].port
      BY <3>1, <3>3
    <3> HIDE DEF r
    <3>6. QED
      BY <1>1, <3>1, <3>2, <3>3, <3>4, <3>5, SnifferSteps
  <2>3. QED
    BY <1>5, <2>1, <2>2 DEF LookUpPort
<1>6. ASSUME NotifyRelaunch(i) PROVE IInv'
  BY <1>1, <1>2, <1>6, SnifferSteps DEF NotifyRelaunch, Notify
<1>7. QED
  BY <1>3, <1>4, <1>5, <1>6, ResetKeeps DEF ApplicationThread_run

-----------------------------------------------------------------------------
LEMMA NextKeeps == IInv /\ [Next]_vars => IInv'
<1> SUFFICES ASSUME IInv, [Next]_vars PROVE IInv'
  OBVIOUS
<1>1. ASSUME UNCHANGED vars PROVE IInv'
  BY <1>1 DEF vars, IInv, TypeOK, FollowInv, Follower, SpawnInv, PortInv
<1>2. QED
  BY <1>1, ThreadKeeps, MainKeeps, RunKeeps DEF Next, Idle

LEMMA Invariance == Spec => []IInv
<1>1. Init => IInv
  BY BootHolds, SniffleAssumption DEF Init
<1>2. QED
  BY <1>1, NextKeeps, PTL DEF Spec

(* serial_port_status holds 0, 1 or a pid, and every key that a sniffer's *)
(* thread writes to is one of the ports.                                  *)
THEOREM SniffleTypes == Spec => []TypeOK
<1>1. IInv => TypeOK
  BY DEF IInv
<1>2. QED
  BY <1>1, Invariance, PTL

(* One sniffer at most follows connections, on the first dongle: 0 is given *)
(* back only by a follower that has been killed, however its timeout falls  *)
(* between the launches of a pass, and a launch that stores its pid after    *)
(* the next one has read the table.                                         *)
THEOREM FollowerIsUnique == Spec => []AtMostOneFollower
<1>1. IInv => AtMostOneFollower
  <2> SUFFICES ASSUME IInv PROVE AtMostOneFollower
    OBVIOUS
  <2>1. \A i \in Followers : Follower(i) /\ i \in Pids
    BY DEF Followers, Follower
  <2>2. \A i, j \in Followers : i = j
    BY <2>1 DEF IInv, FollowInv
  <2>3. Followers = {} \/ \E i \in Followers : Followers = {i}
    BY <2>2
  <2>4. Cardinality(Followers) <= 1
    BY <2>3, FS_EmptySet, FS_Singleton
  <2>5. QED
    BY <2>1, <2>4 DEF IInv, FollowInv, AtMostOneFollower
<1>2. QED
  BY <1>1, Invariance, PTL

(* The key that a killed sniffer's thread finds by its pid is that of its *)
(* own dongle, although a pid stays in the table when a sniffer exits by   *)
(* itself and its port is launched on again.                              *)
THEOREM OwnPortIsReset == Spec => []ResetsOwnPort
<1>1. IInv => ResetsOwnPort
  BY DEF IInv, PortInv, ResetsOwnPort
<1>2. QED
  BY <1>1, Invariance, PTL
=============================================================================
