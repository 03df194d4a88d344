-------------------------- MODULE SniffleRotation --------------------------
(***************************************************************************)
(* sniffle_thread_function of Scripts/central_app_launcher.py and the      *)
(* ApplicationThreads of its sniffers: one sniffer process per dongle,     *)
(* killed and started again every sniffle_log_rotate_in_seconds so that it *)
(* opens a new pcap file.  The threads meet in serial_port_status and in   *)
(* start_sniffle_threads_condition.                                        *)
(*                                                                         *)
(* The dongle reserved for Better_Getter.py (matching_files[0]) is not one *)
(* of the Ports.                                                           *)
(***************************************************************************)
EXTENDS Integers, FiniteSets

CONSTANTS
    Ports,          \* matching_files[1:]
    FirstPort,      \* the first of them
    Pids,           \* process ids, none of them 0 or 1
    MaxFaults,      \* bound: sniffers that cannot be launched
    Prompt,         \* TRUE: milliseconds are shorter than the hour of a timer
    NONE

ASSUME SniffleAssumption ==
    /\ FirstPort \in Ports
    /\ Pids \cap {0, 1, NONE} = {}
    /\ MaxFaults \in Nat
    /\ Prompt \in BOOLEAN
    /\ NONE \notin Ports

(* The values of serial_port_status besides a pid. *)
FollowNext == 0

NoFollowNext == 1

VARIABLES
    status,         \* serial_port_status
    at, todo,       \* sniffle_thread_function: where it is, ports still to do
    spawned,        \* the process it has launched and not yet entered
    proc,           \* the sniffers' ApplicationThreads, by pid
    started,        \* main() has done its notify()
    faults

vars == <<status, at, todo, spawned, proc, started, faults>>

NoProc == [at |-> "free", port |-> NONE, follow |-> FALSE, key |-> NONE]

NoSpawn == [pid |-> NONE, port |-> NONE]

TypeOK ==
    /\ status \in [Ports -> {FollowNext, NoFollowNext} \cup Pids]
    /\ at \in {"launch", "store", "reboot", "enter", "waiting"}
    /\ todo \subseteq Ports
    /\ spawned \in [pid: Pids \cup {NONE}, port: Ports \cup {NONE}]
    /\ proc \in [Pids -> [at: {"free", "run", "lookup", "reset", "notify"},
                          port: Ports \cup {NONE}, follow: BOOLEAN,
                          key: Ports \cup {NONE}]]
    /\ started \in BOOLEAN
    /\ faults \in 0..MaxFaults

Boot(s, a, t, sp, p, st) ==
    /\ s = [q \in Ports |-> IF q = FirstPort THEN FollowNext ELSE NoFollowNext]
    /\ a = "launch"
    /\ t = Ports
    /\ sp = NoSpawn
    /\ p = [i \in Pids |-> NoProc]
    /\ st = FALSE

Init == Boot(status, at, todo, spawned, proc, started) /\ faults = 0

----------------------------------------------------------------------------
(* sniffle_thread_function: a pass over every key of serial_port_status,   *)
(* whether its value is 0, 1 or the pid of a sniffer that still runs ...   *)

SpawnSniffer(p, i) ==
    /\ at = "launch"
    /\ p \in todo
    /\ proc[i].at = "free"
    /\ \A q \in Ports : status[q] # i
    /\ proc' = [proc EXCEPT ![i] = [at |-> "run", port |-> p,
                                    follow |-> status[p] = FollowNext,
                                    key |-> NONE]]
    /\ spawned' = [pid |-> i, port |-> p]
    /\ at' = "store"
    /\ UNCHANGED <<status, todo, started, faults>>

StorePid ==
    /\ at = "store"
    /\ status' = [status EXCEPT ![spawned.port] = spawned.pid]
    /\ todo' = todo \ {spawned.port}
    /\ spawned' = NoSpawn
    /\ at' = "launch"
    /\ UNCHANGED <<proc, started, faults>>

SpawnFails(p) ==
    /\ at = "launch"
    /\ p \in todo
    /\ faults < MaxFaults
    /\ faults' = faults + 1
    /\ todo' = todo \ {p}
    /\ at' = "reboot"
    /\ UNCHANGED <<status, spawned, proc, started>>

Reboot ==
    /\ at = "reboot"
    /\ Boot(status', at', todo', spawned', proc', started')
    /\ UNCHANGED faults

RebootFails ==
    /\ at = "reboot"
    /\ at' = "launch"
    /\ UNCHANGED <<status, todo, spawned, proc, started, faults>>

(* ... then one wait() on the condition, with no predicate. *)
PassDone ==
    /\ at = "launch"
    /\ todo = {}
    /\ at' = "enter"
    /\ UNCHANGED <<status, todo, spawned, proc, started, faults>>

EnterWait ==
    /\ at = "enter"
    /\ Prompt => started
    /\ at' = "waiting"
    /\ UNCHANGED <<status, todo, spawned, proc, started, faults>>

(* notify() starts another pass if the thread waits, and is lost if not. *)
Notify ==
    IF at = "waiting" THEN at' = "launch" /\ todo' = Ports
                      ELSE UNCHANGED <<at, todo>>

MainNotifies ==
    /\ ~started
    /\ started' = TRUE
    /\ Notify
    /\ UNCHANGED <<status, spawned, proc, faults>>

sniffle_thread_function ==
    \/ \E p \in Ports, i \in Pids : SpawnSniffer(p, i)
    \/ \E p \in Ports : SpawnFails(p)
    \/ StorePid
    \/ Reboot
    \/ RebootFails
    \/ PassDone
    \/ EnterWait

----------------------------------------------------------------------------
(* ApplicationThread.run for a sniffer. *)

(* The thread is started only once the pid has been entered. *)
Started(i) == proc[i].at # "free" /\ spawned.pid # i

(* The sniffer exits by itself: the code is logged and nothing else. *)
SnifferExits(i) ==
    /\ Started(i)
    /\ proc[i].at = "run"
    /\ proc' = [proc EXCEPT ![i] = NoProc]
    /\ UNCHANGED <<status, at, todo, spawned, started, faults>>

(* TimeoutExpired: kill(), wait(), log. *)
SnifferTimesOut(i) ==
    /\ Started(i)
    /\ proc[i].at = "run"
    /\ Prompt => at = "waiting"
    /\ proc' = [proc EXCEPT ![i].at = "lookup"]
    /\ UNCHANGED <<status, at, todo, spawned, started, faults>>

(* Seeded fault: the first port marked in use is taken for this one. *)
LookUpAnyPort(i) ==
    /\ proc[i].at = "lookup"
    /\ \E p \in Ports :
         /\ status[p] \in Pids
         /\ proc' = [proc EXCEPT ![i].at = "reset", ![i].key = p]
    /\ UNCHANGED <<status, at, todo, spawned, started, faults>>

(* Which port has this pid?  None: exit(-1), which ends only this thread. *)
LookUpPort(i) ==
    /\ proc[i].at = "lookup"
    /\ LET keys == {p \in Ports : status[p] = i}
       IN  IF keys = {}
             THEN proc' = [proc EXCEPT ![i] = NoProc]
             ELSE \E p \in keys :
                    proc' = [proc EXCEPT ![i].at = "reset", ![i].key = p]
    /\ UNCHANGED <<status, at, todo, spawned, started, faults>>

(* Seeded fault: the port always goes back to following. *)
ResetToFollow(i) ==
    /\ proc[i].at = "reset"
    /\ status' = [status EXCEPT ![proc[i].key] = FollowNext]
    /\ proc' = [proc EXCEPT ![i].at = "notify"]
    /\ UNCHANGED <<at, todo, spawned, started, faults>>

ResetStatus(i) ==
    /\ proc[i].at = "reset"
    /\ status' = [status EXCEPT ![proc[i].key] =
                    IF proc[i].follow THEN FollowNext ELSE NoFollowNext]
    /\ proc' = [proc EXCEPT ![i].at = "notify"]
    /\ UNCHANGED <<at, todo, spawned, started, faults>>

(* Seeded fault: the sniffer's thread ends without notify(). *)
ForgetToNotify(i) ==
    /\ proc[i].at = "notify"
    /\ proc' = [proc EXCEPT ![i] = NoProc]
    /\ UNCHANGED <<status, at, todo, spawned, started, faults>>

NotifyRelaunch(i) ==
    /\ proc[i].at = "notify"
    /\ Notify
    /\ proc' = [proc EXCEPT ![i] = NoProc]
    /\ UNCHANGED <<status, spawned, started, faults>>

ApplicationThread_run(i) ==
    \/ SnifferExits(i)
    \/ SnifferTimesOut(i)
    \/ LookUpPort(i)
    \/ ResetStatus(i)
    \/ NotifyRelaunch(i)

(* Every sniffer is gone and nobody will notify again. *)
Idle ==
    /\ at = "waiting"
    /\ started
    /\ \A i \in Pids : proc[i].at = "free"
    /\ UNCHANGED vars

Next ==
    \/ sniffle_thread_function
    \/ MainNotifies
    \/ \E i \in Pids : ApplicationThread_run(i)
    \/ Idle

Spec == Init /\ [][Next]_vars

(* Threads run, and an hour passes; a sniffer need not exit by itself. *)
Fairness ==
    /\ WF_vars(sniffle_thread_function)
    /\ WF_vars(MainNotifies)
    /\ \A i \in Pids : WF_vars(\/ SnifferTimesOut(i) \/ LookUpPort(i)
                             \/ ResetStatus(i) \/ NotifyRelaunch(i))

FairSpec == Spec /\ Fairness

----------------------------------------------------------------------------
Running(p) == {i \in Pids : proc[i].at = "run" /\ proc[i].port = p}

Followers == {i \in Pids : proc[i].at = "run" /\ proc[i].follow}

(* However passes and timeouts interleave, connections are followed by at  *)
(* most one sniffer, on the first dongle: a port is only ever marked 0 by  *)
(* the thread of a follower that has been killed.                          *)
AtMostOneFollower ==
    /\ Cardinality(Followers) <= 1
    /\ \A i \in Followers : proc[i].port = FirstPort

(* A pid entered in serial_port_status is that of a sniffer launched on    *)
(* that very port, so a timeout never frees the port of another sniffer.   *)
ResetsOwnPort ==
    \A i \in Pids : proc[i].at = "reset" => proc[i].key = proc[i].port

Available(p) == status[p] \in {FollowNext, NoFollowNext}

(* A port set back to 0 or 1 after its timeout gets a new sniffer.         *)
PortRelaunched == \A p \in Ports : Available(p) ~> ~Available(p)

----------------------------------------------------------------------------
(* Line 681: the value is "a process PID if it's in use": a port in use    *)
(* does not get a second sniffer.                                          *)
OneSnifferPerPort == \A p \in Ports : Cardinality(Running(p)) <= 1

(* Line 721: "just launch the first one as a connection follower, and all  *)
(* subsequent ones as active-scanning non-followers (-A)".                 *)
FirstPortFollows == \A i \in Running(FirstPort) : proc[i].follow
============================================================================
