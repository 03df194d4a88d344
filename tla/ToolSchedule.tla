---------------------------- MODULE ToolSchedule ----------------------------
(***************************************************************************)
(* What central_app_launcher.py promises about each of the tools it runs   *)
(* (Better_Getter.py, bt_exploiter, sdptool), each of which owns one       *)
(* adapter: a tool runs for one device at a time, is never run again for a *)
(* device it has succeeded on, and a success is only forgotten when the    *)
(* machine reboots.  Launcher.tla implements this specification.           *)
(***************************************************************************)
EXTENDS Integers

CONSTANTS Tool, Addr, Job

VARIABLES running, done

vars == <<running, done>>

Init ==
    /\ running = [t \in Tool |-> {}]
    /\ done = [t \in Tool |-> {}]

Start(t, i, a) ==
    /\ running[t] = {}
    /\ a \notin done[t]
    /\ running' = [running EXCEPT ![t] = {<<i, a>>}]
    /\ UNCHANGED done

Succeed(t, i, a) ==
    /\ running[t] = {<<i, a>>}
    /\ running' = [running EXCEPT ![t] = {}]
    /\ done' = [done EXCEPT ![t] = @ \cup {a}]

Fail(t) ==
    /\ running' = [running EXCEPT ![t] = {}]
    /\ UNCHANGED done

PowerCycle == running' = [t \in Tool |-> {}] /\ done' = [t \in Tool |-> {}]

Next ==
    \/ \E t \in Tool, i \in Job, a \in Addr : Start(t, i, a) \/ Succeed(t, i, a)
    \/ \E t \in Tool : Fail(t)
    \/ PowerCycle

Spec == Init /\ [][Next]_vars
============================================================================
