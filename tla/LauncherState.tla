--------------------------- MODULE LauncherState ---------------------------
(***************************************************************************)
(* The globals of Scripts/central_app_launcher.py and the helpers its      *)
(* threads share: the device dictionaries, the attempt counters, the       *)
(* success dictionaries and the seven locks.  The threads themselves are   *)
(* in Launcher.tla.                                                        *)
(*                                                                         *)
(* A Python dictionary is a function whose DOMAIN is its set of keys.  The *)
(* values are cut down to the RSSI: the address type and the vendor id are *)
(* only ever copied.                                                       *)
(***************************************************************************)
EXTENDS Integers, FiniteSets

CONSTANTS
    Addr,           \* the BDADDRs bluetoothctl reports
    Rssi,           \* the signal strengths it reports
    NewRssi,        \* the strength a [NEW] device is given (-80)
    MaxAttempts,    \* max_connect_attempts
    SkipAddrs,      \* skip_these_addresses
    Enabled,        \* the families whose thread main() starts
    ToolsOn,        \* better_getter_enabled, braktooth_enabled, sdptool_enabled
    Apps,           \* slots for live ApplicationThreads
    NONE            \* Python's None

Family == {"BLE", "BTC"}

Tool == {"GATT", "LMP2thprint", "SDP"}

ASSUME LauncherAssumption ==
    /\ IsFiniteSet(Addr)
    /\ NewRssi \in Rssi
    /\ Rssi \subseteq Int
    /\ MaxAttempts \in Nat \ {0}
    /\ SkipAddrs \subseteq Addr
    /\ Enabled \subseteq Family
    /\ ToolsOn \subseteq Tool
    /\ Apps \cap ({"main"} \cup Family) = {}
    /\ NONE \notin Addr \cup Tool \cup Apps \cup Family \cup {"main"}

FamilyOf(t) == IF t = "GATT" THEN "BLE" ELSE "BTC"

----------------------------------------------------------------------------
(* Dictionaries. *)

Dict == UNION {[S -> Rssi] : S \in SUBSET Addr}

EmptyDict == [a \in {} |-> NewRssi]

Keys(d) == DOMAIN d

Put(d, a, r) == [x \in DOMAIN d \cup {a} |-> IF x = a THEN r ELSE d[x]]

Remove(d, a) == [x \in DOMAIN d \ {a} |-> d[x]]

----------------------------------------------------------------------------
(* Locks.  Each dictionary has its own. *)

BdaddrsLock(f) == <<"bdaddrs", f>>

DeprioritizedLock(f) == <<"deprioritized", f>>

SuccessLock(t) == <<"success", t>>

Locks == {BdaddrsLock(f) : f \in Family}
           \cup {DeprioritizedLock(f) : f \in Family}
           \cup {SuccessLock(t) : t \in Tool}

(* Seeded fault: each family takes the other family's lock. *)
SwappedReprioritizeLock(f) == BdaddrsLock(IF f = "BLE" THEN "BTC" ELSE "BLE")

(* Seeded fault: the lock that is taken again inside; Lock is not reentrant. *)
ReenteredReprioritizeLock(f) == DeprioritizedLock(f)

(* The lock reprioritize_ble_bdaddr and reprioritize_btc_bdaddr take around *)
(* their write of the family's dictionary: both take ble_bdaddrs_lock.      *)
ReprioritizeLock(f) == BdaddrsLock("BLE")

Threads == {"main"} \cup Family \cup Apps
============================================================================
