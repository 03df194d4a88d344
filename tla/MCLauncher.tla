----------------------------- MODULE MCLauncher -----------------------------
(* Small instances of Launcher. *)
EXTENDS Launcher, TLC

MCRssi == {-80, -60}

MCNewRssi == -80

(* Every line about a BLE device. *)
BleLines == {l \in Line : l.f = "BLE"}

(* Every line about a BTC device; a CHG line carries no family. *)
BtcLines == {l \in Line : l.at \in {"rssi", "apple"} \/ l.f = "BTC"}

(* A device that only comes and goes. *)
NewAndDelLines == {l \in BleLines : l.at \in {"new", "del"}}

AllLines == Line

AppSymmetry == Permutations(Apps)
============================================================================
