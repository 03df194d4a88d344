------------------------------ MODULE LmpPrint ------------------------------
(***************************************************************************)
(* The LMP exchange of the Braktooth module (LMP2thprint.cpp): features,   *)
(* extended feature pages, name and version of one BR/EDR device.          *)
(*                                                                         *)
(* The module never sends of its own accord: for every LMP packet that     *)
(* arrives, rx_pre_dissection adds one request, and rx_post_dissection     *)
(* then looks at the packet.  Both run to their end before the next packet *)
(* (external: the Braktooth framework and the device).  The device answers *)
(* in the order of the requests and may send packets of other kinds.       *)
(***************************************************************************)
EXTENDS Integers, FiniteSets, Sequences

CONSTANTS
    Fragment,       \* LMP_NAME_DATA_SIZE_MAX, 14
    CharSigned,     \* plain char is signed: x86 yes, ARM no
    NameLengths,    \* how long the device's name may be
    LastPages,      \* its last page of extended features may be
    MaxOthers       \* bound: packets that answer nothing

ASSUME LmpAssumption ==
    /\ Fragment \in Nat \ {0} /\ Fragment < 128
    /\ CharSigned \in BOOLEAN
    /\ NameLengths \subseteq 0..255
    /\ LastPages \subseteq 0..254
    /\ MaxOthers \in Nat

Part == {"features", "pages", "name", "version"}   \* RR_LMP_*

VARIABLES
    device,     \* the device on the other side, which does not change
    g,          \* the globals of the module
    asked,      \* the requests it has sent and the device has not answered
    log,        \* what it has written to BTC_2THPRINT.log
    others,     \* packets of other kinds so far
    exited

vars == <<device, g, asked, log, others, exited>>

DeviceKind == [length: NameLengths, extended: BOOLEAN, lastPage: LastPages]

Request ==
    [op: {"features_req", "version_req"}] \cup [op: {"features_req_ext"}, page: Nat]
        \cup [op: {"name_req"}, offset: Nat]

Packet ==
    [op: {"features_res", "version_res", "not_accepted", "other"}]
        \cup [op: {"features_res_ext"}, page: Nat, last: Nat]
        \cup [op: {"name_res"}, offset: Nat, length: 0..255]

Globals ==
    [featuresSent: BOOLEAN,     \* gSent_LMP_features_req
     extSent: Nat,              \* gSent_LMP_features_req_ext
     page: Nat,                 \* the page in lmp_features_req_ext_packet
     extReceived: BOOLEAN,      \* gRecv_LMP_features_req_ext # 0
     lastPage: Nat,             \* gMaxExtendedFeaturePages
     nameSent: BOOLEAN,         \* gSent_LMP_name_req
     moreName: BOOLEAN,         \* gMoreNameNeeded
     offset: Nat,               \* g_max_offset_so_far
     name: SUBSET Nat,          \* the bytes of the name in gName
     versionSent: BOOLEAN,      \* gSent_LMP_version_req
     have: SUBSET Part]         \* gAllRequiredResponses

Log == [pages: SUBSET Nat, names: SUBSET SUBSET Nat, waits: Nat]

Reply == [g: Globals, log: Log, exited: BOOLEAN]

TypeOK ==
    /\ device \in DeviceKind
    /\ g \in Globals
    /\ asked \in Seq(Request)
    /\ log \in Log
    /\ others \in 0..MaxOthers
    /\ exited \in BOOLEAN

Init ==
    /\ device \in DeviceKind
    /\ g = [featuresSent |-> FALSE, extSent |-> 0, page |-> 1, extReceived |-> FALSE,
            lastPage |-> 0, nameSent |-> FALSE, moreName |-> FALSE, offset |-> 0,
            name |-> {}, versionSent |-> FALSE, have |-> {}]
    /\ asked = <<>>
    /\ log = [pages |-> {}, names |-> {}, waits |-> 0]
    /\ others = 0
    /\ exited = FALSE

-----------------------------------------------------------------------------
(* rx_pre_dissection: the first request that is due, if any.               *)

(* Seeded fault: the last page is not asked for. *)
PageBeforeLastDue(s) == s.extReceived /\ s.extSent + 1 < s.lastPage

PageDue(s) == s.extReceived /\ s.extSent < s.lastPage

(* Seeded fault: the rest of a long name is not asked for. *)
FirstFragmentDue(s) == ~s.nameSent

NameDue(s) == ~s.nameSent \/ s.moreName

ToSend(s) ==
    IF ~s.featuresSent THEN <<[op |-> "features_req"]>>
    ELSE IF s.extSent = 0 THEN <<[op |-> "features_req_ext", page |-> s.page]>>
    ELSE IF PageDue(s) THEN <<[op |-> "features_req_ext", page |-> s.page + 1]>>
    ELSE IF NameDue(s) THEN <<[op |-> "name_req", offset |-> s.offset]>>
    ELSE IF ~s.versionSent THEN <<[op |-> "version_req"]>>
    ELSE <<>>

(* Seeded fault: the flag for the rest of the name stays set. *)
AfterSendingAgain(s) ==
    IF ~s.featuresSent THEN [s EXCEPT !.featuresSent = TRUE]
    ELSE IF s.extSent = 0 THEN [s EXCEPT !.extSent = 1]
    ELSE IF PageDue(s) THEN [s EXCEPT !.extSent = @ + 1, !.page = @ + 1]
    ELSE IF NameDue(s) THEN [s EXCEPT !.nameSent = TRUE]
    ELSE [s EXCEPT !.versionSent = TRUE]

(* What sending them changes. *)
AfterSending(s) ==
    IF ~s.featuresSent THEN [s EXCEPT !.featuresSent = TRUE]
    ELSE IF s.extSent = 0 THEN [s EXCEPT !.extSent = 1]
    ELSE IF PageDue(s) THEN [s EXCEPT !.extSent = @ + 1, !.page = @ + 1]
    ELSE IF NameDue(s) THEN [s EXCEPT !.nameSent = TRUE, !.moreName = FALSE]
    ELSE [s EXCEPT !.versionSent = TRUE]

-----------------------------------------------------------------------------
(* rx_post_dissection, one operator for each kind of packet.               *)

(* The value of a length once it is in a char. *)
InChar(n) == IF CharSigned /\ n > 127 THEN n - 256 ELSE n

Ignored(s) == [g |-> s, log |-> log, exited |-> FALSE]

FeaturesRes(s) ==
    [g |-> [s EXCEPT !.have = @ \cup {"features"}], log |-> log, exited |-> FALSE]

(* A page above the device's last one is not logged, but counts as the answer. *)
FeaturesResExt(s, p) ==
    LET t == [s EXCEPT !.have = @ \cup {"pages"}]
    IN  IF p.page > p.last
        THEN [g |-> t, log |-> log, exited |-> FALSE]
        ELSE [g |-> [t EXCEPT !.extReceived = TRUE, !.lastPage = p.last],
              log |-> [log EXCEPT !.pages = @ \cup {p.page}], exited |-> FALSE]

NameDone(s, bytes) ==
    [g |-> [s EXCEPT !.offset = 0, !.name = {}, !.have = @ \cup {"name"}],
     log |-> [log EXCEPT !.names = @ \cup {bytes}],
     exited |-> FALSE]

(* One packet has the whole name, or is a fragment that goes into gName, *)
(* and then the name is complete or the next fragment is to be asked for. *)
NameRes(s, p) ==
    LET n == InChar(p.length)
        end == p.offset + Fragment
        name == s.name \cup p.offset..(end - 1)
    IN  IF n <= Fragment
        THEN NameDone(s, p.offset..(p.offset + n - 1))
        ELSE IF end >= n
             THEN NameDone(s, name \cap 0..(n - 1))
             ELSE [g |-> [s EXCEPT !.name = name, !.offset = end, !.moreName = TRUE],
                   log |-> log, exited |-> FALSE]

(* Seeded fault: the version is asked for once. *)
VersionResOnce(s) ==
    LET t == [s EXCEPT !.have = @ \cup {"version"}]
    IN  [g |-> t, log |-> log, exited |-> t.have = Part]

(* The version is asked for again until everything is there: "like a ping". *)
(* Every time it takes one second.                                          *)
VersionRes(s) ==
    LET t == [s EXCEPT !.have = @ \cup {"version"}]
    IN  IF t.have = Part
        THEN [g |-> t, log |-> log, exited |-> TRUE]
        ELSE [g |-> [t EXCEPT !.versionSent = FALSE],
              log |-> [log EXCEPT !.waits = @ + 1], exited |-> FALSE]

AfterPacket(s, p) ==
    CASE p.op = "features_res"     -> FeaturesRes(s)
      [] p.op = "features_res_ext" -> FeaturesResExt(s, p)
      [] p.op = "name_res"         -> NameRes(s, p)
      [] p.op = "version_res"      -> VersionRes(s)
      [] OTHER                     -> Ignored(s)

(* A packet arrives; waiting are the requests the device still has. *)
Receive(p, waiting) ==
    LET r == AfterPacket(AfterSending(g), p)
    IN  /\ ~exited
        /\ asked' = waiting \o ToSend(g)
        /\ g' = r.g /\ log' = r.log /\ exited' = r.exited
        /\ UNCHANGED device

-----------------------------------------------------------------------------
(* The device (external).                                                  *)

Answer(r) ==
    CASE r.op = "features_req" -> [op |-> "features_res"]
      [] r.op = "version_req"  -> [op |-> "version_res"]
      [] r.op = "name_req"     ->
            [op |-> "name_res", offset |-> r.offset, length |-> device.length]
      [] r.op = "features_req_ext" ->
            IF device.extended
            THEN [op |-> "features_res_ext", page |-> r.page, last |-> device.lastPage]
            ELSE [op |-> "not_accepted"]

DeviceAnswers ==
    /\ asked # <<>>
    /\ Receive(Answer(Head(asked)), Tail(asked))
    /\ UNCHANGED others

(* Its own requests and the answers to those of the bridged host. *)
OtherPacket ==
    /\ others < MaxOthers
    /\ Receive([op |-> "other"], asked)
    /\ others' = others + 1

(* Nothing happens any more: exit(0), or nobody has anything to send. *)
Ended ==
    /\ exited \/ (asked = <<>> /\ others = MaxOthers)
    /\ UNCHANGED vars

Next == DeviceAnswers \/ OtherPacket \/ Ended

Spec == Init /\ [][Next]_vars

(* The device answers; and it says something after the connection is made. *)
FairSpec == Spec /\ WF_vars(DeviceAnswers) /\ WF_vars(OtherPacket /\ others = 0)

-----------------------------------------------------------------------------
(* Every name in the log is the whole name, although it is put together    *)
(* from fragments that are asked for one at a time, by an offset that is   *)
(* shared with the handler of every packet in between.  The exception is a *)
(* name whose length is negative as a char: it is logged as empty.         *)
NamesAreWhole ==
    \A bytes \in log.names :
        \/ bytes = 0..(device.length - 1)
        \/ InChar(device.length) < 0 /\ bytes = {}

(* "We got all required responses. Exiting": with no packet in between     *)
(* but the one that starts the exchange, all pages of extended features    *)
(* are in the log by then, those asked for after the first answer too.     *)
ExitHasAllPages ==
    exited /\ others <= 1 => log.pages = 1..device.lastPage

(* Asking for the version "like a ping" is waited for once for every       *)
(* fragment of the name at most, whatever else arrives: this decides       *)
(* whether the exchange fits into the launcher's 15 seconds.               *)
Fragments == (device.length + Fragment - 1) \div Fragment

WaitsBounded ==
    device.extended => log.waits <= Fragments

(* The exchange goes on until everything is there, as the comment at the   *)
(* version request says, unless the device refuses the extended features:  *)
(* every packet that comes leaves something to be answered.                *)
ExitsIfAnswered == device.extended ~> exited
=============================================================================
