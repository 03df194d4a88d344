----------------------------- MODULE GetterGatt -----------------------------
(***************************************************************************)
(* The rest of a Better_Getter connection, once the MTU is settled         *)
(* (GetterLink): discovery of the services, of all handles and of the      *)
(* characteristics, the reads, and the SMP pairing request that ends it    *)
(* (Scripts/BG/BG_Helper_ATT.py, BG_Helper_GATT.py and BG_Helper_SMP.py).  *)
(*                                                                         *)
(* As in GetterLink, the handlers are functions of the getter's globals g, *)
(* and one packet of the peripheral is one action.  The peripheral is      *)
(* external: an attribute database, chosen at the start, that answers the  *)
(* requests in their order, some of them slowly or not at all.             *)
(***************************************************************************)
EXTENDS GetterConnection, Integers, Sequences, FiniteSetsExt

CONSTANTS
    Databases,      \* the peripherals
    LastHandle,     \* 0xFFFF
    PerAnswer,      \* how many handles fit in one ATT_FIND_INFORMATION_RSP
    MaxBehind,      \* bound: how far the peripheral is behind when a timeout runs out
    MaxTries        \* *_max_retries

RequestOp == {"GROUP_primary", "GROUP_secondary", "FIND_INFO", "READ_TYPE", "READ",
              "PAIR", "PAIR_SC"}

Timer == {"primary", "char", "read", "smp"}

ServiceType == {"primary", "secondary"}

Handle == 1..LastHandle

Database ==
    [kind: [Handle -> ServiceType \cup {"char", "value", "gap"}],
     wide: SUBSET Handle,       \* the services with a 128 bit UUID
     open: BOOLEAN,             \* the last service ends at 0xFFFF
     skips: BOOLEAN,            \* ATT_FIND_INFORMATION goes past a gap
     slow: SUBSET Timer,        \* answers that may take longer than the retry timeout
     loses: SUBSET RequestOp]   \* requests it may not answer

(* A service comes before its attributes, and a characteristic before its   *)
(* value.  "value" stands for descriptors too.                              *)
Layout(k) ==
    /\ \A h \in Handle : k[h] = "char" => h < LastHandle /\ k[h + 1] = "value"
    /\ \A h \in Handle : k[h] \in {"char", "value"} => \E s \in 1..h : k[s] \in ServiceType

ASSUME GattAssumption ==
    /\ LastHandle \in Nat \ {0, 1}
    /\ Databases \subseteq {p \in Database : Layout(p.kind)}
    /\ PerAnswer \in Nat \ {0}
    /\ MaxBehind \in Nat /\ MaxDrops \in Nat /\ MaxTries \in Nat \ {0}
    /\ NONE \notin {"done", "exception"}

VARIABLES
    db,         \* the peripheral's attributes
    g           \* the globals of the getter

vars == <<db, g, asked, drops>>

Getter ==
    [sent: SUBSET {"primary", "secondary", "info", "char", "read", "smp", "sc"},  \* *_sent_time
     late: SUBSET Timer,                        \* ... are retry_timeout ago
     done: SUBSET {"primary", "secondary", "info", "char", "read", "smp"},
     tries: [Timer \cup {"secondary"} -> Nat],  \* *_retry_count, attempt_count
     type: ServiceType,                         \* last_requested_service_type
     final: [ServiceType -> Handle],            \* *_service_final_handle
     last: [ServiceType \cup {"info", "char", "read"} -> Handle \cup {-1}],  \* *_last_requested_handle
     found: [ServiceType -> SUBSET Handle],     \* *_service_handle_ranges_dict
     top: Handle,                               \* final_handle
     handles: SUBSET Handle,                    \* received_handles
     values: [Handle -> Handle \cup {NONE}],    \* all_handles_received_values: whose value
     exit: {NONE, "done", "exception"},
     out: Seq([op: RequestOp, h: Handle])]      \* what this packet made it send

TypeOK ==
    /\ db \in Database
    /\ g \in Getter
    /\ asked \in Seq([op: RequestOp, h: Handle])
    /\ drops \in 0..MaxDrops

Init ==
    /\ db \in Databases
    /\ g = [sent |-> {}, late |-> {}, done |-> {},
            tries |-> [t \in Timer \cup {"secondary"} |-> 0],
            type |-> "primary", final |-> [t \in ServiceType |-> 1],
            last |-> [t \in ServiceType \cup {"info", "char", "read"} |-> IF t = "char" THEN 2 ELSE 1],
            found |-> [t \in ServiceType |-> {}], top |-> 1, handles |-> {},
            values |-> [h \in Handle |-> NONE], exit |-> NONE, out |-> <<>>]
    /\ asked = <<>>
    /\ drops = 0

----------------------------------------------------------------------------
(* A handle is packed in two bytes: past 0xFFFF, to_bytes raises.           *)
Send(s, op, h) ==
    IF h > LastHandle THEN [s EXCEPT !.exit = "exception"]
    ELSE [s EXCEPT !.out = Append(@, [op |-> op, h |-> h])]

Start(s, t, op, h) == Send([s EXCEPT !.sent = @ \cup {t}, !.late = @ \ {t}], op, h)

Done(s, t) == [s EXCEPT !.done = @ \cup {t}]

GroupOf(t) == IF t = "primary" THEN "GROUP_primary" ELSE "GROUP_secondary"

(* A retry; the last one is given up. *)
Retry(s, t, op, h) ==
    IF s.tries[t] + 1 = MaxTries THEN Done([s EXCEPT !.tries[t] = @ + 1], t)
    ELSE Send([s EXCEPT !.tries[t] = @ + 1, !.late = @ \ {t}], op, h)

RequestPrimary(s) ==
    IF "primary" \notin s.sent THEN Start([s EXCEPT !.type = "primary"], "primary", "GROUP_primary", 1)
    ELSE IF "primary" \notin s.done /\ "primary" \in s.late
         THEN Retry(s, "primary", "GROUP_primary", s.last["primary"])
    ELSE s

(* The time that is compared is the primary request's, and stays what it was. *)
RequestSecondary(s) ==
    IF "primary" \notin s.done THEN s
    ELSE IF "secondary" \notin s.sent
         THEN Start([s EXCEPT !.type = "secondary"], "secondary", "GROUP_secondary", 1)
    ELSE IF "secondary" \notin s.done /\ "primary" \in s.late
         THEN Retry(s, "secondary", "GROUP_secondary", s.last["secondary"])
    ELSE s

outgoing_service_discovery(s) == RequestSecondary(RequestPrimary(s))

(* The retry needs primary services that are not all received, and the      *)
(* phase only starts when they are.                                         *)
outgoing_handle_discovery(s) ==
    IF "secondary" \notin s.done \/ "info" \in s.done \/ "info" \in s.sent THEN s
    ELSE Start(s, "info", "FIND_INFO", 1)

(* Characteristics have been seen among the handles. *)
FirstIsCharacteristic(s) ==
    LET first == Min(s.found["primary"]) + 1
    IN  first \in s.handles /\ db.kind[first] = "char"

(* sorted(...)[0] of no primary service raises.  A retry leaves the time.   *)
outgoing_characteristic_discovery(s) ==
    IF "info" \notin s.done \/ "char" \in s.done THEN s
    ELSE IF s.found["primary"] = {} THEN [s EXCEPT !.exit = "exception"]
    ELSE IF FirstIsCharacteristic(s) THEN Done(s, "char")
    ELSE IF "char" \notin s.sent THEN Start(s, "char", "READ_TYPE", s.last["char"])
    ELSE IF "char" \notin s.late \/ s.tries["char"] >= MaxTries THEN s
    ELSE [Retry(s, "char", "READ_TYPE", s.last["char"]) EXCEPT !.late = s.late]

----------------------------------------------------------------------------
(* The order of the reads. *)

IsService(h) == db.kind[h] \in ServiceType

(* From h on, the first handle of the run without a gap that is no service. *)
helper_skip_service_handles(hs, h) ==
    LET run == {k \in hs : k >= h /\ h..k \subseteq hs /\ ~IsService(k)}
    IN  IF run = {} THEN -1 ELSE Min(run)

get_next_handle_to_att_read(hs, l) ==
    LET common == IF l + 1 \in hs THEN helper_skip_service_handles(hs, l + 1) ELSE -1
        later  == {h \in hs : h > l /\ helper_skip_service_handles(hs, h) # -1}
    IN  IF common # -1 THEN common
        ELSE IF later # {} THEN helper_skip_service_handles(hs, Min(later))
        ELSE -1

send_next_ATT_READ_REQ_if_applicable(s, l) ==
    LET h == get_next_handle_to_att_read(s.handles, l)
    IN  IF s.top < s.last["read"] THEN s
        ELSE IF h = -1 THEN Done(s, "read")
        ELSE Start([s EXCEPT !.last["read"] = h], "read", "READ", h)

StartReading(s) ==
    LET h == get_next_handle_to_att_read(s.handles, 1)
        t == [s EXCEPT !.last["read"] = h, !.sent = @ \cup {"read"}]
    IN  send_next_ATT_READ_REQ_if_applicable(IF h = -1 THEN Done(t, "read") ELSE t, h)

(* A retry asks for the handle after the one that was not answered. *)
RetryReading(s) ==
    IF s.tries["read"] + 1 = MaxTries THEN Done([s EXCEPT !.tries["read"] = @ + 1], "read")
    ELSE send_next_ATT_READ_REQ_if_applicable(
             [s EXCEPT !.tries["read"] = @ + 1, !.late = @ \ {"read"}], s.last["read"])

outgoing_read_all_handles(s) ==
    IF "char" \notin s.done THEN s
    ELSE IF "info" \in s.done /\ "read" \notin s.sent THEN StartReading(s)
    ELSE IF "read" \notin s.done /\ "read" \in s.late THEN RetryReading(s)
    ELSE s

----------------------------------------------------------------------------
(* The answers: [p |-> kind, of |-> request, h |-> handle, hs |-> handles].  *)

Services == {h \in Handle : IsService(h)}

EndOf(h) ==
    LET later == {k \in Services : k > h}
    IN  IF later # {} THEN Min(later) - 1
        ELSE IF db.open THEN LastHandle
        ELSE Max({k \in Handle : db.kind[k] # "gap"})

(* Seeded fault: the long ones are taken for the secondary ones. *)
WideAsSecondary(s, h) == IF h \in db.wide THEN "secondary" ELSE s.type

(* A service with a 128 bit UUID is always filed as a primary one. *)
FiledAs(s, h) == IF h \in db.wide THEN "primary" ELSE s.type

process_ATT_READ_BY_GROUP_TYPE_RSP(s, a) ==
    LET t == FiledAs(s, a.h)
        r == [s EXCEPT !.found[t] = @ \cup {a.h}, !.final[t] = EndOf(a.h), !.values[a.h] = a.h]
        next == r.final[s.type] + 1
    IN  IF r.final["primary"] = LastHandle THEN Done(r, s.type)
        ELSE Send([r EXCEPT !.last[s.type] = IF next > LastHandle THEN @ ELSE next], GroupOf(s.type), next)

NoMoreServices(s, a) ==
    IF a.of \notin {"GROUP_primary", "GROUP_secondary"} THEN s
    ELSE IF s.type = "primary" /\ a.h = s.last["primary"] THEN Done(s, "primary")
    ELSE IF a.h = s.last["secondary"] THEN Done(s, "secondary")
    ELSE s

incoming_service_discovery(s, a) ==
    IF \/ "primary" \notin s.sent
       \/ ServiceType \subseteq s.done
       \/ "primary" \in s.done /\ "secondary" \notin s.sent
    THEN s
    ELSE IF a.p = "GROUP_RSP" THEN process_ATT_READ_BY_GROUP_TYPE_RSP(s, a)
    ELSE IF a.p = "NOT_FOUND" THEN NoMoreServices(s, a)
    ELSE s

process_ATT_FIND_INFORMATION_RSP(s, a) ==
    LET top == Max({s.top} \cup a.hs)
    IN  Send([s EXCEPT !.handles = @ \cup a.hs, !.top = top,
                       !.last["info"] = IF top = LastHandle THEN @ ELSE top + 1],
             "FIND_INFO", top + 1)

(* Seeded fault: a gap is taken for the end. *)
NoHigherHandle(s, h) == h

(* A service that starts further up: there is a gap in the handles. *)
check_for_higher_service_start_handle(s, h) ==
    LET higher == {k \in s.found["primary"] \cup s.found["secondary"] : k > h}
    IN  IF higher = {} THEN h ELSE Min(higher)

NoMoreHandles(s, a) ==
    LET h == check_for_higher_service_start_handle(s, s.last["info"])
    IN  IF a.of # "FIND_INFO" \/ a.h # s.last["info"] THEN s
        ELSE IF h = s.last["info"] THEN Done(s, "info")
        ELSE Send([s EXCEPT !.last["info"] = h], "FIND_INFO", h)

incoming_handle_discovery(s, a) ==
    IF "info" \notin s.sent \/ "info" \in s.done THEN s
    ELSE IF a.p = "INFO_RSP" THEN process_ATT_FIND_INFORMATION_RSP(s, a)
    ELSE IF a.p = "NOT_FOUND" THEN NoMoreHandles(s, a)
    ELSE s

process_ATT_READ_BY_TYPE_RSP(s, a) ==
    LET r == [s EXCEPT !.handles = @ \cup {a.h, a.h + 1}, !.values[a.h] = a.h]
    IN  IF a.h + 1 = LastHandle THEN Done(r, "char")
        ELSE Send([r EXCEPT !.last["char"] = a.h + 2], "READ_TYPE", a.h + 2)

incoming_characteristic_discovery(s, a) ==
    IF "char" \notin s.sent \/ "char" \in s.done THEN s
    ELSE IF a.p = "TYPE_RSP" THEN process_ATT_READ_BY_TYPE_RSP(s, a)
    ELSE IF a.p = "NOT_FOUND" /\ a.of = "READ_TYPE" /\ a.h = s.last["char"] THEN Done(s, "char")
    ELSE s

(* Seeded fault: the next handle is asked for before the value is stored. *)
StoreAfterwards(s, h) ==
    LET r == send_next_ATT_READ_REQ_if_applicable(s, s.last["read"])
    IN  [r EXCEPT !.values[r.last["read"]] = h]

(* The answer is taken for one about the last handle that was sent. *)
Store(s, h) ==
    send_next_ATT_READ_REQ_if_applicable([s EXCEPT !.values[s.last["read"]] = h], s.last["read"])

incoming_read_all_handles(s, a) ==
    IF "read" \notin s.sent \/ "read" \in s.done THEN s
    ELSE IF a.p = "READ_RSP" THEN Store(s, a.h)
    ELSE IF a.p = "REFUSED" /\ a.h = s.last["read"] THEN Store(s, a.h)
    ELSE s

(* Seeded fault: the request is not sent again. *)
PairOnce(s) ==
    IF "smp" \notin s.sent
    THEN [Start(s, "smp", "PAIR", 1) EXCEPT !.tries["smp"] = @ + 1]
    ELSE s

(* handle_SMP_Pairing; the process exits when it has its answer. *)
RequestPairing(s) ==
    IF "smp" \notin s.sent
    THEN [Start(s, "smp", "PAIR", 1) EXCEPT !.tries["smp"] = @ + 1]
    ELSE IF "smp" \in s.late
    THEN LET r == [Start(s, "smp", "PAIR", 1) EXCEPT !.tries["smp"] = @ + 1]
         IN  IF r.tries["smp"] > 5 THEN Done(r, "smp") ELSE r
    ELSE s

PairingAnswered(s, a) ==
    IF a.p \in {"PAIR_RSP", "PAIR_NOT_SUPPORTED"} THEN Done(s, "smp")
    ELSE IF a.p = "PAIR_FAILED" /\ "sc" \notin s.sent THEN Start(s, "sc", "PAIR_SC", 1)
    ELSE IF a.p = "PAIR_FAILED" THEN Done(s, "smp")
    ELSE s

handle_SMP_Pairing(s, a) ==
    IF "read" \notin s.done \/ "smp" \in s.done THEN s
    ELSE IF "smp" \notin s.sent THEN RequestPairing(s)
    ELSE LET r == RequestPairing(s) IN IF "smp" \in r.done THEN r ELSE PairingAnswered(r, a)

print_and_exit(s) ==
    IF s.exit = NONE /\ "smp" \in s.done THEN [s EXCEPT !.exit = "done"] ELSE s

(* stateful_GATT_getter and the end of print_packet, for an ATT or SMP      *)
(* packet: what one handler leaves is what the next one starts from.        *)
Handled(s, a) ==
    {print_and_exit(handle_SMP_Pairing(s4, a)) : s4 \in
        {incoming_read_all_handles(s3, a) : s3 \in
            {incoming_characteristic_discovery(s2, a) : s2 \in
                {incoming_handle_discovery(s1, a) : s1 \in {incoming_service_discovery(s, a)}}}}}

Nothing == [p |-> "EMPTY", of |-> NONE, h |-> 1, hs |-> {}]

(* and for an empty one: discovery of the characteristics that sends ends it. *)
FindAndRead(s) ==
    LET c == outgoing_characteristic_discovery(s)
    IN  IF c.out # s.out \/ c.tries # s.tries \/ c.exit # NONE THEN c
        ELSE outgoing_read_all_handles(c)

SendPending(s) ==
    {print_and_exit(handle_SMP_Pairing(s3, Nothing)) : s3 \in
        {FindAndRead(s2) : s2 \in
            {outgoing_handle_discovery(s1) : s1 \in {outgoing_service_discovery(s)}}}}

----------------------------------------------------------------------------
Fresh(s) == [s EXCEPT !.out = <<>>]

Take(s, waiting) ==
    /\ g' = s
    /\ asked' = IF s.exit = NONE THEN waiting \o s.out ELSE <<>>
    /\ UNCHANGED db

(* What the peripheral answers to a request. *)
Ahead(hs, h) == {k \in hs : k >= h}

OfKind(k) == {h \in Handle : db.kind[h] = k}

OrNotFound(r, hs, p) ==
    IF Ahead(hs, r.h) = {} THEN {[p |-> "NOT_FOUND", of |-> r.op, h |-> r.h, hs |-> {}]}
    ELSE {[p |-> p, of |-> r.op, h |-> Min(Ahead(hs, r.h)), hs |-> {}]}

InfoAnswer(r) ==
    LET ahead == Ahead(Handle \ OfKind("gap"), r.h)
        left == IF db.skips THEN ahead ELSE {h \in ahead : r.h..h \subseteq ahead}
        hs == {h \in left : Cardinality({k \in left : k <= h}) <= PerAnswer}
    IN  IF left = {} THEN {[p |-> "NOT_FOUND", of |-> r.op, h |-> r.h, hs |-> {}]}
        ELSE {[p |-> "INFO_RSP", of |-> r.op, h |-> r.h, hs |-> hs]}

AnswersTo(r) ==
    CASE r.op = "GROUP_primary"   -> OrNotFound(r, OfKind("primary"), "GROUP_RSP")
      [] r.op = "GROUP_secondary" -> OrNotFound(r, OfKind("secondary"), "GROUP_RSP")
      [] r.op = "FIND_INFO"       -> InfoAnswer(r)
      [] r.op = "READ_TYPE"       -> OrNotFound(r, OfKind("char"), "TYPE_RSP")
      [] r.op = "READ"            -> {[p |-> p, of |-> r.op, h |-> r.h, hs |-> {}] : p \in {"READ_RSP", "REFUSED"}}
      [] OTHER                    -> {[p |-> p, of |-> r.op, h |-> 1, hs |-> {}] :
                                        p \in {"PAIR_RSP", "PAIR_NOT_SUPPORTED", "PAIR_FAILED"}}

PeripheralAnswers ==
    /\ g.exit = NONE
    /\ asked # <<>>
    /\ \E a \in AnswersTo(Head(asked)) : \E s \in Handled(Fresh(g), a) : Take(s, Tail(asked))
    /\ UNCHANGED drops

PeripheralDrops ==
    /\ g.exit = NONE
    /\ asked # <<>> /\ Head(asked).op \in db.loses
    /\ drops < MaxDrops
    /\ drops' = drops + 1
    /\ asked' = Tail(asked)
    /\ UNCHANGED <<db, g>>

EmptyPacket ==
    /\ g.exit = NONE
    /\ \E s \in SendPending(Fresh(g)) : Take(s, asked)
    /\ UNCHANGED drops

(* The retry timeout of a request runs out: its answer is slow, or there is *)
(* none to wait for.                                                        *)
TimePasses(t) ==
    /\ g.exit = NONE
    /\ t \in g.sent \ g.late
    /\ \/ asked = <<>> /\ drops > 0
       \/ t \in db.slow /\ Len(asked) <= MaxBehind
    /\ g' = [Fresh(g) EXCEPT !.late = @ \cup {t}]
    /\ UNCHANGED <<db, asked, drops>>

Exited == g.exit # NONE /\ UNCHANGED vars

Next ==
    \/ PeripheralAnswers
    \/ PeripheralDrops
    \/ EmptyPacket
    \/ \E t \in Timer : TimePasses(t)
    \/ Exited

Spec == Init /\ [][Next]_vars

(* A connected peripheral keeps sending packets and answers what it does    *)
(* not drop; clocks advance.                                                *)
Fairness ==
    /\ WF_vars(PeripheralAnswers)
    /\ WF_vars(EmptyPacket)
    /\ \A t \in Timer : WF_vars(TimePasses(t))

LiveSpec == Spec /\ Fairness

----------------------------------------------------------------------------
Attributes == Handle \ OfKind("gap")

(* Nothing was late or lost. *)
Undisturbed == db.slow = {} /\ drops = 0

(* A gap ends where a service starts: a peripheral whose answers stop at a  *)
(* gap can be resumed from there.                                           *)
GapsEndAtServices ==
    \A h \in 2..LastHandle : db.kind[h - 1] = "gap" => db.kind[h] \in ServiceType \cup {"gap"}

(* No service ends at 0xFFFF, or none is secondary (see SecondaryFound). *)
EndsAreClear == ~db.open \/ OfKind("secondary") = {}

(* Whatever the layout of the database, gaps included, all services and all *)
(* handles have been discovered when the getter is done.                    *)
AllHandlesFound ==
    g.exit = "done" /\ Undisturbed /\ EndsAreClear /\ (db.skips \/ GapsEndAtServices)
    => g.handles = Attributes /\ g.found["primary"] \cup g.found["secondary"] = Services

(* In step with the peripheral, each handle but the first one (see          *)
(* ValuesComplete) is read, and given its own value.                        *)
RestRead ==
    g.exit = "done" /\ Undisturbed
    => \A h \in g.handles \ Services :
        h > get_next_handle_to_att_read(g.handles, 1) => g.values[h] = h

(* With no request late or lost, an exception ends the getter only at a     *)
(* peripheral without primary services, with an attribute at 0xFFFF (a      *)
(* request from 0x10000 follows), or with a last service that ends there    *)
(* and a secondary one (see NoException).                                   *)
RaisesOnlyAtEnds ==
    g.exit = "exception" /\ Undisturbed
    => OfKind("primary") = {} \/ LastHandle \in Attributes \/ ~EndsAreClear

(* The getter may go on for ever at two kinds of peripherals.  A secondary  *)
(* service with a 128 bit UUID counts as a primary one, and the same handle *)
(* is asked for again and again (line 133).  Where ATT_FIND_INFORMATION     *)
(* ends at a gap, a characteristic beyond it is above final_handle, and is  *)
(* neither read nor given up (BG_Helper_ATT.py:199).                        *)
NoneWide == OfKind("secondary") \cap db.wide = {}

Ends == <>(g.exit # NONE)

(* At all others, whatever is late, and whatever is lost but                *)
(* ATT_FIND_INFORMATION, the getter ends: the launcher does not need its    *)
(* timeout.                                                                 *)
Completes == NoneWide /\ (db.skips \/ GapsEndAtServices) => Ends

----------------------------------------------------------------------------
(* What the comments say. *)

(* BG_Helper_GATT.py, line 461: "Read all Values from all handles".  The    *)
(* first handle is passed to send_next_ATT_READ_REQ_if_applicable as the    *)
(* last one read, so that it is the second that is asked for.               *)
ValuesComplete ==
    g.exit = "done" /\ Undisturbed => \A h \in g.handles \ Services : g.values[h] # NONE

(* Line 350: an answer is "a response for that handle", the one it is       *)
(* stored under.                                                            *)
ValuesRight == \A h \in Handle : g.values[h] \in {h, NONE}

(* Lines 64 and 137: giving up on a kind of service, and a last service     *)
(* that ends at 0xFFFF, are "done", not an error.                           *)
NoException == g.exit # "exception"

(* Line 417: the answers are processed "for either primary of secondary     *)
(* services".                                                               *)
FiledByType == \A t \in ServiceType : g.found[t] \subseteq OfKind(t)

(* Line 78: a request for the secondary services is repeated, and at last   *)
(* given up, when "it's been too long since we saw any response"; and line  *)
(* 137, discovery ends when "the last handle of the last service ended with *)
(* 0xFFFF".  Both look at the primary services instead.                     *)
SecondaryFound ==
    "secondary" \in g.done /\ drops = 0
    => OfKind("secondary") \subseteq g.found["primary"] \cup g.found["secondary"]
=============================================================================
