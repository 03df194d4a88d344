----------------------------- MODULE GetterLink -----------------------------
(***************************************************************************)
(* The start of a Better_Getter connection (Scripts/BG): the link layer    *)
(* control procedures of BG_Helper_LL.py, and the ATT MTU exchange of      *)
(* BG_Helper_ATT.py that waits for them.                                   *)
(*                                                                         *)
(* The getter is one loop: each packet of the peripheral is given to the   *)
(* incoming handlers, and control and empty packets then to the outgoing   *)
(* ones (print_packet).  The handlers are functions of the state ll, so    *)
(* that one packet is one action.  The peripheral is external.  The        *)
(* process goes on with GetterGatt; Link in a name says that it is about   *)
(* this phase.                                                             *)
(***************************************************************************)
EXTENDS GetterConnection, Integers, FiniteSets, Sequences

CONSTANTS
    Wants2M,        \* --attempt-2M-PHY-update
    SkipsApple,     \* --skip-apple
    Supports2M,     \* a feature of the peripheral
    Answers,        \* what the peripheral may answer to each request
    Unprompted,     \* what it may send of its own accord, once each
    MaxAsked        \* bound: how far it is behind when a timer runs out

Control == {"FEATURE_REQ", "VERSION_IND", "PHY_REQ", "LENGTH_REQ"}

Request == Control \cup {"MTU_REQ"}

Refusal == {"UNKNOWN_RSP", "REJECT_IND", "REJECT_EXT_IND", "ERROR_RSP"}

ASSUME LinkAssumption ==
    /\ Wants2M \in BOOLEAN /\ SkipsApple \in BOOLEAN /\ Supports2M \in BOOLEAN
    /\ Answers \in [Request -> SUBSET ({"FEATURE_RSP", "VERSION_IND", "PHY_RSP",
                                         "LENGTH_RSP", "MTU_RSP"} \cup Refusal)]
    /\ Unprompted \subseteq {"PERIPHERAL_FEATURE_REQ", "VERSION_IND", "LENGTH_REQ",
                             "PHY_REQ", "MTU_REQ", "OTHER"}
    /\ MaxDrops \in Nat /\ MaxAsked \in Nat \ {0}
    /\ NONE \notin Control

VARIABLES
    ll,         \* the globals of the getter
    exit,       \* how the getter ended, if it has
    peer,       \* what the peripheral has sent of its own accord
    on2M        \* the link has changed its PHY

linkVars == <<ll, exit, asked, peer, on2M, drops>>

LinkState ==
    [known: SUBSET {"features", "version", "length"},  \* ll_*_received, ll_length_negotiated
     sent: SUBSET (Request \cup {"PHY_UPDATE_IND"}),    \* ll_*_sent, att_exchange_MTU_req_sent
     got: SUBSET {"FEATURE_RSP", "PHY_RSP", "MTU_RSP", "MTU_REQ"},  \* *_recv
     pending: BOOLEAN,                                  \* ll_ctrl_pkt_pending
     last: Control \cup {NONE},                         \* last_sent_ll_ctrl_pkt_opcode
     late: BOOLEAN,                                     \* ... was sent 30 ms ago
     try2M: BOOLEAN,                                    \* attempt_2M_PHY_update
     fast: BOOLEAN,                                     \* PHY_updated
     mtu: BOOLEAN,                                      \* att_MTU_negotiated
     replied: BOOLEAN,                                  \* att_exchange_MTU_rsp_sent
     out: Seq(Request)]                                 \* what this packet made it send

LinkTypeOK ==
    /\ ll \in LinkState
    /\ exit \in {NONE, "apple", "exception"}
    /\ asked \in Seq(Request)
    /\ peer \subseteq Unprompted \cup {"VERSION_IND"}
    /\ on2M \in BOOLEAN
    /\ drops \in 0..MaxDrops

LinkInit ==
    /\ ll = [known |-> {}, sent |-> {}, got |-> {}, pending |-> FALSE, last |-> NONE,
             late |-> FALSE, try2M |-> Wants2M, fast |-> FALSE, mtu |-> FALSE,
             replied |-> FALSE, out |-> <<>>]
    /\ exit = NONE
    /\ asked = <<>>
    /\ peer = {}
    /\ on2M = FALSE
    /\ drops = 0

----------------------------------------------------------------------------
(* Sending. *)

(* Seeded fault: the opcode and the time are cleared, the flag is not. *)
clear_opcode_only(s) == [s EXCEPT !.last = NONE, !.late = FALSE]

clear_pending_packet_state(s) ==
    [s EXCEPT !.pending = FALSE, !.last = NONE, !.late = FALSE]

(* send_LL_*_and_update_state *)
SendAndUpdate(s, op) ==
    [s EXCEPT !.sent = @ \cup {op}, !.out = Append(@, op), !.pending = TRUE,
              !.last = op, !.late = FALSE]

SupportsPhy(s) == "features" \in s.known /\ Supports2M

send_LL_PHY_REQ(s) ==
    IF ~s.try2M THEN s
    ELSE IF ~SupportsPhy(s) THEN [s EXCEPT !.try2M = FALSE]
    ELSE SendAndUpdate(s, "PHY_REQ")

(* Seeded fault: a request that is late is not sent again. *)
ResendNothing(s, op) == s

SendRequest(s, op) == IF op = "PHY_REQ" THEN send_LL_PHY_REQ(s) ELSE SendAndUpdate(s, op)

send_LL_PHY_UPDATE_IND(s) ==
    IF Wants2M /\ SupportsPhy(s) THEN [s EXCEPT !.sent = @ \cup {"PHY_UPDATE_IND"}] ELSE s

(* The request has got what it was for. *)
Settled(s, op) ==
    CASE op = "LENGTH_REQ"  -> "length" \in s.known
      [] op = "FEATURE_REQ" -> "features" \in s.known
      [] op = "VERSION_IND" -> "version" \in s.known
      [] op = "PHY_REQ"     -> "PHY_RSP" \in s.got

(* Seeded fault: the update is sent without waiting for the response. *)
ReadyAtOnce(s) == s.try2M /\ "PHY_UPDATE_IND" \notin s.sent /\ "PHY_REQ" \in s.sent

ReadyForPhyUpdate(s) ==
    s.try2M /\ "PHY_UPDATE_IND" \notin s.sent /\ "PHY_REQ" \in s.sent /\ "PHY_RSP" \in s.got

(* The first packet in this order that has not been exchanged. *)
SendNext(s) ==
    IF "features" \notin s.known THEN SendAndUpdate(s, "FEATURE_REQ")
    ELSE IF "version" \notin s.known THEN SendAndUpdate(s, "VERSION_IND")
    ELSE IF s.try2M /\ "PHY_REQ" \notin s.sent THEN send_LL_PHY_REQ(s)
    ELSE IF ReadyForPhyUpdate(s) THEN send_LL_PHY_UPDATE_IND(s)
    ELSE IF "LENGTH_REQ" \notin s.sent /\ "length" \notin s.known
         THEN SendAndUpdate(s, "LENGTH_REQ")
    ELSE s

stateful_LL_CTRL_outgoing_handler(s) ==
    IF s.late THEN IF Settled(s, s.last) THEN clear_pending_packet_state(s)
                                         ELSE SendRequest(s, s.last)
    ELSE IF ~s.pending THEN SendNext(s)
    ELSE s

outgoing_ATT_EXCHANGE_MTUs(s) ==
    IF s.mtu \/ "length" \notin s.known \/ (s.try2M /\ ~s.fast) THEN s
    ELSE IF "MTU_REQ" \in s.got /\ ~s.replied THEN [s EXCEPT !.replied = TRUE, !.mtu = TRUE]
    ELSE IF "MTU_REQ" \notin s.sent
         THEN [s EXCEPT !.sent = @ \cup {"MTU_REQ"}, !.out = Append(@, "MTU_REQ")]
    ELSE s

----------------------------------------------------------------------------
(* Receiving.  A refusal names the request it refuses. *)

(* The end of update_LL_LENGTH_state: an answer to LL_LENGTH_REQ. *)
LengthAnswered(s) == [clear_pending_packet_state(s) EXCEPT !.mtu = TRUE]

EndsLengthPhase(s, p, op) ==
    /\ s.last = "LENGTH_REQ"
    /\ p = "UNKNOWN_RSP" => op = "LENGTH_REQ"
    /\ p # "REJECT_EXT_IND"

incoming_LL_errors(s, p, op) ==
    IF EndsLengthPhase(s, p, op) THEN LengthAnswered(s) ELSE clear_pending_packet_state(s)

(* The print of line 312 reads a variable that only the other branch sets. *)
RaisesOn(s, p, op) == p = "REJECT_EXT_IND" /\ s.last = "LENGTH_REQ" /\ op = "LENGTH_REQ"

incoming_LL_PERIPHERAL_FEATURE_REQ(s) == [s EXCEPT !.known = @ \cup {"features"}]

incoming_LL_FEATURE_RSP(s) ==
    IF "FEATURE_REQ" \in s.sent /\ "FEATURE_RSP" \notin s.got
    THEN [clear_pending_packet_state(s) EXCEPT !.known = @ \cup {"features"},
                                               !.got = @ \cup {"FEATURE_RSP"}]
    ELSE s

incoming_LL_LENGTHs(s, p) ==
    IF "length" \in s.known THEN s
    ELSE IF p = "LENGTH_RSP" THEN [LengthAnswered(s) EXCEPT !.known = @ \cup {"length"}]
    ELSE [s EXCEPT !.known = @ \cup {"length"}, !.pending = FALSE]

(* A version that comes first is answered with ours. *)
incoming_LL_VERSION_IND(s) ==
    IF "version" \in s.known THEN s
    ELSE [clear_pending_packet_state(s) EXCEPT !.known = @ \cup {"version"},
                                               !.sent = @ \cup {"VERSION_IND"}]

(* The peripheral's LL_PHY_REQ is rejected, and changes nothing. *)
incoming_LL_PHYs(s, p) ==
    IF p = "PHY_RSP" /\ "PHY_RSP" \notin s.got
    THEN [clear_pending_packet_state(s) EXCEPT !.got = @ \cup {"PHY_RSP"}]
    ELSE s

stateful_LL_CTRL_incoming_handler(s, p, op) ==
    CASE p = "PERIPHERAL_FEATURE_REQ"       -> incoming_LL_PERIPHERAL_FEATURE_REQ(s)
      [] p = "FEATURE_RSP"                  -> incoming_LL_FEATURE_RSP(s)
      [] p \in {"PHY_REQ", "PHY_RSP"}       -> incoming_LL_PHYs(s, p)
      [] p = "VERSION_IND"                  -> incoming_LL_VERSION_IND(s)
      [] p \in {"LENGTH_REQ", "LENGTH_RSP"} -> incoming_LL_LENGTHs(s, p)
      [] p \in Refusal                      -> incoming_LL_errors(s, p, op)
      [] OTHER                              -> s

(* An ATT error to our MTU request is not looked at. *)
incoming_ATT_EXCHANGE_MTUs(s, p) ==
    IF s.mtu THEN s
    ELSE IF p = "MTU_RSP" /\ "MTU_RSP" \notin s.got
    THEN [s EXCEPT !.got = @ \cup {"MTU_RSP"}, !.mtu = TRUE]
    ELSE IF p = "MTU_REQ" /\ "MTU_REQ" \notin s.got
    THEN [s EXCEPT !.got = @ \cup {"MTU_REQ"}, !.replied = "length" \in s.known,
                   !.mtu = "length" \in s.known]
    ELSE s

(* print_packet *)
LinkHandled(s, p, op) ==
    IF p \in {"MTU_REQ", "MTU_RSP", "ERROR_RSP"} THEN incoming_ATT_EXCHANGE_MTUs(s, p)
    ELSE stateful_LL_CTRL_outgoing_handler(stateful_LL_CTRL_incoming_handler(s, p, op))

(* How the packet may end the getter: the company it names may be Apple. *)
ExitsOn(p, op) ==
    IF RaisesOn(ll, p, op) THEN {"exception"}
    ELSE IF p = "VERSION_IND" /\ "version" \notin ll.known /\ SkipsApple THEN {NONE, "apple"}
    ELSE {NONE}

Arrived(s) == [s EXCEPT !.fast = @ \/ on2M, !.out = <<>>]

(* The peripheral's packet p, to the request op if it is an answer; waiting *)
(* is what is left to answer.                                               *)
Receive(p, op, waiting) ==
    /\ exit' \in ExitsOn(p, op)
    /\ ll' = IF exit' = NONE THEN LinkHandled(Arrived(ll), p, op) ELSE Arrived(ll)
    /\ asked' = waiting \o ll'.out
    /\ UNCHANGED <<on2M, drops>>

----------------------------------------------------------------------------
(* The packets. *)

(* A peripheral answers in order, and sends its version only once. *)
AlreadySent(p) == p = "VERSION_IND" /\ p \in peer

LinkAnswers ==
    /\ exit = NONE
    /\ asked # <<>>
    /\ \E p \in Answers[Head(asked)] :
        /\ ~AlreadySent(p)
        /\ peer' = IF p = "VERSION_IND" THEN peer \cup {p} ELSE peer
        /\ Receive(p, Head(asked), Tail(asked))

LinkIgnores ==
    /\ exit = NONE
    /\ asked # <<>> /\ \A p \in Answers[Head(asked)] : AlreadySent(p)
    /\ asked' = Tail(asked)
    /\ UNCHANGED <<ll, exit, peer, on2M, drops>>

LinkDrops ==
    /\ exit = NONE
    /\ asked # <<>> /\ Head(asked) \in Control
    /\ drops < MaxDrops
    /\ drops' = drops + 1
    /\ asked' = Tail(asked)
    /\ UNCHANGED <<ll, exit, peer, on2M>>

LinkSends(p) ==
    /\ exit = NONE
    /\ p \notin peer
    /\ peer' = peer \cup {p}
    /\ Receive(p, NONE, asked)

(* An empty packet gives the outgoing handlers a turn. *)
LinkEmptyPacket ==
    /\ exit = NONE
    /\ ll' = outgoing_ATT_EXCHANGE_MTUs(stateful_LL_CTRL_outgoing_handler(Arrived(ll)))
    /\ asked' = asked \o ll'.out
    /\ UNCHANGED <<exit, peer, on2M, drops>>

(* 30 ms pass without an answer. *)
LinkTimePasses ==
    /\ exit = NONE
    /\ ll.last # NONE /\ ~ll.late
    /\ Len(asked) <= MaxAsked
    /\ ll' = [ll EXCEPT !.late = TRUE]
    /\ UNCHANGED <<exit, asked, peer, on2M, drops>>

PhyChanges ==
    /\ "PHY_UPDATE_IND" \in ll.sent /\ ~on2M
    /\ on2M' = TRUE
    /\ UNCHANGED <<ll, exit, asked, peer, drops>>

(* The getter has exited. *)
LinkExited == exit # NONE /\ UNCHANGED linkVars

LinkNext ==
    \/ LinkAnswers
    \/ LinkIgnores
    \/ LinkDrops
    \/ \E p \in Unprompted : LinkSends(p)
    \/ LinkEmptyPacket
    \/ LinkTimePasses
    \/ PhyChanges
    \/ LinkExited

LinkSpec == LinkInit /\ [][LinkNext]_linkVars

(* A connected peripheral sends a packet in every connection event, and     *)
(* answers what it does not drop; clocks advance.                           *)
LinkFairness ==
    /\ WF_linkVars(LinkAnswers)
    /\ WF_linkVars(LinkIgnores)
    /\ WF_linkVars(LinkEmptyPacket)
    /\ WF_linkVars(LinkTimePasses)
    /\ WF_linkVars(PhyChanges)

LinkLiveSpec == LinkSpec /\ LinkFairness

----------------------------------------------------------------------------
(* ll_ctrl_pkt_pending never stays set without an opcode and a time: the    *)
(* 30 ms resend could not run and nothing would be sent any more.           *)
PendingHasTimer == ll.pending => ll.last # NONE

(* Line 600: "Make sure both a REQ and a RSP were seen before sending the   *)
(* PHY update", and only to a peripheral that supports it.                  *)
PhyUpdateAgreed ==
    "PHY_UPDATE_IND" \in ll.sent => Supports2M /\ "PHY_REQ" \in ll.sent /\ "PHY_RSP" \in ll.got

(* Whatever the peripheral sends in between and drops, the getter gets to   *)
(* the point where service discovery starts, or has exited.                 *)
LinkReady == <>(ll.mtu \/ exit # NONE)

----------------------------------------------------------------------------
(* What the comments say. *)

(* globals.py, line 65: the flag is "a general mutex to stop us from        *)
(* sending a new LL CTRL packet until we've received a response to the most *)
(* recently sent one".                                                      *)
OneOutstanding == Cardinality({asked[i] : i \in 1..Len(asked)} \cap Control) <= 1

(* Lines 310 to 313 mean a rejected LL_LENGTH_REQ to end the phase.         *)
LinkNoException == exit # "exception"

(* BG_Helper_ATT.py, lines 249 and 272: a peripheral's MTU request that     *)
(* comes early is queued, and answered once the length is negotiated.       *)
QueuedMtuAnswered == "MTU_REQ" \in ll.got /\ ll.mtu => ll.replied
=============================================================================
