---------------------------- MODULE GetterProofs ----------------------------
(***************************************************************************)
(* Proofs about the two phases of a Better_Getter connection, for every    *)
(* peripheral: GetterLink, the start of it, whatever the peripheral        *)
(* answers to each request, sends of its own accord, and drops; and        *)
(* GetterGatt, the rest, for every attribute database.                     *)
(***************************************************************************)
EXTENDS GetterLink, GetterGatt, FiniteSetTheorems, WellFoundedInduction, TLAPS

(* GetterLink.  A timer runs out only for a request, which is still known. *)
TimerInv(s) == (s.pending \/ s.late) => s.last # NONE

AgreedInv(s) ==
    "PHY_UPDATE_IND" \in s.sent => Supports2M /\ "PHY_REQ" \in s.sent /\ "PHY_RSP" \in s.got

LinkGood(s) == s \in LinkState /\ TimerInv(s) /\ AgreedInv(s)

LinkInv == LinkTypeOK /\ LinkGood(ll)

LinkPackets == {"FEATURE_RSP", "VERSION_IND", "PHY_RSP", "LENGTH_RSP", "MTU_RSP"}
               \cup Refusal
               \cup {"PERIPHERAL_FEATURE_REQ", "LENGTH_REQ", "PHY_REQ", "MTU_REQ", "OTHER"}

-----------------------------------------------------------------------------
(* The helpers keep what is good. *)

LEMMA ClearLinkGood ==
    ASSUME NEW s, LinkGood(s)
    PROVE  LinkGood(clear_pending_packet_state(s))
BY DEF LinkGood, LinkState, TimerInv, AgreedInv, clear_pending_packet_state

LEMMA SendLinkGood ==
    ASSUME NEW s, LinkGood(s), NEW op \in Control
    PROVE  LinkGood(SendAndUpdate(s, op))
<1> DEFINE t == SendAndUpdate(s, op)
<1>1. op \in Request /\ op # NONE
  BY LinkAssumption DEF Control, Request
<1>2. t \in LinkState
  <2>1. Append(s.out, op) \in Seq(Request)
    BY <1>1 DEF LinkGood, LinkState
  <2>2. QED
    BY <1>1, <2>1 DEF LinkGood, LinkState, SendAndUpdate
<1>3. TimerInv(t)
  BY <1>1 DEF LinkGood, LinkState, TimerInv, SendAndUpdate
<1>4. AgreedInv(t)
  BY DEF LinkGood, LinkState, AgreedInv, SendAndUpdate, Control
<1>5. QED
  BY <1>2, <1>3, <1>4 DEF LinkGood

LEMMA SendPhyGood ==
    ASSUME NEW s, LinkGood(s)
    PROVE  LinkGood(send_LL_PHY_REQ(s))
<1>1. LinkGood([s EXCEPT !.try2M = FALSE])
  BY DEF LinkGood, LinkState, TimerInv, AgreedInv
<1>2. LinkGood(SendAndUpdate(s, "PHY_REQ"))
  BY SendLinkGood DEF Control
<1>3. QED
  BY <1>1, <1>2 DEF send_LL_PHY_REQ

LEMMA SendUpdateGood ==
    ASSUME NEW s, LinkGood(s), ReadyForPhyUpdate(s)
    PROVE  LinkGood(send_LL_PHY_UPDATE_IND(s))
BY DEF LinkGood, LinkState, TimerInv, AgreedInv, send_LL_PHY_UPDATE_IND, ReadyForPhyUpdate,
       SupportsPhy

LEMMA OutgoingLinkGood ==
    ASSUME NEW s, LinkGood(s)
    PROVE  LinkGood(stateful_LL_CTRL_outgoing_handler(s))
<1>1. LinkGood(SendNext(s))
  BY SendLinkGood, SendPhyGood, SendUpdateGood DEF SendNext, Control
<1>2. CASE s.late
  <2>1. s.last \in Control
    BY <1>2 DEF LinkGood, LinkState, TimerInv
  <2>2. LinkGood(SendRequest(s, s.last))
    BY <2>1, SendLinkGood, SendPhyGood DEF SendRequest
  <2>3. QED
    BY <1>2, <2>2, ClearLinkGood DEF stateful_LL_CTRL_outgoing_handler
<1>3. CASE ~s.late
  BY <1>1, <1>3 DEF stateful_LL_CTRL_outgoing_handler
<1>4. QED
  BY <1>2, <1>3

LEMMA OutgoingMtuLinkGood ==
    ASSUME NEW s, LinkGood(s)
    PROVE  LinkGood(outgoing_ATT_EXCHANGE_MTUs(s))
<1>1. LinkGood([s EXCEPT !.replied = TRUE, !.mtu = TRUE])
  BY DEF LinkGood, LinkState, TimerInv, AgreedInv
<1>2. LinkGood([s EXCEPT !.sent = @ \cup {"MTU_REQ"}, !.out = Append(@, "MTU_REQ")])
  <2>1. "MTU_REQ" \in Request
    BY DEF Request
  <2>2. Append(s.out, "MTU_REQ") \in Seq(Request)
    BY <2>1 DEF LinkGood, LinkState
  <2>3. QED
    BY <2>1, <2>2 DEF LinkGood, LinkState, TimerInv, AgreedInv
<1>3. QED
  BY <1>1, <1>2 DEF outgoing_ATT_EXCHANGE_MTUs

-----------------------------------------------------------------------------
(* So do the incoming handlers. *)

LEMMA LengthLinkGood ==
    ASSUME NEW s, LinkGood(s)
    PROVE  LinkGood(LengthAnswered(s))
<1>1. LinkGood(clear_pending_packet_state(s))
  BY ClearLinkGood
<1>2. QED
  BY <1>1 DEF LengthAnswered, LinkGood, LinkState, TimerInv, AgreedInv

LEMMA IncomingLinkGood ==
    ASSUME NEW s, LinkGood(s), NEW p \in LinkPackets, NEW op
    PROVE  LinkGood(stateful_LL_CTRL_incoming_handler(s, p, op))
<1> DEFINE c == clear_pending_packet_state(s)
<1>0. LinkGood(c)
  BY ClearLinkGood
<1>1. LinkGood(incoming_LL_PERIPHERAL_FEATURE_REQ(s))
  BY DEF LinkGood, LinkState, TimerInv, AgreedInv, incoming_LL_PERIPHERAL_FEATURE_REQ
<1>2. LinkGood(incoming_LL_FEATURE_RSP(s))
  <2>1. LinkGood([c EXCEPT !.known = @ \cup {"features"}, !.got = @ \cup {"FEATURE_RSP"}])
    BY <1>0 DEF LinkGood, LinkState, TimerInv, AgreedInv
  <2>2. QED
    BY <2>1 DEF incoming_LL_FEATURE_RSP
<1>3. LinkGood(incoming_LL_LENGTHs(s, p))
  <2>1. LinkGood([LengthAnswered(s) EXCEPT !.known = @ \cup {"length"}])
    BY LengthLinkGood DEF LinkGood, LinkState, TimerInv, AgreedInv
  <2>2. LinkGood([s EXCEPT !.known = @ \cup {"length"}, !.pending = FALSE])
    BY DEF LinkGood, LinkState, TimerInv, AgreedInv
  <2>3. QED
    BY <2>1, <2>2 DEF incoming_LL_LENGTHs
<1>4. LinkGood(incoming_LL_VERSION_IND(s))
  <2>1. LinkGood([c EXCEPT !.known = @ \cup {"version"}, !.sent = @ \cup {"VERSION_IND"}])
    BY <1>0 DEF LinkGood, LinkState, TimerInv, AgreedInv, Request, Control
  <2>2. QED
    BY <2>1 DEF incoming_LL_VERSION_IND
<1>5. LinkGood(incoming_LL_PHYs(s, p))
  <2>1. LinkGood([c EXCEPT !.got = @ \cup {"PHY_RSP"}])
    BY <1>0 DEF LinkGood, LinkState, TimerInv, AgreedInv
  <2>2. QED
    BY <2>1 DEF incoming_LL_PHYs
<1>6. LinkGood(incoming_LL_errors(s, p, op))
  BY <1>0, LengthLinkGood DEF incoming_LL_errors
<1>7. QED
  BY <1>1, <1>2, <1>3, <1>4, <1>5, <1>6
     DEF stateful_LL_CTRL_incoming_handler, LinkPackets, Refusal

LEMMA IncomingMtuLinkGood ==
    ASSUME NEW s, LinkGood(s), NEW p
    PROVE  LinkGood(incoming_ATT_EXCHANGE_MTUs(s, p))
<1>1. LinkGood([s EXCEPT !.got = @ \cup {"MTU_RSP"}, !.mtu = TRUE])
  BY DEF LinkGood, LinkState, TimerInv, AgreedInv
<1>2. ASSUME NEW b \in BOOLEAN
      PROVE  LinkGood([s EXCEPT !.got = @ \cup {"MTU_REQ"}, !.replied = b, !.mtu = b])
  BY DEF LinkGood, LinkState, TimerInv, AgreedInv
<1>3. ("length" \in s.known) \in BOOLEAN
  OBVIOUS
<1>4. LinkGood([s EXCEPT !.got = @ \cup {"MTU_REQ"}, !.replied = "length" \in s.known,
                     !.mtu = "length" \in s.known])
  BY <1>2, <1>3, Zenon
<1>5. QED
  BY <1>1, <1>4 DEF incoming_ATT_EXCHANGE_MTUs

LEMMA HandledLinkGood ==
    ASSUME NEW s, LinkGood(s), NEW p \in LinkPackets, NEW op
    PROVE  LinkGood(LinkHandled(s, p, op))
BY IncomingLinkGood, IncomingMtuLinkGood, OutgoingLinkGood DEF LinkHandled

LEMMA ArrivedLinkGood ==
    ASSUME LinkGood(ll), on2M \in BOOLEAN
    PROVE  LinkGood(Arrived(ll))
<1> DEFINE s == Arrived(ll)
<1>1. <<>> \in Seq(Request)
  OBVIOUS
<1>2. (ll.fast \/ on2M) \in BOOLEAN
  OBVIOUS
<1>3. s = [ll EXCEPT !.fast = (ll.fast \/ on2M), !.out = <<>>]
  BY DEF Arrived
<1>4. s \in LinkState
  BY <1>1, <1>2, <1>3 DEF LinkGood, LinkState
<1>5. TimerInv(s) /\ AgreedInv(s)
  BY <1>3 DEF LinkGood, LinkState, TimerInv, AgreedInv
<1>6. QED
  BY <1>4, <1>5 DEF LinkGood

-----------------------------------------------------------------------------
(* The packets. *)

LEMMA ReceiveKeeps ==
    ASSUME LinkInv, NEW p \in LinkPackets, NEW op, NEW waiting \in Seq(Request),
           Receive(p, op, waiting), peer' \subseteq Unprompted \cup {"VERSION_IND"}
    PROVE  LinkInv'
<1>1. LinkGood(Arrived(ll))
  BY ArrivedLinkGood DEF LinkInv, LinkTypeOK
<1>2. LinkGood(ll')
  BY <1>1, HandledLinkGood DEF Receive
<1>3. exit' \in {NONE, "apple", "exception"}
  BY DEF Receive, ExitsOn
<1>4. asked' \in Seq(Request)
  BY <1>2 DEF Receive, LinkGood, LinkState
<1>5. QED
  BY <1>2, <1>3, <1>4 DEF LinkInv, LinkTypeOK, LinkGood, Receive

LEMMA LinkNextKeeps == LinkInv /\ [LinkNext]_linkVars => LinkInv'
<1> SUFFICES ASSUME LinkInv, [LinkNext]_linkVars PROVE LinkInv'
  OBVIOUS
<1> USE DEF LinkInv, LinkTypeOK
<1>1. CASE LinkAnswers
  <2> PICK p \in Answers[Head(asked)] :
        /\ peer' = IF p = "VERSION_IND" THEN peer \cup {p} ELSE peer
        /\ Receive(p, Head(asked), Tail(asked))
    BY <1>1 DEF LinkAnswers
  <2>1. Head(asked) \in Request /\ Tail(asked) \in Seq(Request)
    BY <1>1 DEF LinkAnswers
  <2>2. p \in LinkPackets
    BY <2>1, LinkAssumption DEF LinkPackets
  <2>3. peer' \subseteq Unprompted \cup {"VERSION_IND"}
    OBVIOUS
  <2>4. QED
    BY <2>1, <2>2, <2>3, ReceiveKeeps
<1>2. CASE LinkIgnores
  BY <1>2 DEF LinkIgnores, LinkGood, TimerInv, AgreedInv
<1>3. CASE LinkDrops
  BY <1>3, LinkAssumption DEF LinkDrops, LinkGood, TimerInv, AgreedInv
<1>4. ASSUME NEW p \in Unprompted, LinkSends(p) PROVE LinkInv'
  <2>1. p \in LinkPackets
    BY LinkAssumption DEF LinkPackets
  <2>2. QED
    BY <1>4, <2>1, ReceiveKeeps DEF LinkSends
<1>5. CASE LinkEmptyPacket
  <2>1. LinkGood(ll')
    BY <1>5, ArrivedLinkGood, OutgoingLinkGood, OutgoingMtuLinkGood DEF LinkEmptyPacket
  <2>2. asked' \in Seq(Request)
    BY <1>5, <2>1 DEF LinkEmptyPacket, LinkGood, LinkState
  <2>3. QED
    BY <1>5, <2>1, <2>2 DEF LinkEmptyPacket, LinkGood
<1>6. CASE LinkTimePasses
  BY <1>6 DEF LinkTimePasses, LinkGood, LinkState, TimerInv, AgreedInv
<1>7. CASE PhyChanges
  BY <1>7 DEF PhyChanges, LinkGood, TimerInv, AgreedInv
<1>8. CASE UNCHANGED linkVars
  BY <1>8 DEF linkVars, LinkGood, TimerInv, AgreedInv
<1>9. QED
  BY <1>1, <1>2, <1>3, <1>4, <1>5, <1>6, <1>7, <1>8 DEF LinkNext, LinkExited

LEMMA LinkInitKeeps == LinkInit => LinkInv
<1> SUFFICES ASSUME LinkInit PROVE LinkInv
  OBVIOUS
<1>1. LinkGood(ll)
  BY LinkAssumption DEF LinkInit, LinkGood, LinkState, TimerInv, AgreedInv
<1>2. <<>> \in Seq(Request) /\ 0 \in 0..MaxDrops
  BY LinkAssumption
<1>3. exit \in {NONE, "apple", "exception"} /\ peer \subseteq Unprompted \cup {"VERSION_IND"}
  BY DEF LinkInit
<1>4. QED
  BY <1>1, <1>2, <1>3 DEF LinkInit, LinkInv, LinkTypeOK, LinkGood

LEMMA LinkAlways == LinkSpec => []LinkInv
BY LinkInitKeeps, LinkNextKeeps, PTL DEF LinkSpec

-----------------------------------------------------------------------------
(* The globals of the getter keep their types (globals.py), whatever a      *)
(* peripheral answers and sends.                                           *)
THEOREM LinkTypes == LinkSpec => []LinkTypeOK
<1>1. LinkInv => LinkTypeOK
  BY DEF LinkInv
<1>2. QED
  BY <1>1, LinkAlways, PTL

(* ll_ctrl_pkt_pending is never set without an opcode to send again, so the *)
(* getter never waits for an answer it could not ask for again.             *)
THEOREM PendingCanBeResent == LinkSpec => []PendingHasTimer
<1>1. LinkInv => PendingHasTimer
  BY DEF LinkInv, LinkGood, TimerInv, PendingHasTimer
<1>2. QED
  BY <1>1, LinkAlways, PTL

(* The PHY update is sent only after the request and its response, and to a *)
(* peripheral with the feature, whatever comes in between.                  *)
THEOREM PhyUpdateIsAgreed == LinkSpec => []PhyUpdateAgreed
<1>1. LinkInv => PhyUpdateAgreed
  BY DEF LinkInv, LinkGood, AgreedInv, PhyUpdateAgreed
<1>2. QED
  BY <1>1, LinkAlways, PTL

-----------------------------------------------------------------------------
(* GetterGatt. The smallest and the greatest of some handles. *)
LEMMA LeastNat ==
    ASSUME NEW S \in SUBSET Nat, S # {}
    PROVE  \E x \in S : \A y \in S : x <= y
<1> DEFINE R == OpToRel(<, Nat)
<1>1. \E x \in S : \A y \in S : ~(<<y, x>> \in R)
  <2> HIDE DEF R
  <2>1. IsWellFoundedOn(R, Nat)
    BY NatLessThanWellFounded DEF R
  <2>2. QED
    BY <2>1, WFMin
<1>2. \A x, y \in S : x < y => <<x, y>> \in R
  BY DEF OpToRel
<1> HIDE DEF R
<1>3. PICK x \in S : \A y \in S : ~(<<y, x>> \in R)
  BY <1>1
<1>4. \A y \in S : ~(y < x)
  BY <1>2, <1>3
<1>5. x \in Nat /\ \A y \in S : y \in Nat
  OBVIOUS
<1>6. \A y \in S : x <= y
  BY <1>4, <1>5
<1>7. QED
  BY <1>6

LEMMA MinIs ==
    ASSUME NEW S \in SUBSET Int, NEW low \in Int, S # {}, \A x \in S : x >= low
    PROVE  Min(S) \in S /\ \A y \in S : Min(S) <= y
<1> DEFINE T == {x - low : x \in S}
<1>1. \A x \in S : x - low \in Nat
  OBVIOUS
<1>2. T \subseteq Nat /\ T # {}
  BY <1>1, Zenon
<1>3. PICK t \in T : \A y \in T : t <= y
  BY <1>2, LeastNat
<1>4. PICK x \in S : t = x - low
  OBVIOUS
<1>5. \A y \in S : t <= y - low
  BY <1>3
<1>6. \A y \in S : x <= y
  BY <1>4, <1>5
<1>7. QED
  BY <1>6 DEF Min

LEMMA MaxIs ==
    ASSUME NEW S \in SUBSET Int, NEW high \in Int, S # {}, \A x \in S : x <= high
    PROVE  Max(S) \in S /\ \A y \in S : y <= Max(S)
<1> DEFINE T == {high - x : x \in S}
<1>1. \A x \in S : high - x \in Nat
  OBVIOUS
<1>2. T \subseteq Nat /\ T # {}
  BY <1>1, Zenon
<1>3. PICK t \in T : \A y \in T : t <= y
  BY <1>2, LeastNat
<1>4. PICK x \in S : t = high - x
  OBVIOUS
<1>5. \A y \in S : t <= high - y
  BY <1>3
<1>6. \A y \in S : y <= x
  BY <1>4, <1>5
<1>7. QED
  BY <1>6 DEF Max

LEMMA HandlesAreNumbers ==
    /\ Handle \subseteq Nat /\ Handle \subseteq Int /\ Handle \subseteq Nat \ {0}
    /\ 1 \in Handle /\ 2 \in Handle /\ LastHandle \in Handle
    /\ \A h \in Handle : 1 <= h /\ h <= LastHandle
    /\ LastHandle \in Nat
  BY GattAssumption DEF Handle

LEMMA LeastHandle ==
    ASSUME NEW S \in SUBSET Handle, S # {}
    PROVE  Min(S) \in S /\ \A y \in S : Min(S) <= y
<1>1. S \in SUBSET Int /\ \A x \in S : x >= 1
  BY HandlesAreNumbers
<1>2. QED
  BY <1>1, MinIs

LEMMA GreatestHandle ==
    ASSUME NEW S \in SUBSET Handle, S # {}
    PROVE  Max(S) \in S /\ \A y \in S : y <= Max(S)
<1>1. S \subseteq Int /\ \A x \in S : x <= LastHandle
  BY HandlesAreNumbers
<1>2. LastHandle \in Int
  BY HandlesAreNumbers
<1>3. QED
  BY <1>1, <1>2, MaxIs

-----------------------------------------------------------------------------
(* The database. *)

Kinds == ServiceType \cup {"char", "value", "gap"}

LEMMA DatabaseIs ==
    ASSUME db \in Databases
    PROVE  /\ db \in Database
           /\ db.kind \in [Handle -> Kinds]
           /\ db.wide \subseteq Handle /\ db.open \in BOOLEAN /\ db.skips \in BOOLEAN
           /\ Services \subseteq Attributes /\ Attributes \subseteq Handle
           /\ OfKind("primary") \cup OfKind("secondary") = Services
           /\ \A h \in OfKind("char") :
                 h \in Attributes /\ h + 1 \in Attributes /\ h < LastHandle
           /\ 1 \in Attributes => 1 \in Services
<1>1. db \in Database /\ Layout(db.kind)
  BY GattAssumption
<1>2. /\ db.kind \in [Handle -> Kinds]
      /\ db.wide \subseteq Handle /\ db.open \in BOOLEAN /\ db.skips \in BOOLEAN
  BY <1>1 DEF Database, Kinds
<1>3. Services \subseteq Attributes /\ Attributes \subseteq Handle
  BY DEF Services, Attributes, IsService, OfKind, ServiceType
<1>4. OfKind("primary") \cup OfKind("secondary") = Services
  BY DEF Services, IsService, OfKind, ServiceType
<1>5. ASSUME NEW h \in OfKind("char")
      PROVE  h \in Attributes /\ h + 1 \in Attributes /\ h < LastHandle
  <2>1. h \in Handle /\ h < LastHandle /\ db.kind[h + 1] = "value" /\ db.kind[h] = "char"
    BY <1>1 DEF Layout, OfKind
  <2>2. h + 1 \in Handle
    BY <2>1, GattAssumption DEF Handle
  <2>3. QED
    BY <2>1, <2>2 DEF Attributes, OfKind
<1>6. ASSUME 1 \in Attributes PROVE 1 \in Services
  <2>1. 1 \in Handle /\ db.kind[1] \in Kinds /\ db.kind[1] # "gap"
    BY <1>2, <1>6 DEF Attributes, OfKind
  <2>2. db.kind[1] \notin {"char", "value"}
    <3> SUFFICES ASSUME db.kind[1] \in {"char", "value"} PROVE FALSE
      OBVIOUS
    <3>1. PICK k \in 1..1 : db.kind[k] \in ServiceType
      BY <1>1, <2>1 DEF Layout
    <3>2. k = 1
      OBVIOUS
    <3>3. QED
      BY <3>1, <3>2 DEF ServiceType
  <2>3. QED
    BY <2>1, <2>2 DEF Kinds, Services, IsService
<1>7. QED
  BY <1>1, <1>2, <1>3, <1>4, <1>5, <1>6

(* An attribute at 0xFFFF, or a last service that ends there. *)
Reaches == db.open \/ LastHandle \in Attributes

LEMMA EndOfIs ==
    ASSUME db \in Databases, NEW h \in Services
    PROVE  /\ EndOf(h) \in Handle /\ h <= EndOf(h)
           /\ \A k \in Services : k <= h \/ EndOf(h) < k
           /\ EndOf(h) = LastHandle => Reaches
<1> DEFINE later == {k \in Services : k > h}
<1>1. /\ Services \subseteq Handle /\ h \in Handle /\ h \in Attributes
      /\ Attributes \subseteq Handle /\ Handle \subseteq Nat
      /\ Attributes = {k \in Handle : db.kind[k] # "gap"}
  BY DatabaseIs, HandlesAreNumbers DEF Attributes, OfKind
<1>2. CASE later # {}
  <2>1. Min(later) \in later /\ \A y \in later : Min(later) <= y
    BY <1>1, <1>2, LeastHandle
  <2>2. EndOf(h) = Min(later) - 1
    BY <1>2 DEF EndOf
  <2> HIDE DEF later
  <2> DEFINE m == Min(later)
  <2>3. m \in Handle /\ m > h /\ m \in Nat
    BY <1>1, <2>1 DEF later
  <2>4. m - 1 \in Handle /\ h <= m - 1 /\ m - 1 < LastHandle
    BY <1>1, <2>3, GattAssumption DEF Handle
  <2>5. ASSUME NEW k \in Services, ~(k <= h) PROVE m - 1 < k
    <3>1. k \in later
      BY <1>1, <2>5 DEF later
    <3>2. m <= k /\ k \in Nat
      BY <1>1, <2>1, <3>1
    <3>3. QED
      BY <2>3, <3>2
  <2>6. QED
    BY <2>2, <2>4, <2>5, HandlesAreNumbers
<1>3. CASE later = {}
  <2>1. ASSUME NEW k \in Services PROVE k <= h
    <3>1. k \in Nat /\ h \in Nat /\ k \notin later
      BY <1>1, <1>3, Zenon
    <3>2. ~(k > h)
      BY <3>1
    <3>3. QED
      BY <3>1, <3>2
  <2>2. CASE db.open
    <3>1. EndOf(h) = LastHandle
      BY <1>3, <2>2 DEF EndOf
    <3>2. QED
      BY <1>1, <2>1, <2>2, <3>1, HandlesAreNumbers DEF Reaches
  <2>3. CASE ~db.open
    <3>1. EndOf(h) = Max(Attributes)
      BY <1>1, <1>3, <2>3 DEF EndOf
    <3>2. Max(Attributes) \in Attributes /\ \A y \in Attributes : y <= Max(Attributes)
      BY <1>1, GreatestHandle
    <3>3. QED
      BY <1>1, <2>1, <3>1, <3>2 DEF Reaches
  <2>4. QED
    BY <2>2, <2>3
<1>4. QED
  BY <1>2, <1>3

-----------------------------------------------------------------------------
(* The order of the reads: the next handle that is no service.             *)
LEMMA NextIs ==
    ASSUME db \in Databases, NEW hs \in SUBSET Handle, NEW l \in Int
    PROVE  LET n == get_next_handle_to_att_read(hs, l)
           IN  \/ n = -1 /\ \A k \in hs \ Services : k <= l
               \/ /\ n \in hs \ Services /\ n > l
                  /\ \A k \in hs \ Services : k <= l \/ n <= k
<1> DEFINE skip(h) == helper_skip_service_handles(hs, h)
           run(h) == {k \in hs : k >= h /\ h..k \subseteq hs /\ ~IsService(k)}
<1>0. Handle \subseteq Nat /\ hs \subseteq Nat
  BY HandlesAreNumbers
<1>1. \A k \in hs : IsService(k) <=> k \in Services
  BY DEF Services
<1>2. ASSUME NEW h \in Nat
      PROVE  \/ skip(h) = -1 /\ run(h) = {}
             \/ /\ skip(h) \in run(h)
                /\ \A k \in run(h) : skip(h) <= k
  <2>1. run(h) \subseteq Handle
    OBVIOUS
  <2>2. CASE run(h) = {}
    BY <2>2 DEF helper_skip_service_handles
  <2>3. CASE run(h) # {}
    <3>1. Min(run(h)) \in run(h) /\ \A k \in run(h) : Min(run(h)) <= k
      BY <2>1, <2>3, LeastHandle
    <3>2. skip(h) = Min(run(h))
      BY <2>3 DEF helper_skip_service_handles
    <3>3. QED
      BY <3>1, <3>2
  <2>4. QED
    BY <2>2, <2>3
<1>3. ASSUME NEW h \in hs \ Services PROVE skip(h) = h
  <2>1. h \in Nat /\ h..h = {h}
    BY <1>0
  <2>2. h \in run(h)
    BY <1>1, <2>1
  <2>3. skip(h) \in run(h) /\ skip(h) <= h
    BY <1>2, <2>1, <2>2
  <2>4. skip(h) \in hs /\ skip(h) >= h /\ skip(h) <= h
    BY <2>3
  <2>5. skip(h) \in Nat
    BY <1>0, <2>4
  <2> HIDE DEF skip
  <2>6. QED
    BY <2>1, <2>4, <2>5
(* From h on, no handle that is no service comes before the one it skips to. *)
<1>4. ASSUME NEW h \in Nat, skip(h) # -1
      PROVE  /\ skip(h) \in hs \ Services /\ skip(h) >= h
             /\ \A k \in hs \ Services : k < h \/ skip(h) <= k
  <2>1. /\ skip(h) \in run(h)
        /\ \A k \in run(h) : skip(h) <= k
    BY <1>2, <1>4
  <2> DEFINE n == skip(h)
  <2>2. n \in hs \ Services /\ n >= h /\ h..n \subseteq hs
    BY <1>1, <2>1
  <2> HIDE DEF n, skip
  <2>3. ASSUME NEW k \in hs \ Services, ~(k < h), ~(n <= k) PROVE FALSE
    <3>1. k \in Nat /\ n \in Nat
      BY <1>0, <2>2
    <3>2. k >= h /\ h..k \subseteq h..n
      BY <2>3, <3>1
    <3>3. k \in run(h)
      BY <1>1, <2>2, <3>2
    <3>4. QED
      BY <2>1, <2>3, <3>1, <3>3 DEF n
  <2>4. QED
    BY <2>2, <2>3 DEF n
<1> DEFINE common == IF l + 1 \in hs THEN skip(l + 1) ELSE -1
           later == {h \in hs : h > l /\ skip(h) # -1}
           next == get_next_handle_to_att_read(hs, l)
<1>5. next = IF common # -1 THEN common
             ELSE IF later # {} THEN skip(Min(later)) ELSE -1
  BY DEF get_next_handle_to_att_read
<1>6. CASE common # -1
  <2>1. l + 1 \in hs /\ l + 1 \in Nat /\ skip(l + 1) # -1 /\ next = skip(l + 1)
    BY <1>0, <1>5, <1>6
  <2> HIDE DEF skip, next
  <2>2. /\ next \in hs \ Services /\ next >= l + 1
        /\ \A k \in hs \ Services : k < l + 1 \/ next <= k
    BY <1>4, <2>1
  <2>3. \A k \in hs \ Services : k < l + 1 => k <= l
    BY <1>0
  <2>4. next > l
    BY <1>0, <2>2
  <2>5. QED
    BY <2>2, <2>3, <2>4 DEF next
<1>7. CASE common = -1 /\ later # {}
  <2>1. later \subseteq Handle
    OBVIOUS
  <2>2. Min(later) \in later /\ \A k \in later : Min(later) <= k
    BY <1>7, <2>1, LeastHandle
  <2> DEFINE m == Min(later)
  <2>3. m \in hs /\ m \in Nat /\ m > l /\ skip(m) # -1 /\ next = skip(m)
    BY <1>0, <1>5, <1>7, <2>2
  <2>4. \A k \in hs \ Services : k > l => k \in later
    BY <1>0, <1>3
  <2>5. \A k \in hs \ Services : k > l => m <= k
    BY <2>2, <2>4
  <2> HIDE DEF skip, next, m
  <2>6. /\ next \in hs \ Services /\ next >= m
        /\ \A k \in hs \ Services : k < m \/ next <= k
    BY <1>4, <2>3
  <2>7. next > l
    BY <1>0, <2>3, <2>6
  <2>8. ASSUME NEW k \in hs \ Services PROVE k <= l \/ next <= k
    <3>1. k \in Nat /\ next \in Nat
      BY <1>0, <2>6
    <3>2. QED
      BY <2>3, <2>5, <2>6, <3>1
  <2>9. QED
    BY <2>6, <2>7, <2>8 DEF next
<1>8. CASE common = -1 /\ later = {}
  <2>1. next = -1
    BY <1>5, <1>8
  <2>2. ASSUME NEW k \in hs \ Services, ~(k <= l) PROVE FALSE
    <3>1. k \in Nat /\ k > l
      BY <1>0, <2>2
    <3>2. k \in later
      BY <1>3, <3>1
    <3>3. QED
      BY <1>8, <3>2
  <2>3. QED
    BY <2>1, <2>2
<1>9. QED
  BY <1>6, <1>7, <1>8

-----------------------------------------------------------------------------
(* What the peripheral answers. *)

Requests == [op: RequestOp, h: Handle]

(* To ATT_FIND_INFORMATION_REQ: there is nothing at the handle, nor above  *)
(* it if the peripheral skips gaps; or the next attributes.                *)
InfoAnswered(r, a) ==
    \/ /\ a.p = "NOT_FOUND" /\ a.of = r.op /\ a.h = r.h /\ a.hs = {}
       /\ r.h \notin Attributes
       /\ db.skips => \A k \in Attributes : k < r.h
    \/ /\ a.p = "INFO_RSP" /\ a.of = r.op /\ a.h = r.h
       /\ a.hs # {} /\ a.hs \subseteq Attributes
       /\ \A k \in a.hs : r.h <= k
       /\ \A k \in Attributes, m \in a.hs : r.h <= k /\ k <= m => k \in a.hs

LEMMA InfoAnswerIs ==
    ASSUME db \in Databases, NEW r \in Requests, NEW a \in InfoAnswer(r)
    PROVE  InfoAnswered(r, a)
<1> DEFINE ahead == Ahead(Handle \ OfKind("gap"), r.h)
           left == IF db.skips THEN ahead ELSE {h \in ahead : r.h..h \subseteq ahead}
           upto(h) == {k \in left : k <= h}
           hs == {h \in left : Cardinality(upto(h)) <= PerAnswer}
<1>0. /\ Attributes \subseteq Handle /\ Handle \subseteq Nat /\ r.h \in Nat
      /\ db.skips \in BOOLEAN
  BY DatabaseIs, HandlesAreNumbers DEF Requests
<1>1. ahead = {k \in Attributes : k >= r.h}
  BY DEF Ahead, Attributes
<1>2. /\ left \subseteq ahead
      /\ \A k \in ahead, m \in left : k <= m => k \in left
  <2>1. CASE db.skips
    BY <2>1
  <2>2. CASE ~db.skips
    <3>1. left = {h \in ahead : r.h..h \subseteq ahead}
      BY <2>2
    <3>2. ASSUME NEW k \in ahead, NEW m \in left, k <= m PROVE k \in left
      <4>1. k \in Nat /\ m \in Nat /\ r.h..m \subseteq ahead
        BY <1>0, <1>1, <3>1
      <4>2. r.h..k \subseteq r.h..m
        BY <1>0, <3>2, <4>1
      <4>3. QED
        BY <3>1, <4>1, <4>2
    <3>3. QED
      BY <3>1, <3>2
  <2>3. QED
    BY <2>1, <2>2
<1>3. CASE left = {}
  <2>1. a = [p |-> "NOT_FOUND", of |-> r.op, h |-> r.h, hs |-> {}]
    BY <1>3 DEF InfoAnswer
  <2>2. r.h \notin Attributes
    <3> SUFFICES ASSUME r.h \in Attributes PROVE FALSE
      OBVIOUS
    <3>1. r.h \in ahead /\ r.h..r.h = {r.h}
      BY <1>0, <1>1
    <3>2. r.h \in left
      BY <1>0, <3>1
    <3>3. QED
      BY <1>3, <3>2
  <2>3. ASSUME db.skips, NEW k \in Attributes PROVE k < r.h
    <3>1. k \notin ahead /\ k \in Nat
      BY <1>0, <1>3, <2>3
    <3>2. QED
      BY <1>0, <1>1, <3>1
  <2>4. QED
    BY <2>1, <2>2, <2>3 DEF InfoAnswered
<1>4. CASE left # {}
  <2>1. a = [p |-> "INFO_RSP", of |-> r.op, h |-> r.h, hs |-> hs]
    BY <1>4 DEF InfoAnswer
  <2>2. left \subseteq Handle /\ left \subseteq Attributes /\ \A k \in left : r.h <= k /\ k \in Nat
    BY <1>0, <1>1, <1>2
  <2> DEFINE m == Min(left)
  <2>3. m \in left /\ \A k \in left : m <= k
    BY <1>4, <2>2, LeastHandle
  <2> HIDE DEF m, left
  <2>4. upto(m) = {m}
    BY <2>2, <2>3
  <2>5. Cardinality(upto(m)) = 1
    BY <2>4, FS_Singleton
  <2>6. PerAnswer \in Nat /\ 1 <= PerAnswer
    BY GattAssumption
  <2>7. m \in hs
    BY <2>3, <2>5, <2>6
  <2>8. ASSUME NEW k \in Attributes, NEW n \in hs, r.h <= k, k <= n PROVE k \in hs
    <3>1. k \in ahead /\ n \in left
      BY <1>1, <2>8
    <3>2. k \in left
      BY <1>2, <2>8, <3>1
    <3>3. upto(k) \subseteq upto(n)
      <4>1. k \in Nat /\ n \in Nat /\ \A j \in left : j \in Nat
        BY <2>2, <3>1, <3>2
      <4>2. \A j \in left : j <= k => j <= n
        BY <2>8, <4>1
      <4>3. QED
        BY <4>2
    <3>4. IsFiniteSet(upto(n))
      <4>1. upto(n) \subseteq 1..LastHandle
        BY <2>2 DEF Handle
      <4>2. IsFiniteSet(1..LastHandle)
        BY FS_Interval, HandlesAreNumbers
      <4>3. QED
        BY <4>1, <4>2, FS_Subset
    <3>5. /\ Cardinality(upto(k)) <= Cardinality(upto(n))
          /\ Cardinality(upto(k)) \in Nat /\ Cardinality(upto(n)) \in Nat
      BY <3>3, <3>4, FS_Subset, FS_CardinalityType
    <3>6. Cardinality(upto(n)) <= PerAnswer
      OBVIOUS
    <3>7. QED
      BY <2>6, <3>2, <3>5, <3>6
  <2>9. hs \subseteq left
    OBVIOUS
  <2> HIDE DEF hs
  <2>10. QED
    BY <2>1, <2>2, <2>7, <2>8, <2>9 DEF InfoAnswered
<1>5. QED
  BY <1>3, <1>4

(* The answers to the other requests. *)
NextOf(kind, found, r, a) ==
    /\ a.of = r.op
    /\ \/ a.p = "NOT_FOUND" /\ a.h = r.h /\ \A k \in OfKind(kind) : k < r.h
       \/ /\ a.p = found /\ a.h \in OfKind(kind) /\ r.h <= a.h
          /\ \A k \in OfKind(kind) : k < r.h \/ a.h <= k

Answered(r, a) ==
    /\ a.h \in Handle /\ a.hs \subseteq Attributes
    /\ r.op = "GROUP_primary" => NextOf("primary", "GROUP_RSP", r, a)
    /\ r.op = "GROUP_secondary" => NextOf("secondary", "GROUP_RSP", r, a)
    /\ r.op = "FIND_INFO" => InfoAnswered(r, a)
    /\ r.op = "READ_TYPE" => NextOf("char", "TYPE_RSP", r, a)
    /\ r.op = "READ" => a.p \in {"READ_RSP", "REFUSED"} /\ a.h = r.h
    /\ r.op \in {"PAIR", "PAIR_SC"} => a.p \in {"PAIR_RSP", "PAIR_NOT_SUPPORTED", "PAIR_FAILED"}

LEMMA NextAnswer ==
    ASSUME NEW kind, NEW found, NEW r \in Requests,
           NEW a \in OrNotFound(r, OfKind(kind), found)
    PROVE  NextOf(kind, found, r, a) /\ a.h \in Handle /\ a.hs = {}
<1> DEFINE hs == Ahead(OfKind(kind), r.h)
<1>1. /\ OfKind(kind) \subseteq Handle /\ Handle \subseteq Nat /\ r.h \in Handle
      /\ hs = {k \in OfKind(kind) : k >= r.h}
  BY HandlesAreNumbers DEF OfKind, Ahead, Requests
<1>2. CASE hs = {}
  <2>1. a = [p |-> "NOT_FOUND", of |-> r.op, h |-> r.h, hs |-> {}]
    BY <1>2 DEF OrNotFound
  <2>2. ASSUME NEW k \in OfKind(kind) PROVE k < r.h
    <3>1. k \in Nat /\ r.h \in Nat /\ ~(k >= r.h)
      BY <1>1, <1>2
    <3>2. QED
      BY <3>1
  <2>3. QED
    BY <1>1, <2>1, <2>2 DEF NextOf
<1>3. CASE hs # {}
  <2>1. a = [p |-> found, of |-> r.op, h |-> Min(hs), hs |-> {}]
    BY <1>3 DEF OrNotFound
  <2>2. Min(hs) \in hs /\ \A k \in hs : Min(hs) <= k
    BY <1>1, <1>3, LeastHandle
  <2>3. ASSUME NEW k \in OfKind(kind) PROVE k < r.h \/ Min(hs) <= k
    <3>1. k \in Nat /\ r.h \in Nat /\ (k >= r.h => k \in hs)
      BY <1>1
    <3>2. k >= r.h => Min(hs) <= k
      BY <2>2, <3>1
    <3>3. QED
      BY <3>1, <3>2
  <2>4. QED
    BY <1>1, <2>1, <2>2, <2>3 DEF NextOf
<1>4. QED
  BY <1>2, <1>3

LEMMA AnswerIs ==
    ASSUME db \in Databases, NEW r \in Requests, NEW a \in AnswersTo(r)
    PROVE  Answered(r, a)
<1>1. r.op \in RequestOp /\ r.h \in Handle
  BY DEF Requests
<1>2. CASE r.op = "GROUP_primary"
  BY <1>2, NextAnswer DEF AnswersTo, Answered
<1>3. CASE r.op = "GROUP_secondary"
  BY <1>3, NextAnswer DEF AnswersTo, Answered
<1>4. CASE r.op = "FIND_INFO"
  <2>1. InfoAnswered(r, a)
    BY <1>4, InfoAnswerIs DEF AnswersTo
  <2>2. QED
    BY <1>1, <1>4, <2>1 DEF InfoAnswered, Answered
<1>5. CASE r.op = "READ_TYPE"
  BY <1>5, NextAnswer DEF AnswersTo, Answered
<1>6. CASE r.op = "READ"
  BY <1>1, <1>6 DEF AnswersTo, Answered
<1>7. CASE r.op \in {"PAIR", "PAIR_SC"}
  BY <1>7, HandlesAreNumbers DEF AnswersTo, Answered
<1>8. QED
  BY <1>1, <1>2, <1>3, <1>4, <1>5, <1>6, <1>7 DEF RequestOp

-----------------------------------------------------------------------------
(* Types. *)

(* Only the last handle that was read can be none, when nothing is left.   *)
Typed(s) ==
    /\ \A t \in {"primary", "secondary", "info", "char"} : s.last[t] \in Handle
    /\ "read" \in s.sent /\ "read" \notin s.done => s.last["read"] \in Handle
    /\ "read" \in s.late => "read" \in s.sent

Good(s) == s \in Getter /\ Typed(s)

Sent == {"primary", "secondary", "info", "char", "read", "smp", "sc"}

Ended == {"primary", "secondary", "info", "char", "read", "smp"}

LEMMA SendGood ==
    ASSUME NEW s, Good(s), NEW op \in RequestOp, NEW h \in Nat \ {0}
    PROVE  Good(Send(s, op, h))
<1>1. CASE h > LastHandle
  BY <1>1 DEF Send, Good, Getter, Typed
<1>2. CASE ~(h > LastHandle)
  <2> DEFINE r == [op |-> op, h |-> h]
             t == [s EXCEPT !.out = Append(@, r)]
  <2>1. h \in Handle
    BY <1>2, HandlesAreNumbers DEF Handle
  <2>2. r \in [op: RequestOp, h: Handle]
    BY <2>1
  <2> HIDE DEF r
  <2>3. Append(s.out, r) \in Seq([op: RequestOp, h: Handle])
    BY <2>2 DEF Good, Getter
  <2>4. t \in Getter
    BY <2>3 DEF Good, Getter
  <2>5. Typed(t)
    BY DEF Good, Getter, Typed
  <2>6. Send(s, op, h) = t
    BY <1>2 DEF Send, r
  <2>7. QED
    BY <2>4, <2>5, <2>6 DEF Good
<1>3. QED
  BY <1>1, <1>2

LEMMA StartGood ==
    ASSUME NEW s, Good(s), NEW t \in Sent, NEW op \in RequestOp, NEW h \in Nat \ {0},
           t = "read" => s.last["read"] \in Handle
    PROVE  Good(Start(s, t, op, h))
<1> DEFINE u == [s EXCEPT !.sent = @ \cup {t}, !.late = @ \ {t}]
<1>1. Good(u)
  BY DEF Good, Getter, Typed, Sent
<1> HIDE DEF u
<1>2. QED
  BY <1>1, SendGood DEF Start, u

LEMMA DoneGood ==
    ASSUME NEW s, Good(s), NEW t \in Ended
    PROVE  Good(Done(s, t))
  BY DEF Done, Good, Getter, Typed, Ended

LEMMA RetryGood ==
    ASSUME NEW s, Good(s), NEW t \in {"primary", "secondary", "char"}, NEW op \in RequestOp,
           NEW h \in Handle
    PROVE  Good(Retry(s, t, op, h))
<1> DEFINE u == [s EXCEPT !.tries[t] = @ + 1]
           v == [s EXCEPT !.tries[t] = @ + 1, !.late = @ \ {t}]
<1>1. Good(u) /\ Good(v)
  <2>1. s.tries[t] + 1 \in Nat
    BY DEF Good, Getter, Timer
  <2>2. [s.tries EXCEPT ![t] = @ + 1] \in [Timer \cup {"secondary"} -> Nat]
    BY <2>1 DEF Good, Getter
  <2>3. QED
    BY <2>2 DEF Good, Getter, Typed
<1>2. h \in Nat \ {0}
  BY HandlesAreNumbers
<1> HIDE DEF u, v
<1>3. Good(Done(u, t)) /\ Good(Send(v, op, h))
  BY <1>1, <1>2, DoneGood, SendGood DEF Ended
<1>4. QED
  BY <1>3 DEF Retry, u, v

Asks == ServiceType \cup {"info", "char", "read"}

LEMMA LastGood ==
    ASSUME NEW s, Good(s), NEW t \in Asks, NEW h \in Handle
    PROVE  Good([s EXCEPT !.last[t] = h]) /\ [s EXCEPT !.last[t] = h].last[t] = h
<1> DEFINE m == [s.last EXCEPT ![t] = h]
           u == [s EXCEPT !.last = m]
<1>1. s.last \in [Asks -> Handle \cup {-1}]
  BY DEF Good, Getter, Asks
<1>2. m \in [Asks -> Handle \cup {-1}] /\ m[t] = h
  BY <1>1
<1>3. \A k \in Asks : m[k] = IF k = t THEN h ELSE s.last[k]
  BY <1>1
<1>4. \A k \in {"primary", "secondary", "info", "char"} : m[k] \in Handle
  BY <1>3 DEF Good, Typed, Asks, ServiceType
<1>5. "read" \in s.sent /\ "read" \notin s.done => m["read"] \in Handle
  BY <1>3 DEF Good, Typed, Asks
<1> HIDE DEF m
<1>6. u \in Getter
  BY <1>2 DEF Good, Getter, Asks
<1>7. Typed(u) /\ u.last = m
  BY <1>4, <1>5 DEF Good, Getter, Typed
<1>8. u = [s EXCEPT !.last[t] = h]
  BY DEF m
<1>9. QED
  BY <1>2, <1>6, <1>7, <1>8 DEF Good

LEMMA ServicesSentGood ==
    ASSUME NEW s, Good(s)
    PROVE  Good(outgoing_service_discovery(s))
<1>1. ASSUME NEW t, Good(t), NEW k \in ServiceType, NEW op \in {"GROUP_primary", "GROUP_secondary"}
      PROVE  /\ Good(Start([t EXCEPT !.type = k], k, op, 1))
             /\ Good(Retry(t, k, op, t.last[k]))
  <2>1. Good([t EXCEPT !.type = k])
    BY <1>1 DEF Good, Getter, Typed
  <2>2. t.last[k] \in Handle
    BY <1>1 DEF Good, Typed, ServiceType
  <2>3. /\ k \in Sent /\ k \in {"primary", "secondary", "char"} /\ k # "read"
        /\ op \in RequestOp
    BY DEF ServiceType, Sent, RequestOp
  <2>4. Good(Start([t EXCEPT !.type = k], k, op, 1))
    BY <2>1, <2>3, StartGood
  <2>5. QED
    BY <1>1, <2>2, <2>3, <2>4, RetryGood
<1>2. ASSUME NEW t, Good(t) PROVE Good(RequestPrimary(t)) /\ Good(RequestSecondary(t))
  BY <1>1, <1>2 DEF RequestPrimary, RequestSecondary, ServiceType
<1>3. QED
  BY <1>2 DEF outgoing_service_discovery

LEMMA HandlesSentGood ==
    ASSUME NEW s, Good(s)
    PROVE  Good(outgoing_handle_discovery(s))
  BY StartGood DEF outgoing_handle_discovery, Sent, RequestOp

LEMMA CharacteristicsSentGood ==
    ASSUME NEW s, Good(s)
    PROVE  Good(outgoing_characteristic_discovery(s))
<1>1. Good([s EXCEPT !.exit = "exception"])
  BY DEF Good, Getter, Typed
<1>2. s.last["char"] \in Handle /\ s.last["char"] \in Nat \ {0}
  BY HandlesAreNumbers DEF Good, Typed
<1>3. Good(Start(s, "char", "READ_TYPE", s.last["char"]))
  BY <1>2, StartGood DEF Sent, RequestOp
<1>4. Good([Retry(s, "char", "READ_TYPE", s.last["char"]) EXCEPT !.late = s.late])
  <2> DEFINE u == Retry(s, "char", "READ_TYPE", s.last["char"])
  <2>1. Good(u)
    BY <1>2, RetryGood DEF RequestOp
  <2>2. u.sent = s.sent
    BY DEF Retry, Done, Send, Good, Getter
  <2> HIDE DEF u
  <2>3. [u EXCEPT !.late = s.late] \in Getter
    BY <2>1 DEF Good, Getter
  <2>4. Typed([u EXCEPT !.late = s.late])
    BY <2>1, <2>2 DEF Good, Getter, Typed
  <2>5. QED
    BY <2>3, <2>4 DEF Good, u
<1>5. Good(Done(s, "char"))
  BY DoneGood DEF Ended
<1>6. QED
  BY <1>1, <1>3, <1>4, <1>5 DEF outgoing_characteristic_discovery

LEMMA ReadNextGood ==
    ASSUME db \in Databases, NEW s, Good(s), NEW l \in Int
    PROVE  Good(send_next_ATT_READ_REQ_if_applicable(s, l))
<1> DEFINE h == get_next_handle_to_att_read(s.handles, l)
<1>1. s.handles \in SUBSET Handle
  BY DEF Good, Getter
<1>2. h = -1 \/ h \in s.handles
  BY <1>1, NextIs
<1> HIDE DEF h
<1>3. Good(Done(s, "read"))
  BY DoneGood DEF Ended
<1>4. ASSUME h # -1
      PROVE  Good(Start([s EXCEPT !.last["read"] = h], "read", "READ", h))
  <2> DEFINE u == [s EXCEPT !.last["read"] = h]
  <2>1. h \in Handle /\ h \in Nat \ {0}
    BY <1>1, <1>2, <1>4, HandlesAreNumbers
  <2>2. Good(u) /\ u.last["read"] = h
    BY <2>1, LastGood DEF Asks
  <2> HIDE DEF u
  <2>3. Good(Start(u, "read", "READ", h))
    BY <2>1, <2>2, StartGood DEF Sent, RequestOp
  <2>4. QED
    BY <2>3 DEF u
<1>5. QED
  BY <1>3, <1>4 DEF send_next_ATT_READ_REQ_if_applicable, h

LEMMA ReadsSentGood ==
    ASSUME db \in Databases, NEW s, Good(s)
    PROVE  Good(outgoing_read_all_handles(s))
<1>1. Good(StartReading(s))
  <2> DEFINE h == get_next_handle_to_att_read(s.handles, 1)
             t == [s EXCEPT !.last["read"] = h, !.sent = @ \cup {"read"}]
             u == IF h = -1 THEN Done(t, "read") ELSE t
  <2>1. s.handles \in SUBSET Handle
    BY DEF Good, Getter
  <2>2. h = -1 \/ h \in s.handles
    BY <2>1, NextIs
  <2> HIDE DEF h
  <2>3. h \in Int /\ (h # -1 => h \in Handle)
    <3>1. h # -1 => h \in Handle
      BY <2>1, <2>2
    <3>2. h \in Handle => h \in Int
      BY HandlesAreNumbers
    <3>3. h = -1 => h \in Int
      OBVIOUS
    <3>4. QED
      BY <3>1, <3>2, <3>3
  <2>4. Good(u)
    <3>1. CASE h = -1
      <4>1. [s.last EXCEPT !["read"] = h] \in [Asks -> Handle \cup {-1}]
        BY <3>1 DEF Good, Getter, Asks
      <4>2. \A k \in {"primary", "secondary", "info", "char"} :
               [s.last EXCEPT !["read"] = h][k] = s.last[k]
        BY DEF Good, Getter, ServiceType
      <4> DEFINE m == [s.last EXCEPT !["read"] = h]
                 v == [s EXCEPT !.last = m, !.sent = @ \cup {"read"}, !.done = @ \cup {"read"}]
      <4> HIDE DEF m
      <4>3. v \in Getter
        BY <4>1 DEF m, Asks, Good, Getter
      <4>4. v.last = m /\ "read" \in v.done
        BY DEF Good, Getter
      <4>5. Typed(v)
        BY <4>2, <4>4 DEF m, Good, Typed
      <4>6. u = v
        BY <3>1 DEF Done, m, Good, Getter
      <4>7. QED
        BY <4>3, <4>5, <4>6 DEF Good
    <3>2. CASE h # -1
      <4> DEFINE v == [s EXCEPT !.last["read"] = h]
      <4>1. Good(v) /\ v.last["read"] = h
        BY <2>3, <3>2, LastGood DEF Asks
      <4>2. t = [v EXCEPT !.sent = @ \cup {"read"}]
        BY DEF Good, Getter
      <4> HIDE DEF v, t
      <4>3. [v EXCEPT !.sent = @ \cup {"read"}] \in Getter
        BY <4>1 DEF Good, Getter
      <4>4. Typed([v EXCEPT !.sent = @ \cup {"read"}])
        BY <2>3, <3>2, <4>1 DEF Good, Getter, Typed
      <4>5. QED
        BY <3>2, <4>2, <4>3, <4>4 DEF Good
    <3>3. QED
      BY <3>1, <3>2
  <2> HIDE DEF u
  <2>5. Good(send_next_ATT_READ_REQ_if_applicable(u, h))
    BY <2>3, <2>4, ReadNextGood
  <2>6. QED
    BY <2>5 DEF StartReading, u, h
<1>2. ASSUME "read" \in s.sent, "read" \notin s.done PROVE Good(RetryReading(s))
  <2>0. s.tries["read"] + 1 \in Nat
    BY DEF Good, Getter, Timer
  <2> DEFINE u == [s EXCEPT !.tries["read"] = @ + 1]
             v == [s EXCEPT !.tries["read"] = @ + 1, !.late = @ \ {"read"}]
  <2>1. Good(u) /\ Good(v)
    <3>1. [s.tries EXCEPT !["read"] = @ + 1] \in [Timer \cup {"secondary"} -> Nat]
      BY <2>0 DEF Good, Getter
    <3>2. QED
      BY <3>1 DEF Good, Getter, Typed
  <2>2. s.last["read"] \in Int
    <3>1. s.last["read"] \in Handle
      BY <1>2 DEF Good, Typed
    <3>2. QED
      BY <3>1, HandlesAreNumbers
  <2> HIDE DEF u, v
  <2>3. Good(Done(u, "read")) /\ Good(send_next_ATT_READ_REQ_if_applicable(v, s.last["read"]))
    BY <2>1, <2>2, DoneGood, ReadNextGood DEF Ended
  <2>4. QED
    BY <2>3 DEF RetryReading, u, v
<1>3. "read" \in s.late => "read" \in s.sent
  BY DEF Good, Typed
<1>4. QED
  BY <1>1, <1>2, <1>3 DEF outgoing_read_all_handles

-----------------------------------------------------------------------------
(* An answer, or the empty packet. *)
Fits(a) ==
    /\ a.h \in Handle /\ a.hs \subseteq Attributes
    /\ a.p = "GROUP_RSP" => a.h \in Services
    /\ a.p = "TYPE_RSP" => a.h \in OfKind("char")

LEMMA ServicesGood ==
    ASSUME db \in Databases, NEW s, Good(s), NEW a, Fits(a)
    PROVE  Good(incoming_service_discovery(s, a))
<1>1. ASSUME a.p = "GROUP_RSP" PROVE Good(process_ATT_READ_BY_GROUP_TYPE_RSP(s, a))
  <2> DEFINE t == FiledAs(s, a.h)
             r == [s EXCEPT !.found[t] = @ \cup {a.h}, !.final[t] = EndOf(a.h), !.values[a.h] = a.h]
             next == r.final[s.type] + 1
             v == [r EXCEPT !.last[s.type] = IF next > LastHandle THEN @ ELSE next]
  <2>1. t \in ServiceType /\ s.type \in ServiceType /\ a.h \in Handle /\ EndOf(a.h) \in Handle
    BY <1>1, EndOfIs DEF FiledAs, ServiceType, Good, Getter, Fits
  <2> HIDE DEF t
  <2>2. r \in Getter
    <3>1. [s.found EXCEPT ![t] = @ \cup {a.h}] \in [ServiceType -> SUBSET Handle]
      BY <2>1 DEF Good, Getter
    <3>2. [s.final EXCEPT ![t] = EndOf(a.h)] \in [ServiceType -> Handle]
      BY <2>1 DEF Good, Getter
    <3>3. [s.values EXCEPT ![a.h] = a.h] \in [Handle -> Handle \cup {NONE}]
      BY <2>1 DEF Good, Getter
    <3>4. QED
      BY <3>1, <3>2, <3>3 DEF Good, Getter
  <2>3. r.last = s.last /\ r.sent = s.sent /\ r.done = s.done
    BY DEF Good, Getter
  <2>4. Good(r)
    BY <2>2, <2>3 DEF Good, Typed
  <2> HIDE DEF r
  <2>5. r.final[s.type] \in Handle
    BY <2>1, <2>2 DEF Getter
  <2>6. next \in Nat \ {0} /\ (~(next > LastHandle) => next \in Handle)
    BY <2>5, HandlesAreNumbers DEF Handle
  <2> HIDE DEF next
  <2>7. Good(v)
    <3>1. s.type \in {"primary", "secondary"} /\ r.last[s.type] \in Handle
      BY <2>1, <2>4 DEF ServiceType, Good, Typed
    <3>2. (IF next > LastHandle THEN r.last[s.type] ELSE next) \in Handle
      BY <2>6, <3>1
    <3>3. QED
      BY <2>4, <3>1, <3>2, LastGood DEF Asks, ServiceType
  <2> HIDE DEF v
  <2>8. Good(Send(v, GroupOf(s.type), next))
    BY <2>6, <2>7, SendGood DEF GroupOf, RequestOp
  <2>9. Good(Done(r, s.type))
    BY <2>1, <2>4, DoneGood DEF ServiceType, Ended
  <2>10. QED
    BY <2>8, <2>9 DEF process_ATT_READ_BY_GROUP_TYPE_RSP, v, next, r, t
<1>2. Good(NoMoreServices(s, a))
  BY DoneGood DEF NoMoreServices, Ended
<1>3. QED
  BY <1>1, <1>2 DEF incoming_service_discovery

LEMMA HandlesGood ==
    ASSUME db \in Databases, NEW s, Good(s), NEW a, Fits(a)
    PROVE  Good(incoming_handle_discovery(s, a))
<1>0. Attributes \subseteq Handle
  BY DatabaseIs
<1>1. Good(process_ATT_FIND_INFORMATION_RSP(s, a))
  <2> DEFINE top == Max({s.top} \cup a.hs)
             u == [s EXCEPT !.handles = @ \cup a.hs, !.top = top]
             v == [s EXCEPT !.handles = @ \cup a.hs, !.top = top,
                            !.last["info"] = IF top = LastHandle THEN @ ELSE top + 1]
  <2>1. {s.top} \cup a.hs \subseteq Handle /\ {s.top} \cup a.hs # {}
    BY <1>0 DEF Fits, Good, Getter
  <2>2. top \in Handle
    BY <2>1, GreatestHandle
  <2> HIDE DEF top
  <2>3. top + 1 \in Nat \ {0} /\ (top # LastHandle => top + 1 \in Handle)
    BY <2>2, HandlesAreNumbers DEF Handle
  <2>4. Good(v)
    <3>1. (IF top = LastHandle THEN s.last["info"] ELSE top + 1) \in Handle
      BY <2>3 DEF Good, Typed
    <3>2. s.handles \cup a.hs \in SUBSET Handle
      BY <1>0 DEF Good, Getter, Fits
    <3>3. Good(u)
      BY <2>2, <3>2 DEF Good, Getter, Typed
    <3>4. v = [u EXCEPT !.last["info"] = IF top = LastHandle THEN s.last["info"] ELSE top + 1]
      BY DEF Good, Getter
    <3> HIDE DEF u, v
    <3>5. QED
      BY <3>1, <3>3, <3>4, LastGood DEF Asks
  <2> HIDE DEF v
  <2>5. Good(Send(v, "FIND_INFO", top + 1))
    BY <2>3, <2>4, SendGood DEF RequestOp
  <2>6. QED
    BY <2>5 DEF process_ATT_FIND_INFORMATION_RSP, v, top
<1>2. Good(NoMoreHandles(s, a))
  <2> DEFINE h == check_for_higher_service_start_handle(s, s.last["info"])
             v == [s EXCEPT !.last["info"] = h]
  <2>1. h \in Handle
    <3> DEFINE higher == {k \in s.found["primary"] \cup s.found["secondary"] : k > s.last["info"]}
    <3>1. higher \subseteq Handle /\ s.last["info"] \in Handle
      BY DEF Good, Getter, Typed, ServiceType
    <3>2. higher # {} => Min(higher) \in Handle
      BY <3>1, LeastHandle
    <3>3. QED
      BY <3>1, <3>2 DEF check_for_higher_service_start_handle
  <2> HIDE DEF h
  <2>2. Good(v) /\ h \in Nat \ {0}
    BY <2>1, HandlesAreNumbers, LastGood DEF Asks
  <2> HIDE DEF v
  <2>3. Good(Send(v, "FIND_INFO", h)) /\ Good(Done(s, "info"))
    BY <2>2, SendGood, DoneGood DEF RequestOp, Ended
  <2>4. QED
    BY <2>3 DEF NoMoreHandles, v, h
<1>3. QED
  BY <1>1, <1>2 DEF incoming_handle_discovery

LEMMA CharacteristicsGood ==
    ASSUME db \in Databases, NEW s, Good(s), NEW a, Fits(a)
    PROVE  Good(incoming_characteristic_discovery(s, a))
<1>1. ASSUME a.p = "TYPE_RSP" PROVE Good(process_ATT_READ_BY_TYPE_RSP(s, a))
  <2> DEFINE r == [s EXCEPT !.handles = @ \cup {a.h, a.h + 1}, !.values[a.h] = a.h]
             v == [r EXCEPT !.last["char"] = a.h + 2]
  <2>1. a.h \in Handle /\ a.h + 1 \in Handle /\ a.h < LastHandle
    BY <1>1, DatabaseIs DEF Fits
  <2>2. Good(r)
    <3>1. s.handles \cup {a.h, a.h + 1} \in SUBSET Handle
      BY <2>1 DEF Good, Getter
    <3>2. [s.values EXCEPT ![a.h] = a.h] \in [Handle -> Handle \cup {NONE}]
      BY <2>1 DEF Good, Getter
    <3>3. QED
      BY <3>1, <3>2 DEF Good, Getter, Typed
  <2> HIDE DEF r
  <2>3. ASSUME a.h + 1 # LastHandle PROVE Good(Send(v, "READ_TYPE", a.h + 2))
    <3>1. a.h + 2 \in Handle /\ a.h + 2 \in Nat \ {0}
      BY <2>1, <2>3, HandlesAreNumbers DEF Handle
    <3>2. Good(v)
      BY <2>2, <3>1, LastGood DEF Asks
    <3> HIDE DEF v
    <3>3. QED
      BY <3>1, <3>2, SendGood DEF RequestOp
  <2>4. Good(Done(r, "char"))
    BY <2>2, DoneGood DEF Ended
  <2>5. QED
    BY <2>3, <2>4 DEF process_ATT_READ_BY_TYPE_RSP, r
<1>2. Good(Done(s, "char"))
  BY DoneGood DEF Ended
<1>3. QED
  BY <1>1, <1>2 DEF incoming_characteristic_discovery

LEMMA ReadsGood ==
    ASSUME db \in Databases, NEW s, Good(s), NEW a, Fits(a)
    PROVE  Good(incoming_read_all_handles(s, a))
<1>1. ASSUME "read" \in s.sent, "read" \notin s.done PROVE Good(Store(s, a.h))
  <2> DEFINE v == [s EXCEPT !.values[s.last["read"]] = a.h]
  <2>0. s.last["read"] \in Handle /\ a.h \in Handle
    BY <1>1 DEF Good, Typed, Fits
  <2>1. s.last["read"] \in Handle /\ s.last["read"] \in Int /\ a.h \in Handle
    BY <2>0, HandlesAreNumbers
  <2>2. Good(v)
    <3>1. [s.values EXCEPT ![s.last["read"]] = a.h] \in [Handle -> Handle \cup {NONE}]
      BY <2>1 DEF Good, Getter
    <3>2. QED
      BY <3>1 DEF Good, Getter, Typed
  <2> HIDE DEF v
  <2>3. Good(send_next_ATT_READ_REQ_if_applicable(v, s.last["read"]))
    BY <2>1, <2>2, ReadNextGood
  <2>4. QED
    BY <2>3 DEF Store, v
<1>2. QED
  BY <1>1 DEF incoming_read_all_handles

LEMMA PairingGood ==
    ASSUME NEW s, Good(s), NEW a
    PROVE  Good(handle_SMP_Pairing(s, a))
<1>1. ASSUME NEW t, Good(t) PROVE Good([t EXCEPT !.tries["smp"] = @ + 1])
  <2>1. t.tries["smp"] + 1 \in Nat
    BY <1>1 DEF Good, Getter, Timer
  <2>2. [t.tries EXCEPT !["smp"] = @ + 1] \in [Timer \cup {"secondary"} -> Nat]
    BY <1>1, <2>1 DEF Good, Getter
  <2>3. QED
    BY <1>1, <2>2 DEF Good, Getter, Typed
<1>2. Good(Start(s, "smp", "PAIR", 1))
  BY StartGood DEF Sent, RequestOp
<1>3. Good(RequestPairing(s))
  <2> DEFINE r == [Start(s, "smp", "PAIR", 1) EXCEPT !.tries["smp"] = @ + 1]
  <2>1. Good(r)
    BY <1>1, <1>2
  <2> HIDE DEF r
  <2>2. Good(Done(r, "smp"))
    BY <2>1, DoneGood DEF Ended
  <2>3. QED
    BY <2>1, <2>2 DEF RequestPairing, r
<1>4. ASSUME NEW t, Good(t) PROVE Good(PairingAnswered(t, a))
  <2>1. Good(Done(t, "smp")) /\ Good(Start(t, "sc", "PAIR_SC", 1))
    BY <1>4, DoneGood, StartGood DEF Ended, Sent, RequestOp
  <2>2. QED
    BY <1>4, <2>1 DEF PairingAnswered
<1>5. QED
  BY <1>3, <1>4 DEF handle_SMP_Pairing

LEMMA ExitGood == ASSUME NEW s, Good(s) PROVE Good(print_and_exit(s))
  BY DEF print_and_exit, Good, Getter, Typed

LEMMA AnswerFits ==
    ASSUME db \in Databases, NEW r \in Requests, NEW a, Answered(r, a)
    PROVE  Fits(a)
<1>1. r.op \in RequestOp
  BY DEF Requests
<1>2. OfKind("primary") \subseteq Services /\ OfKind("secondary") \subseteq Services
  BY DatabaseIs
<1>3. QED
  BY <1>1, <1>2 DEF Answered, Fits, NextOf, InfoAnswered, RequestOp

LEMMA NothingFits == Fits(Nothing)
  BY HandlesAreNumbers DEF Fits, Nothing

Answering(s, a) ==
    print_and_exit(handle_SMP_Pairing(
        incoming_read_all_handles(
            incoming_characteristic_discovery(
                incoming_handle_discovery(incoming_service_discovery(s, a), a), a), a), a))

Sends(s) ==
    print_and_exit(handle_SMP_Pairing(
        FindAndRead(outgoing_handle_discovery(outgoing_service_discovery(s))), Nothing))

LEMMA HandledIs == ASSUME NEW s, NEW a PROVE Handled(s, a) = {Answering(s, a)}
  BY DEF Handled, Answering

LEMMA SendPendingIs == ASSUME NEW s PROVE SendPending(s) = {Sends(s)}
  BY DEF SendPending, Sends

LEMMA AnswersGood ==
    ASSUME db \in Databases, NEW s, Good(s), NEW a, Fits(a)
    PROVE  Good(Answering(s, a))
<1> DEFINE s1 == incoming_service_discovery(s, a)
           s2 == incoming_handle_discovery(s1, a)
           s3 == incoming_characteristic_discovery(s2, a)
           s4 == incoming_read_all_handles(s3, a)
           s5 == handle_SMP_Pairing(s4, a)
<1>1. Good(s1)
  BY ServicesGood
<1> HIDE DEF s1
<1>2. Good(s2)
  BY <1>1, HandlesGood
<1> HIDE DEF s2
<1>3. Good(s3)
  BY <1>2, CharacteristicsGood
<1> HIDE DEF s3
<1>4. Good(s4)
  BY <1>3, ReadsGood
<1> HIDE DEF s4
<1>5. Good(s5)
  BY <1>4, PairingGood
<1> HIDE DEF s5
<1>6. Good(print_and_exit(s5))
  BY <1>5, ExitGood
<1>7. QED
  BY <1>6 DEF Answering, s5, s4, s3, s2, s1

LEMMA SendsGood ==
    ASSUME db \in Databases, NEW s, Good(s)
    PROVE  Good(Sends(s))
<1> DEFINE s1 == outgoing_service_discovery(s)
           s2 == outgoing_handle_discovery(s1)
           c == outgoing_characteristic_discovery(s2)
           s3 == FindAndRead(s2)
           s4 == handle_SMP_Pairing(s3, Nothing)
<1>1. Good(s1)
  BY ServicesSentGood
<1> HIDE DEF s1
<1>2. Good(s2)
  BY <1>1, HandlesSentGood
<1> HIDE DEF s2
<1>3. Good(c)
  BY <1>2, CharacteristicsSentGood
<1>4. Good(s3)
  <2>1. Good(outgoing_read_all_handles(c))
    BY <1>3, ReadsSentGood
  <2>2. QED
    BY <1>3, <2>1 DEF FindAndRead
<1> HIDE DEF s3
<1>5. Good(s4)
  BY <1>4, PairingGood
<1> HIDE DEF s4
<1>6. Good(print_and_exit(s4))
  BY <1>5, ExitGood
<1>7. QED
  BY <1>6 DEF Sends, s4, s3, s2, s1

TInv == db \in Databases /\ TypeOK /\ Typed(g)

LEMMA FreshGood ==
    ASSUME NEW s, Good(s)
    PROVE  Good(Fresh(s)) /\ Fresh(s).out = <<>>
<1>1. <<>> \in Seq([op: RequestOp, h: Handle])
  OBVIOUS
<1>2. QED
  BY <1>1 DEF Fresh, Good, Getter, Typed

LEMMA TakeTypes ==
    ASSUME TInv, NEW s, Good(s), NEW w \in Seq(Requests), Take(s, w), drops' \in 0..MaxDrops
    PROVE  TInv'
<1>1. asked' \in Seq(Requests)
  <2>1. s.out \in Seq(Requests)
    BY DEF Good, Getter, Requests
  <2>2. QED
    BY <2>1 DEF Take
<1>2. g' = s /\ db' = db
  BY DEF Take
<1>3. g' \in Getter' /\ Typed(g')
  BY <1>2 DEF Good, Getter
<1>4. QED
  BY <1>1, <1>2, <1>3 DEF TInv, TypeOK, Good, Requests, Typed

LEMMA InitTypes == Init => TInv
<1> SUFFICES ASSUME Init PROVE TInv
  OBVIOUS
<1>1. db \in Databases /\ db \in Database
  BY GattAssumption DEF Init
<1>2. 1 \in Handle /\ 2 \in Handle
  BY HandlesAreNumbers
<1>3. Good(g)
  <2>1. <<>> \in Seq([op: RequestOp, h: Handle])
    OBVIOUS
  <2>2. g.last \in [Asks -> Handle \cup {-1}] /\ \A t \in Asks : g.last[t] \in Handle
    BY <1>2 DEF Init, Asks
  <2>3. Typed(g)
    BY <2>2 DEF Init, Typed, Asks, ServiceType
  <2>4. QED
    BY <1>2, <2>1, <2>2, <2>3 DEF Init, Good, Getter, Asks, ServiceType
<1>4. asked \in Seq([op: RequestOp, h: Handle]) /\ drops \in 0..MaxDrops
  BY GattAssumption DEF Init
<1>5. QED
  BY <1>1, <1>3, <1>4 DEF TInv, TypeOK, Good

LEMMA NextTypes == TInv /\ [Next]_vars => TInv'
<1> SUFFICES ASSUME TInv, [Next]_vars PROVE TInv'
  OBVIOUS
<1>0. /\ db \in Databases /\ Good(g) /\ asked \in Seq(Requests) /\ drops \in 0..MaxDrops
      /\ Good(Fresh(g)) /\ MaxDrops \in Nat
  BY FreshGood, GattAssumption DEF TInv, TypeOK, Good, Requests
<1>1. CASE PeripheralAnswers
  <2>1. Head(asked) \in Requests /\ Tail(asked) \in Seq(Requests)
    BY <1>0, <1>1 DEF PeripheralAnswers
  <2>2. PICK a \in AnswersTo(Head(asked)) : \E s \in Handled(Fresh(g), a) : Take(s, Tail(asked))
    BY <1>1 DEF PeripheralAnswers
  <2>3. Fits(a)
    BY <1>0, <2>1, AnswerIs, AnswerFits
  <2>4. Take(Answering(Fresh(g), a), Tail(asked))
    BY <2>2, HandledIs
  <2>5. Good(Answering(Fresh(g), a))
    BY <1>0, <2>3, AnswersGood
  <2>6. drops' = drops
    BY <1>1 DEF PeripheralAnswers
  <2>7. QED
    BY <1>0, <2>1, <2>4, <2>5, <2>6, TakeTypes
<1>2. CASE PeripheralDrops
  <2>1. Tail(asked) \in Seq(Requests) /\ drops' \in 0..MaxDrops
    BY <1>0, <1>2 DEF PeripheralDrops
  <2>2. QED
    BY <1>2, <2>1 DEF PeripheralDrops, TInv, TypeOK, Typed, Requests
<1>3. CASE EmptyPacket
  <2>1. Take(Sends(Fresh(g)), asked) /\ drops' = drops
    BY <1>3, SendPendingIs DEF EmptyPacket
  <2>2. Good(Sends(Fresh(g)))
    BY <1>0, SendsGood
  <2>3. QED
    BY <1>0, <2>1, <2>2, TakeTypes
<1>4. ASSUME NEW t \in Timer, TimePasses(t) PROVE TInv'
  <2> DEFINE s == Fresh(g)
             u == [s EXCEPT !.late = @ \cup {t}]
  <2>1. g' = u /\ t \in g.sent /\ UNCHANGED <<db, asked, drops>>
    BY <1>4 DEF TimePasses
  <2>2. s.sent = g.sent
    BY <1>0 DEF Fresh, Good, Getter
  <2>3. Good(u)
    BY <1>0, <2>1, <2>2 DEF Good, Getter, Typed
  <2> HIDE DEF u
  <2>4. QED
    BY <2>1, <2>3 DEF TInv, TypeOK, Good, Typed
<1>5. CASE UNCHANGED vars
  BY <1>5 DEF TInv, TypeOK, Typed, vars
<1>6. QED
  BY <1>1, <1>2, <1>3, <1>4, <1>5 DEF Next, Exited

LEMMA TypesAlways == Spec => []TInv
BY InitTypes, NextTypes, PTL DEF Spec

-----------------------------------------------------------------------------
(* The getter in step with the peripheral: nothing was late or lost.       *)

(* One phase after the other. *)
Order(s) ==
    /\ s.late = {}
    /\ "primary" \in s.done => "primary" \in s.sent
    /\ "secondary" \in s.sent => "primary" \in s.done
    /\ "secondary" \in s.done => "secondary" \in s.sent
    /\ "info" \in s.sent => "secondary" \in s.done
    /\ "info" \in s.done => "info" \in s.sent
    /\ "char" \in s.sent \/ "char" \in s.done => "info" \in s.done
    /\ "read" \in s.sent => "char" \in s.done
    /\ "read" \in s.done => "read" \in s.sent
    /\ "smp" \in s.sent => "read" \in s.done
    /\ "smp" \in s.done => "smp" \in s.sent
    /\ s.type = "secondary" <=> "secondary" \in s.sent

Seen(s) == s.found["primary"] \cup s.found["secondary"]

Complete(s) == Services \subseteq Seen(s)

LastSeen(s) == \E k \in Seen(s) : \A j \in Services : j <= k

(* Below the handle that is asked for next, all services are known.        *)
(* Secondary services are missed only if the last service of all is known, *)
(* and ends at 0xFFFF (SecondaryFound).                                    *)
PrimaryInv(s) ==
    /\ "primary" \notin s.sent => s.last["primary"] = 1
    /\ "primary" \in s.done => OfKind("primary") \subseteq s.found["primary"]
    /\ "primary" \notin s.done =>
          \A h \in OfKind("primary") : h < s.last["primary"] => h \in s.found["primary"]

SecondaryInv(s) ==
    /\ "secondary" \notin s.sent => s.last["secondary"] = 1
    /\ "secondary" \notin s.done =>
          /\ \A h \in OfKind("secondary") : h < s.last["secondary"] => h \in Seen(s)
          /\ IF s.last["secondary"] = 1 THEN s.final["secondary"] = 1
             ELSE s.last["secondary"] = s.final["secondary"] + 1
    /\ "secondary" \in s.done =>
          Complete(s) \/ (OfKind("secondary") # {} /\ Reaches /\ LastSeen(s))

ServiceInv(s) ==
    /\ Seen(s) \subseteq Services
    /\ s.final["primary"] = LastHandle => Reaches /\ LastSeen(s)
    /\ PrimaryInv(s)
    /\ SecondaryInv(s)

(* Where AllHandlesFound says something.  The gaps are skipped by the      *)
(* peripheral, or end where a service is known to start.                   *)
Assured == EndsAreClear /\ (db.skips \/ GapsEndAtServices)

Below(h) == {k \in Attributes : k < h}

(* The handle after each service that is passed is known, so that the      *)
(* discovery of the characteristics does not end before its answers.       *)
FollowersKnown(s) ==
    \A k \in Seen(s) :
        k + 1 \in Attributes /\ ("info" \in s.done \/ k + 1 < s.last["info"])
            => k + 1 \in s.handles

HandleInv(s) ==
    /\ s.handles \subseteq Attributes
    /\ s.top < LastHandle /\ s.top <= s.last["info"]
    /\ "info" \notin s.sent => s.handles = {} /\ s.last["info"] = 1
    /\ Assured /\ "info" \in s.sent /\ "info" \notin s.done /\ Complete(s)
          => s.handles = Below(s.last["info"])
    /\ Assured /\ "info" \in s.done => Complete(s) /\ s.handles = Attributes
    /\ "info" \in s.sent => FollowersKnown(s)
    /\ "char" \in s.sent /\ "char" \notin s.done
          => s.found["primary"] # {} /\ ~FirstIsCharacteristic(s)

(* All but the first of them are read, up to the one that is asked for.    *)
ToRead(s) == s.handles \ Services

ReadInv(s) ==
    "read" \in s.sent =>
        \A h \in ToRead(s) :
            (\E k \in ToRead(s) : k < h) /\ ("read" \in s.done \/ h < s.last["read"])
                => s.values[h] = h

Data(s) == Order(s) /\ ServiceInv(s) /\ HandleInv(s) /\ ReadInv(s)

(* The one request that has no answer yet belongs to the phase.            *)
PhaseOf(op) ==
    CASE op = "GROUP_primary"    -> "primary"
      [] op = "GROUP_secondary"  -> "secondary"
      [] op = "FIND_INFO"        -> "info"
      [] op = "READ_TYPE"        -> "char"
      [] op = "READ"             -> "read"
      [] op \in {"PAIR", "PAIR_SC"} -> "smp"

Pending(s, r) ==
    /\ PhaseOf(r.op) \in s.sent /\ PhaseOf(r.op) \notin s.done
    /\ PhaseOf(r.op) # "smp" => r.h = s.last[PhaseOf(r.op)]

Queue(s, w) == w = <<>> \/ (Len(w) = 1 /\ Pending(s, w[1]))

(* The exceptions that RaisesOnlyAtEnds allows. *)
Excused == OfKind("primary") = {} \/ LastHandle \in Attributes \/ ~EndsAreClear

Fine(s, w) ==
    /\ s.exit = "exception" => Excused
    /\ s.exit # "exception" => Data(s) /\ Queue(s, w)
    /\ s.exit = "done" => "smp" \in s.done

SInv == Undisturbed => Fine(g, asked)

Steady(s) == Good(s) /\ s.exit = NONE /\ s.out = <<>> /\ Data(s)

LEMMA NoneIs == NONE # "done" /\ NONE # "exception"
  BY GattAssumption

LEMMA SameData ==
    ASSUME NEW s, NEW t, Data(s),
           t.late = s.late, t.done = s.done, t.sent = s.sent, t.type = s.type,
           t.found = s.found, t.final = s.final, t.last = s.last,
           t.handles = s.handles, t.top = s.top, t.values = s.values
    PROVE  Data(t)
  BY DEF Data, Order, ServiceInv, PrimaryInv, SecondaryInv, HandleInv, ReadInv, Seen, Complete,
         LastSeen, ToRead, FollowersKnown, FirstIsCharacteristic

(* A request that goes out when nothing is due. *)
LEMMA SendSteady ==
    ASSUME NEW s, Good(s), Data(s), s.out = <<>>, s.exit = NONE,
           NEW op \in RequestOp, NEW h \in Handle, Pending(s, [op |-> op, h |-> h])
    PROVE  /\ Fine(Send(s, op, h), Send(s, op, h).out)
           /\ Send(s, op, h).sent = s.sent /\ Send(s, op, h).done = s.done
           /\ Send(s, op, h).exit = NONE
<1> DEFINE r == [op |-> op, h |-> h]
           t == [s EXCEPT !.out = <<r>>]
<1>1. ~(h > LastHandle)
  BY HandlesAreNumbers
<1>2. Append(<<>>, r) = <<r>>
  OBVIOUS
<1>3. Send(s, op, h) = t
  BY <1>1, <1>2 DEF Send
<1> HIDE DEF r
<1>4. /\ t.exit = NONE /\ t.out = <<r>> /\ t.sent = s.sent /\ t.done = s.done
      /\ t.late = s.late /\ t.type = s.type /\ t.found = s.found /\ t.final = s.final
      /\ t.last = s.last /\ t.handles = s.handles /\ t.top = s.top /\ t.values = s.values
  BY DEF Good, Getter
<1> HIDE DEF t
<1>5. Data(t)
  BY <1>4, SameData
<1>6. Queue(t, t.out)
  <2>1. Len(<<r>>) = 1 /\ <<r>>[1] = r
    OBVIOUS
  <2>2. Pending(t, r)
    BY <1>4 DEF Pending, r
  <2>3. QED
    BY <1>4, <2>1, <2>2 DEF Queue
<1>7. QED
  BY <1>3, <1>4, <1>5, <1>6, NoneIs DEF Fine

-----------------------------------------------------------------------------
(* Service discovery. *)

(* What is not about services. *)
LEMMA BeforeHandles ==
    ASSUME NEW s, NEW t, Data(s), "info" \notin s.sent, t.sent = s.sent,
           t.handles = s.handles, t.top = s.top, t.last["info"] = s.last["info"],
           "info" \in t.done => "info" \in s.done
    PROVE  HandleInv(t) /\ ReadInv(t)
<1>1. "info" \notin t.done /\ "read" \notin t.sent /\ "char" \notin t.sent
  BY DEF Data, Order
<1>2. HandleInv(t)
  BY <1>1 DEF Data, HandleInv
<1>3. QED
  BY <1>1, <1>2 DEF ReadInv

LEMMA PrimaryAnswered ==
    ASSUME db \in Databases, NEW s, Steady(s), NEW r \in Requests, NEW a, Answered(r, a),
           Pending(s, r), r.op = "GROUP_primary"
    PROVE  LET t == incoming_service_discovery(s, a)
           IN  Fine(t, t.out) /\ t.exit = NONE /\ t.sent = s.sent
               /\ t.done \subseteq s.done \cup {"primary"}
<1> DEFINE t == incoming_service_discovery(s, a)
           l == s.last["primary"]
<1>1. /\ "primary" \in s.sent /\ "primary" \notin s.done /\ "secondary" \notin s.sent
      /\ "secondary" \notin s.done /\ s.type = "primary" /\ a.of = "GROUP_primary"
      /\ r.h = l /\ "info" \notin s.sent /\ l \in Handle /\ "info" \notin s.done
  <2>1. "primary" \in s.sent /\ "primary" \notin s.done /\ r.h = l
    BY DEF Pending, PhaseOf
  <2>2. l \in Handle /\ s.type \in ServiceType
    BY DEF Steady, Good, Getter, Typed
  <2>3. a.of = "GROUP_primary"
    BY DEF Answered, NextOf
  <2>4. QED
    BY <2>1, <2>2, <2>3 DEF Steady, Data, Order, ServiceType
<1>2. /\ Good(s) /\ s.exit = NONE /\ s.out = <<>> /\ Data(s) /\ ServiceInv(s) /\ Order(s)
      /\ PrimaryInv(s) /\ SecondaryInv(s)
  BY DEF Steady, Data, ServiceInv
<1>3. Services \subseteq Handle /\ Handle \subseteq Nat /\ OfKind("primary") \subseteq Services
  BY DatabaseIs, HandlesAreNumbers
<1>4. CASE a.p = "NOT_FOUND"
  <2>1. t = Done(s, "primary")
    <3>1. a.h = l
      BY <1>1, <1>4 DEF Answered, NextOf
    <3>2. QED
      BY <1>1, <1>4, <3>1 DEF incoming_service_discovery, NoMoreServices, ServiceType
  <2>2. /\ t.late = s.late /\ t.sent = s.sent /\ t.type = s.type /\ t.found = s.found
        /\ t.final = s.final /\ t.last = s.last /\ t.handles = s.handles /\ t.top = s.top
        /\ t.values = s.values /\ t.exit = NONE /\ t.out = <<>>
        /\ t.done = s.done \cup {"primary"}
    BY <1>2, <2>1 DEF Done, Good, Getter
  <2> HIDE DEF t
  <2>3. \A h \in OfKind("primary") : h \in s.found["primary"]
    BY <1>1, <1>2, <1>4 DEF Answered, NextOf, PrimaryInv
  <2>4. Order(t)
    BY <1>1, <1>2, <2>2 DEF Order
  <2>5. ServiceInv(t)
    BY <1>1, <1>2, <2>2, <2>3 DEF ServiceInv, PrimaryInv, SecondaryInv, Seen, LastSeen
  <2>6. HandleInv(t) /\ ReadInv(t)
    BY <1>1, <1>2, <2>2, BeforeHandles
  <2>7. QED
    BY <2>2, <2>4, <2>5, <2>6, NoneIs DEF Fine, Data, Queue, t
<1>5. CASE a.p = "GROUP_RSP"
  <2> DEFINE e == EndOf(a.h)
             f == [s EXCEPT !.found["primary"] = @ \cup {a.h}, !.final["primary"] = e,
                            !.values[a.h] = a.h]
             v == [f EXCEPT !.last["primary"] = IF e + 1 > LastHandle THEN @ ELSE e + 1]
  <2>1. /\ a.h \in OfKind("primary") /\ a.h \in Services
        /\ \A k \in OfKind("primary") : k < l \/ a.h <= k
    BY <1>1, <1>3, <1>5 DEF Answered, NextOf
  <2>2. /\ e \in Handle /\ a.h <= e /\ e \in Nat /\ a.h \in Nat
        /\ \A k \in Services : k <= a.h \/ e < k
        /\ e = LastHandle => Reaches
    BY <1>3, <2>1, EndOfIs
  <2> HIDE DEF e
  <2>3. FiledAs(s, a.h) = "primary" /\ GroupOf(s.type) = "GROUP_primary"
    BY <1>1 DEF FiledAs, GroupOf
  <2>4. /\ f.found["primary"] = s.found["primary"] \cup {a.h}
        /\ f.found["secondary"] = s.found["secondary"]
        /\ f.final["primary"] = e /\ f.final["secondary"] = s.final["secondary"]
        /\ f.late = s.late /\ f.sent = s.sent /\ f.type = s.type /\ f.done = s.done
        /\ f.last = s.last /\ f.handles = s.handles /\ f.top = s.top
        /\ f.exit = NONE /\ f.out = <<>>
    BY <1>2 DEF Good, Getter, ServiceType
  <2>5. t = IF e = LastHandle THEN Done(f, "primary") ELSE Send(v, "GROUP_primary", e + 1)
    <3> DEFINE w == [f EXCEPT !.last["primary"] = IF f.final["primary"] + 1 > LastHandle THEN @
                                                  ELSE f.final["primary"] + 1]
    <3>1. t = process_ATT_READ_BY_GROUP_TYPE_RSP(s, a)
      BY <1>1, <1>5 DEF incoming_service_discovery, ServiceType
    <3>2. process_ATT_READ_BY_GROUP_TYPE_RSP(s, a) =
             IF f.final["primary"] = LastHandle THEN Done(f, "primary")
             ELSE Send(w, "GROUP_primary", f.final["primary"] + 1)
      BY <1>1, <2>3 DEF process_ATT_READ_BY_GROUP_TYPE_RSP, e
    <3> HIDE DEF f
    <3>3. f.final["primary"] = e
      BY <2>4
    <3> HIDE DEF t
    <3>4. QED
      BY <3>1, <3>2, <3>3
  <2>6. Good(t)
    <3>1. Fits(a)
      BY AnswerFits
    <3>2. QED
      BY <1>2, <3>1, ServicesGood
  <2>7. ASSUME NEW h \in OfKind("primary"), h <= e PROVE h \in f.found["primary"]
    <3>1. h \in Nat /\ l \in Nat
      BY <1>1, <1>3
    <3>2. CASE h < l
      BY <1>1, <1>2, <2>4, <3>2 DEF PrimaryInv
    <3>3. CASE ~(h < l)
      <4>1. a.h <= h /\ (h <= a.h \/ e < h)
        BY <1>3, <2>1, <2>2, <3>3
      <4>2. h = a.h
        BY <2>2, <2>7, <3>1, <4>1
      <4>3. QED
        BY <2>4, <4>2
    <3>4. QED
      BY <3>2, <3>3
  <2>8. /\ Seen(f) = Seen(s) \cup {a.h} /\ Seen(f) \subseteq Services
        /\ e = LastHandle => LastSeen(f)
    <3>1. Seen(f) = Seen(s) \cup {a.h}
      BY <2>4 DEF Seen
    <3>2. Seen(f) \subseteq Services
      BY <1>2, <2>1, <3>1 DEF ServiceInv
    <3>3. ASSUME e = LastHandle PROVE LastSeen(f)
      <4>1. \A k \in Services : k <= a.h
        BY <1>3, <2>2, <3>3, HandlesAreNumbers
      <4>2. QED
        BY <3>1, <4>1 DEF LastSeen
    <3>4. QED
      BY <3>1, <3>2, <3>3
  <2>9. SecondaryInv(f)
    BY <1>1, <1>2, <2>4, <2>8 DEF SecondaryInv
  <2> HIDE DEF f, t
  <2>10. CASE e = LastHandle
    <3> DEFINE u == Done(f, "primary")
    <3>0. f = [s EXCEPT !.found["primary"] = @ \cup {a.h}, !.final["primary"] = e,
                            !.values[a.h] = a.h]
      BY DEF f
    <3>1. /\ t.late = s.late /\ t.sent = s.sent /\ t.type = s.type /\ t.found = f.found
          /\ t.final = f.final /\ t.last = s.last /\ t.handles = s.handles /\ t.top = s.top
          /\ t.exit = NONE /\ t.out = <<>> /\ t.done = s.done \cup {"primary"}
      BY <1>2, <2>4, <2>5, <2>10, <3>0 DEF Done, Good, Getter
    <3>2. \A h \in OfKind("primary") : h \in f.found["primary"]
      BY <1>3, <2>7, <2>10, HandlesAreNumbers
    <3>3. Order(t)
      BY <1>1, <1>2, <3>1 DEF Order
    <3>4. Seen(t) = Seen(f)
      BY <3>1 DEF Seen
    <3>5. ServiceInv(t)
      BY <1>1, <2>2, <2>4, <2>8, <2>9, <2>10, <3>1, <3>2, <3>4
         DEF ServiceInv, PrimaryInv, SecondaryInv, LastSeen
    <3>6. HandleInv(t) /\ ReadInv(t)
      BY <1>1, <1>2, <3>1, BeforeHandles
    <3>7. QED
      BY <3>1, <3>3, <3>5, <3>6, NoneIs DEF Fine, Data, Queue, t
  <2>11. CASE e # LastHandle
    <3>1. e + 1 \in Handle /\ ~(e + 1 > LastHandle) /\ e + 1 # 1
      BY <2>2, <2>11, HandlesAreNumbers DEF Handle
    <3>2. v = [f EXCEPT !.last["primary"] = e + 1]
      BY <3>1
    <3>3. Good(f)
      <4>0. a.h \in Handle /\ s.found \in [ServiceType -> SUBSET Handle]
        BY <1>2, <1>3, <2>1 DEF Good, Getter
      <4>1. [s.found EXCEPT !["primary"] = @ \cup {a.h}] \in [ServiceType -> SUBSET Handle]
        BY <4>0
      <4>2. [s.final EXCEPT !["primary"] = e] \in [ServiceType -> Handle]
        BY <1>2, <2>2 DEF Good, Getter
      <4>3. [s.values EXCEPT ![a.h] = a.h] \in [Handle -> Handle \cup {NONE}]
        BY <1>2, <1>3, <2>1 DEF Good, Getter
      <4>4. f \in Getter
        BY <1>2, <4>1, <4>2, <4>3 DEF f, Good, Getter
      <4>5. QED
        BY <1>2, <2>4, <4>4 DEF Good, Typed
    <3>4. Good(v) /\ v.last["primary"] = e + 1
      BY <3>1, <3>2, <3>3, LastGood DEF Asks, ServiceType
    <3>5. /\ v.late = s.late /\ v.sent = s.sent /\ v.type = s.type /\ v.found = f.found
          /\ v.final = f.final /\ v.handles = s.handles /\ v.top = s.top
          /\ v.exit = NONE /\ v.out = <<>> /\ v.done = s.done
          /\ v.last["secondary"] = s.last["secondary"] /\ v.last["info"] = s.last["info"]
      BY <2>4, <3>2, <3>3 DEF Good, Getter, ServiceType
    <3> HIDE DEF v
    <3>6. Order(v)
      BY <1>2, <3>5 DEF Order
    <3>7. ASSUME NEW h \in OfKind("primary"), h < e + 1 PROVE h \in f.found["primary"]
      <4>1. h \in Nat
        BY <1>3
      <4>2. h <= e
        BY <2>2, <3>7, <4>1
      <4>3. QED
        BY <2>7, <4>2
    <3>8. Seen(v) = Seen(f)
      BY <3>5 DEF Seen
    <3>9. ServiceInv(v)
      BY <1>1, <2>4, <2>8, <2>9, <2>11, <3>4, <3>5, <3>7, <3>8
         DEF ServiceInv, PrimaryInv, SecondaryInv
    <3>10. HandleInv(v) /\ ReadInv(v)
      BY <1>1, <1>2, <3>5, BeforeHandles
    <3>11. Data(v)
      BY <3>6, <3>9, <3>10 DEF Data
    <3>12. Pending(v, [op |-> "GROUP_primary", h |-> e + 1])
      BY <1>1, <3>4, <3>5 DEF Pending, PhaseOf
    <3>13. t = Send(v, "GROUP_primary", e + 1)
      BY <2>5, <2>11
    <3>14. QED
      BY <3>1, <3>4, <3>5, <3>11, <3>12, <3>13, SendSteady DEF RequestOp, t
  <2>12. QED
    BY <2>10, <2>11
<1>6. QED
  BY <1>4, <1>5 DEF Answered, NextOf
LEMMA SecondaryAnswered ==
    ASSUME db \in Databases, NEW s, Steady(s), NEW r \in Requests, NEW a, Answered(r, a),
           Pending(s, r), r.op = "GROUP_secondary"
    PROVE  LET t == incoming_service_discovery(s, a)
           IN  Fine(t, t.out) /\ t.exit \in {NONE, "exception"} /\ t.sent = s.sent
               /\ t.done \subseteq s.done \cup {"secondary"}
<1> DEFINE t == incoming_service_discovery(s, a)
           l == s.last["secondary"]
<1>1. /\ "primary" \in s.sent /\ "primary" \in s.done /\ "secondary" \in s.sent
      /\ "secondary" \notin s.done /\ s.type = "secondary" /\ a.of = "GROUP_secondary"
      /\ r.h = l /\ "info" \notin s.sent /\ l \in Handle /\ "info" \notin s.done
  <2>1. "secondary" \in s.sent /\ "secondary" \notin s.done /\ r.h = l
    BY DEF Pending, PhaseOf
  <2>2. l \in Handle /\ s.type \in ServiceType
    BY DEF Steady, Good, Getter, Typed
  <2>3. a.of = "GROUP_secondary"
    BY DEF Answered, NextOf
  <2>4. QED
    BY <2>1, <2>2, <2>3 DEF Steady, Data, Order, ServiceType
<1>2. /\ Good(s) /\ s.exit = NONE /\ s.out = <<>> /\ Data(s) /\ ServiceInv(s) /\ Order(s)
      /\ PrimaryInv(s) /\ SecondaryInv(s)
  BY DEF Steady, Data, ServiceInv
<1>3. /\ Services \subseteq Handle /\ Handle \subseteq Nat /\ OfKind("secondary") \subseteq Services
      /\ \A h \in Services : h \in OfKind("primary") \/ h \in OfKind("secondary")
  BY DatabaseIs, HandlesAreNumbers DEF Services, IsService, OfKind, ServiceType
<1>4. CASE a.p = "NOT_FOUND"
  <2>1. t = Done(s, "secondary")
    <3>1. a.h = l
      BY <1>1, <1>4 DEF Answered, NextOf
    <3>2. QED
      BY <1>1, <1>4, <3>1 DEF incoming_service_discovery, NoMoreServices, ServiceType
  <2>2. /\ t.late = s.late /\ t.sent = s.sent /\ t.type = s.type /\ t.found = s.found
        /\ t.final = s.final /\ t.last = s.last /\ t.handles = s.handles /\ t.top = s.top
        /\ t.values = s.values /\ t.exit = NONE /\ t.out = <<>>
        /\ t.done = s.done \cup {"secondary"}
    BY <1>2, <2>1 DEF Done, Good, Getter
  <2> HIDE DEF t
  <2>3. Seen(t) = Seen(s) /\ Complete(t)
    <3>1. \A h \in OfKind("secondary") : h \in Seen(s)
      BY <1>1, <1>2, <1>4 DEF Answered, NextOf, SecondaryInv
    <3>2. \A h \in OfKind("primary") : h \in Seen(s)
      BY <1>1, <1>2 DEF PrimaryInv, Seen
    <3>3. QED
      BY <1>3, <2>2, <3>1, <3>2 DEF Complete, Seen
  <2>4. Order(t)
    BY <1>1, <1>2, <2>2 DEF Order
  <2>5. ServiceInv(t)
    BY <1>1, <1>2, <2>2, <2>3 DEF ServiceInv, PrimaryInv, SecondaryInv, LastSeen
  <2>6. HandleInv(t) /\ ReadInv(t)
    BY <1>1, <1>2, <2>2, BeforeHandles
  <2>7. QED
    BY <2>2, <2>4, <2>5, <2>6, NoneIs DEF Fine, Data, Queue, t
<1>5. CASE a.p = "GROUP_RSP"
  <2> DEFINE e == EndOf(a.h)
             b == FiledAs(s, a.h)
             f == [s EXCEPT !.found[b] = @ \cup {a.h}, !.final[b] = e, !.values[a.h] = a.h]
             n == f.final["secondary"] + 1
             v == [f EXCEPT !.last["secondary"] = IF n > LastHandle THEN @ ELSE n]
  <2>1. /\ a.h \in OfKind("secondary") /\ a.h \in Services /\ a.h \in Handle
        /\ \A k \in OfKind("secondary") : k < l \/ a.h <= k
        /\ l <= a.h
    BY <1>1, <1>3, <1>5 DEF Answered, NextOf
  <2>2. /\ e \in Handle /\ a.h <= e /\ e \in Nat /\ a.h \in Nat
        /\ \A k \in Services : k <= a.h \/ e < k
        /\ e = LastHandle => Reaches
    BY <1>3, <2>1, EndOfIs
  <2>3. b \in ServiceType
    BY <1>1 DEF FiledAs, ServiceType
  <2>5. t = IF f.final["primary"] = LastHandle THEN Done(f, "secondary")
            ELSE Send(v, "GROUP_secondary", n)
    <3>1. t = process_ATT_READ_BY_GROUP_TYPE_RSP(s, a)
      BY <1>1, <1>5 DEF incoming_service_discovery, ServiceType
    <3>2. process_ATT_READ_BY_GROUP_TYPE_RSP(s, a) =
             IF f.final["primary"] = LastHandle THEN Done(f, "secondary")
             ELSE Send(v, "GROUP_secondary", n)
      BY <1>1 DEF process_ATT_READ_BY_GROUP_TYPE_RSP, GroupOf
    <3>3. QED
      BY <3>1, <3>2
  <2> HIDE DEF e, b, t
  <2>6. Good(f)
    <3>1. s.found \in [ServiceType -> SUBSET Handle] /\ s.final \in [ServiceType -> Handle]
          /\ s.values \in [Handle -> Handle \cup {NONE}]
      BY <1>2 DEF Good, Getter
    <3>2. [s.found EXCEPT ![b] = @ \cup {a.h}] \in [ServiceType -> SUBSET Handle]
      BY <2>1, <2>3, <3>1
    <3>3. [s.final EXCEPT ![b] = e] \in [ServiceType -> Handle]
      BY <2>2, <2>3, <3>1
    <3>4. [s.values EXCEPT ![a.h] = a.h] \in [Handle -> Handle \cup {NONE}]
      BY <2>1, <3>1
    <3>5. f \in Getter
      BY <1>2, <3>2, <3>3, <3>4 DEF Good, Getter
    <3>6. f.last = s.last /\ f.sent = s.sent /\ f.done = s.done /\ f.late = s.late
      BY <1>2 DEF Good, Getter
    <3>7. QED
      BY <1>2, <3>5, <3>6 DEF Good, Typed
  <2>7. /\ Seen(f) = Seen(s) \cup {a.h} /\ s.found["primary"] \subseteq f.found["primary"]
        /\ f.final[b] = e /\ \A k \in ServiceType : k # b => f.final[k] = s.final[k]
        /\ f.late = s.late /\ f.sent = s.sent /\ f.type = s.type /\ f.done = s.done
        /\ f.last = s.last /\ f.handles = s.handles /\ f.top = s.top
        /\ f.exit = NONE /\ f.out = <<>>
    BY <1>2, <2>3 DEF Good, Getter, ServiceType, Seen
  <2>8. f.final["secondary"] \in Handle /\ n \in Nat /\ n # 1
        /\ (~(n > LastHandle) => n \in Handle)
    <3>1. f.final["secondary"] \in Handle
      BY <2>6 DEF Good, Getter, ServiceType
    <3>2. QED
      BY <3>1, HandlesAreNumbers DEF Handle
  <2>9. Seen(f) \subseteq Services
    BY <1>2, <2>1, <2>7 DEF ServiceInv
  <2>10. f.final["primary"] = LastHandle => Reaches /\ LastSeen(f)
    <3>1. CASE b = "primary"
      <4>1. ASSUME e = LastHandle PROVE LastSeen(f)
        <5>1. \A k \in Services : k <= a.h
          BY <1>3, <2>2, <4>1, HandlesAreNumbers
        <5>2. QED
          BY <2>7, <5>1 DEF LastSeen
      <4>2. QED
        BY <2>2, <2>7, <3>1, <4>1
    <3>2. CASE b = "secondary"
      <4>1. f.final["primary"] = s.final["primary"]
        BY <2>7, <3>2 DEF ServiceType
      <4>2. LastSeen(s) => LastSeen(f)
        BY <2>7 DEF LastSeen
      <4>3. QED
        BY <1>2, <4>1, <4>2 DEF ServiceInv
    <3>3. QED
      BY <2>3, <3>1, <3>2 DEF ServiceType
  <2>11. PrimaryInv(f)
    BY <1>1, <1>2, <2>7 DEF PrimaryInv
  <2>12. CASE f.final["primary"] = LastHandle
    <3>0. t = Done(f, "secondary")
      BY <2>5, <2>12
    <3> HIDE DEF f
    <3>1. /\ t.late = s.late /\ t.sent = s.sent /\ t.type = s.type /\ t.found = f.found
          /\ t.final = f.final /\ t.last = s.last /\ t.handles = s.handles /\ t.top = s.top
          /\ t.exit = NONE /\ t.out = <<>> /\ t.done = s.done \cup {"secondary"}
      BY <2>6, <2>7, <3>0 DEF Done, Good, Getter
    <3>2. Seen(t) = Seen(f)
      BY <3>1 DEF Seen
    <3>3. Order(t)
      BY <1>1, <1>2, <3>1 DEF Order
    <3>4. ServiceInv(t)
      BY <1>1, <2>1, <2>7, <2>9, <2>10, <2>11, <2>12, <3>1, <3>2
         DEF ServiceInv, PrimaryInv, SecondaryInv, LastSeen
    <3>5. HandleInv(t) /\ ReadInv(t)
      BY <1>1, <1>2, <3>1, BeforeHandles
    <3>6. QED
      BY <3>1, <3>3, <3>4, <3>5, NoneIs DEF Fine, Data, Queue, t
  <2>13. CASE f.final["primary"] # LastHandle /\ n > LastHandle
    <3>1. b = "secondary"
      <4>1. ASSUME b = "primary" PROVE FALSE
        <5>1. f.final["secondary"] = s.final["secondary"]
          BY <2>7, <4>1 DEF ServiceType
        <5>2. n = 2 \/ n = l
          BY <1>1, <1>2, <5>1 DEF SecondaryInv
        <5>3. QED
          BY <1>1, <2>13, <5>2, HandlesAreNumbers
      <4>2. QED
        BY <2>3, <4>1 DEF ServiceType
    <3>2. e = LastHandle
      BY <2>2, <2>7, <2>13, <3>1, HandlesAreNumbers
    <3>3. Excused
      BY <2>1, <2>2, <3>2 DEF Excused, Reaches, EndsAreClear
    <3>4. v = [f EXCEPT !.last["secondary"] = f.last["secondary"]]
      BY <2>13
    <3>5. t = [v EXCEPT !.exit = "exception"]
      BY <2>5, <2>13 DEF Send
    <3> HIDE DEF f
    <3>6. t.exit = "exception" /\ t.sent = f.sent /\ t.done = f.done
      BY <2>6, <3>4, <3>5 DEF Good, Getter
    <3>7. QED
      BY <2>7, <3>3, <3>6 DEF Fine, t
  <2>14. CASE f.final["primary"] # LastHandle /\ ~(n > LastHandle)
    <3>1. n \in Handle
      BY <2>8, <2>14
    <3>2. v = [f EXCEPT !.last["secondary"] = n]
      BY <2>14
    <3>3. ASSUME NEW h \in OfKind("secondary"), h < n PROVE h \in Seen(f)
      <4>1. h \in Nat /\ l \in Nat /\ h \in Handle /\ 1 <= h
        BY <1>1, <1>3, HandlesAreNumbers
      <4>2. CASE h < l
        BY <1>1, <1>2, <2>7, <4>2 DEF SecondaryInv
      <4>3. CASE ~(h < l)
        <5>0. a.h <= h
          BY <2>1, <4>3
        <5>1. CASE b = "secondary"
          <6>1. h <= e
            BY <2>2, <2>7, <3>3, <4>1, <5>1
          <6>2. h <= a.h
            BY <1>3, <2>2, <4>1, <6>1
          <6>3. h = a.h
            BY <2>2, <4>1, <5>0, <6>2
          <6>4. QED
            BY <2>7, <6>3
        <5>2. CASE b = "primary"
          <6>1. f.final["secondary"] = s.final["secondary"]
            BY <2>7, <5>2 DEF ServiceType
          <6>2. n = 2 \/ n = l
            BY <1>1, <1>2, <6>1 DEF SecondaryInv
          <6>3. h = 1
            BY <3>3, <4>1, <4>3, <6>2
          <6>4. h = a.h
            BY <2>1, <2>2, <4>1, <5>0, <6>3, HandlesAreNumbers
          <6>5. QED
            BY <2>7, <6>4
        <5>3. QED
          BY <2>3, <5>1, <5>2 DEF ServiceType
      <4>4. QED
        BY <4>2, <4>3
    <3>4. n = f.final["secondary"] + 1
      OBVIOUS
    <3> HIDE DEF f, n, v
    <3>5. Good(v) /\ v.last["secondary"] = n
      <4>1. "secondary" \in Asks
        BY DEF Asks, ServiceType
      <4>2. QED
        BY <2>6, <3>1, <3>2, <4>1, LastGood
    <3>6. /\ v.late = s.late /\ v.sent = s.sent /\ v.type = s.type /\ v.found = f.found
          /\ v.final = f.final /\ v.handles = s.handles /\ v.top = s.top
          /\ v.exit = NONE /\ v.out = <<>> /\ v.done = s.done
          /\ v.last["primary"] = s.last["primary"] /\ v.last["info"] = s.last["info"]
      BY <2>6, <2>7, <3>2 DEF Good, Getter, ServiceType
    <3>7. Order(v)
      BY <1>2, <3>6 DEF Order
    <3>8. Seen(v) = Seen(f)
      BY <3>6 DEF Seen
    <3>9. ServiceInv(v)
      BY <1>1, <2>7, <2>8, <2>9, <2>11, <2>14, <3>3, <3>4, <3>5, <3>6, <3>8
         DEF ServiceInv, PrimaryInv, SecondaryInv
    <3>10. HandleInv(v) /\ ReadInv(v)
      BY <1>1, <1>2, <3>6, BeforeHandles
    <3>11. Data(v)
      BY <3>7, <3>9, <3>10 DEF Data
    <3>12. Pending(v, [op |-> "GROUP_secondary", h |-> n])
      BY <1>1, <3>5, <3>6 DEF Pending, PhaseOf
    <3>13. t = Send(v, "GROUP_secondary", n)
      BY <2>5, <2>14
    <3>14. QED
      BY <3>1, <3>5, <3>6, <3>11, <3>12, <3>13, SendSteady DEF RequestOp, t
  <2>15. QED
    BY <2>12, <2>13, <2>14
<1>6. QED
  BY <1>4, <1>5 DEF Answered, NextOf
-----------------------------------------------------------------------------
(* Discovery of the handles. *)

(* Past a gap the first attribute is a service. *)
LEMMA GapEnds ==
    ASSUME db \in Databases, GapsEndAtServices, NEW l \in Handle, l \notin Attributes,
           NEW k \in Attributes, l <= k
    PROVE  \E m \in Services : l < m /\ m <= k
<1> DEFINE S == {j \in Attributes : l <= j}
<1>1. Attributes \subseteq Handle /\ Handle \subseteq Nat /\ l \in Nat
  BY DatabaseIs, HandlesAreNumbers
<1>2. Min(S) \in S /\ \A j \in S : Min(S) <= j
  <2>1. S \subseteq Handle /\ S # {}
    BY <1>1
  <2>2. QED
    BY <2>1, LeastHandle
<1> DEFINE m == Min(S)
<1> HIDE DEF m
<1>3. m \in Attributes /\ m \in Nat /\ l < m /\ m <= k
  <2>1. k \in S
    OBVIOUS
  <2>2. m \in S /\ m <= k
    BY <1>2, <2>1 DEF m
  <2>3. m \in Attributes /\ m \in Nat /\ l <= m /\ m # l
    BY <1>1, <2>2
  <2>4. QED
    BY <1>1, <2>2, <2>3
<1>4. m \in 2..LastHandle /\ m - 1 \in Handle /\ l <= m - 1
  BY <1>1, <1>3, HandlesAreNumbers DEF Handle
<1>5. m - 1 \notin Attributes
  <2>1. m - 1 \in Attributes => m - 1 \in S
    BY <1>4
  <2>2. m - 1 \in S => m <= m - 1
    BY <1>2 DEF m
  <2>3. QED
    BY <1>3, <2>1, <2>2
<1>6. db.kind[m - 1] = "gap"
  BY <1>4, <1>5 DEF Attributes, OfKind
<1>7. db.kind[m] \in ServiceType
  <2>1. db.kind[m] \in ServiceType \cup {"gap"}
    BY <1>4, <1>6 DEF GapsEndAtServices
  <2>2. db.kind[m] # "gap"
    BY <1>1, <1>3 DEF Attributes, OfKind
  <2>3. QED
    BY <2>1, <2>2
<1>8. m \in Services
  BY <1>1, <1>3, <1>7 DEF Services, IsService
<1>9. QED
  BY <1>3, <1>8

LEMMA HandlesAnswered ==
    ASSUME db \in Databases, NEW s, Steady(s), NEW r \in Requests, NEW a, Answered(r, a),
           Pending(s, r), r.op = "FIND_INFO"
    PROVE  LET t == incoming_handle_discovery(s, a)
           IN  Fine(t, t.out) /\ t.exit \in {NONE, "exception"} /\ t.sent = s.sent
               /\ t.done \subseteq s.done \cup {"info"}
<1> DEFINE t == incoming_handle_discovery(s, a)
           l == s.last["info"]
<1>1. /\ "info" \in s.sent /\ "info" \notin s.done /\ "secondary" \in s.done
      /\ "read" \notin s.sent /\ "char" \notin s.sent
      /\ r.h = l /\ l \in Handle /\ InfoAnswered(r, a)
      /\ a.hs \subseteq Attributes
  <2>1. "info" \in s.sent /\ "info" \notin s.done /\ r.h = l
    BY DEF Pending, PhaseOf
  <2>2. l \in Handle
    BY DEF Steady, Good, Typed
  <2>3. InfoAnswered(r, a) /\ a.hs \subseteq Attributes
    BY DEF Answered
  <2>4. QED
    BY <2>1, <2>2, <2>3 DEF Steady, Data, Order
<1>2. /\ Good(s) /\ s.exit = NONE /\ s.out = <<>> /\ Data(s) /\ ServiceInv(s) /\ Order(s)
      /\ HandleInv(s) /\ s.top \in Handle
  BY DEF Steady, Data, Good, Getter
<1>3. /\ Services \subseteq Attributes /\ Attributes \subseteq Handle /\ Handle \subseteq Nat
      /\ l \in Nat /\ s.top \in Nat
  BY <1>1, <1>2, DatabaseIs, HandlesAreNumbers
<1>4. CASE a.p = "INFO_RSP"
  <2> DEFINE m == Max({s.top} \cup a.hs)
             v == [s EXCEPT !.handles = @ \cup a.hs, !.top = m,
                            !.last["info"] = IF m = LastHandle THEN @ ELSE m + 1]
  <2>1. /\ a.hs # {} /\ \A k \in a.hs : l <= k
        /\ \A k \in Attributes, j \in a.hs : l <= k /\ k <= j => k \in a.hs
    BY <1>1, <1>4 DEF InfoAnswered
  <2>2. t = Send(v, "FIND_INFO", m + 1)
    BY <1>1, <1>4 DEF incoming_handle_discovery, process_ATT_FIND_INFORMATION_RSP
  <2>3. /\ m \in a.hs /\ \A k \in a.hs : k <= m
    <3>1. {s.top} \cup a.hs \subseteq Handle
      BY <1>1, <1>2, <1>3
    <3>2. m \in {s.top} \cup a.hs /\ \A k \in {s.top} \cup a.hs : k <= m
      BY <3>1, GreatestHandle
    <3> HIDE DEF m
    <3>3. PICK j \in a.hs : TRUE
      BY <2>1
    <3>4. j \in Nat /\ m \in Nat /\ l <= j /\ j <= m /\ s.top <= l
      BY <1>1, <1>2, <1>3, <2>1, <3>1, <3>2 DEF HandleInv
    <3>5. m = s.top => j = m
      BY <1>3, <3>4
    <3>6. QED
      BY <3>2, <3>5
  <2> HIDE DEF t, m
  <2>4. m \in Attributes /\ m \in Handle /\ m \in Nat /\ l <= m
    BY <1>1, <1>3, <2>1, <2>3
  <2>5. CASE m = LastHandle
    <3>1. v = [s EXCEPT !.handles = @ \cup a.hs, !.top = m, !.last["info"] = s.last["info"]]
      BY <2>5
    <3>2. t = [v EXCEPT !.exit = "exception"]
      BY <2>2, <2>5, HandlesAreNumbers DEF Send
    <3>3. t.exit = "exception" /\ t.sent = s.sent /\ t.done = s.done
      BY <1>2, <3>1, <3>2 DEF Good, Getter
    <3>4. QED
      BY <2>4, <2>5, <3>3 DEF Fine, Excused, t
  <2>6. CASE m # LastHandle
    <3> DEFINE u == [s EXCEPT !.handles = @ \cup a.hs, !.top = m]
    <3>1. m + 1 \in Handle /\ ~(m + 1 > LastHandle) /\ m < LastHandle
      BY <2>4, <2>6, HandlesAreNumbers DEF Handle
    <3>2. Good(u)
      <4>1. s.handles \cup a.hs \in SUBSET Handle
        BY <1>1, <1>2, <1>3 DEF Good, Getter
      <4>2. QED
        BY <1>2, <2>4, <4>1 DEF Good, Getter, Typed
    <3>3. v = [u EXCEPT !.last["info"] = m + 1]
      BY <1>2, <2>6 DEF Good, Getter
    <3> HIDE DEF u
    <3>4. Good(v) /\ v.last["info"] = m + 1
      <4> HIDE DEF v
      <4>1. "info" \in Asks
        BY DEF Asks
      <4>2. QED
        BY <3>1, <3>2, <3>3, <4>1, LastGood
    <3>5. /\ v.late = s.late /\ v.sent = s.sent /\ v.type = s.type /\ v.found = s.found
          /\ v.final = s.final /\ v.handles = s.handles \cup a.hs /\ v.top = m
          /\ v.exit = NONE /\ v.out = <<>> /\ v.done = s.done
          /\ v.last["primary"] = s.last["primary"] /\ v.last["secondary"] = s.last["secondary"]
      BY <1>2, <2>6 DEF Good, Getter, ServiceType
    <3> HIDE DEF v
    <3>6. Order(v)
      BY <1>2, <3>5 DEF Order
    <3>7. Seen(v) = Seen(s)
      BY <3>5 DEF Seen
    <3>8. ServiceInv(v)
      BY <1>2, <3>5, <3>7
         DEF ServiceInv, PrimaryInv, SecondaryInv, LastSeen, Complete
    <3>9. HandleInv(v)
      <4>1. ASSUME s.handles = Below(l) PROVE v.handles = Below(m + 1)
        <5>1. ASSUME NEW k \in v.handles PROVE k \in Below(m + 1)
          <6>1. k \in Attributes /\ k \in Nat
            BY <1>1, <1>3, <3>5, <4>1, <5>1 DEF Below
          <6>2. k < l \/ k <= m
            BY <2>3, <3>5, <4>1, <5>1 DEF Below
          <6>3. k < m + 1
            BY <1>3, <2>4, <6>1, <6>2
          <6>4. QED
            BY <6>1, <6>3 DEF Below
        <5>2. ASSUME NEW k \in Below(m + 1) PROVE k \in v.handles
          <6>1. k \in Attributes /\ k \in Nat /\ k <= m
            BY <1>3, <2>4, <5>2 DEF Below
          <6>2. CASE k < l
            BY <3>5, <4>1, <6>1, <6>2 DEF Below
          <6>3. CASE ~(k < l)
            <7>1. l <= k
              BY <1>3, <6>1, <6>3
            <7>2. QED
              BY <2>1, <2>3, <3>5, <6>1, <7>1
          <6>4. QED
            BY <6>2, <6>3
        <5>3. QED
          BY <5>1, <5>2
      <4>2. v.handles \subseteq Attributes /\ v.top < LastHandle /\ v.top <= v.last["info"]
        BY <1>1, <1>2, <2>4, <3>1, <3>4, <3>5 DEF HandleInv
      <4>3. Complete(v) <=> Complete(s)
        BY <3>7 DEF Complete
      <4>4. FollowersKnown(v)
        <5> SUFFICES ASSUME NEW k \in Seen(v), k + 1 \in Attributes,
                            "info" \in v.done \/ k + 1 < v.last["info"]
                     PROVE  k + 1 \in v.handles
          BY DEF FollowersKnown
        <5>1. k \in Seen(s) /\ k + 1 < m + 1 /\ k + 1 \in Nat
          BY <1>1, <1>3, <3>4, <3>5, <3>7
        <5>2. CASE k + 1 < l
          BY <1>1, <1>2, <3>5, <5>1, <5>2 DEF HandleInv, FollowersKnown
        <5>3. CASE ~(k + 1 < l)
          <6>1. l <= k + 1 /\ k + 1 <= m
            BY <1>3, <2>4, <5>1, <5>3
          <6>2. QED
            BY <2>1, <2>3, <3>5, <6>1
        <5>4. QED
          BY <5>2, <5>3
      <4>5. QED
        BY <1>1, <1>2, <3>4, <3>5, <4>1, <4>2, <4>3, <4>4 DEF HandleInv
    <3>10. ReadInv(v)
      BY <1>1, <3>5 DEF ReadInv
    <3>11. Data(v)
      BY <3>6, <3>8, <3>9, <3>10 DEF Data
    <3>12. Pending(v, [op |-> "FIND_INFO", h |-> m + 1])
      BY <1>1, <3>4, <3>5 DEF Pending, PhaseOf
    <3>13. QED
      BY <2>2, <3>1, <3>4, <3>5, <3>11, <3>12, SendSteady DEF RequestOp, t
  <2>7. QED
    BY <2>5, <2>6
<1>5. CASE a.p = "NOT_FOUND"
  <2> DEFINE higher == {k \in Seen(s) : k > l}
             h == check_for_higher_service_start_handle(s, l)
             v == [s EXCEPT !.last["info"] = h]
  <2>1. l \notin Attributes /\ (db.skips => \A k \in Attributes : k < l) /\ a.h = l
        /\ a.of = "FIND_INFO"
    BY <1>1, <1>5 DEF InfoAnswered
  <2>2. t = IF h = l THEN Done(s, "info") ELSE Send(v, "FIND_INFO", h)
    BY <1>1, <1>5, <2>1 DEF incoming_handle_discovery, NoMoreHandles
  <2>3. h = IF higher = {} THEN l ELSE Min(higher)
    BY DEF check_for_higher_service_start_handle, Seen
  <2>4. higher \subseteq Services /\ higher \subseteq Handle
    BY <1>2, <1>3 DEF ServiceInv
  <2>5. higher # {} => h \in higher /\ \A k \in higher : h <= k
    BY <2>3, <2>4, LeastHandle
  <2>6. h = l <=> higher = {}
    BY <1>3, <2>3, <2>4, <2>5
  <2> HIDE DEF h, t
  (* An attribute further up comes after a service further up. *)
  <2>7. ASSUME Assured, NEW k \in Attributes, l <= k
        PROVE  ~db.skips /\ \E j \in Services : l < j /\ j <= k
    <3>1. ~db.skips
      BY <1>3, <2>1, <2>7
    <3>2. GapsEndAtServices
      BY <2>7, <3>1 DEF Assured
    <3>3. QED
      BY <1>1, <2>1, <2>7, <3>1, <3>2, GapEnds
  <2>8. ASSUME Assured, Complete(s), NEW k \in Attributes, k \notin Below(l)
        PROVE  higher # {} /\ h <= k
    <3>0. k \in Nat /\ ~(k < l)
      BY <1>3, <2>8 DEF Below
    <3>1. k \in Nat /\ l <= k
      BY <1>3, <3>0
    <3>2. PICK j \in Services : l < j /\ j <= k
      BY <2>7, <2>8, <3>1
    <3>3. j \in higher
      BY <1>3, <2>8, <3>2 DEF Complete
    <3>4. h <= j /\ h \in Nat /\ j \in Nat
      BY <1>3, <2>4, <2>5, <3>3
    <3>5. QED
      BY <3>1, <3>2, <3>3, <3>4
  (* A service is followed by nothing at l, or is known to be further up. *)
  <2>9. ASSUME NEW k \in Seen(s), k + 1 \in Attributes
        PROVE  k + 1 \in s.handles \/ k \in higher
    <3>1. k \in Services /\ k \in Nat /\ k # l /\ k + 1 # l
      BY <1>2, <1>3, <2>1, <2>9 DEF ServiceInv
    <3>2. CASE k + 1 < l
      BY <1>1, <1>2, <2>9, <3>2 DEF HandleInv, FollowersKnown
    <3>3. CASE ~(k + 1 < l)
      BY <1>3, <3>1, <3>3
    <3>4. QED
      BY <3>2, <3>3
  <2>10. CASE h = l
    <3>1. /\ t.late = s.late /\ t.sent = s.sent /\ t.type = s.type /\ t.found = s.found
          /\ t.final = s.final /\ t.last = s.last /\ t.handles = s.handles /\ t.top = s.top
          /\ t.values = s.values /\ t.exit = NONE /\ t.out = <<>>
          /\ t.done = s.done \cup {"info"}
      BY <1>2, <2>2, <2>10 DEF Done, Good, Getter
    <3>2. Seen(t) = Seen(s)
      BY <3>1 DEF Seen
    <3>3. Order(t)
      BY <1>1, <1>2, <3>1 DEF Order
    <3>4. ServiceInv(t)
      BY <1>2, <3>1, <3>2 DEF ServiceInv, PrimaryInv, SecondaryInv, LastSeen, Complete
    <3>5. ASSUME Assured PROVE Complete(s)
      <4>1. SUFFICES ASSUME ~Complete(s) PROVE FALSE
        OBVIOUS
      <4>2. OfKind("secondary") # {} /\ Reaches /\ LastSeen(s)
        BY <1>1, <1>2, <4>1 DEF ServiceInv, SecondaryInv
      <4>3. LastHandle \in Attributes
        BY <3>5, <4>2 DEF Assured, EndsAreClear, Reaches
      <4>4. PICK j \in Services : l < j /\ j <= LastHandle
        BY <1>1, <2>7, <3>5, <4>3, HandlesAreNumbers
      <4>5. PICK k \in Seen(s) : \A i \in Services : i <= k
        BY <4>2 DEF LastSeen
      <4>6. k \in Services /\ k \in Nat /\ j \in Nat /\ j <= k
        BY <1>2, <1>3, <4>4, <4>5 DEF ServiceInv
      <4>7. k > l
        BY <1>3, <4>4, <4>6
      <4>8. QED
        BY <2>6, <2>10, <4>5, <4>7
    <3>6. ASSUME Assured PROVE s.handles = Attributes
      <4>1. s.handles = Below(l)
        BY <1>1, <1>2, <3>5, <3>6 DEF HandleInv
      <4>2. \A k \in Attributes : k \in Below(l)
        BY <2>6, <2>8, <2>10, <3>5, <3>6
      <4>3. QED
        BY <4>1, <4>2 DEF Below
    <3>7. HandleInv(t)
      <4>1. Complete(t) <=> Complete(s)
        BY <3>2 DEF Complete
      <4>2. FollowersKnown(t)
        BY <2>6, <2>10, <2>9, <3>1, <3>2 DEF FollowersKnown
      <4>3. QED
        BY <1>1, <1>2, <3>1, <3>5, <3>6, <4>1, <4>2 DEF HandleInv
    <3>8. ReadInv(t)
      BY <1>1, <3>1 DEF ReadInv
    <3>9. QED
      BY <3>1, <3>3, <3>4, <3>7, <3>8, NoneIs DEF Fine, Data, Queue, t
  <2>11. CASE h # l
    <3>1. h \in higher /\ h \in Handle /\ h \in Nat /\ l < h
      BY <1>3, <2>4, <2>5, <2>6, <2>11
    <3>2. Good(v) /\ v.last["info"] = h
      <4>1. "info" \in Asks
        BY DEF Asks
      <4>2. QED
        BY <1>2, <3>1, <4>1, LastGood
    <3>3. /\ v.late = s.late /\ v.sent = s.sent /\ v.type = s.type /\ v.found = s.found
          /\ v.final = s.final /\ v.handles = s.handles /\ v.top = s.top
          /\ v.exit = NONE /\ v.out = <<>> /\ v.done = s.done
          /\ v.last["primary"] = s.last["primary"] /\ v.last["secondary"] = s.last["secondary"]
      BY <1>2 DEF Good, Getter, ServiceType
    <3> HIDE DEF v
    <3>4. Order(v)
      BY <1>2, <3>3 DEF Order
    <3>5. Seen(v) = Seen(s)
      BY <3>3 DEF Seen
    <3>6. ServiceInv(v)
      BY <1>2, <3>3, <3>5
         DEF ServiceInv, PrimaryInv, SecondaryInv, LastSeen, Complete
    <3>7. HandleInv(v)
      <4>1. ASSUME Assured, Complete(s) PROVE Below(l) = Below(h)
        <5>1. ASSUME NEW k \in Below(h) PROVE k \in Below(l)
          <6>1. k \in Attributes /\ k < h /\ k \in Nat
            BY <1>3, <5>1 DEF Below
          <6>2. k \notin Below(l) => h <= k
            BY <2>8, <4>1, <6>1
          <6>3. QED
            BY <3>1, <6>1, <6>2
        <5>2. ASSUME NEW k \in Below(l) PROVE k \in Below(h)
          <6>1. k \in Attributes /\ k < l /\ k \in Nat
            BY <1>3, <5>2 DEF Below
          <6>2. k < h
            BY <1>3, <3>1, <6>1
          <6>3. QED
            BY <6>1, <6>2 DEF Below
        <5>3. QED
          BY <5>1, <5>2
      <4>2. Complete(v) <=> Complete(s)
        BY <3>5 DEF Complete
      <4>3. v.top <= h
        BY <1>2, <1>3, <3>1, <3>3 DEF HandleInv
      <4>4. FollowersKnown(v)
        <5> SUFFICES ASSUME NEW k \in Seen(v), k + 1 \in Attributes,
                            "info" \in v.done \/ k + 1 < v.last["info"]
                     PROVE  k + 1 \in v.handles
          BY DEF FollowersKnown
        <5>1. k \in Seen(s) /\ k + 1 < h /\ k \in Nat
          BY <1>1, <1>2, <1>3, <3>2, <3>3, <3>5 DEF ServiceInv
        <5>2. k \notin higher
          <6>1. k \in higher => h <= k
            BY <2>5
          <6>2. QED
            BY <3>1, <5>1, <6>1
        <5>3. QED
          BY <2>9, <3>3, <5>1, <5>2
      <4>5. QED
        BY <1>1, <1>2, <3>2, <3>3, <4>1, <4>2, <4>3, <4>4 DEF HandleInv
    <3>8. ReadInv(v)
      BY <1>1, <3>3 DEF ReadInv
    <3>9. Data(v)
      BY <3>4, <3>6, <3>7, <3>8 DEF Data
    <3>10. Pending(v, [op |-> "FIND_INFO", h |-> h])
      BY <1>1, <3>2, <3>3 DEF Pending, PhaseOf
    <3>11. t = Send(v, "FIND_INFO", h)
      BY <2>2, <2>11
    <3>12. QED
      BY <3>1, <3>2, <3>3, <3>9, <3>10, <3>11, SendSteady DEF RequestOp, t
  <2>12. QED
    BY <2>10, <2>11
<1>6. QED
  BY <1>1, <1>4, <1>5 DEF InfoAnswered
-----------------------------------------------------------------------------
(* Discovery of the characteristics. *)

(* What is about services only. *)
LEMMA SameServices ==
    ASSUME NEW s, NEW t, ServiceInv(s), t.found = s.found, t.final = s.final,
           "primary" \in t.sent <=> "primary" \in s.sent,
           "secondary" \in t.sent <=> "secondary" \in s.sent,
           "primary" \in t.done <=> "primary" \in s.done,
           "secondary" \in t.done <=> "secondary" \in s.done,
           t.last["primary"] = s.last["primary"], t.last["secondary"] = s.last["secondary"]
    PROVE  ServiceInv(t) /\ Seen(t) = Seen(s)
<1>1. Seen(t) = Seen(s)
  BY DEF Seen
<1>2. PrimaryInv(t) /\ SecondaryInv(t)
  BY <1>1 DEF ServiceInv, PrimaryInv, SecondaryInv, Complete, LastSeen
<1>3. QED
  BY <1>1, <1>2 DEF ServiceInv, LastSeen

LEMMA CharacteristicsAnswered ==
    ASSUME db \in Databases, NEW s, Steady(s), NEW r \in Requests, NEW a, Answered(r, a),
           Pending(s, r), r.op = "READ_TYPE"
    PROVE  LET t == incoming_characteristic_discovery(s, a)
           IN  Fine(t, t.out) /\ t.exit = NONE /\ t.sent = s.sent
               /\ t.done \subseteq s.done \cup {"char"}
<1> DEFINE t == incoming_characteristic_discovery(s, a)
           l == s.last["char"]
<1>1. /\ "char" \in s.sent /\ "char" \notin s.done /\ "info" \in s.done /\ "info" \in s.sent
      /\ "read" \notin s.sent /\ r.h = l /\ NextOf("char", "TYPE_RSP", r, a)
  <2>1. "char" \in s.sent /\ "char" \notin s.done /\ r.h = l
    BY DEF Pending, PhaseOf
  <2>2. NextOf("char", "TYPE_RSP", r, a)
    BY DEF Answered
  <2>3. QED
    BY <2>1, <2>2 DEF Steady, Data, Order
<1>2. /\ Good(s) /\ s.exit = NONE /\ s.out = <<>> /\ Data(s) /\ ServiceInv(s) /\ Order(s)
      /\ HandleInv(s)
  BY DEF Steady, Data
<1>3. CASE a.p = "NOT_FOUND"
  <2>1. a.h = l /\ a.of = "READ_TYPE"
    BY <1>1, <1>3 DEF NextOf
  <2>2. t = Done(s, "char")
    BY <1>1, <1>3, <2>1 DEF incoming_characteristic_discovery
  <2>3. /\ t.late = s.late /\ t.sent = s.sent /\ t.type = s.type /\ t.found = s.found
        /\ t.final = s.final /\ t.last = s.last /\ t.handles = s.handles /\ t.top = s.top
        /\ t.values = s.values /\ t.exit = NONE /\ t.out = <<>>
        /\ t.done = s.done \cup {"char"}
    BY <1>2, <2>2 DEF Done, Good, Getter
  <2> HIDE DEF t
  <2>4. Order(t)
    BY <1>1, <1>2, <2>3 DEF Order
  <2>5. ServiceInv(t) /\ Seen(t) = Seen(s)
    BY <1>2, <2>3, SameServices
  <2>6. HandleInv(t)
    BY <1>1, <1>2, <2>3, <2>5 DEF HandleInv, FollowersKnown, Complete
  <2>7. ReadInv(t)
    BY <1>1, <2>3 DEF ReadInv
  <2>8. QED
    BY <2>3, <2>4, <2>5, <2>6, <2>7, NoneIs DEF Fine, Data, Queue, t
<1>4. CASE a.p = "TYPE_RSP"
  <2> DEFINE f == [s EXCEPT !.handles = @ \cup {a.h, a.h + 1}, !.values[a.h] = a.h]
             v == [f EXCEPT !.last["char"] = a.h + 2]
  <2>1. t = IF a.h + 1 = LastHandle THEN Done(f, "char") ELSE Send(v, "READ_TYPE", a.h + 2)
    BY <1>1, <1>4 DEF incoming_characteristic_discovery, process_ATT_READ_BY_TYPE_RSP
  <2>2. /\ a.h \in Attributes /\ a.h + 1 \in Attributes /\ a.h < LastHandle
        /\ a.h \in Handle /\ a.h + 1 \in Handle
    BY <1>1, <1>4, DatabaseIs DEF NextOf
  <2>3. Good(f)
    <3>1. s.handles \cup {a.h, a.h + 1} \in SUBSET Handle
      BY <1>2, <2>2 DEF Good, Getter
    <3>2. [s.values EXCEPT ![a.h] = a.h] \in [Handle -> Handle \cup {NONE}]
      BY <1>2, <2>2 DEF Good, Getter
    <3>3. QED
      BY <1>2, <3>1, <3>2 DEF Good, Getter, Typed
  <2>4. /\ f.late = s.late /\ f.sent = s.sent /\ f.type = s.type /\ f.found = s.found
        /\ f.final = s.final /\ f.last = s.last /\ f.top = s.top /\ f.done = s.done
        /\ f.handles = s.handles \cup {a.h, a.h + 1} /\ f.exit = NONE /\ f.out = <<>>
    BY <1>2 DEF Good, Getter
  <2> HIDE DEF f, t
  <2>5. ~FirstIsCharacteristic(f)
    <3> DEFINE p == Min(s.found["primary"])
    <3>1. s.found["primary"] \subseteq Handle /\ s.found["primary"] # {}
      BY <1>1, <1>2 DEF HandleInv, Good, Getter, ServiceType
    <3>2. p \in Seen(s)
      BY <3>1, LeastHandle DEF Seen
    <3> HIDE DEF p
    <3>3. SUFFICES ASSUME p + 1 \in f.handles, db.kind[p + 1] = "char" PROVE FALSE
      BY <2>4 DEF FirstIsCharacteristic, p
    <3>4. p + 1 \in Attributes
      BY <1>2, <2>2, <2>4, <3>3 DEF HandleInv
    <3>5. p + 1 \in s.handles
      BY <1>1, <1>2, <3>2, <3>4 DEF HandleInv, FollowersKnown
    <3>6. QED
      BY <1>1, <1>2, <3>3, <3>5 DEF HandleInv, FirstIsCharacteristic, p
  <2>6. ASSUME NEW u, u.found = f.found, u.handles = f.handles, u.sent = f.sent,
               u.done \in {f.done, f.done \cup {"char"}}, u.top = f.top,
               u.last["info"] = f.last["info"], Seen(u) = Seen(s)
        PROVE  HandleInv(u) /\ ReadInv(u)
    <3>1. FollowersKnown(u)
      BY <1>1, <1>2, <2>4, <2>6 DEF HandleInv, FollowersKnown
    <3>2. ~FirstIsCharacteristic(u)
      BY <2>5, <2>6 DEF FirstIsCharacteristic
    <3>3. Complete(u) <=> Complete(s)
      BY <2>6 DEF Complete
    <3>4. Assured => u.handles = Attributes
      BY <1>1, <1>2, <2>2, <2>4, <2>6 DEF HandleInv
    <3>5. u.handles \subseteq Attributes
      BY <1>2, <2>2, <2>4, <2>6 DEF HandleInv
    <3>6. HandleInv(u)
      BY <1>1, <1>2, <2>4, <2>6, <3>1, <3>2, <3>3, <3>4, <3>5 DEF HandleInv
    <3>7. QED
      BY <1>1, <2>4, <2>6, <3>6 DEF ReadInv
  <2>7. CASE a.h + 1 = LastHandle
    <3>1. /\ t.late = s.late /\ t.sent = s.sent /\ t.type = s.type /\ t.found = s.found
          /\ t.final = s.final /\ t.last = s.last /\ t.handles = f.handles /\ t.top = s.top
          /\ t.exit = NONE /\ t.out = <<>> /\ t.done = s.done \cup {"char"}
      BY <2>1, <2>3, <2>4, <2>7 DEF Done, Good, Getter
    <3>2. Order(t)
      BY <1>1, <1>2, <3>1 DEF Order
    <3>3. ServiceInv(t) /\ Seen(t) = Seen(s)
      BY <1>2, <3>1, SameServices
    <3>4. HandleInv(t) /\ ReadInv(t)
      BY <2>4, <2>6, <3>1, <3>3
    <3>5. QED
      BY <3>1, <3>2, <3>3, <3>4, NoneIs DEF Fine, Data, Queue, t
  <2>8. CASE a.h + 1 # LastHandle
    <3>1. a.h + 2 \in Handle
      BY <2>2, <2>8, HandlesAreNumbers DEF Handle
    <3>2. Good(v) /\ v.last["char"] = a.h + 2
      <4>1. "char" \in Asks
        BY DEF Asks
      <4>2. QED
        BY <2>3, <3>1, <4>1, LastGood
    <3>3. /\ v.late = s.late /\ v.sent = s.sent /\ v.type = s.type /\ v.found = s.found
          /\ v.final = s.final /\ v.handles = f.handles /\ v.top = s.top
          /\ v.exit = NONE /\ v.out = <<>> /\ v.done = s.done
          /\ v.last["primary"] = s.last["primary"] /\ v.last["secondary"] = s.last["secondary"]
          /\ v.last["info"] = s.last["info"]
      BY <2>3, <2>4 DEF Good, Getter, ServiceType
    <3> HIDE DEF v
    <3>4. Order(v)
      BY <1>2, <3>3 DEF Order
    <3>5. ServiceInv(v) /\ Seen(v) = Seen(s)
      BY <1>2, <3>3, SameServices
    <3>6. HandleInv(v) /\ ReadInv(v)
      BY <2>4, <2>6, <3>3, <3>5
    <3>7. Data(v)
      BY <3>4, <3>5, <3>6 DEF Data
    <3>8. Pending(v, [op |-> "READ_TYPE", h |-> a.h + 2])
      BY <1>1, <3>2, <3>3 DEF Pending, PhaseOf
    <3>9. QED
      BY <2>1, <2>8, <3>1, <3>2, <3>3, <3>7, <3>8, SendSteady DEF RequestOp, t
  <2>9. QED
    BY <2>7, <2>8
<1>5. QED
  BY <1>1, <1>3, <1>4 DEF NextOf
-----------------------------------------------------------------------------
(* The reads. *)

(* What was read up to the handle that was asked for last. *)
ReadSoFar(s) ==
    \A h \in ToRead(s) :
        (\E k \in ToRead(s) : k < h) /\ h <= s.last["read"] => s.values[h] = h

(* What is read is known when it starts. *)
LEMMA WhileReading ==
    ASSUME NEW s, NEW t, Data(s), "char" \in s.done, t.late = s.late, t.type = s.type,
           t.found = s.found, t.final = s.final, t.handles = s.handles, t.top = s.top,
           \A k \in ServiceType \cup {"info", "char"} : t.last[k] = s.last[k],
           t.sent = s.sent \/ t.sent = s.sent \cup {"read"},
           t.done = s.done \/ t.done = s.done \cup {"read"},
           "read" \in t.done => "read" \in t.sent
    PROVE  Order(t) /\ ServiceInv(t) /\ HandleInv(t)
<1>1. /\ "info" \in s.done /\ "info" \in s.sent /\ "secondary" \in s.done /\ "primary" \in s.done
  BY DEF Data, Order
<1>2. Order(t)
  BY DEF Data, Order
<1>3. ServiceInv(t) /\ Seen(t) = Seen(s)
  BY SameServices DEF Data, ServiceType
<1>4. HandleInv(t)
  BY <1>1, <1>3 DEF Data, HandleInv, FollowersKnown, Complete
<1>5. QED
  BY <1>2, <1>3, <1>4

LEMMA ReadNext ==
    ASSUME db \in Databases, NEW s, Good(s), s.exit = NONE, s.out = <<>>, Data(s),
           "read" \in s.sent, "read" \notin s.done, ReadSoFar(s)
    PROVE  LET t == send_next_ATT_READ_REQ_if_applicable(s, s.last["read"])
           IN  /\ Fine(t, t.out) /\ t.exit = NONE /\ t.sent = s.sent
               /\ t.done \subseteq s.done \cup {"read"}
               /\ "read" \in t.done => t.out = <<>>
<1> DEFINE l == s.last["read"]
           n == get_next_handle_to_att_read(s.handles, l)
           t == send_next_ATT_READ_REQ_if_applicable(s, l)
<1>1. /\ l \in Handle /\ l \in Int /\ l \in Nat /\ s.handles \in SUBSET Handle
      /\ Handle \subseteq Nat
  <2>1. l \in Handle /\ s.handles \in SUBSET Handle
    BY DEF Good, Typed, Getter
  <2>2. QED
    BY <2>1, HandlesAreNumbers
<1>2. \/ n = -1 /\ \A k \in ToRead(s) : k <= l
      \/ /\ n \in ToRead(s) /\ n > l
         /\ \A k \in ToRead(s) : k <= l \/ n <= k
  BY <1>1, NextIs DEF ToRead
<1>3. "char" \in s.done /\ s.late = {}
  BY DEF Data, Order
<1>4. CASE s.top < l
  <2>1. t = s
    BY <1>4 DEF send_next_ATT_READ_REQ_if_applicable
  <2>2. QED
    BY <2>1, NoneIs DEF Fine, Queue
<1>5. CASE ~(s.top < l) /\ n = -1
  <2>1. t = Done(s, "read")
    BY <1>5 DEF send_next_ATT_READ_REQ_if_applicable
  <2>2. \A k \in ToRead(s) : k <= l
    BY <1>1, <1>2, <1>5
  <2> HIDE DEF t, n
  <2>3. /\ t.late = s.late /\ t.sent = s.sent /\ t.type = s.type /\ t.found = s.found
        /\ t.final = s.final /\ t.last = s.last /\ t.handles = s.handles /\ t.top = s.top
        /\ t.values = s.values /\ t.exit = NONE /\ t.out = <<>>
        /\ t.done = s.done \cup {"read"}
    BY <2>1 DEF Done, Good, Getter
  <2>4. Order(t) /\ ServiceInv(t) /\ HandleInv(t)
    BY <1>3, <2>3, WhileReading
  <2>5. ReadInv(t)
    BY <2>2, <2>3 DEF ReadInv, ReadSoFar, ToRead
  <2>6. QED
    BY <2>3, <2>4, <2>5, NoneIs DEF Fine, Data, Queue, t
<1>6. CASE ~(s.top < l) /\ n # -1
  <2> DEFINE u == [s EXCEPT !.last["read"] = n]
             v == [u EXCEPT !.sent = @ \cup {"read"}, !.late = @ \ {"read"}]
  <2>1. t = Send(v, "READ", n)
    BY <1>6 DEF send_next_ATT_READ_REQ_if_applicable, Start
  <2> HIDE DEF t, n
  <2>2. /\ n \in ToRead(s) /\ n \in Handle /\ n \in Nat /\ n > l
        /\ \A k \in ToRead(s) : k <= l \/ n <= k
    BY <1>1, <1>2, <1>6 DEF ToRead
  <2>3. Good(u) /\ u.last["read"] = n
    <3>1. "read" \in Asks
      BY DEF Asks
    <3>2. QED
      BY <2>2, <3>1, LastGood
  <2>4. /\ u.late = s.late /\ u.sent = s.sent /\ u.type = s.type /\ u.found = s.found
        /\ u.final = s.final /\ u.handles = s.handles /\ u.top = s.top /\ u.values = s.values
        /\ u.exit = NONE /\ u.out = <<>> /\ u.done = s.done
        /\ \A k \in ServiceType \cup {"info", "char"} : u.last[k] = s.last[k]
    BY DEF Good, Getter, ServiceType
  <2> HIDE DEF u
  <2>5. v = u
    <3>1. u.sent \cup {"read"} = u.sent /\ u.late \ {"read"} = u.late
      BY <1>3, <2>4
    <3>2. QED
      BY <2>3, <3>1 DEF Good, Getter
  <2> HIDE DEF v
  <2>6. Order(u) /\ ServiceInv(u) /\ HandleInv(u)
    BY <1>3, <2>4, WhileReading DEF Data, Order
  <2>7. ReadInv(u)
    <3>1. ASSUME NEW h \in ToRead(s), h < n PROVE h <= l
      <4>1. h \in Nat
        BY <1>1 DEF ToRead
      <4>2. QED
        BY <1>1, <2>2, <3>1, <4>1
    <3>2. QED
      BY <2>3, <2>4, <3>1 DEF ReadInv, ReadSoFar, ToRead
  <2>8. Data(u)
    BY <2>6, <2>7 DEF Data
  <2>9. Pending(u, [op |-> "READ", h |-> n])
    BY <2>3, <2>4 DEF Pending, PhaseOf
  <2>10. QED
    BY <2>1, <2>2, <2>3, <2>4, <2>5, <2>8, <2>9, SendSteady DEF RequestOp, t
<1>7. QED
  BY <1>4, <1>5, <1>6

LEMMA ReadAnswered ==
    ASSUME db \in Databases, NEW s, Steady(s), NEW r \in Requests, NEW a, Answered(r, a),
           Pending(s, r), r.op = "READ"
    PROVE  LET t == incoming_read_all_handles(s, a)
           IN  /\ Fine(t, t.out) /\ t.exit = NONE /\ t.sent = s.sent
               /\ t.done \subseteq s.done \cup {"read"}
               /\ "read" \in t.done => t.out = <<>>
<1> DEFINE l == s.last["read"]
           f == [s EXCEPT !.values[l] = l]
<1>1. /\ "read" \in s.sent /\ "read" \notin s.done /\ r.h = l
      /\ a.p \in {"READ_RSP", "REFUSED"} /\ a.h = l
  BY DEF Pending, PhaseOf, Answered
<1>2. Good(s) /\ Data(s) /\ s.exit = NONE /\ s.out = <<>> /\ l \in Handle
      /\ Handle \subseteq Nat /\ s.handles \subseteq Handle
  BY <1>1, HandlesAreNumbers DEF Steady, Good, Typed, Getter
<1>3. incoming_read_all_handles(s, a) = send_next_ATT_READ_REQ_if_applicable(f, l)
  BY <1>1 DEF incoming_read_all_handles, Store
<1>4. Good(f)
  <2>1. [s.values EXCEPT ![l] = l] \in [Handle -> Handle \cup {NONE}]
    BY <1>2 DEF Good, Getter
  <2>2. QED
    BY <1>2, <2>1 DEF Good, Getter, Typed
<1>5. /\ f.late = s.late /\ f.sent = s.sent /\ f.type = s.type /\ f.found = s.found
      /\ f.final = s.final /\ f.last = s.last /\ f.top = s.top /\ f.done = s.done
      /\ f.handles = s.handles /\ f.exit = NONE /\ f.out = <<>>
      /\ \A h \in Handle : f.values[h] = IF h = l THEN l ELSE s.values[h]
  BY <1>2 DEF Good, Getter
<1> HIDE DEF f
<1>6. "char" \in s.done
  BY <1>1, <1>2 DEF Data, Order
<1>7. Order(f) /\ ServiceInv(f) /\ HandleInv(f)
  BY <1>1, <1>2, <1>5, <1>6, WhileReading
<1>8. ReadSoFar(f)
  <2> SUFFICES ASSUME NEW h \in ToRead(f), \E k \in ToRead(f) : k < h, h <= f.last["read"]
               PROVE  f.values[h] = h
    BY DEF ReadSoFar
  <2>1. ToRead(f) = ToRead(s) /\ h \in Handle /\ h <= l /\ h \in Nat /\ l \in Nat
    BY <1>2, <1>5 DEF ToRead
  <2>2. CASE h = l
    BY <1>5, <2>1, <2>2
  <2>3. CASE h # l
    <3>1. h < l
      BY <2>1, <2>3
    <3>2. s.values[h] = h
      BY <1>1, <1>2, <2>1, <3>1 DEF Data, ReadInv
    <3>3. QED
      BY <1>5, <2>1, <2>3, <3>2
  <2>4. QED
    BY <2>2, <2>3
<1>9. ReadInv(f)
  <2> SUFFICES ASSUME NEW h \in ToRead(f), \E k \in ToRead(f) : k < h, h < f.last["read"]
               PROVE  f.values[h] = h
    BY <1>1, <1>5 DEF ReadInv
  <2>1. h \in Nat /\ f.last["read"] \in Nat
    BY <1>2, <1>5, HandlesAreNumbers DEF ToRead
  <2>2. h <= f.last["read"]
    BY <2>1
  <2>3. QED
    BY <1>8, <2>2 DEF ReadSoFar
<1>10. Data(f)
  BY <1>7, <1>9 DEF Data
<1>11. l = f.last["read"]
  BY <1>5
<1>12. LET t == send_next_ATT_READ_REQ_if_applicable(f, f.last["read"])
       IN  /\ Fine(t, t.out) /\ t.exit = NONE /\ t.sent = s.sent
           /\ t.done \subseteq s.done \cup {"read"}
           /\ "read" \in t.done => t.out = <<>>
  BY <1>1, <1>4, <1>5, <1>8, <1>10, ReadNext
<1>13. QED
  BY <1>3, <1>11, <1>12
LEMMA ReadingStarts ==
    ASSUME db \in Databases, NEW s, Steady(s), "char" \in s.done, "read" \notin s.sent
    PROVE  LET t == StartReading(s)
           IN  /\ Fine(t, t.out) /\ t.exit = NONE /\ t.sent = s.sent \cup {"read"}
               /\ t.done \subseteq s.done \cup {"read"}
               /\ "read" \in t.done => t.out = <<>>
<1> DEFINE h == get_next_handle_to_att_read(s.handles, 1)
           t == [s EXCEPT !.last["read"] = h, !.sent = @ \cup {"read"}]
           u == IF h = -1 THEN Done(t, "read") ELSE t
<1>1. StartReading(s) = send_next_ATT_READ_REQ_if_applicable(u, h)
  BY DEF StartReading
<1>2. /\ Good(s) /\ s.exit = NONE /\ s.out = <<>> /\ Data(s) /\ Order(s) /\ "read" \notin s.done
      /\ s.handles \subseteq Handle /\ s.handles \subseteq Attributes /\ Handle \subseteq Nat
      /\ s.top \in Nat
  BY HandlesAreNumbers DEF Steady, Data, Order, Good, Getter, HandleInv
<1>3. \A k \in ToRead(s) : k \in Nat /\ k > 1
  <2>1. 1 \notin ToRead(s)
    BY <1>2, DatabaseIs DEF ToRead
  <2>2. ASSUME NEW k \in ToRead(s) PROVE k \in Nat /\ k > 1
    <3>1. k \in Handle /\ k # 1
      BY <1>2, <2>1, <2>2 DEF ToRead
    <3>2. k \in Nat /\ 1 <= k
      BY <3>1, HandlesAreNumbers
    <3>3. QED
      BY <3>1, <3>2
  <2>3. QED
    BY <2>2
<1>4. \/ h = -1 /\ \A k \in ToRead(s) : k <= 1
      \/ /\ h \in ToRead(s) /\ h > 1
         /\ \A k \in ToRead(s) : k <= 1 \/ h <= k
  <2>1. s.handles \in SUBSET Handle /\ 1 \in Int
    BY <1>2
  <2>2. QED
    BY <2>1, NextIs DEF ToRead
<1>5. CASE h = -1
  <2> DEFINE v == Done(u, "read")
  <2>1. ToRead(s) = {}
    BY <1>3, <1>4, <1>5 DEF ToRead
  <2>2. u = Done(t, "read")
    BY <1>5
  <2> HIDE DEF h
  <2>3. /\ u.late = s.late /\ u.sent = s.sent \cup {"read"} /\ u.type = s.type
        /\ u.found = s.found /\ u.final = s.final /\ u.handles = s.handles /\ u.top = s.top
        /\ u.exit = NONE /\ u.out = <<>> /\ u.done = s.done \cup {"read"}
        /\ u.last["read"] = -1
        /\ \A k \in ServiceType \cup {"info", "char"} : u.last[k] = s.last[k]
    BY <1>2, <1>5, <2>2 DEF Done, Good, Getter, ServiceType
  <2>4. get_next_handle_to_att_read(u.handles, -1) = -1
    <3>1. u.handles \in SUBSET Handle /\ -1 \in Int /\ u.handles \ Services = {}
      BY <1>2, <2>1, <2>3 DEF ToRead
    <3> HIDE DEF u
    <3>2. QED
      BY <3>1, NextIs
  <2>5. StartReading(s) = v
    <3> HIDE DEF u
    <3>1. ~(u.top < u.last["read"])
      BY <1>2, <2>3
    <3>2. QED
      BY <1>1, <1>5, <2>4, <3>1 DEF send_next_ATT_READ_REQ_if_applicable
  <2>6. /\ v.late = u.late /\ v.sent = u.sent /\ v.type = u.type
        /\ v.found = u.found /\ v.final = u.final /\ v.handles = u.handles /\ v.top = u.top
        /\ v.exit = u.exit /\ v.out = u.out /\ v.done = u.done \cup {"read"} /\ v.last = u.last
    BY <1>2, <2>2 DEF Done, Good, Getter
  <2> HIDE DEF v, u
  <2>7. Order(v) /\ ServiceInv(v) /\ HandleInv(v)
    <3>1. v.done = s.done \cup {"read"}
      BY <2>3, <2>6
    <3>2. QED
      BY <1>2, <2>3, <2>6, <3>1, WhileReading
  <2>8. ReadInv(v)
    <3>1. ToRead(v) = {}
      BY <2>1, <2>3, <2>6 DEF ToRead
    <3>2. QED
      BY <3>1 DEF ReadInv
  <2>9. QED
    BY <2>3, <2>5, <2>6, <2>7, <2>8, NoneIs DEF Fine, Data, Queue
<1>6. CASE h # -1
  <2> DEFINE v == [s EXCEPT !.last["read"] = h]
  <2>1. u = t
    BY <1>6
  <2>2. /\ h \in Handle /\ h \in ToRead(s) /\ \A k \in ToRead(s) : h <= k
    BY <1>2, <1>3, <1>4, <1>6 DEF ToRead
  <2> HIDE DEF h
  <2>3. Good(v) /\ v.last["read"] = h
    <3>1. "read" \in Asks
      BY DEF Asks
    <3>2. QED
      BY <1>2, <2>2, <3>1, LastGood
  <2>4. t = [v EXCEPT !.sent = @ \cup {"read"}]
    BY <1>2 DEF Good, Getter
  <2>5. /\ t.late = s.late /\ t.sent = s.sent \cup {"read"} /\ t.type = s.type
        /\ t.found = s.found /\ t.final = s.final /\ t.handles = s.handles /\ t.top = s.top
        /\ t.exit = NONE /\ t.out = <<>> /\ t.done = s.done /\ t.last["read"] = h
        /\ \A k \in ServiceType \cup {"info", "char"} : t.last[k] = s.last[k]
    BY <1>2, <2>3 DEF Good, Getter, ServiceType
  <2> HIDE DEF u, t, v
  <2>6. Good(t)
    <3>1. [v EXCEPT !.sent = @ \cup {"read"}] \in Getter
      BY <2>3 DEF Good, Getter
    <3>2. Typed([v EXCEPT !.sent = @ \cup {"read"}])
      BY <2>2, <2>3 DEF Good, Getter, Typed
    <3>3. QED
      BY <2>4, <3>1, <3>2 DEF Good
  <2>7. Order(t) /\ ServiceInv(t) /\ HandleInv(t)
    BY <1>2, <2>5, WhileReading
  <2>8. ToRead(t) = ToRead(s) /\ ToRead(s) \subseteq Nat /\ h \in Nat
    BY <1>3, <2>2, <2>5 DEF ToRead
  <2>9. \A j \in ToRead(t), k \in ToRead(t) : ~(k < j /\ j <= h)
    BY <2>2, <2>8
  <2>10. ReadSoFar(t)
    BY <2>5, <2>9 DEF ReadSoFar
  <2>11. ReadInv(t)
    <3>1. \A j \in ToRead(t) : j < h => j <= h
      BY <2>8
    <3>2. "read" \notin t.done
      BY <1>2, <2>5
    <3>3. QED
      BY <2>5, <2>9, <3>1, <3>2 DEF ReadInv
  <2>12. Data(t)
    BY <2>7, <2>11 DEF Data
  <2>13. LET w == send_next_ATT_READ_REQ_if_applicable(t, t.last["read"])
         IN  /\ Fine(w, w.out) /\ w.exit = NONE /\ w.sent = t.sent
             /\ w.done \subseteq t.done \cup {"read"}
             /\ "read" \in w.done => w.out = <<>>
    BY <1>2, <2>5, <2>6, <2>10, <2>12, ReadNext
  <2>14. StartReading(s) = send_next_ATT_READ_REQ_if_applicable(t, t.last["read"])
    BY <1>1, <2>1, <2>5
  <2>15. QED
    BY <2>5, <2>13, <2>14
<1>7. QED
  BY <1>5, <1>6

-----------------------------------------------------------------------------
(* The pairing request. *)

LEMMA StartSteady ==
    ASSUME NEW s, Good(s), s.out = <<>>, s.exit = NONE, NEW x \in Sent, x # "read",
           NEW op \in RequestOp, NEW h \in Handle,
           Data([s EXCEPT !.sent = @ \cup {x}]),
           Pending([s EXCEPT !.sent = @ \cup {x}], [op |-> op, h |-> h])
    PROVE  LET t == Start(s, x, op, h)
           IN  Fine(t, t.out) /\ t.sent = s.sent \cup {x} /\ t.done = s.done /\ t.exit = NONE
<1> DEFINE u == [s EXCEPT !.sent = @ \cup {x}]
           v == [s EXCEPT !.sent = @ \cup {x}, !.late = @ \ {x}]
<1>1. Good(u)
  BY DEF Good, Getter, Typed, Sent
<1>2. u.late = {} /\ u.late = s.late /\ u.out = <<>> /\ u.exit = NONE /\ u.sent = s.sent \cup {x}
      /\ u.done = s.done
  <2>1. u.late = s.late /\ u.out = <<>> /\ u.exit = NONE /\ u.sent = s.sent \cup {x}
        /\ u.done = s.done
    BY DEF Good, Getter
  <2>2. QED
    BY <2>1 DEF Data, Order
<1>3. v = u
  <2>1. s.late \ {x} = s.late
    BY <1>2
  <2>2. QED
    BY <2>1 DEF Good, Getter
<1>4. Start(s, x, op, h) = Send(v, op, h)
  BY DEF Start
<1>5. Data(u) /\ Pending(u, [op |-> op, h |-> h])
  OBVIOUS
<1> HIDE DEF u, v
<1>6. Start(s, x, op, h) = Send(u, op, h)
  BY <1>3, <1>4
<1>7. /\ Fine(Send(u, op, h), Send(u, op, h).out)
      /\ Send(u, op, h).sent = u.sent /\ Send(u, op, h).done = u.done
      /\ Send(u, op, h).exit = NONE
  BY <1>1, <1>2, <1>5, SendSteady
<1>8. QED
  BY <1>2, <1>6, <1>7

LEMMA PairingSettles ==
    ASSUME db \in Databases, NEW s, Steady(s), NEW a
    PROVE  LET t == handle_SMP_Pairing(s, a)
           IN  /\ Fine(t, t.out) /\ t.exit = NONE
               /\ "read" \notin s.done => t = s
               /\ ("smp" \in s.sent /\ a.p = "EMPTY") => t = s
<1> DEFINE t == handle_SMP_Pairing(s, a)
<1>1. /\ Good(s) /\ s.exit = NONE /\ s.out = <<>> /\ Data(s) /\ Order(s) /\ s.late = {}
  BY DEF Steady, Data, Order
<1>2. Fine(s, s.out)
  BY <1>1, NoneIs DEF Fine, Queue
<1>3. CASE "read" \notin s.done \/ "smp" \in s.done
  BY <1>1, <1>2, <1>3 DEF handle_SMP_Pairing
<1>4. CASE "read" \in s.done /\ "smp" \notin s.done /\ "smp" \notin s.sent
  <2> DEFINE u == [s EXCEPT !.sent = @ \cup {"smp"}]
             v == Start(s, "smp", "PAIR", 1)
  <2>1. t = [v EXCEPT !.tries["smp"] = @ + 1]
    BY <1>4 DEF handle_SMP_Pairing, RequestPairing
  <2>2. /\ u.late = s.late /\ u.type = s.type /\ u.found = s.found /\ u.final = s.final
        /\ u.last = s.last /\ u.handles = s.handles /\ u.top = s.top /\ u.values = s.values
        /\ u.done = s.done /\ u.sent = s.sent \cup {"smp"}
    BY <1>1 DEF Good, Getter
  <2> HIDE DEF u
  <2>3. Data(u)
    <3>1. Order(u)
      BY <1>1, <1>4, <2>2 DEF Order
    <3>2. ServiceInv(u) /\ Seen(u) = Seen(s)
      BY <1>1, <2>2, SameServices DEF Data
    <3>3. HandleInv(u)
      BY <1>1, <2>2, <3>2 DEF Data, HandleInv, FollowersKnown, Complete, FirstIsCharacteristic
    <3>4. ReadInv(u)
      BY <1>1, <2>2 DEF Data, ReadInv, ToRead
    <3>5. QED
      BY <3>1, <3>2, <3>3, <3>4 DEF Data
  <2>4. Pending(u, [op |-> "PAIR", h |-> 1])
    BY <1>4, <2>2 DEF Pending, PhaseOf
  <2>5. "smp" \in Sent /\ "PAIR" \in RequestOp /\ 1 \in Handle
    BY HandlesAreNumbers DEF Sent, RequestOp
  <2>6. Fine(v, v.out) /\ v.sent = s.sent \cup {"smp"} /\ v.done = s.done /\ v.exit = NONE
    <3> HIDE DEF v
    <3>1. QED
      BY <1>1, <2>3, <2>4, <2>5, StartSteady DEF u, v
  <2>7. Good(v)
    BY <1>1, <2>5, StartGood, HandlesAreNumbers
  <2> HIDE DEF v, t
  <2>8. /\ t.late = v.late /\ t.type = v.type /\ t.found = v.found /\ t.final = v.final
        /\ t.last = v.last /\ t.handles = v.handles /\ t.top = v.top /\ t.values = v.values
        /\ t.done = v.done /\ t.sent = v.sent /\ t.out = v.out /\ t.exit = v.exit
    BY <2>1, <2>7 DEF Good, Getter
  <2>9. Fine(t, t.out)
    <3>1. Data(v) /\ Queue(v, v.out)
      BY <2>6, NoneIs DEF Fine
    <3>2. Data(t)
      BY <2>8, <3>1, SameData
    <3>3. Queue(t, t.out)
      BY <2>8, <3>1 DEF Queue, Pending
    <3>4. QED
      BY <2>6, <2>8, <3>2, <3>3, NoneIs DEF Fine
  <2>10. QED
    BY <1>4, <2>6, <2>8, <2>9 DEF t
<1>5. CASE "read" \in s.done /\ "smp" \notin s.done /\ "smp" \in s.sent
  <2>1. t = PairingAnswered(s, a)
    BY <1>1, <1>5 DEF handle_SMP_Pairing, RequestPairing
  <2>2. CASE a.p \in {"PAIR_RSP", "PAIR_NOT_SUPPORTED"} \/ (a.p = "PAIR_FAILED" /\ "sc" \in s.sent)
    <3>1. t = Done(s, "smp")
      BY <2>1, <2>2 DEF PairingAnswered
    <3> HIDE DEF t
    <3>2. /\ t.late = s.late /\ t.type = s.type /\ t.found = s.found /\ t.final = s.final
          /\ t.last = s.last /\ t.handles = s.handles /\ t.top = s.top /\ t.values = s.values
          /\ t.done = s.done \cup {"smp"} /\ t.sent = s.sent /\ t.out = <<>> /\ t.exit = NONE
      BY <1>1, <3>1 DEF Done, Good, Getter
    <3>3. Order(t)
      BY <1>1, <1>5, <3>2 DEF Order
    <3>4. ServiceInv(t) /\ Seen(t) = Seen(s)
      BY <1>1, <3>2, SameServices DEF Data
    <3>5. HandleInv(t)
      BY <1>1, <3>2, <3>4 DEF Data, HandleInv, FollowersKnown, Complete, FirstIsCharacteristic
    <3>6. ReadInv(t)
      BY <1>1, <3>2 DEF Data, ReadInv, ToRead
    <3>7. Fine(t, t.out)
      BY <3>2, <3>3, <3>4, <3>5, <3>6, NoneIs DEF Fine, Data, Queue
    <3>8. QED
      BY <1>5, <2>2, <3>2, <3>7 DEF t
  <2>3. CASE a.p = "PAIR_FAILED" /\ "sc" \notin s.sent
    <3> DEFINE u == [s EXCEPT !.sent = @ \cup {"sc"}]
               v == Start(s, "sc", "PAIR_SC", 1)
    <3>1. t = v
      BY <2>1, <2>3 DEF PairingAnswered
    <3>2. /\ u.late = s.late /\ u.type = s.type /\ u.found = s.found /\ u.final = s.final
          /\ u.last = s.last /\ u.handles = s.handles /\ u.top = s.top /\ u.values = s.values
          /\ u.done = s.done /\ u.sent = s.sent \cup {"sc"}
      BY <1>1 DEF Good, Getter
    <3> HIDE DEF u
    <3>3. Data(u)
      <4>1. Order(u)
        BY <1>1, <3>2 DEF Order
      <4>2. ServiceInv(u) /\ Seen(u) = Seen(s)
        BY <1>1, <3>2, SameServices DEF Data
      <4>3. HandleInv(u)
        BY <1>1, <3>2, <4>2 DEF Data, HandleInv, FollowersKnown, Complete, FirstIsCharacteristic
      <4>4. ReadInv(u)
        BY <1>1, <3>2 DEF Data, ReadInv, ToRead
      <4>5. QED
        BY <4>1, <4>2, <4>3, <4>4 DEF Data
    <3>4. Pending(u, [op |-> "PAIR_SC", h |-> 1])
      BY <1>5, <3>2 DEF Pending, PhaseOf
    <3>5. "sc" \in Sent /\ "PAIR_SC" \in RequestOp /\ 1 \in Handle
      BY HandlesAreNumbers DEF Sent, RequestOp
    <3>6. Fine(v, v.out) /\ v.exit = NONE
      <4> HIDE DEF v
      <4>1. QED
        BY <1>1, <3>3, <3>4, <3>5, StartSteady DEF u, v
    <3> HIDE DEF v, t
    <3>7. QED
      BY <1>5, <2>3, <3>1, <3>6 DEF t
  <2>4. CASE a.p \notin {"PAIR_RSP", "PAIR_NOT_SUPPORTED", "PAIR_FAILED"}
    <3>1. t = s
      BY <2>1, <2>4 DEF PairingAnswered
    <3>2. QED
      BY <1>1, <1>2, <3>1
  <2>5. QED
    BY <2>2, <2>3, <2>4
<1>6. QED
  BY <1>3, <1>4, <1>5
-----------------------------------------------------------------------------
(* One packet, handled as a whole. *)

LEMMA ExitFine ==
    ASSUME NEW t, Good(t), Fine(t, t.out), t.exit \in {NONE, "exception"}
    PROVE  LET u == print_and_exit(t) IN Fine(u, u.out)
<1> DEFINE u == [t EXCEPT !.exit = "done"]
<1>1. CASE t.exit = NONE /\ "smp" \in t.done
  <2>1. print_and_exit(t) = u
    BY <1>1 DEF print_and_exit
  <2>2. /\ u.late = t.late /\ u.type = t.type /\ u.found = t.found /\ u.final = t.final
        /\ u.last = t.last /\ u.handles = t.handles /\ u.top = t.top /\ u.values = t.values
        /\ u.done = t.done /\ u.sent = t.sent /\ u.out = t.out /\ u.exit = "done"
    BY DEF Good, Getter
  <2> HIDE DEF u
  <2>3. Data(t) /\ Queue(t, t.out)
    BY <1>1, NoneIs DEF Fine
  <2>4. Data(u)
    BY <2>2, <2>3, SameData
  <2>5. Queue(u, u.out)
    BY <2>2, <2>3 DEF Queue, Pending
  <2>6. QED
    BY <1>1, <2>1, <2>2, <2>4, <2>5 DEF Fine
<1>2. CASE ~(t.exit = NONE /\ "smp" \in t.done)
  BY <1>2 DEF print_and_exit
<1>3. QED
  BY <1>1, <1>2

(* Out of its phase a handler does nothing. *)
LEMMA IdleAnswered ==
    ASSUME NEW s, NEW a
    PROVE  /\ ServiceType \subseteq s.done => incoming_service_discovery(s, a) = s
           /\ "info" \notin s.sent \/ "info" \in s.done => incoming_handle_discovery(s, a) = s
           /\ "char" \notin s.sent \/ "char" \in s.done => incoming_characteristic_discovery(s, a) = s
           /\ "read" \notin s.sent \/ "read" \in s.done => incoming_read_all_handles(s, a) = s
           /\ "read" \notin s.done \/ "smp" \in s.done => handle_SMP_Pairing(s, a) = s
  BY DEF incoming_service_discovery, incoming_handle_discovery, incoming_characteristic_discovery,
         incoming_read_all_handles, handle_SMP_Pairing

LEMMA AnswersFine ==
    ASSUME db \in Databases, NEW s, Steady(s), NEW r \in Requests, NEW a, Answered(r, a),
           Pending(s, r)
    PROVE  LET t == Answering(s, a) IN Fine(t, t.out)
<1> DEFINE s1 == incoming_service_discovery(s, a)
           s2 == incoming_handle_discovery(s1, a)
           s3 == incoming_characteristic_discovery(s2, a)
           s4 == incoming_read_all_handles(s3, a)
           s5 == handle_SMP_Pairing(s4, a)
<1>1. Good(s) /\ s.exit = NONE /\ Data(s) /\ Order(s) /\ Fits(a) /\ r.op \in RequestOp
  BY AnswerFits DEF Steady, Data, Requests
<1>2. Answering(s, a) = print_and_exit(s5)
  BY DEF Answering
<1>3. CASE r.op \in {"GROUP_primary", "GROUP_secondary"}
  <2>1. Fine(s1, s1.out) /\ s1.exit \in {NONE, "exception"} /\ s1.sent = s.sent
        /\ s1.done \subseteq s.done \cup ServiceType
    <3>1. CASE r.op = "GROUP_primary"
      BY <3>1, PrimaryAnswered DEF ServiceType
    <3>2. CASE r.op = "GROUP_secondary"
      BY <3>2, SecondaryAnswered DEF ServiceType
    <3>3. QED
      BY <1>3, <3>1, <3>2
  <2>2. Good(s1)
    BY <1>1, ServicesGood
  <2>3. "info" \notin s.sent /\ "char" \notin s.sent /\ "read" \notin s.sent /\ "read" \notin s.done
    BY <1>1, <1>3 DEF Pending, PhaseOf, Order
  <2>4. "read" \notin s1.done
    BY <2>1, <2>3 DEF ServiceType
  <2> HIDE DEF s1
  <2>5. s2 = s1
    BY <2>1, <2>3, IdleAnswered
  <2> HIDE DEF s2
  <2>6. s3 = s1
    BY <2>1, <2>3, <2>5, IdleAnswered
  <2> HIDE DEF s3
  <2>7. s4 = s1
    BY <2>1, <2>3, <2>6, IdleAnswered
  <2> HIDE DEF s4
  <2>8. s5 = s1
    BY <2>4, <2>7, IdleAnswered
  <2> HIDE DEF s5
  <2>9. QED
    BY <1>2, <2>1, <2>2, <2>8, ExitFine
<1>4. CASE r.op = "FIND_INFO"
  <2>1. s1 = s
    <3>1. ServiceType \subseteq s.done
      BY <1>1, <1>4 DEF Pending, PhaseOf, Order, ServiceType
    <3>2. QED
      BY <3>1, IdleAnswered
  <2> HIDE DEF s1
  <2>2. Fine(s2, s2.out) /\ s2.exit \in {NONE, "exception"} /\ s2.sent = s.sent
        /\ s2.done \subseteq s.done \cup {"info"} /\ Good(s2)
    BY <1>1, <1>4, <2>1, HandlesAnswered, HandlesGood
  <2>3. "char" \notin s.sent /\ "read" \notin s.sent /\ "read" \notin s.done
    BY <1>1, <1>4 DEF Pending, PhaseOf, Order
  <2> HIDE DEF s2
  <2>4. s3 = s2
    BY <2>2, <2>3, IdleAnswered
  <2> HIDE DEF s3
  <2>5. s4 = s2
    BY <2>2, <2>3, <2>4, IdleAnswered
  <2> HIDE DEF s4
  <2>6. s5 = s2
    <3>1. "read" \notin s2.done
      BY <2>2, <2>3
    <3>2. QED
      BY <2>5, <3>1, IdleAnswered
  <2> HIDE DEF s5
  <2>7. QED
    BY <1>2, <2>2, <2>6, ExitFine
<1>5. CASE r.op \in {"READ_TYPE", "READ", "PAIR", "PAIR_SC"}
  <2>0. ServiceType \subseteq s.done /\ "info" \in s.done
    BY <1>1, <1>5 DEF Pending, PhaseOf, Order, ServiceType
  <2>1. s1 = s
    BY <2>0, IdleAnswered
  <2> HIDE DEF s1
  <2>2. s2 = s
    BY <2>0, <2>1, IdleAnswered
  <2> HIDE DEF s2
  <2>3. CASE r.op = "READ_TYPE"
    <3>1. Fine(s3, s3.out) /\ s3.exit = NONE /\ s3.sent = s.sent
          /\ s3.done \subseteq s.done \cup {"char"} /\ Good(s3)
      BY <1>1, <2>2, <2>3, CharacteristicsAnswered, CharacteristicsGood
    <3>2. "read" \notin s.sent /\ "read" \notin s.done
      BY <1>1, <2>3 DEF Pending, PhaseOf, Order
    <3> HIDE DEF s3
    <3>3. s4 = s3
      BY <3>1, <3>2, IdleAnswered
    <3> HIDE DEF s4
    <3>4. s5 = s3
      <4>1. "read" \notin s3.done
        BY <3>1, <3>2
      <4>2. QED
        BY <3>3, <4>1, IdleAnswered
    <3> HIDE DEF s5
    <3>5. QED
      BY <1>2, <3>1, <3>4, ExitFine
  <2>4. CASE r.op = "READ"
    <3>1. s3 = s
      BY <1>1, <2>2, <2>4, IdleAnswered DEF Pending, PhaseOf, Order
    <3> HIDE DEF s3
    <3>2. /\ Fine(s4, s4.out) /\ s4.exit = NONE /\ s4.sent = s.sent
          /\ "read" \in s4.done => s4.out = <<>>
          /\ Good(s4)
      BY <1>1, <2>4, <3>1, ReadAnswered, ReadsGood
    <3> HIDE DEF s4
    <3>3. Good(s5)
      BY <3>2, PairingGood
    <3>4. CASE "read" \notin s4.done
      <4>1. s5 = s4
        BY <3>4, IdleAnswered
      <4> HIDE DEF s5
      <4>2. QED
        BY <1>2, <3>2, <4>1, ExitFine
    <3>5. CASE "read" \in s4.done
      <4>1. Steady(s4)
        BY <3>2, <3>5, NoneIs DEF Steady, Fine
      <4>2. Fine(s5, s5.out) /\ s5.exit = NONE
        BY <4>1, PairingSettles
      <4> HIDE DEF s5
      <4>3. QED
        BY <1>2, <3>3, <4>2, ExitFine
    <3>6. QED
      BY <3>4, <3>5
  <2>5. CASE r.op \in {"PAIR", "PAIR_SC"}
    <3>1. s3 = s
      BY <1>1, <2>2, <2>5, IdleAnswered DEF Pending, PhaseOf, Order
    <3> HIDE DEF s3
    <3>2. s4 = s
      BY <1>1, <2>5, <3>1, IdleAnswered DEF Pending, PhaseOf, Order
    <3> HIDE DEF s4
    <3>3. Fine(s5, s5.out) /\ s5.exit = NONE /\ Good(s5)
      BY <1>1, <3>2, PairingSettles, PairingGood
    <3> HIDE DEF s5
    <3>4. QED
      BY <1>2, <3>3, ExitFine
  <2>6. QED
    BY <1>5, <2>3, <2>4, <2>5
<1>6. QED
  BY <1>1, <1>3, <1>4, <1>5 DEF RequestOp
(* A request that starts its phase. *)
LEMMA PhaseStarts ==
    ASSUME NEW s, Steady(s), NEW u, u = [s EXCEPT !.type = u.type],
           NEW x \in {"primary", "secondary", "info", "char"}, x \notin s.sent,
           u.type = (IF x = "primary" THEN "primary" ELSE "secondary"),
           x # "primary" => "primary" \in s.done,
           x \in {"info", "char"} => "secondary" \in s.done,
           x = "char" => "info" \in s.done /\ "char" \notin s.done
                         /\ s.found["primary"] # {} /\ ~FirstIsCharacteristic(s),
           NEW op \in RequestOp, PhaseOf(op) = x
    PROVE  LET t == Start(u, x, op, s.last[x])
           IN  Fine(t, t.out) /\ t.sent = s.sent \cup {x} /\ t.done = s.done /\ t.exit = NONE
<1> DEFINE v == [u EXCEPT !.sent = @ \cup {x}]
<1>1. /\ Good(s) /\ s.exit = NONE /\ s.out = <<>> /\ Data(s) /\ Order(s) /\ ServiceInv(s)
      /\ HandleInv(s) /\ ReadInv(s)
  BY DEF Steady, Data
<1>2. x \in Sent /\ x # "read" /\ x \in Asks /\ s.last[x] \in Handle
      /\ x \notin s.done
  BY <1>1 DEF Sent, Asks, ServiceType, Good, Typed, Order
<1>3. /\ u.late = s.late /\ u.found = s.found /\ u.final = s.final /\ u.sent = s.sent
      /\ u.last = s.last /\ u.handles = s.handles /\ u.top = s.top /\ u.values = s.values
      /\ u.done = s.done /\ u.exit = NONE /\ u.out = <<>>
  BY <1>1 DEF Good, Getter
<1>4. Good(u)
  <2>1. u.type \in ServiceType
    BY DEF ServiceType
  <2>2. [s EXCEPT !.type = u.type] \in Getter
    BY <1>1, <2>1 DEF Good, Getter
  <2>3. QED
    BY <1>1, <1>3, <2>2 DEF Good, Typed
<1>5. /\ v.late = s.late /\ v.found = s.found /\ v.final = s.final /\ v.sent = s.sent \cup {x}
      /\ v.last = s.last /\ v.handles = s.handles /\ v.top = s.top /\ v.values = s.values
      /\ v.done = s.done /\ v.exit = NONE /\ v.out = <<>> /\ v.type = u.type
  BY <1>3, <1>4 DEF Good, Getter
<1> HIDE DEF v
<1>6. Order(v)
  BY <1>1, <1>2, <1>5 DEF Order
<1>7. Seen(v) = Seen(s)
  BY <1>5 DEF Seen
<1>8. ServiceInv(v)
  BY <1>1, <1>5, <1>7 DEF ServiceInv, PrimaryInv, SecondaryInv, LastSeen, Complete
<1>9. HandleInv(v)
  <2>1. Complete(v) <=> Complete(s)
    BY <1>7 DEF Complete
  <2>2. FirstIsCharacteristic(v) <=> FirstIsCharacteristic(s)
    BY <1>5 DEF FirstIsCharacteristic
  <2>3. v.handles \subseteq Attributes /\ v.top < LastHandle /\ v.top <= v.last["info"]
    BY <1>1, <1>5 DEF HandleInv
  <2>4. CASE x = "info"
    <3>0. Attributes \subseteq Handle
      BY DEF Attributes, OfKind
    <3>1. Below(1) = {}
      BY <3>0, HandlesAreNumbers DEF Below
    <3>2. s.handles = {} /\ s.last["info"] = 1 /\ "info" \notin s.done /\ "char" \notin s.sent
      BY <1>1, <2>4 DEF HandleInv, Order
    <3>3. FollowersKnown(v)
      <4>1. Seen(v) \subseteq Handle
        BY <1>1, <1>7 DEF ServiceInv, Services
      <4>2. \A k \in Seen(v) : ~(k + 1 < 1)
        BY <4>1, HandlesAreNumbers
      <4>3. QED
        BY <1>5, <3>2, <4>2 DEF FollowersKnown
    <3>4. QED
      BY <1>5, <2>3, <2>4, <3>1, <3>2, <3>3 DEF HandleInv
  <2>5. CASE x = "char"
    <3>1. FollowersKnown(v) <=> FollowersKnown(s)
      BY <1>5, <1>7 DEF FollowersKnown
    <3>2. QED
      BY <1>1, <1>5, <2>1, <2>2, <2>3, <2>5, <3>1 DEF HandleInv
  <2>6. CASE x \in {"primary", "secondary"}
    <3>1. "info" \notin s.sent /\ "info" \notin s.done /\ "char" \notin s.sent
      BY <1>1, <1>2, <2>6 DEF Order
    <3>2. QED
      BY <1>1, <1>5, <2>3, <2>6, <3>1 DEF HandleInv
  <2>7. QED
    BY <2>4, <2>5, <2>6
<1>10. ReadInv(v)
  BY <1>1, <1>2, <1>5 DEF ReadInv, ToRead
<1>11. Data(v)
  BY <1>6, <1>8, <1>9, <1>10 DEF Data
<1>12. Pending(v, [op |-> op, h |-> s.last[x]])
  BY <1>2, <1>5 DEF Pending
<1>13. QED
  BY <1>2, <1>3, <1>4, <1>11, <1>12, StartSteady DEF v

AllAnswered(s) == \A p \in Ended : p \in s.sent => p \in s.done

LEMMA SendsFine ==
    ASSUME db \in Databases, NEW s, Steady(s)
    PROVE  LET t == Sends(s) IN Fine(t, t.out) /\ (AllAnswered(s) \/ t = s)
<1> DEFINE p1 == RequestPrimary(s)
           s1 == outgoing_service_discovery(s)
           s2 == outgoing_handle_discovery(s1)
           c == outgoing_characteristic_discovery(s2)
           s3 == FindAndRead(s2)
           s4 == handle_SMP_Pairing(s3, Nothing)
<1>1. /\ Good(s) /\ s.exit = NONE /\ s.out = <<>> /\ Data(s) /\ Order(s) /\ s.late = {}
      /\ Fine(s, s.out) /\ HandleInv(s) /\ ServiceInv(s)
  BY NoneIs DEF Steady, Data, Order, Fine, Queue
<1>2. Sends(s) = print_and_exit(s4)
  BY DEF Sends
<1>3. s1 = RequestSecondary(p1)
  BY DEF outgoing_service_discovery
<1>4. ASSUME NEW t, s1 = t, "secondary" \notin t.done, "info" \notin t.done, "char" \notin t.done,
             "read" \notin t.done
      PROVE  s4 = t
  <2> HIDE DEF s1
  <2>1. s2 = t
    BY <1>4 DEF outgoing_handle_discovery
  <2>2. c = t
    BY <1>4, <2>1 DEF outgoing_characteristic_discovery
  <2>3. s3 = t
    <3>1. outgoing_read_all_handles(t) = t
      BY <1>4 DEF outgoing_read_all_handles
    <3>2. QED
      BY <2>1, <2>2, <3>1 DEF FindAndRead
  <2>4. QED
    BY <1>4, <2>3 DEF handle_SMP_Pairing
<1>5. CASE "primary" \notin s.sent
  <2> DEFINE u == [s EXCEPT !.type = "primary"]
             t == Start(u, "primary", "GROUP_primary", 1)
  <2>1. p1 = t
    BY <1>5 DEF RequestPrimary
  <2>2. /\ "primary" \notin s.done /\ "secondary" \notin s.done /\ "info" \notin s.done
        /\ "char" \notin s.done /\ "read" \notin s.done /\ "secondary" \notin s.sent
        /\ "info" \notin s.sent /\ "char" \notin s.sent /\ "read" \notin s.sent
        /\ "smp" \notin s.sent /\ "smp" \notin s.done
    BY <1>1, <1>5 DEF Order
  <2>3. u.type = "primary"
    BY <1>1 DEF Good, Getter
  <2>4. s.last["primary"] = 1
    BY <1>1, <1>5 DEF ServiceInv, PrimaryInv
  <2>5. "GROUP_primary" \in RequestOp /\ PhaseOf("GROUP_primary") = "primary"
    BY DEF RequestOp, PhaseOf
  <2>6. Fine(t, t.out) /\ t.done = s.done /\ t.exit = NONE
    <3>1. u = [s EXCEPT !.type = u.type]
      BY <2>3
    <3> HIDE DEF u
    <3>2. QED
      BY <1>5, <2>3, <2>4, <2>5, <3>1, PhaseStarts
  <2>7. Good(t)
    <3>1. Good(u)
      BY <1>1 DEF Good, Getter, Typed, ServiceType
    <3>2. QED
      BY <3>1, StartGood DEF Sent, RequestOp
  <2> HIDE DEF t
  <2>8. s1 = t
    BY <1>3, <2>1, <2>2, <2>6 DEF RequestSecondary
  <2>9. s4 = t
    BY <1>4, <2>2, <2>6, <2>8
  <2>10. AllAnswered(s)
    BY <1>5, <2>2 DEF AllAnswered, Ended
  <2>11. QED
    BY <1>2, <2>6, <2>7, <2>9, <2>10, ExitFine
<1>6. CASE "primary" \in s.sent /\ "primary" \notin s.done
  <2>1. "secondary" \notin s.done /\ "info" \notin s.done
        /\ "char" \notin s.done /\ "read" \notin s.done /\ "smp" \notin s.done
    BY <1>1, <1>6 DEF Order
  <2>2. p1 = s
    BY <1>1, <1>6 DEF RequestPrimary
  <2>3. s1 = s
    BY <1>3, <1>6, <2>2 DEF RequestSecondary
  <2>4. s4 = s
    BY <1>4, <2>1, <2>3
  <2>5. print_and_exit(s) = s
    BY <2>1 DEF print_and_exit
  <2>6. QED
    BY <1>1, <1>2, <2>4, <2>5
<1>7. CASE "primary" \in s.done /\ "secondary" \notin s.sent
  <2> DEFINE u == [s EXCEPT !.type = "secondary"]
             t == Start(u, "secondary", "GROUP_secondary", 1)
  <2>1. p1 = s
    BY <1>1, <1>7 DEF RequestPrimary, Order
  <2>2. /\ "secondary" \notin s.done /\ "info" \notin s.done
        /\ "char" \notin s.done /\ "read" \notin s.done
        /\ "info" \notin s.sent /\ "char" \notin s.sent /\ "read" \notin s.sent
        /\ "smp" \notin s.sent /\ "smp" \notin s.done
    BY <1>1, <1>7 DEF Order
  <2>3. u.type = "secondary"
    BY <1>1 DEF Good, Getter
  <2>4. s.last["secondary"] = 1
    BY <1>1, <1>7 DEF ServiceInv, SecondaryInv
  <2>5. "GROUP_secondary" \in RequestOp /\ PhaseOf("GROUP_secondary") = "secondary"
    BY DEF RequestOp, PhaseOf
  <2>6. Fine(t, t.out) /\ t.done = s.done /\ t.exit = NONE
    <3>1. u = [s EXCEPT !.type = u.type]
      BY <2>3
    <3> HIDE DEF u
    <3>2. QED
      BY <1>7, <2>3, <2>4, <2>5, <3>1, PhaseStarts
  <2>7. Good(t)
    <3>1. Good(u)
      BY <1>1 DEF Good, Getter, Typed, ServiceType
    <3>2. QED
      BY <3>1, StartGood DEF Sent, RequestOp
  <2>8. s1 = t
    BY <1>3, <1>7, <2>1 DEF RequestSecondary
  <2> HIDE DEF t
  <2>9. s4 = t
    BY <1>4, <2>2, <2>6, <2>8
  <2>10. AllAnswered(s)
    BY <1>7, <2>2 DEF AllAnswered, Ended
  <2>11. QED
    BY <1>2, <2>6, <2>7, <2>9, <2>10, ExitFine
<1>8. CASE "secondary" \in s.sent
  <2>1. s1 = s
    <3>1. p1 = s
      BY <1>1, <1>8 DEF RequestPrimary, Order
    <3>2. QED
      BY <1>1, <1>3, <1>8, <3>1 DEF RequestSecondary, Order
  <2>2. "primary" \in s.sent /\ "primary" \in s.done
    BY <1>1, <1>8 DEF Order
  <2>3. CASE "secondary" \notin s.done
    <3>1. "info" \notin s.done /\ "char" \notin s.done /\ "read" \notin s.done
          /\ "smp" \notin s.done
      BY <1>1, <2>3 DEF Order
    <3>2. s4 = s
      BY <1>4, <2>1, <2>3, <3>1
    <3>3. print_and_exit(s) = s
      BY <3>1 DEF print_and_exit
    <3>4. QED
      BY <1>1, <1>2, <3>2, <3>3
  <2>4. CASE "secondary" \in s.done /\ "info" \notin s.sent
    <3> DEFINE t == Start(s, "info", "FIND_INFO", 1)
    <3>0. /\ "info" \notin s.done /\ "char" \notin s.done /\ "read" \notin s.done
          /\ "char" \notin s.sent /\ "read" \notin s.sent /\ "smp" \notin s.sent
          /\ "smp" \notin s.done
      BY <1>1, <2>4 DEF Order
    <3>1. s2 = t
      BY <2>1, <2>4, <3>0 DEF outgoing_handle_discovery
    <3>2. Fine(t, t.out) /\ t.done = s.done /\ t.exit = NONE
      <4>1. s = [s EXCEPT !.type = s.type] /\ s.type = "secondary" /\ s.last["info"] = 1
        BY <1>1, <1>8, <2>4 DEF Good, Getter, Order, HandleInv
      <4>2. "FIND_INFO" \in RequestOp /\ PhaseOf("FIND_INFO") = "info"
        BY DEF RequestOp, PhaseOf
      <4>3. QED
        BY <2>2, <2>4, <4>1, <4>2, PhaseStarts
    <3>3. Good(t)
      BY <1>1, StartGood DEF Sent, RequestOp
    <3> HIDE DEF t
    <3>4. s4 = t
      <4> HIDE DEF s2
      <4>1. c = t
        BY <3>0, <3>1, <3>2 DEF outgoing_characteristic_discovery
      <4>2. outgoing_read_all_handles(t) = t
        BY <3>0, <3>2 DEF outgoing_read_all_handles
      <4>3. s3 = t
        BY <3>1, <4>1, <4>2 DEF FindAndRead
      <4> HIDE DEF s3
      <4>4. QED
        BY <3>0, <3>2, <4>3 DEF handle_SMP_Pairing
    <3>5. AllAnswered(s)
      BY <2>2, <2>4, <3>0 DEF AllAnswered, Ended
    <3>6. QED
      BY <1>2, <3>2, <3>3, <3>4, <3>5, ExitFine
  <2>5. CASE "secondary" \in s.done /\ "info" \in s.sent
    <3>1. s2 = s
      BY <2>1, <2>5 DEF outgoing_handle_discovery
    <3> HIDE DEF s1, s2
    (* Reading starts, and may be over at once. *)
    <3>2. ASSUME NEW w, s3 = w, Fine(w, w.out), w.exit = NONE, Good(w),
                 "read" \in w.done => w.out = <<>>
          PROVE  Fine(Sends(s), Sends(s).out)
      <4> HIDE DEF s3
      <4>1. CASE "read" \notin w.done
        <5>1. s4 = w
          BY <3>2, <4>1 DEF handle_SMP_Pairing
        <5>2. QED
          BY <1>2, <3>2, <5>1, ExitFine
      <4>2. CASE "read" \in w.done
        <5>1. Steady(w)
          BY <3>2, <4>2, NoneIs DEF Steady, Fine
        <5>2. Fine(s4, s4.out) /\ s4.exit = NONE /\ Good(s4)
          BY <3>2, <5>1, PairingSettles, PairingGood
        <5> HIDE DEF s4
        <5>3. QED
          BY <1>2, <5>2, ExitFine
      <4>3. QED
        BY <4>1, <4>2
    <3>3. CASE "info" \notin s.done
      <4>1. "char" \notin s.done /\ "read" \notin s.done /\ "smp" \notin s.done
        BY <1>1, <3>3 DEF Order
      <4>2. c = s /\ outgoing_read_all_handles(s) = s
        BY <3>1, <3>3, <4>1 DEF outgoing_characteristic_discovery, outgoing_read_all_handles
      <4>3. s3 = s
        BY <3>1, <4>2 DEF FindAndRead
      <4>4. s4 = s
        BY <4>1, <4>3 DEF handle_SMP_Pairing
      <4>5. print_and_exit(s) = s
        BY <4>1 DEF print_and_exit
      <4>6. QED
        BY <1>1, <1>2, <4>4, <4>5
    <3>4. CASE "info" \in s.done /\ "char" \notin s.done /\ "char" \in s.sent
      <4>1. "read" \notin s.done /\ "smp" \notin s.done
        BY <1>1, <3>4 DEF Order
      <4>2. c = s /\ outgoing_read_all_handles(s) = s
        BY <1>1, <3>1, <3>4, <4>1
           DEF outgoing_characteristic_discovery, outgoing_read_all_handles, HandleInv
      <4>3. s3 = s
        BY <3>1, <4>2 DEF FindAndRead
      <4>4. s4 = s
        BY <4>1, <4>3 DEF handle_SMP_Pairing
      <4>5. print_and_exit(s) = s
        BY <4>1 DEF print_and_exit
      <4>6. QED
        BY <1>1, <1>2, <4>4, <4>5
    <3>5. CASE "info" \in s.done /\ "char" \notin s.done /\ "char" \notin s.sent
      <4>0. "read" \notin s.sent /\ "read" \notin s.done /\ "smp" \notin s.sent
            /\ "smp" \notin s.done
        BY <1>1, <3>5 DEF Order
      <4>1. AllAnswered(s)
        BY <2>2, <2>5, <3>5, <4>0 DEF AllAnswered, Ended
      <4>2. CASE s.found["primary"] = {}
        <5> DEFINE e == [s EXCEPT !.exit = "exception"]
        <5>1. c = e
          BY <3>1, <3>5, <4>2 DEF outgoing_characteristic_discovery
        <5>2. e.exit = "exception" /\ e.done = s.done
          BY <1>1 DEF Good, Getter
        <5> HIDE DEF e
        <5>3. s3 = e
          BY <3>1, <5>1, <5>2, NoneIs DEF FindAndRead
        <5>4. s4 = e
          BY <4>0, <5>2, <5>3 DEF handle_SMP_Pairing
        <5>5. print_and_exit(e) = e
          BY <5>2, NoneIs DEF print_and_exit
        <5>6. Excused
          BY <1>1, <2>2, <4>2 DEF Excused, ServiceInv, PrimaryInv
        <5>7. QED
          BY <1>2, <4>1, <5>2, <5>4, <5>5, <5>6 DEF Fine
      <4>3. CASE s.found["primary"] # {} /\ FirstIsCharacteristic(s)
        <5> DEFINE d == Done(s, "char")
        <5>1. c = d
          BY <3>1, <3>5, <4>3 DEF outgoing_characteristic_discovery
        <5>2. /\ d.late = s.late /\ d.type = s.type /\ d.found = s.found /\ d.final = s.final
              /\ d.last = s.last /\ d.handles = s.handles /\ d.top = s.top
              /\ d.values = s.values /\ d.done = s.done \cup {"char"} /\ d.sent = s.sent
              /\ d.out = <<>> /\ d.exit = NONE /\ d.tries = s.tries
          BY <1>1 DEF Done, Good, Getter
        <5>3. Good(d)
          BY <1>1, DoneGood DEF Ended
        <5> HIDE DEF d
        <5>4. Steady(d)
          <6>1. Order(d)
            BY <1>1, <3>5, <5>2 DEF Order
          <6>2. ServiceInv(d) /\ Seen(d) = Seen(s)
            BY <1>1, <5>2, SameServices
          <6>3. HandleInv(d)
            BY <1>1, <5>2, <6>2 DEF HandleInv, FollowersKnown, Complete
          <6>4. ReadInv(d)
            BY <4>0, <5>2 DEF ReadInv
          <6>5. QED
            BY <5>2, <5>3, <6>1, <6>2, <6>3, <6>4 DEF Steady, Data
        <5>5. s3 = StartReading(d)
          <6>1. outgoing_read_all_handles(d) = StartReading(d)
            BY <3>5, <4>0, <5>2 DEF outgoing_read_all_handles
          <6>2. QED
            BY <1>1, <3>1, <5>1, <5>2, <6>1 DEF FindAndRead
        <5>6. Good(s3)
          <6>1. outgoing_read_all_handles(d) = s3
            BY <3>5, <4>0, <5>2, <5>5 DEF outgoing_read_all_handles
          <6>2. QED
            BY <5>3, <6>1, ReadsSentGood
        <5>7. /\ Fine(s3, s3.out) /\ s3.exit = NONE
              /\ "read" \in s3.done => s3.out = <<>>
          BY <4>0, <5>2, <5>4, <5>5, ReadingStarts
        <5>8. QED
          BY <3>2, <4>1, <5>6, <5>7
      <4>4. CASE s.found["primary"] # {} /\ ~FirstIsCharacteristic(s)
        <5> DEFINE t == Start(s, "char", "READ_TYPE", s.last["char"])
        <5>1. c = t
          BY <3>1, <3>5, <4>4 DEF outgoing_characteristic_discovery
        <5>2. Fine(t, t.out) /\ t.done = s.done /\ t.exit = NONE
          <6>1. s = [s EXCEPT !.type = s.type] /\ s.type = "secondary"
            BY <1>1, <1>8 DEF Good, Getter, Order
          <6>2. "READ_TYPE" \in RequestOp /\ PhaseOf("READ_TYPE") = "char"
            BY DEF RequestOp, PhaseOf
          <6>3. QED
            BY <2>2, <2>5, <3>5, <4>4, <6>1, <6>2, PhaseStarts
        <5>3. Good(t)
          <6>1. s.last["char"] \in Nat \ {0}
            BY <1>1, HandlesAreNumbers DEF Good, Typed
          <6>2. QED
            BY <1>1, <6>1, StartGood DEF Sent, RequestOp
        <5> HIDE DEF t
        <5>4. outgoing_read_all_handles(t) = t
          BY <3>5, <5>2 DEF outgoing_read_all_handles
        <5>5. s3 = t
          BY <3>1, <5>1, <5>4 DEF FindAndRead
        <5>6. QED
          BY <3>2, <4>0, <4>1, <5>2, <5>3, <5>5
      <4>5. QED
        BY <4>2, <4>3, <4>4
    <3>6. CASE "info" \in s.done /\ "char" \in s.done
      <4>1. c = s
        BY <3>1, <3>6 DEF outgoing_characteristic_discovery
      <4>2. s3 = outgoing_read_all_handles(s)
        BY <1>1, <3>1, <4>1 DEF FindAndRead
      <4>3. CASE "read" \notin s.sent
        <5>1. s3 = StartReading(s)
          BY <3>6, <4>2, <4>3 DEF outgoing_read_all_handles
        <5>2. /\ Fine(s3, s3.out) /\ s3.exit = NONE
              /\ "read" \in s3.done => s3.out = <<>>
          BY <3>6, <4>3, <5>1, ReadingStarts
        <5>3. Good(s3)
          BY <1>1, <4>2, ReadsSentGood
        <5>4. AllAnswered(s)
          BY <1>1, <2>2, <2>5, <3>6, <4>3 DEF AllAnswered, Ended, Order
        <5>5. QED
          BY <3>2, <5>2, <5>3, <5>4
      <4>4. CASE "read" \in s.sent
        <5>1. s3 = s
          BY <1>1, <4>2, <4>4 DEF outgoing_read_all_handles
        <5> HIDE DEF s3
        <5>2. Fine(s4, s4.out) /\ s4.exit = NONE /\ Good(s4)
          BY <1>1, <5>1, PairingSettles, PairingGood
        <5>3. Fine(Sends(s), Sends(s).out)
          <6> HIDE DEF s4
          <6>1. QED
            BY <1>2, <5>2, ExitFine
        <5>4. CASE "read" \notin s.done
          <6>1. s4 = s /\ "smp" \notin s.done
            BY <1>1, <4>4, <5>1, <5>4 DEF handle_SMP_Pairing, Order
          <6>2. print_and_exit(s) = s
            BY <6>1 DEF print_and_exit
          <6>3. QED
            BY <1>2, <5>3, <6>1, <6>2
        <5>5. CASE "read" \in s.done /\ ("smp" \notin s.sent \/ "smp" \in s.done)
          <6>1. AllAnswered(s)
            BY <1>1, <2>2, <2>5, <3>6, <5>5 DEF AllAnswered, Ended, Order
          <6>2. QED
            BY <5>3, <6>1
        <5>6. CASE "smp" \in s.sent /\ "smp" \notin s.done
          <6>1. Nothing.p = "EMPTY"
            BY DEF Nothing
          <6>2. s4 = s
            BY <5>1, <5>6, <6>1, PairingSettles
          <6>3. print_and_exit(s) = s
            BY <5>6 DEF print_and_exit
          <6>4. QED
            BY <1>2, <5>3, <6>2, <6>3
        <5>7. QED
          BY <5>4, <5>5, <5>6
      <4>5. QED
        BY <4>3, <4>4
    <3>7. QED
      BY <3>3, <3>4, <3>5, <3>6
  <2>6. QED
    BY <2>3, <2>4, <2>5
<1>9. QED
  BY <1>5, <1>6, <1>7, <1>8
-----------------------------------------------------------------------------
(* The getter from its start to its end. *)

LEMMA FineNext ==
    ASSUME NEW t, NEW w, Fine(t, w), g' = t, asked' = w, db' = db, drops' = drops
    PROVE  SInv'
<1>1. /\ Services' = Services /\ Attributes' = Attributes /\ (Reaches <=> Reaches')
      /\ OfKind("primary")' = OfKind("primary") /\ OfKind("secondary")' = OfKind("secondary")
      /\ (Excused <=> Excused') /\ (Assured <=> Assured')
  BY DEF Services, IsService, Attributes, Reaches, OfKind, Excused, EndsAreClear, Assured,
         GapsEndAtServices
<1>2. Data(t) => Data(g)'
  <2>1. Order(t) => Order(g)'
    BY DEF Order
  <2>2. ServiceInv(t) => ServiceInv(g)'
    BY <1>1 DEF ServiceInv, PrimaryInv, SecondaryInv, LastSeen, Complete, Seen
  <2>3. HandleInv(t) => HandleInv(g)'
    BY <1>1 DEF HandleInv, Below, Complete, Seen, FollowersKnown, FirstIsCharacteristic
  <2>4. ReadInv(t) => ReadInv(g)'
    BY <1>1 DEF ReadInv, ToRead
  <2>5. QED
    BY <2>1, <2>2, <2>3, <2>4 DEF Data
<1>3. Queue(t, w) => Queue(g, asked)'
  BY DEF Queue, Pending
<1>4. Fine(g, asked)'
  BY <1>1, <1>2, <1>3 DEF Fine
<1>5. QED
  BY <1>4 DEF SInv

LEMMA InitSteady == Init => SInv
<1> SUFFICES ASSUME Init PROVE Fine(g, asked)
  BY DEF SInv
<1>1. /\ g.sent = {} /\ g.late = {} /\ g.done = {} /\ g.type = "primary" /\ g.handles = {}
      /\ g.top = 1 /\ g.exit = NONE /\ asked = <<>>
      /\ \A t \in ServiceType : g.final[t] = 1 /\ g.found[t] = {} /\ g.last[t] = 1
      /\ g.last["info"] = 1
  BY DEF Init, ServiceType
<1>2. LastHandle \in Nat /\ LastHandle > 1
  BY GattAssumption
<1>3. /\ g.final["primary"] = 1 /\ g.final["secondary"] = 1 /\ Seen(g) = {}
      /\ g.last["primary"] = 1 /\ g.last["secondary"] = 1
  BY <1>1 DEF Seen, ServiceType
<1>4. \A h \in Services : ~(h < 1)
  BY HandlesAreNumbers DEF Services
<1>5. OfKind("primary") \subseteq Services /\ OfKind("secondary") \subseteq Services
  BY DEF OfKind, Services, IsService, ServiceType
<1>6. Order(g) /\ HandleInv(g) /\ ReadInv(g)
  BY <1>1, <1>2 DEF Order, HandleInv, ReadInv
<1>7. ServiceInv(g)
  BY <1>1, <1>2, <1>3, <1>4, <1>5 DEF ServiceInv, PrimaryInv, SecondaryInv
<1>8. QED
  BY <1>1, <1>6, <1>7, NoneIs DEF Fine, Data, Queue

LEMMA NextSteady == TInv /\ SInv /\ [Next]_vars => SInv'
<1> SUFFICES ASSUME TInv, SInv, [Next]_vars PROVE SInv'
  OBVIOUS
<1>0. /\ db \in Databases /\ Good(g) /\ asked \in Seq(Requests) /\ drops \in Nat
      /\ Good(Fresh(g)) /\ Fresh(g).out = <<>>
  BY FreshGood, GattAssumption DEF TInv, TypeOK, Good, Requests
<1>1. CASE PeripheralDrops
  <2>1. drops' # 0
    BY <1>0, <1>1 DEF PeripheralDrops
  <2>2. QED
    BY <2>1 DEF SInv, Undisturbed
<1>2. CASE UNCHANGED vars
  <2>1. CASE Undisturbed
    <3>1. Fine(g, asked)
      BY <2>1 DEF SInv
    <3>2. QED
      BY <1>2, <3>1, FineNext DEF vars
  <2>2. CASE ~Undisturbed
    BY <1>2, <2>2 DEF SInv, Undisturbed, vars
  <2>3. QED
    BY <2>1, <2>2
<1>3. ASSUME NEW t \in Timer, TimePasses(t) PROVE SInv'
  <2>1. ~Undisturbed
    BY <1>0, <1>3 DEF TimePasses, Undisturbed
  <2>2. QED
    BY <1>3, <2>1 DEF SInv, Undisturbed, TimePasses
<1>4. ASSUME Undisturbed, g.exit = NONE
      PROVE  /\ Steady(Fresh(g))
             /\ asked # <<>> => asked = <<asked[1]>> /\ Pending(Fresh(g), asked[1])
  <2> DEFINE s == Fresh(g)
  <2>1. Data(g) /\ Queue(g, asked)
    BY <1>4, NoneIs DEF SInv, Fine
  <2>2. /\ s.late = g.late /\ s.type = g.type /\ s.found = g.found /\ s.final = g.final
        /\ s.last = g.last /\ s.handles = g.handles /\ s.top = g.top /\ s.values = g.values
        /\ s.done = g.done /\ s.sent = g.sent /\ s.exit = NONE
    BY <1>0, <1>4 DEF Fresh, Good, Getter
  <2> HIDE DEF s
  <2>3. Data(s)
    BY <2>1, <2>2, SameData
  <2>4. Steady(s)
    BY <1>0, <2>2, <2>3 DEF Steady, s
  <2>5. ASSUME asked # <<>> PROVE asked = <<asked[1]>> /\ Pending(s, asked[1])
    <3>1. Len(asked) = 1 /\ Pending(g, asked[1])
      BY <2>1, <2>5 DEF Queue
    <3>2. asked = <<asked[1]>>
      BY <1>0, <3>1
    <3>3. Pending(s, asked[1])
      BY <2>2, <3>1 DEF Pending
    <3>4. QED
      BY <3>2, <3>3
  <2>6. QED
    BY <2>4, <2>5 DEF s
<1>5. ASSUME NEW s, NEW w, NEW q, Take(s, w), drops' = drops, Fine(s, q),
             s.exit = NONE => q = w \o s.out
      PROVE  SInv'
  <2>1. g' = s /\ db' = db /\ asked' = IF s.exit = NONE THEN q ELSE <<>>
    BY <1>5 DEF Take
  <2>2. Fine(s, <<>>)
    BY <1>5 DEF Fine, Queue
  <2>3. CASE s.exit = NONE
    BY <1>5, <2>1, <2>3, FineNext
  <2>4. CASE s.exit # NONE
    BY <1>5, <2>1, <2>2, <2>4, FineNext
  <2>5. QED
    BY <2>3, <2>4
<1>6. CASE PeripheralAnswers
  <2> DEFINE r == Head(asked)
  <2>1. g.exit = NONE /\ asked # <<>> /\ drops' = drops /\ r \in Requests
    BY <1>0, <1>6 DEF PeripheralAnswers
  <2>2. PICK a \in AnswersTo(r) : \E s \in Handled(Fresh(g), a) : Take(s, Tail(asked))
    BY <1>6 DEF PeripheralAnswers
  <2>3. Take(Answering(Fresh(g), a), Tail(asked))
    BY <2>2, HandledIs
  <2>4. CASE ~Undisturbed
    BY <2>1, <2>3, <2>4 DEF SInv, Undisturbed, Take
  <2>5. CASE Undisturbed
    <3> DEFINE s == Answering(Fresh(g), a)
    <3>1. r = asked[1] /\ asked = <<asked[1]>> /\ Pending(Fresh(g), r) /\ Steady(Fresh(g))
      BY <1>0, <1>4, <2>1, <2>5
    <3>2. Tail(asked) = <<>>
      <4>1. \A x : Tail(<<x>>) = <<>>
        OBVIOUS
      <4>2. QED
        BY <3>1, <4>1
    <3>3. Answered(r, a)
      BY <1>0, <2>1, AnswerIs
    <3>4. Fine(s, s.out)
      BY <1>0, <2>1, <3>1, <3>3, AnswersFine
    <3>5. Good(s)
      BY <1>0, <2>1, <3>3, AnswerFits, AnswersGood
    <3> HIDE DEF s
    <3>6. <<>> \o s.out = s.out
      BY <3>5 DEF Good, Getter
    <3>7. Take(s, <<>>)
      BY <2>3, <3>2 DEF s
    <3>8. QED
      BY <1>5, <2>1, <3>4, <3>6, <3>7
  <2>6. QED
    BY <2>4, <2>5
<1>7. CASE EmptyPacket
  <2>1. Take(Sends(Fresh(g)), asked) /\ drops' = drops /\ g.exit = NONE
    BY <1>7, SendPendingIs DEF EmptyPacket
  <2>2. CASE ~Undisturbed
    BY <2>1, <2>2 DEF SInv, Undisturbed, Take
  <2>3. CASE Undisturbed
    <3> DEFINE s == Sends(Fresh(g))
    <3>1. Steady(Fresh(g))
      BY <1>4, <2>1, <2>3
    <3>2. Fine(s, s.out) /\ (AllAnswered(Fresh(g)) \/ s = Fresh(g))
      BY <1>0, <3>1, SendsFine
    <3>3. Good(s)
      BY <1>0, SendsGood
    <3> HIDE DEF s
    <3>4. Take(s, asked)
      BY <2>1 DEF s
    <3>5. CASE asked = <<>>
      <4>1. asked \o s.out = s.out
        BY <3>3, <3>5 DEF Good, Getter
      <4>2. QED
        BY <1>5, <2>1, <3>2, <3>4, <4>1
    <3>6. CASE asked # <<>>
      <4>1. Pending(Fresh(g), asked[1]) /\ asked[1] \in Requests /\ asked = <<asked[1]>>
        BY <1>0, <1>4, <2>1, <2>3, <3>6
      <4>2. PhaseOf(asked[1].op) \in Ended
        BY <4>1 DEF Requests, RequestOp, PhaseOf, Ended
      <4>3. ~AllAnswered(Fresh(g))
        BY <4>1, <4>2 DEF Pending, AllAnswered
      <4>4. s = Fresh(g)
        BY <3>2, <4>3
      <4>5. s.out = <<>> /\ asked \o <<>> = asked
        BY <1>0, <4>4
      <4>6. Fine(s, asked)
        <5>1. Len(asked) = 1
          BY <4>1
        <5>2. Queue(s, asked)
          BY <4>1, <4>4, <5>1 DEF Queue
        <5>3. QED
          BY <3>2, <5>2 DEF Fine
      <4>7. QED
        BY <1>5, <2>1, <3>4, <4>5, <4>6
    <3>7. QED
      BY <3>5, <3>6
  <2>4. QED
    BY <2>2, <2>3
<1>8. QED
  BY <1>1, <1>2, <1>3, <1>6, <1>7 DEF Next, Exited

LEMMA SteadyAlways == Spec => [](TInv /\ SInv)
<1>1. Init => TInv /\ SInv
  BY InitTypes, InitSteady
<1>2. TInv /\ SInv /\ [Next]_vars => (TInv /\ SInv)'
  BY NextTypes, NextSteady
<1>3. QED
  BY <1>1, <1>2, PTL DEF Spec

-----------------------------------------------------------------------------
(* Each request has a handle of the database, each value a handle it was   *)
(* taken from, and no more requests are given up than the bound allows:    *)
(* whatever the handlers make of an answer.                                *)
THEOREM GattTypes == Spec => []TypeOK
<1>1. TInv => TypeOK
  BY DEF TInv
<1>2. QED
  BY <1>1, TypesAlways, PTL

(* All services and all handles of the peripheral have been discovered     *)
(* when the getter is done, whatever their layout, in step with the        *)
(* peripheral.                                                             *)
THEOREM NothingOverlooked == Spec => []AllHandlesFound
<1>1. TInv /\ SInv => AllHandlesFound
  <2> SUFFICES ASSUME TInv, SInv, g.exit = "done", Undisturbed, EndsAreClear,
                      db.skips \/ GapsEndAtServices
               PROVE  g.handles = Attributes
                      /\ g.found["primary"] \cup g.found["secondary"] = Services
    BY DEF AllHandlesFound
  <2>1. Data(g) /\ "smp" \in g.done
    BY DEF SInv, Fine
  <2>2. "info" \in g.done
    BY <2>1 DEF Data, Order
  <2>3. Complete(g) /\ g.handles = Attributes
    BY <2>1, <2>2 DEF Data, HandleInv, Assured
  <2>4. Seen(g) = Services
    BY <2>1, <2>3 DEF Data, ServiceInv, Complete
  <2>5. QED
    BY <2>3, <2>4 DEF Seen
<1>2. QED
  BY <1>1, SteadyAlways, PTL

(* Every handle but the first one that is no service is read, and the      *)
(* value is stored as its own.                                             *)
THEOREM ValuesAreTheirOwn == Spec => []RestRead
<1>1. TInv /\ SInv => RestRead
  <2> DEFINE n == get_next_handle_to_att_read(g.handles, 1)
  <2> SUFFICES ASSUME TInv, SInv, g.exit = "done", Undisturbed,
                      NEW h \in g.handles \ Services, h > n
               PROVE  g.values[h] = h
    BY DEF RestRead
  <2>1. Data(g) /\ "smp" \in g.done
    BY DEF SInv, Fine
  <2>2. "read" \in g.done /\ "read" \in g.sent
    BY <2>1 DEF Data, Order
  <2>3. /\ g.handles \in SUBSET Handle /\ g.handles \subseteq Attributes /\ db \in Databases
        /\ h \in ToRead(g) /\ Handle \subseteq Nat
    BY <2>1, HandlesAreNumbers DEF TInv, TypeOK, Getter, Data, HandleInv, ToRead
  <2>4. \/ n = -1 /\ \A k \in ToRead(g) : k <= 1
        \/ n \in ToRead(g)
    <3>1. 1 \in Int
      OBVIOUS
    <3>2. QED
      BY <2>3, <3>1, NextIs DEF ToRead
  <2> HIDE DEF n
  <2>5. n \in ToRead(g)
    <3>1. h # 1
      BY <2>3, DatabaseIs DEF ToRead
    <3>2. ~(h <= 1)
      <4>1. h \in Handle
        BY <2>3 DEF ToRead
      <4>2. h \in Nat /\ 1 <= h
        BY <4>1, HandlesAreNumbers
      <4>3. QED
        BY <3>1, <4>2
    <3>3. QED
      BY <2>3, <2>4, <3>2
  <2>6. n < h
    BY <2>3, <2>5 DEF ToRead
  <2>7. QED
    BY <2>1, <2>2, <2>3, <2>5, <2>6 DEF Data, ReadInv
<1>2. QED
  BY <1>1, SteadyAlways, PTL

(* In step with the peripheral, to_bytes of a handle past 0xFFFF and the   *)
(* first of no primary services are the only exceptions, and need a        *)
(* peripheral that leads there.                                            *)
THEOREM ExceptionsAreAtEnds == Spec => []RaisesOnlyAtEnds
<1>1. SInv => RaisesOnlyAtEnds
  BY DEF SInv, Fine, Excused, RaisesOnlyAtEnds
<1>2. QED
  BY <1>1, SteadyAlways, PTL
=============================================================================
