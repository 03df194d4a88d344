---------------------------- MODULE LmpPrintProofs ----------------------------
(***************************************************************************)
(* Proofs about LmpPrint, for any size of a fragment below 128, any length *)
(* of the name and number of pages that a packet can tell, and any number  *)
(* of packets that answer nothing.                                         *)
(***************************************************************************)
EXTENDS LmpPrint, SequenceTheorems, TLAPS

IsName(r) == r.op = "name_req"

(* One fragment of the name is asked for at a time, the one that follows   *)
(* what gName has; and gName has everything before it.                     *)
NameInv(s, queue) ==
    /\ s.name = 0..(s.offset - 1)
    /\ InChar(device.length) <= Fragment => s.offset = 0
    /\ \A i \in 1..Len(queue) : IsName(queue[i]) =>
          queue[i].offset = s.offset /\ s.nameSent /\ ~s.moreName
    /\ \A i, j \in 1..Len(queue) : IsName(queue[i]) /\ IsName(queue[j]) => i = j

IInv == TypeOK /\ NameInv(g, asked) /\ NamesAreWhole

-----------------------------------------------------------------------------
LEMMA DeviceTypes ==
    ASSUME device \in DeviceKind
    PROVE  /\ device.length \in 0..255 /\ device.lastPage \in Nat
           /\ InChar(device.length) \in Int
           /\ InChar(device.length) = device.length \/ InChar(device.length) < 0
<1>1. PICK n \in NameLengths, k \in LastPages : n = device.length /\ k = device.lastPage
  BY DEF DeviceKind
<1>2. n \in 0..255
  BY LmpAssumption
<1>3. k \in 0..254
  BY LmpAssumption
<1>4. QED
  BY <1>1, <1>2, <1>3 DEF InChar

LEMMA SendingTypes ==
    ASSUME NEW s \in Globals
    PROVE  /\ ToSend(s) \in Seq(Request)
           /\ AfterSending(s) \in Globals
           /\ AfterSending(s).offset = s.offset /\ AfterSending(s).name = s.name
<1>1. /\ [op |-> "features_req"] \in Request
      /\ [op |-> "version_req"] \in Request
      /\ [op |-> "features_req_ext", page |-> s.page] \in Request
      /\ [op |-> "features_req_ext", page |-> s.page + 1] \in Request
      /\ [op |-> "name_req", offset |-> s.offset] \in Request
  BY DEF Globals, Request
<1>2. \A r \in Request : <<r>> \in Seq(Request)
  OBVIOUS
<1>3. <<>> \in Seq(Request)
  OBVIOUS
<1>4. ToSend(s) \in Seq(Request)
  BY <1>1, <1>2, <1>3 DEF ToSend
<1> DEFINE Kept(t) == t \in Globals /\ t.offset = s.offset /\ t.name = s.name
<1>5. Kept([s EXCEPT !.featuresSent = TRUE]) /\ Kept([s EXCEPT !.versionSent = TRUE])
  BY DEF Globals
<1>6. Kept([s EXCEPT !.nameSent = TRUE, !.moreName = FALSE])
  BY DEF Globals
<1>7. Kept([s EXCEPT !.extSent = 1])
  BY DEF Globals
<1>8. Kept([s EXCEPT !.extSent = s.extSent + 1, !.page = s.page + 1])
  <2>1. PICK n \in Nat, q \in Nat : n = s.extSent + 1 /\ q = s.page + 1
    BY DEF Globals
  <2>2. Kept([s EXCEPT !.extSent = n, !.page = q])
    BY DEF Globals
  <2>3. QED
    BY <2>1, <2>2
<1> HIDE DEF Kept
<1>9. Kept(AfterSending(s))
  BY <1>5, <1>6, <1>7, <1>8 DEF AfterSending
<1>10. QED
  BY <1>4, <1>9 DEF Kept

(* A request for a name goes out alone, and only when one is due. *)
LEMMA SendingNames ==
    ASSUME NEW s \in Globals
    PROVE  \/ /\ \A i \in 1..Len(ToSend(s)) : ~IsName(ToSend(s)[i])
              /\ AfterSending(s).nameSent = s.nameSent
              /\ AfterSending(s).moreName = s.moreName
           \/ /\ NameDue(s) /\ ToSend(s) = <<[op |-> "name_req", offset |-> s.offset]>>
              /\ AfterSending(s).nameSent /\ ~AfterSending(s).moreName
<1> DEFINE f == <<[op |-> "features_req"]>>
           v == <<[op |-> "version_req"]>>
           p == <<[op |-> "features_req_ext", page |-> s.page]>>
           q == <<[op |-> "features_req_ext", page |-> s.page + 1]>>
           n == <<[op |-> "name_req", offset |-> s.offset]>>
<1>1. /\ \A i \in 1..Len(f) : ~IsName(f[i])
      /\ \A i \in 1..Len(v) : ~IsName(v[i])
      /\ \A i \in 1..Len(p) : ~IsName(p[i])
      /\ \A i \in 1..Len(q) : ~IsName(q[i])
      /\ \A i \in 1..Len(<<>>) : ~IsName(<<>>[i])
  BY DEF IsName
<1>2. CASE ~s.featuresSent
  <2>1. ToSend(s) = f
    BY <1>2 DEF ToSend
  <2>2. /\ AfterSending(s).nameSent = s.nameSent /\ AfterSending(s).moreName = s.moreName
    BY <1>2 DEF AfterSending, Globals
  <2>3. QED
    BY <1>1, <2>1, <2>2
<1>3. CASE s.featuresSent /\ s.extSent = 0
  <2>1. ToSend(s) = p
    BY <1>3 DEF ToSend
  <2>2. /\ AfterSending(s).nameSent = s.nameSent /\ AfterSending(s).moreName = s.moreName
    BY <1>3 DEF AfterSending, Globals
  <2>3. QED
    BY <1>1, <2>1, <2>2
<1>4. CASE s.featuresSent /\ s.extSent # 0 /\ PageDue(s)
  <2>1. ToSend(s) = q
    BY <1>4 DEF ToSend
  <2>2. /\ AfterSending(s).nameSent = s.nameSent /\ AfterSending(s).moreName = s.moreName
    BY <1>4 DEF AfterSending, Globals
  <2>3. QED
    BY <1>1, <2>1, <2>2
<1>5. CASE s.featuresSent /\ s.extSent # 0 /\ ~PageDue(s) /\ NameDue(s)
  <2>1. ToSend(s) = n
    BY <1>5 DEF ToSend
  <2>2. AfterSending(s).nameSent /\ ~AfterSending(s).moreName
    BY <1>5 DEF AfterSending, Globals
  <2>3. QED
    BY <1>5, <2>1, <2>2
<1>6. CASE s.featuresSent /\ s.extSent # 0 /\ ~PageDue(s) /\ ~NameDue(s)
  <2>1. ToSend(s) \in {v, <<>>}
    BY <1>6 DEF ToSend
  <2>2. /\ AfterSending(s).nameSent = s.nameSent /\ AfterSending(s).moreName = s.moreName
    BY <1>6 DEF AfterSending, Globals
  <2>3. QED
    BY <1>1, <2>1, <2>2
<1>7. QED
  BY <1>2, <1>3, <1>4, <1>5, <1>6

LEMMA AnswerTypes ==
    ASSUME NEW r \in Request, device \in DeviceKind
    PROVE  /\ Answer(r) \in Packet
           /\ Answer(r).op = "name_res" =>
                 /\ IsName(r) /\ Answer(r).offset = r.offset
                 /\ Answer(r).length = device.length
<1>1. device.length \in 0..255 /\ device.lastPage \in Nat
  BY DeviceTypes
<1>2. CASE r.op = "features_req"
  <2>1. Answer(r) = [op |-> "features_res"]
    BY <1>2 DEF Answer
  <2>2. QED
    BY <2>1 DEF Packet
<1>3. CASE r.op = "version_req"
  <2>1. Answer(r) = [op |-> "version_res"]
    BY <1>3 DEF Answer
  <2>2. QED
    BY <2>1 DEF Packet
<1>4. CASE r.op = "name_req"
  <2>1. Answer(r) = [op |-> "name_res", offset |-> r.offset, length |-> device.length]
    BY <1>4 DEF Answer
  <2>2. r.offset \in Nat
    BY <1>4 DEF Request
  <2>3. QED
    BY <1>1, <1>4, <2>1, <2>2 DEF Packet, IsName
<1>5. CASE r.op = "features_req_ext"
  <2>1. r.page \in Nat
    BY <1>5 DEF Request
  <2>2. Answer(r) = IF device.extended
                    THEN [op |-> "features_res_ext", page |-> r.page, last |-> device.lastPage]
                    ELSE [op |-> "not_accepted"]
    BY <1>5 DEF Answer
  <2>3. [op |-> "features_res_ext", page |-> r.page, last |-> device.lastPage] \in Packet
        /\ [op |-> "not_accepted"] \in Packet
    BY <1>1, <2>1 DEF Packet
  <2>4. QED
    BY <2>2, <2>3
<1>6. QED
  BY <1>2, <1>3, <1>4, <1>5 DEF Request

-----------------------------------------------------------------------------
(* The handlers of packets. *)

(* What a packet that is not a name leaves alone. *)
SameName(s, r) ==
    /\ r.g.offset = s.offset /\ r.g.name = s.name /\ r.g.nameSent = s.nameSent
    /\ r.g.moreName = s.moreName /\ r.log.names = log.names

LEMMA OtherTypes ==
    ASSUME NEW s \in Globals, log \in Log, NEW p \in Packet, p.op # "name_res"
    PROVE  AfterPacket(s, p) \in Reply /\ SameName(s, AfterPacket(s, p))
<1>1. Ignored(s) \in Reply /\ SameName(s, Ignored(s))
  BY DEF Ignored, Reply, SameName
<1>2. FeaturesRes(s) \in Reply /\ SameName(s, FeaturesRes(s))
  BY DEF FeaturesRes, Reply, SameName, Globals, Part
<1>3. p.op = "features_res_ext" => FeaturesResExt(s, p) \in Reply /\ SameName(s, FeaturesResExt(s, p))
  <2> SUFFICES ASSUME p.op = "features_res_ext"
               PROVE  FeaturesResExt(s, p) \in Reply /\ SameName(s, FeaturesResExt(s, p))
    OBVIOUS
  <2> DEFINE t == [s EXCEPT !.have = s.have \cup {"pages"}]
             u == [t EXCEPT !.extReceived = TRUE, !.lastPage = p.last]
             l == [log EXCEPT !.pages = log.pages \cup {p.page}]
  <2>1. p.page \in Nat /\ p.last \in Nat
    BY DEF Packet
  <2>2. /\ t \in Globals /\ t.offset = s.offset /\ t.name = s.name /\ t.nameSent = s.nameSent
        /\ t.moreName = s.moreName
    BY DEF Globals, Part
  <2>3. FeaturesResExt(s, p) \in {[g |-> t, log |-> log, exited |-> FALSE],
                                  [g |-> u, log |-> l, exited |-> FALSE]}
    BY DEF FeaturesResExt
  <2> HIDE DEF t
  <2>4. /\ u \in Globals /\ u.offset = s.offset /\ u.name = s.name /\ u.nameSent = s.nameSent
        /\ u.moreName = s.moreName
    BY <2>1, <2>2 DEF Globals
  <2>5. l \in Log /\ l.names = log.names
    BY <2>1 DEF Log
  <2> HIDE DEF u, l
  <2>6. LET r == [g |-> t, log |-> log, exited |-> FALSE] IN r \in Reply /\ SameName(s, r)
    BY <2>2 DEF Reply, SameName
  <2>7. LET r == [g |-> u, log |-> l, exited |-> FALSE] IN r \in Reply /\ SameName(s, r)
    BY <2>4, <2>5 DEF Reply, SameName
  <2>8. QED
    BY <2>3, <2>6, <2>7
<1>4. VersionRes(s) \in Reply /\ SameName(s, VersionRes(s))
  <2> DEFINE t == [s EXCEPT !.have = s.have \cup {"version"}]
             u == [t EXCEPT !.versionSent = FALSE]
             l == [log EXCEPT !.waits = log.waits + 1]
  <2>1. /\ t \in Globals /\ t.offset = s.offset /\ t.name = s.name /\ t.nameSent = s.nameSent
        /\ t.moreName = s.moreName
    BY DEF Globals, Part
  <2>2. VersionRes(s) \in {[g |-> t, log |-> log, exited |-> TRUE],
                           [g |-> u, log |-> l, exited |-> FALSE]}
    BY DEF VersionRes
  <2> HIDE DEF t
  <2>3. /\ u \in Globals /\ u.offset = s.offset /\ u.name = s.name /\ u.nameSent = s.nameSent
        /\ u.moreName = s.moreName
    BY <2>1 DEF Globals
  <2>4. l \in Log /\ l.names = log.names
    BY DEF Log
  <2> HIDE DEF u, l
  <2>5. LET r == [g |-> t, log |-> log, exited |-> TRUE] IN r \in Reply /\ SameName(s, r)
    BY <2>1 DEF Reply, SameName
  <2>6. LET r == [g |-> u, log |-> l, exited |-> FALSE] IN r \in Reply /\ SameName(s, r)
    BY <2>3, <2>4 DEF Reply, SameName
  <2>7. QED
    BY <2>2, <2>5, <2>6
<1>5. QED
  BY <1>1, <1>2, <1>3, <1>4 DEF AfterPacket

(* A name, or a fragment of one, answers the one request for it: what is    *)
(* logged is the whole name, and what is kept is all before the next offset. *)
LEMMA NameTypes ==
    ASSUME NEW s \in Globals, log \in Log, NEW p \in Packet, p.op = "name_res",
           device \in DeviceKind, p.length = device.length, p.offset = s.offset,
           s.name = 0..(s.offset - 1),
           InChar(device.length) <= Fragment => s.offset = 0,
           s.nameSent, NamesAreWhole
    PROVE  LET r == AfterPacket(s, p)
           IN  /\ r \in Reply
               /\ r.g.name = 0..(r.g.offset - 1)
               /\ InChar(device.length) <= Fragment => r.g.offset = 0
               /\ \A bytes \in r.log.names :
                     \/ bytes = 0..(device.length - 1)
                     \/ InChar(device.length) < 0 /\ bytes = {}
<1> USE LmpAssumption
<1> DEFINE n == InChar(device.length)
           end == s.offset + Fragment
           name == s.name \cup s.offset..(end - 1)
           whole == s.offset..(s.offset + n - 1)
           cut == name \cap 0..(n - 1)
           more == [s EXCEPT !.name = name, !.offset = end, !.moreName = TRUE]
<1>1. /\ device.length \in 0..255 /\ n \in Int
      /\ n = device.length \/ n < 0
  BY DeviceTypes
<1>2. s.offset \in Nat /\ end \in Nat /\ Fragment \in Nat \ {0}
  BY DEF Globals
<1>3. name = 0..(end - 1)
  BY <1>2
<1>4. AfterPacket(s, p) = NameRes(s, p)
  BY DEF AfterPacket
<1>5. NameRes(s, p) = IF n <= Fragment THEN NameDone(s, whole)
                      ELSE IF end >= n THEN NameDone(s, cut)
                      ELSE [g |-> more, log |-> log, exited |-> FALSE]
  BY DEF NameRes
<1>6. n <= Fragment => whole \subseteq Nat /\
          (whole = 0..(device.length - 1) \/ (n < 0 /\ whole = {}))
  BY <1>1
<1>7. ~(n <= Fragment) /\ end >= n => cut \subseteq Nat /\ cut = 0..(device.length - 1)
  BY <1>1, <1>2, <1>3
<1>8. ASSUME NEW bytes \in SUBSET Nat
      PROVE  LET r == NameDone(s, bytes)
             IN  /\ r \in Reply /\ r.g.name = {} /\ r.g.offset = 0
                 /\ r.log.names = log.names \cup {bytes}
  <2> DEFINE t == [s EXCEPT !.offset = 0, !.name = {}, !.have = s.have \cup {"name"}]
             l == [log EXCEPT !.names = log.names \cup {bytes}]
  <2>1. t \in Globals /\ t.name = {} /\ t.offset = 0
    BY DEF Globals, Part
  <2>2. l \in Log /\ l.names = log.names \cup {bytes}
    BY DEF Log
  <2>3. NameDone(s, bytes) = [g |-> t, log |-> l, exited |-> FALSE]
    BY DEF NameDone
  <2> HIDE DEF t, l
  <2>4. QED
    BY <2>1, <2>2, <2>3 DEF Reply
<1>9. /\ more \in Globals /\ more.name = 0..(more.offset - 1)
  <2>1. name \subseteq Nat
    BY <1>3
  <2> HIDE DEF name, end
  <2>2. more \in Globals /\ more.name = name /\ more.offset = end
    BY <1>2, <2>1 DEF Globals
  <2>3. QED
    BY <1>3, <2>2
<1>10. 0..(0 - 1) = {}
  OBVIOUS
<1> HIDE DEF whole, cut, more, end, name
<1>11. CASE n <= Fragment
  <2>1. AfterPacket(s, p) = NameDone(s, whole) /\ whole \in SUBSET Nat
    BY <1>4, <1>5, <1>6, <1>11
  <2>2. /\ AfterPacket(s, p) \in Reply /\ AfterPacket(s, p).g.name = {}
        /\ AfterPacket(s, p).g.offset = 0
        /\ AfterPacket(s, p).log.names = log.names \cup {whole}
    BY <1>8, <2>1
  <2>3. \A bytes \in log.names \cup {whole} :
            \/ bytes = 0..(device.length - 1)
            \/ n < 0 /\ bytes = {}
    BY <1>6, <1>11 DEF NamesAreWhole
  <2>4. QED
    BY <1>10, <2>2, <2>3
<1>12. CASE ~(n <= Fragment) /\ end >= n
  <2>1. AfterPacket(s, p) = NameDone(s, cut) /\ cut \in SUBSET Nat
    BY <1>4, <1>5, <1>7, <1>12
  <2>2. /\ AfterPacket(s, p) \in Reply /\ AfterPacket(s, p).g.name = {}
        /\ AfterPacket(s, p).g.offset = 0
        /\ AfterPacket(s, p).log.names = log.names \cup {cut}
    BY <1>8, <2>1
  <2>3. \A bytes \in log.names \cup {cut} :
            \/ bytes = 0..(device.length - 1)
            \/ n < 0 /\ bytes = {}
    BY <1>7, <1>12 DEF NamesAreWhole
  <2>4. QED
    BY <1>10, <2>2, <2>3
<1>13. CASE ~(n <= Fragment) /\ ~(end >= n)
  <2>1. AfterPacket(s, p) = [g |-> more, log |-> log, exited |-> FALSE]
    BY <1>4, <1>5, <1>13
  <2>2. QED
    BY <1>9, <1>13, <2>1 DEF Reply, NamesAreWhole
<1>14. QED
  BY <1>11, <1>12, <1>13
-----------------------------------------------------------------------------
(* A packet arrives: it answers nothing, or the first of the requests.      *)

LEMMA ReceiveKeeps ==
    ASSUME IInv, NEW p \in Packet, NEW waiting \in Seq(Request), Receive(p, waiting),
           NameInv(g, waiting),
           p.op = "name_res" =>
              /\ p.length = device.length /\ p.offset = g.offset /\ g.nameSent /\ ~g.moreName
              /\ \A i \in 1..Len(waiting) : ~IsName(waiting[i]),
           others' \in 0..MaxOthers
    PROVE  IInv'
<1> DEFINE s == AfterSending(g)
           new == ToSend(g)
           r == AfterPacket(s, p)
<1>1. /\ device' = device /\ asked' = waiting \o new
      /\ g' = r.g /\ log' = r.log /\ exited' = r.exited
  BY DEF Receive
<1>2. g \in Globals /\ log \in Log /\ device \in DeviceKind /\ NamesAreWhole
  BY DEF IInv, TypeOK
<1>3. /\ new \in Seq(Request) /\ s \in Globals /\ s.offset = g.offset /\ s.name = g.name
  BY <1>2, SendingTypes
<1>4. \/ /\ \A i \in 1..Len(new) : ~IsName(new[i])
         /\ s.nameSent = g.nameSent /\ s.moreName = g.moreName
      \/ /\ NameDue(g) /\ new = <<[op |-> "name_req", offset |-> g.offset]>>
         /\ s.nameSent /\ ~s.moreName
  BY <1>2, SendingNames
<1>5. /\ g.name = 0..(g.offset - 1)
      /\ InChar(device.length) <= Fragment => g.offset = 0
      /\ \A i \in 1..Len(waiting) : IsName(waiting[i]) =>
            waiting[i].offset = g.offset /\ g.nameSent /\ ~g.moreName
      /\ \A i, j \in 1..Len(waiting) : IsName(waiting[i]) /\ IsName(waiting[j]) => i = j
  BY DEF NameInv
<1> HIDE DEF s, new, r
<1>6. /\ \A i \in 1..Len(waiting) : (waiting \o new)[i] = waiting[i]
      /\ \A i \in 1..Len(waiting \o new) :
            i \in 1..Len(waiting)
            \/ (i - Len(waiting) \in 1..Len(new)
                /\ (waiting \o new)[i] = new[i - Len(waiting)])
  BY <1>3
<1>7. waiting \o new \in Seq(Request)
  BY <1>3
(* No two are asked for at a time. *)
<1>8. /\ \A i \in 1..Len(waiting \o new) : IsName((waiting \o new)[i]) =>
            (waiting \o new)[i].offset = g.offset /\ s.nameSent /\ ~s.moreName
      /\ \A i, j \in 1..Len(waiting \o new) :
            IsName((waiting \o new)[i]) /\ IsName((waiting \o new)[j]) => i = j
  <2>1. CASE /\ \A i \in 1..Len(new) : ~IsName(new[i])
             /\ s.nameSent = g.nameSent /\ s.moreName = g.moreName
    BY <1>5, <1>6, <2>1
  <2>2. CASE /\ NameDue(g) /\ new = <<[op |-> "name_req", offset |-> g.offset]>>
             /\ s.nameSent /\ ~s.moreName
    <3>1. \A i \in 1..Len(waiting) : ~IsName(waiting[i])
      BY <1>5, <2>2 DEF NameDue
    <3>2. Len(new) = 1 /\ new[1].offset = g.offset
      BY <2>2
    <3>3. \A i \in 1..Len(waiting \o new) : IsName((waiting \o new)[i]) =>
              i = Len(waiting) + 1 /\ (waiting \o new)[i] = new[1]
      BY <1>6, <3>1, <3>2
    <3>4. QED
      BY <2>2, <3>2, <3>3
  <2>3. QED
    BY <1>4, <2>1, <2>2
<1>9. CASE p.op # "name_res"
  <2>1. r \in Reply /\ SameName(s, r)
    BY <1>2, <1>3, <1>9, OtherTypes DEF r
  <2>2. /\ g' \in Globals /\ log' \in Log /\ exited' \in BOOLEAN
        /\ g'.offset = g.offset /\ g'.name = g.name /\ g'.nameSent = s.nameSent
        /\ g'.moreName = s.moreName /\ log'.names = log.names
    BY <1>1, <1>3, <2>1 DEF Reply, SameName
  <2>3. TypeOK'
    BY <1>1, <1>2, <1>7, <2>2 DEF TypeOK
  <2>4. NameInv(g, asked)'
    BY <1>1, <1>5, <1>8, <2>2 DEF NameInv, InChar
  <2>5. NamesAreWhole'
    BY <1>1, <1>2, <2>2 DEF NamesAreWhole, InChar
  <2>6. QED
    BY <2>3, <2>4, <2>5 DEF IInv
<1>10. CASE p.op = "name_res"
  <2>1. ~NameDue(g)
    BY <1>10 DEF NameDue
  <2>2. /\ \A i \in 1..Len(new) : ~IsName(new[i])
        /\ s.nameSent
    BY <1>4, <1>10, <2>1
  <2>3. \A i \in 1..Len(waiting \o new) : ~IsName((waiting \o new)[i])
    BY <1>6, <1>10, <2>2
  <2>4. /\ r \in Reply
        /\ r.g.name = 0..(r.g.offset - 1)
        /\ InChar(device.length) <= Fragment => r.g.offset = 0
        /\ \A bytes \in r.log.names :
              \/ bytes = 0..(device.length - 1)
              \/ InChar(device.length) < 0 /\ bytes = {}
    BY <1>2, <1>3, <1>5, <1>10, <2>2, NameTypes DEF r
  <2>5. g' \in Globals /\ log' \in Log /\ exited' \in BOOLEAN
    BY <1>1, <2>4 DEF Reply
  <2>6. TypeOK'
    BY <1>1, <1>2, <1>7, <2>5 DEF TypeOK
  <2>7. NameInv(g, asked)'
    BY <1>1, <2>3, <2>4 DEF NameInv, InChar
  <2>8. NamesAreWhole'
    BY <1>1, <2>4 DEF NamesAreWhole, InChar
  <2>9. QED
    BY <2>6, <2>7, <2>8 DEF IInv
<1>11. QED
  BY <1>9, <1>10

LEMMA AnswersKeep ==
    ASSUME IInv, DeviceAnswers
    PROVE  IInv'
<1> DEFINE head == Head(asked)
           tail == Tail(asked)
<1>1. /\ asked \in Seq(Request) /\ asked # <<>> /\ device \in DeviceKind
      /\ Receive(Answer(head), tail) /\ others' = others /\ others \in 0..MaxOthers
  BY DEF IInv, TypeOK, DeviceAnswers
<1>2. /\ head \in Request /\ tail \in Seq(Request) /\ head = asked[1]
      /\ 1 \in 1..Len(asked)
      /\ \A i \in 1..Len(tail) : i + 1 \in 1..Len(asked) /\ tail[i] = asked[i + 1]
  BY <1>1
<1>3. NameInv(g, asked)
  BY DEF IInv
<1> HIDE DEF head, tail
<1>4. NameInv(g, tail)
  BY <1>2, <1>3 DEF NameInv
<1>5. IsName(head) => /\ head.offset = g.offset /\ g.nameSent /\ ~g.moreName
                      /\ \A i \in 1..Len(tail) : ~IsName(tail[i])
  BY <1>2, <1>3 DEF NameInv
<1>6. /\ Answer(head) \in Packet
      /\ Answer(head).op = "name_res" =>
            /\ IsName(head) /\ Answer(head).offset = head.offset
            /\ Answer(head).length = device.length
  BY <1>1, <1>2, AnswerTypes
<1>7. QED
  BY <1>1, <1>2, <1>4, <1>5, <1>6, ReceiveKeeps

LEMMA OtherKeeps ==
    ASSUME IInv, OtherPacket
    PROVE  IInv'
<1>1. [op |-> "other"] \in Packet
  BY DEF Packet
<1>2. asked \in Seq(Request) /\ NameInv(g, asked) /\ others' \in 0..MaxOthers
  BY LmpAssumption DEF IInv, TypeOK, OtherPacket
<1>3. Receive([op |-> "other"], asked)
  BY DEF OtherPacket
<1>4. QED
  BY <1>1, <1>2, <1>3, ReceiveKeeps

LEMMA Invariance == Spec => []IInv
<1>1. Init => IInv
  <2> SUFFICES ASSUME Init PROVE IInv
    OBVIOUS
  <2>1. <<>> \in Seq(Request) /\ Len(<<>>) = 0
    OBVIOUS
  <2>2. g \in Globals /\ g.name = {} /\ g.offset = 0
    BY DEF Init, Globals
  <2>3. log \in Log /\ log.names = {}
    BY DEF Init, Log
  <2>4. 0 \in 0..MaxOthers
    BY LmpAssumption
  <2>5. TypeOK
    BY <2>1, <2>2, <2>3, <2>4 DEF Init, TypeOK
  <2>6. NameInv(g, asked)
    BY <2>1, <2>2 DEF Init, NameInv
  <2>7. QED
    BY <2>3, <2>5, <2>6 DEF IInv, NamesAreWhole
<1>2. IInv /\ [Next]_vars => IInv'
  <2> SUFFICES ASSUME IInv, [Next]_vars PROVE IInv'
    OBVIOUS
  <2>1. ASSUME UNCHANGED vars PROVE IInv'
    BY <2>1 DEF vars, IInv, TypeOK, NameInv, NamesAreWhole, InChar
  <2>2. QED
    BY <2>1, AnswersKeep, OtherKeeps DEF Next, Ended
<1>3. QED
  BY <1>1, <1>2, PTL DEF Spec

(* The globals of the module, its log and the requests on their way stay in *)
(* their types, whatever the device answers.                               *)
THEOREM LmpTypes == Spec => []TypeOK
<1>1. IInv => TypeOK
  BY DEF IInv
<1>2. QED
  BY <1>1, Invariance, PTL

(* A name in BTC_2THPRINT.log is the device's whole name, of any length,   *)
(* although g_max_offset_so_far and gMoreNameNeeded are shared by every     *)
(* packet that comes between two fragments; except a name of 128 bytes or   *)
(* more where char is signed, which is logged as empty.                     *)
THEOREM WholeNamesAreLogged == Spec => []NamesAreWhole
<1>1. IInv => NamesAreWhole
  BY DEF IInv
<1>2. QED
  BY <1>1, Invariance, PTL

-----------------------------------------------------------------------------
(* The order of the requests.                                              *)

(* A request that waits, and a version that no name is waited for before. *)
Has(queue, op) == \E i \in 1..Len(queue) : queue[i].op = op

VersionFirst(queue) ==
    \E i \in 1..Len(queue) :
        /\ queue[i].op = "version_req"
        /\ \A j \in 1..(i - 1) : queue[j].op # "name_req"

FeaturesFirst(queue) == Len(queue) >= 1 /\ queue[1].op = "features_req"

PagesFirst(queue) ==
    \/ Len(queue) >= 1 /\ queue[1].op = "features_req_ext"
    \/ Len(queue) >= 2 /\ queue[1].op = "features_req" /\ queue[2].op = "features_req_ext"

Once(queue, op) ==
    \A i, j \in 1..Len(queue) : queue[i].op = op /\ queue[j].op = op => i = j

(* The requests go out in their order, and are answered in it: the first    *)
(* two are at the front of the queue until they are, and a version is asked *)
(* for once at a time, after the name.                                      *)
OrderInv(s, queue) ==
    /\ s.versionSent => s.nameSent
    /\ s.nameSent => s.extSent # 0
    /\ s.extSent # 0 => s.featuresSent
    /\ ~s.featuresSent => queue = <<>>
    /\ s.extSent = 0 => queue = <<>> \/ queue = <<[op |-> "features_req"]>>
    /\ s.featuresSent => "features" \in s.have \/ FeaturesFirst(queue)
    /\ s.extSent # 0 /\ device.extended => "pages" \in s.have \/ PagesFirst(queue)
    /\ Has(queue, "version_req") => s.versionSent
    /\ Once(queue, "version_req")

Missing(s) == "name" \notin s.have

(* As long as the name is not complete, a version is only asked for behind  *)
(* a fragment of it: each second that is waited stands for a fragment.      *)
WaitInv(s, queue, waits) ==
    /\ s.nameSent /\ ~s.moreName /\ Missing(s) => Has(queue, "name_req")
    /\ Has(queue, "name_req") => s.nameSent /\ ~s.moreName
    /\ Once(queue, "name_req")
    /\ ~Missing(s) => s.nameSent /\ ~s.moreName /\ ~Has(queue, "name_req")
    /\ ~s.nameSent => ~s.moreName
    /\ s.offset > 0 => s.offset < InChar(device.length)
    /\ device.extended =>
          /\ Missing(s) => waits * Fragment <= s.offset
          /\ Missing(s) /\ VersionFirst(queue) => (waits + 1) * Fragment <= s.offset
          /\ waits <= Fragments

-----------------------------------------------------------------------------
(* What joins the queue, and what leaves it. *)
LEMMA QueueGrows ==
    ASSUME NEW queue \in Seq(Request), NEW r \in Request
    PROVE  LET q == queue \o <<r>>
           IN  /\ \A op : Has(q, op) <=> Has(queue, op) \/ r.op = op
               /\ VersionFirst(q) <=>
                     VersionFirst(queue) \/ (r.op = "version_req" /\ ~Has(queue, "name_req"))
               /\ FeaturesFirst(queue) => FeaturesFirst(q)
               /\ PagesFirst(queue) => PagesFirst(q)
               /\ queue = <<>> => q = <<r>>
<1> DEFINE q == queue \o <<r>>
           n == Len(queue)
<1>1. /\ n \in Nat /\ Len(q) = n + 1 /\ q[n + 1] = r
      /\ \A i \in 1..n : q[i] = queue[i]
  OBVIOUS
<1>2. queue = <<>> => q = <<r>>
  OBVIOUS
<1> HIDE DEF q
<1>3. \A op : Has(q, op) <=> Has(queue, op) \/ r.op = op
  <2> TAKE op
  <2>1. ASSUME Has(q, op) PROVE Has(queue, op) \/ r.op = op
    <3>1. PICK i \in 1..Len(q) : q[i].op = op
      BY <2>1 DEF Has
    <3>2. i \in 1..n \/ i = n + 1
      BY <1>1
    <3>3. QED
      BY <1>1, <3>1, <3>2 DEF Has
  <2>2. ASSUME Has(queue, op) PROVE Has(q, op)
    <3>1. PICK i \in 1..n : queue[i].op = op
      BY <2>2 DEF Has
    <3>2. i \in 1..Len(q) /\ q[i].op = op
      BY <1>1, <3>1
    <3>3. QED
      BY <3>2 DEF Has
  <2>3. ASSUME r.op = op PROVE Has(q, op)
    <3>1. n + 1 \in 1..Len(q) /\ q[n + 1].op = op
      BY <1>1, <2>3
    <3>2. QED
      BY <3>1 DEF Has
  <2>4. QED
    BY <2>1, <2>2, <2>3
<1>4. ASSUME VersionFirst(q)
      PROVE  VersionFirst(queue) \/ (r.op = "version_req" /\ ~Has(queue, "name_req"))
  <2>1. PICK i \in 1..Len(q) : /\ q[i].op = "version_req"
                               /\ \A j \in 1..(i - 1) : q[j].op # "name_req"
    BY <1>4 DEF VersionFirst
  <2>2. CASE i \in 1..n
    <3>1. queue[i].op = "version_req" /\ \A j \in 1..(i - 1) : queue[j].op # "name_req"
      BY <1>1, <2>1, <2>2
    <3>2. QED
      BY <2>2, <3>1 DEF VersionFirst
  <2>3. CASE i = n + 1
    <3>1. r.op = "version_req" /\ \A j \in 1..n : queue[j].op # "name_req"
      BY <1>1, <2>1, <2>3
    <3>2. QED
      BY <3>1 DEF Has
  <2>4. QED
    BY <1>1, <2>2, <2>3
<1>5. ASSUME VersionFirst(queue) PROVE VersionFirst(q)
  <2>1. PICK i \in 1..n : /\ queue[i].op = "version_req"
                          /\ \A j \in 1..(i - 1) : queue[j].op # "name_req"
    BY <1>5 DEF VersionFirst
  <2>2. /\ i \in 1..Len(q) /\ q[i].op = "version_req"
        /\ \A j \in 1..(i - 1) : q[j].op # "name_req"
    BY <1>1, <2>1
  <2>3. QED
    BY <2>2 DEF VersionFirst
<1>6. ASSUME r.op = "version_req", ~Has(queue, "name_req") PROVE VersionFirst(q)
  <2>1. /\ n + 1 \in 1..Len(q) /\ q[n + 1].op = "version_req"
        /\ \A j \in 1..((n + 1) - 1) : q[j].op # "name_req"
    BY <1>1, <1>6 DEF Has
  <2>2. QED
    BY <2>1 DEF VersionFirst
<1>7. FeaturesFirst(queue) => FeaturesFirst(q)
  BY <1>1 DEF FeaturesFirst
<1>8. PagesFirst(queue) => PagesFirst(q)
  BY <1>1 DEF PagesFirst
<1>9. QED
  BY <1>2, <1>3, <1>4, <1>5, <1>6, <1>7, <1>8 DEF q

LEMMA QueueShrinks ==
    ASSUME NEW queue \in Seq(Request), queue # <<>>
    PROVE  LET q == Tail(queue)
               r == Head(queue)
           IN  /\ r \in Request /\ q \in Seq(Request)
               /\ \A op : Has(queue, op) <=> Has(q, op) \/ r.op = op
               /\ VersionFirst(queue) <=>
                     r.op = "version_req" \/ (r.op # "name_req" /\ VersionFirst(q))
               /\ FeaturesFirst(queue) <=> r.op = "features_req"
               /\ PagesFirst(queue) =>
                     r.op = "features_req_ext" \/ (r.op = "features_req" /\ PagesFirst(q))
               /\ Len(queue) <= 1 => q = <<>>
<1> DEFINE q == Tail(queue)
           r == Head(queue)
           n == Len(q)
<1>1. /\ q \in Seq(Request) /\ n \in Nat /\ Len(queue) = n + 1 /\ queue[1] = r
      /\ r \in Request
      /\ \A i \in 1..n : q[i] = queue[i + 1]
  OBVIOUS
<1>2. Len(queue) <= 1 => q = <<>>
  BY <1>1
<1> HIDE DEF q, r
<1>3. \A op : Has(queue, op) <=> Has(q, op) \/ r.op = op
  <2> TAKE op
  <2>1. ASSUME Has(queue, op) PROVE Has(q, op) \/ r.op = op
    <3>1. PICK i \in 1..Len(queue) : queue[i].op = op
      BY <2>1 DEF Has
    <3>2. i = 1 \/ (i - 1 \in 1..n /\ q[i - 1] = queue[i])
      BY <1>1
    <3>3. QED
      BY <1>1, <3>1, <3>2 DEF Has
  <2>2. ASSUME Has(q, op) PROVE Has(queue, op)
    <3>1. PICK i \in 1..n : q[i].op = op
      BY <2>2 DEF Has
    <3>2. i + 1 \in 1..Len(queue) /\ queue[i + 1].op = op
      BY <1>1, <3>1
    <3>3. QED
      BY <3>2 DEF Has
  <2>3. ASSUME r.op = op PROVE Has(queue, op)
    <3>1. 1 \in 1..Len(queue) /\ queue[1].op = op
      BY <1>1, <2>3
    <3>2. QED
      BY <3>1 DEF Has
  <2>4. QED
    BY <2>1, <2>2, <2>3
<1>4. ASSUME VersionFirst(queue)
      PROVE  r.op = "version_req" \/ (r.op # "name_req" /\ VersionFirst(q))
  <2>1. PICK i \in 1..Len(queue) : /\ queue[i].op = "version_req"
                                   /\ \A j \in 1..(i - 1) : queue[j].op # "name_req"
    BY <1>4 DEF VersionFirst
  <2>2. CASE i = 1
    BY <1>1, <2>1, <2>2
  <2>3. CASE i # 1
    <3>1. r.op # "name_req"
      BY <1>1, <2>1, <2>3
    <3>2. i - 1 \in 1..n /\ q[i - 1].op = "version_req"
      BY <1>1, <2>1, <2>3
    <3>3. ASSUME NEW j \in 1..((i - 1) - 1) PROVE q[j].op # "name_req"
      <4>1. j + 1 \in 1..(i - 1) /\ j \in 1..n
        BY <1>1, <2>3
      <4>2. QED
        BY <1>1, <2>1, <4>1
    <3>4. QED
      BY <3>1, <3>2, <3>3 DEF VersionFirst
  <2>4. QED
    BY <2>2, <2>3
<1>5. ASSUME r.op = "version_req" PROVE VersionFirst(queue)
  <2>1. /\ 1 \in 1..Len(queue) /\ queue[1].op = "version_req"
        /\ \A j \in 1..(1 - 1) : queue[j].op # "name_req"
    BY <1>1, <1>5
  <2>2. QED
    BY <2>1 DEF VersionFirst
<1>6. ASSUME r.op # "name_req", VersionFirst(q) PROVE VersionFirst(queue)
  <2>1. PICK i \in 1..n : /\ q[i].op = "version_req"
                          /\ \A j \in 1..(i - 1) : q[j].op # "name_req"
    BY <1>6 DEF VersionFirst
  <2>2. i + 1 \in 1..Len(queue) /\ queue[i + 1].op = "version_req"
    BY <1>1, <2>1
  <2>3. ASSUME NEW j \in 1..((i + 1) - 1) PROVE queue[j].op # "name_req"
    <3>1. j = 1 \/ (j - 1 \in 1..(i - 1) /\ j - 1 \in 1..n /\ (j - 1) + 1 = j)
      BY <1>1, <2>1
    <3>2. QED
      BY <1>1, <1>6, <2>1, <3>1
  <2>4. QED
    BY <2>2, <2>3 DEF VersionFirst
<1>7. FeaturesFirst(queue) <=> r.op = "features_req"
  BY <1>1 DEF FeaturesFirst
<1>8. ASSUME PagesFirst(queue)
      PROVE  r.op = "features_req_ext" \/ (r.op = "features_req" /\ PagesFirst(q))
  BY <1>1, <1>8 DEF PagesFirst
<1>9. QED
  BY <1>1, <1>2, <1>3, <1>4, <1>5, <1>6, <1>7, <1>8 DEF q, r

LEMMA OnceGrows ==
    ASSUME NEW queue \in Seq(Request), NEW r \in Request, NEW op,
           Once(queue, op), r.op = op => ~Has(queue, op)
    PROVE  Once(queue \o <<r>>, op)
<1> DEFINE q == queue \o <<r>>
           n == Len(queue)
<1>1. /\ n \in Nat /\ Len(q) = n + 1 /\ q[n + 1] = r
      /\ \A i \in 1..n : q[i] = queue[i]
  OBVIOUS
<1> HIDE DEF q
<1>2. \A i \in 1..Len(q) : i \in 1..n \/ i = n + 1
  BY <1>1
<1>3. \A i \in 1..Len(q) : q[i].op = op /\ r.op = op => i = n + 1
  BY <1>1, <1>2 DEF Has
<1>4. Once(q, op)
  BY <1>1, <1>2, <1>3 DEF Once
<1>5. QED
  BY <1>4 DEF q

LEMMA OnceShrinks ==
    ASSUME NEW queue \in Seq(Request), queue # <<>>, NEW op, Once(queue, op)
    PROVE  /\ Once(Tail(queue), op)
           /\ Head(queue).op = op => ~Has(Tail(queue), op)
<1> DEFINE q == Tail(queue)
<1>1. /\ Len(q) \in Nat /\ Len(queue) = Len(q) + 1 /\ queue[1] = Head(queue)
      /\ \A i \in 1..Len(q) : q[i] = queue[i + 1] /\ i + 1 \in 1..Len(queue) /\ i + 1 # 1
      /\ 1 \in 1..Len(queue)
  OBVIOUS
<1> HIDE DEF q
<1>2. Once(q, op)
  <2> SUFFICES ASSUME NEW i \in 1..Len(q), NEW j \in 1..Len(q), q[i].op = op, q[j].op = op
               PROVE  i = j
    BY DEF Once
  <2>1. i + 1 = j + 1
    BY <1>1 DEF Once
  <2>2. QED
    BY <1>1, <2>1
<1>3. Head(queue).op = op => ~Has(q, op)
  BY <1>1 DEF Once, Has
<1>4. QED
  BY <1>2, <1>3 DEF q

-----------------------------------------------------------------------------
(* A request joins the queue. *)
SameProgress(s, t) ==
    /\ t.have = s.have /\ t.offset = s.offset
    /\ t.nameSent = s.nameSent /\ t.moreName = s.moreName

Joins(queue, op, q) ==
    /\ Has(q, "name_req") <=> Has(queue, "name_req") \/ op = "name_req"
    /\ Has(q, "version_req") <=> Has(queue, "version_req") \/ op = "version_req"
    /\ VersionFirst(q) <=>
          VersionFirst(queue) \/ (op = "version_req" /\ ~Has(queue, "name_req"))
    /\ FeaturesFirst(queue) => FeaturesFirst(q)
    /\ PagesFirst(queue) => PagesFirst(q)
    /\ \A x \in {"name_req", "version_req"} :
          (op = x => ~Has(queue, x)) /\ Once(queue, x) => Once(q, x)

LEMMA RequestJoins ==
    ASSUME NEW queue \in Seq(Request), NEW r \in Request
    PROVE  Joins(queue, r.op, queue \o <<r>>)
BY QueueGrows, OnceGrows DEF Joins

LEMMA SendingKeepsOrder ==
    ASSUME NEW s \in Globals, NEW queue \in Seq(Request), OrderInv(s, queue),
           NEW waits \in Nat, WaitInv(s, queue, waits)
    PROVE  /\ OrderInv(AfterSending(s), queue \o ToSend(s))
           /\ WaitInv(AfterSending(s), queue \o ToSend(s), waits)
<1> DEFINE t == AfterSending(s)
           q == queue \o ToSend(s)
<1>1. CASE ~s.featuresSent
  <2> DEFINE r == [op |-> "features_req"]
  <2>1. q = queue \o <<r>> /\ r \in Request /\ r.op = "features_req"
    BY <1>1 DEF ToSend, Request, Globals
  <2>2. Joins(queue, "features_req", q)
    BY <2>1, RequestJoins
  <2>a. queue = <<>> /\ s.extSent = 0
    BY <1>1 DEF OrderInv
  <2>b. q = <<r>>
    BY <2>1, <2>a, QueueGrows
  <2>c. Len(<<r>>) = 1 /\ <<r>>[1] = r
    OBVIOUS
  <2>3. queue = <<>> /\ q = <<r>> /\ FeaturesFirst(q) /\ s.extSent = 0
    BY <2>1, <2>a, <2>b, <2>c DEF FeaturesFirst
  <2>4. /\ SameProgress(s, t) /\ t.featuresSent /\ t.extSent = s.extSent
        /\ t.versionSent = s.versionSent
    BY <1>1 DEF AfterSending, Globals, SameProgress
  <2> HIDE DEF t, q
  <2>5. OrderInv(t, q)
    BY <1>1, <2>1, <2>2, <2>3, <2>4 DEF Joins, OrderInv, SameProgress
  <2>6. WaitInv(t, q, waits)
    BY <1>1, <2>2, <2>3, <2>4 DEF Joins, OrderInv, WaitInv, SameProgress, Missing
  <2>7. QED
    BY <2>5, <2>6 DEF t, q
<1>2. CASE s.featuresSent /\ s.extSent = 0
  <2> DEFINE r == [op |-> "features_req_ext", page |-> s.page]
  <2>1. q = queue \o <<r>> /\ r \in Request /\ r.op = "features_req_ext"
    BY <1>2 DEF ToSend, Request, Globals
  <2>2. Joins(queue, "features_req_ext", q)
    BY <2>1, RequestJoins
  <2>a. queue = <<>> \/ queue = <<[op |-> "features_req"]>>
    BY <1>2 DEF OrderInv
  <2>3. PagesFirst(q)
    BY <2>1, <2>a DEF PagesFirst
  <2>4. /\ SameProgress(s, t) /\ t.featuresSent /\ t.extSent = 1
        /\ t.versionSent = s.versionSent
    BY <1>2 DEF AfterSending, Globals, SameProgress
  <2> HIDE DEF t, q, r
  <2>5. OrderInv(t, q)
    BY <1>2, <2>1, <2>2, <2>3, <2>4 DEF Joins, OrderInv, SameProgress
  <2>6. WaitInv(t, q, waits)
    BY <1>2, <2>2, <2>3, <2>4 DEF Joins, OrderInv, WaitInv, SameProgress, Missing
  <2>7. QED
    BY <2>5, <2>6 DEF t, q
<1>3. CASE s.featuresSent /\ s.extSent # 0 /\ PageDue(s)
  <2> DEFINE r == [op |-> "features_req_ext", page |-> s.page + 1]
  <2>1. q = queue \o <<r>> /\ r \in Request /\ r.op = "features_req_ext"
    BY <1>3 DEF ToSend, Request, Globals
  <2>2. Joins(queue, "features_req_ext", q)
    BY <2>1, RequestJoins
  <2>3. s.extSent + 1 # 0
    BY DEF Globals
  <2>4. /\ SameProgress(s, t) /\ t.featuresSent /\ t.extSent = s.extSent + 1
        /\ t.versionSent = s.versionSent
    BY <1>3 DEF AfterSending, Globals, SameProgress
  <2> HIDE DEF t, q, r
  <2>5. OrderInv(t, q)
    BY <1>3, <2>1, <2>2, <2>3, <2>4 DEF Joins, OrderInv, SameProgress
  <2>6. WaitInv(t, q, waits)
    BY <1>3, <2>2, <2>3, <2>4 DEF Joins, OrderInv, WaitInv, SameProgress, Missing
  <2>7. QED
    BY <2>5, <2>6 DEF t, q
<1>4. CASE s.featuresSent /\ s.extSent # 0 /\ ~PageDue(s) /\ NameDue(s)
  <2> DEFINE r == [op |-> "name_req", offset |-> s.offset]
  <2>1. q = queue \o <<r>> /\ r \in Request /\ r.op = "name_req"
    BY <1>4 DEF ToSend, Request, Globals
  <2>2. Joins(queue, "name_req", q)
    BY <2>1, RequestJoins
  <2>3. Missing(s) /\ ~Has(queue, "name_req")
    BY <1>4 DEF NameDue, WaitInv
  <2>4. /\ t.have = s.have /\ t.offset = s.offset /\ t.nameSent /\ ~t.moreName
        /\ t.featuresSent /\ t.extSent = s.extSent /\ t.versionSent = s.versionSent
    BY <1>4 DEF AfterSending, Globals, SameProgress
  <2> HIDE DEF t, q, r
  <2>5. OrderInv(t, q)
    BY <1>4, <2>1, <2>2, <2>3, <2>4 DEF Joins, OrderInv, SameProgress
  <2>6. WaitInv(t, q, waits)
    BY <1>4, <2>2, <2>3, <2>4 DEF Joins, OrderInv, WaitInv, SameProgress, Missing
  <2>7. QED
    BY <2>5, <2>6 DEF t, q
<1>5. CASE s.featuresSent /\ s.extSent # 0 /\ ~PageDue(s) /\ ~NameDue(s) /\ ~s.versionSent
  <2> DEFINE r == [op |-> "version_req"]
  <2>1. q = queue \o <<r>> /\ r \in Request /\ r.op = "version_req"
    BY <1>5 DEF ToSend, Request, Globals
  <2>2. Joins(queue, "version_req", q)
    BY <2>1, RequestJoins
  <2>3. s.nameSent /\ ~s.moreName
    BY <1>5 DEF NameDue
  <2>4. /\ SameProgress(s, t) /\ t.featuresSent /\ t.extSent = s.extSent
        /\ t.versionSent
    BY <1>5 DEF AfterSending, Globals, SameProgress
  <2> HIDE DEF t, q, r
  <2>5. OrderInv(t, q)
    BY <1>5, <2>1, <2>2, <2>3, <2>4 DEF Joins, OrderInv, SameProgress
  <2>6. WaitInv(t, q, waits)
    BY <1>5, <2>2, <2>3, <2>4 DEF Joins, OrderInv, WaitInv, SameProgress, Missing
  <2>7. QED
    BY <2>5, <2>6 DEF t, q
<1>6. CASE s.featuresSent /\ s.extSent # 0 /\ ~PageDue(s) /\ ~NameDue(s) /\ s.versionSent
  <2>1. q = queue
    BY <1>6 DEF ToSend
  <2>2. t = s
    BY <1>6 DEF AfterSending, Globals
  <2>3. QED
    BY <2>1, <2>2
<1>7. QED
  BY <1>1, <1>2, <1>3, <1>4, <1>5, <1>6

(* As many seconds as fragments that are there are no more than there are. *)
LEMMA FragmentsCount ==
    ASSUME NEW x \in Nat, NEW n \in Nat, x * Fragment < n
    PROVE  x <= (n + Fragment - 1) \div Fragment
<1> DEFINE d == (n + Fragment - 1) \div Fragment
<1>1. Fragment \in Nat \ {0}
  BY LmpAssumption
<1>2. d \in Int /\ Fragment * d <= n + Fragment - 1 /\ n + Fragment - 1 < Fragment * (d + 1)
  BY <1>1
<1> HIDE DEF d
<1>3. CASE x <= d
  BY <1>3 DEF d
<1>4. CASE x >= d + 1
  <2>1. x * Fragment >= (d + 1) * Fragment
    BY <1>1, <1>2, <1>4
  <2>2. (d + 1) * Fragment = Fragment * (d + 1)
    BY <1>1, <1>2
  <2>3. (d + 1) * Fragment > n + Fragment - 1
    BY <1>2, <2>2
  <2>4. QED
    BY <1>1, <1>2, <2>1, <2>3
<1>5. QED
  BY <1>2, <1>3, <1>4

LEMMA LengthIsNat ==
    ASSUME device \in DeviceKind
    PROVE  device.length \in Nat
<1>1. \A x \in 0..255 : x \in Nat
  OBVIOUS
<1>2. device.length \in 0..255
  BY DeviceTypes
<1>3. QED
  BY <1>1, <1>2

(* The first request of the queue is answered. *)
Leaves(queue, op, q) ==
    /\ Has(queue, "name_req") <=> Has(q, "name_req") \/ op = "name_req"
    /\ Has(queue, "version_req") <=> Has(q, "version_req") \/ op = "version_req"
    /\ VersionFirst(queue) <=> op = "version_req" \/ (op # "name_req" /\ VersionFirst(q))
    /\ FeaturesFirst(queue) <=> op = "features_req"
    /\ PagesFirst(queue) =>
          op = "features_req_ext" \/ (op = "features_req" /\ PagesFirst(q))
    /\ \A x \in {"name_req", "version_req"} :
          Once(queue, x) => Once(q, x) /\ (op = x => ~Has(q, x))
    /\ queue = <<[op |-> "features_req"]>> => q = <<>>

LEMMA RequestLeaves ==
    ASSUME NEW queue \in Seq(Request), queue # <<>>
    PROVE  /\ Leaves(queue, Head(queue).op, Tail(queue))
           /\ VersionFirst(Tail(queue)) => Has(Tail(queue), "version_req")
<1>1. queue = <<[op |-> "features_req"]>> => Tail(queue) = <<>>
  OBVIOUS
<1>2. VersionFirst(Tail(queue)) => Has(Tail(queue), "version_req")
  BY DEF VersionFirst, Has
<1>3. QED
  BY <1>1, <1>2, QueueShrinks, OnceShrinks DEF Leaves

LEMMA AnswerKeepsOrder ==
    ASSUME NEW s \in Globals, NEW queue \in Seq(Request), queue # <<>>, OrderInv(s, queue),
           log \in Log, device \in DeviceKind, WaitInv(s, queue, log.waits),
           IsName(Head(queue)) => Head(queue).offset = s.offset
    PROVE  LET r == AfterPacket(s, Answer(Head(queue)))
           IN  OrderInv(r.g, Tail(queue)) /\ WaitInv(r.g, Tail(queue), r.log.waits)
<1> DEFINE head == Head(queue)
           p == Answer(head)
           q == Tail(queue)
           r == AfterPacket(s, p)
           t == r.g
<1>1. Leaves(queue, head.op, q) /\ (VersionFirst(q) => Has(q, "version_req"))
  BY RequestLeaves
<1>2. head \in Request
  OBVIOUS
<1>3. Fragment \in Nat \ {0} /\ log.waits \in Nat /\ s.offset \in Nat
  BY LmpAssumption DEF Log, Globals
<1>4. /\ InChar(device.length) \in Int /\ device.length \in Nat
      /\ InChar(device.length) = device.length \/ InChar(device.length) < 0
  BY DeviceTypes, LengthIsNat
<1> HIDE DEF head, q
<1>5. CASE head.op = "features_req"
  <2>1. /\ r.log = log /\ t = [s EXCEPT !.have = s.have \cup {"features"}]
    BY <1>5 DEF Answer, AfterPacket, FeaturesRes
  <2>2. /\ t.have = s.have \cup {"features"} /\ t.offset = s.offset
        /\ t.nameSent = s.nameSent /\ t.moreName = s.moreName /\ t.extSent = s.extSent
        /\ t.featuresSent = s.featuresSent /\ t.versionSent = s.versionSent
    BY <2>1 DEF Globals
  <2> HIDE DEF r
  <2>3. s.featuresSent
    BY <1>1, <1>5 DEF OrderInv, Leaves, FeaturesFirst
  <2>4. OrderInv(t, q)
    BY <1>1, <1>5, <2>2, <2>3 DEF OrderInv, Leaves
  <2>5. WaitInv(t, q, log.waits)
    BY <1>1, <1>5, <2>2 DEF WaitInv, Leaves, Missing
  <2>6. QED
    BY <2>1, <2>4, <2>5 DEF r, q, head
<1>6. CASE head.op = "features_req_ext"
  <2>1. /\ r.log.waits = log.waits /\ t.offset = s.offset
        /\ t.nameSent = s.nameSent /\ t.moreName = s.moreName /\ t.extSent = s.extSent
        /\ t.featuresSent = s.featuresSent /\ t.versionSent = s.versionSent
        /\ (t.have = s.have /\ ~device.extended) \/ t.have = s.have \cup {"pages"}
    <3>1. CASE device.extended
      BY <1>6, <3>1 DEF Answer, AfterPacket, FeaturesResExt, Globals, Log
    <3>2. CASE ~device.extended
      BY <1>6, <3>2 DEF Answer, AfterPacket, Ignored
    <3>3. QED
      BY <3>1, <3>2
  <2> HIDE DEF r
  <2>2. s.featuresSent /\ s.extSent # 0
    BY <1>1, <1>6 DEF OrderInv, Leaves, FeaturesFirst
  <2>4. OrderInv(t, q)
    BY <1>1, <1>6, <2>1, <2>2 DEF OrderInv, Leaves
  <2>5. WaitInv(t, q, log.waits)
    BY <1>1, <1>6, <2>1 DEF WaitInv, Leaves, Missing
  <2>6. QED
    BY <2>1, <2>4, <2>5 DEF r, q, head
<1>7. CASE head.op = "name_req"
  <2> DEFINE n == InChar(device.length)
  <2>1. /\ p.op = "name_res" /\ p.offset = s.offset /\ p.length = device.length
        /\ r = NameRes(s, p)
    BY <1>7 DEF Answer, AfterPacket, IsName, head
  <2>2. /\ t.nameSent = s.nameSent /\ t.extSent = s.extSent /\ r.log.waits = log.waits
        /\ t.featuresSent = s.featuresSent /\ t.versionSent = s.versionSent
        /\ \/ /\ t.offset = 0 /\ t.moreName = s.moreName /\ t.have = s.have \cup {"name"}
           \/ /\ t.offset = s.offset + Fragment /\ t.offset < n
              /\ t.moreName /\ t.have = s.have
    <3>1. ASSUME NEW bytes PROVE LET x == NameDone(s, bytes)
                                 IN  /\ x.log.waits = log.waits /\ x.g.nameSent = s.nameSent
                                     /\ x.g.extSent = s.extSent /\ x.g.moreName = s.moreName
                                     /\ x.g.featuresSent = s.featuresSent
                                     /\ x.g.versionSent = s.versionSent /\ x.g.offset = 0
                                     /\ x.g.have = s.have \cup {"name"}
      BY DEF NameDone, Globals, Log
    <3> DEFINE end == s.offset + Fragment
    <3>2. ASSUME NEW name PROVE LET x == [s EXCEPT !.name = name, !.offset = end, !.moreName = TRUE]
                                IN  /\ x.nameSent = s.nameSent /\ x.extSent = s.extSent
                                    /\ x.moreName /\ x.featuresSent = s.featuresSent
                                    /\ x.versionSent = s.versionSent /\ x.offset = end
                                    /\ x.have = s.have
      BY DEF Globals
    <3>3. \/ \E bytes : r = NameDone(s, bytes)
          \/ /\ ~(end >= n)
             /\ \E name : r = [g |-> [s EXCEPT !.name = name, !.offset = end, !.moreName = TRUE],
                                log |-> log, exited |-> FALSE]
      BY <2>1 DEF NameRes
    <3> HIDE DEF r
    <3>4. ~(end >= n) => end < n
      BY <1>3, <1>4
    <3>5. CASE \E bytes : r = NameDone(s, bytes)
      BY <3>1, <3>5
    <3>6. ASSUME NEW name, ~(end >= n),
                 r = [g |-> [s EXCEPT !.name = name, !.offset = end, !.moreName = TRUE],
                      log |-> log, exited |-> FALSE]
          PROVE  /\ t.nameSent = s.nameSent /\ t.extSent = s.extSent /\ r.log.waits = log.waits
                 /\ t.featuresSent = s.featuresSent /\ t.versionSent = s.versionSent
                 /\ t.offset = s.offset + Fragment /\ t.offset < n
                 /\ t.moreName /\ t.have = s.have
      <4> DEFINE x == [s EXCEPT !.name = name, !.offset = end, !.moreName = TRUE]
      <4>1. r.g = x /\ r.log = log
        BY <3>6
      <4>2. QED
        BY <3>2, <3>4, <3>6, <4>1
    <3>7. QED
      BY <3>3, <3>5, <3>6
  <2> HIDE DEF r
  <2>3. s.nameSent /\ ~s.moreName /\ ~Has(q, "name_req")
    BY <1>1, <1>7 DEF WaitInv, Leaves
  <2>4. OrderInv(t, q)
    BY <1>1, <1>7, <2>2, <2>3 DEF OrderInv, Leaves
  <2>5. WaitInv(t, q, log.waits)
    <3>1. CASE t.offset = 0 /\ t.moreName = s.moreName /\ t.have = s.have \cup {"name"}
      BY <1>1, <1>7, <2>2, <2>3, <3>1 DEF WaitInv, Leaves, Missing
    <3>2. CASE /\ t.offset = s.offset + Fragment /\ t.offset < n
               /\ t.moreName /\ t.have = s.have
      <4>1. Missing(s)
        BY <1>1, <1>7 DEF WaitInv, Leaves
      <4>2. device.extended => log.waits * Fragment <= s.offset /\ log.waits <= Fragments
        BY <4>1 DEF WaitInv
      <4>3. (log.waits + 1) * Fragment = log.waits * Fragment + Fragment
            /\ log.waits * Fragment \in Nat
        BY <1>3
      <4>4. device.extended => /\ log.waits * Fragment <= t.offset
                               /\ (log.waits + 1) * Fragment <= t.offset
        BY <1>3, <3>2, <4>2, <4>3
      <4>5. QED
        BY <1>1, <1>7, <2>2, <2>3, <3>2, <4>2, <4>4 DEF WaitInv, Leaves, Missing
    <3>3. QED
      BY <2>2, <3>1, <3>2
  <2>6. QED
    BY <2>2, <2>4, <2>5 DEF r, q, head
<1>8. CASE head.op = "version_req"
  <2>1. r = VersionRes(s)
    BY <1>8 DEF Answer, AfterPacket
  <2>2. /\ t.nameSent = s.nameSent /\ t.moreName = s.moreName /\ t.extSent = s.extSent
        /\ t.featuresSent = s.featuresSent /\ t.offset = s.offset
        /\ t.have = s.have \cup {"version"}
        /\ \/ t.have = Part /\ r.log.waits = log.waits /\ t.versionSent = s.versionSent
           \/ t.have # Part /\ r.log.waits = log.waits + 1 /\ ~t.versionSent
    <3> DEFINE have == s.have \cup {"version"}
               u == [s EXCEPT !.have = have]
               v == [u EXCEPT !.versionSent = FALSE]
               l == [log EXCEPT !.waits = log.waits + 1]
    <3>1. u.have = have
      BY DEF Globals
    <3>2. IF have = Part THEN r = [g |-> u, log |-> log, exited |-> TRUE]
          ELSE r = [g |-> v, log |-> l, exited |-> FALSE]
      BY <2>1, <3>1 DEF VersionRes
    <3>3. /\ \A x \in {u, v} : /\ x.nameSent = s.nameSent /\ x.moreName = s.moreName
                                /\ x.extSent = s.extSent /\ x.featuresSent = s.featuresSent
                                /\ x.offset = s.offset /\ x.have = have
          /\ u.versionSent = s.versionSent /\ v.versionSent = FALSE
      BY DEF Globals
    <3>4. l.waits = log.waits + 1
      BY DEF Log
    <3> HIDE DEF u, v, l, have, r
    <3>5. CASE have = Part
      <4>1. r.g = u /\ r.log = log
        BY <3>2, <3>5
      <4>2. QED
        BY <3>3, <3>5, <4>1 DEF have
    <3>6. CASE have # Part
      <4>1. r.g = v /\ r.log = l
        BY <3>2, <3>6
      <4>2. QED
        BY <3>3, <3>4, <3>6, <4>1 DEF have
    <3>7. QED
      BY <3>5, <3>6
  <2> HIDE DEF r
  <2>3. /\ s.versionSent /\ s.nameSent /\ s.extSent # 0 /\ s.featuresSent
        /\ "features" \in s.have /\ (device.extended => "pages" \in s.have)
        /\ ~Has(q, "version_req") /\ ~VersionFirst(q)
    BY <1>1, <1>8 DEF OrderInv, Leaves
  <2>4. OrderInv(t, q)
    BY <1>1, <1>8, <2>2, <2>3 DEF OrderInv, Leaves
  <2>5. CASE t.have = Part /\ r.log.waits = log.waits /\ t.versionSent = s.versionSent
    <3>1. WaitInv(t, q, log.waits)
      BY <1>1, <1>8, <2>2, <2>3 DEF WaitInv, Leaves, Missing
    <3>2. QED
      BY <2>4, <2>5, <3>1 DEF r, q, head
  <2>6. CASE t.have # Part /\ r.log.waits = log.waits + 1 /\ ~t.versionSent
    <3>1. s.have \subseteq Part
      BY DEF Globals
    <3>2. device.extended => Missing(s)
      BY <2>2, <2>3, <2>6, <3>1 DEF Missing, Part
    <3>3. device.extended => (log.waits + 1) * Fragment <= s.offset
      BY <1>1, <1>8, <3>2 DEF WaitInv, Leaves
    <3>4. device.extended => log.waits + 1 <= Fragments
      <4> SUFFICES ASSUME device.extended PROVE log.waits + 1 <= Fragments
        OBVIOUS
      <4>1. (log.waits + 1) * Fragment = log.waits * Fragment + Fragment
            /\ log.waits * Fragment \in Nat
        BY <1>3
      <4>2. s.offset > 0
        BY <1>3, <3>3, <4>1
      <4>3. s.offset < device.length
        BY <1>3, <1>4, <4>2 DEF WaitInv
      <4>4. (log.waits + 1) * Fragment < device.length
        <5> DEFINE w == (log.waits + 1) * Fragment
        <5>1. w \in Nat
          BY <1>3
        <5> HIDE DEF w
        <5>2. w <= s.offset
          BY <3>3 DEF w
        <5>3. w < device.length
          BY <1>3, <1>4, <4>3, <5>1, <5>2
        <5>4. QED
          BY <5>3 DEF w
      <4>5. log.waits + 1 \in Nat /\ device.length \in Nat
        BY <1>3, <1>4
      <4>6. QED
        BY <4>4, <4>5, FragmentsCount DEF Fragments
    <3>5. WaitInv(t, q, log.waits + 1)
      BY <1>1, <1>8, <2>2, <2>3, <3>3, <3>4 DEF WaitInv, Leaves, Missing
    <3>6. QED
      BY <2>4, <2>6, <3>5 DEF r, q, head
  <2>7. QED
    BY <2>2, <2>5, <2>6
<1>9. QED
  BY <1>2, <1>5, <1>6, <1>7, <1>8 DEF Request

(* The two, together. *)
OrderWaits == OrderInv(g, asked) /\ WaitInv(g, asked, log.waits)

LEMMA AnswersKeepOrder ==
    ASSUME IInv, OrderWaits, DeviceAnswers
    PROVE  OrderWaits'
<1> DEFINE s == AfterSending(g)
           new == ToSend(g)
           queue == asked \o new
           head == Head(asked)
           r == AfterPacket(s, Answer(head))
<1>1. /\ g \in Globals /\ asked \in Seq(Request) /\ asked # <<>>
      /\ log \in Log /\ log.waits \in Nat /\ device \in DeviceKind
  BY DEF IInv, TypeOK, DeviceAnswers, Log
<1>2. /\ device' = device /\ asked' = Tail(asked) \o new
      /\ g' = r.g /\ log' = r.log
  BY DEF DeviceAnswers, Receive
<1>3. new \in Seq(Request) /\ s \in Globals /\ s.offset = g.offset
  BY <1>1, SendingTypes
<1>4. OrderInv(s, queue) /\ WaitInv(s, queue, log.waits)
  BY <1>1, SendingKeepsOrder DEF OrderWaits
<1>5. IsName(head) => head.offset = g.offset
  <2>1. head = asked[1] /\ 1 \in 1..Len(asked)
    BY <1>1
  <2> HIDE DEF head
  <2>2. QED
    BY <2>1 DEF IInv, NameInv
<1> HIDE DEF s, new
<1>6. /\ queue \in Seq(Request) /\ queue # <<>>
      /\ Head(queue) = head /\ Tail(queue) = Tail(asked) \o new
  BY <1>1, <1>3
<1> HIDE DEF queue, head
<1>7. OrderInv(r.g, Tail(queue)) /\ WaitInv(r.g, Tail(queue), r.log.waits)
  BY <1>1, <1>3, <1>4, <1>5, <1>6, AnswerKeepsOrder
<1> HIDE DEF r
<1>8. OrderInv(g', asked') /\ WaitInv(g', asked', log'.waits)
  BY <1>2, <1>6, <1>7
<1>9. QED
  BY <1>2, <1>8 DEF OrderWaits, OrderInv, WaitInv, InChar, Fragments

LEMMA OtherKeepsOrder ==
    ASSUME IInv, OrderWaits, OtherPacket
    PROVE  OrderWaits'
<1>1. /\ g \in Globals /\ asked \in Seq(Request) /\ log \in Log /\ log.waits \in Nat
  BY DEF IInv, TypeOK, Log
<1>2. /\ device' = device /\ asked' = asked \o ToSend(g)
      /\ g' = AfterSending(g) /\ log' = log
  BY DEF OtherPacket, Receive, AfterPacket, Ignored
<1>3. OrderInv(g', asked') /\ WaitInv(g', asked', log'.waits)
  BY <1>1, <1>2, SendingKeepsOrder DEF OrderWaits
<1>4. QED
  BY <1>2, <1>3 DEF OrderWaits, OrderInv, WaitInv, InChar, Fragments

LEMMA InitOrder ==
    ASSUME Init
    PROVE  OrderWaits
<1>1. /\ g.featuresSent = FALSE /\ g.extSent = 0 /\ g.nameSent = FALSE /\ g.moreName = FALSE
      /\ g.offset = 0 /\ g.versionSent = FALSE /\ g.have = {} /\ log.waits = 0
      /\ asked = <<>> /\ device \in DeviceKind
  BY DEF Init
<1>2. ~Has(<<>>, "version_req") /\ ~Has(<<>>, "name_req") /\ ~VersionFirst(<<>>)
      /\ Once(<<>>, "version_req") /\ Once(<<>>, "name_req")
  BY DEF Has, VersionFirst, Once
<1>3. Fragment \in Nat \ {0} /\ device.length \in Nat
  BY <1>1, LmpAssumption, LengthIsNat
<1>4. Fragments \in Nat
  BY <1>3 DEF Fragments
<1>5. OrderInv(g, asked)
  BY <1>1, <1>2 DEF OrderInv
<1>6. 0 * Fragment <= 0
  BY <1>3
<1>7. WaitInv(g, asked, log.waits)
  BY <1>1, <1>2, <1>4, <1>6 DEF WaitInv, Missing
<1>8. QED
  BY <1>5, <1>7 DEF OrderWaits

LEMMA OrderIsKept == Spec => []OrderWaits
<1>1. Init => OrderWaits
  BY InitOrder
<1>2. IInv /\ OrderWaits /\ [Next]_vars => OrderWaits'
  <2> SUFFICES ASSUME IInv, OrderWaits, [Next]_vars PROVE OrderWaits'
    OBVIOUS
  <2>1. ASSUME UNCHANGED vars PROVE OrderWaits'
    BY <2>1 DEF vars, OrderWaits, OrderInv, WaitInv, InChar, Fragments
  <2>2. QED
    BY <2>1, AnswersKeepOrder, OtherKeepsOrder DEF Next, Ended
<1>3. QED
  BY <1>1, <1>2, Invariance, PTL DEF Spec

(* "Like a ping": with a device that has extended features, the second that *)
(* VersionRes sleeps before it asks for the version again is spent once for *)
(* every fragment of the name at most, whatever packets come in between.    *)
THEOREM WaitsAreBounded == Spec => []WaitsBounded
<1>1. OrderWaits => WaitsBounded
  BY DEF OrderWaits, WaitInv, WaitsBounded
<1>2. QED
  BY <1>1, OrderIsKept, PTL

-----------------------------------------------------------------------------
(* The pages.                                                              *)

(* One page is on its way at a time: the one after those in the log.  A     *)
(* version is asked for, and the exchange ends, when no page is left.       *)
Paging ==
    /\ g.page = g.extSent /\ g.extSent >= 1 /\ Len(asked) <= 1
    /\ g.extReceived <=> device.lastPage > 0
    /\ g.extReceived => g.lastPage = device.lastPage /\ g.extSent <= device.lastPage
    /\ \/ /\ asked = <<[op |-> "features_req_ext", page |-> g.extSent]>>
          /\ g.extReceived /\ log.pages = 1..(g.extSent - 1) /\ ~exited
       \/ /\ \A i \in 1..Len(asked) : asked[i].op # "features_req_ext"
          /\ log.pages = IF g.extReceived THEN 1..g.extSent ELSE {}
    /\ Has(asked, "version_req") \/ exited => ~PageDue(g)

(* The first requests have no answer yet, and nothing else is on its way. *)
Begins(s, queue) ==
    /\ s.featuresSent /\ s.page = 1 /\ ~s.extReceived /\ ~s.nameSent
    /\ \/ s.extSent = 0 /\ queue = <<[op |-> "features_req"]>>
       \/ s.extSent = 1 /\ queue = <<[op |-> "features_req_ext", page |-> 1]>>

(* What the one packet that answers nothing has started. *)
PagesInv ==
    /\ ~device.extended => "pages" \notin g.have /\ ~exited
    /\ others = 0 =>
          /\ asked = <<>> /\ log.pages = {} /\ ~exited
          /\ ~g.featuresSent /\ g.extSent = 0 /\ g.page = 1
          /\ ~g.extReceived /\ ~g.nameSent
    /\ others = 1 =>
          \/ Begins(g, asked) /\ log.pages = {} /\ ~exited
          \/ /\ g.featuresSent /\ g.extSent # 0 /\ g.nameSent
             /\ device.extended => Paging

(* What a packet leaves of the fields that are about pages. *)
LEMMA PacketPages ==
    ASSUME NEW s \in Globals, log \in Log, NEW p \in Packet
    PROVE  LET r == AfterPacket(s, p)
           IN  /\ r.g.extSent = s.extSent /\ r.g.page = s.page
               /\ r.g.nameSent = s.nameSent /\ r.g.featuresSent = s.featuresSent
               /\ p.op # "version_res" => ~r.exited
               /\ r.exited => r.g.have = Part
               /\ p.op # "features_res_ext" =>
                     /\ r.g.extReceived = s.extReceived /\ r.g.lastPage = s.lastPage
                     /\ r.log.pages = log.pages
                     /\ "pages" \in r.g.have => "pages" \in s.have
               /\ p.op = "features_res_ext" =>
                     IF p.page > p.last
                     THEN /\ r.g.extReceived = s.extReceived /\ r.g.lastPage = s.lastPage
                          /\ r.log.pages = log.pages
                     ELSE /\ r.g.extReceived /\ r.g.lastPage = p.last
                          /\ r.log.pages = log.pages \cup {p.page}
<1> DEFINE r == AfterPacket(s, p)
           SamePages(x) ==
              /\ x.extSent = s.extSent /\ x.page = s.page
              /\ x.nameSent = s.nameSent /\ x.featuresSent = s.featuresSent
              /\ x.extReceived = s.extReceived /\ x.lastPage = s.lastPage
              /\ "pages" \in x.have => "pages" \in s.have
<1>1. CASE p.op = "features_res"
  <2> DEFINE x == [s EXCEPT !.have = s.have \cup {"features"}]
  <2>1. r = [g |-> x, log |-> log, exited |-> FALSE]
    BY <1>1 DEF AfterPacket, FeaturesRes
  <2>2. SamePages(x)
    BY DEF Globals
  <2> HIDE DEF x
  <2>3. QED
    BY <1>1, <2>1, <2>2
<1>2. CASE p.op = "features_res_ext"
  <2> DEFINE x == [s EXCEPT !.have = s.have \cup {"pages"}]
             y == [x EXCEPT !.extReceived = TRUE, !.lastPage = p.last]
             l == [log EXCEPT !.pages = log.pages \cup {p.page}]
  <2>1. IF p.page > p.last THEN r = [g |-> x, log |-> log, exited |-> FALSE]
        ELSE r = [g |-> y, log |-> l, exited |-> FALSE]
    BY <1>2 DEF AfterPacket, FeaturesResExt
  <2>2. /\ \A z \in {x, y} : /\ z.extSent = s.extSent /\ z.page = s.page
                             /\ z.nameSent = s.nameSent /\ z.featuresSent = s.featuresSent
        /\ x.extReceived = s.extReceived /\ x.lastPage = s.lastPage
        /\ y.extReceived /\ y.lastPage = p.last /\ l.pages = log.pages \cup {p.page}
    BY DEF Globals, Log
  <2> HIDE DEF x, y, l
  <2>3. CASE p.page > p.last
    BY <1>2, <2>1, <2>2, <2>3
  <2>4. CASE ~(p.page > p.last)
    <3>1. r.g = y /\ r.log = l /\ ~r.exited
      BY <2>1, <2>4
    <3> HIDE DEF r
    <3>2. QED
      BY <1>2, <2>2, <2>4, <3>1 DEF r
  <2>5. QED
    BY <2>3, <2>4
<1>3. CASE p.op = "name_res"
  <2>1. ASSUME NEW bytes
        PROVE  LET x == NameDone(s, bytes)
               IN SamePages(x.g) /\ x.log.pages = log.pages /\ ~x.exited
    BY DEF NameDone, Globals, Log
  <2>2. ASSUME NEW name, NEW end
        PROVE  SamePages([s EXCEPT !.name = name, !.offset = end, !.moreName = TRUE])
    BY DEF Globals
  <2>3. \/ \E bytes : r = NameDone(s, bytes)
        \/ \E name, end : r = [g |-> [s EXCEPT !.name = name, !.offset = end, !.moreName = TRUE],
                               log |-> log, exited |-> FALSE]
    BY <1>3 DEF AfterPacket, NameRes
  <2> HIDE DEF SamePages, r
  <2>4. SamePages(r.g) /\ r.log.pages = log.pages /\ ~r.exited
    <3>1. CASE \E bytes : r = NameDone(s, bytes)
      BY <2>1, <3>1
    <3>2. ASSUME NEW name, NEW end,
                 r = [g |-> [s EXCEPT !.name = name, !.offset = end, !.moreName = TRUE],
                      log |-> log, exited |-> FALSE]
          PROVE  SamePages(r.g) /\ r.log.pages = log.pages /\ ~r.exited
      BY <2>2, <3>2
    <3>3. QED
      BY <2>3, <3>1, <3>2
  <2>5. QED
    BY <1>3, <2>4 DEF SamePages, r
<1>4. CASE p.op = "version_res"
  <2> DEFINE x == [s EXCEPT !.have = s.have \cup {"version"}]
             y == [x EXCEPT !.versionSent = FALSE]
             l == [log EXCEPT !.waits = log.waits + 1]
  <2>1. IF x.have = Part THEN r = [g |-> x, log |-> log, exited |-> TRUE]
        ELSE r = [g |-> y, log |-> l, exited |-> FALSE]
    BY <1>4 DEF AfterPacket, VersionRes
  <2>2. SamePages(x) /\ SamePages(y) /\ l.pages = log.pages
    BY DEF Globals, Log
  <2> HIDE DEF x, y, l, SamePages
  <2>3. CASE x.have = Part
    <3>1. r.g = x /\ r.log = log
      BY <2>1, <2>3
    <3> HIDE DEF r
    <3>2. QED
      BY <1>4, <2>2, <2>3, <3>1 DEF SamePages, r
  <2>4. CASE x.have # Part
    <3>1. r.g = y /\ r.log = l /\ ~r.exited
      BY <2>1, <2>4
    <3> HIDE DEF r
    <3>2. QED
      BY <1>4, <2>2, <3>1 DEF SamePages, r
  <2>5. QED
    BY <2>3, <2>4
<1>5. CASE p.op \in {"not_accepted", "other"}
  <2>1. r = [g |-> s, log |-> log, exited |-> FALSE]
    BY <1>5 DEF AfterPacket, Ignored
  <2>2. QED
    BY <1>5, <2>1
<1>6. QED
  BY <1>1, <1>2, <1>3, <1>4, <1>5 DEF Packet

(* What is sent, once the extended features have been asked for. *)
LEMMA SendingPages ==
    ASSUME NEW s \in Globals, s.featuresSent, s.extSent # 0
    PROVE  LET t == AfterSending(s)
           IN  /\ t.featuresSent /\ t.extReceived = s.extReceived /\ t.lastPage = s.lastPage
               /\ t.have = s.have
               /\ PageDue(s) =>
                     /\ t.extSent = s.extSent + 1 /\ t.page = s.page + 1
                     /\ t.nameSent = s.nameSent
                     /\ ToSend(s) = <<[op |-> "features_req_ext", page |-> s.page + 1]>>
               /\ ~PageDue(s) =>
                     /\ t.extSent = s.extSent /\ t.page = s.page /\ t.nameSent
                     /\ Len(ToSend(s)) <= 1
                     /\ \A i \in 1..Len(ToSend(s)) : ToSend(s)[i].op # "features_req_ext"
<1> DEFINE t == AfterSending(s)
<1>1. CASE PageDue(s)
  <2>1. t = [s EXCEPT !.extSent = s.extSent + 1, !.page = s.page + 1]
    BY <1>1 DEF AfterSending
  <2>2. ToSend(s) = <<[op |-> "features_req_ext", page |-> s.page + 1]>>
    BY <1>1 DEF ToSend
  <2>3. QED
    BY <1>1, <2>1, <2>2 DEF Globals
<1>2. CASE ~PageDue(s)
  <2>1. /\ t.featuresSent /\ t.extReceived = s.extReceived /\ t.lastPage = s.lastPage
        /\ t.have = s.have /\ t.extSent = s.extSent /\ t.page = s.page /\ t.nameSent
    BY <1>2 DEF AfterSending, NameDue, Globals
  <2>2. \/ ToSend(s) = <<[op |-> "name_req", offset |-> s.offset]>>
        \/ ToSend(s) = <<[op |-> "version_req"]>>
        \/ ToSend(s) = <<>>
    BY <1>2 DEF ToSend
  <2>3. /\ Len(ToSend(s)) <= 1
        /\ \A i \in 1..Len(ToSend(s)) : ToSend(s)[i].op # "features_req_ext"
    BY <2>2
  <2>4. QED
    BY <1>2, <2>1, <2>3
<1>3. QED
  BY <1>1, <1>2

LEMMA Appended ==
    ASSUME NEW q \in Seq(Request), NEW w, w = <<>>
    PROVE  w \o q = q
OBVIOUS

LEMMA SendingHave ==
    ASSUME NEW s \in Globals
    PROVE  AfterSending(s).have = s.have
BY DEF AfterSending, Globals

LEMMA AnswerOps ==
    ASSUME NEW r \in Request
    PROVE  /\ Answer(r).op = "features_res_ext" <=> r.op = "features_req_ext" /\ device.extended
           /\ Answer(r).op = "version_res" <=> r.op = "version_req"
           /\ r.op = "features_req_ext" /\ device.extended =>
                 Answer(r).page = r.page /\ Answer(r).last = device.lastPage
<1>1. CASE r.op = "features_req"
  BY <1>1 DEF Answer
<1>2. CASE r.op = "version_req"
  BY <1>2 DEF Answer
<1>3. CASE r.op = "name_req"
  BY <1>3 DEF Answer
<1>4. CASE r.op = "features_req_ext"
  BY <1>4 DEF Answer
<1>5. QED
  BY <1>1, <1>2, <1>3, <1>4 DEF Request

(* The pages after an answer, once the name has been asked for. *)
LEMMA AnswerKeepsPaging ==
    ASSUME IInv, Paging, device.extended, g.featuresSent, g.extSent # 0, g.nameSent,
           DeviceAnswers
    PROVE  g'.featuresSent /\ g'.extSent # 0 /\ g'.nameSent /\ Paging'
<1> DEFINE s == AfterSending(g)
           new == ToSend(g)
           head == Head(asked)
           p == Answer(head)
           r == AfterPacket(s, p)
           last == device.lastPage
<1>1. /\ g \in Globals /\ asked \in Seq(Request) /\ asked # <<>> /\ log \in Log
      /\ device \in DeviceKind /\ last \in Nat /\ g.extSent \in Nat /\ g.page \in Nat
  BY DeviceTypes DEF IInv, TypeOK, DeviceAnswers, Globals
<1>2. /\ device' = device /\ asked' = Tail(asked) \o new
      /\ g' = r.g /\ log' = r.log /\ exited' = r.exited
  BY DEF DeviceAnswers, Receive
<1>3. new \in Seq(Request) /\ s \in Globals
  BY <1>1, SendingTypes
<1>4. /\ Len(asked) = 1 /\ head = asked[1] /\ head \in Request /\ Tail(asked) = <<>>
      /\ 1 \in 1..Len(asked)
  <2>1. Len(asked) <= 1
    BY DEF Paging
  <2>2. Tail(asked) \in Seq(Request) /\ Len(asked) = Len(Tail(asked)) + 1
    BY <1>1
  <2>3. Len(asked) = 1 /\ Len(Tail(asked)) = 0
    BY <2>1, <2>2
  <2>4. head = asked[1] /\ head \in Request
    BY <1>1
  <2>5. Tail(asked) = <<>>
    <3>1. \A q \in Seq(Request) : Len(q) = 0 => q = <<>>
      OBVIOUS
    <3>2. QED
      BY <2>2, <2>3, <3>1
  <2>6. 1 \in 1..Len(asked)
    BY <2>3
  <2>7. QED
    BY <2>3, <2>4, <2>5, <2>6
<1> HIDE DEF new
<1>5. asked' = new
  BY <1>2, <1>3, <1>4, Appended
<1>6. /\ s.featuresSent /\ s.extReceived = g.extReceived /\ s.lastPage = g.lastPage
      /\ PageDue(g) =>
            /\ s.extSent = g.extSent + 1 /\ s.page = g.page + 1 /\ s.nameSent = g.nameSent
            /\ new = <<[op |-> "features_req_ext", page |-> g.page + 1]>>
      /\ ~PageDue(g) =>
            /\ s.extSent = g.extSent /\ s.page = g.page /\ s.nameSent
            /\ Len(new) <= 1
            /\ \A i \in 1..Len(new) : new[i].op # "features_req_ext"
  BY <1>1, SendingPages DEF new
<1>7. /\ p.op = "features_res_ext" <=> head.op = "features_req_ext"
      /\ p.op = "version_res" <=> head.op = "version_req"
      /\ head.op = "features_req_ext" => p.page = head.page /\ p.last = last
      /\ p \in Packet
  BY <1>1, <1>4, AnswerOps, AnswerTypes
<1> HIDE DEF s, head, p
<1>8. /\ g'.extSent = s.extSent /\ g'.page = s.page
      /\ g'.nameSent = s.nameSent /\ g'.featuresSent = s.featuresSent
      /\ p.op # "version_res" => ~exited'
      /\ p.op # "features_res_ext" =>
            /\ g'.extReceived = s.extReceived /\ g'.lastPage = s.lastPage
            /\ log'.pages = log.pages
      /\ p.op = "features_res_ext" /\ p.page <= p.last =>
            /\ g'.extReceived /\ g'.lastPage = p.last
            /\ log'.pages = log.pages \cup {p.page}
  <2>1. p.op = "features_res_ext" => p.page \in Nat /\ p.last \in Nat
    BY <1>7 DEF Packet
  <2>2. p.op = "features_res_ext" /\ p.page <= p.last => ~(p.page > p.last)
    BY <2>1
  <2>3. QED
    BY <1>1, <1>2, <1>3, <1>7, <2>2, PacketPages
<1> HIDE DEF r
<1>9. /\ g'.page = g'.extSent /\ g'.extSent >= 1 /\ g'.extSent # 0
      /\ g'.featuresSent /\ g'.nameSent
  <2>1. g.page = g.extSent /\ g.extSent >= 1
    BY DEF Paging
  <2>2. CASE PageDue(g)
    <3>1. g'.extSent = g.extSent + 1 /\ g'.page = g.page + 1
      BY <1>6, <1>8, <2>2
    <3>2. g'.page = g'.extSent /\ g'.extSent >= 1 /\ g'.extSent # 0
      BY <1>1, <2>1, <3>1
    <3>3. QED
      BY <1>6, <1>8, <2>2, <3>2
  <2>3. CASE ~PageDue(g)
    <3>1. g'.extSent = g.extSent /\ g'.page = g.page
      BY <1>6, <1>8, <2>3
    <3>2. QED
      BY <1>1, <1>6, <1>8, <2>1, <2>3, <3>1
  <2>4. QED
    BY <2>2, <2>3
<1>10. /\ PageDue(g) => g.extSent + 1 <= last
       /\ g.extReceived <=> last > 0
       /\ g.extReceived => g.lastPage = last /\ g.extSent <= last
  BY <1>1 DEF Paging, PageDue
<1>11. PageDue(g) => Len(new) = 1 /\ new[1].op = "features_req_ext" /\ ~Has(new, "version_req")
  <2> DEFINE n == <<[op |-> "features_req_ext", page |-> g.page + 1]>>
  <2>1. Len(n) = 1 /\ n[1].op = "features_req_ext"
    OBVIOUS
  <2>2. PageDue(g) => new = n
    BY <1>6
  <2> HIDE DEF n
  <2>3. ~Has(n, "version_req")
    BY <2>1 DEF Has
  <2>4. QED
    BY <2>1, <2>2, <2>3
<1>12. /\ g'.extReceived <=> last > 0
       /\ g'.extReceived => g'.lastPage = last /\ g'.extSent <= last
       /\ log'.pages = IF g.extReceived THEN 1..g.extSent ELSE {}
       /\ g'.extReceived = g.extReceived /\ g'.lastPage = g.lastPage
       /\ PageDue(g) => ~exited'
  <2>1. CASE /\ asked = <<[op |-> "features_req_ext", page |-> g.extSent]>>
             /\ g.extReceived /\ log.pages = 1..(g.extSent - 1)
    <3>1. p.op = "features_res_ext" /\ p.page = g.extSent /\ p.last = last
      BY <1>4, <1>7, <2>1
    <3>2. p.page <= p.last
      BY <1>10, <2>1, <3>1
    <3>3. 1..(g.extSent - 1) \cup {g.extSent} = 1..g.extSent
      BY <1>1 DEF Paging
    <3>4. p.op # "version_res"
      BY <3>1
    <3>5. g'.extReceived \in BOOLEAN /\ g.extReceived \in BOOLEAN
      BY <1>1, <1>2, <1>8, <3>1, <3>2, <2>1 DEF Globals
    <3>6. g'.extReceived = TRUE /\ g.extReceived = TRUE
      BY <1>8, <2>1, <3>1, <3>2, <3>5
    <3>7. g'.lastPage = last /\ log'.pages = 1..g.extSent /\ ~exited'
      BY <1>8, <2>1, <3>1, <3>2, <3>3
    <3>8. g'.extSent <= last
      BY <1>1, <1>6, <1>8, <1>10, <2>1
    <3>9. QED
      BY <1>10, <2>1, <3>6, <3>7, <3>8
  <2>2. CASE /\ \A i \in 1..Len(asked) : asked[i].op # "features_req_ext"
             /\ log.pages = IF g.extReceived THEN 1..g.extSent ELSE {}
    <3>1. p.op # "features_res_ext"
      BY <1>4, <1>7, <2>2
    <3>2. /\ g'.extReceived = g.extReceived /\ g'.lastPage = g.lastPage
          /\ log'.pages = log.pages
      BY <1>6, <1>8, <3>1
    <3>3. PageDue(g) => ~exited'
      <4>1. p.op = "version_res" => Has(asked, "version_req")
        BY <1>4, <1>7 DEF Has
      <4>2. QED
        BY <1>8, <4>1 DEF Paging
    <3>4. g.extReceived => g'.extSent <= last
      BY <1>1, <1>6, <1>8, <1>10
    <3>5. QED
      BY <1>10, <2>2, <3>2, <3>3, <3>4
  <2>3. QED
    BY <2>1, <2>2 DEF Paging
<1>13. CASE PageDue(g)
  <2>1. /\ asked' = <<[op |-> "features_req_ext", page |-> g'.extSent]>>
        /\ g'.extSent = g.extSent + 1
    BY <1>5, <1>6, <1>8, <1>13 DEF Paging
  <2>2. g.extReceived
    BY <1>13 DEF PageDue
  <2>3. log'.pages = 1..(g'.extSent - 1)
    BY <1>1, <1>12, <2>1, <2>2
  <2>4. Len(asked') <= 1 /\ ~Has(asked', "version_req")
    <3>1. Len(new) = 1 /\ ~Has(new, "version_req")
      BY <1>11, <1>13, Zenon
    <3>2. Len(asked') = 1
      BY <1>5, <3>1
    <3>3. QED
      BY <1>5, <3>1, <3>2 DEF Has
  <2>5. ~exited'
    BY <1>12, <1>13
  <2>6. g'.extReceived
    BY <1>10, <1>12, <2>2
  <2>7. QED
    BY <1>2, <1>9, <1>12, <2>1, <2>3, <2>4, <2>5, <2>6 DEF Paging
<1>14. CASE ~PageDue(g)
  <2>1. g'.extSent = g.extSent /\ ~PageDue(g')
    BY <1>6, <1>8, <1>12, <1>14 DEF PageDue
  <2>2. QED
    BY <1>2, <1>5, <1>6, <1>9, <1>12, <1>14, <2>1 DEF Paging
<1>15. QED
  BY <1>9, <1>13, <1>14

(* The first answers. *)
LEMMA AnswerAtTheStart ==
    ASSUME IInv, Begins(g, asked), log.pages = {}, DeviceAnswers
    PROVE  \/ Begins(g', asked') /\ log'.pages = {} /\ ~exited'
           \/ /\ g'.featuresSent /\ g'.extSent # 0 /\ g'.nameSent
              /\ device.extended => Paging'
<1> DEFINE s == AfterSending(g)
           p == Answer(Head(asked))
           r == AfterPacket(s, p)
           last == device.lastPage
<1>1. /\ g \in Globals /\ asked \in Seq(Request) /\ log \in Log
      /\ device \in DeviceKind /\ last \in Nat
  BY DeviceTypes DEF IInv, TypeOK
<1>2. /\ device' = device /\ asked' = Tail(asked) \o ToSend(g)
      /\ g' = r.g /\ log' = r.log /\ exited' = r.exited
  BY DEF DeviceAnswers, Receive
<1>3. ToSend(g) \in Seq(Request) /\ s \in Globals
  BY <1>1, SendingTypes
<1>4. CASE g.extSent = 0 /\ asked = <<[op |-> "features_req"]>>
  <2>1. /\ Head(asked) = [op |-> "features_req"] /\ Tail(asked) = <<>>
    BY <1>4
  <2>2. p = [op |-> "features_res"]
    BY <2>1 DEF Answer
  <2>3. ToSend(g) = <<[op |-> "features_req_ext", page |-> 1]>>
    BY <1>4 DEF Begins, ToSend
  <2>4. s = [g EXCEPT !.extSent = 1]
    BY <1>4 DEF Begins, AfterSending
  <2>5. /\ s.extSent = 1 /\ s.page = 1 /\ s.featuresSent /\ ~s.extReceived /\ ~s.nameSent
    BY <1>1, <2>4 DEF Begins, Globals
  <2>6. p \in Packet
    BY <2>2 DEF Packet
  <2> HIDE DEF s, p
  <2>7. /\ r.g.extSent = 1 /\ r.g.page = 1 /\ r.g.featuresSent /\ ~r.g.extReceived
        /\ ~r.g.nameSent /\ r.log.pages = {} /\ ~r.exited
    BY <1>1, <1>3, <2>2, <2>5, <2>6, PacketPages
  <2>8. asked' = <<[op |-> "features_req_ext", page |-> 1]>>
    BY <1>2, <1>3, <2>1, <2>3, Appended
  <2> HIDE DEF r
  <2>9. QED
    BY <1>2, <2>7, <2>8 DEF Begins
<1>5. CASE g.extSent = 1 /\ asked = <<[op |-> "features_req_ext", page |-> 1]>>
  <2> DEFINE x == [op |-> "features_req_ext", page |-> 1]
             n == [op |-> "name_req", offset |-> g.offset]
  <2>1. /\ Head(asked) = x /\ Tail(asked) = <<>>
    BY <1>5
  <2>2. x \in Request /\ x.op = "features_req_ext" /\ x.page = 1
    BY DEF Request
  <2>3. ~PageDue(g)
    BY DEF Begins, PageDue
  <2>4. ToSend(g) = <<n>>
    BY <1>5, <2>3 DEF Begins, ToSend, NameDue
  <2>5. /\ s.extSent = 1 /\ s.page = 1 /\ s.featuresSent /\ s.extReceived = g.extReceived
        /\ s.nameSent
    BY <1>1, <1>5, <2>3, SendingPages DEF Begins
  <2>6. p \in Packet /\ p.op # "version_res"
        /\ (p.op = "features_res_ext" <=> device.extended)
        /\ (device.extended => p.page = 1 /\ p.last = last)
    BY <1>1, <2>1, <2>2, AnswerOps, AnswerTypes
  <2>7. asked' = <<n>>
    BY <1>2, <1>3, <2>1, <2>4, Appended
  <2>8. Len(asked') = 1 /\ asked'[1] = n
    BY <2>7
  <2>9. /\ Len(asked') <= 1 /\ ~Has(asked', "version_req")
        /\ \A i \in 1..Len(asked') : asked'[i].op # "features_req_ext"
    BY <2>8 DEF Has
  <2> HIDE DEF s, p, x, n
  <2>10. /\ g'.extSent = 1 /\ g'.page = 1 /\ g'.featuresSent /\ g'.nameSent /\ ~exited'
         /\ device.extended =>
               IF 1 > last THEN g'.extReceived = s.extReceived /\ log'.pages = {}
               ELSE g'.extReceived /\ g'.lastPage = last /\ log'.pages = {1}
    BY <1>1, <1>2, <1>3, <2>5, <2>6, PacketPages
  <2> HIDE DEF r
  <2>11. ASSUME device.extended PROVE Paging'
    <3>1. CASE last = 0
      <4>1. 1 > last /\ ~(last > 0)
        BY <3>1
      <4>2. ~g'.extReceived /\ log'.pages = {}
        BY <2>5, <2>10, <2>11, <4>1 DEF Begins
      <4>3. QED
        BY <1>2, <2>9, <2>10, <4>1, <4>2 DEF Paging
    <3>2. CASE last # 0
      <4>1. ~(1 > last) /\ last > 0 /\ 1 <= last /\ 1..1 = {1}
        BY <1>1, <3>2
      <4>2. g'.extReceived /\ g'.lastPage = last /\ log'.pages = 1..1
        BY <2>10, <2>11, <4>1
      <4>3. QED
        BY <1>2, <2>9, <2>10, <4>1, <4>2 DEF Paging
    <3>3. QED
      BY <3>1, <3>2
  <2>12. QED
    BY <2>10, <2>11
<1>6. QED
  BY <1>4, <1>5 DEF Begins

(* A device that has no extended features never leads to an exit. *)
LEMMA NoExitWithoutPages ==
    ASSUME IInv, ~device.extended, "pages" \notin g.have, DeviceAnswers
    PROVE  "pages" \notin g'.have /\ ~exited'
<1> DEFINE s == AfterSending(g)
           p == Answer(Head(asked))
           r == AfterPacket(s, p)
<1>1. /\ g \in Globals /\ asked \in Seq(Request) /\ asked # <<>> /\ log \in Log
      /\ device \in DeviceKind /\ Head(asked) \in Request
  BY DEF IInv, TypeOK, DeviceAnswers
<1>2. g' = r.g /\ exited' = r.exited
  BY DEF DeviceAnswers, Receive
<1>3. s \in Globals /\ s.have = g.have
  BY <1>1, SendingTypes, SendingHave
<1>4. p \in Packet /\ p.op # "features_res_ext"
  BY <1>1, AnswerOps, AnswerTypes
<1> HIDE DEF s, p
<1>5. /\ "pages" \in r.g.have => "pages" \in s.have
      /\ r.exited => r.g.have = Part
  BY <1>1, <1>3, <1>4, PacketPages
<1> HIDE DEF r
<1>6. QED
  BY <1>2, <1>3, <1>5 DEF Part

LEMMA AnswersKeepPages ==
    ASSUME IInv, PagesInv, DeviceAnswers
    PROVE  PagesInv'
<1>1. /\ others' = others /\ others \in Nat /\ device' = device
      /\ device \in DeviceKind /\ asked # <<>>
  <2>1. \A x \in 0..MaxOthers : x \in Nat
    BY LmpAssumption
  <2>2. QED
    BY <2>1 DEF IInv, TypeOK, DeviceAnswers, Receive
<1>2. ~device.extended => "pages" \notin g'.have /\ ~exited'
  BY NoExitWithoutPages DEF PagesInv
<1>3. CASE others = 1
  <2>1. CASE Begins(g, asked) /\ log.pages = {} /\ ~exited
    BY <1>1, <1>2, <1>3, <2>1, AnswerAtTheStart DEF PagesInv
  <2>2. CASE /\ g.featuresSent /\ g.extSent # 0 /\ g.nameSent
             /\ device.extended => Paging
    <3>1. CASE device.extended
      <4>1. g'.featuresSent /\ g'.extSent # 0 /\ g'.nameSent /\ Paging'
        BY <2>2, <3>1, AnswerKeepsPaging
      <4>2. QED
        BY <1>1, <1>2, <1>3, <4>1 DEF PagesInv
    <3>2. CASE ~device.extended
      <4>1. g'.featuresSent /\ g'.extSent # 0 /\ g'.nameSent
        <5> DEFINE s == AfterSending(g)
                   p == Answer(Head(asked))
        <5>1. /\ g \in Globals /\ log \in Log /\ asked \in Seq(Request)
              /\ Head(asked) \in Request /\ g.extSent \in Nat
          BY <1>1 DEF IInv, TypeOK, Globals
        <5>2. g' = AfterPacket(s, p).g
          BY DEF DeviceAnswers, Receive
        <5>3. /\ s \in Globals /\ p \in Packet
              /\ s.featuresSent /\ s.nameSent /\ s.extSent # 0
          BY <1>1, <2>2, <5>1, SendingTypes, AnswerTypes, SendingPages
        <5> HIDE DEF s, p
        <5>4. QED
          BY <5>1, <5>2, <5>3, PacketPages
      <4>2. QED
        BY <1>1, <1>2, <1>3, <3>2, <4>1 DEF PagesInv
    <3>3. QED
      BY <3>1, <3>2
  <2>3. QED
    BY <1>3, <2>1, <2>2 DEF PagesInv
<1>4. CASE others # 1
  BY <1>1, <1>2, <1>4 DEF PagesInv
<1>5. QED
  BY <1>3, <1>4

LEMMA OtherKeepsPages ==
    ASSUME IInv, PagesInv, OtherPacket
    PROVE  PagesInv'
<1>1. /\ others' = others + 1 /\ others \in Nat /\ device' = device
      /\ g \in Globals /\ asked' = asked \o ToSend(g)
      /\ g' = AfterSending(g) /\ log' = log /\ exited' = FALSE
  <2>1. \A x \in 0..MaxOthers : x \in Nat
    BY LmpAssumption
  <2>2. QED
    BY <2>1 DEF IInv, TypeOK, OtherPacket, Receive, AfterPacket, Ignored
<1>2. ~device.extended => "pages" \notin g'.have /\ ~exited'
  BY <1>1, SendingHave DEF PagesInv
<1>3. CASE others = 0
  <2>1. /\ asked = <<>> /\ log.pages = {} /\ ~g.featuresSent /\ g.extSent = 0 /\ g.page = 1
        /\ ~g.extReceived /\ ~g.nameSent
    BY <1>3 DEF PagesInv
  <2>2. AfterSending(g) = [g EXCEPT !.featuresSent = TRUE]
        /\ ToSend(g) = <<[op |-> "features_req"]>>
    BY <2>1 DEF AfterSending, ToSend
  <2>3. asked' = <<[op |-> "features_req"]>>
    BY <1>1, <2>1, <2>2
  <2>4. g'.featuresSent /\ g'.page = 1 /\ ~g'.extReceived /\ ~g'.nameSent /\ g'.extSent = 0
    BY <1>1, <2>1, <2>2 DEF Globals
  <2>5. QED
    BY <1>1, <1>2, <1>3, <2>1, <2>3, <2>4 DEF PagesInv, Begins
<1>4. CASE others # 0
  BY <1>1, <1>2, <1>4 DEF PagesInv
<1>5. QED
  BY <1>3, <1>4

LEMMA PagesAreKept == Spec => []PagesInv
<1>1. Init => PagesInv
  BY DEF Init, PagesInv
<1>2. IInv /\ PagesInv /\ [Next]_vars => PagesInv'
  <2> SUFFICES ASSUME IInv, PagesInv, [Next]_vars PROVE PagesInv'
    OBVIOUS
  <2>1. ASSUME UNCHANGED vars PROVE PagesInv'
    BY <2>1 DEF vars, PagesInv, Begins, Paging, Has
  <2>2. QED
    BY <2>1, AnswersKeepPages, OtherKeepsPages DEF Next, Ended
<1>3. QED
  BY <1>1, <1>2, Invariance, PTL DEF Spec

(* When the module exits, and one packet at most came that answered nothing, *)
(* each page up to the device's last one is in BTC_2THPRINT.log: the pages  *)
(* that are asked for after the first answer are waited for.               *)
THEOREM PagesAreLogged == Spec => []ExitHasAllPages
<1>1. IInv /\ PagesInv => ExitHasAllPages
  <2> SUFFICES ASSUME IInv, PagesInv, exited, others <= 1
               PROVE  log.pages = 1..device.lastPage
    BY DEF ExitHasAllPages
  <2>1. others = 1 /\ device.extended
    <3>1. \A x \in 0..MaxOthers : x <= 1 => x \in {0, 1}
      BY LmpAssumption
    <3>2. QED
      BY <3>1 DEF PagesInv, IInv, TypeOK
  <2>2. Paging
    BY <2>1 DEF PagesInv
  <2>3. g.extSent \in Nat /\ device.lastPage \in Nat
    BY DeviceTypes DEF IInv, TypeOK, Globals
  <2>4. log.pages = IF g.extReceived THEN 1..g.extSent ELSE {}
    BY <2>2 DEF Paging
  <2>5. CASE g.extReceived
    <3>1. g.extSent = device.lastPage
      BY <2>2, <2>3, <2>5 DEF Paging, PageDue
    <3>2. QED
      BY <2>4, <2>5, <3>1
  <2>6. CASE ~g.extReceived
    <3>1. device.lastPage = 0
      BY <2>2, <2>3, <2>6 DEF Paging
    <3>2. QED
      BY <2>4, <2>6, <3>1
  <2>7. QED
    BY <2>5, <2>6
<1>2. QED
  BY <1>1, Invariance, PagesAreKept, PTL
=============================================================================
