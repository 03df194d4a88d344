-------------------------- MODULE SniffleConnProofs --------------------------
(***************************************************************************)
(* Proofs about SniffleConn, for any number of events to a turn of the     *)
(* counter, any size of the queue, any leads, timeouts and parameters.     *)
(***************************************************************************)
EXTENDS SniffleConn, TLAPS

-----------------------------------------------------------------------------
(* Counting modulo Wrap. *)

LEMMA MultipleInRange ==
    ASSUME NEW k \in Int, Wrap * k < Wrap, Wrap * k > -Wrap PROVE k = 0
<1>0. Wrap \in Nat /\ Wrap > 0
  BY ConnAssumption
<1>1. CASE k >= 1
  <2>1. Wrap * k = Wrap * (k - 1) + Wrap
    BY <1>0
  <2>2. Wrap * (k - 1) >= 0
    BY <1>0, <1>1
  <2>3. QED
    BY <1>0, <2>1, <2>2
<1>2. CASE k <= -1
  <2>1. Wrap * k = -(Wrap * (-k - 1)) - Wrap
    BY <1>0
  <2>2. Wrap * (-k - 1) >= 0
    BY <1>0, <1>2
  <2>3. QED
    BY <1>0, <2>1, <2>2
<1>3. QED
  BY <1>1, <1>2

LEMMA ModRange ==
    ASSUME NEW a \in Int
    PROVE  /\ a % Wrap \in 0..(Wrap - 1) /\ a \div Wrap \in Int
           /\ a = Wrap * (a \div Wrap) + (a % Wrap)
  BY ConnAssumption

(* A remainder is known by its range and by being congruent. *)
LEMMA ModIs ==
    ASSUME NEW a \in Int, NEW r \in 0..(Wrap - 1), NEW k \in Int, a = Wrap * k + r
    PROVE  a % Wrap = r
<1>0. Wrap \in Nat /\ Wrap > 0
  BY ConnAssumption
<1> DEFINE q == a \div Wrap
           m == a % Wrap
<1>1. m \in 0..(Wrap - 1) /\ q \in Int /\ a = Wrap * q + m
  BY ModRange
<1> HIDE DEF q, m
<1>2. Wrap * (k - q) = Wrap * k - Wrap * q
  BY <1>0, <1>1
<1>3. Wrap * (k - q) = m - r
  BY <1>0, <1>1, <1>2
<1>4. k - q = 0
  BY <1>0, <1>1, <1>3, MultipleInRange
<1>5. m = r
  BY <1>0, <1>1, <1>3, <1>4
<1>6. QED
  BY <1>5 DEF m

LEMMA ModSmall == ASSUME NEW a \in 0..(Wrap - 1) PROVE a % Wrap = a
<1>0. Wrap \in Nat /\ Wrap > 0
  BY ConnAssumption
<1>1. a = Wrap * 0 + a
  BY <1>0
<1>2. QED
  BY <1>0, <1>1, ModIs

(* A sum may be reduced before or after. *)
LEMMA ModSum ==
    ASSUME NEW a \in Int, NEW b \in Int PROVE ((a % Wrap) + b) % Wrap = (a + b) % Wrap
<1>0. Wrap \in Nat /\ Wrap > 0
  BY ConnAssumption
<1> DEFINE q == a \div Wrap
           m == a % Wrap
           p == (a + b) \div Wrap
           r == (a + b) % Wrap
<1>1. m \in 0..(Wrap - 1) /\ q \in Int /\ a = Wrap * q + m
  BY ModRange
<1>2. r \in 0..(Wrap - 1) /\ p \in Int /\ a + b = Wrap * p + r
  BY ModRange
<1> HIDE DEF q, m, p, r
<1>3. Wrap * (p - q) = Wrap * p - Wrap * q
  BY <1>0, <1>1, <1>2
<1>4. m + b = Wrap * (p - q) + r
  BY <1>0, <1>1, <1>2, <1>3
<1>5. m + b \in Int /\ p - q \in Int
  BY <1>0, <1>1, <1>2
<1>6. (m + b) % Wrap = r
  BY <1>2, <1>4, <1>5, ModIs
<1>7. QED
  BY <1>6 DEF m, r

LEMMA ModDifference ==
    ASSUME NEW a \in Int, NEW b \in Int PROVE (b - (a % Wrap)) % Wrap = (b - a) % Wrap
<1>0. Wrap \in Nat /\ Wrap > 0
  BY ConnAssumption
<1> DEFINE q == a \div Wrap
           m == a % Wrap
           p == (b - a) \div Wrap
           r == (b - a) % Wrap
<1>1. m \in 0..(Wrap - 1) /\ q \in Int /\ a = Wrap * q + m
  BY ModRange
<1>2. r \in 0..(Wrap - 1) /\ p \in Int /\ b - a = Wrap * p + r
  BY ModRange
<1> HIDE DEF q, m, p, r
<1>3. Wrap * (p + q) = Wrap * p + Wrap * q
  BY <1>0, <1>1, <1>2
<1>4. b - m = Wrap * (p + q) + r
  BY <1>0, <1>1, <1>2, <1>3
<1>5. b - m \in Int /\ p + q \in Int
  BY <1>0, <1>1, <1>2
<1>6. (b - m) % Wrap = r
  BY <1>2, <1>4, <1>5, ModIs
<1>7. QED
  BY <1>6 DEF m, r

(* Forward from one event to another and forward back is one turn. *)
LEMMA ModTurn ==
    ASSUME NEW a \in Event, NEW b \in Event
    PROVE  IF a = b THEN (a - b) % Wrap = 0
           ELSE (a - b) % Wrap > 0 /\ (b - a) % Wrap = Wrap - ((a - b) % Wrap)
<1>0. Wrap \in Nat /\ Wrap > 0 /\ a \in Int /\ b \in Int /\ a \in 0..(Wrap-1) /\ b \in 0..(Wrap - 1)
  BY ConnAssumption DEF Event
<1>1. CASE a = b
  BY <1>0, <1>1, ModSmall
<1>2. CASE a > b
  <2>1. (a - b) % Wrap = a - b
    BY <1>0, <1>2, ModSmall
  <2>2. b - a = Wrap * (-1) + (Wrap - (a - b))
    BY <1>0
  <2>3. (b - a) % Wrap = Wrap - (a - b)
    BY <1>0, <1>2, <2>2, ModIs
  <2>4. QED
    BY <1>0, <1>2, <2>1, <2>3
<1>3. CASE a < b
  <2>1. (b - a) % Wrap = b - a
    BY <1>0, <1>3, ModSmall
  <2>2. a - b = Wrap * (-1) + (Wrap - (b - a))
    BY <1>0
  <2>3. (a - b) % Wrap = Wrap - (b - a)
    BY <1>0, <1>3, <2>2, ModIs
  <2>4. QED
    BY <1>0, <1>3, <2>1, <2>3
<1>4. QED
  BY <1>0, <1>1, <1>2, <1>3

-----------------------------------------------------------------------------
(* Types. *)

Link == [alive: BOOLEAN, event: Event, is: Parameters, encrypted: BOOLEAN,
         update: Update \cup {NONE}, heard: 0..MaxCopies]

Entry == [instant: Event, conf: RadioConfig]

Sniffer == [follows: BOOLEAN, count: Event, conf: RadioConfig, queue: Seq(Entry),
            inTime: BOOLEAN, gotData: BOOLEAN, silent: 0..Timeout]

LEMMA Typed ==
    TypeOK <=> /\ link \in Link /\ sniffer \in Sniffer
               /\ setMap \in RadioConfig \cup {NONE} /\ mishap \in BOOLEAN
  BY DEF TypeOK, Link, Sniffer, Entry

LEMMA NextEvent ==
    ASSUME NEW e \in Event, NEW n \in Nat
    PROVE  /\ (e + n) % Wrap \in Event /\ e \in Int
           /\ 0 \in Event /\ Wrap \in Nat /\ Wrap > 0
<1>0. Wrap \in Nat /\ Wrap > 0
  BY ConnAssumption
<1>1. e + n \in Int
  BY <1>0 DEF Event
<1>2. QED
  BY <1>0, <1>1, ModRange DEF Event

LEMMA UnshiftedType ==
    ASSUME NEW p \in Parameters
    PROVE  /\ Unshifted(p) \in RadioConfig
           /\ SameParameters(Unshifted(p), p) /\ Unshifted(p).offset = 0
  BY ConnAssumption DEF Unshifted, RadioConfig, Parameters, SameParameters

(* What each kind of change changes. *)
LEMMA ChangedIs ==
    ASSUME NEW c \in RadioConfig, NEW u \in Update
    PROVE  /\ Changed(c, u) \in RadioConfig
           /\ u.kind \in {"connection", "map", "phy"} /\ u.instant \in Event
           /\ u.kind = "connection" =>
                /\ Changed(c, u).interval = u.interval /\ Changed(c, u).offset = u.offset
                /\ Changed(c, u).map = c.map /\ Changed(c, u).phy = c.phy
           /\ u.kind = "map" =>
                /\ Changed(c, u).map = u.map /\ Changed(c, u).offset = 0
                /\ Changed(c, u).phy = c.phy /\ Changed(c, u).interval = c.interval
           /\ u.kind = "phy" =>
                /\ Changed(c, u).phy = u.phy /\ Changed(c, u).offset = 0
                /\ Changed(c, u).map = c.map /\ Changed(c, u).interval = c.interval
<1>1. u.kind \in {"connection", "map", "phy"} /\ u.instant \in Event
  BY DEF Update
<1>2. CASE u.kind = "connection"
  <2>1. u.interval \in Intervals /\ u.offset \in Offsets
    BY <1>2 DEF Update
  <2>2. Changed(c, u) = [c EXCEPT !.interval = u.interval, !.offset = u.offset]
    BY <1>2 DEF Changed
  <2>3. QED
    BY <1>1, <1>2, <2>1, <2>2 DEF RadioConfig
<1>3. CASE u.kind = "map"
  <2>1. u.map \in Maps
    BY <1>3 DEF Update
  <2>2. Changed(c, u) = [c EXCEPT !.map = u.map, !.offset = 0]
    BY <1>3 DEF Changed
  <2>3. QED
    BY <1>1, <1>3, <2>1, <2>2, ConnAssumption DEF RadioConfig
<1>4. CASE u.kind = "phy"
  <2>1. u.phy \in Phys
    BY <1>4 DEF Update
  <2>2. Changed(c, u) = [c EXCEPT !.phy = u.phy, !.offset = 0]
    BY <1>4 DEF Changed
  <2>3. QED
    BY <1>1, <1>4, <2>1, <2>2, ConnAssumption DEF RadioConfig
<1>5. QED
  BY <1>1, <1>2, <1>3, <1>4

LEMMA LatestType ==
    ASSUME NEW s \in Sniffer
    PROVE  /\ RconfLatest(s) \in RadioConfig
           /\ s.queue = <<>> => RconfLatest(s) = s.conf
           /\ s.queue # <<>> => Len(s.queue) >= 1 /\ RconfLatest(s) = s.queue[Len(s.queue)].conf
           /\ Len(s.queue) \in Nat
           /\ \A j \in 1..Len(s.queue) : s.queue[j] \in Entry
<1>1. s.queue \in Seq(Entry) /\ s.conf \in RadioConfig
  BY DEF Sniffer
<1>2. Len(s.queue) \in Nat /\ (s.queue # <<>> => Len(s.queue) >= 1)
  BY <1>1
<1>3. \A j \in 1..Len(s.queue) : s.queue[j] \in Entry
  BY <1>1
<1>4. QED
  BY <1>1, <1>2, <1>3 DEF RconfLatest, Entry

(* What an insertion changes. *)
LEMMA EnqueueIs ==
    ASSUME NEW s \in Sniffer, NEW i \in Event, NEW c \in RadioConfig
    PROVE  /\ Enqueue(s, i, c) \in Sniffer
           /\ Enqueue(s, i, c).follows = s.follows /\ Enqueue(s, i, c).count = s.count
           /\ Enqueue(s, i, c).conf = s.conf /\ Enqueue(s, i, c).inTime = s.inTime
           /\ Len(s.queue) >= QueueSize => Enqueue(s, i, c) = s
           /\ Len(s.queue) < QueueSize =>
                Enqueue(s, i, c).queue = Append(s.queue, [instant |-> i, conf |-> c])
<1>1. s.queue \in Seq(Entry) /\ [instant |-> i, conf |-> c] \in Entry
  BY DEF Sniffer, Entry
<1>2. Append(s.queue, [instant |-> i, conf |-> c]) \in Seq(Entry)
  BY <1>1
<1>3. Len(s.queue) \in Nat /\ QueueSize \in Int
  BY <1>1, ConnAssumption
<1>4. CASE Len(s.queue) >= QueueSize
  BY <1>3, <1>4 DEF Enqueue
<1>5. CASE Len(s.queue) < QueueSize
  <2>1. Enqueue(s, i, c) = [s EXCEPT !.queue = Append(@, [instant |-> i, conf |-> c])]
    BY <1>3, <1>5 DEF Enqueue
  <2> DEFINE q == Append(s.queue, [instant |-> i, conf |-> c])
  <2>2. Enqueue(s, i, c) = [s EXCEPT !.queue = q] /\ q \in Seq(Entry)
    BY <1>2, <2>1 DEF Sniffer
  <2> HIDE DEF q
  <2>3. [s EXCEPT !.queue = q] \in Sniffer /\ [s EXCEPT !.queue = q].queue = q
    BY <2>2 DEF Sniffer
  <2>4. /\ [s EXCEPT !.queue = q].follows = s.follows /\ [s EXCEPT !.queue = q].count = s.count
        /\ [s EXCEPT !.queue = q].conf = s.conf /\ [s EXCEPT !.queue = q].inTime = s.inTime
    BY DEF Sniffer
  <2>5. Enqueue(s, i, c).queue = Append(s.queue, [instant |-> i, conf |-> c])
    BY <2>2, <2>3 DEF q
  <2>6. QED
    BY <1>3, <1>5, <2>2, <2>3, <2>4, <2>5
<1>6. QED
  BY <1>3, <1>4, <1>5

(* The next event: what is due is taken. *)
LEMMA AfterIs ==
    ASSUME NEW s \in Sniffer, NEW hop
    PROVE  LET t == AfterConnEvent(s, hop)
               event == (s.count + 1) % Wrap
           IN  /\ t \in Sniffer
               /\ s.follows /\ t.follows =>
                    /\ t.count = event /\ t.conf = NextConf(s, event)
                    /\ t.queue = IF Due(s, event) THEN Tail(s.queue) ELSE s.queue
                    /\ t.inTime = (s.inTime /\ Hop(s, event) = hop)
<1> DEFINE event == (s.count + 1) % Wrap
           t == AfterConnEvent(s, hop)
           silent == IF s.gotData THEN 0 ELSE s.silent + 1
           queue == IF Due(s, event) THEN Tail(s.queue) ELSE s.queue
           inTime == s.inTime /\ Hop(s, event) = hop
           conf == NextConf(s, event)
<1>0. /\ s.count \in Event /\ s.queue \in Seq(Entry) /\ s.conf \in RadioConfig
      /\ s.silent \in 0..Timeout /\ s.inTime \in BOOLEAN /\ s.gotData \in BOOLEAN
      /\ Timeout \in Nat
  BY ConnAssumption DEF Sniffer
<1>1. event \in Event
  BY <1>0, NextEvent
<1>2. queue \in Seq(Entry)
  BY <1>0 DEF Due
<1>3. conf \in RadioConfig
  <2>1. CASE Due(s, event)
    <3>1. s.queue[1] \in Entry
      BY <1>0, <2>1 DEF Due
    <3>2. QED
      BY <2>1, <3>1 DEF NextConf, Entry
  <2>2. QED
    BY <1>0, <2>1 DEF NextConf
<1>4. inTime \in BOOLEAN
  OBVIOUS
<1>5. CASE ~s.gotData /\ s.silent = Timeout
  <2>1. t = [s EXCEPT !.follows = FALSE]
    BY <1>5 DEF AfterConnEvent, Finished
  <2>2. t \in Sniffer /\ t.follows = FALSE
    BY <2>1 DEF Sniffer
  <2>3. QED
    BY <2>2
<1>6. CASE ~(~s.gotData /\ s.silent = Timeout)
  <2>1. silent \in 0..Timeout
    BY <1>0, <1>6
  <2>2. t = [s EXCEPT !.silent = silent, !.gotData = FALSE, !.count = event,
                      !.conf = conf, !.queue = queue, !.inTime = inTime]
    BY <1>6 DEF AfterConnEvent
  <2> HIDE DEF silent, queue, inTime, conf, event
  <2>3. /\ t \in Sniffer /\ t.count = event /\ t.conf = conf /\ t.queue = queue
        /\ t.inTime = inTime
    BY <1>1, <1>2, <1>3, <1>4, <2>1, <2>2 DEF Sniffer
  <2>4. QED
    BY <2>3 DEF queue, inTime, conf, event
<1>7. QED
  BY <1>5, <1>6

LEMMA ReactType ==
    ASSUME NEW s \in Sniffer, NEW u \in Update PROVE ReactToUpdate(s, u) \in Sniffer
<1> DEFINE last == RconfLatest(s)
           guess == (s.count + GuessedLead) % Wrap
           known == [last EXCEPT !.phy = PreloadedPhy, !.offset = 0]
<1>1. last \in RadioConfig
  BY LatestType
<1>2. u.instant \in Event /\ Changed(last, u) \in RadioConfig
  BY <1>1, ChangedIs
<1>3. known \in RadioConfig
  BY <1>1, ConnAssumption DEF RadioConfig
<1>4. guess \in Event
  BY NextEvent, ConnAssumption DEF Sniffer
<1>5. ReactToUpdate(s, u) \in {Enqueue(s, u.instant, Changed(last, u)), s,
                               Enqueue(s, guess, known)}
  BY DEF ReactToUpdate
<1> HIDE DEF last, guess, known
<1>6. QED
  BY <1>2, <1>3, <1>4, <1>5, EnqueueIs

LEMMA InitTypes == ASSUME Init PROVE TypeOK
<1>0. 0 \in Event /\ 0 \in 0..MaxCopies /\ 0 \in 0..Timeout
  BY ConnAssumption DEF Event
<1>1. link \in Link /\ link.is \in Parameters
  BY <1>0 DEF Init, Link
<1>2. Unshifted(link.is) \in RadioConfig
  BY <1>1, UnshiftedType
<1>3. sniffer \in Sniffer
  BY <1>0, <1>2 DEF Init, Sniffer
<1>4. QED
  BY <1>1, <1>3, Typed DEF Init

LEMMA NextTypes == ASSUME TypeOK, Next PROVE TypeOK'
<1>0. /\ link \in Link /\ sniffer \in Sniffer
      /\ setMap \in RadioConfig \cup {NONE} /\ mishap \in BOOLEAN
  BY Typed
<1> DEFINE Goal == /\ link' \in Link /\ sniffer' \in Sniffer
                   /\ setMap' \in RadioConfig \cup {NONE} /\ mishap' \in BOOLEAN
<1>g. Goal => TypeOK'
  BY DEF TypeOK, Link, Sniffer, Entry
<1>1. CASE Announces
  <2>1. PICK lead \in Leads, u \in Update :
             link' = [link EXCEPT !.update = u, !.heard = 0]
    BY <1>1 DEF Announces
  <2>2. link' \in Link
    <3>1. 0 \in 0..MaxCopies /\ u \in Update \cup {NONE}
      BY ConnAssumption
    <3>2. QED
      BY <1>0, <2>1, <3>1 DEF Link
  <2>3. mishap' \in BOOLEAN
    BY <1>0, <1>1 DEF Announces
  <2>4. QED
    BY <1>0, <1>1, <1>g, <2>2, <2>3 DEF Announces
<1>2. CASE HearsUpdate
  <2>1. link.update \in Update
    BY <1>0, <1>2 DEF HearsUpdate, Link
  <2>2. ReactToUpdate(sniffer, link.update) \in Sniffer
    BY <1>0, <2>1, ReactType
  <2>3. sniffer' \in Sniffer
    BY <1>2, <2>2 DEF HearsUpdate, Sniffer
  <2>4. link' = [link EXCEPT !.heard = @ + 1] /\ link.heard < MaxCopies
    BY <1>2 DEF HearsUpdate
  <2>5. link' \in Link
    BY <1>0, <2>4, ConnAssumption DEF Link
  <2>6. mishap' \in BOOLEAN /\ setMap' = setMap
    BY <1>2 DEF HearsUpdate
  <2>7. QED
    BY <1>0, <1>g, <2>3, <2>5, <2>6
<1>3. CASE HearsData
  <2>1. sniffer' \in Sniffer
    BY <1>0, <1>3 DEF HearsData, Sniffer
  <2>2. QED
    BY <1>0, <1>3, <1>g, <2>1 DEF HearsData
<1>4. CASE StartsEncryption
  <2>1. sniffer' \in Sniffer /\ link' \in Link
    BY <1>0, <1>4 DEF StartsEncryption, Sniffer, Link
  <2>2. QED
    BY <1>0, <1>4, <1>g, <2>1 DEF StartsEncryption
<1>5. CASE Terminates
  <2>1. link' \in Link
    BY <1>0, <1>5 DEF Terminates, Link
  <2>2. Finished(sniffer) \in Sniffer
    BY <1>0 DEF Finished, Sniffer
  <2>3. sniffer' \in {Finished(sniffer), sniffer}
    BY <1>5 DEF Terminates
  <2>4. QED
    BY <1>0, <1>5, <1>g, <2>1, <2>2, <2>3 DEF Terminates
<1>6. CASE EventEnds
  <2> DEFINE event == (link.event + 1) % Wrap
             applies == link.update # NONE /\ link.update.instant = event
             is == IF applies THEN Changed(Unshifted(link.is), link.update)
                   ELSE Unshifted(link.is)
             next == [map |-> is.map, phy |-> is.phy, interval |-> is.interval]
             update == IF applies THEN NONE ELSE link.update
             heard == IF applies THEN 0 ELSE link.heard
  <2>1. link.is \in Parameters /\ link.update \in Update \cup {NONE} /\ link.heard \in 0..MaxCopies
    BY <1>0 DEF Link
  <2>2. event \in Event
    BY <1>0, NextEvent DEF Link
  <2>3. is \in RadioConfig
    BY <2>1, UnshiftedType, ChangedIs
  <2>4. next \in Parameters
    BY <2>3 DEF RadioConfig, Parameters
  <2>5. update \in Update \cup {NONE} /\ heard \in 0..MaxCopies
    BY <2>1, ConnAssumption
  <2>6. link' = [link EXCEPT !.event = event, !.is = next, !.update = update, !.heard = heard]
    BY <1>6 DEF EventEnds
  <2> HIDE DEF event, next, update, heard
  <2>7. link' \in Link
    BY <1>0, <2>2, <2>4, <2>5, <2>6 DEF Link
  <2>8. sniffer' = AfterConnEvent(sniffer, is.offset + is.interval)
    BY <1>6 DEF EventEnds, event
  <2>9. sniffer' \in Sniffer
    BY <1>0, <2>8, AfterIs
  <2>10. mishap' \in BOOLEAN /\ setMap' = setMap
    BY <1>0, <1>6 DEF EventEnds
  <2>11. QED
    BY <1>0, <1>g, <2>7, <2>9, <2>10
<1>7. CASE SetChanMapReads
  <2>1. setMap' \in RadioConfig
    BY <1>0, <1>7, LatestType DEF SetChanMapReads
  <2>2. QED
    BY <1>0, <1>7, <1>g, <2>1 DEF SetChanMapReads
<1>8. CASE SetChanMapEnqueues
  <2>1. setMap \in RadioConfig /\ link.is.map \in Maps
    BY <1>0, <1>8 DEF SetChanMapEnqueues, Link, Parameters
  <2>2. [setMap EXCEPT !.map = link.is.map, !.offset = 0] \in RadioConfig
    BY <2>1, ConnAssumption DEF RadioConfig
  <2>3. (sniffer.count + 1) % Wrap \in Event
    BY <1>0, NextEvent DEF Sniffer
  <2>4. sniffer' \in Sniffer
    BY <1>0, <1>8, <2>2, <2>3, EnqueueIs DEF SetChanMapEnqueues
  <2>5. QED
    BY <1>0, <1>8, <1>g, <2>4 DEF SetChanMapEnqueues
<1>9. CASE Over
  BY <1>0, <1>9, <1>g DEF Over, vars
<1>10. QED
  BY <1>1, <1>2, <1>3, <1>4, <1>5, <1>6, <1>7, <1>8, <1>9 DEF Next

(* What the connection and the sniffer keep has its types, for any turn of *)
(* the counter, any size of the queue and any parameters.                  *)
THEOREM ConnTypes == Spec => []TypeOK
<1>1. TypeOK /\ UNCHANGED vars => TypeOK'
  BY DEF TypeOK, vars
<1>2. QED
  BY <1>1, InitTypes, NextTypes, PTL DEF Spec

-----------------------------------------------------------------------------
(* The inductive invariant: where the changes are in the queue. *)

(* The number of events from instant to event, counted modulo Wrap. *)
Ago(event, instant) == (event - instant) % Wrap

Ahead(l) == (l.update.instant - l.event) % Wrap

Heard(l) == l.update # NONE /\ l.heard > 0

(* What will be in force after the announced change. *)
Coming(l) == Changed(Unshifted(l.is), l.update)

(* An entry that can be taken at event, if it is the oldest one by then. *)
InTime(x, event) == Ago(event, x.instant) <= Wrap - Wrap \div 2

(* One that holds what is in force changes nothing when it is taken. *)
IdleEntry(l, x, event) ==
    SameParameters(x.conf, l.is) /\ x.conf.offset = 0 /\ InTime(x, event)

(* One behind the change must repeat it. *)
LateEntry(l, x, event) ==
    SameParameters(x.conf, Coming(l)) /\ x.conf.offset = 0 /\ InTime(x, event)

(* The k-th entry is the change that the sniffer has heard announced.  The *)
(* entries before it are taken one for each event, and in time for it; the *)
(* ones behind it in the events after its instant.                         *)
ChangeAt(l, q, k) ==
    /\ k <= Ahead(l)
    /\ q[k].instant = l.update.instant
    /\ SameParameters(q[k].conf, Coming(l)) /\ q[k].conf.offset = Coming(l).offset
    /\ \A j \in 1..(k - 1) : IdleEntry(l, q[j], l.event + j)
    /\ \A j \in (k + 1)..Len(q) : LateEntry(l, q[j], l.event + Ahead(l) + (j - k))

AllIdle(l, q) == \A j \in 1..Len(q) : IdleEntry(l, q[j], l.event + j)

PlainInv(l, s) ==
    /\ SameParameters(s.conf, l.is)
    /\ Heard(l) => \E k \in 1..Len(s.queue) : ChangeAt(l, s.queue, k)
    /\ ~Heard(l) => AllIdle(l, s.queue)

(* With encryption only the PHY changes, once and to the preloaded one.  The *)
(* sniffer guesses the instant: what it has last queued is right, whatever   *)
(* is in force meanwhile.                                                    *)
SamePlace(c, l) == c.map = l.is.map /\ c.interval = l.is.interval

ToPreloaded(l) ==
    l.update # NONE => /\ l.update.kind = "phy" /\ l.update.phy = PreloadedPhy
                       /\ l.is.phy # PreloadedPhy

EncryptedInv(l, s) ==
    /\ ToPreloaded(l)
    /\ SamePlace(s.conf, l)
    /\ \A j \in 1..Len(s.queue) : SamePlace(s.queue[j].conf, l) /\ s.queue[j].conf.offset = 0
    /\ RconfLatest(s).phy = IF Heard(l) THEN PreloadedPhy ELSE l.is.phy

QueueInv(l, s) ==
    /\ l.encrypted => EncryptedInv(l, s)
    /\ ~l.encrypted => PlainInv(l, s)

(* What the host's command is about to insert is still the latest. *)
SetMapInv(l, s, c) == c # NONE => c = RconfLatest(s) /\ c.map = l.is.map

LinkInv(l) ==
    /\ l.update = NONE => l.heard = 0
    /\ l.update # NONE => Ahead(l) \in 1..(Wrap \div 2 - 1)

FollowInv(l, s, c) ==
    s.inTime /\ s.count = l.event /\ SetMapInv(l, s, c) /\ QueueInv(l, s)

(* The invariant, of the connection l, the sniffer s, the host's command c  *)
(* and the mishaps w: what every step has to leave.                         *)
Kept(l, s, c, w) ==
    LinkInv(l) /\ (l.alive /\ s.follows /\ ~w => FollowInv(l, s, c))

(* Sizes. *)
LEMMA Sizes ==
    /\ Wrap \in Nat /\ Wrap \div 2 \in Nat /\ QueueSize \in Nat /\ Event \subseteq Int
    /\ QueueSize < Wrap \div 2 /\ 2 <= Wrap \div 2 /\ Wrap \div 2 <= Wrap - Wrap \div 2
    /\ Wrap - Wrap \div 2 < Wrap /\ 0 \in Event
  BY ConnAssumption DEF Event

LEMMA IntervalInt == ASSUME NEW i \in Intervals PROVE i \in Int
<1>1. Intervals \subseteq Nat \ {0}
  BY ConnAssumption
<1>2. i \in Nat
  BY <1>1
<1>3. QED
  BY <1>2

(* The next event. *)
LEMMA AgoNext ==
    ASSUME NEW e \in Event, NEW n \in Int, NEW i \in Event
    PROVE  Ago(((e + 1) % Wrap) + n, i) = Ago(e + 1 + n, i)
<1> DEFINE v == (e + 1) % Wrap
<1>1. e \in Int /\ i \in Int /\ e + 1 \in Int /\ n - i \in Int
  BY Sizes
<1>2. v \in Int
  BY <1>1, ModRange
<1>3. (v + (n - i)) % Wrap = (e + 1 + (n - i)) % Wrap
  BY <1>1, ModSum
<1> HIDE DEF v
<1>4. v + (n - i) = (v + n) - i /\ e + 1 + (n - i) = (e + 1 + n) - i
  BY <1>1, <1>2
<1>5. Ago(v + n, i) = Ago(e + 1 + n, i)
  BY <1>3, <1>4 DEF Ago
<1>6. QED
  BY <1>5 DEF v

(* A change comes one event nearer, and applies when there is none left. *)
LEMMA Nearer ==
    ASSUME NEW e \in Event, NEW i \in Event, (i - e) % Wrap >= 1
    PROVE  /\ (i - ((e + 1) % Wrap)) % Wrap = ((i - e) % Wrap) - 1
           /\ (i - e) % Wrap = 1 <=> i = (e + 1) % Wrap
<1> DEFINE d == (i - e) % Wrap
           v == (e + 1) % Wrap
<1>1. e \in Int /\ i \in Int /\ e + 1 \in Int /\ i - e \in Int
  BY Sizes
<1>2. d \in 0..(Wrap - 1) /\ d >= 1 /\ v \in Event
  BY <1>1, ModRange DEF Event
<1>3. (i - v) % Wrap = (i - (e + 1)) % Wrap
  BY <1>1, ModDifference
<1>4. (d + (-1)) % Wrap = ((i - e) + (-1)) % Wrap
  BY <1>1, ModSum
<1>5. d - 1 \in 0..(Wrap - 1) /\ d + (-1) = d - 1
  <2> HIDE DEF d
  <2>1. QED
    BY <1>2, Sizes
<1>6. (d - 1) % Wrap = d - 1
  BY <1>5, ModSmall
<1>7. i - (e + 1) = (i - e) + (-1)
  BY <1>1
<1>8. (i - v) % Wrap = d - 1
  BY <1>3, <1>4, <1>5, <1>6, <1>7
<1>9. IF i = v THEN (i - v) % Wrap = 0 ELSE (i - v) % Wrap > 0
  BY <1>2, ModTurn
<1>10. d = 1 <=> i = v
  BY <1>2, <1>8, <1>9
<1>11. QED
  BY <1>8, <1>10

LEMMA HeadType ==
    ASSUME NEW s \in Sniffer, s.queue # <<>>
    PROVE  /\ s.count \in Event /\ s.queue \in Seq(Entry) /\ s.queue[1] \in Entry
           /\ s.queue[1].instant \in Event /\ s.queue[1].conf \in RadioConfig
<1>1. s.count \in Event /\ s.queue \in Seq(Entry)
  BY DEF Sniffer
<1>2. s.queue[1] \in Entry
  BY <1>1
<1>3. QED
  BY <1>1, <1>2 DEF Entry

(* An entry that is in time is due. *)
LEMMA DueInTime ==
    ASSUME NEW s \in Sniffer, s.queue # <<>>, InTime(s.queue[1], s.count + 1)
    PROVE  Due(s, (s.count + 1) % Wrap)
<1> DEFINE v == (s.count + 1) % Wrap
           i == s.queue[1].instant
<1>1. s.count \in Event /\ i \in Event
  BY HeadType
<1>2. v \in Event /\ v \in Int /\ s.count + 1 \in Int
  <2>1. s.count \in Int /\ s.count + 1 \in Int
    BY <1>1, Sizes DEF Event
  <2>2. QED
    BY <1>1, <2>1, NextEvent, Sizes
<1>3. Ago(v + 0, i) = Ago(s.count + 1 + 0, i)
  BY <1>1, AgoNext
<1>4. v + 0 = v /\ s.count + 1 + 0 = s.count + 1
  BY <1>2
<1>5. (v - i) % Wrap <= Wrap - Wrap \div 2
  BY <1>3, <1>4 DEF InTime, Ago
<1> HIDE DEF v, i
<1>6. CASE v = i
  BY <1>6 DEF Due, v, i
<1>7. CASE v # i
  <2>1. (i - v) % Wrap = Wrap - ((v - i) % Wrap)
    BY <1>1, <1>2, <1>7, ModTurn
  <2>2. (v - i) % Wrap \in Int
    BY <1>1, <1>2, Sizes, ModRange
  <2>3. (i - v) % Wrap >= Wrap \div 2
    BY <1>5, <2>1, <2>2, Sizes
  <2>4. QED
    BY <2>3 DEF Due, v, i
<1>8. QED
  BY <1>6, <1>7

(* One that is more than one event ahead is not. *)
LEMMA NotYetDue ==
    ASSUME NEW s \in Sniffer, s.queue # <<>>,
           (s.queue[1].instant - s.count) % Wrap \in 2..(Wrap \div 2 - 1)
    PROVE  ~Due(s, (s.count + 1) % Wrap)
<1> DEFINE v == (s.count + 1) % Wrap
           i == s.queue[1].instant
           d == (i - s.count) % Wrap
<1>1. s.count \in Event /\ i \in Event
  BY HeadType
<1>2. d \in 2..(Wrap \div 2 - 1)
  OBVIOUS
<1>3. (i - v) % Wrap = d - 1 /\ (d = 1 <=> i = v)
  BY <1>1, <1>2, Nearer
<1>4. QED
  BY <1>2, <1>3, Sizes DEF Due

LEMMA TailIs ==
    ASSUME NEW q \in Seq(Entry), q # <<>>
    PROVE  /\ Len(q) \in Nat /\ Len(q) >= 1
           /\ Len(Tail(q)) = Len(q) - 1
           /\ \A j \in 1..Len(Tail(q)) : Tail(q)[j] = q[j + 1]
  OBVIOUS

LEMMA AppendIs ==
    ASSUME NEW q \in Seq(Entry), NEW x \in Entry
    PROVE  /\ Len(q) \in Nat /\ Len(Append(q, x)) = Len(q) + 1
           /\ Append(q, x)[Len(q) + 1] = x
           /\ \A j \in 1..Len(q) : Append(q, x)[j] = q[j]
           /\ Append(q, x) # <<>>
  OBVIOUS

-----------------------------------------------------------------------------
(* The next event. *)

Applies(l) == l.update # NONE /\ l.update.instant = (l.event + 1) % Wrap

IsAfter(l) == IF Applies(l) THEN Coming(l) ELSE Unshifted(l.is)

LinkAfter(l) ==
    [l EXCEPT !.event = (l.event + 1) % Wrap,
              !.is = [map |-> IsAfter(l).map, phy |-> IsAfter(l).phy,
                      interval |-> IsAfter(l).interval],
              !.update = IF Applies(l) THEN NONE ELSE @,
              !.heard = IF Applies(l) THEN 0 ELSE @]

HopAfter(l) == IsAfter(l).offset + IsAfter(l).interval

LEMMA EventEndsIs ==
    ASSUME EventEnds
    PROVE  /\ sniffer.follows /\ setMap = NONE /\ setMap' = NONE
           /\ link' = LinkAfter(link)
           /\ sniffer' = AfterConnEvent(sniffer, HopAfter(link))
           /\ mishap' = (mishap \/ (Applies(link) /\ link.heard = 0))
  BY DEF EventEnds, LinkAfter, HopAfter, IsAfter, Applies, Coming

LEMMA LinkTypes ==
    ASSUME NEW l \in Link
    PROVE  /\ l.event \in Event /\ l.is \in Parameters /\ l.update \in Update \cup {NONE}
           /\ l.heard \in Nat /\ l.encrypted \in BOOLEAN /\ l.alive \in BOOLEAN
  BY ConnAssumption DEF Link

LEMMA ComingType ==
    ASSUME NEW l \in Link, l.update # NONE
    PROVE  l.update \in Update /\ l.update.instant \in Event /\ Coming(l) \in RadioConfig
<1>1. l.update \in Update /\ Unshifted(l.is) \in RadioConfig
  BY LinkTypes, UnshiftedType
<1>2. QED
  BY <1>1, ChangedIs DEF Coming

(* The connection after the event. *)
LEMMA LinkAfterIs ==
    ASSUME NEW l \in Link
    PROVE  /\ LinkAfter(l) \in Link
           /\ LinkAfter(l).event = (l.event + 1) % Wrap
           /\ LinkAfter(l).encrypted = l.encrypted /\ LinkAfter(l).alive = l.alive
           /\ Applies(l) => /\ LinkAfter(l).update = NONE /\ LinkAfter(l).heard = 0
                            /\ SameParameters(LinkAfter(l).is, Coming(l))
                            /\ HopAfter(l) = Coming(l).offset + Coming(l).interval
           /\ ~Applies(l) => /\ LinkAfter(l).update = l.update /\ LinkAfter(l).heard = l.heard
                             /\ LinkAfter(l).is.map = l.is.map
                             /\ LinkAfter(l).is.phy = l.is.phy
                             /\ LinkAfter(l).is.interval = l.is.interval
                             /\ HopAfter(l) = l.is.interval
<1> DEFINE event == (l.event + 1) % Wrap
           is == [map |-> IsAfter(l).map, phy |-> IsAfter(l).phy,
                  interval |-> IsAfter(l).interval]
           update == IF Applies(l) THEN NONE ELSE l.update
           heard == IF Applies(l) THEN 0 ELSE l.heard
<1>1. /\ l.event \in Event /\ l.is \in Parameters /\ l.update \in Update \cup {NONE}
      /\ l.heard \in 0..MaxCopies /\ 0 \in 0..MaxCopies
  BY LinkTypes, ConnAssumption DEF Link
<1>2. IsAfter(l) \in RadioConfig
  BY <1>1, UnshiftedType, ComingType DEF IsAfter, Applies
<1>3. event \in Event
  BY <1>1, NextEvent
<1>4. is \in Parameters /\ is.map = IsAfter(l).map /\ is.phy = IsAfter(l).phy
      /\ is.interval = IsAfter(l).interval
  BY <1>2 DEF RadioConfig, Parameters
<1>5. update \in Update \cup {NONE} /\ heard \in 0..MaxCopies
  BY <1>1
<1>6. LinkAfter(l) = [l EXCEPT !.event = event, !.is = is, !.update = update, !.heard = heard]
  BY DEF LinkAfter
<1> HIDE DEF event, is, update, heard
<1>7. /\ LinkAfter(l) \in Link /\ LinkAfter(l).event = event /\ LinkAfter(l).is = is
      /\ LinkAfter(l).update = update /\ LinkAfter(l).heard = heard
      /\ LinkAfter(l).encrypted = l.encrypted /\ LinkAfter(l).alive = l.alive
  BY <1>1, <1>3, <1>4, <1>5, <1>6 DEF Link
<1>8. CASE Applies(l)
  BY <1>4, <1>7, <1>8 DEF IsAfter, HopAfter, SameParameters, event, update, heard
<1>9. CASE ~Applies(l)
  <2>1. IsAfter(l) = Unshifted(l.is)
    BY <1>9 DEF IsAfter
  <2>2. /\ IsAfter(l).map = l.is.map /\ IsAfter(l).phy = l.is.phy
        /\ IsAfter(l).interval = l.is.interval /\ IsAfter(l).offset = 0
    BY <2>1, <1>1, UnshiftedType DEF SameParameters
  <2>3. l.is.interval \in Int
    <3>1. l.is.interval \in Intervals
      BY <1>1 DEF Parameters
    <3>2. QED
      BY <3>1, IntervalInt
  <2>4. HopAfter(l) = l.is.interval
    BY <2>2, <2>3 DEF HopAfter
  <2>5. QED
    BY <1>4, <1>7, <1>9, <2>2, <2>4 DEF event, update, heard
<1>10. QED
  BY <1>8, <1>9

(* The change that is announced comes nearer. *)
LEMMA EventKeepsLink ==
    ASSUME NEW l \in Link, LinkInv(l)
    PROVE  /\ LinkInv(LinkAfter(l))
           /\ Applies(l) <=> l.update # NONE /\ Ahead(l) = 1
           /\ ~Applies(l) /\ l.update # NONE => Ahead(LinkAfter(l)) = Ahead(l) - 1
<1>1. CASE l.update = NONE
  BY <1>1, LinkAfterIs DEF LinkInv, Applies
<1>2. CASE l.update # NONE
  <2>1. l.event \in Event /\ l.update.instant \in Event
    BY <1>2, LinkTypes, ComingType
  <2>2. Ahead(l) \in 1..(Wrap \div 2 - 1)
    BY <1>2 DEF LinkInv
  <2>3. (l.update.instant - l.event) % Wrap >= 1
    BY <2>2 DEF Ahead
  <2>4. /\ (l.update.instant - ((l.event + 1) % Wrap)) % Wrap = Ahead(l) - 1
        /\ Ahead(l) = 1 <=> l.update.instant = (l.event + 1) % Wrap
    BY <2>1, <2>3, Nearer DEF Ahead
  <2>5. Applies(l) <=> Ahead(l) = 1
    BY <1>2, <2>4 DEF Applies
  <2>6. CASE Applies(l)
    BY <1>2, <2>5, <2>6, LinkAfterIs DEF LinkInv
  <2>7. CASE ~Applies(l)
    <3>1. LinkAfter(l).update = l.update /\ LinkAfter(l).event = (l.event + 1) % Wrap
      BY <2>7, LinkAfterIs
    <3>2. Ahead(LinkAfter(l)) = Ahead(l) - 1
      BY <2>4, <3>1 DEF Ahead
    <3>3. Ahead(l) - 1 \in 1..(Wrap \div 2 - 1)
      BY <2>2, <2>5, <2>7, Sizes
    <3>4. QED
      BY <1>2, <2>5, <2>7, <3>1, <3>2, <3>3 DEF LinkInv
  <2>8. QED
    BY <2>6, <2>7
<1>3. QED
  BY <1>1, <1>2

(* An entry that was in time for an event still is when that is one nearer. *)
LEMMA StillInTime ==
    ASSUME NEW l \in Link, NEW x \in Entry, NEW n \in Int,
           InTime(x, l.event + (n + 1))
    PROVE  InTime(x, LinkAfter(l).event + n)
<1>1. l.event \in Event /\ x.instant \in Event /\ l.event \in Int
  BY LinkTypes, Sizes DEF Entry
<1>2. Ago(((l.event + 1) % Wrap) + n, x.instant) = Ago(l.event + 1 + n, x.instant)
  BY <1>1, AgoNext
<1>3. l.event + (n + 1) = l.event + 1 + n
  BY <1>1
<1>4. QED
  BY <1>2, <1>3, LinkAfterIs DEF InTime

(* What a taken entry sets, if it is the one that is in force. *)
LEMMA TakesHead ==
    ASSUME NEW s \in Sniffer, s.queue # <<>>, InTime(s.queue[1], s.count + 1)
    PROVE  LET v == (s.count + 1) % Wrap
               x == s.queue[1].conf
           IN  Due(s, v) /\ NextConf(s, v) = x /\ Hop(s, v) = x.offset + x.interval
<1>1. Due(s, (s.count + 1) % Wrap)
  BY DueInTime
<1>2. QED
  BY <1>1 DEF NextConf, Hop

LEMMA TakesNothing ==
    ASSUME NEW s \in Sniffer, ~Due(s, (s.count + 1) % Wrap)
    PROVE  LET v == (s.count + 1) % Wrap
           IN  NextConf(s, v) = s.conf /\ Hop(s, v) = s.conf.interval
<1>1. s.conf.interval \in Intervals
  BY DEF Sniffer, RadioConfig
<1>2. s.conf.interval \in Int /\ 0 + s.conf.interval = s.conf.interval
  BY <1>1, IntervalInt
<1>3. QED
  BY <1>2 DEF NextConf, Hop

(* The offset of an idle entry is none. *)
LEMMA NoShift == ASSUME NEW c \in RadioConfig, c.offset = 0
                 PROVE  c.offset + c.interval = c.interval
<1>1. c.interval \in Intervals /\ c.interval \in Int
  BY IntervalInt DEF RadioConfig
<1>2. QED
  BY <1>1

LEMMA EventKeepsIdle ==
    ASSUME NEW l \in Link, NEW s \in Sniffer, NEW t \in Sniffer, LinkInv(l),
           t = AfterConnEvent(s, HopAfter(l)), s.follows, t.follows,
           s.inTime, s.count = l.event, SameParameters(s.conf, l.is),
           ~Applies(l), s.queue = <<>> \/ IdleEntry(l, s.queue[1], l.event + 1)
    PROVE  /\ t.inTime /\ SameParameters(t.conf, LinkAfter(l).is)
           /\ t.queue = IF s.queue = <<>> THEN <<>> ELSE Tail(s.queue)
<1> DEFINE v == (s.count + 1) % Wrap
<1>1. /\ t.conf = NextConf(s, v) /\ t.queue = IF Due(s, v) THEN Tail(s.queue) ELSE s.queue
      /\ t.inTime = (s.inTime /\ Hop(s, v) = HopAfter(l))
  BY AfterIs
<1>2. /\ HopAfter(l) = l.is.interval
      /\ LinkAfter(l).is.map = l.is.map /\ LinkAfter(l).is.phy = l.is.phy
      /\ LinkAfter(l).is.interval = l.is.interval
  BY LinkAfterIs
<1>3. CASE s.queue = <<>>
  <2>1. ~Due(s, v)
    BY <1>3 DEF Due
  <2>2. NextConf(s, v) = s.conf /\ Hop(s, v) = s.conf.interval
    BY <2>1, TakesNothing
  <2>3. QED
    BY <1>1, <1>2, <1>3, <2>1, <2>2 DEF SameParameters
<1>4. CASE s.queue # <<>>
  <2> DEFINE x == s.queue[1].conf
  <2>1. /\ SameParameters(x, l.is) /\ x.offset = 0 /\ InTime(s.queue[1], s.count + 1)
    BY <1>4 DEF IdleEntry
  <2>2. Due(s, v) /\ NextConf(s, v) = x /\ Hop(s, v) = x.offset + x.interval
    BY <1>4, <2>1, TakesHead
  <2>3. x \in RadioConfig
    BY <1>4, HeadType
  <2>4. Hop(s, v) = x.interval
    BY <2>1, <2>2, <2>3, NoShift
  <2> HIDE DEF x, v
  <2>5. QED
    BY <1>1, <1>2, <1>4, <2>1, <2>2, <2>4 DEF SameParameters
<1>5. QED
  BY <1>3, <1>4

(* Before anything is heard, the entries are taken one for each event. *)
LEMMA EventKeepsAllIdle ==
    ASSUME NEW l \in Link, NEW s \in Sniffer, NEW t \in Sniffer, LinkInv(l),
           t = AfterConnEvent(s, HopAfter(l)), s.follows, t.follows,
           s.inTime, s.count = l.event, PlainInv(l, s), ~Heard(l), ~Applies(l)
    PROVE  t.inTime /\ PlainInv(LinkAfter(l), t)
<1> DEFINE m == LinkAfter(l)
<1>1. AllIdle(l, s.queue) /\ SameParameters(s.conf, l.is)
  BY DEF PlainInv
<1>2. s.queue \in Seq(Entry)
  BY DEF Sniffer
<1>3. s.queue = <<>> \/ IdleEntry(l, s.queue[1], l.event + 1)
  BY <1>1, <1>2 DEF AllIdle
<1>4. /\ t.inTime /\ SameParameters(t.conf, m.is)
      /\ t.queue = IF s.queue = <<>> THEN <<>> ELSE Tail(s.queue)
  BY <1>1, <1>3, EventKeepsIdle
<1>5. ~Heard(m)
  BY LinkAfterIs DEF Heard
<1>6. AllIdle(m, t.queue)
  <2>1. CASE s.queue = <<>>
    BY <1>4, <2>1 DEF AllIdle
  <2>2. CASE s.queue # <<>>
    <3> SUFFICES ASSUME NEW j \in 1..Len(t.queue) PROVE IdleEntry(m, t.queue[j], m.event + j)
      BY DEF AllIdle
    <3>1. t.queue[j] = s.queue[j + 1] /\ j + 1 \in 1..Len(s.queue) /\ j \in Int
      BY <1>2, <1>4, <2>2, TailIs
    <3>2. IdleEntry(l, t.queue[j], l.event + (j + 1)) /\ t.queue[j] \in Entry
      BY <1>1, <1>2, <3>1 DEF AllIdle
    <3>3. InTime(t.queue[j], m.event + j)
      BY <3>1, <3>2, StillInTime DEF IdleEntry
    <3>4. SameParameters(t.queue[j].conf, m.is)
      BY <3>2, LinkAfterIs DEF IdleEntry, SameParameters
    <3>5. QED
      BY <3>2, <3>3, <3>4 DEF IdleEntry
  <2>3. QED
    BY <2>1, <2>2
<1>7. QED
  BY <1>4, <1>5, <1>6 DEF PlainInv

LEMMA ComingStays ==
    ASSUME NEW l \in Link, ~Applies(l) PROVE Coming(LinkAfter(l)) = Coming(l)
<1>1. Unshifted(LinkAfter(l).is) = Unshifted(l.is)
  BY LinkAfterIs DEF Unshifted
<1>2. QED
  BY <1>1, LinkAfterIs DEF Coming

(* An entry is in its place before the event, and after it one place nearer. *)
LEMMA IdleMoves ==
    ASSUME NEW l \in Link, NEW x \in Entry, NEW j \in Int, ~Applies(l),
           IdleEntry(l, x, l.event + (j + 1))
    PROVE  IdleEntry(LinkAfter(l), x, LinkAfter(l).event + j)
<1>1. InTime(x, LinkAfter(l).event + j)
  BY StillInTime DEF IdleEntry
<1>2. SameParameters(x.conf, LinkAfter(l).is)
  BY LinkAfterIs DEF IdleEntry, SameParameters
<1>3. QED
  BY <1>1, <1>2 DEF IdleEntry

LEMMA LateMoves ==
    ASSUME NEW l \in Link, NEW x \in Entry, NEW n \in Int, ~Applies(l), LinkInv(l),
           l.update # NONE, LateEntry(l, x, l.event + Ahead(l) + n)
    PROVE  LateEntry(LinkAfter(l), x, LinkAfter(l).event + Ahead(LinkAfter(l)) + n)
<1> DEFINE m == LinkAfter(l)
           d == Ahead(m) + n
<1>1. Ahead(m) = Ahead(l) - 1 /\ Ahead(l) \in Int /\ Ahead(m) \in Int
  BY EventKeepsLink, Sizes DEF LinkInv
<1>2. l.event \in Int /\ m.event \in Int
  BY LinkTypes, LinkAfterIs, Sizes
<1>3. d \in Int /\ l.event + Ahead(l) + n = l.event + (d + 1) /\ m.event + Ahead(m) + n = m.event + d
  BY <1>1, <1>2
<1>4. InTime(x, l.event + (d + 1))
  BY <1>3 DEF LateEntry
<1>5. InTime(x, m.event + d)
  BY <1>3, <1>4, StillInTime
<1>6. QED
  BY <1>3, <1>5, ComingStays DEF LateEntry

(* The change moves forward in the queue. *)
LEMMA ChangeMoves ==
    ASSUME NEW l \in Link, NEW q \in Seq(Entry), NEW k \in 2..Len(q), LinkInv(l),
           Heard(l), ~Applies(l), ChangeAt(l, q, k), q # <<>>
    PROVE  k - 1 \in 1..Len(Tail(q)) /\ ChangeAt(LinkAfter(l), Tail(q), k - 1)
<1> DEFINE m == LinkAfter(l)
           p == Tail(q)
<1>1. /\ Len(p) = Len(q) - 1 /\ Len(q) \in Nat /\ k \in Int
      /\ \A j \in 1..Len(p) : p[j] = q[j + 1]
      /\ \A j \in 1..Len(q) : q[j] \in Entry
  BY TailIs
<1>2. /\ Ahead(m) = Ahead(l) - 1 /\ Ahead(l) \in Int
      /\ m.update = l.update /\ Coming(m) = Coming(l)
  BY EventKeepsLink, LinkAfterIs, ComingStays, Sizes DEF Heard, LinkInv
<1> HIDE DEF m, p
<1>3. k - 1 \in 1..Len(p) /\ p[k - 1] = q[k]
  <2>1. k - 1 \in 1..Len(p) /\ (k - 1) + 1 = k
    BY <1>1
  <2>2. QED
    BY <1>1, <2>1
<1>4. k - 1 <= Ahead(m)
  BY <1>1, <1>2 DEF ChangeAt
<1>5. /\ p[k - 1].instant = m.update.instant
      /\ SameParameters(p[k - 1].conf, Coming(m)) /\ p[k - 1].conf.offset = Coming(m).offset
  BY <1>2, <1>3 DEF ChangeAt
<1>6. ASSUME NEW j \in 1..((k - 1) - 1) PROVE IdleEntry(m, p[j], m.event + j)
  <2>1. j \in 1..Len(p) /\ j + 1 \in 1..(k - 1) /\ j + 1 \in 1..Len(q) /\ j \in Int
    BY <1>1, <1>3
  <2>2. p[j] = q[j + 1] /\ p[j] \in Entry /\ IdleEntry(l, p[j], l.event + (j + 1))
    BY <1>1, <2>1 DEF ChangeAt
  <2>3. QED
    BY <2>1, <2>2, IdleMoves DEF m
<1>7. ASSUME NEW j \in ((k - 1) + 1)..Len(p)
      PROVE  LateEntry(m, p[j], m.event + Ahead(m) + (j - (k - 1)))
  <2> DEFINE n == j - (k - 1)
  <2>1. /\ j \in 1..Len(p) /\ j + 1 \in (k + 1)..Len(q) /\ j + 1 \in 1..Len(q) /\ n \in Int
        /\ (j + 1) - k = n
    BY <1>1, <1>3
  <2>2. p[j] = q[j + 1] /\ p[j] \in Entry
    BY <1>1, <2>1
  <2>3. LateEntry(l, p[j], l.event + Ahead(l) + ((j + 1) - k))
    BY <2>1, <2>2 DEF ChangeAt
  <2>4. LateEntry(l, p[j], l.event + Ahead(l) + n)
    BY <2>1, <2>3
  <2> HIDE DEF n
  <2>5. LateEntry(m, p[j], m.event + Ahead(m) + n)
    BY <2>1, <2>2, <2>4, LateMoves DEF m, Heard
  <2>6. QED
    BY <2>5 DEF n
<1>8. ChangeAt(m, p, k - 1)
  BY <1>4, <1>5, <1>6, <1>7 DEF ChangeAt
<1>9. QED
  BY <1>3, <1>8 DEF m, p

(* The oldest entry is the change, and it does not apply yet. *)
LEMMA ChangeStays ==
    ASSUME NEW l \in Link, NEW q \in Seq(Entry), LinkInv(l), q # <<>>,
           Heard(l), ~Applies(l), ChangeAt(l, q, 1)
    PROVE  ChangeAt(LinkAfter(l), q, 1)
<1> DEFINE m == LinkAfter(l)
<1>1. /\ Ahead(m) = Ahead(l) - 1 /\ Ahead(l) \in Int /\ Ahead(l) >= 1 /\ Ahead(l) # 1
      /\ m.update = l.update /\ Coming(m) = Coming(l)
  BY EventKeepsLink, LinkAfterIs, ComingStays, Sizes DEF Heard, LinkInv
<1> HIDE DEF m
<1>2. 1 <= Ahead(m)
  BY <1>1
<1>3. ASSUME NEW j \in (1 + 1)..Len(q) PROVE LateEntry(m, q[j], m.event + Ahead(m) + (j - 1))
  <2>1. j \in 1..Len(q) /\ j - 1 \in Int /\ q[j] \in Entry
    OBVIOUS
  <2>2. LateEntry(l, q[j], l.event + Ahead(l) + (j - 1))
    BY DEF ChangeAt
  <2>3. QED
    BY <2>1, <2>2, LateMoves DEF m, Heard
<1>4. \A j \in 1..(1 - 1) : FALSE
  OBVIOUS
<1>5. /\ q[1].instant = m.update.instant /\ SameParameters(q[1].conf, Coming(m))
      /\ q[1].conf.offset = Coming(m).offset
  BY <1>1 DEF ChangeAt
<1>6. ChangeAt(m, q, 1)
  BY <1>2, <1>3, <1>4, <1>5 DEF ChangeAt
<1>7. QED
  BY <1>6 DEF m

(* It applies: what repeats it is idle from now on. *)
LEMMA ChangeApplies ==
    ASSUME NEW l \in Link, NEW q \in Seq(Entry), LinkInv(l), q # <<>>,
           Applies(l), ChangeAt(l, q, 1)
    PROVE  AllIdle(LinkAfter(l), Tail(q))
<1> DEFINE m == LinkAfter(l)
           p == Tail(q)
<1>1. /\ Len(p) = Len(q) - 1 /\ Len(q) \in Nat
      /\ \A j \in 1..Len(p) : p[j] = q[j + 1]
      /\ \A j \in 1..Len(q) : q[j] \in Entry
  BY TailIs
<1>2. Ahead(l) = 1 /\ SameParameters(m.is, Coming(l)) /\ l.event \in Int
  BY EventKeepsLink, LinkAfterIs, LinkTypes, Sizes
<1> HIDE DEF p
<1>3. ASSUME NEW j \in 1..Len(p) PROVE IdleEntry(m, p[j], m.event + j)
  <2>1. j + 1 \in (1 + 1)..Len(q) /\ j + 1 \in 1..Len(q) /\ j \in Int /\ (j + 1) - 1 = j
    BY <1>1
  <2> DEFINE e == l.event
             d == Ahead(l)
  <2>2. e \in Int /\ d = 1
    BY <1>2
  <2> HIDE DEF e, d
  <2>3. e + d + j = e + (j + 1)
    BY <2>1, <2>2
  <2>4. /\ j + 1 \in (1 + 1)..Len(q) /\ j + 1 \in 1..Len(q) /\ j \in Int
        /\ l.event + Ahead(l) + ((j + 1) - 1) = l.event + (j + 1)
    BY <2>1, <2>3 DEF e, d
  <2>5. p[j] = q[j + 1] /\ p[j] \in Entry
    BY <1>1, <2>4
  <2>6. LateEntry(l, p[j], l.event + Ahead(l) + ((j + 1) - 1))
    BY <2>4, <2>5 DEF ChangeAt
  <2>7. LateEntry(l, p[j], l.event + (j + 1))
    BY <2>4, <2>6
  <2>8. InTime(p[j], m.event + j)
    BY <2>4, <2>5, <2>7, StillInTime DEF LateEntry
  <2>9. QED
    BY <1>2, <2>7, <2>8 DEF IdleEntry, LateEntry, SameParameters
<1>4. QED
  BY <1>3 DEF AllIdle, p

LEMMA EventKeepsPlain ==
    ASSUME NEW l \in Link, NEW s \in Sniffer, NEW t \in Sniffer, LinkInv(l),
           t = AfterConnEvent(s, HopAfter(l)), s.follows, t.follows,
           s.inTime, s.count = l.event, PlainInv(l, s), Applies(l) => l.heard # 0
    PROVE  t.inTime /\ PlainInv(LinkAfter(l), t)
<1> DEFINE m == LinkAfter(l)
           v == (s.count + 1) % Wrap
           q == s.queue
<1>1. /\ t.conf = NextConf(s, v) /\ t.queue = IF Due(s, v) THEN Tail(q) ELSE q
      /\ t.inTime = (s.inTime /\ Hop(s, v) = HopAfter(l))
  BY AfterIs
<1>2. q \in Seq(Entry)
  BY DEF Sniffer
<1>3. CASE ~Heard(l)
  <2>1. ~Applies(l)
    BY <1>3, LinkTypes DEF Heard, Applies
  <2>2. QED
    BY <1>3, <2>1, EventKeepsAllIdle
<1>4. CASE Heard(l)
  <2>1. PICK k \in 1..Len(q) : ChangeAt(l, q, k)
    BY <1>4 DEF PlainInv
  <2>2. q # <<>> /\ k \in Int /\ Ahead(l) \in 1..(Wrap \div 2 - 1) /\ k <= Ahead(l)
    BY <1>2, <1>4, <2>1 DEF Heard, LinkInv, ChangeAt
  <2>3. SameParameters(s.conf, l.is)
    BY DEF PlainInv
  <2>4. CASE k # 1
    <3>1. k \in 2..Len(q) /\ Ahead(l) # 1
      BY <2>2, <2>4, Sizes
    <3>2. ~Applies(l)
      BY <3>1, EventKeepsLink
    <3>3. IdleEntry(l, q[1], l.event + 1)
      BY <2>1, <3>1 DEF ChangeAt
    <3>4. t.inTime /\ SameParameters(t.conf, m.is) /\ t.queue = Tail(q)
      BY <2>2, <2>3, <3>2, <3>3, EventKeepsIdle
    <3>5. k - 1 \in 1..Len(t.queue) /\ ChangeAt(m, t.queue, k - 1)
      BY <1>2, <1>4, <2>1, <2>2, <3>1, <3>2, <3>4, ChangeMoves
    <3>6. Heard(m)
      BY <1>4, <3>2, LinkAfterIs DEF Heard
    <3>7. QED
      BY <3>4, <3>5, <3>6 DEF PlainInv
  <2>5. CASE k = 1 /\ ~Applies(l)
    <3>1. Ahead(l) \in 2..(Wrap \div 2 - 1)
      BY <1>4, <2>2, <2>5, EventKeepsLink, Sizes DEF Heard
    <3>2. (q[1].instant - s.count) % Wrap \in 2..(Wrap \div 2 - 1)
      BY <2>1, <2>5, <3>1 DEF ChangeAt, Ahead
    <3>3. ~Due(s, v)
      BY <2>2, <3>2, NotYetDue
    <3>4. NextConf(s, v) = s.conf /\ Hop(s, v) = s.conf.interval
      BY <3>3, TakesNothing
    <3>5. t.inTime /\ SameParameters(t.conf, m.is) /\ t.queue = q
      <4>1. /\ m.is.map = l.is.map /\ m.is.phy = l.is.phy /\ m.is.interval = l.is.interval
            /\ HopAfter(l) = l.is.interval
        BY <2>5, LinkAfterIs
      <4>2. Hop(s, v) = HopAfter(l)
        BY <2>3, <3>4, <4>1 DEF SameParameters
      <4>3. t.conf = s.conf /\ t.queue = q /\ t.inTime = TRUE
        BY <1>1, <3>3, <3>4, <4>2
      <4>4. QED
        BY <2>3, <4>1, <4>3 DEF SameParameters
    <3>6. ChangeAt(m, q, 1)
      BY <1>2, <1>4, <2>1, <2>2, <2>5, ChangeStays
    <3>7. Heard(m)
      BY <1>4, <2>5, LinkAfterIs DEF Heard
    <3>8. 1 \in 1..Len(q)
      BY <2>1, <2>5
    <3>9. QED
      BY <3>5, <3>6, <3>7, <3>8 DEF PlainInv
  <2>6. CASE k = 1 /\ Applies(l)
    <3>1. q[1].instant = v
      BY <2>1, <2>6 DEF ChangeAt, Applies
    <3>2. Due(s, v)
      BY <2>2, <3>1 DEF Due
    <3> DEFINE x == q[1].conf
    <3>3. SameParameters(x, Coming(l)) /\ x.offset = Coming(l).offset
      BY <2>1, <2>6 DEF ChangeAt
    <3>4. NextConf(s, v) = x /\ Hop(s, v) = x.offset + x.interval
      BY <3>2 DEF NextConf, Hop
    <3>5. /\ SameParameters(m.is, Coming(l)) /\ m.update = NONE
          /\ HopAfter(l) = Coming(l).offset + Coming(l).interval
      BY <2>6, LinkAfterIs
    <3>6. t.inTime /\ SameParameters(t.conf, m.is) /\ t.queue = Tail(q)
      BY <1>1, <3>2, <3>3, <3>4, <3>5 DEF SameParameters
    <3>7. AllIdle(m, t.queue)
      BY <1>2, <2>1, <2>2, <2>6, <3>6, ChangeApplies
    <3>8. QED
      BY <3>5, <3>6, <3>7 DEF PlainInv, Heard
  <2>7. QED
    BY <2>4, <2>5, <2>6
<1>5. QED
  BY <1>3, <1>4

LEMMA TailLast ==
    ASSUME NEW q \in Seq(Entry), q # <<>>
    PROVE  IF Tail(q) = <<>> THEN Len(q) = 1 ELSE Tail(q)[Len(Tail(q))] = q[Len(q)]
<1> DEFINE p == Tail(q)
<1>1. /\ Len(q) \in Nat /\ Len(q) >= 1 /\ Len(p) = Len(q) - 1 /\ p \in Seq(Entry)
      /\ \A j \in 1..Len(p) : p[j] = q[j + 1]
  BY TailIs
<1> HIDE DEF p
<1>2. p = <<>> => Len(q) = 1
  BY <1>1
<1>3. p # <<>> => Len(p) >= 1
  BY <1>1, TailIs
<1>4. ASSUME p # <<>> PROVE p[Len(p)] = q[Len(q)]
  <2>1. Len(p) \in 1..Len(p) /\ Len(p) + 1 = Len(q)
    BY <1>1, <1>3, <1>4
  <2>2. QED
    BY <1>1, <2>1
<1>5. QED
  BY <1>2, <1>4 DEF p

(* Taking an entry does not change which configuration is the latest. *)
LEMMA LatestStays ==
    ASSUME NEW s \in Sniffer, NEW t \in Sniffer, NEW v,
           t.conf = NextConf(s, v),
           t.queue = IF Due(s, v) THEN Tail(s.queue) ELSE s.queue
    PROVE  /\ RconfLatest(t) = RconfLatest(s)
           /\ \A j \in 1..Len(t.queue) : \E i \in 1..Len(s.queue) : t.queue[j] = s.queue[i]
<1> DEFINE q == s.queue
<1>1. q \in Seq(Entry)
  BY DEF Sniffer
<1>2. CASE Due(s, v)
  <2>1. q # <<>> /\ t.conf = q[1].conf /\ t.queue = Tail(q)
    BY <1>2 DEF Due, NextConf
  <2>2. /\ Len(q) \in Nat /\ Len(q) >= 1 /\ Len(t.queue) = Len(q) - 1
        /\ \A j \in 1..Len(t.queue) : t.queue[j] = q[j + 1]
    BY <1>1, <2>1, TailIs
  <2>3. RconfLatest(s) = q[Len(q)].conf
    BY <2>1 DEF RconfLatest
  <2>4. CASE t.queue = <<>>
    <3>1. Len(q) = 1
      BY <1>1, <2>1, <2>4, TailLast
    <3>2. RconfLatest(t) = q[1].conf
      BY <2>1, <2>4 DEF RconfLatest
    <3>3. QED
      BY <2>2, <2>3, <2>4, <3>1, <3>2
  <2>5. CASE t.queue # <<>>
    <3>2. t.queue[Len(t.queue)] = q[Len(q)]
      BY <1>1, <2>1, <2>5, TailLast
    <3>3. RconfLatest(t) = q[Len(q)].conf
      BY <2>5, <3>2 DEF RconfLatest
    <3>4. \A j \in 1..Len(t.queue) : j + 1 \in 1..Len(q)
      BY <2>2
    <3>5. QED
      BY <2>2, <2>3, <3>3, <3>4
  <2>6. QED
    BY <2>4, <2>5
<1>3. CASE ~Due(s, v)
  BY <1>3 DEF NextConf, RconfLatest
<1>4. QED
  BY <1>2, <1>3

LEMMA EventKeepsEncrypted ==
    ASSUME NEW l \in Link, NEW s \in Sniffer, NEW t \in Sniffer, LinkInv(l),
           t = AfterConnEvent(s, HopAfter(l)), s.follows, t.follows,
           s.inTime, s.count = l.event, EncryptedInv(l, s), Applies(l) => l.heard # 0
    PROVE  t.inTime /\ EncryptedInv(LinkAfter(l), t)
<1> DEFINE m == LinkAfter(l)
           v == (s.count + 1) % Wrap
           q == s.queue
<1>1. /\ t.conf = NextConf(s, v) /\ t.queue = IF Due(s, v) THEN Tail(q) ELSE q
      /\ t.inTime = (s.inTime /\ Hop(s, v) = HopAfter(l))
  BY AfterIs
<1>2. q \in Seq(Entry) /\ s.conf \in RadioConfig
  BY DEF Sniffer
<1>3. /\ m.is.map = l.is.map /\ m.is.interval = l.is.interval /\ HopAfter(l) = l.is.interval
      /\ Applies(l) => m.is.phy = PreloadedPhy /\ Heard(l)
  <2>1. CASE ~Applies(l)
    BY <2>1, LinkAfterIs
  <2>2. CASE Applies(l)
    <3>1. l.update # NONE /\ l.update \in Update /\ l.update.kind = "phy"
          /\ l.update.phy = PreloadedPhy
      BY <2>2, ComingType DEF Applies, EncryptedInv, ToPreloaded
    <3>2. l.is \in Parameters
      BY LinkTypes
    <3>3. /\ Unshifted(l.is) \in RadioConfig /\ Unshifted(l.is).map = l.is.map
          /\ Unshifted(l.is).interval = l.is.interval
      BY <3>2, UnshiftedType DEF SameParameters
    <3>4. /\ Coming(l).phy = PreloadedPhy /\ Coming(l).offset = 0
          /\ Coming(l).map = l.is.map /\ Coming(l).interval = l.is.interval
          /\ Coming(l) \in RadioConfig
      BY <3>1, <3>3, ChangedIs DEF Coming
    <3>5. Coming(l).offset + Coming(l).interval = l.is.interval
      BY <3>4, NoShift
    <3>6. Heard(l)
      BY <2>2, LinkTypes DEF Heard, Applies
    <3>7. QED
      BY <2>2, <3>4, <3>5, <3>6, LinkAfterIs DEF SameParameters
  <2>3. QED
    BY <2>1, <2>2
<1>4. t.inTime /\ SamePlace(t.conf, m)
  <2>1. CASE Due(s, v)
    <3> DEFINE x == q[1].conf
    <3>1. q # <<>> /\ 1 \in 1..Len(q)
      BY <1>2, <2>1 DEF Due
    <3>2. SamePlace(x, l) /\ x.offset = 0 /\ x \in RadioConfig
      BY <3>1, HeadType DEF EncryptedInv
    <3>3. NextConf(s, v) = x /\ Hop(s, v) = x.offset + x.interval
      BY <2>1 DEF NextConf, Hop
    <3>4. Hop(s, v) = x.interval
      BY <3>2, <3>3, NoShift
    <3>5. QED
      BY <1>1, <1>3, <3>2, <3>3, <3>4 DEF SamePlace
  <2>2. CASE ~Due(s, v)
    <3>1. NextConf(s, v) = s.conf /\ Hop(s, v) = s.conf.interval
      BY <2>2, TakesNothing
    <3>2. QED
      BY <1>1, <1>3, <3>1 DEF SamePlace, EncryptedInv
  <2>3. QED
    BY <2>1, <2>2
<1>5. /\ RconfLatest(t) = RconfLatest(s)
      /\ \A j \in 1..Len(t.queue) : \E i \in 1..Len(q) : t.queue[j] = q[i]
  BY <1>1, LatestStays
<1>6. \A j \in 1..Len(t.queue) : SamePlace(t.queue[j].conf, m) /\ t.queue[j].conf.offset = 0
  BY <1>3, <1>5 DEF SamePlace, EncryptedInv
<1>7. ToPreloaded(m) /\ RconfLatest(t).phy = IF Heard(m) THEN PreloadedPhy ELSE m.is.phy
  <2>1. CASE Applies(l)
    BY <1>3, <1>5, <2>1, LinkAfterIs DEF EncryptedInv, ToPreloaded, Heard
  <2>2. CASE ~Applies(l)
    BY <1>5, <2>2, LinkAfterIs DEF EncryptedInv, ToPreloaded, Heard
  <2>3. QED
    BY <2>1, <2>2
<1>8. QED
  BY <1>4, <1>6, <1>7 DEF EncryptedInv

-----------------------------------------------------------------------------
(* What is inserted. *)

(* The instant of a change lies in the past as many events as have gone by. *)
LEMMA AgoAhead ==
    ASSUME NEW e \in Event, NEW i \in Event, NEW r \in 0..(Wrap - 1)
    PROVE  Ago(e + ((i - e) % Wrap) + r, i) = r
<1> DEFINE d == (i - e) % Wrap
<1>1. e \in Int /\ i \in Int /\ i - e \in Int /\ r \in Int
  BY Sizes
<1>2. d \in Int
  BY <1>1, ModRange
<1>3. (d + ((e + r) - i)) % Wrap = ((i - e) + ((e + r) - i)) % Wrap
  BY <1>1, ModSum
<1> HIDE DEF d
<1>4. (i - e) + ((e + r) - i) = r /\ (e + d + r) - i = d + ((e + r) - i)
  BY <1>1, <1>2
<1>5. r % Wrap = r
  BY ModSmall
<1>6. Ago(e + d + r, i) = r
  BY <1>3, <1>4, <1>5 DEF Ago
<1>7. QED
  BY <1>6 DEF d

(* So does that of a copy that is due at the next event. *)
LEMMA AgoCopy ==
    ASSUME NEW e \in Event, NEW r \in Int, r - 1 \in 0..(Wrap - 1)
    PROVE  Ago(e + r, (e + 1) % Wrap) = r - 1
<1>1. e \in Int /\ e + 1 \in Int /\ e + r \in Int
  BY Sizes
<1>2. ((e + r) - ((e + 1) % Wrap)) % Wrap = ((e + r) - (e + 1)) % Wrap
  BY <1>1, ModDifference
<1>3. (e + r) - (e + 1) = r - 1
  BY <1>1
<1>4. (r - 1) % Wrap = r - 1
  BY ModSmall
<1>5. QED
  BY <1>2, <1>3, <1>4 DEF Ago

(* The latest configuration is what is in force, or what is coming. *)
LEMMA LatestPlain ==
    ASSUME NEW l \in Link, NEW s \in Sniffer, PlainInv(l, s)
    PROVE  SameParameters(RconfLatest(s), IF Heard(l) THEN Coming(l) ELSE l.is)
<1> DEFINE q == s.queue
           n == Len(q)
<1>1. /\ n \in Nat /\ q \in Seq(Entry)
      /\ q = <<>> => RconfLatest(s) = s.conf
      /\ q # <<>> => n >= 1 /\ RconfLatest(s) = q[n].conf
  BY LatestType DEF Sniffer
<1>2. q = <<>> => n = 0
  OBVIOUS
<1> HIDE DEF n
<1>3. CASE Heard(l)
  <2>1. PICK k \in 1..n : ChangeAt(l, q, k)
    BY <1>3 DEF PlainInv, n
  <2>2. q # <<>> /\ (k = n \/ n \in (k + 1)..n)
    BY <1>1, <1>2, <2>1
  <2>3. SameParameters(q[n].conf, Coming(l))
    BY <2>1, <2>2 DEF ChangeAt, LateEntry, n
  <2>4. QED
    BY <1>1, <1>3, <2>2, <2>3
<1>4. CASE ~Heard(l)
  <2>1. AllIdle(l, q) /\ SameParameters(s.conf, l.is)
    BY <1>4 DEF PlainInv
  <2>2. q # <<>> => n \in 1..n
    BY <1>1
  <2>3. q # <<>> => SameParameters(q[n].conf, l.is)
    BY <2>1, <2>2 DEF AllIdle, IdleEntry, n
  <2>4. QED
    BY <1>1, <1>4, <2>1, <2>3
<1>5. QED
  BY <1>3, <1>4

(* The same change of the same parameters. *)
LEMMA ChangedSame ==
    ASSUME NEW c \in RadioConfig, NEW d \in RadioConfig, NEW u \in Update,
           SameParameters(c, d) \/ SameParameters(c, Changed(d, u))
    PROVE  /\ SameParameters(Changed(c, u), Changed(d, u))
           /\ Changed(c, u).offset = Changed(d, u).offset
           /\ ~(u.kind = "connection" /\ u.offset # 0) => Changed(d, u).offset = 0
<1>1. u.kind \in {"connection", "map", "phy"}
  BY ChangedIs
<1>2. CASE u.kind = "connection"
  BY <1>2, ChangedIs DEF SameParameters
<1>3. CASE u.kind = "map"
  BY <1>3, ChangedIs DEF SameParameters
<1>4. CASE u.kind = "phy"
  BY <1>4, ChangedIs DEF SameParameters
<1>5. QED
  BY <1>1, <1>2, <1>3, <1>4

(* How often the announcement has been heard does not matter to the entries. *)
LEMMA SameLink ==
    ASSUME NEW l, NEW m, m.event = l.event, m.is = l.is, m.update = l.update
    PROVE  /\ Coming(m) = Coming(l) /\ Ahead(m) = Ahead(l)
           /\ \A x, e : IdleEntry(m, x, e) <=> IdleEntry(l, x, e)
           /\ \A x, e : LateEntry(m, x, e) <=> LateEntry(l, x, e)
<1>1. Coming(m) = Coming(l) /\ Ahead(m) = Ahead(l)
  BY DEF Coming, Ahead
<1>2. QED
  BY <1>1 DEF IdleEntry, LateEntry

(* The announcement is heard for the first time. *)
LEMMA HeardFirst ==
    ASSUME NEW l \in Link, NEW s \in Sniffer, NEW m \in Link, NEW t \in Sniffer, NEW x \in Entry,
           LinkInv(l), PlainInv(l, s), l.update # NONE, ~Heard(l),
           m.event = l.event, m.is = l.is, m.update = l.update, Heard(m),
           x.instant = l.update.instant, x.conf = Changed(RconfLatest(s), l.update),
           t.conf = s.conf, t.queue = Append(s.queue, x), Len(s.queue) < Ahead(l)
    PROVE  PlainInv(m, t)
<1> DEFINE q == s.queue
           p == t.queue
           k == Len(q) + 1
<1>1. q \in Seq(Entry)
  BY DEF Sniffer
<1>2. /\ Len(q) \in Nat /\ Len(p) = Len(q) + 1 /\ p[k] = x
      /\ \A j \in 1..Len(q) : p[j] = q[j]
  BY <1>1, AppendIs
<1>3. l.update \in Update /\ Unshifted(l.is) \in RadioConfig /\ l.is \in Parameters
  BY LinkTypes, UnshiftedType
<1>4. SameParameters(RconfLatest(s), Unshifted(l.is)) /\ RconfLatest(s) \in RadioConfig
  BY <1>3, LatestPlain, LatestType, UnshiftedType DEF SameParameters
<1>5. SameParameters(x.conf, Coming(l)) /\ x.conf.offset = Coming(l).offset
  BY <1>3, <1>4, ChangedSame DEF Coming
<1>6. AllIdle(l, q) /\ SameParameters(s.conf, l.is)
  BY DEF PlainInv
<1>7. /\ Coming(m) = Coming(l) /\ Ahead(m) = Ahead(l)
      /\ \A y, e : IdleEntry(m, y, e) <=> IdleEntry(l, y, e)
  BY SameLink
<1>8. Ahead(l) \in 1..(Wrap \div 2 - 1)
  BY DEF LinkInv
<1> HIDE DEF p
<1>9. k <= Ahead(m) /\ k \in 1..Len(p)
  BY <1>2, <1>7, <1>8, Sizes
<1>10. ASSUME NEW j \in 1..(k - 1) PROVE IdleEntry(m, p[j], m.event + j)
  <2>1. j \in 1..Len(q)
    BY <1>2
  <2>2. QED
    BY <1>2, <1>6, <1>7, <2>1 DEF AllIdle
<1>11. \A j \in (k + 1)..Len(p) : FALSE
  BY <1>2
<1>12. /\ p[k].instant = m.update.instant
       /\ SameParameters(p[k].conf, Coming(m)) /\ p[k].conf.offset = Coming(m).offset
  BY <1>2, <1>5, <1>7
<1> HIDE DEF k
<1>13. ChangeAt(m, p, k)
  BY <1>9, <1>10, <1>11, <1>12 DEF ChangeAt
<1>14. QED
  BY <1>6, <1>9, <1>13 DEF PlainInv, p

(* An entry behind the change that repeats it. *)
LEMMA RepeatKeepsPlain ==
    ASSUME NEW l \in Link, NEW s \in Sniffer, NEW m \in Link, NEW t \in Sniffer, NEW x \in Entry,
           LinkInv(l), PlainInv(l, s), Heard(l),
           m.event = l.event, m.is = l.is, m.update = l.update, Heard(m),
           SameParameters(x.conf, Coming(l)), x.conf.offset = 0,
           \A r \in 1..Len(s.queue) : InTime(x, l.event + Ahead(l) + r),
           t.conf = s.conf, t.queue = Append(s.queue, x)
    PROVE  PlainInv(m, t)
<1> DEFINE q == s.queue
           p == t.queue
<1>1. q \in Seq(Entry)
  BY DEF Sniffer
<1>2. /\ Len(q) \in Nat /\ Len(p) = Len(q) + 1 /\ p[Len(q) + 1] = x
      /\ \A j \in 1..Len(q) : p[j] = q[j]
  BY <1>1, AppendIs
<1>3. PICK k \in 1..Len(q) : ChangeAt(l, q, k)
  BY DEF PlainInv
<1>4. /\ Coming(m) = Coming(l) /\ Ahead(m) = Ahead(l)
      /\ \A y, e : IdleEntry(m, y, e) <=> IdleEntry(l, y, e)
      /\ \A y, e : LateEntry(m, y, e) <=> LateEntry(l, y, e)
  BY SameLink
<1> HIDE DEF p
<1>5. k \in 1..Len(p) /\ k \in Int /\ p[k] = q[k]
  BY <1>2
<1>6. ASSUME NEW j \in 1..(k - 1) PROVE IdleEntry(m, p[j], m.event + j)
  <2>1. j \in 1..Len(q)
    BY <1>2
  <2>2. QED
    BY <1>2, <1>3, <1>4, <2>1 DEF ChangeAt
<1>7. ASSUME NEW j \in (k + 1)..Len(p)
      PROVE  LateEntry(m, p[j], m.event + Ahead(m) + (j - k))
  <2>1. CASE j \in 1..Len(q)
    <3>1. j \in (k + 1)..Len(q)
      BY <1>5, <2>1
    <3>2. QED
      BY <1>2, <1>3, <1>4, <2>1, <3>1 DEF ChangeAt
  <2>2. CASE j \notin 1..Len(q)
    <3>1. j = Len(q) + 1 /\ j - k \in 1..Len(q)
      BY <1>2, <1>5, <2>2
    <3>2. InTime(x, l.event + Ahead(l) + (j - k)) /\ p[j] = x
      BY <1>2, <3>1
    <3>3. QED
      BY <1>4, <3>2 DEF LateEntry
  <2>3. QED
    BY <2>1, <2>2
<1>8. ChangeAt(m, p, k)
  BY <1>3, <1>4, <1>5, <1>6, <1>7 DEF ChangeAt
<1>9. QED
  BY <1>5, <1>8 DEF PlainInv, p

(* The announcement is heard again: unless it shifts the events, nothing is *)
(* wrong with an entry that repeats it.                                     *)
LEMMA HeardAgain ==
    ASSUME NEW l \in Link, NEW s \in Sniffer, NEW m \in Link, NEW t \in Sniffer, NEW x \in Entry,
           LinkInv(l), PlainInv(l, s), Heard(l),
           m.event = l.event, m.is = l.is, m.update = l.update, Heard(m),
           ~(l.update.kind = "connection" /\ l.update.offset # 0),
           x.instant = l.update.instant, x.conf = Changed(RconfLatest(s), l.update),
           t.conf = s.conf, t.queue = Append(s.queue, x), Len(s.queue) < Ahead(l)
    PROVE  PlainInv(m, t)
<1>1. /\ l.update \in Update /\ l.update.instant \in Event /\ l.event \in Event
      /\ Unshifted(l.is) \in RadioConfig
  BY LinkTypes, ComingType, UnshiftedType DEF Heard
<1>2. SameParameters(RconfLatest(s), Coming(l)) /\ RconfLatest(s) \in RadioConfig
  BY LatestPlain, LatestType
<1>3. SameParameters(x.conf, Coming(l)) /\ x.conf.offset = 0
  BY <1>1, <1>2, ChangedSame DEF Coming
<1>4. Ahead(l) \in 1..(Wrap \div 2 - 1) /\ Len(s.queue) \in Nat
  BY LatestType DEF LinkInv, Heard
<1>5. ASSUME NEW r \in 1..Len(s.queue) PROVE InTime(x, l.event + Ahead(l) + r)
  <2>1. r \in 0..(Wrap - 1) /\ r <= Wrap - Wrap \div 2
    BY <1>4, Sizes
  <2>2. Ago(l.event + Ahead(l) + r, l.update.instant) = r
    BY <1>1, <2>1, AgoAhead DEF Ahead
  <2>3. QED
    BY <2>1, <2>2 DEF InTime
<1>6. QED
  BY <1>3, <1>5, RepeatKeepsPlain

(* The host sets the map that is in force. *)
LEMMA CopyKeepsPlain ==
    ASSUME NEW l \in Link, NEW s \in Sniffer, NEW t \in Sniffer, NEW x \in Entry,
           LinkInv(l), PlainInv(l, s), Len(s.queue) < QueueSize,
           Heard(l) => Ahead(l) + Len(s.queue) - 1 <= Wrap - Wrap \div 2,
           x.instant = (l.event + 1) % Wrap, x.conf.offset = 0,
           SameParameters(x.conf, RconfLatest(s)),
           t.conf = s.conf, t.queue = Append(s.queue, x)
    PROVE  PlainInv(l, t)
<1> DEFINE q == s.queue
           p == t.queue
           n == Len(q)
<1>1. l.event \in Event /\ q \in Seq(Entry) /\ n \in Nat
  BY LinkTypes, LatestType DEF Sniffer
<1>2. CASE Heard(l)
  <2>1. SameParameters(x.conf, Coming(l))
    BY <1>2, LatestPlain DEF SameParameters
  <2>2. Ahead(l) \in 1..(Wrap \div 2 - 1)
    BY <1>2 DEF LinkInv, Heard
  <2>3. ASSUME NEW r \in 1..n PROVE InTime(x, l.event + Ahead(l) + r)
    <3> DEFINE d == Ahead(l)
               a == d + r
    <3>0. d \in Int /\ d >= 1 /\ n \in Int /\ r \in Int /\ 1 <= r /\ r <= n
          /\ d + n - 1 <= Wrap - Wrap \div 2
      BY <1>1, <1>2, <2>2, Sizes
    <3> HIDE DEF d, n
    <3>1. /\ a \in Int /\ a - 1 \in 0..(Wrap - 1) /\ a - 1 <= Wrap - Wrap \div 2
      BY <3>0, Sizes
    <3>2. l.event \in Int
      BY <1>1, Sizes
    <3>3. l.event + Ahead(l) + r = l.event + a
      BY <3>0, <3>2 DEF d
    <3> HIDE DEF a
    <3>4. Ago(l.event + a, x.instant) = a - 1
      BY <1>1, <3>1, AgoCopy
    <3>5. QED
      BY <3>1, <3>3, <3>4 DEF InTime
  <2>4. QED
    BY <1>2, <2>1, <2>3, RepeatKeepsPlain
<1>3. CASE ~Heard(l)
  <2>1. AllIdle(l, q) /\ SameParameters(s.conf, l.is)
    BY <1>3 DEF PlainInv
  <2>2. SameParameters(x.conf, l.is)
    BY <1>3, LatestPlain DEF SameParameters
  <2>3. n + 1 \in Int /\ (n + 1) - 1 \in 0..(Wrap - 1) /\ (n + 1) - 1 <= Wrap - Wrap \div 2
    <3>1. n \in Nat /\ n < QueueSize
      BY <1>1
    <3> HIDE DEF n
    <3>2. QED
      BY <3>1, Sizes
  <2>4. Ago(l.event + (n + 1), x.instant) = (n + 1) - 1
    BY <1>1, <2>3, AgoCopy
  <2>5. IdleEntry(l, x, l.event + (n + 1))
    BY <2>2, <2>3, <2>4 DEF IdleEntry, InTime
  <2>6. /\ Len(p) = n + 1 /\ p[n + 1] = x
        /\ \A j \in 1..n : p[j] = q[j]
    BY <1>1, AppendIs
  <2> HIDE DEF p, n
  <2>7. ASSUME NEW j \in 1..Len(p) PROVE IdleEntry(l, p[j], l.event + j)
    <3>1. CASE j \in 1..n
      BY <2>1, <2>6, <3>1 DEF AllIdle, n
    <3>2. CASE j \notin 1..n
      <4>1. j = n + 1
        BY <1>1, <2>6, <3>2
      <4>2. QED
        BY <2>5, <2>6, <4>1
    <3>3. QED
      BY <3>1, <3>2
  <2>8. AllIdle(l, p)
    BY <2>7 DEF AllIdle
  <2>9. QED
    BY <1>3, <2>1, <2>8 DEF PlainInv, p
<1>4. QED
  BY <1>2, <1>3

(* With encryption the latest configuration has the map and the interval. *)
LEMMA LatestPlace ==
    ASSUME NEW l \in Link, NEW s \in Sniffer, EncryptedInv(l, s)
    PROVE  SamePlace(RconfLatest(s), l)
<1>1. /\ s.queue = <<>> => RconfLatest(s) = s.conf
      /\ s.queue # <<>> => Len(s.queue) >= 1 /\ RconfLatest(s) = s.queue[Len(s.queue)].conf
      /\ Len(s.queue) \in Nat
  BY LatestType
<1>2. s.queue # <<>> => Len(s.queue) \in 1..Len(s.queue)
  BY <1>1
<1>3. QED
  BY <1>1, <1>2 DEF EncryptedInv

-----------------------------------------------------------------------------
(* The steps. *)

(* The invariant looks at the configuration and the queue of the sniffer only. *)
LEMMA SameQueue ==
    ASSUME NEW l, NEW s, NEW t, t.conf = s.conf, t.queue = s.queue
    PROVE  /\ RconfLatest(t) = RconfLatest(s)
           /\ PlainInv(l, t) <=> PlainInv(l, s)
           /\ EncryptedInv(l, t) <=> EncryptedInv(l, s)
<1>1. RconfLatest(t) = RconfLatest(s)
  BY DEF RconfLatest
<1>2. QED
  BY <1>1 DEF PlainInv, EncryptedInv

LEMMA AppendKeepsEncrypted ==
    ASSUME NEW l \in Link, NEW s \in Sniffer, NEW m \in Link, NEW t \in Sniffer, NEW x \in Entry,
           EncryptedInv(l, s), m.is = l.is, ToPreloaded(m),
           SamePlace(x.conf, l), x.conf.offset = 0,
           x.conf.phy = IF Heard(m) THEN PreloadedPhy ELSE m.is.phy,
           t.conf = s.conf, t.queue = Append(s.queue, x)
    PROVE  EncryptedInv(m, t)
<1> DEFINE q == s.queue
           p == t.queue
<1>1. q \in Seq(Entry)
  BY DEF Sniffer
<1>2. /\ Len(q) \in Nat /\ Len(p) = Len(q) + 1 /\ p[Len(q) + 1] = x /\ p # <<>>
      /\ \A j \in 1..Len(q) : p[j] = q[j]
  BY <1>1, AppendIs
<1> HIDE DEF p
<1>3. RconfLatest(t) = x.conf
  BY <1>2 DEF RconfLatest, p
<1>4. ASSUME NEW j \in 1..Len(p) PROVE SamePlace(p[j].conf, m) /\ p[j].conf.offset = 0
  <2>1. CASE j \in 1..Len(q)
    BY <1>2, <2>1 DEF EncryptedInv, SamePlace
  <2>2. CASE j \notin 1..Len(q)
    <3>1. p[j] = x
      BY <1>2, <2>2
    <3>2. QED
      BY <3>1 DEF SamePlace
  <2>3. QED
    BY <2>1, <2>2
<1>5. SamePlace(t.conf, m)
  BY DEF EncryptedInv, SamePlace
<1>6. QED
  BY <1>3, <1>4, <1>5 DEF EncryptedInv, p

LEMMA InitKept == ASSUME Init PROVE Kept(link, sniffer, setMap, mishap)
<1>1. link.update = NONE /\ link.heard = 0 /\ link.event = 0 /\ link.encrypted = FALSE
      /\ link.is \in Parameters
  BY DEF Init
<1>2. SameParameters(Unshifted(link.is), link.is)
  BY <1>1, UnshiftedType
<1>3. /\ sniffer.conf = Unshifted(link.is) /\ sniffer.queue = <<>>
      /\ sniffer.inTime = TRUE /\ sniffer.count = 0
  BY DEF Init
<1>4. PlainInv(link, sniffer)
  BY <1>1, <1>2, <1>3 DEF PlainInv, Heard, AllIdle
<1>5. QED
  BY <1>1, <1>3, <1>4 DEF Kept, LinkInv, FollowInv, QueueInv, SetMapInv, Init

LEMMA AnnouncesKept ==
    ASSUME TypeOK, TypeOK', Kept(link, sniffer, setMap, mishap), Announces
    PROVE  Kept(link', sniffer', setMap', mishap')
<1> DEFINE l == link
           m == link'
<1>0. l \in Link /\ m \in Link /\ sniffer \in Sniffer
  BY Typed DEF TypeOK, Link, Sniffer, Entry
<1>1. PICK lead \in Leads, u \in Update :
         /\ u.instant = (l.event + lead) % Wrap
         /\ l.encrypted => u.kind = "phy"
         /\ m = [l EXCEPT !.update = u, !.heard = 0]
         /\ mishap' = (mishap \/ (l.encrypted /\ BadGuess(u)))
  BY DEF Announces
<1>2. /\ m.update = u /\ m.heard = 0 /\ m.event = l.event /\ m.is = l.is
      /\ m.encrypted = l.encrypted /\ m.alive = l.alive /\ l.update = NONE
      /\ sniffer' = sniffer /\ setMap' = setMap
  BY <1>0, <1>1 DEF Announces, Link
<1> HIDE DEF m
<1>3. Ahead(m) = lead
  <2>1. l.event \in Event /\ l.event \in Int /\ lead \in 1..(Wrap \div 2 - 1)
    BY <1>0, LinkTypes, Sizes, ConnAssumption
  <2>2. lead \in Int /\ lead \in 0..(Wrap - 1) /\ l.event + lead \in Int /\ -l.event \in Int
    BY <2>1, Sizes
  <2> DEFINE v == (l.event + lead) % Wrap
  <2>3. (v + (-l.event)) % Wrap = ((l.event + lead) + (-l.event)) % Wrap
    BY <2>2, ModSum
  <2>4. v \in Int
    BY <2>2, ModRange
  <2> HIDE DEF v
  <2>5. (l.event + lead) + (-l.event) = lead /\ v + (-l.event) = v - l.event
    BY <2>1, <2>2, <2>4
  <2>6. lead % Wrap = lead
    BY <2>2, ModSmall
  <2>7. (v - l.event) % Wrap = lead
    BY <2>3, <2>5, <2>6
  <2>8. QED
    BY <1>1, <1>2, <2>7 DEF Ahead, v
<1>4. LinkInv(m)
  BY <1>2, <1>3, ConnAssumption DEF LinkInv
<1>5. ASSUME m.alive, sniffer'.follows, ~mishap' PROVE FollowInv(m, sniffer', setMap')
  <2>1. ~mishap /\ FollowInv(l, sniffer, setMap)
    BY <1>1, <1>2, <1>5 DEF Kept
  <2>2. ~Heard(l) /\ ~Heard(m)
    BY <1>2 DEF Heard
  <2>3. CASE ~l.encrypted
    <3>1. PlainInv(l, sniffer)
      BY <2>1, <2>3 DEF FollowInv, QueueInv
    <3>2. PlainInv(m, sniffer)
      BY <1>2, <2>2, <3>1 DEF PlainInv, AllIdle, IdleEntry
    <3>3. QED
      BY <1>2, <2>1, <2>3, <3>2 DEF FollowInv, QueueInv, SetMapInv
  <2>4. CASE l.encrypted
    <3>1. EncryptedInv(l, sniffer)
      BY <2>1, <2>4 DEF FollowInv, QueueInv
    <3>2. u.kind = "phy" /\ u.phy = PreloadedPhy /\ l.is.phy # PreloadedPhy
      BY <1>1, <1>5, <2>4 DEF BadGuess
    <3>3. EncryptedInv(m, sniffer)
      BY <1>2, <2>2, <3>1, <3>2 DEF EncryptedInv, ToPreloaded, SamePlace
    <3>4. QED
      BY <1>2, <2>1, <2>4, <3>3 DEF FollowInv, QueueInv, SetMapInv
  <2>5. QED
    BY <2>3, <2>4
<1>6. QED
  BY <1>4, <1>5 DEF Kept, m

LEMMA HearsUpdateKept ==
    ASSUME TypeOK, TypeOK', Kept(link, sniffer, setMap, mishap), HearsUpdate
    PROVE  Kept(link', sniffer', setMap', mishap')
<1> DEFINE l == link
           m == link'
           s == sniffer
           t == sniffer'
           u == link.update
           r == ReactToUpdate(s, u)
<1>0. l \in Link /\ m \in Link /\ s \in Sniffer /\ t \in Sniffer
  BY Typed DEF TypeOK, Link, Sniffer, Entry
<1>1. /\ u # NONE /\ CanHear /\ t = [r EXCEPT !.gotData = TRUE]
      /\ m = [l EXCEPT !.heard = @ + 1] /\ setMap' = setMap
      /\ mishap' = (mishap \/ Twice \/ Crossed \/ Full \/ Late)
  BY DEF HearsUpdate
<1>2. u \in Update /\ u.instant \in Event /\ l.heard \in Nat /\ Changed(RconfLatest(s), u) \in RadioConfig
  BY <1>0, <1>1, ComingType, LinkTypes, LatestType, ChangedIs
<1>3. /\ m.update = u /\ m.heard = l.heard + 1 /\ m.event = l.event /\ m.is = l.is
      /\ m.encrypted = l.encrypted /\ m.alive = l.alive
  BY <1>0, <1>1 DEF Link
<1>4. r \in Sniffer
  BY <1>0, <1>2, ReactType
<1>5. /\ t.conf = r.conf /\ t.queue = r.queue /\ t.count = r.count /\ t.inTime = r.inTime
      /\ t.follows = r.follows
  BY <1>1, <1>4 DEF Sniffer
<1> HIDE DEF m, t, r
<1>6. LinkInv(m) /\ Heard(m)
  BY <1>1, <1>2, <1>3 DEF Kept, LinkInv, Ahead, Heard
<1>7. ASSUME m.alive, t.follows, ~mishap' PROVE FollowInv(m, t, setMap')
  <2>1. /\ ~mishap /\ ~Twice /\ setMap = NONE /\ Len(s.queue) < QueueSize
        /\ Len(s.queue) < Ahead(l)
    <3>1. Len(s.queue) \in Nat /\ Ahead(l) \in Int /\ QueueSize \in Int
      BY <1>0, <1>1, LatestType, Sizes DEF Kept, LinkInv
    <3>2. ~mishap /\ ~Twice /\ ~Crossed /\ ~Full /\ ~Late
      BY <1>1, <1>7
    <3>3. QED
      BY <3>1, <3>2 DEF Crossed, Full, Late, Ahead
  <2>2. FollowInv(l, s, setMap) /\ InStep
    BY <1>1, <1>3, <1>7, <2>1 DEF Kept, CanHear
  <2>3. SetMapInv(m, t, setMap')
    BY <1>1, <2>1 DEF SetMapInv
  <2>4. CASE ~l.encrypted
    <3> DEFINE c == Changed(RconfLatest(s), u)
               x == [instant |-> u.instant, conf |-> c]
    <3>1. r = Enqueue(s, u.instant, c)
      BY <2>4 DEF ReactToUpdate, r
    <3>2. /\ r.queue = Append(s.queue, x) /\ r.conf = s.conf /\ r.count = s.count
          /\ r.inTime = s.inTime
      BY <1>0, <1>2, <2>1, <3>1, EnqueueIs
    <3>3. x \in Entry /\ x.instant = u.instant /\ x.conf = c
      BY <1>2 DEF Entry
    <3> HIDE DEF x
    <3>4. t.queue = Append(s.queue, x) /\ t.conf = s.conf
      BY <1>5, <3>2
    <3>5. PlainInv(l, s) /\ LinkInv(l)
      BY <2>2, <2>4 DEF FollowInv, QueueInv, Kept
    <3>6. PlainInv(m, t)
      <4>1. CASE ~Heard(l)
        BY <1>0, <1>1, <1>3, <1>6, <2>1, <3>3, <3>4, <3>5, <4>1, HeardFirst
      <4>2. CASE Heard(l)
        <5>1. ~(u.kind = "connection" /\ u.offset # 0)
          BY <1>2, <2>1, <4>2 DEF Twice, Heard
        <5>2. QED
          BY <1>0, <1>1, <1>3, <1>6, <2>1, <3>3, <3>4, <3>5, <4>2, <5>1, HeardAgain
      <4>3. QED
        BY <4>1, <4>2
    <3>7. QED
      BY <1>3, <1>5, <2>2, <2>3, <2>4, <3>2, <3>6 DEF FollowInv, QueueInv
  <2>5. CASE l.encrypted
    <3>1. EncryptedInv(l, s) /\ ToPreloaded(l) /\ u.kind = "phy" /\ u.phy = PreloadedPhy
          /\ l.is.phy # PreloadedPhy
      BY <1>1, <2>2, <2>5 DEF FollowInv, QueueInv, EncryptedInv, ToPreloaded
    <3>2. ToPreloaded(m)
      BY <1>3, <3>1 DEF ToPreloaded
    <3> DEFINE last == RconfLatest(s)
    <3>3. last \in RadioConfig
      BY <1>0, LatestType
    <3>4. CASE last.phy = PreloadedPhy
      <4>1. r = s
        BY <2>5, <3>4 DEF ReactToUpdate, r
      <4>2. EncryptedInv(m, s)
        BY <1>3, <1>6, <3>1, <3>2, <3>4 DEF EncryptedInv, SamePlace
      <4>3. EncryptedInv(m, t)
        BY <1>5, <4>1, <4>2, SameQueue
      <4>4. QED
        BY <1>3, <1>5, <2>2, <2>3, <2>5, <4>1, <4>3 DEF FollowInv, QueueInv
    <3>5. CASE last.phy # PreloadedPhy
      <4> DEFINE i == (s.count + GuessedLead) % Wrap
                 c == [last EXCEPT !.phy = PreloadedPhy, !.offset = 0]
                 x == [instant |-> i, conf |-> c]
      <4>1. r = Enqueue(s, i, c)
        BY <2>5, <3>5 DEF ReactToUpdate, r
      <4>2. i \in Event
        BY <1>0, NextEvent, ConnAssumption DEF Sniffer
      <4>3. /\ c \in RadioConfig /\ c.phy = PreloadedPhy /\ c.offset = 0
            /\ c.map = last.map /\ c.interval = last.interval
        BY <3>3, ConnAssumption DEF RadioConfig
      <4> HIDE DEF i, c
      <4>4. /\ r.queue = Append(s.queue, x) /\ r.conf = s.conf /\ r.count = s.count
            /\ r.inTime = s.inTime
        BY <1>0, <2>1, <4>1, <4>2, <4>3, EnqueueIs
      <4>5. x \in Entry /\ x.conf = c
        BY <4>2, <4>3 DEF Entry
      <4>6. SamePlace(last, l)
        BY <1>0, <3>1, LatestPlace
      <4>7. SamePlace(c, l)
        BY <4>3, <4>6 DEF SamePlace
      <4> HIDE DEF x
      <4>8. t.queue = Append(s.queue, x) /\ t.conf = s.conf
        BY <1>5, <4>4
      <4>9. EncryptedInv(m, t)
        BY <1>0, <1>3, <1>6, <3>1, <3>2, <4>3, <4>5, <4>7, <4>8, AppendKeepsEncrypted
      <4>10. QED
        BY <1>3, <1>5, <2>2, <2>3, <2>5, <4>4, <4>9 DEF FollowInv, QueueInv
    <3>6. QED
      BY <3>4, <3>5
  <2>6. QED
    BY <2>4, <2>5
<1>8. QED
  BY <1>6, <1>7 DEF Kept, m, t

LEMMA EventEndsKept ==
    ASSUME TypeOK, TypeOK', Kept(link, sniffer, setMap, mishap), EventEnds
    PROVE  Kept(link', sniffer', setMap', mishap')
<1> DEFINE l == link
           m == LinkAfter(link)
           s == sniffer
           t == sniffer'
<1>0. l \in Link /\ m \in Link /\ s \in Sniffer /\ t \in Sniffer
  BY Typed, LinkAfterIs DEF TypeOK, Link, Sniffer, Entry
<1>1. /\ link' = m /\ t = AfterConnEvent(s, HopAfter(l)) /\ setMap' = NONE
      /\ mishap' = (mishap \/ (Applies(l) /\ l.heard = 0))
      /\ s.follows
  BY EventEndsIs
<1>2. LinkInv(l) /\ LinkInv(m)
  BY <1>0, EventKeepsLink DEF Kept
<1>3. ASSUME m.alive, t.follows, ~mishap' PROVE FollowInv(m, t, NONE)
  <2>1. /\ FollowInv(l, s, setMap) /\ (Applies(l) => l.heard # 0)
        /\ m.encrypted = l.encrypted
    BY <1>0, <1>1, <1>3, LinkAfterIs DEF Kept
  <2>2. s.inTime /\ s.count = l.event
    BY <2>1 DEF FollowInv
  <2>3. t.count = m.event
    BY <1>0, <1>1, <1>3, <2>2, AfterIs, LinkAfterIs
  <2>4. CASE ~l.encrypted
    <3>1. PlainInv(l, s)
      BY <2>1, <2>4 DEF FollowInv, QueueInv
    <3>2. t.inTime /\ PlainInv(m, t)
      BY <1>0, <1>1, <1>2, <1>3, <2>1, <2>2, <3>1, EventKeepsPlain
    <3>3. QED
      BY <2>1, <2>3, <2>4, <3>2 DEF FollowInv, QueueInv, SetMapInv
  <2>5. CASE l.encrypted
    <3>1. EncryptedInv(l, s)
      BY <2>1, <2>5 DEF FollowInv, QueueInv
    <3>2. t.inTime /\ EncryptedInv(m, t)
      BY <1>0, <1>1, <1>2, <1>3, <2>1, <2>2, <3>1, EventKeepsEncrypted
    <3>3. QED
      BY <2>1, <2>3, <2>5, <3>2 DEF FollowInv, QueueInv, SetMapInv
  <2>6. QED
    BY <2>4, <2>5
<1>4. QED
  BY <1>1, <1>2, <1>3 DEF Kept

(* Encryption starts: nothing is announced, and everything queued is idle. *)
LEMMA StartsEncryptionKept ==
    ASSUME TypeOK, TypeOK', Kept(link, sniffer, setMap, mishap), StartsEncryption
    PROVE  Kept(link', sniffer', setMap', mishap')
<1> DEFINE l == link
           m == link'
           s == sniffer
           t == sniffer'
<1>0. l \in Link /\ s \in Sniffer
  BY Typed
<1>1. /\ m = [l EXCEPT !.encrypted = TRUE] /\ t = [s EXCEPT !.gotData = TRUE]
      /\ ~l.encrypted /\ l.update = NONE /\ setMap' = setMap /\ mishap' = mishap
  BY DEF StartsEncryption
<1>2. /\ m.update = NONE /\ m.heard = l.heard /\ m.event = l.event /\ m.is = l.is
      /\ m.encrypted /\ m.alive = l.alive
  BY <1>0, <1>1 DEF Link
<1>3. /\ t.conf = s.conf /\ t.queue = s.queue /\ t.count = s.count
      /\ t.inTime = s.inTime /\ t.follows = s.follows
  BY <1>0, <1>1 DEF Sniffer
<1> HIDE DEF m, t
<1>4. LinkInv(m)
  BY <1>1, <1>2 DEF Kept, LinkInv
<1>5. ASSUME m.alive, t.follows, ~mishap' PROVE FollowInv(m, t, setMap')
  <2>1. FollowInv(l, s, setMap) /\ PlainInv(l, s)
    BY <1>1, <1>2, <1>3, <1>5 DEF Kept, FollowInv, QueueInv
  <2>2. ~Heard(l) /\ ~Heard(m)
    BY <1>1, <1>2 DEF Heard
  <2>3. RconfLatest(t) = RconfLatest(s)
    BY <1>3, SameQueue
  <2>4. SameParameters(RconfLatest(s), l.is)
    BY <1>0, <2>1, <2>2, LatestPlain
  <2>5. EncryptedInv(m, t)
    BY <1>2, <1>3, <2>1, <2>2, <2>3, <2>4
       DEF EncryptedInv, ToPreloaded, PlainInv, AllIdle, IdleEntry, SamePlace, SameParameters
  <2>6. QED
    BY <1>1, <1>2, <1>3, <2>1, <2>3, <2>5 DEF FollowInv, QueueInv, SetMapInv
<1>6. QED
  BY <1>4, <1>5 DEF Kept, m, t

LEMMA HearsDataKept ==
    ASSUME TypeOK, Kept(link, sniffer, setMap, mishap), HearsData
    PROVE  Kept(link', sniffer', setMap', mishap')
<1> DEFINE t == sniffer'
<1>1. /\ t = [sniffer EXCEPT !.gotData = TRUE] /\ sniffer \in Sniffer
      /\ link' = link /\ setMap' = setMap /\ mishap' = mishap
  BY Typed DEF HearsData
<1>2. /\ t.conf = sniffer.conf /\ t.queue = sniffer.queue /\ t.count = sniffer.count
      /\ t.inTime = sniffer.inTime /\ t.follows = sniffer.follows
  BY <1>1 DEF Sniffer
<1> HIDE DEF t
<1>3. FollowInv(link, sniffer, setMap) => FollowInv(link, t, setMap)
  BY <1>2, SameQueue DEF FollowInv, QueueInv, SetMapInv
<1>4. QED
  BY <1>1, <1>2, <1>3 DEF Kept, t

LEMMA TerminatesKept ==
    ASSUME TypeOK, Kept(link, sniffer, setMap, mishap), Terminates
    PROVE  Kept(link', sniffer', setMap', mishap')
<1>1. link' = [link EXCEPT !.alive = FALSE] /\ link \in Link
  BY Typed DEF Terminates
<1>2. link'.alive = FALSE /\ link'.update = link.update /\ link'.heard = link.heard
      /\ link'.event = link.event
  BY <1>1 DEF Link
<1>3. QED
  BY <1>2 DEF Kept, LinkInv, Ahead

LEMMA SetChanMapReadsKept ==
    ASSUME TypeOK, Kept(link, sniffer, setMap, mishap), SetChanMapReads
    PROVE  Kept(link', sniffer', setMap', mishap')
<1>1. /\ link' = link /\ sniffer' = sniffer /\ setMap' = RconfLatest(sniffer)
      /\ mishap' = (mishap \/ RconfLatest(sniffer).map # link.is.map)
  BY DEF SetChanMapReads
<1>2. QED
  BY <1>1 DEF Kept, FollowInv, SetMapInv

LEMMA SetChanMapEnqueuesKept ==
    ASSUME TypeOK, TypeOK', Kept(link, sniffer, setMap, mishap), SetChanMapEnqueues
    PROVE  Kept(link', sniffer', setMap', mishap')
<1> DEFINE l == link
           s == sniffer
           t == sniffer'
           i == (sniffer.count + 1) % Wrap
           c == [setMap EXCEPT !.map = link.is.map, !.offset = 0]
           x == [instant |-> i, conf |-> c]
<1>0. /\ l \in Link /\ s \in Sniffer /\ t \in Sniffer
      /\ setMap \in RadioConfig /\ setMap # NONE /\ l.is.map \in Maps
  BY Typed DEF TypeOK, Link, Sniffer, Entry, SetChanMapEnqueues, Parameters
<1>1. /\ t = Enqueue(s, i, c) /\ link' = l /\ setMap' = NONE
      /\ mishap' = (mishap \/ Outdated)
  BY DEF SetChanMapEnqueues
<1>2. i \in Event
  BY <1>0, NextEvent DEF Sniffer
<1>3. /\ c \in RadioConfig /\ c.map = l.is.map /\ c.offset = 0
      /\ c.phy = setMap.phy /\ c.interval = setMap.interval
  BY <1>0, ConnAssumption DEF RadioConfig
<1> HIDE DEF i, c, t
<1>4. /\ t.follows = s.follows /\ t.count = s.count /\ t.conf = s.conf /\ t.inTime = s.inTime
      /\ Len(s.queue) >= QueueSize => t = s
      /\ Len(s.queue) < QueueSize => t.queue = Append(s.queue, x)
  BY <1>0, <1>1, <1>2, <1>3, EnqueueIs
<1>5. x \in Entry /\ x.instant = i /\ x.conf = c
  BY <1>2, <1>3 DEF Entry
<1> HIDE DEF x
<1>6. Len(s.queue) \in Nat /\ QueueSize \in Int
  BY <1>0, LatestType, Sizes
<1>7. ASSUME l.alive, t.follows, ~mishap' PROVE FollowInv(l, t, NONE)
  <2>1. FollowInv(l, s, setMap) /\ LinkInv(l) /\ ~Outdated
    BY <1>1, <1>4, <1>7 DEF Kept
  <2>2. setMap = RconfLatest(s) /\ setMap.map = l.is.map /\ s.count = l.event
    BY <1>0, <2>1 DEF FollowInv, SetMapInv
  <2>3. CASE Len(s.queue) >= QueueSize
    BY <1>4, <2>1, <2>3 DEF FollowInv, SetMapInv
  <2>4. CASE Len(s.queue) < QueueSize
    <3>1. t.queue = Append(s.queue, x)
      BY <1>4, <2>4
    <3>2. QueueInv(l, t)
      <4>1. CASE ~l.encrypted
        <5>1. PlainInv(l, s)
          BY <2>1, <4>1 DEF FollowInv, QueueInv
        <5>2. SameParameters(x.conf, RconfLatest(s))
          BY <1>3, <1>5, <2>2 DEF SameParameters
        <5>3. Heard(l) => Ahead(l) + Len(s.queue) - 1 <= Wrap - Wrap \div 2
          <6>1. SUFFICES ASSUME Heard(l) PROVE Ahead(l) + Len(s.queue) - 1 <= Wrap - Wrap \div 2
            OBVIOUS
          <6>2. ~(Ahead(l) + Len(s.queue) - 1 > Wrap - Wrap \div 2)
            BY <2>1, <6>1 DEF Outdated, Heard, Ahead
          <6>3. Ahead(l) \in Int
            BY <2>1, <6>1, Sizes DEF LinkInv, Heard
          <6>4. QED
            BY <1>6, <6>2, <6>3, Sizes
        <5>4. x.instant = (l.event + 1) % Wrap /\ x.conf.offset = 0
          BY <1>3, <1>5, <2>2 DEF i
        <5>5. PlainInv(l, t)
          BY <1>0, <1>4, <1>5, <2>1, <2>4, <3>1, <5>1, <5>2, <5>3, <5>4, CopyKeepsPlain
        <5>6. QED
          BY <4>1, <5>5 DEF QueueInv
      <4>2. CASE l.encrypted
        <5>1. EncryptedInv(l, s) /\ ToPreloaded(l)
          BY <2>1, <4>2 DEF FollowInv, QueueInv, EncryptedInv
        <5>2. SamePlace(RconfLatest(s), l)
          BY <1>0, <5>1, LatestPlace
        <5>3. SamePlace(x.conf, l) /\ x.conf.offset = 0
          BY <1>3, <1>5, <2>2, <5>2 DEF SamePlace
        <5>4. x.conf.phy = IF Heard(l) THEN PreloadedPhy ELSE l.is.phy
          BY <1>3, <1>5, <2>2, <5>1 DEF EncryptedInv
        <5>5. EncryptedInv(l, t)
          BY <1>0, <1>4, <1>5, <3>1, <5>1, <5>3, <5>4, AppendKeepsEncrypted
        <5>6. QED
          BY <4>2, <5>5 DEF QueueInv
      <4>3. QED
        BY <4>1, <4>2
    <3>3. QED
      BY <1>4, <2>1, <3>2 DEF FollowInv, SetMapInv
  <2>5. QED
    BY <1>6, <2>3, <2>4
<1>8. QED
  BY <1>1, <1>7 DEF Kept, t

(* A sniffer that has heard at least one copy of every announcement is in   *)
(* step with the connection, across any number of changes and of turns of   *)
(* the counter, whatever the host's channel maps put in between, unless one *)
(* of the named mishaps occurs.                                             *)
THEOREM FollowsInStep == Spec => []StaysInStep
<1> DEFINE Inv == TypeOK /\ Kept(link, sniffer, setMap, mishap)
<1>1. Init => Inv
  BY InitTypes, InitKept
<1>2. Inv /\ [Next]_vars => Inv'
  <2>1. CASE Inv /\ Next
    <3>1. TypeOK'
      BY <2>1, NextTypes
    <3>2. Kept(link', sniffer', setMap', mishap')
      <4>1. CASE Over
        BY <2>1, <4>1 DEF Over, vars
      <4>2. QED
        BY <2>1, <3>1, <4>1, AnnouncesKept, HearsUpdateKept, HearsDataKept,
           StartsEncryptionKept, TerminatesKept, EventEndsKept, SetChanMapReadsKept,
           SetChanMapEnqueuesKept DEF Next
    <3>3. QED
      BY <3>1, <3>2
  <2>2. CASE Inv /\ UNCHANGED vars
    BY <2>2 DEF vars, TypeOK
  <2>3. QED
    BY <2>1, <2>2
<1>3. Inv => StaysInStep
  <2> SUFFICES ASSUME Inv, sniffer.follows, link.alive, ~mishap, ~UnderWay PROVE InStep
    BY DEF StaysInStep
  <2>1. FollowInv(link, sniffer, setMap) /\ link \in Link /\ sniffer \in Sniffer
    BY Typed DEF Kept
  <2>2. CASE ~link.encrypted
    BY <2>1, <2>2 DEF FollowInv, QueueInv, PlainInv, InStep
  <2>3. CASE link.encrypted
    <3>1. EncryptedInv(link, sniffer) /\ link.update = NONE /\ sniffer.queue = <<>>
      BY <2>1, <2>3 DEF FollowInv, QueueInv, UnderWay
    <3>2. sniffer.conf.phy = link.is.phy /\ SamePlace(sniffer.conf, link)
      BY <3>1 DEF EncryptedInv, RconfLatest, Heard
    <3>3. QED
      BY <2>1, <3>2 DEF FollowInv, InStep, SameParameters, SamePlace
  <2>4. QED
    BY <2>2, <2>3
<1>4. QED
  BY <1>1, <1>2, <1>3, PTL DEF Spec

=============================================================================
