---------------------------- MODULE SniffleConn ----------------------------
(***************************************************************************)
(* How the Sniffle firmware follows a connection: handleConnReq,           *)
(* reactToDataPDU, afterConnEvent and setChanMap of RadioTask.c, and the   *)
(* queue of coming configurations, conf_queue.c.                           *)
(*                                                                         *)
(* The connection itself is external.  Its central changes the channel     *)
(* map, the PHY, or the interval (with a shift in time, the WinOffset) at  *)
(* an instant that it announces, one change at a time, and repeats the     *)
(* announcement until it is acknowledged.  The sniffer hears it if it is   *)
(* on the right channel at the right time, and even then not always.       *)
(***************************************************************************)
EXTENDS Integers, Sequences

CONSTANTS
    Wrap,           \* events are counted modulo this, 65536
    QueueSize,      \* MODULO_MASK, 7: what the queue holds
    Leads,          \* how many events ahead of its instant a change is announced
    GuessedLead,    \* 7: the lead an encrypted PHY change is assumed to have
    Timeout,        \* supervision timeout, in connection events
    MaxCopies,      \* bound: how often an announcement is heard
    Maps, Phys, Intervals, Offsets,
    PreloadedPhy,   \* preloadedPhy
    NONE

ASSUME ConnAssumption ==
    /\ Wrap \in Nat \ {0} /\ QueueSize \in 1..(Wrap \div 2 - 1)
    /\ Leads \subseteq 1..(Wrap \div 2 - 1) /\ GuessedLead \in 1..(Wrap \div 2 - 1)
    /\ Timeout \in Nat \ {0} /\ MaxCopies \in Nat
    /\ Intervals \subseteq Nat \ {0} /\ Offsets \subseteq Nat /\ 0 \in Offsets
    /\ PreloadedPhy \in Phys

Event == 0..(Wrap - 1)

VARIABLES
    link,       \* the connection
    sniffer,    \* what the firmware knows of it
    setMap,     \* setChanMap between its two halves: the configuration it has read
    mishap      \* history: the sniffer may be out of step, for a known reason

vars == <<link, sniffer, setMap, mishap>>

Parameters == [map: Maps, phy: Phys, interval: Intervals]

(* struct RadioConfig; offset is what nextHopTime is to be shifted by. *)
RadioConfig == [map: Maps, phy: Phys, interval: Intervals, offset: Offsets]

Unshifted(p) == [map |-> p.map, phy |-> p.phy, interval |-> p.interval, offset |-> 0]

(* LL_CONNECTION_UPDATE_IND, LL_CHANNEL_MAP_IND and LL_PHY_UPDATE_IND. *)
Update ==
    [kind: {"connection"}, interval: Intervals, offset: Offsets, instant: Event]
        \cup [kind: {"map"}, map: Maps, instant: Event]
        \cup [kind: {"phy"}, phy: Phys, instant: Event]

TypeOK ==
    /\ link \in [alive: BOOLEAN, event: Event, is: Parameters, encrypted: BOOLEAN,
                 update: Update \cup {NONE}, heard: 0..MaxCopies]
    /\ sniffer \in [follows: BOOLEAN,                 \* state DATA
                    count: Event,                     \* connEventCount
                    conf: RadioConfig,                \* rconf
                    queue: Seq([instant: Event, conf: RadioConfig]),
                    inTime: BOOLEAN,                  \* nextHopTime is right
                    gotData: BOOLEAN,                 \* ~firstPacket
                    silent: 0..Timeout]               \* events without a packet
    /\ setMap \in RadioConfig \cup {NONE}
    /\ mishap \in BOOLEAN

(* handleConnReq: the sniffer has heard the request of the connection. *)
Init ==
    /\ link \in [alive: {TRUE}, event: {0}, is: Parameters, encrypted: {FALSE},
                 update: {NONE}, heard: {0}]
    /\ sniffer = [follows |-> TRUE, count |-> 0,
                  conf |-> Unshifted(link.is),
                  queue |-> <<>>, inTime |-> TRUE, gotData |-> FALSE, silent |-> 0]
    /\ setMap = NONE
    /\ mishap = FALSE

-----------------------------------------------------------------------------
(* conf_queue.c *)

RconfLatest(s) ==
    IF s.queue = <<>> THEN s.conf ELSE s.queue[Len(s.queue)].conf

Enqueue(s, instant, conf) ==
    IF Len(s.queue) >= QueueSize THEN s
    ELSE [s EXCEPT !.queue = Append(@, [instant |-> instant, conf |-> conf])]

(* Seeded fault: an entry whose instant has passed is not taken. *)
DueAtInstant(s, event) == s.queue # <<>> /\ s.queue[1].instant = event

(* The oldest entry is due at its instant, or if that has passed. *)
Due(s, event) ==
    /\ s.queue # <<>>
    /\ \/ s.queue[1].instant = event
       \/ (s.queue[1].instant - event) % Wrap >= Wrap \div 2

-----------------------------------------------------------------------------
(* reactToDataPDU *)

Changed(conf, u) ==
    CASE u.kind = "connection" ->
            [conf EXCEPT !.interval = u.interval, !.offset = u.offset]
      [] u.kind = "map" -> [conf EXCEPT !.map = u.map, !.offset = 0]
      [] u.kind = "phy" -> [conf EXCEPT !.phy = u.phy, !.offset = 0]

(* An encrypted change of PHY is known by its length only. *)
ReactToUpdate(s, u) ==
    LET last == RconfLatest(s)
    IN  IF ~link.encrypted THEN Enqueue(s, u.instant, Changed(last, u))
        ELSE IF last.phy = PreloadedPhy THEN s
             ELSE Enqueue(s, (s.count + GuessedLead) % Wrap,
                          [last EXCEPT !.phy = PreloadedPhy, !.offset = 0])

(* handleConnFinished *)
Finished(s) == [s EXCEPT !.follows = FALSE]

(* afterConnEvent: times out, or goes on to the next event.  nextHopTime    *)
(* moves by the offset of a configuration when it is taken from the queue,  *)
(* and by its interval.                                                     *)
NextConf(s, event) == IF Due(s, event) THEN s.queue[1].conf ELSE s.conf

Hop(s, event) ==
    (IF Due(s, event) THEN NextConf(s, event).offset ELSE 0) + NextConf(s, event).interval

(* Seeded fault: every event restarts the timeout. *)
AfterAnyEvent(s, linkHop) ==
    LET event == (s.count + 1) % Wrap
    IN  [s EXCEPT !.silent = 0, !.gotData = FALSE,
                  !.count = event,
                  !.conf = NextConf(s, event),
                  !.queue = IF Due(s, event) THEN Tail(@) ELSE @,
                  !.inTime = @ /\ Hop(s, event) = linkHop]

AfterConnEvent(s, linkHop) ==
    LET event == (s.count + 1) % Wrap
    IN  IF ~s.gotData /\ s.silent = Timeout
        THEN Finished(s)
        ELSE [s EXCEPT !.silent = IF s.gotData THEN 0 ELSE @ + 1,
                       !.gotData = FALSE,
                       !.count = event,
                       !.conf = NextConf(s, event),
                       !.queue = IF Due(s, event) THEN Tail(@) ELSE @,
                       !.inTime = @ /\ Hop(s, event) = linkHop]

-----------------------------------------------------------------------------
(* The connection (external).                                              *)

SameParameters(c, d) == c.map = d.map /\ c.phy = d.phy /\ c.interval = d.interval

InStep ==
    /\ sniffer.inTime
    /\ sniffer.count = link.event
    /\ SameParameters(sniffer.conf, link.is)

CanHear == link.alive /\ sniffer.follows /\ InStep

(* What puts the sniffer out of step, by its design: a PHY that is not the *)
(* preloaded one; a WinOffset heard twice (the shift is applied twice); a  *)
(* change while the host sets the map; a full queue; a change heard so     *)
(* late that the queue, which gives one configuration per event, has       *)
(* others to give first; and a map set long before a change (Outdated).    *)
BadGuess(u) == u.phy # PreloadedPhy \/ link.is.phy = u.phy
Twice == link.update.kind = "connection" /\ link.update.offset # 0 /\ link.heard > 0
Crossed == setMap # NONE
Full == Len(sniffer.queue) >= QueueSize
Late == Len(sniffer.queue) >= (link.update.instant - link.event) % Wrap

(* The central starts a change.  Encrypted ones are followed for the PHY. *)
Announces ==
    /\ link.alive /\ link.update = NONE
    /\ \E lead \in Leads, u \in Update :
        /\ u.instant = (link.event + lead) % Wrap
        /\ link.encrypted => u.kind = "phy"
        /\ link' = [link EXCEPT !.update = u, !.heard = 0]
        /\ mishap' = (mishap \/ (link.encrypted /\ BadGuess(u)))
    /\ UNCHANGED <<sniffer, setMap>>

(* The sniffer hears the announcement, for the first time or again. *)
HearsUpdate ==
    /\ CanHear /\ link.update # NONE /\ link.heard < MaxCopies
    /\ sniffer' = [ReactToUpdate(sniffer, link.update) EXCEPT !.gotData = TRUE]
    /\ link' = [link EXCEPT !.heard = @ + 1]
    /\ mishap' = (mishap \/ Twice \/ Crossed \/ Full \/ Late)
    /\ UNCHANGED setMap

(* It hears something else. *)
HearsData ==
    /\ CanHear
    /\ sniffer' = [sniffer EXCEPT !.gotData = TRUE]
    /\ UNCHANGED <<link, setMap, mishap>>

(* LL_START_ENC_REQ *)
StartsEncryption ==
    /\ CanHear /\ ~link.encrypted /\ link.update = NONE
    /\ link' = [link EXCEPT !.encrypted = TRUE]
    /\ sniffer' = [sniffer EXCEPT !.gotData = TRUE]
    /\ UNCHANGED <<setMap, mishap>>

(* LL_TERMINATE_IND, heard or not. *)
Terminates ==
    /\ link.alive
    /\ link' = [link EXCEPT !.alive = FALSE]
    /\ sniffer' \in IF CanHear THEN {Finished(sniffer), sniffer} ELSE {sniffer}
    /\ UNCHANGED <<setMap, mishap>>

(* The event is over, for the connection and for the sniffer. *)
EventEnds ==
    LET event == (link.event + 1) % Wrap
        applies == link.update # NONE /\ link.update.instant = event
        is == IF applies THEN Changed(Unshifted(link.is), link.update)
              ELSE Unshifted(link.is)
    IN  /\ sniffer.follows /\ setMap = NONE
        /\ link' = [link EXCEPT !.event = event,
                                !.is = [map |-> is.map, phy |-> is.phy,
                                        interval |-> is.interval],
                                !.update = IF applies THEN NONE ELSE @,
                                !.heard = IF applies THEN 0 ELSE @]
        /\ sniffer' = AfterConnEvent(sniffer, is.offset + is.interval)
        /\ mishap' = (mishap \/ (applies /\ link.heard = 0))
        /\ UNCHANGED setMap

-----------------------------------------------------------------------------
(* COMMAND_SETMAP, with the map the connection has.  The radio's callback  *)
(* can come between the look at the latest configuration and the insertion *)
(* of its copy; the radio task can not.                                    *)

SetChanMapReads ==
    /\ sniffer.follows /\ setMap = NONE
    /\ setMap' = RconfLatest(sniffer)
    /\ mishap' = (mishap \/ RconfLatest(sniffer).map # link.is.map)
    /\ UNCHANGED <<link, sniffer>>

(* The copy is due at the next event.  If it has to wait behind a change     *)
(* for so long that half a turn of the counter has passed, its instant seems *)
(* to lie in the future, and it holds up what comes after it.                *)
Outdated ==
    /\ link.heard > 0
    /\ ((link.update.instant - link.event) % Wrap) + Len(sniffer.queue) - 1
         > Wrap - Wrap \div 2

SetChanMapEnqueues ==
    /\ setMap # NONE
    /\ sniffer' = Enqueue(sniffer, (sniffer.count + 1) % Wrap,
                          [setMap EXCEPT !.map = link.is.map, !.offset = 0])
    /\ setMap' = NONE
    /\ mishap' = (mishap \/ Outdated)
    /\ UNCHANGED link

(* The connection is followed no longer. *)
Over ==
    /\ ~sniffer.follows /\ setMap = NONE
    /\ UNCHANGED vars

Next ==
    \/ Announces \/ HearsUpdate \/ HearsData \/ StartsEncryption \/ Terminates
    \/ EventEnds \/ SetChanMapReads \/ SetChanMapEnqueues \/ Over

Spec == Init /\ [][Next]_vars

(* A command is carried out; and time passes: however many commands come,  *)
(* the radio task gets its turn between two of them.                       *)
FairSpec == Spec /\ SF_vars(EventEnds) /\ WF_vars(SetChanMapEnqueues)

-----------------------------------------------------------------------------
(* The sniffer stays in step with the connection across any number of      *)
(* changes, repeated announcements and turns of the 16-bit counter, unless *)
(* it heard none of an announcement, or one of the reasons above.  An      *)
(* encrypted change of PHY puts it out of step only until both instants,   *)
(* the real one and the guessed one, have passed.                          *)
UnderWay == link.encrypted /\ (link.update # NONE \/ sniffer.queue # <<>>)

StaysInStep ==
    sniffer.follows /\ link.alive /\ ~mishap /\ ~UnderWay => InStep

(* A sniffer that has lost the connection does not follow a ghost for      *)
(* ever: it times out, whatever is in its queue, or finds it again.        *)
LostIsNoticed ==
    (sniffer.follows /\ ~CanHear) ~> (~sniffer.follows \/ CanHear)
=============================================================================
