------------------------------ MODULE Discovery ------------------------------
(***************************************************************************)
(* The discovery sessions of one adapter in bluetoothd (bluez-5.66,        *)
(* src/adapter.c): the calls StartDiscovery, StopDiscovery and             *)
(* SetDiscoveryFilter of the D-Bus clients, their disconnection, the timer *)
(* that restarts a discovery, pairing, which suspends it, and the commands *)
(* and events of the kernel's management interface.                        *)
(*                                                                         *)
(* bluetoothd has one thread: a handler runs as one step.  What comes      *)
(* between two steps is what makes it hard: there is one field for the     *)
(* client whose call is to be answered, a command's reply comes after      *)
(* other calls, and the kernel stops a discovery of its own accord.        *)
(*                                                                         *)
(* The kernel is external: it serves one command at a time (mgmt.c:227),   *)
(* its reply comes before the event about it.  Passive scanning belongs to *)
(* kernels without KERNEL_CONN_CONTROL and is left out, as are the devices *)
(* and the discoverable setting, and the delays of the timer.              *)
(***************************************************************************)
EXTENDS Naturals, Sequences, FiniteSets

CONSTANTS
    Client,         \* D-Bus connections; a name is not used again
    Filter,         \* what a client may filter for
    NONE,
    MaxCount        \* bound: calls and disconnections of clients, pairings,
                    \* switches of the power, discoveries of another socket

ASSUME DiscoveryAssumption ==
    /\ IsFiniteSet(Client)
    /\ NONE \notin Client \cup Filter \cup {"start", "stop", "suspend", "pair"}
    /\ MaxCount \in Nat

VARIABLES
    d,          \* struct btd_adapter, and the queue of mgmt.c
    kernel,     \* external: the kernel
    events,     \* replies and events on their way to bluetoothd
    mishaps,    \* history: see Mishap
    count       \* what has happened of what is bounded

vars == <<d, kernel, events, mishaps, count>>

(* then is the callback; a stop names the type of the discovery it stops.  *)
Request == [op: {"start", "stop", "pair"},
            then: {"start", "stop", "suspend", "pair", NONE},
            typed: BOOLEAN]

Adapter ==
    [list: SUBSET Client,                       \* discovery_list
     preset: SUBSET Client,                     \* set_filter_list
     watched: SUBSET Client,                    \* watch
     filter: [Client -> Filter \cup {NONE}],    \* discovery_filter
     msg: [Client -> {"start", "stop", NONE}],  \* msg: the call to answer
     client: Client \cup {NONE},                \* client
     current: (SUBSET Filter) \cup {NONE},      \* current_discovery_filter
     timer: BOOLEAN,                            \* discovery_idle_timeout
     enable: BOOLEAN,                           \* discovery_enable
     typed: BOOLEAN,                            \* discovery_type # 0
     filtered: BOOLEAN,                         \* filtered_discovery
     discovering: BOOLEAN,
     suspended: BOOLEAN,                        \* discovery_suspended
     powered: BOOLEAN,                          \* in current_settings
     requests: Seq(Request)]                    \* pending_list, request_queue

Event == [kind: {"reply", "discovering", "powered"}, value: BOOLEAN]

(* What makes one of the promises below void:                              *)
(*   overtaken    one client takes the field client from another           *)
(*   crossed      a call waits while the reply to an earlier one is due    *)
(*   partner      a reply ends the discovery of one, and others remain     *)
(*   refused      a command fails, and a client is removed                 *)
(*   preset       a client that only has a filter disconnects: what others *)
(*                discover is stopped                                      *)
Mishap == {"overtaken", "crossed", "partner", "refused", "preset"}

TypeOK ==
    /\ d \in Adapter
    /\ kernel \in [on: BOOLEAN, finds: BOOLEAN]
    /\ events \in Seq(Event)
    /\ mishaps \subseteq Mishap
    /\ count \in 0..MaxCount

Init ==
    /\ d = [list |-> {}, preset |-> {}, watched |-> Client,
            filter |-> [c \in Client |-> NONE], msg |-> [c \in Client |-> NONE],
            client |-> NONE, current |-> NONE, timer |-> FALSE, enable |-> FALSE,
            typed |-> FALSE, filtered |-> FALSE, discovering |-> FALSE,
            suspended |-> FALSE, powered |-> TRUE, requests |-> <<>>]
    /\ kernel = [on |-> TRUE, finds |-> FALSE]
    /\ events = <<>>
    /\ mishaps = {}
    /\ count = 0

Mishappens ==
    LET replied == events # <<>> /\ Head(events).kind = "reply" /\ events' = Tail(events)
        removed == d'.list # d.list
    IN  {m \in Mishap :
           CASE m = "overtaken" -> Cardinality({d.client, d'.client} \ {NONE}) = 2
             [] m = "crossed" -> /\ d'.client \notin {d.client, NONE}
                                 /\ \E i \in 1..Len(d.requests) :
                                       d.requests[i].then \in {"start", "stop"}
             [] m = "partner" -> /\ replied /\ d'.list # {}
                                 /\ removed \/ Head(d.requests).then = "stop"
             [] m = "refused" -> replied /\ removed /\ ~Head(events).value
             [] m = "preset" -> d'.client \in d'.preset /\ d'.list # {}}

(* The last conjunct of every action. *)
Noted == mishaps' = mishaps \cup Mishappens

-----------------------------------------------------------------------------
(* Parts of the handlers.                                                  *)

Send(s, op) ==
    [s EXCEPT !.requests = Append(@, [op |-> op, then |-> op, typed |-> TRUE])]

SendStop(s, then, typed) ==
    [s EXCEPT !.requests = Append(@, [op |-> "stop", then |-> then, typed |-> typed])]

(* trigger_start_discovery *)
TriggerStart(s) == [s EXCEPT !.timer = s.powered]

(* discovery_cleanup *)
Cleanup(s) == [s EXCEPT !.typed = FALSE, !.timer = FALSE]

(* Seeded fault: the one to answer is forgotten by nobody. *)
FreeOnly(s, gone) ==
    [s EXCEPT !.filter = [c \in Client |-> IF c \in gone THEN NONE ELSE @[c]],
              !.msg = [c \in Client |-> IF c \in gone THEN NONE ELSE @[c]]]

(* discovery_free, of several clients: a client without a message remains   *)
(* where it is the one to answer.                                           *)
Free(s, gone) ==
    [s EXCEPT !.client = IF @ \in gone /\ s.msg[@] # NONE THEN NONE ELSE @,
              !.filter = [c \in Client |-> IF c \in gone THEN NONE ELSE @[c]],
              !.msg = [c \in Client |-> IF c \in gone THEN NONE ELSE @[c]]]

(* discovery_remove *)
Remove(s, c) ==
    LET keep == c \in s.watched /\ s.filter[c] # NONE
        t == [s EXCEPT !.list = @ \ {c},
                       !.preset = IF keep THEN @ \cup {c} ELSE @ \ {c},
                       !.client = IF @ = c THEN NONE ELSE @]
        u == IF keep THEN t ELSE Free(t, {c})
    IN  IF u.list = {} THEN Cleanup(u) ELSE u

(* discovery_complete *)
Complete(s) ==
    IF s.client = NONE THEN s
    ELSE [s EXCEPT !.client = NONE, !.msg[s.client] = NONE]

(* merge_discovery_filters: none if no client has one; all devices if one   *)
(* client has none.                                                         *)
Merged(s) ==
    LET filters == {s.filter[c] : c \in s.list}
    IN  CASE filters = {NONE} -> NONE
          [] NONE \in filters -> {}
          [] OTHER -> filters

(* update_discovery_filter has something to start. *)
Restarts(s) == s.current # Merged(s) \/ ~s.discovering

UpdateFilter(s) ==
    IF Restarts(s) THEN TriggerStart([s EXCEPT !.current = Merged(s)]) ELSE s

Others(s) == Cardinality(s.list) >= 2

(* discovery_stop: it is in progress if a command has to be sent. *)
InProgress(s) == ~Others(s) /\ s.enable

(* Seeded fault: what the others filter for is not looked at. *)
StopOnly(s, c) ==
    CASE Others(s) -> Remove(s, c)
      [] InProgress(s) -> SendStop([s EXCEPT !.client = c], "stop", s.typed)
      [] OTHER -> [Remove(s, c) EXCEPT !.discovering = FALSE]

DiscoveryStop(s, c) ==
    CASE Others(s) -> UpdateFilter(Remove(s, c))
      [] InProgress(s) -> SendStop([s EXCEPT !.client = c], "stop", s.typed)
      [] OTHER -> [Remove(s, c) EXCEPT !.discovering = FALSE]

-----------------------------------------------------------------------------
(* Calls of the clients, and their end.  Without power they are refused.   *)

Calls ==
    /\ count < MaxCount
    /\ count' = count + 1
    /\ UNCHANGED <<kernel, events>>

(* The call of c waits for its answer; another may be waiting already. *)
Waits(s, c, call) == [s EXCEPT !.msg[c] = call, !.client = c]

(* start_discovery.  A client that already discovers, or waits, is busy. *)
StartDiscovery(c) ==
    /\ Calls /\ d.powered
    /\ c \in d.watched /\ c \notin d.list /\ d.msg[c] = NONE
    /\ LET s == [d EXCEPT !.preset = @ \ {c}, !.list = @ \cup {c}]
       IN  d' = IF Restarts(s) THEN Waits(UpdateFilter(s), c, "start") ELSE s
    /\ Noted

(* stop_discovery *)
StopDiscovery(c) ==
    /\ Calls /\ d.powered
    /\ c \in d.watched /\ c \in d.list /\ d.msg[c] = NONE
    /\ LET s == DiscoveryStop(d, c)
       IN  d' = IF InProgress(d) THEN Waits(s, c, "stop") ELSE s
    /\ Noted

(* set_discovery_filter: of a client that discovers, of one that does not, *)
(* and without a filter.                                                    *)
SetDiscoveryFilter(c, filter) ==
    /\ Calls /\ d.powered
    /\ c \in d.watched
    /\ LET s == [d EXCEPT !.filter[c] = filter]
       IN  d' = CASE c \in d.list -> UpdateFilter(s)
                  [] c \notin d.list /\ filter # NONE ->
                        [s EXCEPT !.preset = @ \cup {c}]
                  [] OTHER -> [Free(d, {c}) EXCEPT !.preset = @ \ {c}]
    /\ Noted

(* discovery_disconnect; there is a watch for a client of one of the lists. *)
Disconnect(c) ==
    /\ Calls
    /\ c \in d.watched
    /\ LET s == [d EXCEPT !.watched = @ \ {c}]
       IN  d' = IF c \in d.list \cup d.preset THEN DiscoveryStop(s, c) ELSE s
    /\ Noted

(* adapter_create_bonding, with suspend_discovery *)
Pair ==
    /\ d.powered /\ ~d.suspended /\ count < MaxCount
    /\ LET s == [d EXCEPT !.suspended = TRUE, !.timer = @ /\ d.list = {}]
           t == IF d.list # {} /\ d.enable THEN SendStop(s, "suspend", s.typed) ELSE s
       IN  d' = Send(t, "pair")
    /\ count' = count + 1
    /\ UNCHANGED <<kernel, events>>
    /\ Noted

(* start_discovery_timeout: a discovery that runs and is the right one is   *)
(* kept; another is stopped, and the event about that will start it again.  *)
StartDiscoveryTimeout ==
    /\ d.timer
    /\ LET s == [d EXCEPT !.timer = FALSE]
       IN  d' = CASE ~d.enable -> Send(s, "start")
                  [] d.enable /\ d.current = NONE /\ ~d.filtered /\ d.typed ->
                        [s EXCEPT !.discovering = TRUE]
                  [] OTHER -> SendStop(s, NONE, s.typed)
    /\ UNCHANGED <<kernel, events, count>>
    /\ Noted

-----------------------------------------------------------------------------
(* Replies and events.                                                     *)

(* A reply that leads to the removal of the client that waits. *)
RemoveWaiting(s) ==
    IF s.client = NONE THEN s ELSE Remove(Complete(s), s.client)

(* start_discovery_complete *)
StartComplete(s, success) ==
    CASE s.list = {} -> IF success THEN SendStop(s, NONE, TRUE) ELSE s
      [] s.list # {} /\ success ->
            Complete([s EXCEPT !.typed = TRUE, !.enable = TRUE, !.discovering = TRUE,
                               !.filtered = s.current # NONE])
      [] s.list # {} /\ ~success /\ s.client # NONE -> RemoveWaiting(s)
      [] OTHER -> TriggerStart(s)

(* Seeded fault: the property Discovering remains. *)
StillDiscovering(s, success) ==
    LET t == RemoveWaiting(s)
    IN  IF success
        THEN [t EXCEPT !.typed = FALSE, !.enable = FALSE, !.filtered = FALSE]
        ELSE t

(* stop_discovery_complete *)
StopComplete(s, success) ==
    LET t == RemoveWaiting(s)
    IN  IF success
        THEN [t EXCEPT !.typed = FALSE, !.enable = FALSE, !.filtered = FALSE,
                       !.discovering = FALSE]
        ELSE t

(* suspend_discovery_complete *)
SuspendComplete(s, success) ==
    IF success THEN [s EXCEPT !.typed = FALSE, !.enable = FALSE] ELSE s

(* Seeded fault: the discovery is not started again. *)
ResumeQuietly(s) == [s EXCEPT !.suspended = FALSE]

(* resume_discovery, in bonding_complete *)
ResumeDiscovery(s) ==
    LET t == [s EXCEPT !.suspended = FALSE]
    IN  IF s.list = {} THEN t ELSE TriggerStart(t)

(* Seeded fault: a stop for a pairing has the callback of any stop. *)
OneCallbackForStops(s, then, success) ==
    CASE then = "start" -> StartComplete(s, success)
      [] then \in {"stop", "suspend"} -> StopComplete(s, success)
      [] then = "pair" -> ResumeDiscovery(s)
      [] then = NONE -> s

Callback(s, then, success) ==
    CASE then = "start" -> StartComplete(s, success)
      [] then = "stop" -> StopComplete(s, success)
      [] then = "suspend" -> SuspendComplete(s, success)
      [] then = "pair" -> ResumeDiscovery(s)
      [] then = NONE -> s

Takes(event) ==
    /\ events # <<>> /\ events' = Tail(events)
    /\ Head(events).kind = event
    /\ UNCHANGED <<kernel, count>>

(* mgmt.c looks up the command that a reply is about. *)
Reply ==
    /\ Takes("reply") /\ d.requests # <<>>
    /\ d' = Callback([d EXCEPT !.requests = Tail(@)], Head(d.requests).then,
                     Head(events).value)
    /\ Noted

(* discovering_callback *)
Discovering ==
    /\ Takes("discovering")
    /\ LET on == Head(events).value
           s == [d EXCEPT !.typed = TRUE, !.enable = on]
       IN  d' = CASE d.enable = on -> d
                  [] d.enable # on /\ (d.list = {} \/ d.suspended) -> s
                  [] OTHER -> IF on THEN [s EXCEPT !.timer = FALSE] ELSE TriggerStart(s)
    /\ Noted

(* settings_changed, with adapter_stop *)
Powered ==
    /\ Takes("powered")
    /\ LET on == Head(events).value
           s == [Cleanup(Free(d, d.list \cup d.preset))
                   EXCEPT !.list = {}, !.preset = {}, !.current = NONE,
                          !.filtered = FALSE, !.discovering = FALSE]
       IN  d' = [(IF on THEN d ELSE s) EXCEPT !.powered = on]
    /\ Noted

-----------------------------------------------------------------------------
(* External: the kernel.                                                   *)

Tell(kind, value) == [kind |-> kind, value |-> value]

(* The first command is served, unless its reply is on its way already.  A *)
(* start can fail for any reason; a stop only if there is nothing to stop. *)
Serve ==
    /\ d.requests # <<>>
    /\ \A i \in 1..Len(events) : events[i].kind # "reply"
    /\ \E success \in BOOLEAN :
        LET request == Head(d.requests)
        IN  /\ request.op = "start" /\ success => kernel.on /\ ~kernel.finds
            /\ request.op = "stop" => success = (kernel.finds /\ request.typed)
            /\ IF request.op \in {"start", "stop"} /\ success
               THEN /\ kernel' = [kernel EXCEPT !.finds = request.op = "start"]
                    /\ events' = events \o <<Tell("reply", TRUE),
                                             Tell("discovering", request.op = "start")>>
               ELSE /\ events' = Append(events, Tell("reply", success))
                    /\ UNCHANGED kernel
    /\ UNCHANGED <<d, count>>
    /\ Noted

(* A discovery has an end. *)
Ends ==
    /\ kernel.finds
    /\ kernel' = [kernel EXCEPT !.finds = FALSE]
    /\ events' = Append(events, Tell("discovering", FALSE))
    /\ UNCHANGED <<d, count>>
    /\ Noted

StartedElsewhere ==
    /\ kernel.on /\ ~kernel.finds /\ count < MaxCount
    /\ kernel' = [kernel EXCEPT !.finds = TRUE]
    /\ events' = Append(events, Tell("discovering", TRUE))
    /\ count' = count + 1
    /\ UNCHANGED d
    /\ Noted

Switched ==
    /\ count < MaxCount
    /\ kernel' = [on |-> ~kernel.on, finds |-> FALSE]
    /\ events' = events \o (IF kernel.finds THEN <<Tell("discovering", FALSE)>> ELSE <<>>)
                        \o <<Tell("powered", ~kernel.on)>>
    /\ count' = count + 1
    /\ UNCHANGED d
    /\ Noted

-----------------------------------------------------------------------------
Bluetoothd == StartDiscoveryTimeout \/ Reply \/ Discovering \/ Powered

Kernel == Serve \/ Ends \/ StartedElsewhere \/ Switched

Clients ==
    \E c \in Client :
        \/ StartDiscovery(c) \/ StopDiscovery(c) \/ Disconnect(c)
        \/ \E f \in Filter \cup {NONE} : SetDiscoveryFilter(c, f)

Next == Clients \/ Pair \/ Bluetoothd \/ Kernel

Spec == Init /\ [][Next]_vars

(* The daemon handles what comes, the timer runs out; the kernel serves    *)
(* commands, and a discovery that was started ends.                        *)
FairSpec ==
    /\ Spec
    /\ WF_vars(StartDiscoveryTimeout) /\ WF_vars(Reply \/ Discovering \/ Powered)
    /\ WF_vars(Serve) /\ WF_vars(Ends)

-----------------------------------------------------------------------------
Quiet == d.requests = <<>> /\ events = <<>> /\ ~d.timer

(* However commands, their replies, the kernel's own events and the timer   *)
(* fall: when nothing is due any more, the kernel discovers if a client is   *)
(* listed, bluetoothd knows whether it does, and the property Discovering    *)
(* is not true for nobody.  The mishaps are where this fails: for one, the   *)
(* discovery of a client that starts while another's stop is on its way      *)
(* (update_discovery_filter finds it running, adapter.c:2384) never runs.    *)
Settled == mishaps = {} /\ Quiet =>
    /\ d.discovering => d.list # {}
    /\ d.list # {} => d.enable
    /\ d.enable = kernel.finds

(* doc/adapter-api.txt:36 "a discovery procedure is shared between all      *)
(* discovery sessions thus calling StopDiscovery will only release a single *)
(* session": what the kernel filters for is what the listed clients ask     *)
(* for, except after a reply that ended one discovery among others.         *)
FilterIsMerged == d.list # {} /\ "partner" \notin mishaps => d.current = Merged(d)

(* The client whose call is to be answered has not been freed; except that  *)
(* one that disconnected without a call is freed when the power goes off    *)
(* while its stop is on its way (adapter.c:1742 looks at the message).      *)
ClientIsListed ==
    d.client # NONE => d.client \in d.list \cup d.preset \/ d.client \notin d.watched

(* A reply answers a call that asked for what the command did, as long as   *)
(* no call waits while the reply to an earlier command is due: every reply  *)
(* goes to the client that waits at that time (discovery_complete).         *)
AnswersInKind ==
    [][\A c \in d.watched :
        "crossed" \notin mishaps' /\ Reply /\ d'.msg[c] # d.msg[c]
            => d.msg[c] = Head(d.requests).then]_vars

(* A call is answered, or dropped with the power, whatever fails, is        *)
(* suspended or is started by others meanwhile; unless one client took the  *)
(* place of another that waited (adapter.c:2537).                         *)
CallsAreAnswered ==
    \A c \in Client : d.msg[c] # NONE ~> d.msg[c] = NONE \/ "overtaken" \in mishaps

(* Said of the code, and not so: doc/adapter-api.txt:36 to 39 has discovery *)
(* stop "when all sessions from all clients have finished".                 *)
SharedUntilAllFinished == Quiet /\ d.list # {} => d.enable

(* ... and a method call has an answer. *)
EveryCallIsAnswered == \A c \in Client : d.msg[c] # NONE ~> d.msg[c] = NONE
=============================================================================
