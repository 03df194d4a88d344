--------------------------- MODULE DiscoveryProofs ---------------------------
(***************************************************************************)
(* Proofs about Discovery, for any finite number of clients, any filters,  *)
(* and any number of calls, pairings and switches of the power.            *)
(***************************************************************************)
EXTENDS Discovery, FiniteSetTheorems, TLAPS

(* The client to answer waits for an answer, and discovers; unless it is   *)
(* gone.  Without the message a client could be freed and still be named.   *)
WaitInv(s) ==
    s.client # NONE /\ s.client \in s.watched
        => s.client \in s.list /\ s.msg[s.client] # NONE

MergedInv(s) == s.list # {} => s.current = Merged(s)

IInv ==
    /\ TypeOK
    /\ WaitInv(d)
    /\ "partner" \notin mishaps => MergedInv(d)

(* What a part of a handler leaves alone, if it is not about the clients. *)
SameClients(s, t) ==
    /\ t.list = s.list /\ t.preset = s.preset /\ t.watched = s.watched
    /\ t.filter = s.filter /\ t.msg = s.msg /\ t.client = s.client

LEMMA SameKeeps ==
    ASSUME NEW s, NEW t, SameClients(s, t)
    PROVE  /\ WaitInv(s) => WaitInv(t)
           /\ Merged(t) = Merged(s)
           /\ t.current = s.current /\ MergedInv(s) => MergedInv(t)
BY DEF SameClients, WaitInv, Merged, MergedInv

-----------------------------------------------------------------------------
(* Parts of the handlers. *)

LEMMA SendTypes ==
    ASSUME NEW s \in Adapter, NEW op \in {"start", "pair"},
           NEW then \in {"stop", "suspend", NONE}, NEW typed \in BOOLEAN
    PROVE  /\ Send(s, op) \in Adapter
           /\ SameClients(s, Send(s, op))
           /\ Send(s, op).current = s.current
           /\ SendStop(s, then, typed) \in Adapter
           /\ SameClients(s, SendStop(s, then, typed))
           /\ SendStop(s, then, typed).current = s.current
<1> DEFINE r == [op |-> op, then |-> op, typed |-> TRUE]
           q == [op |-> "stop", then |-> then, typed |-> typed]
<1>1. r \in Request /\ q \in Request
  BY DEF Request
<1>2. Append(s.requests, r) \in Seq(Request) /\ Append(s.requests, q) \in Seq(Request)
  BY <1>1 DEF Adapter
<1>3. Send(s, op) = [s EXCEPT !.requests = Append(s.requests, r)]
  BY DEF Send
<1>4. SendStop(s, then, typed) = [s EXCEPT !.requests = Append(s.requests, q)]
  BY DEF SendStop
<1> HIDE DEF r, q
<1>5. QED
  BY <1>2, <1>3, <1>4 DEF Adapter, SameClients

LEMMA TriggerTypes ==
    ASSUME NEW s \in Adapter
    PROVE  /\ TriggerStart(s) \in Adapter /\ SameClients(s, TriggerStart(s))
           /\ TriggerStart(s).current = s.current
           /\ Cleanup(s) \in Adapter /\ SameClients(s, Cleanup(s))
           /\ Cleanup(s).current = s.current
BY DEF Adapter, TriggerStart, Cleanup, SameClients

LEMMA MergedType ==
    ASSUME NEW s \in Adapter
    PROVE  Merged(s) \in (SUBSET Filter) \cup {NONE}
<1> DEFINE F == {s.filter[c] : c \in s.list}
<1>1. F \subseteq Filter \cup {NONE}
  BY DEF Adapter
<1>2. NONE \notin F => F \subseteq Filter
  BY <1>1
<1>3. Merged(s) \in {NONE, {}} \/ (NONE \notin F /\ Merged(s) = F)
  BY DEF Merged
<1>4. QED
  BY <1>2, <1>3

LEMMA UpdateTypes ==
    ASSUME NEW s \in Adapter
    PROVE  /\ UpdateFilter(s) \in Adapter
           /\ SameClients(s, UpdateFilter(s))
           /\ MergedInv(UpdateFilter(s))
<1> DEFINE t == [s EXCEPT !.current = Merged(s)]
<1>1. t \in Adapter /\ SameClients(s, t) /\ t.current = Merged(s)
  BY MergedType DEF Adapter, SameClients
<1>2. CASE Restarts(s)
  <2>1. UpdateFilter(s) = TriggerStart(t)
    BY <1>2 DEF UpdateFilter
  <2>2. TriggerStart(t) \in Adapter /\ SameClients(t, TriggerStart(t))
        /\ TriggerStart(t).current = Merged(s)
    BY <1>1, TriggerTypes
  <2>3. SameClients(s, TriggerStart(t))
    BY <1>1, <2>2 DEF SameClients
  <2>4. QED
    BY <2>1, <2>2, <2>3, SameKeeps DEF MergedInv
<1>3. CASE ~Restarts(s)
  BY <1>3 DEF UpdateFilter, Restarts, MergedInv, SameClients
<1>4. QED
  BY <1>2, <1>3

LEMMA FreeTypes ==
    ASSUME NEW s \in Adapter, NEW gone \in SUBSET Client
    PROVE  /\ Free(s, gone) \in Adapter
           /\ Free(s, gone).list = s.list /\ Free(s, gone).preset = s.preset
           /\ Free(s, gone).watched = s.watched /\ Free(s, gone).current = s.current
           /\ \A c \in Client \ gone : /\ Free(s, gone).msg[c] = s.msg[c]
                                       /\ Free(s, gone).filter[c] = s.filter[c]
           /\ Free(s, gone).client \in {s.client, NONE}
           /\ s.client \in gone /\ s.msg[s.client] # NONE => Free(s, gone).client = NONE
<1> DEFINE w == IF s.client \in gone /\ s.msg[s.client] # NONE THEN NONE ELSE s.client
           f == [c \in Client |-> IF c \in gone THEN NONE ELSE s.filter[c]]
           m == [c \in Client |-> IF c \in gone THEN NONE ELSE s.msg[c]]
<1>1. w \in Client \cup {NONE} /\ w \in {s.client, NONE}
  BY DEF Adapter
<1>2. f \in [Client -> Filter \cup {NONE}] /\ m \in [Client -> {"start", "stop", NONE}]
  BY DEF Adapter
<1>3. \A c \in Client \ gone : m[c] = s.msg[c] /\ f[c] = s.filter[c]
  OBVIOUS
<1>4. s.client \in gone /\ s.msg[s.client] # NONE => w = NONE
  OBVIOUS
<1>5. Free(s, gone) = [s EXCEPT !.client = w, !.filter = f, !.msg = m]
  BY DEF Free
<1> HIDE DEF w, f, m
<1>6. QED
  BY <1>1, <1>2, <1>3, <1>4, <1>5 DEF Adapter

LEMMA RemoveTypes ==
    ASSUME NEW s \in Adapter, NEW c \in Client
    PROVE  /\ Remove(s, c) \in Adapter
           /\ Remove(s, c).list = s.list \ {c}
           /\ Remove(s, c).watched = s.watched
           /\ WaitInv(s) => WaitInv(Remove(s, c))
           /\ c \notin s.list /\ MergedInv(s) => MergedInv(Remove(s, c))
<1> DEFINE keep == c \in s.watched /\ s.filter[c] # NONE
           w == IF s.client = c THEN NONE ELSE s.client
           p == IF keep THEN s.preset \cup {c} ELSE s.preset \ {c}
           t == [s EXCEPT !.list = s.list \ {c}, !.preset = p, !.client = w]
           u == IF keep THEN t ELSE Free(t, {c})
<1>1. w \in Client \cup {NONE} /\ w # c
  BY DiscoveryAssumption DEF Adapter
<1>2. /\ p \in SUBSET Client /\ s.list \ {c} \in SUBSET Client
      /\ s.preset \ {c} \subseteq p
  BY DEF Adapter
<1>3. /\ t \in Adapter /\ t.list = s.list \ {c} /\ t.preset = p /\ t.watched = s.watched
      /\ t.client = w /\ t.msg = s.msg /\ t.filter = s.filter /\ t.current = s.current
  <2> HIDE DEF w, p
  <2>1. QED
    BY <1>1, <1>2 DEF Adapter
<1>4. /\ u \in Adapter /\ u.list = s.list \ {c} /\ u.preset = p /\ u.watched = s.watched
      /\ u.client \in {w, NONE} /\ u.current = s.current
      /\ \A b \in Client \ {c} : u.msg[b] = s.msg[b] /\ u.filter[b] = s.filter[b]
  <2> HIDE DEF keep, w, p, t
  <2>1. {c} \in SUBSET Client
    OBVIOUS
  <2>2. CASE keep
    BY <1>3, <2>2
  <2>3. CASE ~keep
    BY <1>3, <2>1, <2>3, FreeTypes
  <2>4. QED
    BY <2>2, <2>3
<1>5. Remove(s, c) = IF u.list = {} THEN Cleanup(u) ELSE u
  BY DEF Remove
<1>6. WaitInv(s) => WaitInv(u)
  <2> SUFFICES ASSUME WaitInv(s), u.client # NONE, u.client \in u.watched
               PROVE  u.client \in u.list /\ u.msg[u.client] # NONE
    BY DEF WaitInv
  <2>1. u.client = s.client /\ s.client # c
    BY <1>1, <1>4
  <2>2. s.client \in s.list /\ s.msg[s.client] # NONE
    BY <2>1, <1>4 DEF WaitInv
  <2>3. s.client \in Client \ {c}
    BY <2>1, <2>2 DEF Adapter
  <2> HIDE DEF u, p
  <2>4. QED
    BY <1>2, <1>4, <2>1, <2>2, <2>3
<1>7. c \notin s.list /\ MergedInv(s) => MergedInv(u)
  <2> SUFFICES ASSUME c \notin s.list, MergedInv(s), u.list # {} PROVE u.current = Merged(u)
    BY DEF MergedInv
  <2> HIDE DEF u, p, w, t
  <2>1. u.list = s.list /\ s.list \subseteq Client \ {c}
    BY <1>4 DEF Adapter
  <2>2. {u.filter[b] : b \in u.list} = {s.filter[b] : b \in s.list}
    BY <1>4, <2>1
  <2>3. Merged(u) = Merged(s)
    BY <2>2 DEF Merged
  <2>4. QED
    BY <1>4, <2>1, <2>3 DEF MergedInv
<1> HIDE DEF u
<1>8. /\ Cleanup(u) \in Adapter /\ SameClients(u, Cleanup(u))
      /\ Cleanup(u).current = u.current
  BY <1>4, TriggerTypes
<1>9. CASE u.list = {}
  BY <1>4, <1>5, <1>6, <1>7, <1>8, <1>9, SameKeeps DEF SameClients
<1>10. CASE u.list # {}
  BY <1>4, <1>5, <1>6, <1>7, <1>10
<1>11. QED
  BY <1>9, <1>10

LEMMA CompleteTypes ==
    ASSUME NEW s \in Adapter
    PROVE  /\ Complete(s) \in Adapter
           /\ Complete(s).list = s.list /\ Complete(s).preset = s.preset
           /\ Complete(s).filter = s.filter /\ Complete(s).watched = s.watched
           /\ Complete(s).current = s.current
           /\ Complete(s).client = NONE
<1>1. CASE s.client = NONE
  BY <1>1 DEF Complete
<1>2. CASE s.client # NONE
  <2>1. [s.msg EXCEPT ![s.client] = NONE] \in [Client -> {"start", "stop", NONE}]
    BY DEF Adapter
  <2>2. Complete(s) = [s EXCEPT !.client = NONE, !.msg = [s.msg EXCEPT ![s.client] = NONE]]
    BY <1>2 DEF Complete
  <2>3. QED
    BY <2>1, <2>2 DEF Adapter
<1>3. QED
  BY <1>1, <1>2

LEMMA CompleteKeeps ==
    ASSUME NEW s \in Adapter
    PROVE  /\ WaitInv(Complete(s))
           /\ MergedInv(s) => MergedInv(Complete(s))
<1> DEFINE t == Complete(s)
<1>1. t.list = s.list /\ t.filter = s.filter /\ t.current = s.current /\ t.client = NONE
  BY CompleteTypes
<1> HIDE DEF t
<1>2. WaitInv(t) /\ Merged(t) = Merged(s)
  BY <1>1 DEF WaitInv, Merged
<1>3. MergedInv(s) => MergedInv(t)
  BY <1>1, <1>2 DEF MergedInv
<1>4. QED
  BY <1>2, <1>3 DEF t

(* Of fewer than two clients, the removal of a listed one leaves none. *)
LEMMA LastOne ==
    ASSUME NEW s \in Adapter, ~Others(s), NEW c \in s.list
    PROVE  s.list = {c}
<1>1. IsFiniteSet(s.list)
  BY DiscoveryAssumption, FS_Subset DEF Adapter
<1>2. SUFFICES ASSUME NEW b \in s.list, b # c PROVE FALSE
  OBVIOUS
<1>3. {b, c} \subseteq s.list
  BY <1>2
<1>4. Cardinality({b, c}) = 2
  <2>1. IsFiniteSet({b}) /\ Cardinality({b}) = 1
    BY FS_Singleton
  <2>2. Cardinality({b} \cup {c}) = Cardinality({b}) + 1
    BY <1>2, <2>1, FS_AddElement
  <2>3. {b} \cup {c} = {b, c}
    OBVIOUS
  <2>4. QED
    BY <2>1, <2>2, <2>3
<1>5. Cardinality({b, c}) <= Cardinality(s.list)
  BY <1>1, <1>3, FS_Subset
<1>6. QED
  BY <1>1, <1>4, <1>5, FS_CardinalityType DEF Others

(* discovery_stop keeps what is wanted, but that a command is on its way for *)
(* a client without a message.                                               *)
LEMMA StopTypes ==
    ASSUME NEW s \in Adapter, NEW c \in Client
    PROVE  /\ DiscoveryStop(s, c) \in Adapter
           /\ MergedInv(s) => MergedInv(DiscoveryStop(s, c))
           /\ ~InProgress(s) /\ WaitInv(s) => WaitInv(DiscoveryStop(s, c))
           /\ InProgress(s) =>
                 SameClients([s EXCEPT !.client = c], DiscoveryStop(s, c))
<1> DEFINE r == Remove(s, c)
           t == [s EXCEPT !.client = c]
           v == [r EXCEPT !.discovering = FALSE]
<1>1. CASE Others(s)
  <2>1. r \in Adapter /\ (WaitInv(s) => WaitInv(r))
    BY RemoveTypes
  <2> HIDE DEF r
  <2>2. UpdateFilter(r) \in Adapter /\ SameClients(r, UpdateFilter(r))
        /\ MergedInv(UpdateFilter(r))
    BY <2>1, UpdateTypes
  <2>3. WaitInv(s) => WaitInv(UpdateFilter(r))
    BY <2>1, <2>2, SameKeeps
  <2>4. DiscoveryStop(s, c) = UpdateFilter(r)
    BY <1>1 DEF DiscoveryStop, InProgress, r
  <2>5. QED
    BY <1>1, <2>2, <2>3, <2>4 DEF InProgress
<1>2. CASE ~Others(s) /\ s.enable
  <2>1. InProgress(s)
    BY <1>2 DEF InProgress
  <2>2. DiscoveryStop(s, c) = SendStop(t, "stop", s.typed)
    BY <1>2, <2>1 DEF DiscoveryStop
  <2>3. t \in Adapter /\ s.typed \in BOOLEAN /\ t.current = s.current
        /\ t.list = s.list /\ t.filter = s.filter
    BY DEF Adapter
  <2> HIDE DEF t
  <2>4. /\ SendStop(t, "stop", s.typed) \in Adapter
        /\ SameClients(t, SendStop(t, "stop", s.typed))
        /\ SendStop(t, "stop", s.typed).current = s.current
    BY <2>3, SendTypes
  <2>5. MergedInv(s) => MergedInv(t)
    BY <2>3 DEF MergedInv, Merged
  <2>6. MergedInv(t) => MergedInv(SendStop(t, "stop", s.typed))
    BY <2>3, <2>4, SameKeeps
  <2>7. QED
    BY <2>1, <2>2, <2>4, <2>5, <2>6 DEF t
<1>3. CASE ~Others(s) /\ ~s.enable
  <2>1. ~InProgress(s) /\ DiscoveryStop(s, c) = v
    BY <1>3 DEF InProgress, DiscoveryStop
  <2>2. r \in Adapter /\ (WaitInv(s) => WaitInv(r)) /\ r.list = s.list \ {c}
        /\ (c \notin s.list /\ MergedInv(s) => MergedInv(r))
    BY RemoveTypes
  <2>3. c \in s.list => r.list = {}
    BY <1>3, <2>2, LastOne
  <2>4. MergedInv(s) => MergedInv(r)
    BY <2>2, <2>3 DEF MergedInv
  <2> HIDE DEF r
  <2>5. v \in Adapter /\ SameClients(r, v) /\ v.current = r.current
    BY <2>2 DEF Adapter, SameClients
  <2> HIDE DEF v
  <2>6. QED
    BY <2>1, <2>2, <2>4, <2>5, SameKeeps
<1>4. QED
  BY <1>1, <1>2, <1>3 DEF Adapter

-----------------------------------------------------------------------------
(* Replies. *)

LEMMA RemoveWaitingTypes ==
    ASSUME NEW s \in Adapter, WaitInv(s)
    PROVE  /\ RemoveWaiting(s) \in Adapter
           /\ WaitInv(RemoveWaiting(s))
           /\ RemoveWaiting(s).list \subseteq s.list
           /\ RemoveWaiting(s).list = s.list /\ MergedInv(s) => MergedInv(RemoveWaiting(s))
<1>1. CASE s.client = NONE
  BY <1>1 DEF RemoveWaiting
<1>2. CASE s.client # NONE
  <2> DEFINE t == Complete(s)
  <2>1. t \in Adapter /\ t.list = s.list /\ WaitInv(t) /\ (MergedInv(s) => MergedInv(t))
    BY CompleteTypes, CompleteKeeps
  <2>2. s.client \in Client
    BY <1>2 DEF Adapter
  <2>3. RemoveWaiting(s) = Remove(t, s.client)
    BY <1>2 DEF RemoveWaiting
  <2> HIDE DEF t
  <2>4. QED
    BY <2>1, <2>2, <2>3, RemoveTypes
<1>3. QED
  BY <1>1, <1>2

LEMMA StartCompleteTypes ==
    ASSUME NEW s \in Adapter, WaitInv(s), NEW success \in BOOLEAN
    PROVE  LET t == StartComplete(s, success)
           IN  t \in Adapter /\ WaitInv(t) /\ (t.list = s.list /\ MergedInv(s) => MergedInv(t))
<1> DEFINE u == [s EXCEPT !.typed = TRUE, !.enable = TRUE, !.discovering = TRUE,
                          !.filtered = s.current # NONE]
<1>1. u \in Adapter /\ SameClients(s, u) /\ u.current = s.current
  BY DEF Adapter, SameClients
<1> HIDE DEF u
<1>2. Complete(u) \in Adapter /\ WaitInv(Complete(u)) /\ (MergedInv(s) => MergedInv(Complete(u)))
  BY <1>1, CompleteTypes, CompleteKeeps, SameKeeps
<1>3. /\ SendStop(s, NONE, TRUE) \in Adapter /\ SameClients(s, SendStop(s, NONE, TRUE))
      /\ SendStop(s, NONE, TRUE).current = s.current
  BY SendTypes
<1>4. /\ TriggerStart(s) \in Adapter /\ SameClients(s, TriggerStart(s))
      /\ TriggerStart(s).current = s.current
  BY TriggerTypes
<1>5. StartComplete(s, success) \in {s, SendStop(s, NONE, TRUE), Complete(u),
                                     RemoveWaiting(s), TriggerStart(s)}
  BY DEF StartComplete, u
<1>6. QED
  BY <1>2, <1>3, <1>4, <1>5, RemoveWaitingTypes, SameKeeps

LEMMA StopCompleteTypes ==
    ASSUME NEW s \in Adapter, WaitInv(s), NEW success \in BOOLEAN
    PROVE  LET t == StopComplete(s, success)
           IN  t \in Adapter /\ WaitInv(t) /\ (t.list = s.list /\ MergedInv(s) => MergedInv(t))
<1> DEFINE t == RemoveWaiting(s)
           u == [t EXCEPT !.typed = FALSE, !.enable = FALSE, !.filtered = FALSE,
                          !.discovering = FALSE]
<1>1. /\ t \in Adapter /\ WaitInv(t) /\ (t.list = s.list /\ MergedInv(s) => MergedInv(t))
  BY RemoveWaitingTypes
<1>2. StopComplete(s, success) \in {t, u}
  BY DEF StopComplete
<1> HIDE DEF t
<1>3. u \in Adapter /\ SameClients(t, u) /\ u.current = t.current
  BY <1>1 DEF Adapter, SameClients
<1> HIDE DEF u
<1>4. WaitInv(u) /\ u.list = t.list /\ (MergedInv(t) => MergedInv(u))
  BY <1>1, <1>3, SameKeeps DEF SameClients
<1>5. QED
  BY <1>1, <1>2, <1>3, <1>4

LEMMA CallbackTypes ==
    ASSUME NEW s \in Adapter, WaitInv(s), NEW success \in BOOLEAN,
           NEW then \in {"start", "stop", "suspend", "pair", NONE}
    PROVE  LET t == Callback(s, then, success)
           IN  t \in Adapter /\ WaitInv(t) /\ (t.list = s.list /\ MergedInv(s) => MergedInv(t))
<1> DEFINE u == [s EXCEPT !.typed = FALSE, !.enable = FALSE]
           v == [s EXCEPT !.suspended = FALSE]
<1>1. u \in Adapter /\ SameClients(s, u) /\ u.current = s.current
  BY DEF Adapter, SameClients
<1>2. v \in Adapter /\ SameClients(s, v) /\ v.current = s.current
  BY DEF Adapter, SameClients
<1>3. SuspendComplete(s, success) \in {s, u} /\ ResumeDiscovery(s) \in {v, TriggerStart(v)}
  BY DEF SuspendComplete, ResumeDiscovery
<1> HIDE DEF u, v
<1>4. /\ TriggerStart(v) \in Adapter /\ SameClients(v, TriggerStart(v))
      /\ TriggerStart(v).current = v.current
  BY <1>2, TriggerTypes
<1>5. SameClients(s, TriggerStart(v)) /\ TriggerStart(v).current = s.current
  BY <1>2, <1>4 DEF SameClients
<1>6. \A t \in {s, u, v, TriggerStart(v)} : t \in Adapter /\ WaitInv(t) /\ (MergedInv(s) => MergedInv(t))
  BY <1>1, <1>2, <1>4, <1>5, SameKeeps
<1>7. Callback(s, then, success) \in {s, u, v, TriggerStart(v), StartComplete(s, success),
                                      StopComplete(s, success)}
  BY <1>3 DEF Callback
<1>8. QED
  BY <1>6, <1>7, StartCompleteTypes, StopCompleteTypes

-----------------------------------------------------------------------------
(* The steps. *)

LEMMA NotedKeeps ==
    ASSUME mishaps \subseteq Mishap, Noted
    PROVE  mishaps' \subseteq Mishap /\ mishaps \subseteq mishaps'
BY DEF Noted, Mishappens

(* What is left to show of a step, once the rest is typed. *)
Rest == /\ kernel \in [on: BOOLEAN, finds: BOOLEAN]
        /\ events \in Seq(Event)
        /\ count \in 0..MaxCount

LEMMA StepKeeps ==
    ASSUME IInv, Noted, Rest', d' \in Adapter, WaitInv(d'),
           MergedInv(d) /\ "partner" \notin mishaps' => MergedInv(d')
    PROVE  IInv'
<1>1. mishaps' \subseteq Mishap /\ mishaps \subseteq mishaps'
  BY NotedKeeps DEF IInv, TypeOK
<1>2. TypeOK'
  BY <1>1 DEF TypeOK, Rest
<1>3. "partner" \notin mishaps' => MergedInv(d')
  BY <1>1 DEF IInv
<1>4. QED
  BY <1>2, <1>3 DEF IInv

LEMMA CallsRest ==
    ASSUME IInv, Calls
    PROVE  Rest'
BY DiscoveryAssumption DEF IInv, TypeOK, Calls, Rest

(* start_discovery and stop_discovery leave a client that waits. *)
LEMMA WaitsTypes ==
    ASSUME NEW u \in Adapter, NEW c \in u.list, NEW call \in {"start", "stop"},
           c \in Client
    PROVE  /\ Waits(u, c, call) \in Adapter
           /\ WaitInv(Waits(u, c, call))
           /\ MergedInv(u) => MergedInv(Waits(u, c, call))
<1> DEFINE m == [u.msg EXCEPT ![c] = call]
           w == [u EXCEPT !.msg = m, !.client = c]
<1>1. m \in [Client -> {"start", "stop", NONE}] /\ m[c] = call
  BY DEF Adapter
<1>2. Waits(u, c, call) = w
  BY DEF Waits
<1> HIDE DEF m
<1>3. /\ w \in Adapter /\ w.list = u.list /\ w.filter = u.filter /\ w.current = u.current
      /\ w.preset = u.preset /\ w.client = c /\ w.msg[c] = call
  BY <1>1 DEF Adapter
<1> HIDE DEF w
<1>4. MergedInv(u) => MergedInv(w)
  BY <1>3 DEF MergedInv, Merged
<1>5. call # NONE
  BY DiscoveryAssumption
<1>6. WaitInv(w)
  BY <1>3, <1>5 DEF WaitInv
<1>7. QED
  BY <1>2, <1>3, <1>4, <1>6

LEMMA StartKeeps ==
    ASSUME IInv, NEW c \in Client, StartDiscovery(c)
    PROVE  IInv'
<1> DEFINE s == [d EXCEPT !.preset = d.preset \ {c}, !.list = d.list \cup {c}]
           u == UpdateFilter(s)
<1>1. /\ Calls /\ Noted /\ c \notin d.list
      /\ d' = IF Restarts(s) THEN Waits(u, c, "start") ELSE s
  BY DEF StartDiscovery
<1>2. d \in Adapter /\ WaitInv(d)
  BY DEF IInv, TypeOK
<1>3. /\ s \in Adapter /\ s.list = d.list \cup {c} /\ s.preset = d.preset \ {c}
      /\ s.msg = d.msg /\ s.client = d.client /\ s.watched = d.watched
  BY <1>2 DEF Adapter
<1> HIDE DEF s
<1>4. WaitInv(s)
  BY <1>2, <1>3 DEF WaitInv
<1>5. u \in Adapter /\ SameClients(s, u) /\ MergedInv(u)
  BY <1>3, UpdateTypes
<1>6. ~Restarts(s) => u = s
  BY DEF UpdateFilter
<1> HIDE DEF u
<1>7. c \in u.list
  BY <1>3, <1>5 DEF SameClients
<1>8. d' \in Adapter /\ WaitInv(d') /\ MergedInv(d')
  BY <1>1, <1>3, <1>4, <1>5, <1>6, <1>7, WaitsTypes
<1>9. QED
  BY <1>1, <1>8, CallsRest, StepKeeps

LEMMA StopKeeps ==
    ASSUME IInv, NEW c \in Client, StopDiscovery(c)
    PROVE  IInv'
<1> DEFINE s == DiscoveryStop(d, c)
           t == [d EXCEPT !.client = c]
<1>1. /\ Calls /\ Noted /\ c \in d.list
      /\ d' = IF InProgress(d) THEN Waits(s, c, "stop") ELSE s
  BY DEF StopDiscovery
<1>2. d \in Adapter /\ WaitInv(d)
  BY DEF IInv, TypeOK
<1>3. /\ s \in Adapter /\ (MergedInv(d) => MergedInv(s))
      /\ (~InProgress(d) => WaitInv(s))
      /\ (InProgress(d) => SameClients(t, s))
  BY <1>2, StopTypes
<1>4. t.list = d.list
  BY <1>2 DEF Adapter
<1> HIDE DEF s, t
<1>5. InProgress(d) => c \in s.list
  BY <1>1, <1>3, <1>4 DEF SameClients
<1>6. d' \in Adapter /\ WaitInv(d') /\ (MergedInv(d) => MergedInv(d'))
  BY <1>1, <1>3, <1>5, WaitsTypes
<1>7. QED
  BY <1>1, <1>6, CallsRest, StepKeeps

LEMMA FilterKeeps ==
    ASSUME IInv, NEW c \in Client, NEW f \in Filter \cup {NONE}, SetDiscoveryFilter(c, f)
    PROVE  IInv'
<1> DEFINE g == [d.filter EXCEPT ![c] = f]
           s == [d EXCEPT !.filter = g]
           t == [s EXCEPT !.preset = s.preset \cup {c}]
           r == Free(d, {c})
           u == [r EXCEPT !.preset = r.preset \ {c}]
<1>1. Calls /\ Noted /\ c \in d.watched
  BY DEF SetDiscoveryFilter
<1>2. d \in Adapter /\ WaitInv(d)
  BY DEF IInv, TypeOK
<1>3. /\ c \in d.list => d' = UpdateFilter(s)
      /\ c \notin d.list => d' \in {t, u}
  BY DEF SetDiscoveryFilter
<1>4. g \in [Client -> Filter \cup {NONE}] /\ \A b \in Client \ {c} : g[b] = d.filter[b]
  BY <1>2 DEF Adapter
<1>5. r \in Adapter /\ r.list = d.list /\ r.preset = d.preset /\ r.watched = d.watched
      /\ r.current = d.current /\ r.client \in {d.client, NONE}
      /\ (\A b \in Client \ {c} : r.msg[b] = d.msg[b] /\ r.filter[b] = d.filter[b])
      /\ (d.client = c /\ d.msg[c] # NONE => r.client = NONE)
  <2>1. {c} \in SUBSET Client
    OBVIOUS
  <2>2. QED
    BY <1>2, <2>1, FreeTypes
<1> HIDE DEF g, r
<1>6. /\ s \in Adapter /\ s.list = d.list /\ s.preset = d.preset /\ s.watched = d.watched
      /\ s.filter = g /\ s.msg = d.msg /\ s.client = d.client /\ s.current = d.current
  BY <1>2, <1>4 DEF Adapter
<1> HIDE DEF s
<1>7. WaitInv(s)
  BY <1>2, <1>6 DEF WaitInv
<1>8. CASE c \in d.list
  <2>1. /\ UpdateFilter(s) \in Adapter /\ SameClients(s, UpdateFilter(s))
        /\ MergedInv(UpdateFilter(s))
    BY <1>6, UpdateTypes
  <2>2. WaitInv(UpdateFilter(s))
    BY <1>7, <2>1, SameKeeps
  <2>3. QED
    BY <1>1, <1>3, <1>8, <2>1, <2>2, CallsRest, StepKeeps
<1>9. CASE c \notin d.list
  <2>1. d.list \subseteq Client \ {c}
    BY <1>2, <1>9 DEF Adapter
  <2>2. {g[b] : b \in d.list} = {d.filter[b] : b \in d.list}
        /\ {r.filter[b] : b \in d.list} = {d.filter[b] : b \in d.list}
    BY <1>4, <1>5, <2>1
  <2>3. /\ t \in Adapter /\ t.list = d.list /\ t.preset = d.preset \cup {c} /\ t.watched = d.watched
        /\ t.filter = g /\ t.msg = d.msg /\ t.client = d.client /\ t.current = d.current
    BY <1>6 DEF Adapter
  <2>4. /\ u \in Adapter /\ u.list = d.list /\ u.preset = d.preset \ {c} /\ u.watched = d.watched
        /\ u.filter = r.filter /\ u.msg = r.msg /\ u.client = r.client /\ u.current = d.current
    BY <1>5 DEF Adapter
  <2> HIDE DEF t, u
  <2>5. WaitInv(t)
    BY <1>2, <2>3 DEF WaitInv
  <2>6. WaitInv(u)
    <3> SUFFICES ASSUME u.client # NONE, u.client \in u.watched
                 PROVE  u.client \in u.list /\ u.msg[u.client] # NONE
      BY DEF WaitInv
    <3>1. /\ u.client = d.client /\ d.client # NONE /\ d.client \in d.watched
      BY <1>5, <2>4
    <3>2. d.client \in d.list /\ d.msg[d.client] # NONE
      BY <1>2, <3>1 DEF WaitInv
    <3>3. d.client # c
      BY <1>5, <2>4, <3>1, <3>2
    <3>4. d.client \in Client \ {c}
      BY <1>2, <3>1, <3>3 DEF Adapter
    <3>5. u.msg[u.client] = d.msg[d.client]
      BY <1>5, <2>4, <3>1, <3>4
    <3>6. d.client \in u.list
      BY <2>4, <3>2, <3>3
    <3>7. QED
      BY <3>1, <3>2, <3>5, <3>6
  <2>7. (MergedInv(d) => MergedInv(t)) /\ (MergedInv(d) => MergedInv(u))
    <3>1. Merged(t) = Merged(d)
      BY <2>2, <2>3 DEF Merged
    <3>2. Merged(u) = Merged(d)
      BY <2>2, <2>4 DEF Merged
    <3>3. QED
      BY <2>3, <2>4, <3>1, <3>2 DEF MergedInv
  <2>8. d' \in Adapter /\ WaitInv(d') /\ (MergedInv(d) => MergedInv(d'))
    BY <1>3, <1>9, <2>3, <2>4, <2>5, <2>6, <2>7
  <2>9. QED
    BY <1>1, <2>8, CallsRest, StepKeeps
<1>10. QED
  BY <1>8, <1>9

LEMMA DisconnectKeeps ==
    ASSUME IInv, NEW c \in Client, Disconnect(c)
    PROVE  IInv'
<1> DEFINE s == [d EXCEPT !.watched = d.watched \ {c}]
           t == [s EXCEPT !.client = c]
           u == DiscoveryStop(s, c)
<1>1. /\ Calls /\ Noted /\ d' \in {s, u}
  BY DEF Disconnect
<1>2. d \in Adapter /\ WaitInv(d)
  BY DEF IInv, TypeOK
<1>3. /\ s \in Adapter /\ s.list = d.list /\ s.preset = d.preset
      /\ s.watched = d.watched \ {c} /\ s.filter = d.filter /\ s.msg = d.msg
      /\ s.client = d.client /\ s.current = d.current
  BY <1>2 DEF Adapter
<1> HIDE DEF s
<1>4. WaitInv(s) /\ (MergedInv(d) => MergedInv(s))
  BY <1>2, <1>3 DEF WaitInv, MergedInv, Merged
<1>5. /\ u \in Adapter /\ (MergedInv(s) => MergedInv(u))
      /\ (~InProgress(s) => WaitInv(u)) /\ (InProgress(s) => SameClients(t, u))
  BY <1>3, <1>4, StopTypes
<1>6. t.client = c /\ t.watched = s.watched
  BY <1>3 DEF Adapter
<1> HIDE DEF t, u
<1>7. InProgress(s) => WaitInv(u)
  BY <1>3, <1>5, <1>6 DEF SameClients, WaitInv
<1>8. d' \in Adapter /\ WaitInv(d') /\ (MergedInv(d) => MergedInv(d'))
  BY <1>1, <1>3, <1>4, <1>5, <1>7
<1>9. QED
  BY <1>1, <1>8, CallsRest, StepKeeps

LEMMA PairKeeps ==
    ASSUME IInv, Pair
    PROVE  IInv'
<1> DEFINE s == [d EXCEPT !.suspended = TRUE, !.timer = d.timer /\ d.list = {}]
           t == IF d.list # {} /\ d.enable THEN SendStop(s, "suspend", s.typed) ELSE s
<1>1. d \in Adapter /\ WaitInv(d) /\ Noted /\ d' = Send(t, "pair")
  BY DEF IInv, TypeOK, Pair
<1>2. s \in Adapter /\ s.typed \in BOOLEAN /\ SameClients(d, s) /\ s.current = d.current
  BY <1>1 DEF Adapter, SameClients
<1> HIDE DEF s
<1>3. /\ SendStop(s, "suspend", s.typed) \in Adapter
      /\ SameClients(s, SendStop(s, "suspend", s.typed))
      /\ SendStop(s, "suspend", s.typed).current = s.current
  BY <1>2, SendTypes
<1>4. t \in Adapter /\ SameClients(d, t) /\ t.current = d.current
  BY <1>2, <1>3 DEF SameClients
<1> HIDE DEF t
<1>5. Send(t, "pair") \in Adapter /\ SameClients(t, Send(t, "pair"))
      /\ Send(t, "pair").current = t.current
  BY <1>4, SendTypes
<1>6. WaitInv(t) /\ (MergedInv(d) => MergedInv(t))
  BY <1>1, <1>4, SameKeeps
<1>7. WaitInv(d') /\ (MergedInv(d) => MergedInv(d'))
  BY <1>1, <1>5, <1>6, SameKeeps
<1>8. Rest'
  BY DiscoveryAssumption DEF Pair, IInv, TypeOK, Rest
<1>9. QED
  BY <1>1, <1>5, <1>7, <1>8, StepKeeps

LEMMA TimeoutKeeps ==
    ASSUME IInv, StartDiscoveryTimeout
    PROVE  IInv'
<1> DEFINE s == [d EXCEPT !.timer = FALSE]
           t == [s EXCEPT !.discovering = TRUE]
<1>1. d \in Adapter /\ WaitInv(d) /\ Noted
  BY DEF IInv, TypeOK, StartDiscoveryTimeout
<1>2. d' \in {t, Send(s, "start"), SendStop(s, NONE, s.typed)}
  BY DEF StartDiscoveryTimeout
<1>3. s \in Adapter /\ s.typed \in BOOLEAN /\ SameClients(d, s) /\ s.current = d.current
  BY <1>1 DEF Adapter, SameClients
<1> HIDE DEF s
<1>4. t \in Adapter /\ SameClients(s, t) /\ t.current = s.current
  BY <1>3 DEF Adapter, SameClients
<1> HIDE DEF t
<1>5. /\ WaitInv(s) /\ (MergedInv(d) => MergedInv(s))
  BY <1>1, <1>3, SameKeeps
<1>6. /\ Send(s, "start") \in Adapter /\ SameClients(s, Send(s, "start"))
      /\ Send(s, "start").current = s.current
      /\ SendStop(s, NONE, s.typed) \in Adapter
      /\ SameClients(s, SendStop(s, NONE, s.typed))
      /\ SendStop(s, NONE, s.typed).current = s.current
  <2>1. "start" \in {"start", "pair"} /\ NONE \in {"stop", "suspend", NONE}
    OBVIOUS
  <2>2. QED
    BY <1>3, <2>1, SendTypes
<1>7. d' \in Adapter /\ SameClients(s, d') /\ d'.current = s.current
  BY <1>2, <1>4, <1>6
<1>8. WaitInv(d') /\ (MergedInv(d) => MergedInv(d'))
  BY <1>5, <1>7, SameKeeps
<1>9. Rest'
  BY DEF StartDiscoveryTimeout, IInv, TypeOK, Rest
<1>10. QED
  BY <1>1, <1>7, <1>8, <1>9, StepKeeps

LEMMA TakesRest ==
    ASSUME IInv, NEW kind, Takes(kind)
    PROVE  Rest'
BY DEF IInv, TypeOK, Takes, Rest

(* A reply that changes the list and leaves a client in it is a mishap. *)
LEMMA PartnerNoted ==
    ASSUME Noted, Takes("reply"), d'.list # {}, d'.list # d.list
    PROVE  "partner" \in mishaps'
BY DEF Noted, Mishappens, Mishap, Takes

LEMMA ReplyKeeps ==
    ASSUME IInv, Reply
    PROVE  IInv'
<1> DEFINE s == [d EXCEPT !.requests = Tail(d.requests)]
           then == Head(d.requests).then
           success == Head(events).value
<1>1. d \in Adapter /\ WaitInv(d) /\ Noted /\ Takes("reply") /\ d.requests # <<>>
      /\ d' = Callback(s, then, success)
  BY DEF IInv, TypeOK, Reply
<1>2. Tail(d.requests) \in Seq(Request) /\ Head(d.requests) \in Request
  BY <1>1 DEF Adapter
<1>3. then \in {"start", "stop", "suspend", "pair", NONE}
  BY <1>2 DEF Request
<1>4. success \in BOOLEAN
  <2>1. events \in Seq(Event) /\ events # <<>>
    BY <1>1 DEF IInv, TypeOK, Takes
  <2>2. Head(events) \in Event
    BY <2>1
  <2>3. QED
    BY <2>2 DEF Event
<1>5. s \in Adapter /\ SameClients(d, s) /\ s.current = d.current
  BY <1>1, <1>2 DEF Adapter, SameClients
<1>6. s.list = d.list
  BY <1>5 DEF SameClients
<1> HIDE DEF s, then, success
<1>7. WaitInv(s) /\ (MergedInv(d) => MergedInv(s))
  BY <1>1, <1>5, SameKeeps
<1>8. /\ d' \in Adapter /\ WaitInv(d')
      /\ (d'.list = s.list /\ MergedInv(s) => MergedInv(d'))
  BY <1>1, <1>3, <1>4, <1>5, <1>7, CallbackTypes
<1>9. MergedInv(d) /\ "partner" \notin mishaps' => MergedInv(d')
  <2>1. CASE d'.list = d.list
    BY <1>6, <1>7, <1>8, <2>1
  <2>2. CASE d'.list = {}
    BY <2>2 DEF MergedInv
  <2>3. CASE d'.list # {} /\ d'.list # d.list
    BY <1>1, <2>3, PartnerNoted
  <2>4. QED
    BY <2>1, <2>2, <2>3
<1>10. QED
  BY <1>1, <1>8, <1>9, TakesRest, StepKeeps

LEMMA DiscoveringKeeps ==
    ASSUME IInv, Discovering
    PROVE  IInv'
<1> DEFINE on == Head(events).value
           s == [d EXCEPT !.typed = TRUE, !.enable = on]
           t == [s EXCEPT !.timer = FALSE]
<1>1. d \in Adapter /\ WaitInv(d) /\ Noted /\ Takes("discovering")
      /\ d' \in {d, s, t, TriggerStart(s)}
  BY DEF IInv, TypeOK, Discovering
<1>2. on \in BOOLEAN
  <2>1. events \in Seq(Event) /\ events # <<>>
    BY <1>1 DEF IInv, TypeOK, Takes
  <2>2. Head(events) \in Event
    BY <2>1
  <2>3. QED
    BY <2>2 DEF Event
<1> HIDE DEF on
<1>3. s \in Adapter /\ SameClients(d, s) /\ s.current = d.current
  BY <1>1, <1>2 DEF Adapter, SameClients
<1> HIDE DEF s
<1>4. t \in Adapter /\ SameClients(s, t) /\ t.current = s.current
  BY <1>3 DEF Adapter, SameClients
<1> HIDE DEF t
<1>5. TriggerStart(s) \in Adapter /\ SameClients(s, TriggerStart(s))
      /\ TriggerStart(s).current = s.current
  BY <1>3, TriggerTypes
<1>6. WaitInv(s) /\ (MergedInv(d) => MergedInv(s))
  BY <1>1, <1>3, SameKeeps
<1>7. \A u \in {d, s, t, TriggerStart(s)} :
          u \in Adapter /\ WaitInv(u) /\ (MergedInv(d) => MergedInv(u))
  BY <1>1, <1>3, <1>4, <1>5, <1>6, SameKeeps
<1>8. QED
  BY <1>1, <1>7, TakesRest, StepKeeps

LEMMA PoweredKeeps ==
    ASSUME IInv, Powered
    PROVE  IInv'
<1> DEFINE on == Head(events).value
           gone == d.list \cup d.preset
           f == Free(d, gone)
           k == Cleanup(f)
           s == [k EXCEPT !.list = {}, !.preset = {}, !.current = NONE,
                          !.filtered = FALSE, !.discovering = FALSE]
           a == [d EXCEPT !.powered = on]
           b == [s EXCEPT !.powered = on]
<1>1. d \in Adapter /\ WaitInv(d) /\ Noted /\ Takes("powered") /\ d' \in {a, b}
  BY DEF IInv, TypeOK, Powered
<1>2. on \in BOOLEAN
  <2>1. events \in Seq(Event) /\ events # <<>>
    BY <1>1 DEF IInv, TypeOK, Takes
  <2>2. Head(events) \in Event
    BY <2>1
  <2>3. QED
    BY <2>2 DEF Event
<1> HIDE DEF on
<1>3. a \in Adapter /\ SameClients(d, a) /\ a.current = d.current
  BY <1>1, <1>2 DEF Adapter, SameClients
<1>4. gone \in SUBSET Client
  BY <1>1 DEF Adapter
<1> HIDE DEF a, gone
<1>5. /\ f \in Adapter /\ f.watched = d.watched /\ f.client \in {d.client, NONE}
      /\ (d.client \in gone /\ d.msg[d.client] # NONE => f.client = NONE)
  BY <1>1, <1>4, FreeTypes
<1> HIDE DEF f
<1>6. k \in Adapter /\ SameClients(f, k)
  BY <1>5, TriggerTypes
<1> HIDE DEF k
<1>7. s \in Adapter /\ s.list = {} /\ s.watched = k.watched /\ s.client = k.client
  BY <1>6 DEF Adapter
<1> HIDE DEF s
<1>8. b \in Adapter /\ b.list = {} /\ b.watched = d.watched /\ b.client = f.client
  <2>1. b \in Adapter /\ b.list = s.list /\ b.watched = s.watched /\ b.client = s.client
    BY <1>2, <1>7 DEF Adapter
  <2>2. QED
    BY <1>5, <1>6, <1>7, <2>1 DEF SameClients
<1> HIDE DEF b
<1>9. WaitInv(b)
  BY <1>1, <1>5, <1>8 DEF WaitInv, gone
<1>10. MergedInv(b)
  BY <1>8 DEF MergedInv
<1>11. d' \in Adapter /\ WaitInv(d') /\ (MergedInv(d) => MergedInv(d'))
  BY <1>1, <1>3, <1>8, <1>9, <1>10, SameKeeps
<1>12. QED
  BY <1>1, <1>11, TakesRest, StepKeeps

LEMMA ToldTypes ==
    ASSUME NEW s \in Seq(Event), NEW kind \in {"reply", "discovering", "powered"},
           NEW other \in {"reply", "discovering", "powered"},
           NEW value \in BOOLEAN, NEW more \in BOOLEAN
    PROVE  /\ Append(s, Tell(kind, value)) \in Seq(Event)
           /\ <<Tell(kind, value)>> \in Seq(Event)
           /\ s \o <<Tell(kind, value), Tell(other, more)>> \in Seq(Event)
<1> DEFINE e == Tell(kind, value)
           g == Tell(other, more)
<1>1. e \in Event /\ g \in Event
  BY DEF Tell, Event
<1> HIDE DEF e, g
<1>2. Append(s, e) \in Seq(Event) /\ <<e>> \in Seq(Event) /\ <<e, g>> \in Seq(Event)
  BY <1>1
<1>3. s \o <<e, g>> \in Seq(Event)
  BY <1>2
<1>4. QED
  BY <1>2, <1>3 DEF e, g

LEMMA KernelKeeps ==
    ASSUME IInv, Kernel
    PROVE  IInv'
<1>1. d' = d /\ Noted
  BY DEF Kernel, Serve, Ends, StartedElsewhere, Switched
<1>2. d \in Adapter /\ WaitInv(d) /\ Rest
  BY DEF IInv, TypeOK, Rest
<1>3. events \in Seq(Event)
  BY <1>2 DEF Rest
<1>4. kernel.on \in BOOLEAN /\ kernel.finds \in BOOLEAN
  BY <1>2 DEF Rest
<1>5. Serve => Rest'
  <2> SUFFICES ASSUME Serve PROVE Rest'
    OBVIOUS
  <2>1. PICK success \in BOOLEAN :
          IF Head(d.requests).op \in {"start", "stop"} /\ success
          THEN /\ kernel' = [kernel EXCEPT !.finds = Head(d.requests).op = "start"]
               /\ events' = events \o <<Tell("reply", TRUE),
                                        Tell("discovering", Head(d.requests).op = "start")>>
          ELSE /\ events' = Append(events, Tell("reply", success))
               /\ UNCHANGED kernel
    BY DEF Serve
  <2>2. PICK on \in BOOLEAN : on = (Head(d.requests).op = "start")
    OBVIOUS
  <2>3. /\ Append(events, Tell("reply", success)) \in Seq(Event)
        /\ events \o <<Tell("reply", TRUE), Tell("discovering", on)>> \in Seq(Event)
    BY <1>3, ToldTypes
  <2>4. [kernel EXCEPT !.finds = on] \in [on: BOOLEAN, finds: BOOLEAN]
    BY <1>2 DEF Rest
  <2>5. events' \in Seq(Event) /\ kernel' \in [on: BOOLEAN, finds: BOOLEAN]
    BY <1>2, <2>1, <2>2, <2>3, <2>4 DEF Rest
  <2>6. QED
    BY <1>2, <2>5 DEF Serve, Rest
<1>6. Append(events, Tell("discovering", TRUE)) \in Seq(Event)
      /\ Append(events, Tell("discovering", FALSE)) \in Seq(Event)
  BY <1>3, ToldTypes
<1>7. (Ends => Rest') /\ (StartedElsewhere => Rest')
  <2>1. Ends => Rest'
    BY <1>2, <1>6 DEF Ends, Rest
  <2>2. StartedElsewhere => Rest'
    <3>1. StartedElsewhere => events' \in Seq(Event)
      BY <1>6 DEF StartedElsewhere
    <3>2. StartedElsewhere => kernel' \in [on: BOOLEAN, finds: BOOLEAN]
      BY <1>2 DEF StartedElsewhere, Rest
    <3>3. StartedElsewhere => count' \in 0..MaxCount
      BY <1>2, DiscoveryAssumption DEF StartedElsewhere, Rest
    <3>4. QED
      BY <3>1, <3>2, <3>3 DEF Rest
  <2>3. QED
    BY <2>1, <2>2
<1>8. Switched => Rest'
  <2> DEFINE more == IF kernel.finds THEN <<Tell("discovering", FALSE)>> ELSE <<>>
             last == <<Tell("powered", ~kernel.on)>>
  <2> SUFFICES ASSUME Switched PROVE Rest'
    OBVIOUS
  <2>1. more \in Seq(Event) /\ last \in Seq(Event)
    <3>1. <<Tell("discovering", FALSE)>> \in Seq(Event)
      BY <1>3, ToldTypes
    <3>2. <<>> \in Seq(Event)
      OBVIOUS
    <3>3. (~kernel.on) \in BOOLEAN
      OBVIOUS
    <3>4. last \in Seq(Event)
      BY <1>3, <3>3, ToldTypes
    <3>5. more \in {<<Tell("discovering", FALSE)>>, <<>>}
      OBVIOUS
    <3>6. QED
      BY <3>1, <3>2, <3>4, <3>5
  <2>2. events' = events \o more \o last
    BY DEF Switched
  <2>3. kernel' \in [on: BOOLEAN, finds: BOOLEAN] /\ count' \in 0..MaxCount
    BY <1>2, <1>4, DiscoveryAssumption DEF Switched, Rest
  <2> HIDE DEF more, last
  <2>4. events' \in Seq(Event)
    BY <1>2, <2>1, <2>2 DEF Rest
  <2>5. QED
    BY <2>3, <2>4 DEF Rest
<1>9. QED
  BY <1>1, <1>2, <1>5, <1>7, <1>8, StepKeeps DEF Kernel

-----------------------------------------------------------------------------
LEMMA InitHolds == Init => IInv
<1> SUFFICES ASSUME Init PROVE IInv
  OBVIOUS
<1>1. <<>> \in Seq(Request) /\ <<>> \in Seq(Event)
  OBVIOUS
<1>2. d \in Adapter
  BY <1>1 DEF Init, Adapter
<1>3. TypeOK
  BY <1>1, <1>2, DiscoveryAssumption DEF Init, TypeOK
<1>4. WaitInv(d) /\ MergedInv(d)
  BY DEF Init, WaitInv, MergedInv
<1>5. QED
  BY <1>3, <1>4 DEF IInv

LEMMA NextKeeps == IInv /\ [Next]_vars => IInv'
<1> SUFFICES ASSUME IInv, [Next]_vars PROVE IInv'
  OBVIOUS
<1>1. ASSUME Clients PROVE IInv'
  BY <1>1, StartKeeps, StopKeeps, FilterKeeps, DisconnectKeeps DEF Clients
<1>2. ASSUME Bluetoothd PROVE IInv'
  BY <1>2, TimeoutKeeps, ReplyKeeps, DiscoveringKeeps, PoweredKeeps DEF Bluetoothd
<1>3. ASSUME UNCHANGED vars PROVE IInv'
  <2>1. d' = d /\ mishaps' = mishaps /\ kernel' = kernel /\ events' = events /\ count' = count
    BY <1>3 DEF vars
  <2>2. QED
    BY <2>1 DEF IInv, TypeOK
<1>4. QED
  BY <1>1, <1>2, <1>3, PairKeeps, KernelKeeps DEF Next

LEMMA Invariance == Spec => []IInv
BY InitHolds, NextKeeps, PTL DEF Spec

-----------------------------------------------------------------------------
(* Whom a reply answers.                                                   *)

(* A client waits, and is still connected. *)
Waited(s) == s.client # NONE /\ s.client \in s.watched

Asked(q, i) == i \in 1..Len(q) /\ q[i].then \in {"start", "stop"}

First(q, i) == Asked(q, i) /\ \A j \in 1..(i - 1) : ~Asked(q, j)

(* The stop that a client waits for has been sent. *)
StopSent(s) ==
    Waited(s) /\ s.msg[s.client] = "stop"
        => \E i \in 1..Len(s.requests) : s.requests[i].then = "stop"

(* The next reply that answers a call is to a command of that kind. *)
NextInKind(s) ==
    Waited(s) => \A i \in 1..Len(s.requests) :
                    First(s.requests, i) => s.requests[i].then = s.msg[s.client]

KInv == StopSent(d) /\ ("crossed" \notin mishaps => NextInKind(d))

(* No client waits that did not: the part of a handler that makes one wait  *)
(* is Waits.                                                                *)
NoneNew(s, t) ==
    Waited(t) => Waited(s) /\ t.client = s.client /\ t.msg[t.client] = s.msg[s.client]

LEMMA NoneNewTrans ==
    ASSUME NEW s, NEW t, NEW u, NoneNew(s, t), NoneNew(t, u)
    PROVE  NoneNew(s, u)
BY DEF NoneNew

LEMMA SameNoneNew ==
    ASSUME NEW s, NEW t, SameClients(s, t)
    PROVE  NoneNew(s, t)
BY DEF NoneNew, SameClients, Waited

LEMMA QueueKept ==
    ASSUME NEW s, NEW t, NoneNew(s, t), t.requests = s.requests
    PROVE  (StopSent(s) => StopSent(t)) /\ (NextInKind(s) => NextInKind(t))
BY DEF NoneNew, StopSent, NextInKind

(* A command is added: one that answers nobody; or a start, which a client  *)
(* may wait for whose stop is not on its way.                               *)
LEMMA QueueGrows ==
    ASSUME NEW s, NEW t, NoneNew(s, t), s.requests \in Seq(Request), NEW r \in Request,
           t.requests = Append(s.requests, r), r.then # "stop",
           r.then = "start" => StopSent(s) /\ (Waited(s) => s.msg[s.client] \in {"start", "stop"})
    PROVE  (StopSent(s) => StopSent(t)) /\ (NextInKind(s) => NextInKind(t))
<1> DEFINE q == s.requests
           p == t.requests
<1>1. /\ Len(p) = Len(q) + 1 /\ Len(q) \in Nat /\ p[Len(q) + 1] = r
      /\ \A i \in 1..Len(q) : p[i] = q[i]
  OBVIOUS
<1> HIDE DEF p, q
<1>2. StopSent(s) => StopSent(t)
  <2> SUFFICES ASSUME StopSent(s), Waited(t), t.msg[t.client] = "stop"
               PROVE  \E i \in 1..Len(p) : p[i].then = "stop"
    BY DEF StopSent, p
  <2>1. PICK i \in 1..Len(q) : q[i].then = "stop"
    BY DEF StopSent, NoneNew, q
  <2>2. i \in 1..Len(p) /\ p[i].then = "stop"
    BY <1>1, <2>1
  <2>3. QED
    BY <2>2
<1>3. NextInKind(s) => NextInKind(t)
  <2> SUFFICES ASSUME NextInKind(s), Waited(t), NEW i \in 1..Len(p), First(p, i)
               PROVE  p[i].then = t.msg[t.client]
    BY DEF NextInKind, p
  <2>1. Waited(s) /\ t.msg[t.client] = s.msg[s.client]
    BY DEF NoneNew
  <2>2. CASE i <= Len(q)
    <3>1. i \in 1..Len(q) /\ p[i] = q[i] /\ \A j \in 1..(i - 1) : Asked(p, j) <=> Asked(q, j)
      BY <1>1, <2>2 DEF Asked
    <3>2. First(q, i)
      BY <3>1 DEF First, Asked
    <3>3. QED
      BY <2>1, <3>1, <3>2 DEF NextInKind, q
  <2>3. CASE i = Len(q) + 1
    <3>1. \A j \in 1..Len(q) : ~Asked(q, j)
      BY <1>1, <2>3 DEF First, Asked
    <3>2. ~\E j \in 1..Len(q) : q[j].then = "stop"
      BY <3>1 DEF Asked
    <3>3. r.then = "start"
      BY <1>1, <2>3 DEF First, Asked
    <3>4. s.msg[s.client] # "stop"
      BY <2>1, <3>2, <3>3 DEF StopSent, q
    <3>5. QED
      BY <1>1, <2>1, <2>3, <3>3, <3>4
  <2>4. QED
    BY <1>1, <2>2, <2>3
<1>4. QED
  BY <1>2, <1>3

(* The reply to a command that answers nobody has come. *)
LEMMA QueueShrinks ==
    ASSUME NEW s, NEW t, NoneNew(s, t), s.requests \in Seq(Request), s.requests # <<>>,
           t.requests = Tail(s.requests), Head(s.requests).then \notin {"start", "stop"}
    PROVE  (StopSent(s) => StopSent(t)) /\ (NextInKind(s) => NextInKind(t))
<1> DEFINE q == s.requests
           p == t.requests
<1>1. /\ Len(p) = Len(q) - 1 /\ Len(q) \in Nat \ {0}
      /\ \A i \in 1..Len(p) : p[i] = q[i + 1]
      /\ q[1].then \notin {"start", "stop"}
  OBVIOUS
<1> HIDE DEF p, q
<1>2. StopSent(s) => StopSent(t)
  <2> SUFFICES ASSUME StopSent(s), Waited(t), t.msg[t.client] = "stop"
               PROVE  \E i \in 1..Len(p) : p[i].then = "stop"
    BY DEF StopSent, p
  <2>1. PICK i \in 1..Len(q) : q[i].then = "stop"
    BY DEF StopSent, NoneNew, q
  <2>2. i - 1 \in 1..Len(p) /\ p[i - 1].then = "stop"
    BY <1>1, <2>1
  <2>3. QED
    BY <2>2
<1>3. NextInKind(s) => NextInKind(t)
  <2> SUFFICES ASSUME NextInKind(s), Waited(t), NEW i \in 1..Len(p), First(p, i)
               PROVE  p[i].then = t.msg[t.client]
    BY DEF NextInKind, p
  <2>1. i + 1 \in 1..Len(q) /\ p[i] = q[i + 1]
    BY <1>1
  <2>2. \A j \in 1..i : ~Asked(q, j)
    <3> SUFFICES ASSUME NEW j \in 1..i, Asked(q, j) PROVE FALSE
      OBVIOUS
    <3>1. j # 1
      BY <1>1 DEF Asked
    <3>2. j - 1 \in 1..(i - 1) /\ j - 1 \in 1..Len(p)
      BY <1>1, <3>1
    <3>3. p[j - 1] = q[j]
      BY <1>1, <3>2
    <3>4. Asked(p, j - 1)
      BY <3>2, <3>3 DEF Asked
    <3>5. QED
      BY <3>2, <3>4 DEF First
  <2>3. First(q, i + 1)
    <3>1. Asked(q, i + 1)
      BY <2>1 DEF First, Asked
    <3>2. (i + 1) - 1 = i
      BY <2>1
    <3>3. QED
      BY <2>2, <3>1, <3>2 DEF First
  <2>4. QED
    BY <2>1, <2>3 DEF NextInKind, NoneNew, q
<1>4. QED
  BY <1>2, <1>3

LEMMA UpdateQueue ==
    ASSUME NEW s \in Adapter
    PROVE  UpdateFilter(s).requests = s.requests
BY DEF UpdateFilter, TriggerStart, Adapter

LEMMA FreeQueue ==
    ASSUME NEW s \in Adapter, NEW gone \in SUBSET Client
    PROVE  Free(s, gone).requests = s.requests /\ NoneNew(s, Free(s, gone))
<1> DEFINE w == IF s.client \in gone /\ s.msg[s.client] # NONE THEN NONE ELSE s.client
           f == [c \in Client |-> IF c \in gone THEN NONE ELSE s.filter[c]]
           m == [c \in Client |-> IF c \in gone THEN NONE ELSE s.msg[c]]
           t == [s EXCEPT !.client = w, !.filter = f, !.msg = m]
<1>1. Free(s, gone) = t
  BY DEF Free
<1>2. w # NONE /\ w \in Client => w = s.client /\ m[w] = s.msg[w]
  OBVIOUS
<1> HIDE DEF w, f, m
<1>3. t.requests = s.requests /\ t.client = w /\ t.msg = m /\ t.watched = s.watched
  BY DEF Adapter
<1>4. s.watched \subseteq Client
  BY DEF Adapter
<1> HIDE DEF t
<1>5. NoneNew(s, t)
  BY <1>2, <1>3, <1>4 DEF NoneNew, Waited
<1>6. QED
  BY <1>1, <1>3, <1>5

LEMMA RemoveQueue ==
    ASSUME NEW s \in Adapter, NEW c \in Client
    PROVE  /\ Remove(s, c).requests = s.requests
           /\ NoneNew(s, Remove(s, c))
           /\ Remove(s, c).client \in {s.client, NONE}
           /\ \A b \in Client \ {c} : Remove(s, c).msg[b] = s.msg[b]
<1> DEFINE keep == c \in s.watched /\ s.filter[c] # NONE
           w == IF s.client = c THEN NONE ELSE s.client
           p == IF keep THEN s.preset \cup {c} ELSE s.preset \ {c}
           t == [s EXCEPT !.list = s.list \ {c}, !.preset = p, !.client = w]
           u == IF keep THEN t ELSE Free(t, {c})
<1>1. w \in Client \cup {NONE} /\ w \in {s.client, NONE} /\ p \in SUBSET Client
      /\ s.list \ {c} \in SUBSET Client
  BY DEF Adapter
<1>2. Remove(s, c) \in {u, Cleanup(u)}
  BY DEF Remove
<1> HIDE DEF w, p, keep
<1>3. /\ t \in Adapter /\ t.watched = s.watched /\ t.client = w /\ t.msg = s.msg
      /\ t.requests = s.requests
  BY <1>1 DEF Adapter
<1> HIDE DEF t
<1>4. NoneNew(s, t)
  BY <1>1, <1>3 DEF NoneNew, Waited
<1>5. /\ Free(t, {c}) \in Adapter /\ Free(t, {c}).client \in {t.client, NONE}
      /\ Free(t, {c}).requests = t.requests
      /\ \A b \in Client \ {c} : Free(t, {c}).msg[b] = t.msg[b]
      /\ NoneNew(t, Free(t, {c}))
  <2>1. {c} \in SUBSET Client
    OBVIOUS
  <2>2. QED
    BY <1>3, <2>1, FreeTypes, FreeQueue
<1>6. NoneNew(s, Free(t, {c}))
  BY <1>4, <1>5, NoneNewTrans
<1>7. /\ u \in Adapter /\ u.requests = s.requests /\ u.client \in {s.client, NONE}
      /\ NoneNew(s, u) /\ \A b \in Client \ {c} : u.msg[b] = s.msg[b]
  BY <1>1, <1>3, <1>4, <1>5, <1>6
<1> HIDE DEF u
<1>8. SameClients(u, Cleanup(u)) /\ Cleanup(u).requests = u.requests
  BY <1>7 DEF Cleanup, SameClients, Adapter
<1>9. NoneNew(s, Cleanup(u))
  BY <1>7, <1>8, SameNoneNew, NoneNewTrans
<1>10. QED
  BY <1>2, <1>7, <1>8, <1>9 DEF SameClients

LEMMA StopQueue ==
    ASSUME NEW s \in Adapter, NEW c \in Client
    PROVE  LET t == DiscoveryStop(s, c)
               r == [op |-> "stop", then |-> "stop", typed |-> s.typed]
           IN  /\ ~InProgress(s) => NoneNew(s, t) /\ t.requests = s.requests
               /\ InProgress(s) => /\ t.client = c
                                   /\ t.watched = s.watched /\ t.msg = s.msg
                                   /\ t.requests = Append(s.requests, r)
<1> DEFINE r == Remove(s, c)
           v == [r EXCEPT !.discovering = FALSE]
<1>1. CASE InProgress(s)
  BY <1>1 DEF DiscoveryStop, InProgress, SendStop, Adapter
<1>2. CASE ~InProgress(s)
  <2>1. DiscoveryStop(s, c) \in {UpdateFilter(r), v}
    BY <1>2 DEF DiscoveryStop, InProgress
  <2>2. r \in Adapter /\ NoneNew(s, r) /\ r.requests = s.requests
    BY RemoveTypes, RemoveQueue
  <2> HIDE DEF r
  <2>3. SameClients(r, UpdateFilter(r)) /\ UpdateFilter(r).requests = r.requests
    BY <2>2, UpdateTypes, UpdateQueue
  <2>4. SameClients(r, v) /\ v.requests = r.requests
    BY <2>2 DEF Adapter, SameClients
  <2> HIDE DEF v
  <2>5. \A t \in {UpdateFilter(r), v} : NoneNew(s, t) /\ t.requests = s.requests
    BY <2>2, <2>3, <2>4, SameNoneNew, NoneNewTrans
  <2>6. QED
    BY <1>2, <2>1, <2>5
<1>3. QED
  BY <1>1, <1>2

(* After a reply that removes the client that waited, none waits. *)
LEMMA RemoveWaitingQueue ==
    ASSUME NEW s \in Adapter
    PROVE  /\ RemoveWaiting(s) \in Adapter
           /\ RemoveWaiting(s).client = NONE
           /\ \A b \in Client : b # s.client => RemoveWaiting(s).msg[b] = s.msg[b]
<1>1. CASE s.client = NONE
  BY <1>1 DEF RemoveWaiting
<1>2. CASE s.client # NONE
  <2> DEFINE t == Complete(s)
  <2>1. t \in Adapter /\ t.client = NONE
    BY CompleteTypes
  <2>2. \A b \in Client : b # s.client => t.msg[b] = s.msg[b]
    BY <1>2 DEF Complete, Adapter
  <2>3. s.client \in Client
    BY <1>2 DEF Adapter
  <2>4. RemoveWaiting(s) = Remove(t, s.client)
    BY <1>2 DEF RemoveWaiting
  <2> HIDE DEF t
  <2>5. /\ Remove(t, s.client) \in Adapter
        /\ Remove(t, s.client).client \in {t.client, NONE}
        /\ \A b \in Client \ {s.client} : Remove(t, s.client).msg[b] = t.msg[b]
    BY <2>1, <2>3, RemoveTypes, RemoveQueue
  <2>6. QED
    BY <2>1, <2>2, <2>4, <2>5
<1>3. QED
  BY <1>1, <1>2

(* A reply to a start or a stop leaves no client waiting, and changes no    *)
(* other call than of the one that waited.                                  *)
Answered(s, t) ==
    ~Waited(t) /\ \A b \in Client : b # s.client => t.msg[b] = s.msg[b]

LEMMA StartAnswers ==
    ASSUME NEW s \in Adapter, WaitInv(s), NEW success \in BOOLEAN
    PROVE  Answered(s, StartComplete(s, success))
<1> DEFINE u == [s EXCEPT !.typed = TRUE, !.enable = TRUE, !.discovering = TRUE,
                          !.filtered = s.current # NONE]
<1>1. CASE s.list = {}
  <2>1. ~Waited(s)
    BY <1>1 DEF WaitInv, Waited
  <2>2. StartComplete(s, success) \in {s, SendStop(s, NONE, TRUE)}
    BY <1>1 DEF StartComplete
  <2>3. SameClients(s, SendStop(s, NONE, TRUE))
    BY SendTypes
  <2>4. QED
    BY <2>1, <2>2, <2>3 DEF Answered, SameClients, Waited
<1>2. CASE s.list # {} /\ success
  <2>1. StartComplete(s, success) = Complete(u)
    BY <1>2 DEF StartComplete
  <2>2. u \in Adapter /\ u.client = s.client /\ u.msg = s.msg
    BY DEF Adapter
  <2> HIDE DEF u
  <2>3. Complete(u).client = NONE
    BY <2>2, CompleteTypes
  <2>4. \A b \in Client : b # u.client => Complete(u).msg[b] = u.msg[b]
    BY <2>2 DEF Complete, Adapter
  <2>5. QED
    BY <2>1, <2>2, <2>3, <2>4 DEF Answered, Waited
<1>3. CASE s.list # {} /\ ~success /\ s.client # NONE
  <2>1. StartComplete(s, success) = RemoveWaiting(s)
    BY <1>3 DEF StartComplete
  <2>2. QED
    BY <2>1, RemoveWaitingQueue DEF Answered, Waited
<1>4. CASE s.list # {} /\ ~success /\ s.client = NONE
  <2>1. StartComplete(s, success) = TriggerStart(s)
    BY <1>4 DEF StartComplete
  <2>2. SameClients(s, TriggerStart(s))
    BY TriggerTypes
  <2>3. QED
    BY <1>4, <2>1, <2>2 DEF Answered, Waited, SameClients
<1>5. QED
  BY <1>1, <1>2, <1>3, <1>4

LEMMA StopAnswers ==
    ASSUME NEW s \in Adapter, NEW success \in BOOLEAN
    PROVE  Answered(s, StopComplete(s, success))
<1> DEFINE t == RemoveWaiting(s)
           u == [t EXCEPT !.typed = FALSE, !.enable = FALSE, !.filtered = FALSE,
                          !.discovering = FALSE]
<1>1. StopComplete(s, success) \in {t, u}
  BY DEF StopComplete
<1>2. t \in Adapter /\ t.client = NONE /\ \A b \in Client : b # s.client => t.msg[b] = s.msg[b]
  BY RemoveWaitingQueue
<1> HIDE DEF t
<1>3. u.client = NONE /\ u.msg = t.msg
  BY <1>2 DEF Adapter
<1>4. QED
  BY <1>1, <1>2, <1>3 DEF Answered, Waited

LEMMA OtherReplies ==
    ASSUME NEW s \in Adapter, NEW success \in BOOLEAN, NEW then \in {"suspend", "pair", NONE}
    PROVE  /\ SameClients(s, Callback(s, then, success))
           /\ Callback(s, then, success).requests = s.requests
<1> DEFINE u == [s EXCEPT !.typed = FALSE, !.enable = FALSE]
           v == [s EXCEPT !.suspended = FALSE]
           w == [v EXCEPT !.timer = v.powered]
<1>1. Callback(s, then, success) \in {s, u, v, w}
  BY DiscoveryAssumption
     DEF Callback, SuspendComplete, ResumeDiscovery, TriggerStart
<1>2. v \in Adapter
  BY DEF Adapter
<1>3. \A t \in {s, u, v, w} : SameClients(s, t) /\ t.requests = s.requests
  BY DEF Adapter, SameClients
<1>4. QED
  BY <1>1, <1>3

(* A call that takes the field client while a reply is due is a mishap. *)
LEMMA CrossedNoted ==
    ASSUME TypeOK, Noted, "crossed" \notin mishaps', d'.client \notin {d.client, NONE}
    PROVE  \A i \in 1..Len(d.requests) : ~Asked(d.requests, i)
BY DEF Noted, Mishappens, Mishap, Asked

LEMMA KindKept ==
    ASSUME IInv, KInv, Noted,
           StopSent(d) => StopSent(d'), NextInKind(d) => NextInKind(d')
    PROVE  KInv'
<1>1. "crossed" \notin mishaps' => "crossed" \notin mishaps
  BY DEF Noted
<1>2. QED
  BY <1>1 DEF KInv

LEMMA KindQuiet ==
    ASSUME IInv, KInv, Noted, NoneNew(d, d'), d'.requests = d.requests
    PROVE  KInv'
BY KindKept, QueueKept

LEMMA KindGone ==
    ASSUME ~Waited(d')
    PROVE  KInv'
BY DEF KInv, StopSent, NextInKind, Waited

LEMMA StartKind ==
    ASSUME IInv, KInv, NEW c \in Client, StartDiscovery(c)
    PROVE  KInv'
<1> DEFINE s == [d EXCEPT !.preset = d.preset \ {c}, !.list = d.list \cup {c}]
           u == UpdateFilter(s)
           m == [u.msg EXCEPT ![c] = "start"]
           w == [u EXCEPT !.msg = m, !.client = c]
<1>1. /\ Noted /\ c \notin d.list /\ c \in d.watched
      /\ d' = IF Restarts(s) THEN Waits(u, c, "start") ELSE s
  BY DEF StartDiscovery
<1>2. d \in Adapter /\ WaitInv(d) /\ TypeOK
  BY DEF IInv, TypeOK
<1>3. /\ s \in Adapter /\ s.msg = d.msg /\ s.client = d.client /\ s.watched = d.watched
      /\ s.requests = d.requests
  BY <1>2 DEF Adapter
<1> HIDE DEF s
<1>4. CASE ~Restarts(s)
  <2>1. NoneNew(d, s)
    BY <1>3 DEF NoneNew, Waited
  <2>2. QED
    BY <1>1, <1>3, <1>4, <2>1, KindQuiet
<1>5. CASE Restarts(s)
  <2>1. u \in Adapter /\ u.requests = d.requests
    BY <1>3, UpdateTypes, UpdateQueue
  <2> HIDE DEF u
  <2>2. m[c] = "start"
    BY <2>1 DEF Adapter
  <2>3. d' = w
    BY <1>1, <1>5 DEF Waits
  <2> HIDE DEF m
  <2>4. d'.client = c /\ d'.msg[c] = "start" /\ d'.requests = d.requests
    BY <2>1, <2>2, <2>3 DEF Adapter
  <2>5. StopSent(d')
    BY <2>4 DEF StopSent
  <2>6. c # NONE /\ d.client # c
    BY <1>1, <1>2, DiscoveryAssumption DEF WaitInv
  <2>7. "crossed" \notin mishaps' => NextInKind(d')
    BY <1>1, <1>2, <2>4, <2>6, CrossedNoted DEF NextInKind, First
  <2>8. QED
    BY <2>5, <2>7 DEF KInv
<1>6. QED
  BY <1>4, <1>5

LEMMA StopKind ==
    ASSUME IInv, KInv, NEW c \in Client, StopDiscovery(c)
    PROVE  KInv'
<1> DEFINE s == DiscoveryStop(d, c)
           r == [op |-> "stop", then |-> "stop", typed |-> d.typed]
           q == d.requests
           m == [s.msg EXCEPT ![c] = "stop"]
           w == [s EXCEPT !.msg = m, !.client = c]
<1>1. /\ Noted /\ c \in d.list /\ c \in d.watched /\ d.msg[c] = NONE
      /\ d' = IF InProgress(d) THEN Waits(s, c, "stop") ELSE s
  BY DEF StopDiscovery
<1>2. d \in Adapter /\ WaitInv(d) /\ TypeOK
  BY DEF IInv, TypeOK
<1>3. /\ s \in Adapter
      /\ ~InProgress(d) => NoneNew(d, s) /\ s.requests = d.requests
      /\ InProgress(d) => s.requests = Append(q, r)
  BY <1>2, StopTypes, StopQueue
<1> HIDE DEF s
<1>4. CASE ~InProgress(d)
  BY <1>1, <1>3, <1>4, KindQuiet
<1>5. CASE InProgress(d)
  <2>1. m[c] = "stop"
    BY <1>3 DEF Adapter
  <2>2. d' = w
    BY <1>1, <1>5 DEF Waits
  <2>3. r \in Request /\ r.then = "stop" /\ q \in Seq(Request)
    BY <1>2 DEF Adapter, Request
  <2> HIDE DEF m, r
  <2>4. d'.client = c /\ d'.msg[c] = "stop" /\ d'.requests = Append(q, r)
    BY <1>3, <1>5, <2>1, <2>2 DEF Adapter
  <2> HIDE DEF q
  <2>5. /\ Len(d'.requests) = Len(q) + 1 /\ Len(q) \in Nat
        /\ d'.requests[Len(q) + 1] = r /\ \A i \in 1..Len(q) : d'.requests[i] = q[i]
    BY <2>3, <2>4
  <2>6. StopSent(d')
    <3>1. Len(q) + 1 \in 1..Len(d'.requests) /\ d'.requests[Len(q) + 1].then = "stop"
      BY <2>3, <2>5
    <3>2. QED
      BY <3>1 DEF StopSent
  <2>7. c # NONE /\ d.client # c
    BY <1>1, <1>2, DiscoveryAssumption DEF WaitInv
  <2>8. ASSUME "crossed" \notin mishaps' PROVE NextInKind(d')
    <3>1. \A i \in 1..Len(q) : ~Asked(q, i)
      BY <1>1, <1>2, <2>4, <2>7, <2>8, CrossedNoted DEF q
    <3> SUFFICES ASSUME NEW i \in 1..Len(d'.requests), First(d'.requests, i)
                 PROVE  d'.requests[i].then = "stop"
      BY <2>4 DEF NextInKind
    <3>2. i \notin 1..Len(q)
      BY <2>5, <3>1 DEF First, Asked
    <3>3. i = Len(q) + 1
      BY <2>5, <3>2
    <3>4. QED
      BY <2>3, <2>5, <3>3
  <2>9. QED
    BY <2>6, <2>8 DEF KInv
<1>6. QED
  BY <1>4, <1>5

LEMMA FilterKind ==
    ASSUME IInv, KInv, NEW c \in Client, NEW f \in Filter \cup {NONE}, SetDiscoveryFilter(c, f)
    PROVE  KInv'
<1> DEFINE g == [d.filter EXCEPT ![c] = f]
           s == [d EXCEPT !.filter = g]
           t == [s EXCEPT !.preset = s.preset \cup {c}]
           r == Free(d, {c})
           u == [r EXCEPT !.preset = r.preset \ {c}]
<1>1. Noted /\ d' \in {UpdateFilter(s), t, u}
  BY DEF SetDiscoveryFilter
<1>2. d \in Adapter
  BY DEF IInv, TypeOK
<1>3. g \in [Client -> Filter \cup {NONE}]
  BY <1>2 DEF Adapter
<1> HIDE DEF g
<1>4. /\ s \in Adapter /\ s.watched = d.watched /\ s.msg = d.msg /\ s.client = d.client
      /\ s.requests = d.requests
  BY <1>2, <1>3 DEF Adapter
<1> HIDE DEF s
<1>5. SameClients(s, UpdateFilter(s)) /\ UpdateFilter(s).requests = d.requests
  BY <1>4, UpdateTypes, UpdateQueue
<1>6. t.watched = d.watched /\ t.msg = d.msg /\ t.client = d.client /\ t.requests = d.requests
  BY <1>4 DEF Adapter
<1>7. r \in Adapter /\ NoneNew(d, r) /\ r.requests = d.requests
  <2>1. {c} \in SUBSET Client
    OBVIOUS
  <2>2. QED
    BY <1>2, <2>1, FreeTypes, FreeQueue
<1> HIDE DEF r
<1>8. u.watched = r.watched /\ u.msg = r.msg /\ u.client = r.client /\ u.requests = r.requests
  BY <1>7 DEF Adapter
<1> HIDE DEF t, u
<1>9. NoneNew(d, UpdateFilter(s)) /\ NoneNew(d, t) /\ NoneNew(d, u)
  BY <1>4, <1>5, <1>6, <1>7, <1>8 DEF NoneNew, Waited, SameClients
<1>10. NoneNew(d, d') /\ d'.requests = d.requests
  BY <1>1, <1>5, <1>6, <1>7, <1>8, <1>9
<1>11. QED
  BY <1>1, <1>10, KindQuiet

LEMMA DisconnectKind ==
    ASSUME IInv, KInv, NEW c \in Client, Disconnect(c)
    PROVE  KInv'
<1> DEFINE s == [d EXCEPT !.watched = d.watched \ {c}]
           u == DiscoveryStop(s, c)
<1>1. Noted /\ d' \in {s, u}
  BY DEF Disconnect
<1>2. d \in Adapter
  BY DEF IInv, TypeOK
<1>3. /\ s \in Adapter /\ s.watched = d.watched \ {c} /\ s.msg = d.msg
      /\ s.client = d.client /\ s.requests = d.requests
  BY <1>2 DEF Adapter
<1> HIDE DEF s
<1>4. NoneNew(d, s)
  BY <1>3 DEF NoneNew, Waited
<1>5. /\ ~InProgress(s) => NoneNew(s, u) /\ u.requests = s.requests
      /\ InProgress(s) => u.client = c /\ u.watched = s.watched
  BY <1>3, StopQueue
<1> HIDE DEF u
<1>6. CASE d' = u /\ InProgress(s)
  BY <1>3, <1>5, <1>6, KindGone DEF Waited
<1>7. CASE d' = s \/ ~InProgress(s)
  <2>1. NoneNew(d, d') /\ d'.requests = d.requests
    BY <1>1, <1>3, <1>4, <1>5, <1>7, NoneNewTrans
  <2>2. QED
    BY <1>1, <2>1, KindQuiet
<1>8. QED
  BY <1>1, <1>6, <1>7

LEMMA PairKind ==
    ASSUME IInv, KInv, Pair
    PROVE  KInv'
<1> DEFINE s == [d EXCEPT !.suspended = TRUE, !.timer = d.timer /\ d.list = {}]
           q == [op |-> "stop", then |-> "suspend", typed |-> s.typed]
           r == [op |-> "pair", then |-> "pair", typed |-> TRUE]
           t == IF d.list # {} /\ d.enable THEN SendStop(s, "suspend", s.typed) ELSE s
<1>1. d \in Adapter /\ Noted /\ d' = Send(t, "pair")
  BY DEF IInv, TypeOK, Pair
<1>2. s \in Adapter /\ s.typed \in BOOLEAN /\ SameClients(d, s) /\ s.requests = d.requests
  BY <1>1 DEF Adapter, SameClients
<1>3. q \in Request /\ r \in Request /\ q.then = "suspend" /\ r.then = "pair"
  BY <1>2 DEF Request
<1> HIDE DEF s
<1>4. /\ SendStop(s, "suspend", s.typed) \in Adapter
      /\ SameClients(s, SendStop(s, "suspend", s.typed))
      /\ SendStop(s, "suspend", s.typed).requests = Append(s.requests, q)
  BY <1>2, SendTypes DEF SendStop, Adapter
<1>5. t \in Adapter /\ SameClients(s, t) /\ t.requests \in {s.requests, Append(s.requests, q)}
  BY <1>2, <1>4 DEF SameClients
<1> HIDE DEF t, q
<1>6. SameClients(t, d') /\ d'.requests = Append(t.requests, r)
  BY <1>1, <1>5, SendTypes DEF Send, Adapter
<1> HIDE DEF r
<1>7. NoneNew(d, t) /\ NoneNew(t, d')
  BY <1>2, <1>5, <1>6, SameNoneNew DEF SameClients
<1>8. d.requests \in Seq(Request) /\ t.requests \in Seq(Request)
  BY <1>1, <1>5 DEF Adapter
<1>9. (StopSent(d) => StopSent(t)) /\ (NextInKind(d) => NextInKind(t))
  <2>1. CASE t.requests = s.requests
    BY <1>2, <1>7, <2>1, QueueKept
  <2>2. CASE t.requests = Append(s.requests, q)
    BY <1>2, <1>3, <1>7, <1>8, <2>2, QueueGrows
  <2>3. QED
    BY <1>5, <2>1, <2>2
<1>10. (StopSent(t) => StopSent(d')) /\ (NextInKind(t) => NextInKind(d'))
  BY <1>3, <1>6, <1>7, <1>8, QueueGrows
<1>11. QED
  BY <1>1, <1>9, <1>10, KindKept

LEMMA TimeoutKind ==
    ASSUME IInv, KInv, StartDiscoveryTimeout
    PROVE  KInv'
<1> DEFINE s == [d EXCEPT !.timer = FALSE]
           t == [s EXCEPT !.discovering = TRUE]
           q == [op |-> "stop", then |-> NONE, typed |-> s.typed]
           r == [op |-> "start", then |-> "start", typed |-> TRUE]
<1>1. d \in Adapter /\ WaitInv(d) /\ Noted
  BY DEF IInv, TypeOK, StartDiscoveryTimeout
<1>2. d' \in {t, Send(s, "start"), SendStop(s, NONE, s.typed)}
  BY DEF StartDiscoveryTimeout
<1>3. s \in Adapter /\ s.typed \in BOOLEAN /\ SameClients(d, s) /\ s.requests = d.requests
  BY <1>1 DEF Adapter, SameClients
<1>4. q \in Request /\ r \in Request /\ q.then = NONE /\ r.then = "start"
  BY <1>3 DEF Request
<1> HIDE DEF s
<1>5. SameClients(s, t) /\ t.requests = s.requests
  BY <1>3 DEF Adapter, SameClients
<1>6. /\ SameClients(s, Send(s, "start")) /\ Send(s, "start").requests = Append(s.requests, r)
      /\ SameClients(s, SendStop(s, NONE, s.typed))
      /\ SendStop(s, NONE, s.typed).requests = Append(s.requests, q)
  BY <1>3 DEF Adapter, SameClients, Send, SendStop
<1> HIDE DEF t, q, r
<1>7. NoneNew(d, d')
  BY <1>2, <1>3, <1>5, <1>6, SameNoneNew DEF SameClients
<1>8. d.requests \in Seq(Request)
  BY <1>1 DEF Adapter
<1>9. StopSent(d) /\ (Waited(d) => d.msg[d.client] \in {"start", "stop"})
  BY <1>1 DEF KInv, WaitInv, Waited, Adapter
<1>10. CASE d' = t
  BY <1>1, <1>3, <1>5, <1>7, <1>10, KindQuiet
<1>11. CASE d' = Send(s, "start")
  <2>1. d'.requests = Append(d.requests, r)
    BY <1>3, <1>6, <1>11
  <2>2. QED
    BY <1>1, <1>4, <1>7, <1>8, <1>9, <2>1, QueueGrows, KindKept
<1>12. CASE d' = SendStop(s, NONE, s.typed)
  <2>1. d'.requests = Append(d.requests, q)
    BY <1>3, <1>6, <1>12
  <2>2. q.then # "stop" /\ q.then # "start"
    BY <1>4, DiscoveryAssumption
  <2>3. QED
    BY <1>1, <1>4, <1>7, <1>8, <2>1, <2>2, QueueGrows, KindKept
<1>13. QED
  BY <1>2, <1>10, <1>11, <1>12

(* What a reply does: to a start or a stop it answers the client that waits, *)
(* and no other; any other reply answers nobody.                             *)
LEMMA ReplyAnswers ==
    ASSUME IInv, Reply
    PROVE  LET head == Head(d.requests)
           IN  /\ d.requests # <<>> /\ d.requests \in Seq(Request)
               /\ head.then \in {"start", "stop"} => Answered(d, d')
               /\ head.then \notin {"start", "stop"} =>
                     SameClients(d, d') /\ d'.requests = Tail(d.requests)
<1> DEFINE s == [d EXCEPT !.requests = Tail(d.requests)]
           then == Head(d.requests).then
           success == Head(events).value
<1>1. d \in Adapter /\ WaitInv(d) /\ Takes("reply") /\ d.requests # <<>>
      /\ d' = Callback(s, then, success)
  BY DEF IInv, TypeOK, Reply
<1>2. /\ Tail(d.requests) \in Seq(Request) /\ Head(d.requests) \in Request
      /\ d.requests \in Seq(Request)
  BY <1>1 DEF Adapter
<1>3. then \in {"start", "stop", "suspend", "pair", NONE}
  BY <1>2 DEF Request
<1>4. success \in BOOLEAN
  <2>1. events \in Seq(Event) /\ events # <<>>
    BY <1>1 DEF IInv, TypeOK, Takes
  <2>2. Head(events) \in Event
    BY <2>1
  <2>3. QED
    BY <2>2 DEF Event
<1>5. s \in Adapter /\ SameClients(d, s) /\ s.requests = Tail(d.requests)
  BY <1>1, <1>2 DEF Adapter, SameClients
<1> HIDE DEF s, success
<1>6. WaitInv(s)
  BY <1>1, <1>5, SameKeeps
<1>7. CASE then = "start"
  <2>1. d' = StartComplete(s, success)
    BY <1>1, <1>7, DiscoveryAssumption DEF Callback
  <2>2. Answered(s, d')
    BY <1>4, <1>5, <1>6, <2>1, StartAnswers
  <2>3. QED
    BY <1>1, <1>2, <1>5, <1>7, <2>2 DEF Answered, SameClients
<1>8. CASE then = "stop"
  <2>1. d' = StopComplete(s, success)
    BY <1>1, <1>8, DiscoveryAssumption DEF Callback
  <2>2. Answered(s, d')
    BY <1>4, <1>5, <2>1, StopAnswers
  <2>3. QED
    BY <1>1, <1>2, <1>5, <1>8, <2>2 DEF Answered, SameClients
<1>9. CASE then \in {"suspend", "pair", NONE}
  <2>1. SameClients(s, d') /\ d'.requests = s.requests
    BY <1>1, <1>4, <1>5, <1>9, OtherReplies
  <2>2. SameClients(d, d') /\ d'.requests = Tail(d.requests)
    BY <1>5, <2>1 DEF SameClients
  <2>3. then \notin {"start", "stop"}
    BY <1>9, DiscoveryAssumption
  <2>4. QED
    BY <1>1, <1>2, <2>2, <2>3
<1>10. QED
  BY <1>3, <1>7, <1>8, <1>9

LEMMA ReplyKind ==
    ASSUME IInv, KInv, Reply
    PROVE  KInv'
<1> DEFINE then == Head(d.requests).then
<1>1. Noted
  BY DEF Reply
<1>2. CASE then \in {"start", "stop"}
  BY <1>2, ReplyAnswers, KindGone DEF Answered
<1>3. CASE then \notin {"start", "stop"}
  <2>1. /\ SameClients(d, d') /\ d'.requests = Tail(d.requests)
        /\ d.requests # <<>> /\ d.requests \in Seq(Request)
    BY <1>3, ReplyAnswers
  <2>2. QED
    BY <1>1, <1>3, <2>1, SameNoneNew, QueueShrinks, KindKept
<1>4. QED
  BY <1>2, <1>3

LEMMA EventKind ==
    ASSUME IInv, KInv, Discovering \/ Powered
    PROVE  KInv'
<1> DEFINE on == Head(events).value
           s == [d EXCEPT !.typed = TRUE, !.enable = on]
           t == [s EXCEPT !.timer = FALSE]
           v == [s EXCEPT !.timer = s.powered]
           gone == d.list \cup d.preset
           f == Free(d, gone)
           k == Cleanup(f)
           w == [k EXCEPT !.list = {}, !.preset = {}, !.current = NONE,
                          !.filtered = FALSE, !.discovering = FALSE]
           a == [d EXCEPT !.powered = on]
           b == [w EXCEPT !.powered = on]
<1>1. d \in Adapter /\ Noted /\ (d' \in {d, s, t, v} \/ d' \in {a, b})
  BY DEF IInv, TypeOK, Discovering, Powered, TriggerStart
<1> HIDE DEF on
<1>2. \A x \in {d, s, t, v, a} : /\ x.client = d.client /\ x.msg = d.msg
                                 /\ x.watched = d.watched /\ x.requests = d.requests
  BY <1>1 DEF Adapter
<1>3. gone \in SUBSET Client
  BY <1>1 DEF Adapter
<1> HIDE DEF gone
<1>4. f \in Adapter /\ NoneNew(d, f) /\ f.requests = d.requests
  BY <1>1, <1>3, FreeTypes, FreeQueue
<1> HIDE DEF f
<1>5. b.client = f.client /\ b.msg = f.msg /\ b.watched = f.watched /\ b.requests = f.requests
  BY <1>4 DEF Adapter, Cleanup
<1> HIDE DEF s, t, v, a, b
<1>6. \A x \in {d, s, t, v, a, b} : NoneNew(d, x) /\ x.requests = d.requests
  BY <1>2, <1>4, <1>5 DEF NoneNew, Waited
<1>7. QED
  BY <1>1, <1>6, KindQuiet

LEMMA KindHolds == Init => KInv
BY DEF Init, KInv, StopSent, NextInKind, Waited

LEMMA NextKind == IInv /\ KInv /\ [Next]_vars => KInv'
<1> SUFFICES ASSUME IInv, KInv, [Next]_vars PROVE KInv'
  OBVIOUS
<1>1. ASSUME Clients PROVE KInv'
  BY <1>1, StartKind, StopKind, FilterKind, DisconnectKind DEF Clients
<1>2. ASSUME Bluetoothd PROVE KInv'
  BY <1>2, TimeoutKind, ReplyKind, EventKind DEF Bluetoothd
<1>3. ASSUME Kernel PROVE KInv'
  <2>1. d' = d /\ Noted
    BY <1>3 DEF Kernel, Serve, Ends, StartedElsewhere, Switched
  <2>2. NoneNew(d, d') /\ d'.requests = d.requests
    BY <2>1 DEF NoneNew
  <2>3. QED
    BY <2>1, <2>2, KindQuiet
<1>4. ASSUME UNCHANGED vars PROVE KInv'
  BY <1>4 DEF vars, KInv
<1>5. QED
  BY <1>1, <1>2, <1>3, <1>4, PairKind DEF Next

LEMMA KindInvariance == Spec => [](IInv /\ KInv)
<1>1. Init => IInv /\ KInv
  BY InitHolds, KindHolds
<1>2. IInv /\ KInv /\ [Next]_vars => (IInv /\ KInv)'
  BY NextKeeps, NextKind
<1>3. QED
  BY <1>1, <1>2, PTL DEF Spec

-----------------------------------------------------------------------------
(* What is wanted is done.                                                 *)

Due(q, then) == \E i \in 1..Len(q) : q[i].then = then

(* Behind a pairing no other, and no suspension for another, is queued. *)
PairLast(q) ==
    \A i, j \in 1..Len(q) :
        q[i].then = "pair" /\ q[j].then \in {"suspend", "pair"} => j <= i

(* Discovery is suspended just while a pairing is due. *)
PairInv(s) ==
    /\ s.suspended <=> Due(s.requests, "pair")
    /\ Due(s.requests, "suspend") => s.suspended
    /\ PairLast(s.requests)

(* The timer runs for a listed client only, and none is listed without power. *)
TimerInv(s) ==
    /\ s.timer => s.list # {}
    /\ s.list # {} => s.powered

(* Unless something went wrong: the property Discovering is true for a      *)
(* listed client; the one to answer is listed; and if a client is listed,   *)
(* the kernel discovers or will be told to.                                 *)
WantedInv(s) ==
    /\ s.discovering => s.list # {}
    /\ s.client # NONE /\ s.list # {} => s.client \in s.list
    /\ s.list # {} => s.timer \/ s.enable \/ s.suspended \/ Due(s.requests, "start")

RInv == PairInv(d) /\ TimerInv(d) /\ (mishaps = {} => WantedInv(d))

LEMMA DueAppend ==
    ASSUME NEW q \in Seq(Request), NEW r \in Request, NEW then
    PROVE  Due(Append(q, r), then) <=> Due(q, then) \/ r.then = then
<1> DEFINE p == Append(q, r)
<1>1. /\ Len(p) = Len(q) + 1 /\ Len(q) \in Nat /\ p[Len(q) + 1] = r
      /\ \A i \in 1..Len(q) : p[i] = q[i]
  OBVIOUS
<1> HIDE DEF p
<1>2. ASSUME Due(q, then) PROVE Due(p, then)
  <2>1. PICK i \in 1..Len(q) : q[i].then = then
    BY <1>2 DEF Due
  <2>2. i \in 1..Len(p) /\ p[i].then = then
    BY <1>1, <2>1
  <2>3. QED
    BY <2>2 DEF Due
<1>3. ASSUME r.then = then PROVE Due(p, then)
  <2>1. Len(q) + 1 \in 1..Len(p) /\ p[Len(q) + 1].then = then
    BY <1>1, <1>3
  <2>2. QED
    BY <2>1 DEF Due
<1>4. ASSUME Due(p, then), ~Due(q, then) PROVE r.then = then
  <2>1. PICK i \in 1..Len(p) : p[i].then = then
    BY <1>4 DEF Due
  <2>2. i \notin 1..Len(q)
    BY <1>1, <1>4, <2>1 DEF Due
  <2>3. i = Len(q) + 1
    BY <1>1, <2>2
  <2>4. QED
    BY <1>1, <2>1, <2>3
<1>5. QED
  BY <1>2, <1>3, <1>4 DEF p

LEMMA DueTail ==
    ASSUME NEW q \in Seq(Request), q # <<>>, NEW then
    PROVE  Due(q, then) <=> Head(q).then = then \/ Due(Tail(q), then)
<1> DEFINE p == Tail(q)
<1>1. /\ Len(p) = Len(q) - 1 /\ Len(q) \in Nat \ {0} /\ Head(q) = q[1]
      /\ \A i \in 1..Len(p) : p[i] = q[i + 1]
  OBVIOUS
<1> HIDE DEF p
<1>2. ASSUME Due(q, then), Head(q).then # then PROVE Due(p, then)
  <2>1. PICK i \in 1..Len(q) : q[i].then = then
    BY <1>2 DEF Due
  <2>2. i # 1
    BY <1>1, <1>2, <2>1
  <2>3. i - 1 \in 1..Len(p) /\ p[i - 1].then = then
    BY <1>1, <2>1, <2>2
  <2>4. QED
    BY <2>3 DEF Due
<1>3. ASSUME Head(q).then = then PROVE Due(q, then)
  BY <1>1, <1>3 DEF Due
<1>4. ASSUME Due(p, then) PROVE Due(q, then)
  <2>1. PICK i \in 1..Len(p) : p[i].then = then
    BY <1>4 DEF Due
  <2>2. i + 1 \in 1..Len(q) /\ q[i + 1].then = then
    BY <1>1, <2>1
  <2>3. QED
    BY <2>2 DEF Due
<1>5. QED
  BY <1>2, <1>3, <1>4 DEF p

LEMMA PairLastAppend ==
    ASSUME NEW q \in Seq(Request), NEW r \in Request, PairLast(q),
           r.then \notin {"suspend", "pair"} \/ ~Due(q, "pair")
    PROVE  PairLast(Append(q, r))
<1> DEFINE p == Append(q, r)
<1>1. /\ Len(p) = Len(q) + 1 /\ Len(q) \in Nat /\ p[Len(q) + 1] = r
      /\ \A i \in 1..Len(q) : p[i] = q[i]
  OBVIOUS
<1> HIDE DEF p
<1> SUFFICES ASSUME NEW i \in 1..Len(p), NEW j \in 1..Len(p), p[i].then = "pair",
                    p[j].then \in {"suspend", "pair"}, ~(j <= i)
             PROVE  FALSE
  BY DEF PairLast, p
<1>2. i \in 1..Len(q) /\ q[i].then = "pair"
  BY <1>1
<1>3. Due(q, "pair")
  BY <1>2 DEF Due
<1>4. j # Len(q) + 1
  BY <1>1, <1>3
<1>5. j \in 1..Len(q)
  BY <1>1, <1>4
<1>6. QED
  BY <1>1, <1>2, <1>5 DEF PairLast

LEMMA PairLastTail ==
    ASSUME NEW q \in Seq(Request), q # <<>>, PairLast(q)
    PROVE  /\ PairLast(Tail(q))
           /\ Head(q).then = "pair" => ~Due(Tail(q), "suspend") /\ ~Due(Tail(q), "pair")
<1> DEFINE p == Tail(q)
<1>1. /\ Len(p) = Len(q) - 1 /\ Len(q) \in Nat \ {0} /\ Head(q) = q[1]
      /\ \A i \in 1..Len(p) : p[i] = q[i + 1] /\ i + 1 \in 1..Len(q)
  OBVIOUS
<1> HIDE DEF p
<1>2. PairLast(p)
  <2> SUFFICES ASSUME NEW i \in 1..Len(p), NEW j \in 1..Len(p), p[i].then = "pair",
                      p[j].then \in {"suspend", "pair"}
               PROVE  j <= i
    BY DEF PairLast
  <2>1. j + 1 <= i + 1
    BY <1>1 DEF PairLast
  <2>2. QED
    BY <2>1
<1>3. ASSUME Head(q).then = "pair", NEW j \in 1..Len(p), p[j].then \in {"suspend", "pair"}
      PROVE  FALSE
  <2>1. j + 1 <= 1
    BY <1>1, <1>3 DEF PairLast
  <2>2. QED
    BY <1>3, <2>1
<1>4. QED
  BY <1>2, <1>3 DEF Due, p

(* What the parts about lists and filters leave alone. *)
SameState(s, t) ==
    /\ t.enable = s.enable /\ t.suspended = s.suspended /\ t.powered = s.powered
    /\ t.requests = s.requests

LEMMA UpdateState ==
    ASSUME NEW s \in Adapter
    PROVE  LET t == UpdateFilter(s)
           IN  /\ SameState(s, t) /\ t.discovering = s.discovering
               /\ t.timer = IF Restarts(s) THEN s.powered ELSE s.timer
BY DEF UpdateFilter, TriggerStart, SameState, Adapter

LEMMA FreeState ==
    ASSUME NEW s \in Adapter, NEW gone \in SUBSET Client
    PROVE  LET t == Free(s, gone)
           IN  SameState(s, t) /\ t.discovering = s.discovering /\ t.timer = s.timer
<1> DEFINE w == IF s.client \in gone /\ s.msg[s.client] # NONE THEN NONE ELSE s.client
           f == [c \in Client |-> IF c \in gone THEN NONE ELSE s.filter[c]]
           m == [c \in Client |-> IF c \in gone THEN NONE ELSE s.msg[c]]
<1>1. Free(s, gone) = [s EXCEPT !.client = w, !.filter = f, !.msg = m]
  BY DEF Free
<1> HIDE DEF w, f, m
<1>2. QED
  BY <1>1 DEF Adapter, SameState

LEMMA RemoveState ==
    ASSUME NEW s \in Adapter, NEW c \in Client
    PROVE  LET t == Remove(s, c)
           IN  /\ SameState(s, t) /\ t.discovering = s.discovering
               /\ t.timer = (s.timer /\ t.list # {})
               /\ t.client # c
<1> DEFINE keep == c \in s.watched /\ s.filter[c] # NONE
           w == IF s.client = c THEN NONE ELSE s.client
           p == IF keep THEN s.preset \cup {c} ELSE s.preset \ {c}
           t == [s EXCEPT !.list = s.list \ {c}, !.preset = p, !.client = w]
           f == Free(t, {c})
           u == IF keep THEN t ELSE f
<1>1. w \in Client \cup {NONE} /\ w # c /\ c # NONE /\ p \in SUBSET Client
      /\ s.list \ {c} \in SUBSET Client
  BY DiscoveryAssumption DEF Adapter
<1>2. Remove(s, c) = IF u.list = {} THEN Cleanup(u) ELSE u
  BY DEF Remove
<1> HIDE DEF w, p, keep
<1>3. t \in Adapter /\ SameState(s, t) /\ t.discovering = s.discovering /\ t.timer = s.timer
      /\ t.client = w
  BY <1>1 DEF Adapter, SameState
<1> HIDE DEF t
<1>4. f \in Adapter /\ SameState(t, f) /\ f.discovering = t.discovering /\ f.timer = t.timer
      /\ f.client \in {t.client, NONE}
  <2>1. {c} \in SUBSET Client
    OBVIOUS
  <2>2. QED
    BY <1>3, <2>1, FreeTypes, FreeState
<1> HIDE DEF f
<1>5. u \in Adapter /\ SameState(s, u) /\ u.discovering = s.discovering /\ u.timer = s.timer
      /\ u.client # c
  BY <1>1, <1>3, <1>4 DEF SameState
<1> HIDE DEF u
<1>6. LET k == Cleanup(u)
      IN  /\ SameState(u, k) /\ k.discovering = u.discovering /\ ~k.timer /\ k.list = u.list
          /\ k.client = u.client /\ k.timer \in BOOLEAN
  BY <1>5 DEF Cleanup, SameState, Adapter
<1>7. u.timer \in BOOLEAN
  BY <1>5 DEF Adapter
<1>8. CASE u.list = {}
  BY <1>2, <1>5, <1>6, <1>8 DEF SameState
<1>9. CASE u.list # {}
  BY <1>2, <1>5, <1>7, <1>9
<1>10. QED
  BY <1>8, <1>9

LEMMA CompleteState ==
    ASSUME NEW s \in Adapter
    PROVE  LET t == Complete(s)
           IN  /\ SameState(s, t) /\ t.discovering = s.discovering /\ t.timer = s.timer
<1>1. CASE s.client = NONE
  BY <1>1 DEF Complete, SameState
<1>2. CASE s.client # NONE
  <2>1. Complete(s) = [s EXCEPT !.client = NONE, !.msg = [s.msg EXCEPT ![s.client] = NONE]]
    BY <1>2 DEF Complete
  <2>2. QED
    BY <2>1 DEF Adapter, SameState
<1>3. QED
  BY <1>1, <1>2

LEMMA RemoveWaitingState ==
    ASSUME NEW s \in Adapter
    PROVE  LET t == RemoveWaiting(s)
           IN  /\ t \in Adapter /\ SameState(s, t) /\ t.discovering = s.discovering
               /\ t.timer = s.timer \/ t.timer = (s.timer /\ t.list # {})
               /\ t.list = s.list \ {s.client}
               /\ t.client = NONE
<1>1. CASE s.client = NONE
  <2>1. s.list \ {s.client} = s.list
    BY <1>1, DiscoveryAssumption DEF Adapter
  <2>2. QED
    BY <1>1, <2>1 DEF RemoveWaiting, SameState
<1>2. CASE s.client # NONE
  <2> DEFINE t == Complete(s)
             u == Remove(t, s.client)
  <2>1. /\ t \in Adapter /\ t.list = s.list /\ SameState(s, t)
        /\ t.discovering = s.discovering /\ t.timer = s.timer
    BY CompleteTypes, CompleteState
  <2>2. s.client \in Client
    BY <1>2 DEF Adapter
  <2>3. RemoveWaiting(s) = u
    BY <1>2 DEF RemoveWaiting
  <2> HIDE DEF t
  <2>4. /\ u \in Adapter /\ u.list = t.list \ {s.client} /\ SameState(t, u)
        /\ u.discovering = t.discovering /\ u.timer = (t.timer /\ u.list # {})
    BY <2>1, <2>2, RemoveTypes, RemoveState
  <2>5. u.client = NONE
    BY <2>3, RemoveWaitingQueue
  <2> HIDE DEF u
  <2>6. SameState(s, u)
    BY <2>1, <2>4 DEF SameState
  <2>7. QED
    BY <2>1, <2>3, <2>4, <2>5, <2>6
<1>3. QED
  BY <1>1, <1>2

(* If there are others, they remain. *)
LEMMA OthersRemain ==
    ASSUME NEW s \in Adapter, Others(s), NEW c
    PROVE  s.list \ {c} # {}
<1> SUFFICES ASSUME s.list \ {c} = {} PROVE FALSE
  OBVIOUS
<1>1. IsFiniteSet({c}) /\ Cardinality({c}) = 1
  BY FS_Singleton
<1>2. s.list \subseteq {c}
  OBVIOUS
<1>3. Cardinality(s.list) <= 1 /\ Cardinality(s.list) \in Nat
  BY <1>1, <1>2, FS_Subset, FS_CardinalityType
<1>4. QED
  BY <1>3 DEF Others

(* The invariant of the parts. *)
PartInv(s) == PairInv(s) /\ TimerInv(s)

(* discovery_stop.  A command that is sent for a client that is not listed  *)
(* while another is, is a mishap.                                           *)
LEMMA StopState ==
    ASSUME NEW s \in Adapter, NEW c \in Client, PartInv(s)
    PROVE  LET t == DiscoveryStop(s, c)
           IN  /\ PartInv(t)
               /\ (InProgress(s) /\ s.list # {} => c \in s.list) /\ WantedInv(s)
                     => WantedInv(t)
<1> DEFINE r == Remove(s, c)
           v == [r EXCEPT !.discovering = FALSE]
           t == [s EXCEPT !.client = c]
           q == [op |-> "stop", then |-> "stop", typed |-> s.typed]
<1>1. /\ r \in Adapter /\ r.list = s.list \ {c} /\ SameState(s, r)
      /\ r.discovering = s.discovering /\ r.timer = (s.timer /\ r.list # {})
      /\ r.client \in {s.client, NONE} /\ r.client # c
  BY RemoveTypes, RemoveQueue, RemoveState
<1>2. s.timer \in BOOLEAN /\ r.timer \in BOOLEAN
  BY <1>1 DEF Adapter
<1> HIDE DEF r
<1>3. PartInv(r)
  BY <1>1, <1>2 DEF PartInv, PairInv, TimerInv, SameState
<1>4. CASE Others(s)
  <2> DEFINE u == UpdateFilter(r)
  <2>1. r.list # {}
    BY <1>1, <1>4, OthersRemain
  <2>2. DiscoveryStop(s, c) = u
    BY <1>4 DEF DiscoveryStop, InProgress, r
  <2>3. /\ SameClients(r, u) /\ SameState(r, u) /\ u.discovering = r.discovering
        /\ u.timer = IF Restarts(r) THEN r.powered ELSE r.timer
    BY <1>1, UpdateTypes, UpdateState
  <2> HIDE DEF u
  <2>4. PartInv(u)
    BY <1>3, <2>1, <2>3 DEF PartInv, PairInv, TimerInv, SameClients, SameState
  <2>5. WantedInv(s) => WantedInv(u)
    <3> SUFFICES ASSUME WantedInv(s) PROVE WantedInv(u)
      OBVIOUS
    <3>1. u.list = s.list \ {c} /\ u.list # {} /\ s.list # {}
      BY <1>1, <2>1, <2>3 DEF SameClients
    <3>2. u.client # NONE => u.client = s.client /\ u.client # c
      BY <1>1, <2>3 DEF SameClients
    <3>3. u.client # NONE => u.client \in u.list
      BY <3>1, <3>2 DEF WantedInv
    <3>4. r.powered
      BY <1>3, <2>1 DEF PartInv, TimerInv
    <3>5. s.timer => u.timer
      BY <1>1, <2>1, <2>3, <3>4
    <3>6. u.enable = s.enable /\ u.suspended = s.suspended /\ u.requests = s.requests
      BY <1>1, <2>3 DEF SameState
    <3>7. QED
      BY <3>1, <3>3, <3>5, <3>6 DEF WantedInv
  <2>6. QED
    BY <2>2, <2>4, <2>5
<1>5. CASE InProgress(s)
  <2>1. DiscoveryStop(s, c) = SendStop(t, "stop", s.typed)
    BY <1>5 DEF DiscoveryStop, InProgress
  <2> DEFINE u == SendStop(t, "stop", s.typed)
  <2>2. /\ u.requests = Append(s.requests, q) /\ u.client = c /\ u.list = s.list
        /\ u.timer = s.timer /\ u.enable = s.enable /\ u.suspended = s.suspended
        /\ u.powered = s.powered /\ u.discovering = s.discovering
    BY DEF SendStop, Adapter
  <2>3. q \in Request /\ s.requests \in Seq(Request) /\ q.then = "stop"
    BY DEF Request, Adapter
  <2> HIDE DEF u, q
  <2>4. \A then : Due(u.requests, then) <=> Due(s.requests, then) \/ then = "stop"
    BY <2>2, <2>3, DueAppend
  <2>5. PairLast(u.requests)
    BY <2>2, <2>3, PairLastAppend DEF PartInv, PairInv
  <2>6. PartInv(u)
    BY <2>2, <2>4, <2>5 DEF PartInv, PairInv, TimerInv
  <2>7. (s.list # {} => c \in s.list) /\ WantedInv(s) => WantedInv(u)
    BY <2>2, <2>4 DEF WantedInv
  <2>8. QED
    BY <1>5, <2>1, <2>6, <2>7 DEF u
<1>6. CASE ~Others(s) /\ ~InProgress(s)
  <2>1. DiscoveryStop(s, c) = v
    BY <1>6 DEF DiscoveryStop, InProgress, r
  <2>2. /\ v.list = r.list /\ SameState(r, v) /\ ~v.discovering /\ v.timer = r.timer
        /\ v.client = r.client
    BY <1>1 DEF Adapter, SameState
  <2> HIDE DEF v
  <2>3. PartInv(v)
    BY <1>3, <2>2 DEF PartInv, PairInv, TimerInv, SameState
  <2>4. WantedInv(s) => WantedInv(v)
    <3> SUFFICES ASSUME WantedInv(s) PROVE WantedInv(v)
      OBVIOUS
    <3>1. v.list = s.list \ {c} /\ v.enable = s.enable /\ v.suspended = s.suspended
          /\ v.requests = s.requests
      BY <1>1, <2>2 DEF SameState
    <3>2. v.list # {} => v.timer = s.timer
      BY <1>1, <1>2, <2>2
    <3>3. v.client # NONE => v.client = s.client /\ v.client # c
      BY <1>1, <2>2
    <3>4. v.client # NONE /\ v.list # {} => v.client \in v.list
      BY <3>1, <3>3 DEF WantedInv
    <3>5. QED
      BY <2>2, <3>1, <3>2, <3>4 DEF WantedInv
  <2>5. QED
    BY <2>1, <2>3, <2>4
<1>7. QED
  BY <1>4, <1>5, <1>6 DEF InProgress

(* What is left to show of a step. *)
LEMMA WantedKept ==
    ASSUME TypeOK, RInv, Noted, PartInv(d'),
           WantedInv(d) /\ mishaps' = {} => WantedInv(d')
    PROVE  RInv'
<1>1. mishaps' = {} => mishaps = {}
  BY DEF Noted
<1>2. QED
  BY <1>1 DEF RInv, PartInv

(* ... if neither the lists nor what drives them changes. *)
LEMMA SameWanted ==
    ASSUME NEW s, NEW t, SameState(s, t), t.list = s.list, t.timer = s.timer,
           t.discovering = s.discovering, t.client \in {s.client, NONE}
    PROVE  (PartInv(s) => PartInv(t)) /\ (WantedInv(s) => WantedInv(t))
BY DEF SameState, PartInv, PairInv, TimerInv, WantedInv

LEMMA WaitsState ==
    ASSUME NEW s \in Adapter, NEW c \in Client, NEW call \in {"start", "stop"}
    PROVE  LET t == Waits(s, c, call)
           IN  /\ SameState(s, t) /\ t.list = s.list /\ t.timer = s.timer
               /\ t.discovering = s.discovering /\ t.client = c
BY DEF Waits, SameState, Adapter

LEMMA StartWanted ==
    ASSUME IInv, RInv, NEW c \in Client, StartDiscovery(c)
    PROVE  RInv'
<1> DEFINE s == [d EXCEPT !.preset = d.preset \ {c}, !.list = d.list \cup {c}]
           u == UpdateFilter(s)
           w == Waits(u, c, "start")
<1>1. /\ Noted /\ d.powered /\ d' = IF Restarts(s) THEN w ELSE s
  BY DEF StartDiscovery
<1>2. d \in Adapter /\ TypeOK
  BY DEF IInv, TypeOK
<1>3. /\ s \in Adapter /\ s.list = d.list \cup {c} /\ s.client = d.client /\ SameState(d, s)
      /\ s.timer = d.timer /\ s.discovering = d.discovering
  BY <1>2 DEF Adapter, SameState
<1>4. ~Restarts(s) => s.discovering
  BY <1>2 DEF Restarts, Adapter
<1> HIDE DEF s
<1>5. PartInv(s)
  BY <1>1, <1>3 DEF RInv, PartInv, PairInv, TimerInv, SameState
<1>6. CASE ~Restarts(s)
  <2>1. WantedInv(d) => WantedInv(s)
    BY <1>3, <1>4, <1>6 DEF WantedInv, SameState
  <2>2. QED
    BY <1>1, <1>2, <1>5, <1>6, <2>1, WantedKept
<1>7. CASE Restarts(s)
  <2>1. /\ u \in Adapter /\ SameClients(s, u) /\ SameState(s, u)
        /\ u.discovering = s.discovering /\ u.timer = s.powered
    BY <1>3, <1>7, UpdateTypes, UpdateState
  <2> HIDE DEF u
  <2>2. /\ SameState(u, w) /\ w.list = u.list /\ w.timer = u.timer /\ w.client = c
        /\ w.discovering = u.discovering
    BY <2>1, WaitsState
  <2> HIDE DEF w
  <2>3. w.list = s.list /\ c \in w.list /\ w.timer /\ w.powered
    BY <1>1, <1>3, <2>1, <2>2 DEF SameClients, SameState
  <2>4. PartInv(w)
    BY <1>5, <2>1, <2>2, <2>3 DEF PartInv, PairInv, TimerInv, SameState
  <2>5. WantedInv(w)
    BY <2>2, <2>3 DEF WantedInv
  <2>6. QED
    BY <1>1, <1>2, <1>7, <2>4, <2>5, WantedKept
<1>8. QED
  BY <1>6, <1>7

LEMMA StopWanted ==
    ASSUME IInv, RInv, NEW c \in Client, StopDiscovery(c)
    PROVE  RInv'
<1> DEFINE s == DiscoveryStop(d, c)
           w == Waits(s, c, "stop")
<1>1. Noted /\ c \in d.list /\ d' = IF InProgress(d) THEN w ELSE s
  BY DEF StopDiscovery
<1>2. d \in Adapter /\ TypeOK /\ PartInv(d)
  BY DEF IInv, TypeOK, RInv, PartInv
<1>3. s \in Adapter /\ PartInv(s) /\ (WantedInv(d) => WantedInv(s))
  BY <1>1, <1>2, StopTypes, StopState
<1>4. InProgress(d) => s.client = c
  BY <1>2, StopQueue
<1> HIDE DEF s
<1>5. CASE InProgress(d)
  <2>1. /\ SameState(s, w) /\ w.list = s.list /\ w.timer = s.timer /\ w.client = s.client
        /\ w.discovering = s.discovering
    BY <1>3, <1>4, <1>5, WaitsState
  <2>2. PartInv(w) /\ (WantedInv(s) => WantedInv(w))
    BY <1>3, <2>1, SameWanted
  <2>3. QED
    BY <1>1, <1>2, <1>3, <1>5, <2>2, WantedKept
<1>6. CASE ~InProgress(d)
  BY <1>1, <1>2, <1>3, <1>6, WantedKept
<1>7. QED
  BY <1>5, <1>6

LEMMA FilterWanted ==
    ASSUME IInv, RInv, NEW c \in Client, NEW f \in Filter \cup {NONE}, SetDiscoveryFilter(c, f)
    PROVE  RInv'
<1> DEFINE g == [d.filter EXCEPT ![c] = f]
           s == [d EXCEPT !.filter = g]
           t == [s EXCEPT !.preset = s.preset \cup {c}]
           r == Free(d, {c})
           u == [r EXCEPT !.preset = r.preset \ {c}]
           v == UpdateFilter(s)
<1>1. /\ Noted
      /\ c \in d.list => d' = v
      /\ c \notin d.list => d' \in {t, u}
  BY DEF SetDiscoveryFilter
<1>2. d \in Adapter /\ TypeOK /\ PartInv(d)
  BY DEF IInv, TypeOK, RInv, PartInv
<1>3. g \in [Client -> Filter \cup {NONE}]
  BY <1>2 DEF Adapter
<1> HIDE DEF g
<1>4. /\ s \in Adapter /\ SameState(d, s) /\ s.list = d.list /\ s.client = d.client
      /\ s.timer = d.timer /\ s.discovering = d.discovering
  BY <1>2, <1>3 DEF Adapter, SameState
<1> HIDE DEF s
<1>5. /\ SameState(s, t) /\ t.list = s.list /\ t.client = s.client
      /\ t.timer = s.timer /\ t.discovering = s.discovering
  BY <1>4 DEF Adapter, SameState
<1>6. /\ r \in Adapter /\ SameState(d, r) /\ r.list = d.list /\ r.client \in {d.client, NONE}
      /\ r.timer = d.timer /\ r.discovering = d.discovering
  <2>1. {c} \in SUBSET Client
    OBVIOUS
  <2>2. QED
    BY <1>2, <2>1, FreeTypes, FreeState
<1> HIDE DEF r
<1>7. /\ SameState(r, u) /\ u.list = r.list /\ u.client = r.client
      /\ u.timer = r.timer /\ u.discovering = r.discovering
  BY <1>6 DEF Adapter, SameState
<1>8. /\ SameClients(s, v) /\ SameState(s, v) /\ v.discovering = s.discovering
      /\ v.timer = IF Restarts(s) THEN s.powered ELSE s.timer
  BY <1>4, UpdateTypes, UpdateState
<1> HIDE DEF t, u, v
<1>9. PartInv(s) /\ (WantedInv(d) => WantedInv(s))
  BY <1>2, <1>4, SameWanted
<1>10. PartInv(t) /\ (WantedInv(s) => WantedInv(t))
  BY <1>5, <1>9, SameWanted
<1>11. PartInv(r) /\ (WantedInv(d) => WantedInv(r))
  BY <1>2, <1>6, SameWanted
<1>12. PartInv(u) /\ (WantedInv(r) => WantedInv(u))
  BY <1>7, <1>11, SameWanted
<1>13. ASSUME c \in d.list PROVE PartInv(v) /\ (WantedInv(s) => WantedInv(v))
  <2>1. s.list # {} /\ v.list = s.list /\ v.client = s.client
    BY <1>4, <1>8, <1>13 DEF SameClients
  <2>2. s.powered /\ (s.timer => v.timer)
    BY <1>8, <1>9, <2>1 DEF PartInv, TimerInv
  <2>3. PartInv(v)
    BY <1>8, <1>9, <2>1, <2>2 DEF PartInv, PairInv, TimerInv, SameState
  <2>4. WantedInv(s) => WantedInv(v)
    BY <1>8, <2>1, <2>2 DEF WantedInv, SameState
  <2>5. QED
    BY <2>3, <2>4
<1>14. PartInv(d') /\ (WantedInv(d) => WantedInv(d'))
  BY <1>1, <1>9, <1>10, <1>11, <1>12, <1>13
<1>15. QED
  BY <1>1, <1>2, <1>14, WantedKept

(* Who only has a filter leaves, and what another discovers is stopped. *)
LEMMA PresetNoted ==
    ASSUME Noted, d'.client \in d'.preset, d'.list # {}
    PROVE  mishaps' # {}
<1>1. "preset" \in Mishappens
  BY DEF Mishappens, Mishap
<1>2. QED
  BY <1>1 DEF Noted

LEMMA DisconnectWanted ==
    ASSUME IInv, RInv, NEW c \in Client, Disconnect(c)
    PROVE  RInv'
<1> DEFINE s == [d EXCEPT !.watched = d.watched \ {c}]
           u == DiscoveryStop(s, c)
<1>1. /\ Noted /\ d' = IF c \in d.list \cup d.preset THEN u ELSE s
  BY DEF Disconnect
<1>2. d \in Adapter /\ TypeOK /\ PartInv(d)
  BY DEF IInv, TypeOK, RInv, PartInv
<1>3. /\ s \in Adapter /\ SameState(d, s) /\ s.list = d.list /\ s.client = d.client
      /\ s.timer = d.timer /\ s.discovering = d.discovering /\ s.preset = d.preset
  BY <1>2 DEF Adapter, SameState
<1> HIDE DEF s
<1>4. PartInv(s) /\ (WantedInv(d) => WantedInv(s))
  BY <1>2, <1>3, SameWanted
<1>5. /\ PartInv(u)
      /\ (InProgress(s) /\ s.list # {} => c \in s.list) /\ WantedInv(s) => WantedInv(u)
  BY <1>3, <1>4, StopState
<1>6. ASSUME c \in d.list \cup d.preset, InProgress(s), s.list # {}, c \notin s.list, d' = u
      PROVE  mishaps' # {}
  <2> DEFINE t == [s EXCEPT !.client = c]
  <2>1. t.client = c /\ t.list = s.list /\ t.preset = s.preset
    BY <1>3 DEF Adapter
  <2>2. SameClients(t, u)
    BY <1>3, <1>6, StopTypes DEF WaitInv
  <2> HIDE DEF t, u
  <2>3. d'.client = c /\ c \in d'.preset /\ d'.list # {}
    BY <1>3, <1>6, <2>1, <2>2 DEF SameClients
  <2>4. QED
    BY <1>1, <2>3, PresetNoted
<1> HIDE DEF u
<1>7. PartInv(d') /\ (WantedInv(d) /\ mishaps' = {} => WantedInv(d'))
  BY <1>1, <1>4, <1>5, <1>6
<1>8. QED
  BY <1>1, <1>2, <1>7, WantedKept

LEMMA PairWanted ==
    ASSUME IInv, RInv, Pair
    PROVE  RInv'
<1> DEFINE s == [d EXCEPT !.suspended = TRUE, !.timer = d.timer /\ d.list = {}]
           q == [op |-> "stop", then |-> "suspend", typed |-> s.typed]
           r == [op |-> "pair", then |-> "pair", typed |-> TRUE]
           t == IF d.list # {} /\ d.enable THEN SendStop(s, "suspend", s.typed) ELSE s
<1>1. d \in Adapter /\ Noted /\ d' = Send(t, "pair") /\ ~d.suspended
  BY DEF IInv, TypeOK, Pair
<1>2. TypeOK /\ PartInv(d)
  BY DEF IInv, RInv, PartInv
<1>3. d.timer => d.list # {}
  BY <1>2 DEF PartInv, TimerInv
<1>4. /\ s \in Adapter /\ s.typed \in BOOLEAN /\ s.list = d.list /\ s.client = d.client
      /\ s.powered = d.powered /\ s.discovering = d.discovering
      /\ s.suspended /\ ~s.timer /\ s.requests = d.requests
  BY <1>1, <1>3 DEF Adapter
<1>5. q \in Request /\ r \in Request /\ q.then = "suspend" /\ r.then = "pair"
  BY <1>4 DEF Request
<1> HIDE DEF s
<1>6. LET v == SendStop(s, "suspend", s.typed)
      IN  /\ v \in Adapter
          /\ v.list = s.list /\ v.client = s.client /\ v.suspended = s.suspended
          /\ v.powered = s.powered /\ v.discovering = s.discovering /\ v.timer = s.timer
          /\ v.requests = Append(s.requests, q)
  BY <1>4, SendTypes DEF SendStop, Adapter
<1>7. /\ t \in Adapter
      /\ t.list = d.list /\ t.client = d.client /\ t.suspended
      /\ t.powered = d.powered /\ t.discovering = d.discovering /\ ~t.timer
      /\ t.requests \in {d.requests, Append(d.requests, q)}
  BY <1>4, <1>6
<1> HIDE DEF t, q
<1>8. /\ d'.requests = Append(t.requests, r)
      /\ d'.list = t.list /\ d'.client = t.client /\ d'.suspended = t.suspended
      /\ d'.powered = t.powered /\ d'.discovering = t.discovering /\ d'.timer = t.timer
  BY <1>1, <1>7 DEF Send, Adapter
<1> HIDE DEF r
<1>9. d.requests \in Seq(Request) /\ t.requests \in Seq(Request)
  BY <1>1, <1>7 DEF Adapter
<1>10. PairLast(d.requests) /\ ~Due(d.requests, "pair")
  BY <1>1, <1>2 DEF PartInv, PairInv
<1>11. PairLast(t.requests) /\ ~Due(t.requests, "pair")
  <2>1. CASE t.requests = d.requests
    BY <1>10, <2>1
  <2>2. CASE t.requests = Append(d.requests, q)
    <3>1. PairLast(t.requests)
      BY <1>5, <1>9, <1>10, <2>2, PairLastAppend
    <3>2. ~Due(t.requests, "pair")
      BY <1>5, <1>9, <1>10, <2>2, DueAppend
    <3>3. QED
      BY <3>1, <3>2
  <2>3. QED
    BY <1>7, <2>1, <2>2
<1>12. PairLast(d'.requests) /\ Due(d'.requests, "pair")
  <2>1. PairLast(d'.requests)
    BY <1>5, <1>8, <1>9, <1>11, PairLastAppend
  <2>2. Due(d'.requests, "pair")
    BY <1>5, <1>8, <1>9, DueAppend
  <2>3. QED
    BY <2>1, <2>2
<1>13. PartInv(d')
  BY <1>2, <1>7, <1>8, <1>12 DEF PartInv, PairInv, TimerInv
<1>14. WantedInv(d) => WantedInv(d')
  BY <1>7, <1>8 DEF WantedInv
<1>15. QED
  BY <1>1, <1>2, <1>13, <1>14, WantedKept

LEMMA TimeoutWanted ==
    ASSUME IInv, RInv, StartDiscoveryTimeout
    PROVE  RInv'
<1> DEFINE s == [d EXCEPT !.timer = FALSE]
           t == [s EXCEPT !.discovering = TRUE]
           q == [op |-> "stop", then |-> NONE, typed |-> s.typed]
           r == [op |-> "start", then |-> "start", typed |-> TRUE]
           u == Send(s, "start")
           v == SendStop(s, NONE, s.typed)
<1>1. d \in Adapter /\ Noted /\ d.timer
  BY DEF IInv, TypeOK, StartDiscoveryTimeout
<1>2. TypeOK /\ PartInv(d)
  BY DEF IInv, RInv, PartInv
<1>3. d.list # {}
  BY <1>1, <1>2 DEF PartInv, TimerInv
<1>4. d.enable \in BOOLEAN /\ s.enable = d.enable
  BY <1>1 DEF Adapter
<1>5. \/ ~d.enable /\ d' = u
      \/ d.enable /\ d' \in {t, v}
  BY <1>4 DEF StartDiscoveryTimeout
<1>6. /\ s \in Adapter /\ s.typed \in BOOLEAN /\ SameState(d, s) /\ s.list = d.list /\ ~s.timer
      /\ s.client = d.client /\ s.discovering = d.discovering
  BY <1>1 DEF Adapter, SameState
<1>7. q \in Request /\ r \in Request /\ q.then = NONE /\ r.then = "start"
  BY <1>6 DEF Request
<1> HIDE DEF s
<1>8. /\ SameState(s, t) /\ t.list = s.list /\ ~t.timer /\ t.client = s.client
      /\ \A x \in {u, v} : /\ x.enable = s.enable /\ x.suspended = s.suspended
                           /\ x.powered = s.powered
                           /\ x.list = s.list /\ ~x.timer /\ x.client = s.client
                           /\ x.discovering = s.discovering
      /\ u.requests = Append(s.requests, r) /\ v.requests = Append(s.requests, q)
  BY <1>6 DEF Adapter, SameState, Send, SendStop
<1> HIDE DEF t, u, v, q, r
<1>9. d.requests \in Seq(Request) /\ PairLast(d.requests)
  BY <1>1, <1>2 DEF Adapter, PartInv, PairInv
<1>10. CASE d.enable /\ d' = t
  <2>1. PartInv(d')
    BY <1>2, <1>3, <1>6, <1>8, <1>10 DEF PartInv, PairInv, TimerInv, SameState
  <2>2. WantedInv(d) => WantedInv(d')
    BY <1>3, <1>6, <1>8, <1>10 DEF WantedInv, SameState
  <2>3. QED
    BY <1>1, <1>2, <2>1, <2>2, WantedKept
<1>11. ASSUME NEW x \in Request, d'.requests = Append(d.requests, x), x.then \in {"start", NONE},
              d' \in {u, v}, x.then = "start" \/ d.enable
       PROVE  RInv'
  <2>1. \A then : Due(d'.requests, then) <=> Due(d.requests, then) \/ x.then = then
    BY <1>9, <1>11, DueAppend
  <2>2. x.then \notin {"suspend", "pair"}
    BY <1>11, DiscoveryAssumption
  <2>3. PairLast(d'.requests)
    BY <1>9, <1>11, <2>2, PairLastAppend
  <2>4. /\ Due(d'.requests, "pair") <=> Due(d.requests, "pair")
        /\ Due(d'.requests, "suspend") <=> Due(d.requests, "suspend")
    BY <2>1, <2>2
  <2>5. PartInv(d')
    BY <1>2, <1>3, <1>6, <1>8, <1>11, <2>3, <2>4 DEF PartInv, PairInv, TimerInv, SameState
  <2>6. d'.enable \/ Due(d'.requests, "start")
    BY <1>4, <1>6, <1>8, <1>11, <2>1 DEF SameState
  <2>7. WantedInv(d) => WantedInv(d')
    BY <1>3, <1>6, <1>8, <1>11, <2>6 DEF WantedInv
  <2>8. QED
    BY <1>1, <1>2, <2>5, <2>7, WantedKept
<1>12. CASE d' = u
  <2>1. d'.requests = Append(d.requests, r)
    BY <1>6, <1>8, <1>12 DEF SameState
  <2>2. QED
    BY <1>7, <1>11, <1>12, <2>1
<1>13. CASE d.enable /\ d' = v
  <2>1. d'.requests = Append(d.requests, q)
    BY <1>6, <1>8, <1>13 DEF SameState
  <2>2. QED
    BY <1>7, <1>11, <1>13, <2>1
<1>14. QED
  BY <1>5, <1>10, <1>12, <1>13

(* Two of the mishaps of a reply: with others listed, it ends the discovery *)
(* of one; it fails, and a client is removed.                               *)
LEMMA ReplyMishaps ==
    ASSUME Noted, Reply
    PROVE  /\ d'.list # {} /\ Head(d.requests).then = "stop" => mishaps' # {}
           /\ d'.list # d.list /\ ~Head(events).value => mishaps' # {}
<1>1. events # <<>> /\ Head(events).kind = "reply" /\ events' = Tail(events)
  BY DEF Reply, Takes
<1>2. d'.list # {} /\ Head(d.requests).then = "stop" => "partner" \in Mishappens
  BY <1>1 DEF Mishappens, Mishap
<1>3. d'.list # d.list /\ ~Head(events).value => "refused" \in Mishappens
  BY <1>1 DEF Mishappens, Mishap
<1>4. QED
  BY <1>2, <1>3 DEF Noted

(* The queue without the command whose reply has come; for the rest of the  *)
(* handler it is as if that command had never been sent.                    *)
LEMMA Replied ==
    ASSUME NEW s \in Adapter, s.requests # <<>>, PairInv(s), NEW t,
           t = [s EXCEPT !.requests = Tail(s.requests)]
    PROVE  LET then == Head(s.requests).then
           IN  /\ then \notin {"suspend", "pair"} => PairInv(t)
               /\ then = "suspend" => PairInv(t) /\ t.suspended
               /\ then = "pair" => /\ ~Due(t.requests, "pair") /\ ~Due(t.requests, "suspend")
                                   /\ PairLast(t.requests)
               /\ then # "start" =>
                     (Due(t.requests, "start") <=> Due(s.requests, "start"))
<1> DEFINE q == s.requests
           then == Head(q).then
<1>1. q \in Seq(Request) /\ q # <<>>
  BY DEF Adapter
<1>2. t.requests = Tail(q) /\ t.suspended = s.suspended
  BY DEF Adapter
<1> HIDE DEF q
<1>3. \A x : Due(q, x) <=> then = x \/ Due(Tail(q), x)
  BY <1>1, DueTail
<1>4. /\ PairLast(Tail(q))
      /\ then = "pair" => ~Due(Tail(q), "suspend") /\ ~Due(Tail(q), "pair")
  BY <1>1, PairLastTail DEF PairInv, q
<1>5. /\ s.suspended <=> Due(q, "pair")
      /\ Due(q, "suspend") => s.suspended
  BY DEF PairInv, q
<1>6. then # "pair" => PairInv(t)
  BY <1>2, <1>3, <1>4, <1>5 DEF PairInv
<1>7. then = "suspend" => t.suspended
  BY <1>2, <1>3, <1>5
<1>8. QED
  BY <1>2, <1>3, <1>4, <1>6, <1>7 DEF q

LEMMA StartReplyWanted ==
    ASSUME NEW s \in Adapter, WaitInv(s), PartInv(s), NEW success \in BOOLEAN,
           NEW t, t = StartComplete(s, success)
    PROVE  /\ PartInv(t)
           /\ \/ t.list = {} /\ t.discovering = s.discovering
              \/ s.list # {} /\ t.list # {} /\ (t.client # NONE => t.client \in t.list)
                    /\ (t.timer \/ t.enable)
              \/ ~success /\ s.list # {} /\ s.client # NONE /\ t.list = s.list \ {s.client}
<1> DEFINE u == [s EXCEPT !.typed = TRUE, !.enable = TRUE, !.discovering = TRUE,
                          !.filtered = s.current # NONE]
           q == [op |-> "stop", then |-> NONE, typed |-> TRUE]
<1>1. CASE s.list = {}
  <2> DEFINE v == SendStop(s, NONE, TRUE)
  <2>1. t \in {s, v}
    BY <1>1 DEF StartComplete
  <2>2. q \in Request /\ q.then = NONE
    BY DEF Request
  <2>3. /\ v.requests = Append(s.requests, q) /\ v.list = s.list /\ v.timer = s.timer
        /\ v.suspended = s.suspended /\ v.discovering = s.discovering
    BY DEF SendStop, Adapter
  <2> HIDE DEF v, q
  <2>4. s.requests \in Seq(Request)
    BY DEF Adapter
  <2>5. \A then : Due(v.requests, then) <=> Due(s.requests, then) \/ q.then = then
    BY <2>2, <2>3, <2>4, DueAppend
  <2>6. q.then \notin {"suspend", "pair"}
    BY <2>2, DiscoveryAssumption
  <2>7. PairLast(v.requests)
    BY <2>2, <2>3, <2>4, <2>6, PairLastAppend DEF PartInv, PairInv
  <2>8. PairInv(v)
    BY <2>3, <2>5, <2>6, <2>7 DEF PartInv, PairInv
  <2>9. PartInv(v)
    BY <1>1, <2>3, <2>8 DEF PartInv, TimerInv
  <2>10. QED
    BY <1>1, <2>1, <2>3, <2>9
<1>2. CASE s.list # {} /\ success
  <2>1. t = Complete(u)
    BY <1>2 DEF StartComplete
  <2>2. /\ u \in Adapter /\ u.list = s.list /\ u.timer = s.timer /\ u.powered = s.powered
        /\ u.suspended = s.suspended /\ u.requests = s.requests /\ u.enable
    BY DEF Adapter
  <2> HIDE DEF u
  <2>3. /\ t.list = s.list /\ SameState(u, t) /\ t.timer = s.timer /\ t.client = NONE
    BY <2>1, <2>2, CompleteTypes, CompleteState
  <2>4. PartInv(t)
    BY <2>2, <2>3 DEF PartInv, PairInv, TimerInv, SameState
  <2>5. t.enable
    BY <2>2, <2>3 DEF SameState
  <2>6. QED
    BY <1>2, <2>3, <2>4, <2>5
<1>3. CASE s.list # {} /\ ~success /\ s.client # NONE
  <2>1. t = RemoveWaiting(s)
    BY <1>3 DEF StartComplete
  <2>2. /\ SameState(s, t) /\ t.list = s.list \ {s.client}
        /\ t.timer = (s.timer /\ t.list # {})
    <3> DEFINE c == Complete(s)
    <3>1. c \in Adapter /\ c.timer = s.timer
      BY CompleteTypes, CompleteState
    <3>2. s.client \in Client
      BY <1>3 DEF Adapter
    <3>3. t = Remove(c, s.client)
      BY <1>3, <2>1 DEF RemoveWaiting
    <3> HIDE DEF c
    <3>4. t.timer = (c.timer /\ t.list # {})
      BY <3>1, <3>2, <3>3, RemoveState
    <3>5. QED
      BY <2>1, <3>1, <3>4, RemoveWaitingState
  <2>3. PartInv(t)
    BY <2>2 DEF PartInv, PairInv, TimerInv, SameState
  <2>4. QED
    BY <1>3, <2>2, <2>3
<1>4. CASE s.list # {} /\ ~success /\ s.client = NONE
  <2>1. t = TriggerStart(s)
    BY <1>4 DEF StartComplete
  <2>2. /\ t.list = s.list /\ t.client = s.client /\ t.timer = s.powered /\ SameState(s, t)
    BY <2>1 DEF TriggerStart, SameState, Adapter
  <2>3. s.powered
    BY <1>4 DEF PartInv, TimerInv
  <2>4. PartInv(t)
    BY <1>4, <2>2, <2>3 DEF PartInv, PairInv, TimerInv, SameState
  <2>5. QED
    BY <1>4, <2>2, <2>3, <2>4
<1>5. QED
  BY <1>1, <1>2, <1>3, <1>4

LEMMA StopReplyWanted ==
    ASSUME NEW s \in Adapter, PartInv(s), NEW success \in BOOLEAN,
           NEW t, t = StopComplete(s, success)
    PROVE  /\ PartInv(t)
           /\ success => ~t.discovering
           /\ ~success => t.discovering = s.discovering
<1> DEFINE r == RemoveWaiting(s)
           u == [r EXCEPT !.typed = FALSE, !.enable = FALSE, !.filtered = FALSE,
                          !.discovering = FALSE]
<1>1. t = IF success THEN u ELSE r
  BY DEF StopComplete
<1>2. /\ r \in Adapter /\ SameState(s, r) /\ r.discovering = s.discovering
      /\ r.list = s.list \ {s.client}
  BY RemoveWaitingState
<1>3. r.timer => s.timer /\ r.list # {}
  <2>1. CASE s.client = NONE
    BY <2>1 DEF RemoveWaiting, PartInv, TimerInv
  <2>2. CASE s.client # NONE
    <3> DEFINE c == Complete(s)
    <3>1. c \in Adapter /\ c.timer = s.timer
      BY CompleteTypes, CompleteState
    <3>2. s.client \in Client
      BY <2>2 DEF Adapter
    <3>3. r = Remove(c, s.client)
      BY <2>2 DEF RemoveWaiting
    <3> HIDE DEF c, r
    <3>4. r.timer = (c.timer /\ r.list # {})
      BY <3>1, <3>2, <3>3, RemoveState
    <3>5. QED
      BY <3>1, <3>4
  <2>3. QED
    BY <2>1, <2>2
<1> HIDE DEF r
<1>4. PartInv(r)
  BY <1>2, <1>3 DEF PartInv, PairInv, TimerInv, SameState
<1>5. /\ u.list = r.list /\ u.timer = r.timer /\ u.powered = r.powered
      /\ u.suspended = r.suspended /\ u.requests = r.requests /\ ~u.discovering
  BY <1>2 DEF Adapter
<1> HIDE DEF u
<1>6. PartInv(u)
  BY <1>4, <1>5 DEF PartInv, PairInv, TimerInv
<1>7. QED
  BY <1>1, <1>2, <1>4, <1>5, <1>6

LEMMA ReplyWanted ==
    ASSUME IInv, RInv, Reply
    PROVE  RInv'
<1> DEFINE s == [d EXCEPT !.requests = Tail(d.requests)]
           then == Head(d.requests).then
           success == Head(events).value
<1>1. d \in Adapter /\ TypeOK /\ WaitInv(d) /\ PartInv(d) /\ Noted /\ d.requests # <<>>
      /\ d' = Callback(s, then, success)
  BY DEF IInv, TypeOK, RInv, PartInv, Reply
<1>2. Tail(d.requests) \in Seq(Request) /\ Head(d.requests) \in Request
  BY <1>1 DEF Adapter
<1>3. then \in {"start", "stop", "suspend", "pair", NONE}
  BY <1>2 DEF Request
<1>4. success \in BOOLEAN
  <2>1. events \in Seq(Event) /\ events # <<>>
    BY <1>1 DEF TypeOK, Reply, Takes
  <2>2. Head(events) \in Event
    BY <2>1
  <2>3. QED
    BY <2>2 DEF Event
<1>5. /\ s \in Adapter /\ SameClients(d, s) /\ s.timer = d.timer /\ s.enable = d.enable
      /\ s.powered = d.powered /\ s.discovering = d.discovering /\ s.suspended = d.suspended
  BY <1>1, <1>2 DEF Adapter, SameClients
<1>6. /\ then \notin {"suspend", "pair"} => PairInv(s)
      /\ then = "suspend" => PairInv(s) /\ s.suspended
      /\ then = "pair" => /\ ~Due(s.requests, "pair") /\ ~Due(s.requests, "suspend")
                          /\ PairLast(s.requests)
      /\ then # "start" => (Due(s.requests, "start") <=> Due(d.requests, "start"))
  BY <1>1, Replied DEF PartInv
<1>7. WaitInv(s) /\ TimerInv(s) /\ s.list = d.list /\ s.client = d.client
  BY <1>1, <1>5, SameKeeps DEF PartInv, TimerInv, SameClients
<1>8. /\ d'.list # {} /\ then = "stop" => mishaps' # {}
      /\ d'.list # d.list /\ ~success => mishaps' # {}
  BY <1>1, ReplyMishaps
<1> HIDE DEF s, then, success
<1>9. CASE then = "start"
  <2>1. d' = StartComplete(s, success)
    BY <1>1, <1>9, DiscoveryAssumption DEF Callback
  <2>2. PartInv(s)
    BY <1>6, <1>7, <1>9 DEF PartInv
  <2>3. /\ PartInv(d')
        /\ \/ d'.list = {} /\ d'.discovering = s.discovering
           \/ s.list # {} /\ d'.list # {} /\ (d'.client # NONE => d'.client \in d'.list)
                 /\ (d'.timer \/ d'.enable)
           \/ ~success /\ s.list # {} /\ s.client # NONE /\ d'.list = s.list \ {s.client}
    BY <1>4, <1>5, <1>7, <2>1, <2>2, StartReplyWanted
  <2>4. ASSUME WantedInv(d), mishaps' = {} PROVE WantedInv(d')
    <3>1. CASE d'.list = {} /\ d'.discovering = s.discovering
      <4>1. CASE d.list = {}
        BY <1>5, <2>4, <3>1, <4>1 DEF WantedInv
      <4>2. CASE d.list # {}
        <5>1. ~success => mishaps' # {}
          BY <1>8, <3>1, <4>2
        <5>2. success => d'.list = d.list
          <6>1. SUFFICES ASSUME success PROVE d'.list = d.list
            OBVIOUS
          <6>2. d' = Complete([s EXCEPT !.typed = TRUE, !.enable = TRUE, !.discovering = TRUE,
                                        !.filtered = s.current # NONE])
            BY <1>7, <2>1, <4>2, <6>1 DEF StartComplete
          <6>3. LET u == [s EXCEPT !.typed = TRUE, !.enable = TRUE, !.discovering = TRUE,
                                   !.filtered = s.current # NONE]
                IN  u \in Adapter /\ u.list = d.list
            BY <1>5, <1>7 DEF Adapter
          <6>4. QED
            BY <6>2, <6>3, CompleteTypes
        <5>3. QED
          BY <2>4, <3>1, <4>2, <5>1, <5>2
      <4>3. QED
        BY <4>1, <4>2
    <3>2. CASE d'.list # {} /\ (d'.client # NONE => d'.client \in d'.list)
                 /\ (d'.timer \/ d'.enable)
      BY <3>2 DEF WantedInv
    <3>3. CASE ~success /\ s.list # {} /\ s.client # NONE /\ d'.list = s.list \ {s.client}
      <4>1. d.client \in d.list
        BY <1>7, <2>4, <3>3 DEF WantedInv
      <4>2. d'.list # d.list
        BY <1>7, <3>3, <4>1
      <4>3. QED
        BY <1>8, <2>4, <3>3, <4>2
    <3>4. QED
      BY <2>3, <3>1, <3>2, <3>3
  <2>5. QED
    BY <1>1, <2>3, <2>4, WantedKept
<1>10. CASE then = "stop"
  <2>1. d' = StopComplete(s, success)
    BY <1>1, <1>10, DiscoveryAssumption DEF Callback
  <2>2. PartInv(s)
    BY <1>6, <1>7, <1>10 DEF PartInv
  <2>3. /\ PartInv(d')
        /\ success => ~d'.discovering
        /\ ~success => d'.discovering = s.discovering
    BY <1>4, <1>5, <2>1, <2>2, StopReplyWanted
  <2>4. ASSUME WantedInv(d), mishaps' = {} PROVE WantedInv(d')
    <3>1. d'.list = {}
      BY <1>8, <1>10, <2>4
    <3>2. ~success => d.list = {}
      BY <1>8, <2>4, <3>1
    <3>3. ~d'.discovering
      BY <1>5, <2>3, <2>4, <3>2 DEF WantedInv
    <3>4. QED
      BY <3>1, <3>3 DEF WantedInv
  <2>5. QED
    BY <1>1, <2>3, <2>4, WantedKept
<1>11. CASE then = "suspend"
  <2> DEFINE u == [s EXCEPT !.typed = FALSE, !.enable = FALSE]
  <2>1. d' \in {s, u}
    BY <1>1, <1>11, DiscoveryAssumption DEF Callback, SuspendComplete
  <2>2. /\ u.list = s.list /\ u.timer = s.timer /\ u.powered = s.powered
        /\ u.client = s.client /\ u.discovering = s.discovering
        /\ u.suspended = s.suspended /\ u.requests = s.requests
    BY <1>5 DEF Adapter
  <2> HIDE DEF u
  <2>3. PartInv(d')
    BY <1>6, <1>7, <1>11, <2>1, <2>2 DEF PartInv, PairInv, TimerInv
  <2>4. WantedInv(d) => WantedInv(d')
    BY <1>5, <1>6, <1>7, <1>11, <2>1, <2>2 DEF WantedInv
  <2>5. QED
    BY <1>1, <2>3, <2>4, WantedKept
<1>12. CASE then = "pair"
  <2> DEFINE v == [s EXCEPT !.suspended = FALSE]
             w == [v EXCEPT !.timer = v.powered]
  <2>1. d' = IF s.list = {} THEN v ELSE w
    BY <1>1, <1>12, DiscoveryAssumption DEF Callback, ResumeDiscovery, TriggerStart
  <2>2. /\ v.list = s.list /\ v.timer = s.timer /\ v.powered = s.powered
        /\ v.client = s.client /\ v.discovering = s.discovering
        /\ ~v.suspended /\ v.requests = s.requests /\ v.enable = s.enable
        /\ v \in Adapter
    BY <1>5 DEF Adapter
  <2> HIDE DEF v
  <2>3. /\ w.list = s.list /\ w.timer = v.powered /\ w.powered = s.powered
        /\ w.client = s.client /\ w.discovering = s.discovering
        /\ ~w.suspended /\ w.requests = s.requests
    BY <2>2 DEF Adapter
  <2> HIDE DEF w
  <2>4. s.list # {} => s.powered
    BY <1>7 DEF TimerInv
  <2>5. PartInv(d')
    BY <1>6, <1>7, <1>12, <2>1, <2>2, <2>3, <2>4 DEF PartInv, PairInv, TimerInv
  <2>6. WantedInv(d) => WantedInv(d')
    BY <1>5, <1>7, <2>1, <2>2, <2>3, <2>4 DEF WantedInv
  <2>7. QED
    BY <1>1, <2>5, <2>6, WantedKept
<1>13. CASE then = NONE
  <2>1. d' = s /\ then \notin {"start", "suspend", "pair"}
    BY <1>1, <1>13, DiscoveryAssumption DEF Callback
  <2>2. PartInv(d')
    BY <1>6, <1>7, <2>1 DEF PartInv
  <2>3. WantedInv(d) => WantedInv(d')
    BY <1>5, <1>6, <1>7, <2>1 DEF WantedInv
  <2>4. QED
    BY <1>1, <2>2, <2>3, WantedKept
<1>14. QED
  BY <1>3, <1>9, <1>10, <1>11, <1>12, <1>13

LEMMA EventWanted ==
    ASSUME IInv, RInv, Discovering \/ Powered
    PROVE  RInv'
<1> DEFINE on == Head(events).value
           s == [d EXCEPT !.typed = TRUE, !.enable = on]
           t == [s EXCEPT !.timer = FALSE]
           v == TriggerStart(s)
           gone == d.list \cup d.preset
           f == Free(d, gone)
           k == Cleanup(f)
           w == [k EXCEPT !.list = {}, !.preset = {}, !.current = NONE,
                          !.filtered = FALSE, !.discovering = FALSE]
           a == [d EXCEPT !.powered = on]
           b == [w EXCEPT !.powered = on]
<1>1. d \in Adapter /\ TypeOK /\ PartInv(d) /\ Noted
  BY DEF IInv, TypeOK, RInv, PartInv, Discovering, Powered
<1>2. on \in BOOLEAN
  <2>1. events \in Seq(Event) /\ events # <<>>
    BY <1>1 DEF TypeOK, Takes, Discovering, Powered
  <2>2. Head(events) \in Event
    BY <2>1
  <2>3. QED
    BY <2>2 DEF Event
<1>3. ASSUME Discovering PROVE RInv'
  <2>1. \/ d' = d
        \/ d' = s /\ (d.list = {} \/ d.suspended)
        \/ on /\ d' = t
        \/ ~on /\ d' = v /\ d.list # {}
    BY <1>3, <1>2 DEF Discovering
  <2> HIDE DEF on
  <2>2. /\ s \in Adapter /\ s.list = d.list /\ s.timer = d.timer /\ s.powered = d.powered
        /\ s.client = d.client /\ s.discovering = d.discovering
        /\ s.suspended = d.suspended /\ s.requests = d.requests /\ s.enable = on
    BY <1>1, <1>2 DEF Adapter
  <2> HIDE DEF s
  <2>3. /\ \A x \in {t, v} :
              /\ x.list = s.list /\ x.powered = s.powered
              /\ x.client = s.client /\ x.discovering = s.discovering
              /\ x.suspended = s.suspended /\ x.requests = s.requests /\ x.enable = s.enable
        /\ ~t.timer /\ v.timer = s.powered
    BY <2>2 DEF TriggerStart, Adapter
  <2> HIDE DEF t, v
  <2>4. d.list # {} => d.powered
    BY <1>1 DEF PartInv, TimerInv
  <2>5. PartInv(d')
    BY <1>1, <2>1, <2>2, <2>3, <2>4 DEF PartInv, PairInv, TimerInv
  <2>6. WantedInv(d) => WantedInv(d')
    BY <2>1, <2>2, <2>3, <2>4 DEF WantedInv
  <2>7. QED
    BY <1>1, <2>5, <2>6, WantedKept
<1>4. ASSUME Powered PROVE RInv'
  <2>1. \/ on /\ d' = a
        \/ ~on /\ d' = b
    BY <1>4, <1>2 DEF Powered
  <2>2. gone \in SUBSET Client
    BY <1>1 DEF Adapter
  <2> HIDE DEF on, gone
  <2>3. /\ a.list = d.list /\ a.timer = d.timer /\ a.powered = on
        /\ a.client = d.client /\ a.discovering = d.discovering
        /\ a.suspended = d.suspended /\ a.requests = d.requests /\ a.enable = d.enable
    BY <1>1, <1>2 DEF Adapter
  <2>4. f \in Adapter /\ SameState(d, f)
    BY <1>1, <2>2, FreeTypes, FreeState
  <2> HIDE DEF a, f
  <2>5. b.list = {} /\ ~b.timer /\ ~b.discovering /\ b.suspended = f.suspended
        /\ b.requests = f.requests
    BY <2>4 DEF Adapter, Cleanup
  <2> HIDE DEF b
  <2>6. PartInv(d')
    BY <1>1, <2>1, <2>3, <2>4, <2>5 DEF PartInv, PairInv, TimerInv, SameState
  <2>7. WantedInv(d) => WantedInv(d')
    BY <2>1, <2>3, <2>5 DEF WantedInv
  <2>8. QED
    BY <1>1, <2>6, <2>7, WantedKept
<1>5. QED
  BY <1>3, <1>4

LEMMA WantedHolds == Init => RInv
BY DEF Init, RInv, PairInv, Due, PairLast, TimerInv, WantedInv

LEMMA NextWanted == IInv /\ RInv /\ [Next]_vars => RInv'
<1> SUFFICES ASSUME IInv, RInv, [Next]_vars PROVE RInv'
  OBVIOUS
<1>1. ASSUME Clients PROVE RInv'
  BY <1>1, StartWanted, StopWanted, FilterWanted, DisconnectWanted DEF Clients
<1>2. ASSUME Bluetoothd PROVE RInv'
  BY <1>2, TimeoutWanted, ReplyWanted, EventWanted DEF Bluetoothd
<1>3. ASSUME Kernel PROVE RInv'
  <2>1. d' = d /\ Noted
    BY <1>3 DEF Kernel, Serve, Ends, StartedElsewhere, Switched
  <2>2. TypeOK /\ PartInv(d)
    BY DEF IInv, RInv, PartInv
  <2>3. QED
    BY <2>1, <2>2, WantedKept
<1>4. ASSUME UNCHANGED vars PROVE RInv'
  BY <1>4 DEF vars, RInv
<1>5. QED
  BY <1>1, <1>2, <1>3, <1>4, PairWanted DEF Next

-----------------------------------------------------------------------------
(* bluetoothd knows, in the end, whether the kernel discovers.             *)

Disc(e, i) == i \in 1..Len(e) /\ e[i].kind = "discovering"

LastDisc(e, i) == Disc(e, i) /\ \A j \in (i + 1)..Len(e) : ~Disc(e, j)

(* The last that is said of it is true: by the events that are under way,  *)
(* or, if there are none, by discovery_enable.                              *)
LastTold(e, enable, finds) ==
    /\ (\A i \in 1..Len(e) : ~Disc(e, i)) => enable = finds
    /\ \A i \in 1..Len(e) : LastDisc(e, i) => e[i].value = finds

(* At most one reply is under way; behind that to a start or a stop that    *)
(* succeeded comes the event about it.                                      *)
ReplyInv(e, q) ==
    \A i \in 1..Len(e) : e[i].kind = "reply" =>
        /\ q # <<>>
        /\ \A j \in 1..Len(e) : e[j].kind = "reply" => j = i
        /\ e[i].value /\ Head(q).op \in {"start", "stop"} => Disc(e, i + 1)

(* The callbacks of a start and of the stops are for those commands. *)
OpInv(q) ==
    \A i \in 1..Len(q) :
        q[i].then \in {"start", "stop", "suspend"} => q[i].op \in {"start", "stop"}

EInv ==
    /\ LastTold(events, d.enable, kernel.finds)
    /\ ReplyInv(events, d.requests)
    /\ OpInv(d.requests)

LEMMA ToldMore ==
    ASSUME NEW e \in Seq(Event), NEW x \in Event, NEW enable, NEW finds, NEW found,
           LastTold(e, enable, finds),
           IF x.kind = "discovering" THEN x.value = found ELSE found = finds
    PROVE  LastTold(Append(e, x), enable, found)
<1> DEFINE p == Append(e, x)
           n == Len(e) + 1
<1>1. /\ Len(p) = n /\ n \in Nat \ {0} /\ p[n] = x
      /\ \A i \in 1..Len(e) : p[i] = e[i] /\ i < n
      /\ \A i \in 1..Len(p) : i = n \/ i \in 1..Len(e)
  OBVIOUS
<1>2. Len(e) \in Nat
  OBVIOUS
<1> HIDE DEF p
<1>3. \A i \in 1..Len(e) : Disc(p, i) <=> Disc(e, i)
  BY <1>1, <1>2 DEF Disc
<1>4. Disc(p, n) <=> x.kind = "discovering"
  BY <1>1, <1>2 DEF Disc
<1>5. CASE x.kind = "discovering"
  <2>1. \A i \in 1..Len(p) : LastDisc(p, i) => i = n
    <3> SUFFICES ASSUME NEW i \in 1..Len(p), LastDisc(p, i), i # n PROVE FALSE
      OBVIOUS
    <3>1. n \in (i + 1)..Len(p)
      BY <1>1, <1>2
    <3>2. QED
      BY <1>4, <1>5, <3>1 DEF LastDisc
  <2>2. n \in 1..Len(p)
    BY <1>1
  <2>3. QED
    BY <1>1, <1>4, <1>5, <2>1, <2>2 DEF LastTold, p
<1>6. CASE x.kind # "discovering"
  <2>1. ASSUME NEW i \in 1..Len(p), LastDisc(p, i)
        PROVE  i \in 1..Len(e) /\ LastDisc(e, i)
    <3>1. i \in 1..Len(e)
      BY <1>1, <1>4, <1>6, <2>1 DEF LastDisc
    <3>2. \A j \in (i + 1)..Len(e) : j \in (i + 1)..Len(p) /\ j \in 1..Len(e)
      BY <1>1, <1>2, <3>1
    <3>3. QED
      BY <1>3, <2>1, <3>1, <3>2 DEF LastDisc
  <2>2. (\A i \in 1..Len(p) : ~Disc(p, i)) => \A i \in 1..Len(e) : ~Disc(e, i)
    <3>1. \A i \in 1..Len(e) : i \in 1..Len(p)
      BY <1>1, <1>2
    <3>2. QED
      BY <1>3, <3>1
  <2>3. QED
    BY <1>1, <1>6, <2>1, <2>2 DEF LastTold, p
<1>7. QED
  BY <1>5, <1>6

(* An event is taken: bluetoothd now knows what it said, or another says it. *)
LEMMA ToldLess ==
    ASSUME NEW e \in Seq(Event), e # <<>>, NEW enable, NEW finds, NEW known,
           LastTold(e, enable, finds),
           \/ Head(e).kind = "discovering" /\ known = Head(e).value
           \/ Head(e).kind # "discovering" /\ known = enable
           \/ Head(e).kind # "discovering" /\ Disc(e, 2)
    PROVE  LastTold(Tail(e), known, finds)
<1> DEFINE p == Tail(e)
<1>1. /\ Len(p) = Len(e) - 1 /\ Len(e) \in Nat \ {0} /\ Head(e) = e[1]
      /\ \A i \in 1..Len(p) : p[i] = e[i + 1] /\ i + 1 \in 1..Len(e)
  OBVIOUS
<1> HIDE DEF p
<1>2. \A i \in 1..Len(p) : Disc(p, i) <=> Disc(e, i + 1)
  BY <1>1 DEF Disc
<1>3. ASSUME NEW i \in 1..Len(p), LastDisc(p, i)
      PROVE  p[i].value = finds
  <2>1. \A j \in (i + 2)..Len(e) : ~Disc(e, j)
    <3> SUFFICES ASSUME NEW j \in (i + 2)..Len(e) PROVE ~Disc(e, j)
      OBVIOUS
    <3>1. j - 1 \in (i + 1)..Len(p) /\ j - 1 \in 1..Len(p) /\ (j - 1) + 1 = j
      BY <1>1
    <3>2. QED
      BY <1>2, <1>3, <3>1 DEF LastDisc
  <2>2. i + 1 \in 1..Len(e) /\ (i + 1) + 1 = i + 2
    BY <1>1
  <2>3. LastDisc(e, i + 1)
    BY <1>2, <1>3, <2>1, <2>2 DEF LastDisc
  <2>4. QED
    BY <1>1, <2>2, <2>3 DEF LastTold
<1>4. ASSUME \A i \in 1..Len(p) : ~Disc(p, i)
      PROVE  known = finds
  <2>1. \A j \in 2..Len(e) : ~Disc(e, j)
    <3> SUFFICES ASSUME NEW j \in 2..Len(e) PROVE ~Disc(e, j)
      OBVIOUS
    <3>1. j - 1 \in 1..Len(p) /\ (j - 1) + 1 = j
      BY <1>1
    <3>2. QED
      BY <1>2, <1>4, <3>1
  <2>2. ~Disc(e, 2)
    BY <2>1 DEF Disc
  <2>3. CASE Head(e).kind = "discovering" /\ known = Head(e).value
    <3>1. Disc(e, 1) /\ 1 \in 1..Len(e) /\ 1 + 1 = 2
      BY <1>1, <2>3 DEF Disc
    <3>2. LastDisc(e, 1)
      BY <2>1, <3>1 DEF LastDisc
    <3>3. QED
      BY <1>1, <2>3, <3>1, <3>2 DEF LastTold
  <2>4. CASE Head(e).kind # "discovering" /\ known = enable
    <3>1. \A i \in 1..Len(e) : ~Disc(e, i)
      <4> SUFFICES ASSUME NEW i \in 1..Len(e) PROVE ~Disc(e, i)
        OBVIOUS
      <4>1. CASE i = 1
        BY <1>1, <2>4, <4>1 DEF Disc
      <4>2. CASE i # 1
        BY <1>1, <2>1, <4>2
      <4>3. QED
        BY <4>1, <4>2
    <3>2. QED
      BY <2>4, <3>1 DEF LastTold
  <2>5. QED
    BY <2>2, <2>3, <2>4
<1>5. QED
  BY <1>3, <1>4 DEF LastTold, p

LEMMA ReplyMore ==
    ASSUME NEW e \in Seq(Event), NEW x \in Event, NEW q, ReplyInv(e, q), x.kind # "reply"
    PROVE  ReplyInv(Append(e, x), q)
<1> DEFINE p == Append(e, x)
<1>1. /\ Len(p) = Len(e) + 1 /\ Len(e) \in Nat /\ p[Len(e) + 1] = x
      /\ \A i \in 1..Len(e) : p[i] = e[i]
      /\ \A i \in 1..Len(p) : i = Len(e) + 1 \/ i \in 1..Len(e)
  OBVIOUS
<1> HIDE DEF p
<1> SUFFICES ASSUME NEW i \in 1..Len(p), p[i].kind = "reply"
             PROVE  /\ q # <<>>
                    /\ \A j \in 1..Len(p) : p[j].kind = "reply" => j = i
                    /\ p[i].value /\ Head(q).op \in {"start", "stop"} => Disc(p, i + 1)
  BY DEF ReplyInv, p
<1>2. i \in 1..Len(e) /\ e[i] = p[i]
  BY <1>1
<1>3. \A j \in 1..Len(p) : p[j].kind = "reply" => j \in 1..Len(e) /\ e[j].kind = "reply"
  BY <1>1
<1>4. Disc(e, i + 1) => Disc(p, i + 1)
  BY <1>1 DEF Disc
<1>5. QED
  BY <1>2, <1>3, <1>4 DEF ReplyInv

(* The first event is taken, and with a reply its command. *)
LEMMA ReplyLess ==
    ASSUME NEW e \in Seq(Event), e # <<>>, NEW q, NEW p, ReplyInv(e, q),
           Head(e).kind = "reply" \/ p = q
    PROVE  ReplyInv(Tail(e), p)
<1> DEFINE t == Tail(e)
<1>1. /\ Len(t) = Len(e) - 1 /\ Len(e) \in Nat \ {0} /\ Head(e) = e[1]
      /\ \A i \in 1..Len(t) : t[i] = e[i + 1] /\ i + 1 \in 1..Len(e)
  OBVIOUS
<1> HIDE DEF t
<1> SUFFICES ASSUME NEW i \in 1..Len(t), t[i].kind = "reply"
             PROVE  /\ p # <<>>
                    /\ \A j \in 1..Len(t) : t[j].kind = "reply" => j = i
                    /\ t[i].value /\ Head(p).op \in {"start", "stop"} => Disc(t, i + 1)
  BY DEF ReplyInv, t
<1>2. i + 1 \in 1..Len(e) /\ e[i + 1] = t[i] /\ e[i + 1].kind = "reply"
  BY <1>1
<1>3. /\ q # <<>>
      /\ \A j \in 1..Len(e) : e[j].kind = "reply" => j = i + 1
      /\ e[i + 1].value /\ Head(q).op \in {"start", "stop"} => Disc(e, (i + 1) + 1)
  BY <1>2 DEF ReplyInv
<1>4. Head(e).kind # "reply"
  <2>1. 1 \in 1..Len(e) /\ i + 1 # 1
    BY <1>1
  <2>2. QED
    BY <1>1, <1>3, <2>1
<1>5. \A j \in 1..Len(t) : t[j].kind = "reply" => j + 1 = i + 1
  BY <1>1, <1>3
<1>6. Disc(e, (i + 1) + 1) => Disc(t, i + 1)
  BY <1>1 DEF Disc
<1>7. QED
  BY <1>2, <1>3, <1>4, <1>5, <1>6

(* Commands are added behind the first. *)
Grows(q, p) ==
    /\ q # <<>> => p # <<>> /\ Head(p) = Head(q)
    /\ OpInv(q) => OpInv(p)

LEMMA GrowsByOne ==
    ASSUME NEW q \in Seq(Request), NEW r \in Request,
           r.then \in {"start", "stop", "suspend"} => r.op \in {"start", "stop"}
    PROVE  Grows(q, Append(q, r)) /\ Append(q, r) \in Seq(Request)
<1> DEFINE p == Append(q, r)
<1>1. /\ Len(p) = Len(q) + 1 /\ Len(q) \in Nat /\ p[Len(q) + 1] = r /\ p # <<>>
      /\ \A i \in 1..Len(q) : p[i] = q[i]
      /\ \A i \in 1..Len(p) : i = Len(q) + 1 \/ i \in 1..Len(q)
      /\ p \in Seq(Request)
  OBVIOUS
<1>2. Head(p) = p[1] /\ (q # <<>> => Head(q) = q[1] /\ 1 \in 1..Len(q))
  OBVIOUS
<1> HIDE DEF p
<1>3. q # <<>> => Head(p) = Head(q)
  BY <1>1, <1>2
<1>4. OpInv(q) => OpInv(p)
  BY <1>1 DEF OpInv
<1>5. QED
  BY <1>1, <1>3, <1>4 DEF Grows, p

LEMMA GrowsKeeps ==
    ASSUME NEW q, NEW p, Grows(q, p), NEW e, ReplyInv(e, q)
    PROVE  ReplyInv(e, p)
BY DEF Grows, ReplyInv

(* The handlers of calls, and of the timer, say nothing of the kernel. *)
LEMMA CallTold ==
    ASSUME EInv, d'.enable = d.enable, Grows(d.requests, d'.requests),
           UNCHANGED <<kernel, events>>
    PROVE  EInv'
BY GrowsKeeps DEF EInv, Grows

LEMMA SendGrows ==
    ASSUME NEW s \in Adapter, NEW op \in {"start", "pair"},
           NEW then \in {"stop", "suspend", NONE}, NEW typed \in BOOLEAN
    PROVE  /\ Grows(s.requests, Send(s, op).requests) /\ Send(s, op).enable = s.enable
           /\ Send(s, op).requests \in Seq(Request)
           /\ Grows(s.requests, SendStop(s, then, typed).requests)
           /\ SendStop(s, then, typed).enable = s.enable
           /\ SendStop(s, then, typed).requests \in Seq(Request)
<1> DEFINE r == [op |-> op, then |-> op, typed |-> TRUE]
           q == [op |-> "stop", then |-> then, typed |-> typed]
<1>1. /\ r \in Request /\ q \in Request
      /\ r.then \in {"start", "stop", "suspend"} => r.op \in {"start", "stop"}
      /\ q.then \in {"start", "stop", "suspend"} => q.op \in {"start", "stop"}
  BY DEF Request
<1>2. /\ Send(s, op).requests = Append(s.requests, r)
      /\ SendStop(s, then, typed).requests = Append(s.requests, q)
      /\ Send(s, op).enable = s.enable /\ SendStop(s, then, typed).enable = s.enable
      /\ s.requests \in Seq(Request)
  BY DEF Send, SendStop, Adapter
<1> HIDE DEF r, q
<1>3. QED
  BY <1>1, <1>2, GrowsByOne

LEMMA StopGrows ==
    ASSUME NEW s \in Adapter, NEW c \in Client
    PROVE  LET t == DiscoveryStop(s, c)
           IN  t.enable = s.enable /\ Grows(s.requests, t.requests)
<1> DEFINE r == Remove(s, c)
           v == [r EXCEPT !.discovering = FALSE]
           t == [s EXCEPT !.client = c]
<1>1. r \in Adapter /\ SameState(s, r)
  BY RemoveTypes, RemoveState
<1>2. t \in Adapter /\ t.enable = s.enable /\ t.requests = s.requests /\ s.typed \in BOOLEAN
  BY DEF Adapter
<1>3. DiscoveryStop(s, c) \in {UpdateFilter(r), v, SendStop(t, "stop", s.typed)}
  BY DEF DiscoveryStop
<1> HIDE DEF r, t
<1>4. SameState(r, UpdateFilter(r))
  BY <1>1, UpdateState
<1>5. v.enable = r.enable /\ v.requests = r.requests
  BY <1>1 DEF Adapter
<1>6. LET u == SendStop(t, "stop", s.typed)
      IN  u.enable = t.enable /\ Grows(t.requests, u.requests)
  BY <1>2, SendGrows
<1> HIDE DEF v
<1>7. QED
  BY <1>1, <1>2, <1>3, <1>4, <1>5, <1>6 DEF SameState, Grows

LEMMA ClientsTold ==
    ASSUME IInv, EInv, Clients
    PROVE  EInv'
<1>1. PICK c \in Client :
         \/ StartDiscovery(c) \/ StopDiscovery(c) \/ Disconnect(c)
         \/ \E f \in Filter \cup {NONE} : SetDiscoveryFilter(c, f)
  BY DEF Clients
<1>2. d \in Adapter /\ UNCHANGED <<kernel, events>>
  BY <1>1 DEF IInv, TypeOK, StartDiscovery, StopDiscovery, Disconnect, SetDiscoveryFilter, Calls
<1>3. CASE StartDiscovery(c)
  <2> DEFINE s == [d EXCEPT !.preset = d.preset \ {c}, !.list = d.list \cup {c}]
             u == UpdateFilter(s)
  <2>1. d' = IF Restarts(s) THEN Waits(u, c, "start") ELSE s
    BY <1>3 DEF StartDiscovery
  <2>2. s \in Adapter /\ SameState(d, s)
    BY <1>2 DEF Adapter, SameState
  <2> HIDE DEF s
  <2>3. u \in Adapter /\ SameState(s, u)
    BY <2>2, UpdateTypes, UpdateState
  <2> HIDE DEF u
  <2>4. SameState(u, Waits(u, c, "start"))
    BY <2>3, WaitsState
  <2>5. SameState(d, d')
    BY <2>1, <2>2, <2>3, <2>4 DEF SameState
  <2>6. QED
    BY <1>2, <2>5, CallTold DEF SameState, Grows
<1>4. CASE StopDiscovery(c)
  <2> DEFINE s == DiscoveryStop(d, c)
  <2>1. d' = IF InProgress(d) THEN Waits(s, c, "stop") ELSE s
    BY <1>4 DEF StopDiscovery
  <2>2. s \in Adapter /\ s.enable = d.enable /\ Grows(d.requests, s.requests)
    BY <1>2, StopTypes, StopGrows
  <2> HIDE DEF s
  <2>3. SameState(s, Waits(s, c, "stop"))
    BY <2>2, WaitsState
  <2>4. d'.enable = d.enable /\ d'.requests = s.requests
    BY <2>1, <2>2, <2>3 DEF SameState
  <2>5. QED
    BY <1>2, <2>2, <2>4, CallTold
<1>5. CASE Disconnect(c)
  <2> DEFINE s == [d EXCEPT !.watched = d.watched \ {c}]
             u == DiscoveryStop(s, c)
  <2>1. d' \in {u, s}
    BY <1>5 DEF Disconnect
  <2>2. s \in Adapter /\ SameState(d, s)
    BY <1>2 DEF Adapter, SameState
  <2> HIDE DEF s
  <2>3. u.enable = s.enable /\ Grows(s.requests, u.requests)
    BY <2>2, StopGrows
  <2> HIDE DEF u
  <2>4. d'.enable = d.enable /\ Grows(d.requests, d'.requests)
    BY <2>1, <2>2, <2>3 DEF SameState, Grows
  <2>5. QED
    BY <1>2, <2>4, CallTold
<1>6. CASE \E f \in Filter \cup {NONE} : SetDiscoveryFilter(c, f)
  <2>1. PICK f \in Filter \cup {NONE} : SetDiscoveryFilter(c, f)
    BY <1>6
  <2> DEFINE g == [d.filter EXCEPT ![c] = f]
             s == [d EXCEPT !.filter = g]
             t == [s EXCEPT !.preset = s.preset \cup {c}]
             r == Free(d, {c})
             u == [r EXCEPT !.preset = r.preset \ {c}]
             v == UpdateFilter(s)
  <2>2. d' \in {v, t, u}
    BY <2>1 DEF SetDiscoveryFilter
  <2>3. g \in [Client -> Filter \cup {NONE}]
    BY <1>2 DEF Adapter
  <2> HIDE DEF g
  <2>4. s \in Adapter /\ SameState(d, s)
    BY <1>2, <2>3 DEF Adapter, SameState
  <2> HIDE DEF s
  <2>5. SameState(s, t)
    BY <2>4 DEF Adapter, SameState
  <2>6. r \in Adapter /\ SameState(d, r)
    <3>1. {c} \in SUBSET Client
      OBVIOUS
    <3>2. QED
      BY <1>2, <3>1, FreeTypes, FreeState
  <2> HIDE DEF r
  <2>7. SameState(r, u)
    BY <2>6 DEF Adapter, SameState
  <2>8. SameState(s, v)
    BY <2>4, UpdateState
  <2> HIDE DEF t, u, v
  <2>9. SameState(d, d')
    BY <2>2, <2>4, <2>5, <2>6, <2>7, <2>8 DEF SameState
  <2>10. QED
    BY <1>2, <2>9, CallTold DEF SameState, Grows
<1>7. QED
  BY <1>1, <1>3, <1>4, <1>5, <1>6

LEMMA PairTold ==
    ASSUME IInv, EInv, Pair
    PROVE  EInv'
<1> DEFINE s == [d EXCEPT !.suspended = TRUE, !.timer = d.timer /\ d.list = {}]
           v == SendStop(s, "suspend", s.typed)
           t == IF d.list # {} /\ d.enable THEN v ELSE s
<1>1. d \in Adapter /\ d' = Send(t, "pair") /\ UNCHANGED <<kernel, events>>
  BY DEF IInv, TypeOK, Pair
<1>2. /\ s \in Adapter /\ s.typed \in BOOLEAN /\ s.enable = d.enable
      /\ s.requests = d.requests
  BY <1>1 DEF Adapter
<1> HIDE DEF s
<1>3. v \in Adapter /\ v.enable = s.enable /\ Grows(s.requests, v.requests)
  BY <1>2, SendTypes, SendGrows
<1> HIDE DEF v
<1>4. t \in Adapter /\ t.enable = d.enable /\ Grows(d.requests, t.requests)
  BY <1>2, <1>3 DEF Grows
<1> HIDE DEF t
<1>5. LET w == Send(t, "pair")
      IN  w.enable = t.enable /\ Grows(t.requests, w.requests)
  BY <1>4, SendGrows
<1>6. d'.enable = d.enable /\ Grows(d.requests, d'.requests)
  BY <1>1, <1>4, <1>5 DEF Grows
<1>7. QED
  BY <1>1, <1>6, CallTold

LEMMA TimeoutTold ==
    ASSUME IInv, EInv, StartDiscoveryTimeout
    PROVE  EInv'
<1> DEFINE s == [d EXCEPT !.timer = FALSE]
           t == [s EXCEPT !.discovering = TRUE]
           u == Send(s, "start")
           v == SendStop(s, NONE, s.typed)
<1>1. d \in Adapter /\ d' \in {t, u, v} /\ UNCHANGED <<kernel, events>>
  BY DEF IInv, TypeOK, StartDiscoveryTimeout
<1>2. /\ s \in Adapter /\ s.typed \in BOOLEAN /\ s.enable = d.enable
      /\ s.requests = d.requests
  BY <1>1 DEF Adapter
<1> HIDE DEF s
<1>3. t.enable = s.enable /\ t.requests = s.requests
  BY <1>2 DEF Adapter
<1>4. /\ u.enable = s.enable /\ Grows(s.requests, u.requests)
      /\ v.enable = s.enable /\ Grows(s.requests, v.requests)
  <2>1. "start" \in {"start", "pair"} /\ NONE \in {"stop", "suspend", NONE}
    OBVIOUS
  <2>2. QED
    BY <1>2, <2>1, SendGrows
<1> HIDE DEF t, u, v
<1>5. d'.enable = d.enable /\ Grows(d.requests, d'.requests)
  BY <1>1, <1>2, <1>3, <1>4 DEF Grows
<1>6. QED
  BY <1>1, <1>5, CallTold

(* A reply changes what bluetoothd knows of the kernel only if it is of a   *)
(* start or a stop that succeeded.                                          *)
LEMMA ReplySays ==
    ASSUME NEW s \in Adapter, NEW success \in BOOLEAN,
           NEW then \in {"start", "stop", "suspend", "pair", NONE},
           NEW t, t = Callback(s, then, success)
    PROVE  /\ t.enable = s.enable \/ (success /\ then \in {"start", "stop", "suspend"})
           /\ OpInv(s.requests) => OpInv(t.requests)
<1>1. CASE then = "start"
  <2> DEFINE u == [s EXCEPT !.typed = TRUE, !.enable = TRUE, !.discovering = TRUE,
                            !.filtered = s.current # NONE]
             v == SendStop(s, NONE, TRUE)
  <2>1. t = StartComplete(s, success)
    BY <1>1, DiscoveryAssumption DEF Callback
  <2>2. \/ t \in {s, v, RemoveWaiting(s), TriggerStart(s)}
        \/ success /\ t = Complete(u)
    BY <2>1 DEF StartComplete
  <2>3. u \in Adapter /\ u.requests = s.requests
    BY DEF Adapter
  <2> HIDE DEF u
  <2>4. SameState(u, Complete(u))
    BY <2>3, CompleteState
  <2>5. SameState(s, RemoveWaiting(s))
    BY RemoveWaitingState
  <2>6. SameState(s, TriggerStart(s))
    BY DEF TriggerStart, SameState, Adapter
  <2>7. v.enable = s.enable /\ Grows(s.requests, v.requests)
    <3>1. NONE \in {"stop", "suspend", NONE} /\ "start" \in {"start", "pair"} /\ TRUE \in BOOLEAN
      OBVIOUS
    <3>2. QED
      BY <3>1, SendGrows
  <2> HIDE DEF v
  <2>8. t.enable = s.enable \/ success
    BY <2>2, <2>5, <2>6, <2>7 DEF SameState
  <2>9. OpInv(s.requests) => OpInv(t.requests)
    BY <2>2, <2>3, <2>4, <2>5, <2>6, <2>7 DEF SameState, Grows
  <2>10. QED
    BY <1>1, <2>8, <2>9
<1>2. CASE then = "stop"
  <2> DEFINE r == RemoveWaiting(s)
             u == [r EXCEPT !.typed = FALSE, !.enable = FALSE, !.filtered = FALSE,
                            !.discovering = FALSE]
  <2>1. t = IF success THEN u ELSE r
    BY <1>2, DiscoveryAssumption DEF Callback, StopComplete
  <2>2. r \in Adapter /\ SameState(s, r)
    BY RemoveWaitingState
  <2> HIDE DEF r
  <2>3. u.requests = r.requests
    BY <2>2 DEF Adapter
  <2>4. QED
    BY <1>2, <2>1, <2>2, <2>3 DEF SameState
<1>3. CASE then = "suspend"
  <2>1. t = IF success THEN [s EXCEPT !.typed = FALSE, !.enable = FALSE] ELSE s
    BY <1>3, DiscoveryAssumption DEF Callback, SuspendComplete
  <2>2. QED
    BY <1>3, <2>1 DEF Adapter
<1>4. CASE then = "pair"
  <2> DEFINE v == [s EXCEPT !.suspended = FALSE]
             w == [v EXCEPT !.timer = v.powered]
  <2>1. t \in {v, w}
    BY <1>4, DiscoveryAssumption DEF Callback, ResumeDiscovery, TriggerStart
  <2>2. \A x \in {v, w} : x.enable = s.enable /\ x.requests = s.requests
    BY DEF Adapter
  <2>3. t.enable = s.enable /\ t.requests = s.requests
    BY <2>1, <2>2
  <2>4. QED
    BY <2>3
<1>5. CASE then = NONE
  <2>1. then \notin {"start", "stop", "suspend", "pair"}
    BY <1>5, DiscoveryAssumption
  <2>2. t = s
    BY <1>5, <2>1 DEF Callback
  <2>3. QED
    BY <2>2
<1>6. QED
  BY <1>1, <1>2, <1>3, <1>4, <1>5

LEMMA ReplyTold ==
    ASSUME IInv, EInv, Reply
    PROVE  EInv'
<1> DEFINE s == [d EXCEPT !.requests = Tail(d.requests)]
           head == Head(d.requests)
           success == Head(events).value
<1>1. /\ d \in Adapter /\ events # <<>> /\ events' = Tail(events) /\ kernel' = kernel
      /\ Head(events).kind = "reply" /\ d.requests # <<>>
      /\ d' = Callback(s, head.then, success) /\ events \in Seq(Event)
  BY DEF IInv, TypeOK, Reply, Takes
<1>2. Tail(d.requests) \in Seq(Request) /\ head \in Request /\ d.requests \in Seq(Request)
  BY <1>1 DEF Adapter
<1>3. head.then \in {"start", "stop", "suspend", "pair", NONE}
  BY <1>2 DEF Request
<1>4. success \in BOOLEAN
  <2>1. Head(events) \in Event
    BY <1>1
  <2>2. QED
    BY <2>1 DEF Event
<1>5. s \in Adapter /\ s.requests = Tail(d.requests) /\ s.enable = d.enable
  BY <1>1, <1>2 DEF Adapter
<1> HIDE DEF s
<1>6. /\ d'.enable = d.enable \/ (success /\ head.then \in {"start", "stop", "suspend"})
      /\ OpInv(s.requests) => OpInv(d'.requests)
  BY <1>1, <1>3, <1>4, <1>5, ReplySays
<1>7. OpInv(d.requests) /\ ReplyInv(events, d.requests)
      /\ LastTold(events, d.enable, kernel.finds)
  BY DEF EInv
<1>8. OpInv(s.requests)
  <2> DEFINE q == d.requests
  <2>1. \A i \in 1..Len(Tail(q)) : i + 1 \in 1..Len(q) /\ Tail(q)[i] = q[i + 1]
    BY <1>1, <1>2
  <2>2. QED
    BY <1>5, <1>7, <2>1 DEF OpInv
<1>9. 1 \in 1..Len(events) /\ Head(events) = events[1]
      /\ 1 \in 1..Len(d.requests) /\ head = d.requests[1]
  BY <1>1, <1>2
<1>10. head.then \in {"start", "stop", "suspend"} => head.op \in {"start", "stop"}
  BY <1>7, <1>9 DEF OpInv
<1>11. success /\ head.op \in {"start", "stop"} => Disc(events, 1 + 1)
  BY <1>1, <1>7, <1>9 DEF ReplyInv
<1>12. d'.enable = d.enable \/ Disc(events, 2)
  BY <1>6, <1>10, <1>11
<1>13. Head(events).kind # "discovering"
  BY <1>1
<1>14. LastTold(Tail(events), d'.enable, kernel.finds)
  BY <1>1, <1>7, <1>12, <1>13, ToldLess
<1>15. ReplyInv(Tail(events), d'.requests)
  BY <1>1, <1>7, ReplyLess
<1>16. QED
  BY <1>1, <1>6, <1>8, <1>14, <1>15 DEF EInv

LEMMA EventTold ==
    ASSUME IInv, EInv, Discovering \/ Powered
    PROVE  EInv'
<1> DEFINE on == Head(events).value
           s == [d EXCEPT !.typed = TRUE, !.enable = on]
           t == [s EXCEPT !.timer = FALSE]
           v == [s EXCEPT !.timer = s.powered]
           gone == d.list \cup d.preset
           f == Free(d, gone)
           k == Cleanup(f)
           w == [k EXCEPT !.list = {}, !.preset = {}, !.current = NONE,
                          !.filtered = FALSE, !.discovering = FALSE]
           a == [d EXCEPT !.powered = on]
           b == [w EXCEPT !.powered = on]
<1>1. /\ d \in Adapter /\ events \in Seq(Event) /\ events # <<>> /\ events' = Tail(events)
      /\ kernel' = kernel
  BY DEF IInv, TypeOK, Discovering, Powered, Takes
<1>2. ReplyInv(events, d.requests) /\ LastTold(events, d.enable, kernel.finds)
      /\ OpInv(d.requests)
  BY DEF EInv
<1>3. ASSUME Discovering PROVE EInv'
  <2>1. Head(events).kind = "discovering"
    BY <1>3 DEF Discovering, Takes
  <2>2. (d' = d /\ d.enable = on) \/ d' \in {s, t, v}
    BY <1>3 DEF Discovering, TriggerStart
  <2> HIDE DEF on
  <2>3. \A x \in {s, t, v} : x.enable = on /\ x.requests = d.requests
    BY <1>1 DEF Adapter
  <2> HIDE DEF s, t, v
  <2>4. d'.enable = on /\ d'.requests = d.requests
    BY <2>2, <2>3
  <2>5. LastTold(Tail(events), d'.enable, kernel.finds)
    BY <1>1, <1>2, <2>1, <2>4, ToldLess DEF on
  <2>6. ReplyInv(Tail(events), d.requests)
    BY <1>1, <1>2, ReplyLess
  <2>7. QED
    BY <1>1, <1>2, <2>4, <2>5, <2>6 DEF EInv
<1>4. ASSUME Powered PROVE EInv'
  <2>1. Head(events).kind = "powered" /\ d' \in {a, b}
    BY <1>4 DEF Powered, Takes
  <2>2. gone \in SUBSET Client
    BY <1>1 DEF Adapter
  <2> HIDE DEF on, gone
  <2>3. a.enable = d.enable /\ a.requests = d.requests
    BY <1>1 DEF Adapter
  <2>4. f \in Adapter /\ SameState(d, f)
    BY <1>1, <2>2, FreeTypes, FreeState
  <2> HIDE DEF a, f
  <2>5. b.enable = f.enable /\ b.requests = f.requests
    BY <2>4 DEF Adapter, Cleanup
  <2> HIDE DEF b
  <2>6. d'.enable = d.enable /\ d'.requests = d.requests
    BY <2>1, <2>3, <2>4, <2>5 DEF SameState
  <2>7. LastTold(Tail(events), d'.enable, kernel.finds)
    BY <1>1, <1>2, <2>1, <2>6, ToldLess
  <2>8. ReplyInv(Tail(events), d.requests)
    BY <1>1, <1>2, ReplyLess
  <2>9. QED
    BY <1>1, <1>2, <2>6, <2>7, <2>8 DEF EInv
<1>5. QED
  BY <1>3, <1>4

(* The kernel tells what it does. *)
LEMMA ServeTold ==
    ASSUME IInv, EInv, Serve
    PROVE  EInv'
<1> DEFINE q == d.requests
           request == Head(q)
           n == Len(events) + 1
<1>1. /\ q # <<>> /\ d' = d
      /\ \A i \in 1..Len(events) : events[i].kind # "reply"
      /\ events \in Seq(Event) /\ kernel \in [on: BOOLEAN, finds: BOOLEAN]
  BY DEF Serve, IInv, TypeOK
<1>2. LastTold(events, d.enable, kernel.finds) /\ OpInv(q)
  BY DEF EInv
<1>3. PICK success \in BOOLEAN :
         IF request.op \in {"start", "stop"} /\ success
         THEN /\ kernel' = [kernel EXCEPT !.finds = request.op = "start"]
              /\ events' = events \o <<Tell("reply", TRUE),
                                       Tell("discovering", request.op = "start")>>
         ELSE /\ events' = Append(events, Tell("reply", success))
              /\ UNCHANGED kernel
  BY DEF Serve
<1>4. PICK on \in BOOLEAN : on = (request.op = "start")
  OBVIOUS
<1> DEFINE x == Tell("reply", success)
           y == Tell("discovering", on)
           p == Append(events, x)
<1>5. /\ x \in Event /\ x.kind = "reply" /\ x.value = success
      /\ y \in Event /\ y.kind = "discovering" /\ y.value = on
  BY DEF Tell, Event
<1> HIDE DEF x, y
<1>6. /\ p \in Seq(Event) /\ Len(p) = n /\ n \in Nat \ {0} /\ p[n] = x
      /\ \A i \in 1..Len(events) : p[i] = events[i]
      /\ \A i \in 1..Len(p) : i = n \/ i \in 1..Len(events)
  BY <1>1, <1>5
<1> HIDE DEF p
<1>7. LastTold(p, d.enable, kernel.finds)
  BY <1>1, <1>2, <1>5, ToldMore DEF p
<1>8. \A i \in 1..Len(p) : p[i].kind = "reply" => i = n
  BY <1>1, <1>6
<1>9. CASE ~(request.op \in {"start", "stop"} /\ success)
  <2>1. events' = p /\ kernel' = kernel
    BY <1>3, <1>9 DEF p, x
  <2>2. ReplyInv(p, q)
    BY <1>1, <1>5, <1>6, <1>8, <1>9 DEF ReplyInv
  <2>3. QED
    BY <1>1, <1>2, <1>7, <2>1, <2>2 DEF EInv
<1>10. CASE request.op \in {"start", "stop"} /\ success
  <2> DEFINE r == Append(p, y)
  <2>1. kernel' = [kernel EXCEPT !.finds = on] /\ events' = events \o <<x, y>>
    <3>1. success = TRUE
      BY <1>10
    <3>2. Tell("reply", TRUE) = x
      BY <3>1 DEF x
    <3>3. QED
      BY <1>3, <1>4, <1>10, <3>2 DEF y
  <2>2. kernel'.finds = on
    BY <1>1, <2>1
  <2>3. events' = r
    BY <1>1, <1>5, <2>1 DEF p
  <2>4. /\ r \in Seq(Event) /\ Len(r) = n + 1 /\ r[n + 1] = y
        /\ \A i \in 1..n : r[i] = p[i]
        /\ \A i \in 1..Len(r) : i = n + 1 \/ i \in 1..n
    BY <1>5, <1>6
  <2> HIDE DEF r
  <2>5. LastTold(r, d.enable, on)
    BY <1>5, <1>6, <1>7, ToldMore DEF r
  <2>6. \A i \in 1..Len(r) : r[i].kind = "reply" => i = n
    BY <1>5, <1>6, <1>8, <2>4
  <2>7. n + 1 \in 1..Len(r)
    BY <1>6, <2>4
  <2>8. Disc(r, n + 1)
    BY <1>5, <2>4, <2>7 DEF Disc
  <2>9. ReplyInv(r, q)
    BY <1>1, <2>6, <2>8 DEF ReplyInv
  <2>10. QED
    BY <1>1, <1>2, <2>2, <2>3, <2>5, <2>9 DEF EInv
<1>11. QED
  BY <1>9, <1>10

LEMMA KernelTold ==
    ASSUME IInv, EInv, Kernel
    PROVE  EInv'
<1> DEFINE on == Tell("discovering", TRUE)
           off == Tell("discovering", FALSE)
           power == Tell("powered", ~kernel.on)
<1>1. /\ d' = d /\ events \in Seq(Event) /\ kernel \in [on: BOOLEAN, finds: BOOLEAN]
      /\ LastTold(events, d.enable, kernel.finds) /\ ReplyInv(events, d.requests)
      /\ OpInv(d.requests)
  BY DEF Kernel, Serve, Ends, StartedElsewhere, Switched, IInv, TypeOK, EInv
<1>2. /\ on \in Event /\ on.kind = "discovering" /\ on.value = TRUE
      /\ off \in Event /\ off.kind = "discovering" /\ off.value = FALSE
      /\ power \in Event /\ power.kind = "powered"
  <2>1. (~kernel.on) \in BOOLEAN
    OBVIOUS
  <2>2. QED
    BY <2>1 DEF Tell, Event
<1>3. ASSUME Ends PROVE EInv'
  <2>1. kernel'.finds = FALSE /\ events' = Append(events, off)
    BY <1>1, <1>3 DEF Ends
  <2> HIDE DEF off
  <2>2. LastTold(Append(events, off), d.enable, FALSE) /\ ReplyInv(Append(events, off), d.requests)
    BY <1>1, <1>2, ToldMore, ReplyMore
  <2>3. QED
    BY <1>1, <2>1, <2>2 DEF EInv
<1>4. ASSUME StartedElsewhere PROVE EInv'
  <2>1. kernel'.finds = TRUE /\ events' = Append(events, on)
    BY <1>1, <1>4 DEF StartedElsewhere
  <2> HIDE DEF on
  <2>2. LastTold(Append(events, on), d.enable, TRUE) /\ ReplyInv(Append(events, on), d.requests)
    BY <1>1, <1>2, ToldMore, ReplyMore
  <2>3. QED
    BY <1>1, <2>1, <2>2 DEF EInv
<1>5. ASSUME Switched PROVE EInv'
  <2> DEFINE e == IF kernel.finds THEN Append(events, off) ELSE events
  <2> HIDE DEF on, off, power
  <2>1. /\ kernel'.finds = FALSE
        /\ events' = events \o (IF kernel.finds THEN <<off>> ELSE <<>>) \o <<power>>
    BY <1>5 DEF Switched, off, power
  <2>2. e \in Seq(Event) /\ LastTold(e, d.enable, FALSE) /\ ReplyInv(e, d.requests)
    <3>1. CASE kernel.finds
      <4>1. /\ Append(events, off) \in Seq(Event)
            /\ LastTold(Append(events, off), d.enable, FALSE)
            /\ ReplyInv(Append(events, off), d.requests)
        <5>1. off.kind # "reply" /\ off.value = FALSE
          BY <1>2
        <5>2. LastTold(Append(events, off), d.enable, FALSE)
          BY <1>1, <1>2, ToldMore
        <5>3. ReplyInv(Append(events, off), d.requests)
          BY <1>1, <1>2, <5>1, ReplyMore
        <5>4. events \in Seq(Event) /\ off \in Event
          BY <1>1, <1>2
        <5>5. Append(events, off) \in Seq(Event)
          BY <5>4
        <5>6. QED
          BY <5>2, <5>3, <5>5
      <4>2. QED
        BY <3>1, <4>1
    <3>2. CASE ~kernel.finds
      <4>1. kernel.finds = FALSE
        BY <1>1, <3>2
      <4>2. QED
        BY <1>1, <4>1
    <3>3. QED
      BY <3>1, <3>2
  <2>3. events' = Append(e, power)
    <3>1. CASE kernel.finds
      <4>1. events \o <<off>> = Append(events, off)
        BY <1>1, <1>2
      <4>2. events' = Append(events, off) \o <<power>>
        BY <2>1, <3>1, <4>1
      <4>3. e = Append(events, off)
        BY <3>1
      <4> HIDE DEF e
      <4>4. QED
        BY <1>2, <2>2, <4>2, <4>3
    <3>2. CASE ~kernel.finds
      <4>1. events \o <<>> = events
        BY <1>1
      <4>2. events' = events \o <<power>> /\ e = events
        BY <2>1, <3>2, <4>1
      <4>3. QED
        BY <1>1, <1>2, <4>2
    <3>3. QED
      BY <3>1, <3>2
  <2> HIDE DEF e
  <2>4. LastTold(Append(e, power), d.enable, FALSE) /\ ReplyInv(Append(e, power), d.requests)
    BY <1>2, <2>2, ToldMore, ReplyMore
  <2>5. QED
    BY <1>1, <2>1, <2>3, <2>4 DEF EInv
<1>6. QED
  BY <1>3, <1>4, <1>5, ServeTold DEF Kernel

LEMMA ToldHolds == Init => EInv
<1> SUFFICES ASSUME Init PROVE EInv
  OBVIOUS
<1>1. Len(events) = 0 /\ Len(d.requests) = 0 /\ d.enable = kernel.finds
  BY DEF Init
<1>2. QED
  BY <1>1 DEF EInv, LastTold, ReplyInv, OpInv

LEMMA NextTold == IInv /\ EInv /\ [Next]_vars => EInv'
<1> SUFFICES ASSUME IInv, EInv, [Next]_vars PROVE EInv'
  OBVIOUS
<1>1. ASSUME Bluetoothd PROVE EInv'
  BY <1>1, TimeoutTold, ReplyTold, EventTold DEF Bluetoothd
<1>2. ASSUME UNCHANGED vars PROVE EInv'
  BY <1>2 DEF vars, EInv
<1>3. QED
  BY <1>1, <1>2, ClientsTold, PairTold, KernelTold DEF Next

LEMMA SettledInvariance == Spec => [](IInv /\ RInv /\ EInv)
<1>1. Init => IInv /\ RInv /\ EInv
  BY InitHolds, WantedHolds, ToldHolds
<1>2. IInv /\ RInv /\ EInv /\ [Next]_vars => (IInv /\ RInv /\ EInv)'
  BY NextKeeps, NextWanted, NextTold
<1>3. QED
  BY <1>1, <1>2, PTL DEF Spec

(* The state of the adapter, of the kernel and of what is on its way between *)
(* them stays in its type, whatever is called (adapter.c:207 to 296).        *)
THEOREM DiscoveryTypes == Spec => []TypeOK
<1>1. IInv => TypeOK
  BY DEF IInv
<1>2. QED
  BY <1>1, Invariance, PTL

(* What the kernel is to filter for is the merge of what the listed clients *)
(* ask for, through every call, disconnection, suspension and power-off; the *)
(* one exception is a reply that removes one client of several              *)
(* (adapter.c:1873 and 2136 do not merge again).                             *)
THEOREM FilterIsMergedAlways == Spec => []FilterIsMerged
<1>1. IInv => FilterIsMerged
  BY DEF IInv, FilterIsMerged, MergedInv
<1>2. QED
  BY <1>1, Invariance, PTL

(* adapter->client, which discovery_complete (adapter.c:1790) dereferences  *)
(* when a reply comes, has not been freed while the client is connected.    *)
THEOREM ClientToAnswerIsListed == Spec => []ClientIsListed
<1>1. IInv => ClientIsListed
  BY DEF IInv, WaitInv, ClientIsListed
<1>2. QED
  BY <1>1, Invariance, PTL

(* Every answer that start_discovery_complete or stop_discovery_complete    *)
(* gives is to the call that the command was sent for, while no call waits  *)
(* with the reply to an earlier one still due: it is enough that the next   *)
(* reply is to a command of the kind that is waited for.                    *)
THEOREM RepliesAnswerInKind == Spec => AnswersInKind
<1> DEFINE InKind == \A c \in d.watched :
             "crossed" \notin mishaps' /\ Reply /\ d'.msg[c] # d.msg[c]
                 => d.msg[c] = Head(d.requests).then
<1>1. ASSUME IInv, KInv, [Next]_vars
      PROVE  InKind
  <2> SUFFICES ASSUME NEW c \in d.watched, "crossed" \notin mishaps', Reply,
                      d'.msg[c] # d.msg[c]
               PROVE  d.msg[c] = Head(d.requests).then
    OBVIOUS
  <2>1. c \in Client /\ c # NONE
    BY <1>1, DiscoveryAssumption DEF IInv, TypeOK, Adapter
  <2>2. "crossed" \notin mishaps
    BY DEF Reply, Noted
  <2>3. Head(d.requests).then \in {"start", "stop"}
    BY <1>1, ReplyAnswers DEF SameClients
  <2>4. d.client = c
    BY <1>1, <2>1, <2>3, ReplyAnswers DEF Answered
  <2>5. d.requests # <<>> /\ d.requests \in Seq(Request)
    BY <1>1, ReplyAnswers
  <2>6. /\ 1 \in 1..Len(d.requests) /\ Head(d.requests) = d.requests[1]
        /\ 1..(1 - 1) = {}
    BY <2>5
  <2>7. First(d.requests, 1)
    BY <2>3, <2>6 DEF First, Asked
  <2>8. Waited(d)
    BY <2>1, <2>4 DEF Waited
  <2>9. QED
    BY <1>1, <2>2, <2>4, <2>6, <2>7, <2>8 DEF KInv, NextInKind
<1>2. IInv /\ KInv /\ [Next]_vars => [InKind]_vars
  BY <1>1
<1>3. QED
  BY <1>2, KindInvariance, PTL DEF Spec, AnswersInKind

(* When no reply, event or timer is due, the kernel discovers if a client is *)
(* listed, and bluetoothd knows whether it does, unless one of the mishaps   *)
(* has happened: in every other state with a client listed there is a timer, *)
(* a pairing or a command that will start the discovery, and the last that   *)
(* the kernel has said is true.                                              *)
THEOREM DiscoverySettles == Spec => []Settled
<1>1. ASSUME IInv, RInv, EInv, mishaps = {}, Quiet
      PROVE  /\ d.discovering => d.list # {}
             /\ d.list # {} => d.enable
             /\ d.enable = kernel.finds
  <2>1. Len(d.requests) = 0 /\ Len(events) = 0 /\ ~d.timer
    BY <1>1 DEF Quiet
  <2>2. WantedInv(d) /\ PairInv(d)
    BY <1>1 DEF RInv
  <2>3. ~d.suspended /\ ~Due(d.requests, "start")
    BY <2>1, <2>2 DEF PairInv, Due
  <2>4. d.enable = kernel.finds
    BY <1>1, <2>1 DEF EInv, LastTold
  <2>5. QED
    BY <2>1, <2>2, <2>3, <2>4 DEF WantedInv
<1>2. IInv /\ RInv /\ EInv => Settled
  BY <1>1 DEF Settled
<1>3. QED
  BY <1>2, SettledInvariance, PTL
=============================================================================
