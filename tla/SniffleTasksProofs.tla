-------------------------- MODULE SniffleTasksProofs --------------------------
(***************************************************************************)
(* Proofs about SniffleTasks: the queue of messages, what the host knows,  *)
(* and the packets to transmit; for every size of the queues and any        *)
(* number of commands and frames.                                          *)
(***************************************************************************)
EXTENDS SniffleTasks, SequenceTheorems, TLAPS

(* Fewer than Size messages in a row have slots of their own, *)
LEMMA SlotsDiffer ==
    ASSUME NEW a \in Nat, NEW b \in Nat, a < b, b - a < Size
    PROVE  a % Size # b % Size
<1> DEFINE p == a \div Size
           q == b \div Size
<1>0. Size \in Nat \ {0}
  BY TasksAssumption
<1>1. a = Size * p + (a % Size) /\ b = Size * q + (b % Size) /\ p \in Int /\ q \in Int
  BY <1>0
<1> SUFFICES ASSUME a % Size = b % Size PROVE FALSE
  OBVIOUS
<1>2. b - a = Size * (q - p) /\ q - p \in Int
  BY <1>0, <1>1
<1>3. CASE q - p <= 0
  <2>1. Size * (q - p) <= 0
    BY <1>0, <1>2, <1>3
  <2>2. QED
    BY <1>2, <2>1
<1>4. CASE q - p >= 1
  <2>1. Size * (q - p) >= Size
    BY <1>0, <1>2, <1>4
  <2>2. QED
    BY <1>0, <1>2, <2>1
<1>5. QED
  BY <1>2, <1>3, <1>4

(* and a number below Size is its own remainder. *)
LEMMA SmallRemainder ==
    ASSUME NEW a \in Nat, a < Size
    PROVE  a % Size = a
BY TasksAssumption

LEMMA SlotExists ==
    ASSUME NEW a \in Nat
    PROVE  a % Size \in 0..(Size - 1)
BY TasksAssumption

-----------------------------------------------------------------------------
(* The queue: a message that waits is in its slot, the first one is the one *)
(* that is being sent.                                                      *)
InOrder(s, m) ==
    /\ s.head - s.tail < Size
    /\ \A k \in s.tail..(s.head - 1) : s.slots[k % Size].n = k
    /\ m # NONE => m.n = s.tail /\ s.slots[s.tail % Size] = m

Good(s, m) ==
    /\ s \in Firmware
    /\ s.tail <= s.head
    /\ m # NONE => s.tail < s.head
    /\ s.overrun \/ InOrder(s, m)

IInv == TypeOK /\ Good(fw, sending)

(* Everything else may change. *)
LEMMA SameQueue ==
    ASSUME NEW m, NEW s, NEW t \in Firmware, Good(s, m),
           t.slots = s.slots, t.head = s.head, t.tail = s.tail, t.overrun = s.overrun
    PROVE  Good(t, m)
BY DEF Good, InOrder

LEMMA InsertGood ==
    ASSUME NEW m, NEW s, Good(s, m), NEW says \in State \cup {"frame", "marker"}
    PROVE  /\ Good(Insert(s, says), m)
           /\ Insert(s, says).overrun = (s.overrun \/ s.head - s.tail >= Size - 1)
           /\ Insert(s, says).head = s.head + 1 /\ Insert(s, says).tail = s.tail
<1> DEFINE t == Insert(s, says)
           x == [n |-> s.head, says |-> says]
<1>0. s \in Firmware /\ s.head \in Nat /\ s.tail \in Nat /\ s.overrun \in BOOLEAN /\ Size \in Nat
      /\ s.slots \in [0..(Size - 1) -> Message \cup {NONE}]
  BY TasksAssumption DEF Good, Firmware
<1>1. x \in Message
  BY <1>0 DEF Message
<1>2. /\ t.slots = [s.slots EXCEPT ![s.head % Size] = x]
      /\ t.head = s.head + 1 /\ t.tail = s.tail
      /\ t.overrun = (s.overrun \/ s.head - s.tail >= Size - 1)
      /\ t.state = s.state /\ t.hop = s.hop /\ t.gotAux = s.gotAux
      /\ t.stop = s.stop /\ t.unsure = s.unsure
  BY <1>0 DEF Insert, Firmware
<1>3. t \in Firmware
  <2>1. [s.slots EXCEPT ![s.head % Size] = x] \in [0..(Size - 1) -> Message \cup {NONE}]
    BY <1>0, <1>1
  <2>2. t = [s EXCEPT !.slots = [s.slots EXCEPT ![s.head % Size] = x], !.head = s.head + 1,
                      !.overrun = s.overrun \/ s.head - s.tail >= Size - 1]
    BY DEF Insert
  <2>3. s.head + 1 \in Nat /\ (s.overrun \/ s.head - s.tail >= Size - 1) \in BOOLEAN
    BY <1>0
  <2> HIDE DEF t, x
  <2>4. QED
    BY <1>0, <2>1, <2>2, <2>3 DEF Firmware
<1> HIDE DEF t, x
<1>6. t.overrun \in BOOLEAN
  BY <1>3 DEF Firmware
<1>4. ASSUME ~t.overrun PROVE InOrder(t, m)
  <2>0. ~s.overrun /\ ~(s.head - s.tail >= Size - 1)
    BY <1>0, <1>2, <1>4, <1>6
  <2>1. InOrder(s, m) /\ s.head - s.tail < Size - 1
    BY <1>0, <2>0 DEF Good
  <2>2. \A k \in s.tail..(s.head - 1) : k % Size # s.head % Size
    BY <1>0, <2>1, SlotsDiffer
  <2>3. ASSUME NEW k \in s.tail..(s.head - 1)
        PROVE  t.slots[k % Size] = s.slots[k % Size]
    <3>1. k \in Nat
      BY <1>0
    <3>2. k % Size # s.head % Size /\ k % Size \in 0..(Size - 1)
      BY <2>2, <3>1, SlotExists
    <3>3. QED
      BY <1>0, <1>2, <3>2
  <2>4. t.slots[s.head % Size].n = s.head
    BY <1>0, <1>2, SlotExists DEF x
  <2>5. \A k \in t.tail..(t.head - 1) : t.slots[k % Size].n = k
    BY <1>0, <1>2, <2>1, <2>3, <2>4 DEF InOrder
  <2>6. ASSUME m # NONE PROVE m.n = t.tail /\ t.slots[t.tail % Size] = m
    <3>1. s.tail \in s.tail..(s.head - 1)
      BY <1>0, <2>6 DEF Good
    <3>2. t.slots[s.tail % Size] = s.slots[s.tail % Size]
      BY <2>3, <3>1
    <3>3. m.n = s.tail /\ s.slots[s.tail % Size] = m
      BY <2>1, <2>6 DEF InOrder
    <3>4. QED
      BY <1>2, <3>2, <3>3
  <2>7. QED
    BY <1>0, <1>2, <2>1, <2>5, <2>6 DEF InOrder
<1>5. QED
  <2>1. t.tail <= t.head /\ (m # NONE => t.tail < t.head)
    BY <1>0, <1>2 DEF Good
  <2>2. Good(t, m)
    BY <1>3, <1>4, <2>1 DEF Good
  <2>3. QED
    BY <1>2, <2>2 DEF t

LEMMA IndicateGood ==
    ASSUME NEW m, NEW s, Good(s, m), NEW says \in State \cup {"frame", "marker"}
    PROVE  Good(Indicate(s, says), m) /\ Indicate(s, says).overrun = s.overrun
<1>0. s.head \in Nat /\ s.tail \in Nat /\ s.overrun \in BOOLEAN /\ Size \in Nat
  BY TasksAssumption DEF Good, Firmware
<1>1. CASE s.overrun \/ IsFull(s)
  <2>1. /\ Good(Insert(s, says), m)
        /\ Insert(s, says).overrun = (s.overrun \/ s.head - s.tail >= Size - 1)
    BY InsertGood
  <2>2. CASE IsFull(s)
    BY <2>2 DEF Indicate
  <2>3. CASE ~IsFull(s)
    BY <1>1, <2>1, <2>3 DEF Indicate
  <2>4. QED
    BY <2>2, <2>3
<1>2. CASE ~s.overrun /\ ~IsFull(s)
  <2>1. s.head - s.tail \in Nat /\ s.head - s.tail < Size
    BY <1>0, <1>2 DEF Good, InOrder
  <2>2. s.head - s.tail # Size - 1
    BY <1>2, <2>1, SmallRemainder DEF IsFull
  <2>3. QED
    BY <1>0, <1>2, <2>1, <2>2, InsertGood DEF Indicate
<1>3. QED
  BY <1>1, <1>2

LEMMA TransitionGood ==
    ASSUME NEW m, NEW s, Good(s, m), NEW to \in State
    PROVE  Good(StateTransition(s, to), m) /\ StateTransition(s, to).overrun = s.overrun
<1> DEFINE u == [s EXCEPT !.state = to]
           t == Indicate(u, to)
<1>1. s \in Firmware
  BY DEF Good
<1>2. u \in Firmware /\ Good(u, m) /\ u.overrun = s.overrun
  BY <1>1, SameQueue DEF Firmware
<1>3. Good(t, m) /\ t.overrun = u.overrun
  BY <1>2, IndicateGood
<1>4. StateTransition(s, to) = [t EXCEPT !.unsure = IsFull(s)]
  BY DEF StateTransition
<1> HIDE DEF t
<1>5. t \in Firmware /\ IsFull(s) \in BOOLEAN
  BY <1>3 DEF Good, IsFull
<1>6. [t EXCEPT !.unsure = IsFull(s)] \in Firmware
  BY <1>5 DEF Firmware
<1>7. /\ StateTransition(s, to).slots = t.slots /\ StateTransition(s, to).head = t.head
      /\ StateTransition(s, to).tail = t.tail /\ StateTransition(s, to).overrun = t.overrun
  BY <1>4, <1>5 DEF Firmware
<1>8. QED
  BY <1>2, <1>3, <1>4, <1>6, <1>7, SameQueue

LEMMA StoppedGood ==
    ASSUME NEW m, NEW s, Good(s, m)
    PROVE  Good([s EXCEPT !.stop = TRUE], m) /\ [s EXCEPT !.stop = TRUE].overrun = s.overrun
<1>1. s \in Firmware
  BY DEF Good
<1>2. [s EXCEPT !.stop = TRUE] \in Firmware
  BY <1>1 DEF Firmware
<1>3. QED
  BY <1>1, <1>2, SameQueue DEF Firmware

LEMMA FinishedGood ==
    ASSUME NEW m, NEW s, Good(s, m), done \in {"STATIC", "PAUSED"}
    PROVE  Good(ConnFinished(s), m) /\ ConnFinished(s).overrun = s.overrun
<1>1. done \in State /\ "ADVERT_SEEK" \in State
  BY DEF State, Wanted
<1>2. QED
  BY <1>1, TransitionGood, StoppedGood DEF ConnFinished

-----------------------------------------------------------------------------
(* The steps of the radio task. *)
LEMMA StartsKeeps ==
    ASSUME NEW s, NEW queue \in Seq(Packet), Good(s, sending), Starts(s, queue),
           sending' = sending
    PROVE  /\ fw' \in Firmware /\ Good(fw', sending') /\ fw'.overrun = s.overrun
           /\ radio' \in [at: {"op", "sleep"}, for: State, heard: BOOLEAN, batch: Seq(Packet)]
<1>1. s \in Firmware
  BY DEF Good
<1>2. /\ fw' \in Firmware /\ fw'.slots = s.slots /\ fw'.head = s.head
      /\ fw'.tail = s.tail /\ fw'.overrun = s.overrun
  BY <1>1 DEF Starts, Firmware
<1>3. Good(fw', sending)
  BY <1>2, SameQueue
<1>4. s.state \in State /\ <<>> \in Seq(Packet)
  BY <1>1 DEF Firmware
<1>5. QED
  BY <1>2, <1>3, <1>4 DEF Starts

LEMMA FlushedType ==
    ASSUME txq \in Seq(Packet), NEW n \in Nat
    PROVE  Flushed(n) \in Seq(Packet)
<1> DEFINE m == IF n < Len(txq) THEN n ELSE Len(txq)
<1>1. m \in Nat /\ m <= Len(txq) /\ Len(txq) \in Nat
  OBVIOUS
<1>2. SubSeq(txq, m + 1, Len(txq)) \in Seq(Packet)
  BY <1>1
<1>3. QED
  BY <1>2 DEF Flushed

(* What an operation leaves, before the next one starts. *)
LEMMA EndsGood ==
    ASSUME NEW m, NEW s, Good(s, m), done \in {"STATIC", "PAUSED"}
    PROVE  /\ \A t \in AfterConnEvent(s) : Good(t, m) /\ t.overrun = s.overrun
           /\ \A n \in Nat : Good(ReactToTransmitted(s, n), m)
                                 /\ ReactToTransmitted(s, n).overrun = s.overrun
BY FinishedGood DEF AfterConnEvent, ReactToTransmitted

LEMMA RadioKeeps ==
    ASSUME IInv, RadioTask
    PROVE  IInv' /\ fw'.overrun = fw.overrun
<1>t. /\ Good(fw, sending) /\ done \in {"STATIC", "PAUSED"} /\ txq \in Seq(Packet)
      /\ radio \in [at: {"op", "sleep"}, for: State, heard: BOOLEAN, batch: Seq(Packet)]
      /\ fw \in Firmware
  BY DEF IInv, TypeOK
<1>s. "CENTRAL" \in State /\ "ADVERT_HOP" \in State
  BY DEF State, Connected, Wanted
<1>r. UNCHANGED <<done, cmd, sending, told, commands, frames>>
  BY DEF RadioTask, ListeningEnds, SeekEnds, InitiatingEnds, DataEnds, EventEnds,
     AdvertisingEnds, RadioWakes, RadioEnds
<1> SUFFICES /\ Good(fw', sending') /\ fw'.overrun = fw.overrun /\ txq' \in Seq(Packet)
             /\ radio' \in [at: {"op", "sleep"}, for: State, heard: BOOLEAN, batch: Seq(Packet)]
  BY <1>r DEF IInv, TypeOK, Good
<1>k. ASSUME NEW s, NEW queue \in Seq(Packet), Starts(s, queue), Good(s, sending),
             s.overrun = fw.overrun
      PROVE  /\ Good(fw', sending') /\ fw'.overrun = fw.overrun
             /\ radio' \in [at: {"op", "sleep"}, for: State, heard: BOOLEAN, batch: Seq(Packet)]
  BY <1>r, <1>k, StartsKeeps
<1>1. CASE ListeningEnds
  BY <1>t, <1>k, <1>1 DEF ListeningEnds
<1>2. CASE SeekEnds
  <2>1. txq' = txq /\ \E s \in {fw, StateTransition(fw, "ADVERT_HOP")} : Starts(s, txq)
    BY <1>2 DEF SeekEnds
  <2>2. \A s \in {fw, StateTransition(fw, "ADVERT_HOP")} :
           Good(s, sending) /\ s.overrun = fw.overrun
    BY <1>t, <1>s, TransitionGood
  <2>3. QED
    BY <1>t, <1>k, <2>1, <2>2
<1>3. CASE InitiatingEnds
  <2>1. /\ txq' = txq
        /\ \E s \in {fw, ConnFinished(fw), StateTransition(fw, "CENTRAL")} : Starts(s, txq)
    BY <1>3 DEF InitiatingEnds
  <2>2. \A s \in {fw, ConnFinished(fw), StateTransition(fw, "CENTRAL")} :
           Good(s, sending) /\ s.overrun = fw.overrun
    <3>1. Good(ConnFinished(fw), sending) /\ ConnFinished(fw).overrun = fw.overrun
      BY <1>t, FinishedGood
    <3>2. /\ Good(StateTransition(fw, "CENTRAL"), sending)
          /\ StateTransition(fw, "CENTRAL").overrun = fw.overrun
      BY <1>t, <1>s, TransitionGood
    <3>3. QED
      BY <1>t, <3>1, <3>2
  <2>3. QED
    BY <1>t, <1>k, <2>1, <2>2
<1>4. CASE DataEnds
  BY <1>t, <1>k, <1>4, EndsGood DEF DataEnds
<1>5. CASE EventEnds
  <2>1. PICK n \in 0..Len(radio.batch) :
          /\ txq' = Flushed(n)
          /\ \/ Starts(fw, Flushed(n))
             \/ \E s \in AfterConnEvent(ReactToTransmitted(fw, n)) : Starts(s, Flushed(n))
             \/ /\ fw' = ReactToTransmitted(fw, n)
                /\ radio' = [radio EXCEPT !.at = "sleep", !.batch = <<>>]
    BY <1>5 DEF EventEnds
  <2>0. n \in Nat
    <3>1. Len(radio.batch) \in Nat
      BY <1>t
    <3>2. QED
      BY <3>1
  <2>2. Flushed(n) \in Seq(Packet)
    BY <1>t, <2>0, FlushedType
  <2>e. /\ Good(ReactToTransmitted(fw, n), sending)
        /\ ReactToTransmitted(fw, n).overrun = fw.overrun
    BY <1>t, <2>0, EndsGood
  <2>3. CASE Starts(fw, Flushed(n))
    BY <1>t, <1>k, <2>1, <2>2, <2>3
  <2>4. ASSUME NEW s \in AfterConnEvent(ReactToTransmitted(fw, n)), Starts(s, Flushed(n))
        PROVE  /\ Good(fw', sending') /\ fw'.overrun = fw.overrun
               /\ radio' \in [at: {"op", "sleep"}, for: State, heard: BOOLEAN, batch: Seq(Packet)]
    <3>1. Good(s, sending) /\ s.overrun = fw.overrun
      BY <1>t, <2>e, <2>4, EndsGood
    <3>2. QED
      BY <1>k, <2>2, <2>4, <3>1
  <2>5. CASE /\ fw' = ReactToTransmitted(fw, n)
             /\ radio' = [radio EXCEPT !.at = "sleep", !.batch = <<>>]
    <3>1. Good(fw', sending') /\ fw'.overrun = fw.overrun
      BY <1>r, <2>5, <2>e
    <3>2. <<>> \in Seq(Packet)
      OBVIOUS
    <3>3. QED
      BY <1>t, <2>1, <2>2, <2>5, <3>1, <3>2
  <2>6. QED
    BY <2>1, <2>2, <2>3, <2>4, <2>5
<1>6. CASE AdvertisingEnds
  <2>1. CASE fw.state = "ADVERTISING"
    BY <1>t, <1>r, <1>6, <2>1 DEF AdvertisingEnds
  <2>2. CASE fw.state # "ADVERTISING"
    BY <1>t, <1>k, <1>6, <2>2 DEF AdvertisingEnds
  <2>3. QED
    BY <2>1, <2>2
<1>7. CASE RadioWakes
  <2>1. txq' = txq /\ \E s \in {fw} \cup AfterConnEvent(fw) : Starts(s, txq)
    BY <1>7 DEF RadioWakes
  <2>2. QED
    BY <1>t, <1>k, <2>1, EndsGood
<1>8. QED
  BY <1>1, <1>2, <1>3, <1>4, <1>5, <1>6, <1>7 DEF RadioTask

-----------------------------------------------------------------------------
(* The callback. *)
LEMMA ReactGood ==
    ASSUME NEW m, NEW s, Good(s, m), done \in {"STATIC", "PAUSED"}, NEW frame
    PROVE  Good(ReactToPDU(s, frame), m) /\ ReactToPDU(s, frame).overrun = s.overrun
<1>s. "PERIPHERAL" \in State /\ "DATA" \in State
  BY DEF State, Connected
<1>1. ASSUME NEW to \in State
      PROVE  /\ Good([StateTransition(s, to) EXCEPT !.stop = TRUE], m)
             /\ [StateTransition(s, to) EXCEPT !.stop = TRUE].overrun = s.overrun
  <2>1. Good(StateTransition(s, to), m) /\ StateTransition(s, to).overrun = s.overrun
    BY TransitionGood
  <2>2. QED
    BY <2>1, StoppedGood
<1>2. Good([s EXCEPT !.gotAux = TRUE], m) /\ [s EXCEPT !.gotAux = TRUE].overrun = s.overrun
  <2>1. s \in Firmware
    BY DEF Good
  <2>2. [s EXCEPT !.gotAux = TRUE] \in Firmware
    BY <2>1 DEF Firmware
  <2>3. QED
    BY <2>1, <2>2, SameQueue DEF Firmware
<1>3. ASSUME NEW aux \in BOOLEAN
      PROVE  Good(ConnReq(s, aux), m) /\ ConnReq(s, aux).overrun = s.overrun
  <2>1. CASE s.state = "ADVERTISING"
    BY <1>s, <1>1, <2>1 DEF ConnReq
  <2>2. CASE s.state # "ADVERTISING"
    BY <1>s, <1>1, <1>2, <2>2 DEF ConnReq
  <2>3. QED
    BY <2>1, <2>2
<1>4. Good(ConnFinished(s), m) /\ ConnFinished(s).overrun = s.overrun
  BY FinishedGood
<1>5. ReactToPDU(s, frame) \in
        {ConnReq(s, FALSE), ConnReq(s, TRUE), ConnFinished(s), s,
         [StateTransition(s, "DATA") EXCEPT !.stop = TRUE]}
  BY DEF ReactToPDU
<1>6. QED
  BY <1>s, <1>1, <1>3, <1>4, <1>5

LEMMA CallbackKeeps ==
    ASSUME IInv, Callback
    PROVE  IInv' /\ fw'.overrun = fw.overrun
<1>t. /\ Good(fw, sending) /\ done \in {"STATIC", "PAUSED"} /\ fw \in Firmware
      /\ radio \in [at: {"op", "sleep"}, for: State, heard: BOOLEAN, batch: Seq(Packet)]
      /\ frames \in Nat /\ frames < MaxFrames /\ MaxFrames \in Nat
  BY TasksAssumption DEF IInv, TypeOK, Callback
<1>1. PICK frame : fw' = [Indicate(ReactToPDU(fw, frame), "frame") EXCEPT
                            !.unsure = @ \/ (cmd.to # NONE /\ cmd.at \in {"check", "put"}
                              /\ (fw.unsure
                              \/ Indicate(ReactToPDU(fw, frame), "frame").state # fw.state))]
  BY DEF Callback
<1> DEFINE r == ReactToPDU(fw, frame)
           s == Indicate(r, "frame")
           u == s.unsure \/ (cmd.to # NONE /\ cmd.at \in {"check", "put"}
                                /\ (fw.unsure \/ s.state # fw.state))
<1>2. Good(r, sending) /\ r.overrun = fw.overrun
  BY <1>t, ReactGood
<1> HIDE DEF r
<1>3. Good(s, sending) /\ s.overrun = fw.overrun
  BY <1>2, IndicateGood
<1>4. fw' = [s EXCEPT !.unsure = u]
  BY <1>1 DEF r
<1> HIDE DEF s
<1>5. s \in Firmware /\ u \in BOOLEAN
  BY <1>3 DEF Good, Firmware
<1> HIDE DEF u
<1>6. /\ fw' \in Firmware /\ fw'.slots = s.slots /\ fw'.head = s.head
      /\ fw'.tail = s.tail /\ fw'.overrun = s.overrun
  BY <1>4, <1>5 DEF Firmware
<1>7. Good(fw', sending)
  BY <1>3, <1>6, SameQueue
<1>8. /\ UNCHANGED <<done, cmd, sending, txq, told, commands>>
      /\ frames' = frames + 1
      /\ radio' = [radio EXCEPT !.heard = radio.for \in Connected]
  BY DEF Callback
<1> DEFINE h == radio.for \in Connected
<1>h. h \in BOOLEAN /\ radio' = [radio EXCEPT !.heard = h]
  BY <1>8
<1> HIDE DEF h
<1>9. /\ frames' \in 0..MaxFrames
      /\ radio' \in [at: {"op", "sleep"}, for: State, heard: BOOLEAN, batch: Seq(Packet)]
  <2>1. frames' \in 0..MaxFrames
    BY <1>t, <1>8
  <2>2. QED
    BY <1>t, <1>h, <2>1
<1>10. QED
  BY <1>3, <1>6, <1>7, <1>8, <1>9 DEF IInv, TypeOK

-----------------------------------------------------------------------------
(* The command task. *)
LEMMA CommandKeeps ==
    ASSUME IInv, CommandTask
    PROVE  /\ IInv'
           /\ fw'.overrun /\ ~fw.overrun => cmd.at = "put" /\ fw'.head - fw'.tail = Size
<1>t. /\ Good(fw, sending) /\ fw \in Firmware /\ txq \in Seq(Packet)
      /\ cmd \in [at: {"idle", "check", "put", "finish"}, to: Wanted \cup {NONE}]
      /\ commands \in Nat /\ MaxCommands \in Nat
  BY TasksAssumption DEF IInv, TypeOK
<1>r. UNCHANGED <<done, radio, sending, told, frames>>
  BY DEF CommandTask, StateCommand, MarkerCommand, TransmitCommand, ChecksQueue,
     PutsMessage, FinishesCommand, Receives, Commands
<1> DEFINE Typed ==
      /\ cmd' \in [at: {"idle", "check", "put", "finish"}, to: Wanted \cup {NONE}]
      /\ txq' \in Seq(Packet) /\ commands' \in 0..MaxCommands
      /\ Good(fw', sending)
<1>q. ASSUME Typed PROVE IInv'
  <2>1. fw' \in Firmware
    BY <1>q DEF Good
  <2>2. QED
    BY <1>q, <1>r, <2>1 DEF IInv, TypeOK
<1>i. ASSUME Receives PROVE commands' \in 0..MaxCommands
  BY <1>t, <1>i DEF Receives
<1>c. ASSUME Commands PROVE commands' \in 0..MaxCommands
  BY <1>c DEF IInv, TypeOK, Commands
<1>1. CASE StateCommand
  <2>1. PICK to \in Wanted : fw' = [fw EXCEPT !.state = to] /\ cmd' = [at |-> "check", to |-> to]
    BY <1>1 DEF StateCommand
  <2>2. /\ fw' \in Firmware /\ fw'.slots = fw.slots /\ fw'.head = fw.head
        /\ fw'.tail = fw.tail /\ fw'.overrun = fw.overrun
    BY <1>t, <2>1 DEF Firmware, State
  <2>3. Good(fw', sending)
    BY <1>t, <2>2, SameQueue
  <2>4. Typed
    BY <1>t, <1>i, <1>1, <2>1, <2>3 DEF StateCommand
  <2>5. QED
    BY <1>q, <2>2, <2>4
<1>2. CASE MarkerCommand
  <2>1. Typed
    BY <1>t, <1>i, <1>2 DEF MarkerCommand
  <2>2. fw' = fw
    BY <1>2 DEF MarkerCommand
  <2>3. QED
    BY <1>q, <2>1, <2>2
<1>3. CASE TransmitCommand
  <2>1. PICK terminates \in BOOLEAN :
          txq' = IF Len(txq) = Size - 1 THEN txq
                 ELSE Append(txq, [n |-> commands, terminates |-> terminates])
    BY <1>3 DEF TransmitCommand
  <2>2. [n |-> commands, terminates |-> terminates] \in Packet
    BY <1>t DEF Packet
  <2>3. txq' \in Seq(Packet)
    BY <1>t, <2>1, <2>2
  <2>4. fw' = fw /\ cmd' = cmd
    BY <1>3 DEF TransmitCommand
  <2>5. Typed
    BY <1>t, <1>i, <1>3, <2>3, <2>4 DEF TransmitCommand
  <2>6. QED
    BY <1>q, <2>4, <2>5
<1>4. CASE ChecksQueue
  <2>0. (fw.unsure \/ (IsFull(fw) /\ cmd.to # NONE)) \in BOOLEAN
    BY <1>t DEF Firmware
  <2>1. /\ fw' \in Firmware /\ fw'.slots = fw.slots /\ fw'.head = fw.head
        /\ fw'.tail = fw.tail /\ fw'.overrun = fw.overrun
    BY <1>t, <1>4, <2>0 DEF ChecksQueue, Firmware
  <2>2. Good(fw', sending)
    BY <1>t, <2>1, SameQueue
  <2>3. Typed
    BY <1>t, <1>c, <1>4, <2>2 DEF ChecksQueue
  <2>4. QED
    BY <1>q, <2>1, <2>3
<1>5. CASE PutsMessage
  <2> DEFINE says == IF cmd.to = NONE THEN "marker" ELSE cmd.to
             t == Insert(fw, says)
             u == t.unsure /\ fw.state # cmd.to
  <2>1. says \in State \cup {"frame", "marker"}
    BY <1>t DEF State
  <2> HIDE DEF says
  <2>2. /\ Good(t, sending) /\ t.overrun = (fw.overrun \/ fw.head - fw.tail >= Size - 1)
        /\ t.head = fw.head + 1 /\ t.tail = fw.tail
    BY <1>t, <2>1, InsertGood
  <2>3. fw' = [t EXCEPT !.unsure = u]
    BY <1>5 DEF PutsMessage, says
  <2> HIDE DEF t
  <2>4. t \in Firmware /\ u \in BOOLEAN
    BY <2>2 DEF Good, Firmware
  <2> HIDE DEF u
  <2>5. /\ fw' \in Firmware /\ fw'.slots = t.slots /\ fw'.head = t.head
        /\ fw'.tail = t.tail /\ fw'.overrun = t.overrun
    BY <2>3, <2>4 DEF Firmware
  <2>6. Good(fw', sending)
    BY <2>2, <2>5, SameQueue
  <2>7. Typed
    BY <1>t, <1>c, <1>5, <2>6 DEF PutsMessage
  <2>8. ASSUME fw'.overrun, ~fw.overrun PROVE fw'.head - fw'.tail = Size
    <3>1. fw.head \in Nat /\ fw.tail \in Nat /\ Size \in Nat
      BY <1>t, TasksAssumption DEF Firmware
    <3>2. fw.head - fw.tail < Size
      BY <1>t, <2>8 DEF Good, InOrder
    <3>3. fw.head - fw.tail >= Size - 1
      BY <2>2, <2>5, <2>8
    <3>4. fw'.head = fw.head + 1 /\ fw'.tail = fw.tail
      BY <2>2, <2>5
    <3>5. QED
      BY <3>1, <3>2, <3>3, <3>4
  <2>9. cmd.at = "put"
    BY <1>5 DEF PutsMessage
  <2>10. QED
    BY <1>q, <2>7, <2>8, <2>9
<1>6. CASE FinishesCommand
  <2> DEFINE h == CASE cmd.to = "ADVERT_SEEK" -> TRUE
                    [] cmd.to = "STATIC" -> FALSE
                    [] OTHER -> fw.hop
  <2>1. fw' = fw \/ fw' = [fw EXCEPT !.stop = TRUE, !.hop = h]
    BY <1>6 DEF FinishesCommand
  <2>2. h \in BOOLEAN
    BY <1>t DEF Firmware
  <2> HIDE DEF h
  <2>3. /\ fw' \in Firmware /\ fw'.slots = fw.slots /\ fw'.head = fw.head
        /\ fw'.tail = fw.tail /\ fw'.overrun = fw.overrun
    BY <1>t, <2>1, <2>2 DEF Firmware
  <2>4. Good(fw', sending)
    BY <1>t, <2>3, SameQueue
  <2>5. <<>> \in Seq(Packet)
    OBVIOUS
  <2>6. Typed
    BY <1>t, <1>c, <1>6, <2>4, <2>5 DEF FinishesCommand
  <2>7. QED
    BY <1>q, <2>3, <2>6
<1>7. QED
  BY <1>1, <1>2, <1>3, <1>4, <1>5, <1>6 DEF CommandTask

-----------------------------------------------------------------------------
(* The packet task. *)
LEMMA PacketKeeps ==
    ASSUME IInv, PacketTask
    PROVE  IInv' /\ fw'.overrun = fw.overrun
<1>t. /\ Good(fw, sending) /\ fw \in Firmware /\ fw.head \in Nat /\ fw.tail \in Nat
      /\ fw.overrun \in BOOLEAN /\ fw.slots \in [0..(Size - 1) -> Message \cup {NONE}]
      /\ sending \in Message \cup {NONE} /\ Size \in Nat
  BY TasksAssumption DEF IInv, TypeOK, Firmware
<1>1. CASE PacketTakes
  <2>1. fw' = fw /\ sending' = fw.slots[fw.tail % Size] /\ fw.tail < fw.head
    BY <1>t, <1>1 DEF PacketTakes
  <2>2. sending' \in Message \cup {NONE}
    BY <1>t, <2>1, SlotExists
  <2>3. ASSUME ~fw.overrun PROVE InOrder(fw, sending')
    <3>1. InOrder(fw, sending)
      BY <1>t, <2>3 DEF Good
    <3>2. fw.tail \in fw.tail..(fw.head - 1)
      BY <1>t, <2>1
    <3>3. fw.slots[fw.tail % Size].n = fw.tail
      BY <3>1, <3>2 DEF InOrder
    <3>4. QED
      BY <2>1, <3>1, <3>3 DEF InOrder
  <2>4. Good(fw', sending')
    BY <1>t, <2>1, <2>3 DEF Good
  <2>5. QED
    BY <1>t, <1>1, <2>1, <2>2, <2>4 DEF PacketTakes, IInv, TypeOK
<1>2. CASE PacketSent
  <2> DEFINE i == fw.tail % Size
             x == IF fw.slots[i] = sending /\ fw.slots[i].n = fw.tail THEN NONE ELSE fw.slots[i]
  <2>1. /\ fw' = [fw EXCEPT !.tail = fw.tail + 1, !.slots = [fw.slots EXCEPT ![i] = x]]
        /\ sending' = NONE /\ sending # NONE
        /\ told' = IF sending.says \in State THEN sending.says ELSE told
    BY <1>2 DEF PacketSent
  <2>2. i \in 0..(Size - 1) /\ x \in Message \cup {NONE}
    BY <1>t, SlotExists
  <2> DEFINE slots == [fw.slots EXCEPT ![i] = x]
  <2>a. slots = [fw.slots EXCEPT ![i] = x]
    OBVIOUS
  <2> HIDE DEF x
  <2>3. slots \in [0..(Size - 1) -> Message \cup {NONE}] /\ fw.tail + 1 \in Nat
    BY <1>t, <2>2
  <2>b. fw' = [fw EXCEPT !.tail = fw.tail + 1, !.slots = slots]
    BY <2>1
  <2> HIDE DEF slots
  <2>c. /\ fw' \in Firmware /\ fw'.head = fw.head /\ fw'.tail = fw.tail + 1
        /\ fw'.slots = slots /\ fw'.overrun = fw.overrun
    BY <1>t, <2>b, <2>3 DEF Firmware
  <2>4. /\ fw' \in Firmware /\ fw'.head = fw.head /\ fw'.tail = fw.tail + 1
        /\ fw'.slots = [fw.slots EXCEPT ![i] = x] /\ fw'.overrun = fw.overrun
    BY <2>a, <2>c
  <2>5. ASSUME ~fw.overrun PROVE InOrder(fw', NONE)
    <3>1. InOrder(fw, sending)
      BY <1>t, <2>5 DEF Good
    <3>2. ASSUME NEW k \in fw'.tail..(fw'.head - 1)
          PROVE  fw'.slots[k % Size].n = k
      <4>1. /\ k \in Nat /\ fw.tail < k /\ k - fw.tail < Size
            /\ k \in fw.tail..(fw.head - 1)
        BY <1>t, <2>4, <3>1 DEF InOrder
      <4>2. i # k % Size /\ k % Size \in 0..(Size - 1)
        BY <1>t, <4>1, SlotsDiffer, SlotExists
      <4>3. fw.slots[k % Size].n = k
        BY <3>1, <4>1 DEF InOrder
      <4>4. fw'.slots[k % Size] = fw.slots[k % Size]
        BY <1>t, <2>4, <4>2
      <4>5. QED
        BY <4>3, <4>4
    <3>3. fw'.head - fw'.tail < Size
      BY <1>t, <2>4, <3>1 DEF InOrder
    <3>4. QED
      BY <3>2, <3>3 DEF InOrder
  <2>6. fw'.tail <= fw'.head
    BY <1>t, <2>1, <2>4 DEF Good
  <2>7. Good(fw', sending')
    BY <2>1, <2>4, <2>5, <2>6 DEF Good
  <2>8. told' \in State \cup {NONE}
    BY <2>1 DEF IInv, TypeOK
  <2>9. UNCHANGED <<done, radio, cmd, txq, commands, frames>>
    BY <1>2 DEF PacketSent
  <2>10. QED
    BY <2>1, <2>4, <2>7, <2>8, <2>9 DEF IInv, TypeOK
<1>3. QED
  BY <1>1, <1>2 DEF PacketTask

-----------------------------------------------------------------------------
LEMMA Initially ==
    ASSUME Init
    PROVE  IInv
<1>1. fw = [state |-> "STATIC", hop |-> FALSE, gotAux |-> FALSE,
            slots |-> [i \in 0..(Size - 1) |-> NONE], head |-> 0, tail |-> 0,
            stop |-> FALSE, overrun |-> FALSE, unsure |-> TRUE]
  BY DEF Init
<1>2. fw \in Firmware
  BY <1>1 DEF Firmware, State, Wanted
<1>3. Good(fw, sending)
  <2>1. sending = NONE /\ Size \in Nat /\ 0 < Size
    BY TasksAssumption DEF Init
  <2>2. 0..(0 - 1) = {}
    OBVIOUS
  <2>3. QED
    BY <1>1, <1>2, <2>1, <2>2 DEF Good, InOrder
<1>4. <<>> \in Seq(Packet) /\ "STATIC" \in State
  BY DEF State, Wanted
<1>5. QED
  BY <1>2, <1>3, <1>4, TasksAssumption DEF Init, IInv, TypeOK

LEMMA StepKeeps ==
    ASSUME IInv, [Next]_vars
    PROVE  /\ IInv'
           /\ fw'.overrun /\ ~fw.overrun => cmd.at = "put" /\ fw'.head - fw'.tail = Size
<1>1. CASE UNCHANGED vars
  BY <1>1 DEF vars, IInv, TypeOK, Good
<1>2. CASE RadioTask
  BY <1>2, RadioKeeps
<1>3. CASE Callback
  BY <1>3, CallbackKeeps
<1>4. CASE CommandTask
  BY <1>4, CommandKeeps
<1>5. CASE PacketTask
  BY <1>5, PacketKeeps
<1>6. QED
  BY <1>1, <1>2, <1>3, <1>4, <1>5 DEF Next, Quiet

LEMMA Invariance == Spec => []IInv
<1>1. Init => IInv
  BY Initially
<1>2. IInv /\ [Next]_vars => IInv'
  BY StepKeeps
<1>3. QED
  BY <1>1, <1>2, PTL DEF Spec

(* The variables keep their types, through every command, frame and end of *)
(* an operation (the tasks' handlers and reactToPDU).                      *)
THEOREM TasksTypes == Spec => []TypeOK
<1>1. IInv => TypeOK
  BY DEF IInv
<1>2. QED
  BY <1>1, Invariance, PTL

(* What the callback, the radio task and the command task put into the     *)
(* queue reaches the host in order, each message whole, until a message is  *)
(* put into a full queue (indicatePacket and packetTaskFunction).           *)
THEOREM MessagesStayInOrder == Spec => []MessagesInOrder
<1>1. IInv => MessagesInOrder
  BY DEF IInv, Good, InOrder, MessagesInOrder
<1>2. QED
  BY <1>1, Invariance, PTL

(* And only a command's message can be the one: the callback's and the     *)
(* radio task's insertions follow their check at once.                     *)
THEOREM OnlyCommandsOverrun == Spec => OverrunByCommandOnly
<1>1. IInv /\ [Next]_vars =>
        [fw.overrun' /\ ~fw.overrun => cmd.at = "put" /\ fw'.head - fw'.tail = Size]_vars
  BY StepKeeps
<1>2. QED
  BY <1>1, Invariance, PTL DEF Spec, OverrunByCommandOnly

-----------------------------------------------------------------------------
(* What the host knows.                                                    *)

(* What the host will know: the last state that a message in the queue      *)
(* says, or, if none does, the one it was told, is the state of the sniffer. *)
Says(s, k) == s.slots[k % Size].says

NoState(s, first) == \A k \in first..(s.head - 1) : Says(s, k) \notin State

WillKnow(s, t) ==
    \/ t = s.state /\ NoState(s, s.tail)
    \/ \E k \in s.tail..(s.head - 1) : Says(s, k) = s.state /\ NoState(s, k + 1)

Sure(s, t) == s.overrun \/ s.unsure \/ WillKnow(s, t)

(* A command has changed the state, and its message is not in the queue yet. *)
Window == cmd.to # NONE /\ cmd.at \in {"check", "put"}

KnowInv ==
    /\ Window => fw.unsure \/ fw.state = cmd.to
    /\ ~Window => Sure(fw, told)

LEMMA SameKnowledge ==
    ASSUME NEW t, NEW s, NEW u, Sure(s, t),
           u.slots = s.slots, u.head = s.head, u.tail = s.tail, u.state = s.state,
           s.overrun => u.overrun, s.unsure => u.unsure
    PROVE  Sure(u, t)
BY DEF Sure, WillKnow, NoState, Says

(* A message joins a queue that is not full. *)
LEMMA InsertKnows ==
    ASSUME NEW m, NEW t, NEW s, Good(s, m), NEW says \in State \cup {"frame", "marker"},
           says \in State => says = s.state,
           says \notin State => Sure(s, t)
    PROVE  Sure(Insert(s, says), t)
<1> DEFINE u == Insert(s, says)
           x == [n |-> s.head, says |-> says]
<1>0. s \in Firmware /\ s.head \in Nat /\ s.tail \in Nat /\ s.overrun \in BOOLEAN /\ Size \in Nat
      /\ s.slots \in [0..(Size - 1) -> Message \cup {NONE}] /\ s.tail <= s.head
      /\ s.unsure \in BOOLEAN
  BY TasksAssumption DEF Good, Firmware
<1>1. /\ u.slots = [s.slots EXCEPT ![s.head % Size] = x]
      /\ u.head = s.head + 1 /\ u.tail = s.tail
      /\ u.overrun = (s.overrun \/ s.head - s.tail >= Size - 1)
      /\ u.state = s.state /\ u.unsure = s.unsure
  BY <1>0 DEF Insert, Firmware
<1>2. x.says = says
  OBVIOUS
<1> HIDE DEF u, x
<1>3. SUFFICES ASSUME ~u.overrun, ~u.unsure PROVE WillKnow(u, t)
  BY DEF Sure, u
<1>4. ~s.overrun /\ ~s.unsure /\ s.head - s.tail < Size - 1
  <2>1. u.overrun \in BOOLEAN /\ u.unsure \in BOOLEAN
    BY <1>0, <1>1
  <2>2. ~s.overrun /\ ~(s.head - s.tail >= Size - 1)
    BY <1>0, <1>1, <1>3, <2>1
  <2>3. ~s.unsure
    BY <1>1, <1>3
  <2>4. QED
    BY <1>0, <2>2, <2>3
<1>5. ASSUME NEW k \in s.tail..(s.head - 1) PROVE Says(u, k) = Says(s, k)
  <2>1. k \in Nat /\ k < s.head /\ s.head - k < Size
    BY <1>0, <1>4
  <2>2. k % Size # s.head % Size /\ k % Size \in 0..(Size - 1)
    BY <1>0, <2>1, SlotsDiffer, SlotExists
  <2>3. QED
    BY <1>0, <1>1, <2>2 DEF Says
<1>6. Says(u, s.head) = says
  BY <1>0, <1>1, <1>2, SlotExists DEF Says
<1>7. CASE says \in State
  <2>1. s.head \in u.tail..(u.head - 1) /\ (s.head + 1)..(u.head - 1) = {}
    BY <1>0, <1>1
  <2>2. NoState(u, s.head + 1)
    BY <2>1 DEF NoState
  <2>3. Says(u, s.head) = u.state
    BY <1>1, <1>6, <1>7
  <2>4. QED
    BY <2>1, <2>2, <2>3 DEF WillKnow
<1>8. CASE says \notin State
  <2>1. WillKnow(s, t)
    BY <1>4, <1>8 DEF Sure
  <2>2. ASSUME NEW first \in Nat, first >= s.tail, NoState(s, first) PROVE NoState(u, first)
    <3> SUFFICES ASSUME NEW k \in first..(u.head - 1) PROVE Says(u, k) \notin State
      BY DEF NoState
    <3>1. CASE k = s.head
      BY <1>6, <1>8, <3>1
    <3>2. CASE k # s.head
      <4>1. k \in first..(s.head - 1) /\ k \in s.tail..(s.head - 1)
        BY <1>0, <1>1, <2>2, <3>2
      <4>2. QED
        BY <1>5, <2>2, <4>1 DEF NoState
    <3>3. QED
      BY <3>1, <3>2
  <2>3. CASE t = s.state /\ NoState(s, s.tail)
    <3>1. NoState(u, u.tail)
      BY <1>0, <1>1, <2>2, <2>3
    <3>2. QED
      BY <1>1, <2>3, <3>1 DEF WillKnow
  <2>4. ASSUME NEW k \in s.tail..(s.head - 1), Says(s, k) = s.state, NoState(s, k + 1)
        PROVE  WillKnow(u, t)
    <3>1. k \in u.tail..(u.head - 1) /\ k + 1 \in Nat /\ k + 1 >= s.tail
      BY <1>0, <1>1
    <3>2. NoState(u, k + 1) /\ Says(u, k) = u.state
      BY <1>1, <1>5, <2>2, <2>4, <3>1
    <3>3. QED
      BY <3>1, <3>2 DEF WillKnow
  <2>5. QED
    BY <2>1, <2>3, <2>4 DEF WillKnow
<1>9. QED
  BY <1>7, <1>8

LEMMA IndicateKnows ==
    ASSUME NEW m, NEW t, NEW s, Good(s, m), Sure(s, t), NEW says \in {"frame", "marker"},
           says \notin State
    PROVE  Sure(Indicate(s, says), t)
BY InsertKnows DEF Indicate

LEMMA Marks == "frame" \notin State /\ "marker" \notin State
BY DEF State, Wanted, Connected

(* After stateTransition the host is told, or it is known that it is not. *)
LEMMA TransitionKnows ==
    ASSUME NEW m, NEW t, NEW s, Good(s, m), NEW to \in State
    PROVE  /\ Sure(StateTransition(s, to), t)
           /\ StateTransition(s, to).state = to
<1> DEFINE u == [s EXCEPT !.state = to]
           v == Indicate(u, to)
           w == StateTransition(s, to)
<1>1. s \in Firmware
  BY DEF Good
<1>2. /\ u \in Firmware /\ u.slots = s.slots /\ u.head = s.head /\ u.tail = s.tail
      /\ u.overrun = s.overrun /\ u.state = to
  BY <1>1 DEF Firmware
<1>3. Good(u, m)
  BY <1>2, SameQueue
<1>4. w = [v EXCEPT !.unsure = IsFull(s)]
  BY DEF StateTransition
<1>5. IsFull(u) = IsFull(s)
  BY <1>2 DEF IsFull
<1> HIDE DEF u
<1>6. Good(v, m)
  BY <1>3, IndicateGood
<1>7. v \in Firmware
  BY <1>6 DEF Good
<1>8. v.state = to
  <2>1. CASE IsFull(u)
    BY <1>2, <2>1 DEF Indicate
  <2>2. CASE ~IsFull(u)
    BY <1>2, <2>2 DEF Indicate, Insert, Firmware
  <2>3. QED
    BY <2>1, <2>2
<1> HIDE DEF v
<1>9. /\ w.slots = v.slots /\ w.head = v.head /\ w.tail = v.tail /\ w.overrun = v.overrun
      /\ w.state = to /\ w.unsure = IsFull(s)
  BY <1>4, <1>7, <1>8 DEF Firmware
<1> HIDE DEF w
<1>10. CASE IsFull(s)
  BY <1>9, <1>10 DEF Sure, w
<1>11. CASE ~IsFull(s)
  <2>1. v = Insert(u, to)
    BY <1>5, <1>11 DEF Indicate, v
  <2> DEFINE y == [u EXCEPT !.unsure = FALSE]
  <2>2. Good(y, m) /\ y.state = to
    <3>1. /\ y \in Firmware /\ y.slots = u.slots /\ y.head = u.head /\ y.tail = u.tail
          /\ y.overrun = u.overrun /\ y.state = u.state
      BY <1>2 DEF Firmware
    <3>2. QED
      BY <1>2, <1>3, <3>1, SameQueue
  <2>3. Sure(Insert(y, to), t)
    BY <2>2, InsertKnows
  <2>4. Insert(y, to).unsure = FALSE
    BY <1>2 DEF Insert, Firmware
  <2>5. /\ Insert(y, to).slots = v.slots /\ Insert(y, to).head = v.head
        /\ Insert(y, to).tail = v.tail /\ Insert(y, to).overrun = v.overrun
        /\ Insert(y, to).state = to
    BY <1>2, <2>1 DEF Insert, Firmware
  <2> HIDE DEF y
  <2>6. Sure(w, t)
    BY <1>9, <2>3, <2>4, <2>5, SameKnowledge
  <2>7. QED
    BY <1>9, <2>6 DEF w
<1>12. QED
  BY <1>10, <1>11, <1>9 DEF w

LEMMA StoppedKnows ==
    ASSUME NEW m, NEW t, NEW s, Good(s, m), Sure(s, t)
    PROVE  /\ Sure([s EXCEPT !.stop = TRUE], t)
           /\ [s EXCEPT !.stop = TRUE].state = s.state
<1>1. s \in Firmware
  BY DEF Good
<1> DEFINE u == [s EXCEPT !.stop = TRUE]
<1>2. /\ u.slots = s.slots /\ u.head = s.head /\ u.tail = s.tail /\ u.state = s.state
      /\ u.overrun = s.overrun /\ u.unsure = s.unsure
  BY <1>1 DEF Firmware
<1> HIDE DEF u
<1>3. Sure(u, t)
  BY <1>2, SameKnowledge
<1>4. QED
  BY <1>2, <1>3 DEF u

LEMMA FinishedKnows ==
    ASSUME NEW m, NEW t, NEW s, Good(s, m), done \in {"STATIC", "PAUSED"}
    PROVE  Sure(ConnFinished(s), t)
<1>1. done \in State /\ "ADVERT_SEEK" \in State
  BY DEF State, Wanted
<1> DEFINE u == StateTransition(s, done)
           v == StateTransition(u, "ADVERT_SEEK")
<1>2. Good(u, m) /\ Sure(u, t)
  BY <1>1, TransitionGood, TransitionKnows
<1> HIDE DEF u
<1>3. Good(v, m) /\ Sure(v, t)
  BY <1>1, <1>2, TransitionGood, TransitionKnows
<1> HIDE DEF v
<1>4. Sure([v EXCEPT !.stop = TRUE], t)
  BY <1>3, StoppedKnows
<1>5. ConnFinished(s) \in {u, [v EXCEPT !.stop = TRUE]}
  BY DEF ConnFinished, u, v
<1>6. QED
  BY <1>2, <1>4, <1>5

-----------------------------------------------------------------------------
LEMMA StartsKnows ==
    ASSUME NEW s, NEW queue, Good(s, sending), Starts(s, queue), NEW t, Sure(s, t)
    PROVE  Sure(fw', t)
<1>1. s \in Firmware
  BY DEF Good
<1>2. /\ fw'.slots = s.slots /\ fw'.head = s.head /\ fw'.tail = s.tail
      /\ fw'.state = s.state /\ fw'.overrun = s.overrun /\ fw'.unsure = s.unsure
  BY <1>1 DEF Starts, Firmware
<1>3. QED
  BY <1>2, SameKnowledge

LEMMA RadioKnows ==
    ASSUME IInv, KnowInv, RadioTask
    PROVE  KnowInv'
<1>t. /\ Good(fw, sending) /\ done \in {"STATIC", "PAUSED"}
      /\ fw \in Firmware
      /\ radio \in [at: {"op", "sleep"}, for: State, heard: BOOLEAN, batch: Seq(Packet)]
  BY DEF IInv, TypeOK
<1>r. /\ UNCHANGED <<done, cmd, sending, told, commands, frames>> /\ cmd.at = "idle"
  BY DEF RadioTask, ListeningEnds, SeekEnds, InitiatingEnds, DataEnds, EventEnds,
     AdvertisingEnds, RadioWakes, RadioEnds, Running
<1>s. "CENTRAL" \in State /\ "ADVERT_HOP" \in State
  BY DEF State, Connected, Wanted
<1>1. Sure(fw, told) /\ ~Window /\ ~Window'
  BY <1>r DEF KnowInv, Window
<1> SUFFICES Sure(fw', told)
  BY <1>1, <1>r DEF KnowInv
<1> DEFINE Fine(s) == Good(s, sending) /\ Sure(s, told)
<1>2. Fine(fw) /\ Fine(ConnFinished(fw)) /\ Fine(StateTransition(fw, "CENTRAL"))
      /\ Fine(StateTransition(fw, "ADVERT_HOP"))
  BY <1>t, <1>s, <1>1, FinishedGood, FinishedKnows, TransitionGood, TransitionKnows
<1>3. ASSUME NEW s, Fine(s) PROVE \A u \in AfterConnEvent(s) : Fine(u)
  BY <1>t, <1>3, FinishedGood, FinishedKnows DEF AfterConnEvent
<1>4. ASSUME NEW n PROVE Fine(ReactToTransmitted(fw, n))
  BY <1>2 DEF ReactToTransmitted
<1>5. \/ fw' = fw
      \/ \E s, queue : Fine(s) /\ Starts(s, queue)
      \/ \E n : fw' = ReactToTransmitted(fw, n)
  <2>1. CASE ListeningEnds
    BY <1>2, <2>1 DEF ListeningEnds
  <2>2. CASE SeekEnds
    BY <1>2, <2>2 DEF SeekEnds
  <2>3. CASE InitiatingEnds
    BY <1>2, <2>3 DEF InitiatingEnds
  <2>4. CASE DataEnds
    BY <1>2, <1>3, <2>4 DEF DataEnds
  <2>5. CASE EventEnds
    BY <1>2, <1>3, <1>4, <2>5 DEF EventEnds
  <2>6. CASE AdvertisingEnds
    BY <1>2, <2>6 DEF AdvertisingEnds
  <2>7. CASE RadioWakes
    BY <1>2, <1>3, <2>7 DEF RadioWakes
  <2>8. QED
    BY <2>1, <2>2, <2>3, <2>4, <2>5, <2>6, <2>7 DEF RadioTask
<1>6. QED
  BY <1>1, <1>4, <1>5, StartsKnows

LEMMA ReactKnows ==
    ASSUME NEW m, NEW t, NEW s, Good(s, m), done \in {"STATIC", "PAUSED"}, NEW frame, Sure(s, t)
    PROVE  Sure(ReactToPDU(s, frame), t)
<1>s. "PERIPHERAL" \in State /\ "DATA" \in State
  BY DEF State, Connected
<1>1. ASSUME NEW to \in State
      PROVE  Sure([StateTransition(s, to) EXCEPT !.stop = TRUE], t)
  BY TransitionGood, TransitionKnows, StoppedKnows
<1>2. Sure([s EXCEPT !.gotAux = TRUE], t)
  <2> DEFINE u == [s EXCEPT !.gotAux = TRUE]
  <2>1. s \in Firmware
    BY DEF Good
  <2>2. /\ u.slots = s.slots /\ u.head = s.head /\ u.tail = s.tail /\ u.state = s.state
        /\ u.overrun = s.overrun /\ u.unsure = s.unsure
    BY <2>1 DEF Firmware
  <2> HIDE DEF u
  <2>3. Sure(u, t)
    BY <2>2, SameKnowledge
  <2>4. QED
    BY <2>3 DEF u
<1>3. ASSUME NEW aux \in BOOLEAN PROVE Sure(ConnReq(s, aux), t)
  BY <1>s, <1>1, <1>2 DEF ConnReq
<1>4. Sure(ConnFinished(s), t)
  BY FinishedKnows
<1>5. ReactToPDU(s, frame) \in
        {ConnReq(s, FALSE), ConnReq(s, TRUE), ConnFinished(s), s,
         [StateTransition(s, "DATA") EXCEPT !.stop = TRUE]}
  BY DEF ReactToPDU
<1>6. QED
  BY <1>s, <1>1, <1>3, <1>4, <1>5

LEMMA CallbackKnows ==
    ASSUME IInv, KnowInv, Callback
    PROVE  KnowInv'
<1>t. Good(fw, sending) /\ done \in {"STATIC", "PAUSED"} /\ fw \in Firmware
  BY DEF IInv, TypeOK
<1>1. PICK frame : fw' = [Indicate(ReactToPDU(fw, frame), "frame") EXCEPT
                            !.unsure = @ \/ (Window /\ (fw.unsure
                              \/ Indicate(ReactToPDU(fw, frame), "frame").state # fw.state))]
  BY DEF Callback, Window
<1> DEFINE r == ReactToPDU(fw, frame)
           s == Indicate(r, "frame")
           u == s.unsure \/ (Window /\ (fw.unsure \/ s.state # fw.state))
<1>2. Good(r, sending)
  BY <1>t, ReactGood
<1>3. ~Window => Sure(r, told)
  BY <1>t, ReactKnows DEF KnowInv
<1> HIDE DEF r
<1>4. Good(s, sending)
  BY <1>2, IndicateGood
<1>5. ~Window => Sure(s, told)
  BY <1>2, <1>3, IndicateKnows, Marks
<1>6. fw' = [s EXCEPT !.unsure = u]
  BY <1>1 DEF r
<1> HIDE DEF s
<1>7. s \in Firmware
  BY <1>4 DEF Good
<1>8. /\ fw'.slots = s.slots /\ fw'.head = s.head /\ fw'.tail = s.tail
      /\ fw'.state = s.state /\ fw'.overrun = s.overrun /\ fw'.unsure = u
  <2> HIDE DEF u
  <2>1. QED
    BY <1>6, <1>7 DEF Firmware
<1>9. cmd' = cmd /\ told' = told
  BY DEF Callback
<1>10. CASE Window
  <2>1. Window'
    BY <1>9, <1>10 DEF Window
  <2>2. fw.unsure \/ s.state # fw.state => fw'.unsure
    BY <1>8, <1>10
  <2>3. fw'.unsure \/ fw'.state = cmd.to
    BY <1>8, <1>10, <2>2 DEF KnowInv
  <2>4. QED
    BY <1>9, <2>1, <2>3 DEF KnowInv
<1>11. CASE ~Window
  <2>1. Sure(fw', told)
    <3>1. s.unsure => fw'.unsure
      BY <1>8
    <3>2. QED
      BY <1>5, <1>8, <1>11, <3>1, SameKnowledge
  <2>2. QED
    BY <1>9, <1>11, <2>1 DEF KnowInv, Window
<1>12. QED
  BY <1>10, <1>11

-----------------------------------------------------------------------------
LEMMA CommandKnows ==
    ASSUME IInv, KnowInv, CommandTask
    PROVE  KnowInv'
<1>t. /\ Good(fw, sending) /\ fw \in Firmware
      /\ cmd \in [at: {"idle", "check", "put", "finish"}, to: Wanted \cup {NONE}]
  BY DEF IInv, TypeOK
<1>r. told' = told
  BY DEF CommandTask, StateCommand, MarkerCommand, TransmitCommand, ChecksQueue,
     PutsMessage, FinishesCommand, Receives, Commands
<1>1. CASE StateCommand
  <2>1. PICK to \in Wanted : fw' = [fw EXCEPT !.state = to] /\ cmd' = [at |-> "check", to |-> to]
    BY <1>1 DEF StateCommand
  <2>2. to # NONE /\ fw'.state = to
    BY <1>t, <2>1, NoneAssumption DEF State, Firmware
  <2>3. cmd'.to = to /\ cmd'.at = "check"
    BY <2>1
  <2>4. Window' /\ fw'.state = cmd'.to
    BY <2>2, <2>3 DEF Window
  <2>5. QED
    BY <2>4 DEF KnowInv
<1>2. CASE MarkerCommand
  <2>1. fw' = fw /\ cmd.at = "idle" /\ cmd' = [at |-> "check", to |-> NONE]
    BY <1>2 DEF MarkerCommand, Receives
  <2>2. ~Window /\ ~Window'
    BY <2>1 DEF Window
  <2>3. QED
    BY <1>r, <2>1, <2>2 DEF KnowInv
<1>3. CASE TransmitCommand
  BY <1>r, <1>3 DEF TransmitCommand, KnowInv, Window
<1>4. CASE ChecksQueue
  <2> DEFINE u == fw.unsure \/ (IsFull(fw) /\ cmd.to # NONE)
  <2>1. /\ cmd.at = "check" /\ cmd' = [cmd EXCEPT !.at = IF IsFull(fw) THEN "finish" ELSE "put"]
        /\ fw' = [fw EXCEPT !.unsure = u]
    BY <1>4 DEF ChecksQueue
  <2>2. u \in BOOLEAN
    BY <1>t DEF Firmware
  <2>3. /\ fw'.slots = fw.slots /\ fw'.head = fw.head /\ fw'.tail = fw.tail
        /\ fw'.state = fw.state /\ fw'.overrun = fw.overrun /\ fw'.unsure = u
    <3> HIDE DEF u
    <3>1. QED
      BY <1>t, <2>1 DEF Firmware
  <2>4. cmd'.to = cmd.to /\ cmd'.at = IF IsFull(fw) THEN "finish" ELSE "put"
    BY <1>t, <2>1
  <2>5. CASE cmd.to = NONE
    <3>1. ~Window /\ ~Window'
      BY <2>4, <2>5 DEF Window
    <3>2. Sure(fw', told)
      BY <2>3, <3>1, SameKnowledge DEF KnowInv
    <3>3. QED
      BY <1>r, <3>1, <3>2 DEF KnowInv
  <2>6. CASE cmd.to # NONE /\ IsFull(fw)
    <3>1. ~Window' /\ fw'.unsure
      BY <2>3, <2>4, <2>6 DEF Window
    <3>2. QED
      BY <3>1 DEF KnowInv, Sure
  <2>7. CASE cmd.to # NONE /\ ~IsFull(fw)
    <3>1. Window /\ Window'
      BY <2>1, <2>4, <2>7 DEF Window
    <3>2. fw'.unsure \/ fw'.state = cmd'.to
      BY <2>3, <2>4, <3>1 DEF KnowInv
    <3>3. QED
      BY <3>1, <3>2 DEF KnowInv
  <2>8. QED
    BY <2>5, <2>6, <2>7
<1>5. CASE PutsMessage
  <2> DEFINE says == IF cmd.to = NONE THEN "marker" ELSE cmd.to
             t == Insert(fw, says)
             u == t.unsure /\ fw.state # cmd.to
  <2>1. /\ cmd.at = "put" /\ cmd' = [cmd EXCEPT !.at = "finish"]
        /\ fw' = [t EXCEPT !.unsure = u]
    BY <1>5 DEF PutsMessage
  <2>2. says \in State \cup {"frame", "marker"}
    BY <1>t DEF State
  <2>3. Good(t, sending)
    BY <1>t, <2>2, InsertGood
  <2>4. t.state = fw.state /\ t.unsure = fw.unsure
    BY <1>t DEF Insert, Firmware
  <2>5. t \in Firmware
    BY <2>3 DEF Good
  <2>6. /\ fw'.slots = t.slots /\ fw'.head = t.head /\ fw'.tail = t.tail
        /\ fw'.state = t.state /\ fw'.overrun = t.overrun /\ fw'.unsure = u
    <3> HIDE DEF u, t
    <3>1. QED
      BY <2>1, <2>5 DEF Firmware
  <2>7. ~Window'
    BY <1>t, <2>1 DEF Window
  <2>8. Sure(fw', told)
    <3>1. CASE cmd.to = NONE
      <4>1. says = "marker" /\ Sure(fw, told)
        BY <3>1 DEF KnowInv, Window
      <4>2. Sure(t, told)
        BY <1>t, <4>1, Marks, InsertKnows
      <4>3. t.unsure => u
        BY <1>t, <3>1, NoneAssumption DEF Firmware
      <4> HIDE DEF t, u
      <4>4. QED
        BY <2>6, <4>2, <4>3, SameKnowledge
    <3>2. CASE cmd.to # NONE /\ fw.state = cmd.to
      <4>1. says = fw.state /\ says \in State
        BY <1>t, <3>2 DEF State
      <4> DEFINE y == [fw EXCEPT !.unsure = FALSE]
      <4>2. /\ y \in Firmware /\ y.slots = fw.slots /\ y.head = fw.head /\ y.tail = fw.tail
            /\ y.overrun = fw.overrun /\ y.state = fw.state
        BY <1>t DEF Firmware
      <4>3. Good(y, sending)
        BY <1>t, <4>2, SameQueue
      <4>4. Sure(Insert(y, says), told)
        BY <4>1, <4>2, <4>3, InsertKnows
      <4>5. /\ Insert(y, says).slots = t.slots /\ Insert(y, says).head = t.head
            /\ Insert(y, says).tail = t.tail /\ Insert(y, says).overrun = t.overrun
            /\ Insert(y, says).state = t.state /\ Insert(y, says).unsure = FALSE
        BY <1>t DEF Insert, Firmware
      <4> HIDE DEF t, y
      <4>6. QED
        BY <2>6, <4>4, <4>5, SameKnowledge
    <3>3. CASE cmd.to # NONE /\ fw.state # cmd.to
      <4>1. fw.unsure
        BY <2>1, <3>3 DEF KnowInv, Window
      <4>2. fw'.unsure
        BY <2>4, <2>6, <3>3, <4>1
      <4>3. QED
        BY <4>2 DEF Sure
    <3>4. QED
      BY <3>1, <3>2, <3>3
  <2>9. QED
    BY <1>r, <2>7, <2>8 DEF KnowInv
<1>6. CASE FinishesCommand
  <2> DEFINE h == CASE cmd.to = "ADVERT_SEEK" -> TRUE
                    [] cmd.to = "STATIC" -> FALSE
                    [] OTHER -> fw.hop
  <2>1. /\ fw' = fw \/ fw' = [fw EXCEPT !.stop = TRUE, !.hop = h]
        /\ cmd.at = "finish" /\ cmd' = [at |-> "idle", to |-> NONE]
    BY <1>6 DEF FinishesCommand
  <2> HIDE DEF h
  <2>2. /\ fw'.slots = fw.slots /\ fw'.head = fw.head /\ fw'.tail = fw.tail
        /\ fw'.state = fw.state /\ fw'.overrun = fw.overrun /\ fw'.unsure = fw.unsure
    BY <1>t, <2>1 DEF Firmware
  <2>3. ~Window /\ ~Window'
    BY <2>1 DEF Window
  <2>4. Sure(fw', told)
    BY <2>2, <2>3, SameKnowledge DEF KnowInv
  <2>5. QED
    BY <1>r, <2>3, <2>4 DEF KnowInv
<1>7. QED
  BY <1>1, <1>2, <1>3, <1>4, <1>5, <1>6 DEF CommandTask

LEMMA PacketKnows ==
    ASSUME IInv, KnowInv, PacketTask
    PROVE  KnowInv'
<1>t. /\ Good(fw, sending) /\ fw \in Firmware /\ fw.head \in Nat /\ fw.tail \in Nat
      /\ fw.overrun \in BOOLEAN /\ fw.slots \in [0..(Size - 1) -> Message \cup {NONE}]
      /\ Size \in Nat /\ fw.unsure \in BOOLEAN
  BY TasksAssumption DEF IInv, TypeOK, Firmware
<1>1. cmd' = cmd /\ cmd.at = "idle"
  BY DEF PacketTask, PacketTakes, PacketSent, Running
<1>2. ~Window /\ ~Window' /\ Sure(fw, told)
  BY <1>1 DEF KnowInv, Window
<1>3. CASE PacketTakes
  BY <1>2, <1>3 DEF PacketTakes, KnowInv
<1>4. CASE PacketSent
  <2> DEFINE i == fw.tail % Size
             x == IF fw.slots[i] = sending /\ fw.slots[i].n = fw.tail THEN NONE ELSE fw.slots[i]
             slots == [fw.slots EXCEPT ![i] = x]
  <2>1. /\ fw' = [fw EXCEPT !.tail = fw.tail + 1, !.slots = slots]
        /\ sending # NONE
        /\ told' = IF sending.says \in State THEN sending.says ELSE told
    BY <1>4 DEF PacketSent
  <2>2. i \in 0..(Size - 1)
    BY <1>t, SlotExists
  <2>3. \A k \in 0..(Size - 1) : k # i => slots[k] = fw.slots[k]
    BY <1>t
  <2> HIDE DEF slots
  <2>4. /\ fw'.slots = slots /\ fw'.head = fw.head /\ fw'.tail = fw.tail + 1
        /\ fw'.state = fw.state /\ fw'.overrun = fw.overrun /\ fw'.unsure = fw.unsure
    BY <1>t, <2>1 DEF Firmware
  <2>5. ASSUME ~fw.overrun, ~fw.unsure PROVE WillKnow(fw', told')
    <3>1. InOrder(fw, sending) /\ WillKnow(fw, told) /\ fw.tail < fw.head
      BY <1>t, <1>2, <2>1, <2>5 DEF Good, Sure
    <3>2. Says(fw, fw.tail) = sending.says
      BY <2>1, <3>1 DEF InOrder, Says
    <3>3. ASSUME NEW k \in (fw.tail + 1)..(fw.head - 1) PROVE Says(fw', k) = Says(fw, k)
      <4>1. k \in Nat /\ fw.tail < k /\ k - fw.tail < Size
        BY <1>t, <3>1 DEF InOrder
      <4>2. i # k % Size /\ k % Size \in 0..(Size - 1)
        BY <1>t, <4>1, SlotsDiffer, SlotExists
      <4>3. QED
        BY <2>3, <2>4, <4>2 DEF Says
    <3>4. ASSUME NEW first \in Nat, first > fw.tail, NoState(fw, first)
          PROVE  NoState(fw', first)
      <4> SUFFICES ASSUME NEW k \in first..(fw'.head - 1) PROVE Says(fw', k) \notin State
        BY DEF NoState
      <4>1. k \in first..(fw.head - 1) /\ k \in (fw.tail + 1)..(fw.head - 1)
        BY <1>t, <2>4, <3>4
      <4>2. QED
        BY <3>3, <3>4, <4>1 DEF NoState
    <3>5. CASE told = fw.state /\ NoState(fw, fw.tail)
      <4>1. fw.tail \in fw.tail..(fw.head - 1)
        BY <1>t, <3>1
      <4>2. told' = told
        BY <2>1, <3>2, <3>5, <4>1 DEF NoState
      <4>3. NoState(fw, fw.tail + 1)
        <5>1. \A k \in (fw.tail + 1)..(fw.head - 1) : k \in fw.tail..(fw.head - 1)
          BY <1>t
        <5>2. QED
          BY <3>5, <5>1 DEF NoState
      <4>4. NoState(fw', fw.tail + 1)
        BY <1>t, <3>4, <4>3
      <4>5. QED
        BY <2>4, <3>5, <4>2, <4>4 DEF WillKnow
    <3>6. ASSUME NEW k \in fw.tail..(fw.head - 1), Says(fw, k) = fw.state, NoState(fw, k + 1)
          PROVE  WillKnow(fw', told')
      <4>1. k + 1 \in Nat /\ k + 1 > fw.tail
        BY <1>t
      <4>2. NoState(fw', k + 1)
        BY <3>4, <3>6, <4>1
      <4>3. CASE k = fw.tail
        <5>1. told' = fw.state
          BY <1>t, <2>1, <3>2, <3>6, <4>3 DEF Firmware
        <5>2. QED
          BY <2>4, <4>2, <4>3, <5>1 DEF WillKnow
      <4>4. CASE k # fw.tail
        <5>1. k \in (fw.tail + 1)..(fw.head - 1)
          BY <1>t, <4>4
        <5>2. k \in fw'.tail..(fw'.head - 1)
          BY <2>4, <5>1
        <5>3. Says(fw', k) = fw'.state
          BY <2>4, <3>3, <3>6, <5>1
        <5>4. QED
          BY <4>2, <5>2, <5>3 DEF WillKnow
      <4>5. QED
        BY <4>3, <4>4
    <3>7. QED
      BY <3>1, <3>5, <3>6 DEF WillKnow
  <2>6. Sure(fw', told')
    BY <2>4, <2>5 DEF Sure
  <2>7. QED
    BY <1>2, <2>6 DEF KnowInv
<1>5. QED
  BY <1>3, <1>4 DEF PacketTask

LEMMA Knowledge == Spec => []KnowInv
<1>1. Init => KnowInv
  <2> SUFFICES ASSUME Init PROVE KnowInv
    OBVIOUS
  <2>1. fw.unsure = TRUE /\ cmd.at = "idle"
    BY DEF Init
  <2>2. QED
    BY <2>1 DEF KnowInv, Window, Sure
<1>2. IInv /\ KnowInv /\ [Next]_vars => KnowInv'
  <2> SUFFICES ASSUME IInv, KnowInv, [Next]_vars PROVE KnowInv'
    OBVIOUS
  <2>1. ASSUME UNCHANGED vars PROVE KnowInv'
    BY <2>1 DEF vars, KnowInv, Window
  <2>2. QED
    BY <2>1, RadioKnows, CallbackKnows, CommandKnows, PacketKnows DEF Next, Quiet
<1>3. QED
  BY <1>1, <1>2, Invariance, PTL DEF Spec

(* When all messages are sent and no command runs, the host knows the state *)
(* the sniffer is in (stateTransition, which sets it and queues a message); *)
(* unless a message was dropped or overran the queue, or a frame changed    *)
(* the state between a command's change and its message.                    *)
THEOREM HostIsTold == Spec => []HostKnowsState
<1>1. IInv /\ KnowInv => HostKnowsState
  <2> SUFFICES ASSUME IInv, KnowInv, fw.head = fw.tail, cmd.at = "idle",
                      ~fw.unsure, ~fw.overrun
               PROVE  told = fw.state
    BY DEF HostKnowsState
  <2>1. WillKnow(fw, told)
    BY DEF KnowInv, Window, Sure
  <2>2. fw.tail..(fw.head - 1) = {}
    BY DEF IInv, TypeOK, Firmware
  <2>3. QED
    BY <2>1, <2>2 DEF WillKnow
<1>2. QED
  BY <1>1, Invariance, Knowledge, PTL

-----------------------------------------------------------------------------
(* The packets to transmit.                                                *)

(* What the packets of an event are the first of. *)
Prefix(p, q) == Len(p) <= Len(q) /\ \A i \in 1..Len(p) : p[i] = q[i]

(* While an operation goes on that was not stopped, the packets it was given *)
(* are still the first ones of the queue.                                    *)
BatchInv == radio.at = "op" /\ ~fw.stop => Prefix(radio.batch, txq)

LEMMA StopStays ==
    ASSUME NEW s, s \in Firmware
    PROVE  /\ \A says : Indicate(s, says).stop = s.stop
           /\ \A to : StateTransition(s, to).stop = s.stop
<1>1. ASSUME NEW u, u \in Firmware, NEW says
      PROVE  /\ Indicate(u, says).stop = u.stop
             /\ \A b : [Indicate(u, says) EXCEPT !.unsure = b].stop = u.stop
  BY <1>1 DEF Indicate, Insert, Firmware
<1>2. ASSUME NEW to PROVE StateTransition(s, to).stop = s.stop
  BY DEF StateTransition, Indicate, Insert, Firmware, IsFull
<1>3. QED
  BY <1>1, <1>2

(* The callback never takes a stop back. *)
LEMMA ReactKeepsStop ==
    ASSUME NEW m, NEW s, Good(s, m), done \in {"STATIC", "PAUSED"}, NEW frame, s.stop
    PROVE  ReactToPDU(s, frame).stop
<1>1. s \in Firmware
  BY DEF Good
<1>s. "PERIPHERAL" \in State /\ "DATA" \in State /\ "ADVERT_SEEK" \in State /\ done \in State
  BY DEF State, Connected, Wanted
<1>2. ASSUME NEW to \in State
      PROVE  /\ StateTransition(s, to) \in Firmware /\ StateTransition(s, to).stop
             /\ [StateTransition(s, to) EXCEPT !.stop = TRUE].stop
  <2>1. Good(StateTransition(s, to), m)
    BY TransitionGood
  <2>2. StateTransition(s, to) \in Firmware /\ StateTransition(s, to).stop = s.stop
    BY <1>1, <2>1, StopStays DEF Good
  <2>3. QED
    BY <2>2 DEF Firmware
<1>3. ConnFinished(s).stop
  <2> DEFINE u == StateTransition(s, done)
  <2>1. u \in Firmware /\ u.stop
    BY <1>s, <1>2
  <2>2. Good(u, m)
    BY <1>s, TransitionGood
  <2> HIDE DEF u
  <2>3. Good(StateTransition(u, "ADVERT_SEEK"), m)
    BY <1>s, <2>2, TransitionGood
  <2> DEFINE v == StateTransition(u, "ADVERT_SEEK")
  <2>4. v \in Firmware
    BY <2>3 DEF Good
  <2> HIDE DEF v
  <2>5. [v EXCEPT !.stop = TRUE].stop
    BY <2>4 DEF Firmware
  <2>6. ConnFinished(s) \in {u, [v EXCEPT !.stop = TRUE]}
    BY DEF ConnFinished, u, v
  <2>7. QED
    BY <2>1, <2>5, <2>6
<1>4. [s EXCEPT !.gotAux = TRUE].stop
  BY <1>1 DEF Firmware
<1>5. ASSUME NEW aux \in BOOLEAN PROVE ConnReq(s, aux).stop
  BY <1>s, <1>2, <1>4 DEF ConnReq
<1>6. ReactToPDU(s, frame) \in
        {ConnReq(s, FALSE), ConnReq(s, TRUE), ConnFinished(s), s,
         [StateTransition(s, "DATA") EXCEPT !.stop = TRUE]}
  BY DEF ReactToPDU
<1>7. QED
  BY <1>s, <1>2, <1>3, <1>5, <1>6

-----------------------------------------------------------------------------
LEMMA CallbackKeepsBatch ==
    ASSUME IInv, BatchInv, Callback
    PROVE  BatchInv'
<1>1. Good(fw, sending) /\ done \in {"STATIC", "PAUSED"}
      /\ radio \in [at: {"op", "sleep"}, for: State, heard: BOOLEAN, batch: Seq(Packet)]
  BY DEF IInv, TypeOK
<1>2. PICK frame : fw' = [Indicate(ReactToPDU(fw, frame), "frame") EXCEPT
                            !.unsure = @ \/ (cmd.to # NONE /\ cmd.at \in {"check", "put"}
                              /\ (fw.unsure
                              \/ Indicate(ReactToPDU(fw, frame), "frame").state # fw.state))]
  BY DEF Callback
<1> DEFINE r == ReactToPDU(fw, frame)
           s == Indicate(r, "frame")
<1>3. Good(r, sending) /\ (fw.stop => r.stop)
  BY <1>1, ReactGood, ReactKeepsStop
<1>4. fw' = [s EXCEPT !.unsure = s.unsure \/ (cmd.to # NONE /\ cmd.at \in {"check", "put"}
                                   /\ (fw.unsure \/ s.state # fw.state))]
  BY <1>2
<1> HIDE DEF r
<1>5. Good(s, sending) /\ s.stop = r.stop
  BY <1>3, IndicateGood, StopStays DEF Good
<1> HIDE DEF s
<1>6. s \in Firmware
  BY <1>5 DEF Good
<1>7. fw'.stop = s.stop
  BY <1>4, <1>6 DEF Firmware
<1>8. fw.stop => fw'.stop
  BY <1>3, <1>5, <1>7
<1>9. /\ txq' = txq /\ radio.at = "op"
      /\ radio' = [radio EXCEPT !.heard = radio.for \in Connected]
  BY DEF Callback
<1>10. radio'.at = radio.at /\ radio'.batch = radio.batch
  BY <1>1, <1>9
<1>11. QED
  BY <1>8, <1>9, <1>10 DEF BatchInv

LEMMA Prefixes ==
    ASSUME NEW q \in Seq(Packet)
    PROVE  Prefix(q, q) /\ Prefix(<<>>, q)
BY DEF Prefix

LEMMA StartsBatch ==
    ASSUME NEW s, NEW queue \in Seq(Packet), Starts(s, queue)
    PROVE  Prefix(radio'.batch, queue)
<1>1. radio'.batch \in {queue, <<>>}
  BY DEF Starts
<1>2. QED
  BY <1>1, Prefixes

LEMMA RadioKeepsBatch ==
    ASSUME IInv, RadioTask
    PROVE  BatchInv'
<1>1. txq \in Seq(Packet)
      /\ radio \in [at: {"op", "sleep"}, for: State, heard: BOOLEAN, batch: Seq(Packet)]
  BY DEF IInv, TypeOK
<1>2. \/ \E s : Starts(s, txq) /\ txq' = txq
      \/ \E s : \E n \in 0..Len(radio.batch) : Starts(s, Flushed(n)) /\ txq' = Flushed(n)
      \/ radio'.at = "sleep"
  <2>1. CASE ListeningEnds
    BY <2>1 DEF ListeningEnds
  <2>2. CASE SeekEnds
    BY <2>2 DEF SeekEnds
  <2>3. CASE InitiatingEnds
    BY <2>3 DEF InitiatingEnds
  <2>4. CASE DataEnds
    BY <2>4 DEF DataEnds
  <2>5. CASE EventEnds
    <3>1. PICK n \in 0..Len(radio.batch) :
          /\ txq' = Flushed(n)
          /\ \/ Starts(fw, Flushed(n))
             \/ \E s \in AfterConnEvent(ReactToTransmitted(fw, n)) : Starts(s, Flushed(n))
             \/ radio' = [radio EXCEPT !.at = "sleep", !.batch = <<>>]
      BY <2>5 DEF EventEnds
    <3>2. CASE radio' = [radio EXCEPT !.at = "sleep", !.batch = <<>>]
      BY <1>1, <3>2
    <3>3. QED
      BY <3>1, <3>2
  <2>6. CASE AdvertisingEnds
    BY <1>1, <2>6 DEF AdvertisingEnds
  <2>7. CASE RadioWakes
    BY <2>7 DEF RadioWakes
  <2>8. QED
    BY <2>1, <2>2, <2>3, <2>4, <2>5, <2>6, <2>7 DEF RadioTask
<1>3. ASSUME NEW s, Starts(s, txq), txq' = txq PROVE BatchInv'
  BY <1>1, <1>3, StartsBatch DEF BatchInv
<1>4. ASSUME NEW s, NEW n \in 0..Len(radio.batch), Starts(s, Flushed(n)), txq' = Flushed(n)
      PROVE  BatchInv'
  <2>0. Len(radio.batch) \in Nat
    BY <1>1
  <2>1. n \in Nat
    BY <2>0
  <2>2. Flushed(n) \in Seq(Packet)
    BY <1>1, <2>1, FlushedType
  <2>3. QED
    BY <1>4, <2>2, StartsBatch DEF BatchInv
<1>5. CASE radio'.at = "sleep"
  BY <1>5 DEF BatchInv
<1>6. QED
  BY <1>2, <1>3, <1>4, <1>5

LEMMA CommandKeepsBatch ==
    ASSUME IInv, BatchInv, CommandTask
    PROVE  BatchInv'
<1>t. /\ fw \in Firmware /\ txq \in Seq(Packet) /\ commands \in Nat
      /\ radio \in [at: {"op", "sleep"}, for: State, heard: BOOLEAN, batch: Seq(Packet)]
      /\ cmd \in [at: {"idle", "check", "put", "finish"}, to: Wanted \cup {NONE}]
  <2>1. \A x \in 0..MaxCommands : x \in Nat
    BY TasksAssumption
  <2>2. QED
    BY <2>1 DEF IInv, TypeOK
<1>r. radio' = radio
  BY DEF CommandTask, StateCommand, MarkerCommand, TransmitCommand, ChecksQueue,
     PutsMessage, FinishesCommand, Receives, Commands
<1>q. ASSUME txq' = txq, fw'.stop = fw.stop PROVE BatchInv'
  BY <1>r, <1>q DEF BatchInv
<1>1. CASE StateCommand
  <2>1. fw'.stop = fw.stop /\ txq' = txq
    BY <1>t, <1>1 DEF StateCommand, Firmware
  <2>2. QED
    BY <1>q, <2>1
<1>2. CASE MarkerCommand
  BY <1>q, <1>2 DEF MarkerCommand
<1>3. CASE TransmitCommand
  <2>1. PICK terminates \in BOOLEAN :
          txq' = IF Len(txq) = Size - 1 THEN txq
                 ELSE Append(txq, [n |-> commands, terminates |-> terminates])
    BY <1>3 DEF TransmitCommand
  <2> DEFINE x == [n |-> commands, terminates |-> terminates]
  <2>2. x \in Packet
    BY <1>t DEF Packet
  <2>3. fw' = fw
    BY <1>3 DEF TransmitCommand
  <2> HIDE DEF x
  <2>4. CASE txq' = Append(txq, x)
    <3>1. /\ Len(txq') = Len(txq) + 1 /\ Len(txq) \in Nat /\ Len(radio.batch) \in Nat
          /\ \A i \in 1..Len(txq) : txq'[i] = txq[i]
      BY <1>t, <2>2, <2>4
    <3>2. Prefix(radio.batch, txq) => Prefix(radio.batch, txq')
      BY <3>1 DEF Prefix
    <3>3. QED
      BY <1>r, <2>3, <3>2 DEF BatchInv
  <2>5. QED
    BY <1>q, <2>1, <2>3, <2>4 DEF x
<1>4. CASE ChecksQueue
  <2>1. fw'.stop = fw.stop /\ txq' = txq
    BY <1>t, <1>4 DEF ChecksQueue, Firmware
  <2>2. QED
    BY <1>q, <2>1
<1>5. CASE PutsMessage
  <2> DEFINE says == IF cmd.to = NONE THEN "marker" ELSE cmd.to
  <2>1. /\ fw' = [Insert(fw, says) EXCEPT !.unsure = @ /\ fw.state # cmd.to] /\ txq' = txq
    BY <1>5 DEF PutsMessage
  <2> HIDE DEF says
  <2>2. fw'.stop = fw.stop
    BY <1>t, <2>1 DEF Insert, Firmware
  <2>3. QED
    BY <1>q, <2>1, <2>2
<1>6. CASE FinishesCommand
  <2>1. CASE cmd.to = NONE
    BY <1>q, <1>6, <2>1, NoneAssumption DEF FinishesCommand, State, Wanted
  <2>2. CASE cmd.to # NONE
    <3>1. fw'.stop
      BY <1>t, <1>6, <2>2 DEF FinishesCommand, Firmware
    <3>2. QED
      BY <3>1 DEF BatchInv
  <2>3. QED
    BY <2>1, <2>2
<1>7. QED
  BY <1>1, <1>2, <1>3, <1>4, <1>5, <1>6 DEF CommandTask

LEMMA PacketKeepsBatch ==
    ASSUME IInv, BatchInv, PacketTask
    PROVE  BatchInv'
<1>1. fw \in Firmware
  BY DEF IInv, TypeOK
<1>2. fw'.stop = fw.stop /\ txq' = txq /\ radio' = radio
  BY <1>1 DEF PacketTask, PacketTakes, PacketSent, Firmware
<1>3. QED
  BY <1>2 DEF BatchInv

LEMMA Batches == Spec => []BatchInv
<1>1. Init => BatchInv
  <2>1. <<>> \in Seq(Packet)
    OBVIOUS
  <2>2. Prefix(<<>>, <<>>)
    BY <2>1, Prefixes
  <2>3. Init => radio.batch = <<>> /\ txq = <<>>
    BY DEF Init
  <2>4. QED
    BY <2>2, <2>3 DEF BatchInv
<1>2. IInv /\ BatchInv /\ [Next]_vars => BatchInv'
  <2> SUFFICES ASSUME IInv, BatchInv, [Next]_vars PROVE BatchInv'
    OBVIOUS
  <2>1. ASSUME UNCHANGED vars PROVE BatchInv'
    BY <2>1 DEF vars, BatchInv
  <2>2. QED
    BY <2>1, RadioKeepsBatch, CallbackKeepsBatch, CommandKeepsBatch, PacketKeepsBatch
       DEF Next, Quiet
<1>3. QED
  BY <1>1, <1>2, Invariance, PTL DEF Spec

(* TXQueue_flush takes what the event has sent from the queue, and nothing  *)
(* else that a COMMAND_TRANSMIT has put there since; unless the event was   *)
(* stopped, by a command that may have emptied the queue meanwhile.         *)
THEOREM FlushesWhatWasSent == Spec => FlushedWasSent
<1> DEFINE Sent == RadioTask /\ txq' # txq =>
        \/ \E n \in 0..Len(radio.batch) : SubSeq(radio.batch, 1, n) \o txq' = txq
        \/ fw.stop
<1>1. IInv /\ BatchInv => [Sent]_vars
  <2> SUFFICES ASSUME IInv, BatchInv, RadioTask, txq' # txq, ~fw.stop
               PROVE  \E n \in 0..Len(radio.batch) : SubSeq(radio.batch, 1, n) \o txq' = txq
    OBVIOUS
  <2>1. EventEnds
    BY DEF RadioTask, ListeningEnds, SeekEnds, InitiatingEnds, DataEnds,
       AdvertisingEnds, RadioWakes
  <2>2. PICK n \in 0..Len(radio.batch) : txq' = Flushed(n)
    BY <2>1 DEF EventEnds
  <2>3. /\ txq \in Seq(Packet) /\ radio.batch \in Seq(Packet)
        /\ Len(radio.batch) \in Nat /\ Len(txq) \in Nat /\ n \in Nat
    <3>1. txq \in Seq(Packet) /\ radio.batch \in Seq(Packet)
      BY DEF IInv, TypeOK
    <3>2. Len(radio.batch) \in Nat /\ Len(txq) \in Nat
      BY <3>1
    <3>3. QED
      BY <3>1, <3>2
  <2>4. Prefix(radio.batch, txq)
    BY <2>1 DEF BatchInv, EventEnds, RadioEnds
  <2>5. n <= Len(radio.batch) /\ Len(radio.batch) <= Len(txq)
    BY <2>3, <2>4 DEF Prefix
  <2>6. txq' = SubSeq(txq, n + 1, Len(txq))
    <3>1. n = Len(txq) \/ n < Len(txq)
      BY <2>3, <2>5
    <3>2. QED
      BY <2>2, <3>1 DEF Flushed
  <2> DEFINE a == SubSeq(radio.batch, 1, n)
             b == SubSeq(txq, n + 1, Len(txq))
  <2>7. /\ a \in Seq(Packet) /\ Len(a) = n
        /\ \A i \in 1..n : a[i] = radio.batch[i]
    BY <2>3, <2>5
  <2>8. /\ b \in Seq(Packet) /\ Len(b) = Len(txq) - n
        /\ \A i \in 1..(Len(txq) - n) : b[i] = txq[n + i]
    <3>1. /\ n + 1 \in Nat /\ Len(txq) - (n + 1) + 1 = Len(txq) - n
      BY <2>3
    <3>2. \A i \in (n + 1)..Len(txq) : txq[i] \in Packet
      BY <2>3
    <3> HIDE DEF b
    <3>3. Len(b) = Len(txq) - n
      <4>1. Len(b) = IF n + 1 <= Len(txq) THEN Len(txq) - (n + 1) + 1 ELSE 0
        BY <2>3, <3>2, SubSeqProperties DEF b
      <4>2. QED
        BY <2>3, <2>5, <4>1
    <3>4. b \in Seq(Packet)
      BY <2>3, <3>2, SubSeqProperties DEF b
    <3>5. ASSUME NEW i \in 1..(Len(txq) - n) PROVE b[i] = txq[n + i]
      <4>1. i \in 1..Len(b) /\ (n + 1) + i - 1 = n + i
        BY <2>3, <2>5, <3>3
      <4>2. QED
        BY <2>3, <3>2, <4>1, SubSeqProperties DEF b
    <3>6. QED
      BY <3>3, <3>4, <3>5
  <2> HIDE DEF a, b
  <2>9. a \o b = txq
    <3>1. a \o b \in Seq(Packet) /\ Len(a \o b) = Len(txq)
      BY <2>3, <2>5, <2>7, <2>8
    <3>2. ASSUME NEW i \in 1..Len(txq) PROVE (a \o b)[i] = txq[i]
      <4>1. CASE i <= n
        <5>1. i \in 1..n /\ i \in 1..Len(radio.batch)
          BY <2>3, <2>5, <4>1
        <5>2. (a \o b)[i] = a[i]
          BY <2>7, <2>8, <5>1
        <5>3. QED
          BY <2>4, <2>7, <5>1, <5>2 DEF Prefix
      <4>2. CASE i > n
        <5>1. i - n \in 1..(Len(txq) - n) /\ n + (i - n) = i
          BY <2>3, <2>5, <4>2
        <5>2. (a \o b)[i] = b[i - n]
          BY <2>3, <2>7, <2>8, <4>2, <3>1
        <5>3. QED
          BY <2>8, <5>1, <5>2
      <4>3. i <= n \/ i > n
        BY <2>3
      <4>4. QED
        BY <4>1, <4>2, <4>3
    <3>3. QED
      BY <2>3, <3>1, <3>2, SeqEqual
  <2>10. QED
    BY <2>6, <2>9 DEF a, b
<1>2. QED
  BY <1>1, Invariance, Batches, PTL DEF FlushedWasSent

(* The round of radioTaskFunction that a command cancelled does not take    *)
(* its state away; except in DATA and after a sleep, when the connection    *)
(* times out.                                                               *)
THEOREM CancelledOperationsEndQuietly == Spec => CancelledEndsQuietly
<1> DEFINE Quietly == RadioTask /\ fw.state # radio.for /\ fw'.state # fw.state
        => /\ radio.for = "DATA" \/ radio.at = "sleep"
           /\ ~radio.heard
<1>1. IInv => [Quietly]_vars
  <2> SUFFICES ASSUME IInv, RadioTask, fw.state # radio.for, fw'.state # fw.state
               PROVE  (radio.for = "DATA" \/ radio.at = "sleep") /\ ~radio.heard
    OBVIOUS
  <2>1. fw \in Firmware
    BY DEF IInv, TypeOK
  <2>2. ASSUME NEW queue PROVE ~Starts(fw, queue)
    BY <2>1 DEF Starts, Firmware
  <2>3. ~ListeningEnds
    BY <2>2 DEF ListeningEnds
  <2>4. ~SeekEnds
    BY <2>2 DEF SeekEnds, RadioEnds
  <2>5. ~InitiatingEnds
    BY <2>2 DEF InitiatingEnds, RadioEnds
  <2>6. CASE DataEnds
    BY <2>2, <2>6 DEF DataEnds, RadioEnds, AfterConnEvent
  <2>7. ~EventEnds
    BY <2>2 DEF EventEnds
  <2>8. ~AdvertisingEnds
    BY <2>2 DEF AdvertisingEnds
  <2>9. CASE RadioWakes
    BY <2>2, <2>9 DEF RadioWakes, AfterConnEvent
  <2>10. QED
    BY <2>3, <2>4, <2>5, <2>6, <2>7, <2>8, <2>9 DEF RadioTask
<1>2. QED
  BY <1>1, Invariance, PTL DEF CancelledEndsQuietly
=============================================================================
