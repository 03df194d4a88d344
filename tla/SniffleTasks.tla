---------------------------- MODULE SniffleTasks ----------------------------
(***************************************************************************)
(* The tasks of the Sniffle firmware (Sniffle/fw): RadioTask.c with the    *)
(* state of the sniffer, CommandTask.c, PacketTask.c with the queue of     *)
(* messages to the host, and TXQueue.c.                                    *)
(*                                                                         *)
(* The three tasks have one priority and no time slices: one runs until it *)
(* blocks, in a radio operation, a sleep, or on the UART.  The callback of *)
(* a radio operation interrupts them.  The radio task waits while its      *)
(* operation runs and the packet task takes a message in one go, so what   *)
(* the callback can cut in two is a command.  What the radio hears         *)
(* (external) is any frame its operation can receive.                      *)
(***************************************************************************)
EXTENDS Integers, Sequences

CONSTANTS
    Size,           \* JANKY_QUEUE_SIZE, 8
    MaxCommands,    \* bound: commands of the host
    MaxFrames,      \* bound: frames heard
    NONE

ASSUME TasksAssumption ==
    /\ Size \in Nat \ {0, 1}
    /\ MaxCommands \in Nat /\ MaxFrames \in Nat

Connected == {"DATA", "CENTRAL", "PERIPHERAL"}    \* inDataState

(* The states a command can ask for, and all.  ADVERTISING stands for       *)
(* ADVERTISING_EXT too, whose round and command have the same control.      *)
Wanted == {"STATIC", "ADVERT_SEEK", "INITIATING", "ADVERTISING", "SCANNING"}

State == Wanted \cup Connected \cup {"ADVERT_HOP", "PAUSED"}

ASSUME NoneAssumption == NONE \notin State

VARIABLES
    fw,         \* what the tasks and the callback share
    done,       \* sniffDoneState
    radio,      \* the radio task
    cmd,        \* the command task
    sending,    \* the message the packet task writes to the UART
    txq,        \* TXQueue: packets to transmit, from queue_tail to queue_head
    told,       \* the last state the host was told
    commands, frames    \* how many there have been

vars == <<fw, done, radio, cmd, sending, txq, told, commands, frames>>

(* A message carries a state, or is a frame or a marker; n is queue_head at  *)
(* the time it was queued.                                                   *)
Message == [n: Nat, says: State \cup {"frame", "marker"}]

Packet == [n: Nat, terminates: BOOLEAN]

Firmware ==
    [state: State,              \* snifferState
     hop: BOOLEAN,              \* advHopEnabled
     gotAux: BOOLEAN,           \* gotAuxConnReq
     slots: [0..(Size - 1) -> Message \cup {NONE}],    \* s_frames
     head: Nat, tail: Nat,      \* queue_head, queue_tail
     stop: BOOLEAN,             \* RadioWrapper_stop was called in this operation
     overrun: BOOLEAN,          \* history: a message was put into a full queue
     unsure: BOOLEAN]           \* history: see HostKnowsState

TypeOK ==
    /\ fw \in Firmware
    /\ done \in {"STATIC", "PAUSED"}
    /\ radio \in [at: {"op", "sleep"}, for: State, heard: BOOLEAN, batch: Seq(Packet)]
    /\ cmd \in [at: {"idle", "check", "put", "finish"}, to: Wanted \cup {NONE}]
    /\ sending \in Message \cup {NONE}
    /\ txq \in Seq(Packet)
    /\ told \in State \cup {NONE}
    /\ commands \in 0..MaxCommands /\ frames \in 0..MaxFrames

Init ==
    /\ fw = [state |-> "STATIC", hop |-> FALSE, gotAux |-> FALSE,
             slots |-> [i \in 0..(Size - 1) |-> NONE], head |-> 0, tail |-> 0,
             stop |-> FALSE, overrun |-> FALSE, unsure |-> TRUE]
    /\ done \in {"STATIC", "PAUSED"}
    /\ radio = [at |-> "op", for |-> "STATIC", heard |-> FALSE, batch |-> <<>>]
    /\ cmd = [at |-> "idle", to |-> NONE]
    /\ sending = NONE
    /\ txq = <<>>
    /\ told = NONE
    /\ commands = 0 /\ frames = 0

-----------------------------------------------------------------------------
(* indicatePacket: the check, and the insertion.  One slot stays free; the *)
(* number of messages is only known modulo the size.                       *)

IsFull(s) == (s.head - s.tail) % Size = Size - 1

Insert(s, says) ==
    [s EXCEPT !.slots[s.head % Size] = [n |-> s.head, says |-> says],
              !.head = @ + 1,
              !.overrun = @ \/ s.head - s.tail >= Size - 1]

(* Seeded fault: the queue is not looked at. *)
IndicateAnyway(s, says) == Insert(s, says)

Indicate(s, says) == IF IsFull(s) THEN s ELSE Insert(s, says)

(* Seeded fault: the host is not told. *)
SilentTransition(s, to) == [s EXCEPT !.state = to]

(* stateTransition, where nothing can come between its two halves. *)
StateTransition(s, to) ==
    [Indicate([s EXCEPT !.state = to], to) EXCEPT !.unsure = IsFull(s)]

(* handleConnFinished, with advHopSeekMode. *)
ConnFinished(s) ==
    LET t == StateTransition(s, done)
    IN  IF done # "PAUSED" /\ s.hop
        THEN [StateTransition(t, "ADVERT_SEEK") EXCEPT !.stop = TRUE]
        ELSE t

-----------------------------------------------------------------------------
(* The radio task.  From the end of an operation to the start of the next  *)
(* it is not interrupted.                                                  *)

Running == cmd.at = "idle"

(* The round of radioTaskFunction that the state asks for: an operation, or *)
(* the sleep of PAUSED.  Two states take what is to be transmitted.         *)
Starts(s, queue) ==
    /\ fw' = [s EXCEPT !.gotAux = FALSE, !.stop = FALSE]
    /\ radio' = [at |-> IF s.state = "PAUSED" THEN "sleep" ELSE "op",
                 for |-> s.state, heard |-> FALSE,
                 batch |-> IF s.state \in {"CENTRAL", "PERIPHERAL"} THEN queue ELSE <<>>]

RadioEnds(for) ==
    /\ Running /\ radio.at = "op" /\ radio.for = for
    /\ UNCHANGED <<done, cmd, sending, told, commands, frames>>

(* A scan has no end time: it goes on until it is stopped.  Neither has     *)
(* STATIC, unless it follows auxiliary advertisements.                      *)
CanEnd == radio.for = "SCANNING" => fw.stop

(* STATIC and SCANNING; and ADVERT_HOP, whose end leads to the next round. *)
ListeningEnds ==
    /\ \E for \in {"STATIC", "SCANNING", "ADVERT_HOP"} : RadioEnds(for)
    /\ CanEnd
    /\ Starts(fw, txq)
    /\ UNCHANGED txq

(* ADVERT_SEEK: enough is known about the advertiser's hops, or not yet. *)
SeekEnds ==
    /\ RadioEnds("ADVERT_SEEK")
    /\ \/ fw.state # "ADVERT_SEEK" /\ Starts(fw, txq)
       \/ fw.state = "ADVERT_SEEK" /\ Starts(fw, txq)
       \/ fw.state = "ADVERT_SEEK" /\ Starts(StateTransition(fw, "ADVERT_HOP"), txq)
    /\ UNCHANGED txq

(* Seeded fault: the state is not looked at again. *)
InitiatingEndsAnyway ==
    /\ RadioEnds("INITIATING")
    /\ \/ Starts(ConnFinished(fw), txq)
       \/ Starts(StateTransition(fw, "CENTRAL"), txq)
    /\ UNCHANGED txq

(* INITIATING: cancelled; failed, or stopped by a second command to initiate; *)
(* or connected.                                                              *)
InitiatingEnds ==
    /\ RadioEnds("INITIATING")
    /\ \/ fw.state # "INITIATING" /\ Starts(fw, txq)
       \/ fw.state = "INITIATING" /\ Starts(ConnFinished(fw), txq)
       \/ fw.state = "INITIATING" /\ Starts(StateTransition(fw, "CENTRAL"), txq)
    /\ UNCHANGED txq

(* afterConnEvent: an event without data may be the one that times out. *)
AfterConnEvent(s) == IF radio.heard THEN {s} ELSE {s, ConnFinished(s)}

(* DATA: the state is not looked at again. *)
DataEnds ==
    /\ RadioEnds("DATA")
    /\ \E s \in AfterConnEvent(fw) : Starts(s, txq)
    /\ UNCHANGED txq

(* Seeded fault: the packet after the last one that was sent goes too. *)
FlushedOneMore(n) == SubSeq(txq, n + 2, Len(txq))

(* TXQueue_flush *)
Flushed(n) ==
    LET m == IF n < Len(txq) THEN n ELSE Len(txq)
    IN  SubSeq(txq, m + 1, Len(txq))

(* reactToTransmitted: of the packets, only LL_TERMINATE_IND changes the state. *)
ReactToTransmitted(s, n) ==
    IF \E i \in 1..n : radio.batch[i].terminates THEN ConnFinished(s) ELSE s

(* CENTRAL and PERIPHERAL: n packets of the batch were sent.  Unless it was *)
(* cancelled, the task sleeps until the next event, if that is worth it.    *)
EventEnds ==
    /\ \E for \in {"CENTRAL", "PERIPHERAL"} : RadioEnds(for)
    /\ \E n \in 0..Len(radio.batch) :
        /\ txq' = Flushed(n)
        /\ \/ fw.state # radio.for /\ Starts(fw, Flushed(n))
           \/ /\ fw.state = radio.for
              /\ \E s \in AfterConnEvent(ReactToTransmitted(fw, n)) : Starts(s, Flushed(n))
           \/ /\ fw.state = radio.for
              /\ fw' = ReactToTransmitted(fw, n)
              /\ radio' = [radio EXCEPT !.at = "sleep", !.batch = <<>>]

(* ADVERTISING: sleeps until the next advertisement. *)
AdvertisingEnds ==
    /\ RadioEnds("ADVERTISING")
    /\ IF fw.state = "ADVERTISING"
       THEN radio' = [radio EXCEPT !.at = "sleep"] /\ UNCHANGED fw
       ELSE Starts(fw, txq)
    /\ UNCHANGED txq

(* After the sleep of a connection event comes afterConnEvent. *)
RadioWakes ==
    /\ Running /\ radio.at = "sleep"
    /\ \E s \in IF radio.for \in Connected THEN AfterConnEvent(fw) ELSE {fw} : Starts(s, txq)
    /\ UNCHANGED <<done, cmd, sending, txq, told, commands, frames>>

RadioTask ==
    \/ ListeningEnds \/ SeekEnds \/ InitiatingEnds
    \/ DataEnds \/ EventEnds \/ AdvertisingEnds \/ RadioWakes

-----------------------------------------------------------------------------
(* The callback: reactToPDU, and then indicatePacket's own insertion.      *)

(* What an operation can hear. *)
Heard(for) ==
    CASE for \in Connected -> {"data", "terminate_ind", "continuation"}
      [] for = "STATIC" -> {"adv", "connect_ind", "aux_connect_req", "aux_connect_rsp"}
      [] for \in {"ADVERT_SEEK", "ADVERT_HOP", "ADVERTISING"} -> {"adv", "connect_ind"}
      [] OTHER -> {"adv"}

(* handleConnReq's caller, for a CONNECT_IND or AUX_CONNECT_REQ. *)
ConnReq(s, aux) ==
    IF s.state = "ADVERTISING"
    THEN [StateTransition(s, "PERIPHERAL") EXCEPT !.stop = TRUE]
    ELSE IF aux THEN [s EXCEPT !.gotAux = TRUE]
         ELSE [StateTransition(s, "DATA") EXCEPT !.stop = TRUE]

(* A frame on a data channel is a data PDU if the sniffer is in a data      *)
(* state, whatever the operation is that heard it; otherwise it is read as  *)
(* an advertising PDU: a continuation fragment of 34 bytes looks like an    *)
(* AUX_CONNECT_REQ.                                                         *)
ReactToPDU(s, frame) ==
    CASE frame = "connect_ind" -> ConnReq(s, FALSE)
      [] frame \in {"aux_connect_req", "continuation"} /\ s.state \notin Connected ->
            ConnReq(s, TRUE)
      [] frame = "aux_connect_rsp" /\ s.state \notin Connected /\ s.gotAux ->
            [StateTransition(s, "DATA") EXCEPT !.stop = TRUE]
      [] frame = "terminate_ind" /\ s.state \in Connected -> ConnFinished(s)
      [] OTHER -> s

(* A frame that is heard while a command is between its new state and the  *)
(* message about it makes the host's knowledge unsure, if it changes the    *)
(* state; and no other frame makes it sure again before that message.       *)
Callback ==
    /\ radio.at = "op" /\ frames < MaxFrames
    /\ \E frame \in Heard(radio.for) :
        LET s == Indicate(ReactToPDU(fw, frame), "frame")
        IN  fw' = [s EXCEPT !.unsure = @ \/ (cmd.to # NONE /\ cmd.at \in {"check", "put"}
                                                /\ (fw.unsure \/ s.state # fw.state))]
    /\ radio' = [radio EXCEPT !.heard = radio.for \in Connected]
    /\ frames' = frames + 1
    /\ UNCHANGED <<done, cmd, sending, txq, told, commands>>

-----------------------------------------------------------------------------
(* The command task.  messenger_recv is where it blocks.                   *)

Receives ==
    /\ cmd.at = "idle" /\ commands < MaxCommands
    /\ commands' = commands + 1
    /\ UNCHANGED <<done, radio, sending, told, frames>>

(* setChanAAPHYCRCI, advHopSeekMode, initiateConn, advertise, scan: the first *)
(* half of stateTransition, *)
StateCommand ==
    /\ Receives
    /\ \E to \in Wanted :
        /\ fw' = [fw EXCEPT !.state = to]
        /\ cmd' = [at |-> "check", to |-> to]
    /\ UNCHANGED txq

(* sendMarker has a message and no state, *)
MarkerCommand ==
    /\ Receives
    /\ cmd' = [at |-> "check", to |-> NONE]
    /\ UNCHANGED <<fw, txq>>

(* and COMMAND_TRANSMIT neither.  A full queue refuses the packet. *)
TransmitCommand ==
    /\ Receives
    /\ \E terminates \in BOOLEAN :
        txq' = IF Len(txq) = Size - 1 THEN txq
               ELSE Append(txq, [n |-> commands, terminates |-> terminates])
    /\ UNCHANGED <<fw, cmd>>

Commands ==
    UNCHANGED <<done, radio, sending, told, commands, frames>>

(* indicatePacket: is the queue full? *)
ChecksQueue ==
    /\ cmd.at = "check"
    /\ cmd' = [cmd EXCEPT !.at = IF IsFull(fw) THEN "finish" ELSE "put"]
    /\ fw' = [fw EXCEPT !.unsure = @ \/ (IsFull(fw) /\ cmd.to # NONE)]
    /\ UNCHANGED txq /\ Commands

(* The insertion, whatever has been inserted since. *)
PutsMessage ==
    /\ cmd.at = "put"
    /\ fw' = [Insert(fw, IF cmd.to = NONE THEN "marker" ELSE cmd.to)
                EXCEPT !.unsure = @ /\ fw.state # cmd.to]
    /\ cmd' = [cmd EXCEPT !.at = "finish"]
    /\ UNCHANGED txq /\ Commands

(* Seeded fault: the operation is not stopped. *)
FinishesWithoutStop ==
    /\ cmd.at = "finish"
    /\ fw' = IF cmd.to = NONE THEN fw
              ELSE [fw EXCEPT !.hop = CASE cmd.to = "ADVERT_SEEK" -> TRUE
                                        [] cmd.to = "STATIC" -> FALSE
                                        [] OTHER -> @]
    /\ txq' = IF cmd.to \in {"INITIATING", "ADVERTISING"} THEN <<>> ELSE txq
    /\ cmd' = [at |-> "idle", to |-> NONE]
    /\ Commands

(* The rest of the command; RadioWrapper_stop; TXQueue_init. *)
FinishesCommand ==
    /\ cmd.at = "finish"
    /\ fw' = IF cmd.to = NONE THEN fw
              ELSE [fw EXCEPT !.stop = TRUE,
                              !.hop = CASE cmd.to = "ADVERT_SEEK" -> TRUE
                                        [] cmd.to = "STATIC" -> FALSE
                                        [] OTHER -> @]
    /\ txq' = IF cmd.to \in {"INITIATING", "ADVERTISING"} THEN <<>> ELSE txq
    /\ cmd' = [at |-> "idle", to |-> NONE]
    /\ Commands

CommandTask ==
    \/ StateCommand \/ MarkerCommand \/ TransmitCommand
    \/ ChecksQueue \/ PutsMessage \/ FinishesCommand

-----------------------------------------------------------------------------
(* The packet task.  The semaphore counts the messages.  A slot that was   *)
(* sent and not written again is of no use to anyone.                      *)

(* Seeded fault: the slot is given free before it is sent. *)
TakesAndFrees ==
    /\ Running /\ sending = NONE /\ fw.head > fw.tail
    /\ sending' = fw.slots[fw.tail % Size]
    /\ fw' = [fw EXCEPT !.tail = @ + 1]
    /\ UNCHANGED <<done, radio, cmd, txq, told, commands, frames>>

PacketTakes ==
    /\ Running /\ sending = NONE /\ fw.head > fw.tail
    /\ sending' = fw.slots[fw.tail % Size]
    /\ UNCHANGED <<fw, done, radio, cmd, txq, told, commands, frames>>

PacketSent ==
    /\ Running /\ sending # NONE
    /\ told' = IF sending.says \in State THEN sending.says ELSE told
    /\ sending' = NONE
    /\ fw' = [fw EXCEPT !.tail = @ + 1,
                         !.slots[fw.tail % Size] = IF @ = sending /\ @.n = fw.tail
                                                   THEN NONE ELSE @]
    /\ UNCHANGED <<done, radio, cmd, txq, commands, frames>>

PacketTask == PacketTakes \/ PacketSent

(* The radio listens until the next command, and hears nothing. *)
Quiet ==
    /\ commands = MaxCommands /\ cmd.at = "idle" /\ fw.head = fw.tail
    /\ UNCHANGED vars

Next == RadioTask \/ Callback \/ CommandTask \/ PacketTask \/ Quiet

Spec == Init /\ [][Next]_vars

(* Tasks run when they can.  An operation ends when it is stopped, or at the *)
(* end of a connection event or of an advertisement; frames and commands     *)
(* need not come.                                                            *)
Ends == fw.stop \/ radio.for \in Connected \cup {"ADVERTISING"}

FairSpec ==
    /\ Spec
    /\ WF_vars(RadioTask /\ (radio.at # "op" \/ Ends))
    /\ WF_vars(PacketTask)
    /\ WF_vars(ChecksQueue \/ PutsMessage \/ FinishesCommand)

-----------------------------------------------------------------------------
(* The messages to the host are a queue, although its check and its        *)
(* insertion can be cut in two and its length is only known modulo its     *)
(* size: a slot that has not been sent, or is being sent, is not written   *)
(* again, and the host gets all of them in order.  The exception is a      *)
(* message put into the last free slot's place after another one took it   *)
(* (PacketTask.c:244 checks, line 248 inserts).                            *)
MessagesInOrder ==
    fw.overrun \/ /\ \A k \in fw.tail..(fw.head - 1) : fw.slots[k % Size].n = k
                  /\ sending # NONE =>
                        sending.n = fw.tail /\ fw.slots[fw.tail % Size] = sending

(* Only a command can put a message into a full queue: RadioTask.c:218 says *)
(* "Does thread safe copying into queue".  What the callback and the radio  *)
(* task add never does.                                                     *)
OverrunByCommandOnly ==
    [][fw.overrun' /\ ~fw.overrun =>
        cmd.at = "put" /\ fw'.head - fw'.tail = Size]_vars

(* When all is sent, the last state the host was told is the state of the  *)
(* sniffer, unless the message about it found the queue full, or a frame    *)
(* changed the state between a command's change and its message.            *)
HostKnowsState ==
    (fw.head = fw.tail /\ cmd.at = "idle" /\ ~fw.unsure /\ ~fw.overrun)
        => told = fw.state

(* The end of an operation that a command cancelled leaves the command's   *)
(* state alone; except that a connection that times out ends as always,     *)
(* because the state is not looked at again in DATA, nor after the sleep    *)
(* of the others (RadioTask.c:450, 530 and 560).                            *)
CancelledEndsQuietly ==
    [][RadioTask /\ fw.state # radio.for /\ fw'.state # fw.state
        => /\ radio.for = "DATA" \/ radio.at = "sleep"
           /\ ~radio.heard]_vars

(* A packet that was accepted leaves the queue by being sent, or with all   *)
(* the others when a new connection starts; except that the end of an       *)
(* event that was stopped flushes as many as it had sent, whatever has been *)
(* queued since.  That the state is the event's again does not help.        *)
FlushedWasSent ==
    [][RadioTask /\ txq' # txq =>
        \/ \E n \in 0..Len(radio.batch) :
              SubSeq(radio.batch, 1, n) \o txq' = txq
        \/ fw.stop]_vars

(* Whatever the order of commands, frames and operations, the radio gets    *)
(* to work in the state the sniffer is in: no stop is lost.                 *)
RadioCatchesUp == []<>(fw.state = radio.for)
=============================================================================
