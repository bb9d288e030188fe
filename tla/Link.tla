-------------------------------- MODULE Link --------------------------------
(***************************************************************************)
(* The Bluetooth RFCOMM link between the Mac and whoever opens its         *)
(* service.  IOBluetooth and the Windows Bluetooth stack are not part of   *)
(* the repository: this module says only what bt_server.py and             *)
(* bt_client.py rely on.                                                   *)
(*                                                                         *)
(*   - A channel is opened by the client, carries bytes in order, and is   *)
(*     closed once, by either end or by the radio.  A reconnection is a    *)
(*     new channel; channels are numbered in the order they are opened.    *)
(*   - The Mac's run loop hears of it through delegate callbacks, queued   *)
(*     in the order the events happened.                                   *)
(*   - What is written is kept in wire[c]; a reader keeps its own count of *)
(*     what it has taken, so that properties can speak of the whole        *)
(*     stream.                                                             *)
(*                                                                         *)
(* The unit is the write: one stream header or one framed packet.          *)
(***************************************************************************)
EXTENDS Integers, Sequences, FiniteSets

CONSTANT NumChannels    \* bound: how many connections are ever made

ASSUME NumChannelsAssumption == NumChannels \in Nat \ {0}

VARIABLES
    chan,       \* [Channels -> {"unused", "open", "closed"}]
    wire,       \* what has been written on each channel
    toMac,      \* delegate callbacks the Mac's run loop has yet to run
    service     \* the Mac's RFCOMM service is published

linkVars == <<chan, wire, toMac, service>>

Channels == 1 .. NumChannels
NoChannel == 0

\* One StreamEncryptor is made per accepted connection, and is named after the
\* channel of that connection.
Sessions == Channels
NoSession == 0

TYPE_KEYBOARD == "keyboard"
TYPE_POINTER == "pointer"
Types == {TYPE_KEYBOARD, TYPE_POINTER}
HEADER == "header"

(***************************************************************************)
(* sess and idx stand for the ciphertext: the idx-th message pushed by     *)
(* encryptor sess, which only the matching pull state can open.  ptype and *)
(* seqno travel in the clear.                                              *)
(***************************************************************************)
Item == [ptype : Types \cup {HEADER}, sess : Sessions, seqno : Nat, idx : Nat]

header(s) == [ptype |-> HEADER, sess |-> s, seqno |-> 0, idx |-> 0]

\* Mutant: every packet is labelled as a keyboard report.
MutBuildPacket(type, n, s, i) ==
    [ptype |-> TYPE_KEYBOARD, sess |-> s, seqno |-> n, idx |-> i]

build_packet(type, n, s, i) == [ptype |-> type, sess |-> s, seqno |-> n, idx |-> i]

IsPacket(item) == item.ptype \in Types

LinkTypeOK ==
    /\ chan \in [Channels -> {"unused", "open", "closed"}]
    /\ wire \in [Channels -> Seq(Item)]
    /\ toMac \in Seq([event : {"opened", "closed"}, ch : Channels])
    /\ service \in BOOLEAN

LinkInit ==
    /\ chan = [c \in Channels |-> "unused"]
    /\ wire = [c \in Channels |-> <<>>]
    /\ toMac = <<>>
    /\ service = FALSE

-----------------------------------------------------------------------------

OpenChannels == {c \in Channels : chan[c] = "open"}

\* A client opens the published service.
Open(c) ==
    /\ service
    /\ chan[c] = "unused"
    /\ \A d \in Channels : d < c => chan[d] # "unused"
    /\ chan' = [chan EXCEPT ![c] = "open"]
    /\ toMac' = Append(toMac, [event |-> "opened", ch |-> c])
    /\ UNCHANGED <<wire, service>>

\* An open channel goes away: closed by the far end, or by the radio.
Drop(c) ==
    /\ chan[c] = "open"
    /\ chan' = [chan EXCEPT ![c] = "closed"]
    /\ toMac' = Append(toMac, [event |-> "closed", ch |-> c])
    /\ UNCHANGED <<wire, service>>

\* The Mac's process ends: its channels close, its service record goes, and
\* nobody is left to hear of it.
HostGone ==
    /\ chan' = [c \in Channels |-> IF chan[c] = "open" THEN "closed" ELSE chan[c]]
    /\ toMac' = <<>>
    /\ service' = FALSE
    /\ UNCHANGED wire

\* writeSync_length_ on channel c returned 0.
Put(c, item) ==
    /\ chan[c] = "open"
    /\ wire' = [wire EXCEPT ![c] = Append(@, item)]
    /\ UNCHANGED <<chan, toMac, service>>
=============================================================================
