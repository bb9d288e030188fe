--------------------------- MODULE KeyBridgeProofs --------------------------
(***************************************************************************)
(* The whole path, for any number of connections and reports: both sides   *)
(* keep their invariants when they are composed, the Mac's theorems hold   *)
(* of the composition, and it implements SessionStream.                    *)
(***************************************************************************)
EXTENDS KeyBridge, MacSenderProofs, WinReceiverProofs

\* The one receiver holds one port: no other channel is open.
OneChannel == OpenChannels \subseteq {port}

\* The pipeline is fed what was read, and a chunk is not empty.
ReadInv ==
    /\ taken \in [Channels -> Nat]
    /\ fetched \in [Channels -> Nat]
    /\ \A c \in Channels : taken[c] <= fetched[c] /\ fetched[c] <= Len(wire[c])
    /\ clientpc = "deliver" => taken[serial] < fetched[serial]

BridgeInv ==
    MacTypeOK /\ StreamInv /\ HeaderInv /\ WinInv /\ OneChannel /\ ReadInv

-----------------------------------------------------------------------------
(* Each side's steps, as the other side sees them.                         *)

\* The Mac's steps close channels, and open none.
LEMMA MacOnlyCloses ==
    ASSUME MacTypeOK, OpenedOnce, MacNext
    PROVE  /\ \A c \in Channels : (chan[c] = "unused") = (chan'[c] = "unused")
           /\ OpenChannels' \subseteq OpenChannels
<1> USE ThreadsDiffer DEF daemonVars, serverVars, threadVars, macVars, linkVars, OpenChannels
<1>t. chan \in [Channels -> {"unused", "open", "closed"}]
  BY DEF MacTypeOK, LinkTypeOK
<1>1. CASE chan' = chan
  BY <1>1
<1>2. ASSUME NEW c \in Channels, ClientRejected(c)
      PROVE  /\ \A d \in Channels : (chan[d] = "unused") = (chan'[d] = "unused")
             /\ OpenChannels' \subseteq OpenChannels
  <2>1. toMac # <<>> /\ Head(toMac) = OpenedEvent(c)
    BY <1>2 DEF ClientRejected, Callback, OpenedEvent
  <2>2. Announced(c)
    BY <2>1, TailFacts DEF MacTypeOK, Announced
  <2>3. chan[c] # "unused"
    BY <2>2 DEF OpenedOnce
  <2> QED
    BY <1>2, <1>t, <2>3 DEF ClientRejected
<1>3. ASSUME NEW c \in Channels, Drop(c)
      PROVE  /\ \A d \in Channels : (chan[d] = "unused") = (chan'[d] = "unused")
             /\ OpenChannels' \subseteq OpenChannels
  BY <1>3, <1>t DEF Drop
<1>4. CASE ProcessEnds
  BY <1>4, <1>t DEF ProcessEnds, HostGone
<1>5. ASSUME NEW t \in Senders, Send(t)
      PROVE  chan' = chan
  BY <1>5 DEF Send, SendFetch, SendNoChannel, SendWrite, SendFails, SendDone, Put
<1>6. ASSUME NEW r \in Readers, Capture(r) \/ CheckConnected(r) \/ Seal(r) \/ SealDropped(r)
      PROVE  chan' = chan
  BY <1>6 DEF Capture, CheckConnected, Seal, SealDropped
<1>7. CASE \/ PublishService \/ Announce \/ NewSession \/ DropChannel \/ EndSession
           \/ \E c \in Channels : ClientConnected(c) \/ ChannelClosed(c)
  BY <1>1, <1>7 DEF PublishService, Announce, NewSession, DropChannel, EndSession,
                    ClientConnected, ChannelClosed
<1>8. CASE Toggle \/ StopCapture \/ TakeChannel \/ ClearConnected \/ Launch
  BY <1>1, <1>8 DEF Toggle, StopCapture, TakeChannel, ClearConnected, Launch
<1>9. CASE CloseChannel
  BY <1>1, <1>3, <1>9 DEF CloseChannel
<1> QED
  BY <1>1, <1>2, <1>4, <1>5, <1>6, <1>7, <1>8, <1>9
     DEF MacNext, RunLoopStep, ReaderStep, MainStep

\* The receiver's steps leave the link alone, or open or close its port.
LEMMA WinOnTheLink ==
    ASSUME WinNext
    PROVE  \/ UNCHANGED linkVars
           \/ \E c \in Channels : OpenPort(c)
           \/ Drop(port) /\ port \in Channels
BY DEF WinNext, ClientStep, OpenFails, NoPortFound, Greet, LoopTest, ReadNothing,
       ReadFails, Cleanup, ClosePort, ReleaseAll, ResetAfterDisconnect, BackoffOver,
       WinMainStep, StopRelease, StopRunning, StopClose, Exit, ProcessGone, Start,
       OpenChannels

\* Between two connections no channel is open.
LEMMA NoneOpen ==
    ASSUME OneChannel, port = NoChannel
    PROVE  OpenChannels = {}
BY Placeholders DEF OneChannel, OpenChannels

-----------------------------------------------------------------------------
(* A step of the whole is a step of the Mac against its clients.           *)

LEMMA BridgeStepIsMacStep ==
    ASSUME BridgeInv, [BridgeNext]_allVars
    PROVE  [Next]_vars
<1>1. CASE MacNext
  BY <1>1 DEF Next
<1>2. CASE WinNext /\ UNCHANGED <<macVars, readVars>>
  <2>1. CASE UNCHANGED linkVars
    BY <1>2, <2>1 DEF vars
  <2>2. ASSUME NEW c \in Channels, OpenPort(c)
        PROVE  Clients
    <3>1. port = NoChannel
      BY <2>2 DEF OpenPort, ClientGoto, BridgeInv, WinInv, BetweenConnections
    <3>2. Cardinality(OpenChannels) < MaxOpen
      BY <3>1, NoneOpen, FS_EmptySet, MacBoundsAssumption DEF BridgeInv
    <3> QED
      BY <1>2, <2>2, <3>2 DEF OpenPort, Clients
  <2>3. CASE Drop(port) /\ port \in Channels
    BY <1>2, <2>3 DEF Next, Clients
  <2> QED
    BY <1>2, <2>1, <2>2, <2>3, WinOnTheLink DEF Next
<1>3. CASE RadioLoss
  BY <1>3 DEF RadioLoss, Next, Clients
<1>4. CASE ReadUnits \/ TakeUnit \/ UNCHANGED allVars
  BY <1>4 DEF ReadUnits, TakeUnit, allVars
<1> QED
  BY <1>1, <1>2, <1>3, <1>4 DEF BridgeNext

-----------------------------------------------------------------------------
(* The receiver keeps its invariant against this sender.                   *)

\* What is taken was written: an item, and a header only of its own session.
LEMMA UnitTaken ==
    ASSUME BridgeInv, TakeUnit
    PROVE  LET item == wire[serial][taken[serial] + 1]
           IN  /\ serial \in Channels /\ serial # NoChannel
               /\ taken[serial] + 1 \in DOMAIN wire[serial]
               /\ item \in Item
               /\ IsPacket(item) \/ item = header(serial)
               /\ Unit(item) /\ \E last \in BOOLEAN : Deliver(item, last)
               /\ taken' = [taken EXCEPT ![serial] = @ + 1]
               /\ UNCHANGED <<wire, chan, serial, port>>
               /\ clientpc = "deliver" /\ OnConnection
<1>1. /\ serial \in Channels /\ serial # NoChannel
      /\ taken \in [Channels -> Nat] /\ fetched[serial] \in Nat /\ wire[serial] \in Seq(Item)
      /\ taken[serial] < fetched[serial] /\ fetched[serial] <= Len(wire[serial])
  BY DEF BridgeInv, WinInv, WinTypeOK, LinkTypeOK, BetweenConnections, OnConnection,
         ReadInv, TakeUnit
<1>2. taken[serial] + 1 \in DOMAIN wire[serial]
  BY <1>1
<1> DEFINE item == wire[serial][taken[serial] + 1]
<1>3. /\ item \in Item /\ \E last \in BOOLEAN : Deliver(item, last)
      /\ taken' = [taken EXCEPT ![serial] = @ + 1]
      /\ UNCHANGED <<wire, chan>>
      /\ clientpc = "deliver" /\ OnConnection
  <2>1. item \in Item
    BY <1>1, <1>2
  <2>2. Deliver(item, taken[serial] + 1 = fetched[serial])
    BY DEF TakeUnit
  <2>3. taken' = [taken EXCEPT ![serial] = @ + 1] /\ UNCHANGED <<wire, chan>>
    BY DEF TakeUnit, vars, linkVars
  <2>4. clientpc = "deliver" /\ OnConnection
    BY DEF TakeUnit, OnConnection
  <2>5. (taken[serial] + 1 = fetched[serial]) \in BOOLEAN
    OBVIOUS
  <2> QED
    BY <2>1, <2>2, <2>3, <2>4, <2>5, Zenon
<1>4. IsPacket(item) \/ item = header(serial)
  BY <1>1, <1>2 DEF BridgeInv, HeaderInv, OwnHeaders
<1>5. Unit(item)
  BY <1>3, <1>4 DEF Unit, Item, header
<1>6. UNCHANGED <<serial, port>>
  BY <1>3 DEF Deliver
<1> QED
  BY <1>1, <1>2, <1>3, <1>4, <1>5, <1>6

LEMMA LinkCloses ==
    ASSUME WinInv, LinkTypeOK', UNCHANGED winVars,
           \A c \in Channels : (chan[c] = "unused") = (chan'[c] = "unused")
    PROVE  WinInv'
<1> USE DEF winVars, clientVars, pipelineVars
<1>1. WinTypeOK'
  BY DEF WinInv, WinTypeOK
<1> QED
  BY <1>1 DEF WinInv, WinTypeOK, BetweenConnections, NothingBeforeHeader, OwnStream,
              StreamInStep, OnConnection

LEMMA BridgeWinStep ==
    ASSUME BridgeInv, MacTypeOK', [BridgeNext]_allVars
    PROVE  WinInv' /\ OneChannel'
<1> USE DEF BridgeInv
<1>t. LinkTypeOK' /\ chan \in [Channels -> {"unused", "open", "closed"}]
  BY DEF MacTypeOK, LinkTypeOK
<1>1. CASE MacNext /\ UNCHANGED <<winVars, readVars>>
  <2>1. WinInv'
    BY <1>1, <1>t, MacOnlyCloses, LinkCloses DEF StreamInv
  <2>2. OneChannel'
    BY <1>1, MacOnlyCloses DEF StreamInv, OneChannel, winVars, clientVars
  <2> QED
    BY <2>1, <2>2
<1>2. CASE WinNext /\ UNCHANGED <<macVars, readVars>>
  <2>1. WinInv'
    BY <1>2, ClientInv, MainInv DEF WinNext
  <2>2. OneChannel'
    <3>1. ASSUME NEW c \in Channels, OpenPort(c)
          PROVE  OneChannel'
      <4>1. port = NoChannel
        BY <3>1 DEF OpenPort, ClientGoto, WinInv, BetweenConnections
      <4> QED
        BY <1>t, <3>1, <4>1, NoneOpen DEF OpenPort, Open, OneChannel, OpenChannels
    <3>2. CASE Drop(port) /\ port \in Channels
      BY <1>t, <3>2 DEF Drop, OneChannel, OpenChannels
    <3>3. CASE UNCHANGED linkVars /\ port' = port
      BY <3>3 DEF OneChannel, OpenChannels, linkVars
    <3>4. CASE ClosePort
      BY <1>t, <3>4 DEF ClosePort, Drop, OneChannel, OpenChannels, linkVars
    <3> QED
      BY <1>2, <3>1, <3>3, <3>4
         DEF WinNext, ClientStep, OpenFails, NoPortFound, Greet, LoopTest, ReadNothing,
             ReadFails, Cleanup, ReleaseAll, ResetAfterDisconnect, BackoffOver,
             WinMainStep, StopRelease, StopRunning, StopClose, Exit, ProcessGone, Start
  <2> QED
    BY <2>1, <2>2
<1>3. CASE ReadUnits \/ TakeUnit
  <2>1. UNCHANGED <<linkVars, port>>
    BY <1>3, UnitTaken DEF ReadUnits, ReadChunk, TakeUnit, vars
  <2>2. WinInv'
    BY <1>3, <2>1, UnitTaken, DeliverInv, ReadChunkInv DEF ReadUnits
  <2> QED
    BY <2>1, <2>2 DEF OneChannel, OpenChannels, linkVars
<1>4. CASE RadioLoss
  <2>1. PICK c \in Channels : Drop(c)
    BY <1>4 DEF RadioLoss
  <2>2. \A d \in Channels : (chan[d] = "unused") = (chan'[d] = "unused")
    BY <1>t, <2>1 DEF Drop
  <2>3. WinInv'
    BY <1>4, <1>t, <2>2, LinkCloses DEF RadioLoss
  <2>4. OneChannel'
    BY <1>4, <1>t, <2>1 DEF RadioLoss, Drop, OneChannel, OpenChannels, winVars, clientVars
  <2> QED
    BY <2>3, <2>4
<1>5. CASE UNCHANGED allVars
  <2>1. WinInv'
    BY <1>5, <1>t, LinkCloses DEF allVars, vars, linkVars
  <2> QED
    BY <1>5, <2>1
       DEF allVars, vars, linkVars, winVars, clientVars, OneChannel, OpenChannels
<1> QED
  BY <1>1, <1>2, <1>3, <1>4, <1>5 DEF BridgeNext

\* What is on a channel stays on it.
Grown ==
    \A c \in Channels : \A k \in DOMAIN wire[c] :
        k \in DOMAIN wire'[c] /\ wire'[c][k] = wire[c][k]

LEMMA WireGrows ==
    ASSUME MacTypeOK, [Next]_vars
    PROVE  Grown
<1>1. CASE wire' = wire
  BY <1>1 DEF Grown
<1>2. ASSUME NEW t \in Senders, SendWrite(t)
      PROVE  Grown
  <2>1. target[t] \in Channels /\ out[t] \in Item /\ Put(target[t], out[t]) /\ LinkTypeOK
    BY <1>2, ThreadsDiffer DEF SendWrite, MacTypeOK
  <2> QED
    BY <2>1, PutFacts DEF Grown
<1> QED
  BY <1>1, <1>2, EveryItemStep DEF NoNewItem, Seal, NewSession, linkVars

\* A read takes more of its channel, a delivery one unit of the chunk read.
LEMMA ReadInvStep ==
    ASSUME BridgeInv, LinkTypeOK', [BridgeNext]_allVars
    PROVE  ReadInv'
<1>1. /\ taken \in [Channels -> Nat] /\ fetched \in [Channels -> Nat]
      /\ \A c \in Channels : taken[c] <= fetched[c] /\ fetched[c] <= Len(wire[c])
  BY DEF BridgeInv, ReadInv
<1>2. \A c \in Channels : /\ wire[c] \in Seq(Item) /\ wire'[c] \in Seq(Item)
                         /\ Len(wire[c]) \in Nat /\ Len(wire'[c]) \in Nat
                         /\ Len(wire[c]) <= Len(wire'[c])
  <2> SUFFICES ASSUME NEW c \in Channels
               PROVE  /\ wire[c] \in Seq(Item) /\ wire'[c] \in Seq(Item)
                      /\ Len(wire[c]) \in Nat /\ Len(wire'[c]) \in Nat
                      /\ Len(wire[c]) <= Len(wire'[c])
    OBVIOUS
  <2>1. wire[c] \in Seq(Item) /\ wire'[c] \in Seq(Item)
    BY DEF BridgeInv, MacTypeOK, LinkTypeOK
  <2>2. \A k \in 1 .. Len(wire[c]) : k \in 1 .. Len(wire'[c])
    BY <2>1, BridgeStepIsMacStep, WireGrows DEF Grown, BridgeInv
  <2>3. Len(wire[c]) \in Nat /\ Len(wire'[c]) \in Nat
    BY <2>1
  <2> QED
    BY <2>1, <2>2, <2>3
<1>3. CASE ReadUnits
  <2>1. PICK p \in Channels : p = port /\ p = serial
    BY <1>3 DEF ReadUnits, ReadChunk, BridgeInv, WinInv, WinTypeOK, NothingBeforeHeader
  <2>2. PICK n \in fetched[p] + 1 .. Len(wire[p]) : fetched' = [fetched EXCEPT ![p] = n]
    BY <1>3, <2>1 DEF ReadUnits
  <2>3. taken' = taken /\ wire' = wire /\ serial' = p
    BY <1>3, <2>1 DEF ReadUnits, ReadChunk, vars, linkVars
  <2>4. n \in Nat /\ n > fetched[p] /\ n <= Len(wire[p])
    BY <1>1, <1>2, <2>2
  <2> QED
    BY <1>1, <2>2, <2>3, <2>4 DEF ReadInv
<1>4. CASE TakeUnit
  <2>1. PICK p \in Channels : p = serial
    BY <1>4, UnitTaken
  <2>2. /\ taken' = [taken EXCEPT ![p] = @ + 1] /\ serial' = p
        /\ UNCHANGED <<wire, fetched>>
    BY <1>4, <2>1, UnitTaken DEF TakeUnit
  <2>3. taken[p] < fetched[p]
    BY <1>4, <2>1 DEF TakeUnit, BridgeInv, ReadInv
  <2>4. clientpc' = "deliver" => taken[p] + 1 # fetched[p]
    BY <1>4, <2>1 DEF TakeUnit, Deliver, ClientGoto
  <2> QED
    BY <1>1, <2>2, <2>3, <2>4 DEF ReadInv
<1>5. CASE /\ UNCHANGED readVars
           /\ clientpc' = "deliver" => clientpc = "deliver" /\ serial' = serial
  <2>1. \A c \in Channels : taken'[c] <= fetched'[c] /\ fetched'[c] <= Len(wire'[c])
    BY <1>1, <1>2, <1>5 DEF readVars
  <2> QED
    BY <1>1, <1>5, <2>1 DEF ReadInv, BridgeInv, readVars
<1>6. CASE UNCHANGED <<winVars, readVars>>
  BY <1>5, <1>6 DEF winVars, clientVars
<1>7. CASE WinNext /\ UNCHANGED readVars
  BY <1>5, <1>7
     DEF WinNext, ClientStep, ClientGoto, OpenPort, OpenFails, NoPortFound, Greet, LoopTest,
         ReadNothing, ReadFails, Cleanup, ReleaseAll, ResetAfterDisconnect, BackoffOver,
         WinMainStep, StopRelease, StopRunning, StopClose, Exit, ProcessGone, Start
<1> QED
  BY <1>3, <1>4, <1>6, <1>7 DEF BridgeNext, RadioLoss, allVars

LEMMA BridgeInitInv == BridgeInit => BridgeInv
<1> SUFFICES ASSUME BridgeInit PROVE BridgeInv
  OBVIOUS
<1>1. MacTypeOK /\ StreamInv /\ HeaderInv
  BY InitType, StreamInit, HeaderInit DEF BridgeInit
<1>2. WinInv
  BY WinInitInv DEF BridgeInit, Init, WinInitial
<1>3. OneChannel
  BY DEF BridgeInit, Init, LinkInit, OneChannel, OpenChannels
<1>4. ReadInv
  BY DEF BridgeInit, Init, LinkInit, WinInit, ReadInv
<1> QED
  BY <1>1, <1>2, <1>3, <1>4 DEF BridgeInv

LEMMA BridgeStep ==
    ASSUME BridgeInv, [BridgeNext]_allVars
    PROVE  BridgeInv' /\ [Next]_vars
<1>1. [Next]_vars
  BY BridgeStepIsMacStep
<1>2. MacTypeOK' /\ StreamInv' /\ HeaderInv'
  BY <1>1, MacTypeStep, StreamStep, OwnHeadersStep, HeaderHeldStep
     DEF BridgeInv, StreamInv, ItemInv, HeaderInv
<1>3. WinInv' /\ OneChannel'
  BY <1>2, BridgeWinStep
<1>4. ReadInv'
  BY <1>2, ReadInvStep DEF MacTypeOK
<1> QED
  BY <1>1, <1>2, <1>3, <1>4 DEF BridgeInv

LEMMA BridgeInvariant == BridgeSpec => []BridgeInv
BY BridgeInitInv, BridgeStep, PTL DEF BridgeSpec

(***************************************************************************)
(* Every variable of both sides keeps its type when they run together.     *)
(***************************************************************************)
THEOREM BridgeTypeCorrect == BridgeSpec => []BridgeTypeOK
<1>1. BridgeInv => BridgeTypeOK
  BY DEF BridgeInv, WinInv, ReadInv, BridgeTypeOK
<1> QED
  BY <1>1, BridgeInvariant, PTL

(***************************************************************************)
(* The Mac that meets the one receiver is the Mac of module MacSender: all *)
(* that is proved of it against any clients holds of the whole.            *)
(***************************************************************************)
THEOREM BridgeImplementsMac == BridgeSpec => Spec
<1>1. BridgeInit => Init
  BY DEF BridgeInit
<1>2. BridgeInv /\ [BridgeNext]_allVars => [Next]_vars
  BY BridgeStep
<1> QED
  BY <1>1, <1>2, BridgeInvariant, PTL DEF BridgeSpec, Spec

-----------------------------------------------------------------------------
(* The composition implements SessionStream.                               *)

\* What a step does on the receiver's side.
LEMMA ReceiverSteps ==
    ASSUME BridgeInv, [BridgeNext]_allVars
    PROVE  \/ TakeUnit
           \/ /\ UNCHANGED <<opened, taken>>
              /\ \/ UNCHANGED pipelineVars
                 \/ ResetPipeline /\ (awaitingHeader \/ ~OnConnection')
              /\ \/ /\ OnConnection' => OnConnection /\ serial' = serial
                    /\ serial' \in {serial, NoChannel}
                    /\ \A c \in Channels : (chan[c] = "unused") = (chan'[c] = "unused")
                 \/ \E c \in Channels : OpenPort(c)
<1> USE DEF BridgeInv, OnConnection, readVars
<1>t. chan \in [Channels -> {"unused", "open", "closed"}]
  BY DEF MacTypeOK, LinkTypeOK
<1>d. ASSUME NEW c \in Channels, Drop(c)
      PROVE  \A d \in Channels : (chan[d] = "unused") = (chan'[d] = "unused")
  BY <1>d, <1>t DEF Drop
<1>1. CASE MacNext /\ UNCHANGED <<winVars, readVars>>
  BY <1>1, MacOnlyCloses DEF StreamInv, winVars, clientVars, pipelineVars
<1>2. CASE WinNext /\ UNCHANGED <<macVars, readVars>>
  <2>1. CASE Greet \/ ResetAfterDisconnect \/ Start
    BY <1>2, <2>1
       DEF Greet, ResetAfterDisconnect, Start, ClientGoto, MainGoto, linkVars, WinInv,
           BetweenConnections
  <2>2. CASE Cleanup \/ StopClose \/ ProcessGone
    <3>1. /\ ClosePort /\ UNCHANGED <<serial, pipelineVars, opened>>
          /\ clientpc' = clientpc \/ clientpc' \in {"release", "gone"}
      BY <2>2 DEF Cleanup, StopClose, ProcessGone, ClientGoto
    <3>2. \A c \in Channels : (chan[c] = "unused") = (chan'[c] = "unused")
      BY <1>d, <3>1 DEF ClosePort, OpenChannels, linkVars
    <3> QED
      BY <1>2, <3>1, <3>2
  <2>3. CASE \E c \in Channels : OpenPort(c)
    BY <1>2, <2>3 DEF OpenPort
  <2>4. CASE \/ OpenFails \/ NoPortFound \/ LoopTest \/ ReadNothing \/ ReadFails
             \/ ReleaseAll \/ BackoffOver \/ StopRelease \/ StopRunning \/ Exit
    <3>1. /\ UNCHANGED <<serial, pipelineVars, opened, linkVars>>
          /\ OnConnection' => OnConnection
      BY <2>4 DEF OpenFails, NoPortFound, LoopTest, ReadNothing, ReadFails, ReleaseAll,
                  BackoffOver, StopRelease, StopRunning, Exit, ClientGoto
    <3> QED
      BY <1>2, <3>1 DEF linkVars
  <2> QED
    BY <1>2, <2>1, <2>2, <2>3, <2>4 DEF WinNext, ClientStep, WinMainStep
<1>5. CASE ReadUnits
  BY <1>5 DEF ReadUnits, ReadChunk, ClientGoto, vars, linkVars, pipelineVars
<1>3. CASE RadioLoss
  BY <1>3, <1>d DEF RadioLoss, winVars, clientVars, pipelineVars
<1>4. CASE UNCHANGED allVars
  BY <1>4 DEF allVars, vars, linkVars, winVars, clientVars, pipelineVars
<1> QED
  BY <1>1, <1>2, <1>3, <1>4, <1>5 DEF BridgeNext

\* Channels are used in order, and the connection is on the latest.
OrderInv ==
    /\ \A c, d \in Channels : c < d /\ chan[c] = "unused" => chan[d] = "unused"
    /\ \A c \in Channels : serial # NoChannel /\ c > serial => chan[c] = "unused"
    /\ awaitingHeader => decryptor = NoDecryptor /\ lastSeqno = -1

LEMMA OrderStep ==
    ASSUME BridgeInv, OrderInv, [BridgeNext]_allVars
    PROVE  OrderInv'
<1>t. /\ serial \in Channels \cup {NoChannel} /\ Channels \subseteq Nat
      /\ chan \in [Channels -> {"unused", "open", "closed"}]
  BY DEF BridgeInv, WinInv, WinTypeOK, LinkTypeOK, Channels
<1>1. CASE TakeUnit
  <2>1. UNCHANGED <<chan, serial>>
    BY <1>1, UnitTaken
  <2>2. awaitingHeader' => awaitingHeader /\ UNCHANGED <<decryptor, lastSeqno>>
    BY <1>1, UnitTaken
       DEF Deliver, on_raw_data, TakeHeader, Misframed, RejectSeqno, RejectCiphertext,
           Decrypted, RateLimited, InjectKeyboard, InjectPointer, Framed, pipelineVars
  <2> QED
    BY <2>1, <2>2 DEF OrderInv
<1>2. CASE /\ UNCHANGED pipelineVars \/ ResetPipeline
           /\ serial' \in {serial, NoChannel}
           /\ \A c \in Channels : (chan[c] = "unused") = (chan'[c] = "unused")
  BY <1>2 DEF OrderInv, ResetPipeline, pipelineVars
<1>3. ASSUME NEW c \in Channels, OpenPort(c)
      PROVE  OrderInv'
  <2>1. /\ chan[c] = "unused" /\ \A d \in Channels : d < c => chan[d] # "unused"
        /\ chan' = [chan EXCEPT ![c] = "open"] /\ serial' = c /\ UNCHANGED pipelineVars
    BY <1>3 DEF OpenPort, Open
  <2> QED
    BY <1>t, <2>1 DEF OrderInv, pipelineVars
<1> QED
  BY <1>1, <1>2, <1>3, ReceiverSteps

LEMMA OrderInvariant == BridgeSpec => [](BridgeInv /\ OrderInv)
<1>1. BridgeInit => OrderInv
  BY DEF BridgeInit, Init, LinkInit, WinInit, OrderInv
<1> QED
  BY <1>1, BridgeInitInv, BridgeStep, OrderStep, PTL DEF BridgeSpec

\* A step of the Mac seals one message, or nothing SessionStream speaks of.
LEMMA MacStepIsSeal ==
    ASSUME BridgeInv, [Next]_vars, UNCHANGED winVars
    PROVE  [Promise!Next]_(Promise!svars)
<1> USE DEF winVars, pipelineVars
<1>1. CASE sealed' = sealed
  BY <1>1 DEF Promise!svars
<1>2. ASSUME NEW r \in Readers, Seal(r)
      PROVE  Promise!Next
  <2>1. encryptor \in Sessions /\ sealed' = [sealed EXCEPT ![encryptor] = @ + 1]
    BY <1>2 DEF Seal, BridgeInv, MacTypeOK
  <2>2. Promise!Seal(encryptor)
    BY <2>1 DEF Promise!Seal
  <2> QED
    BY <2>1, <2>2 DEF Promise!Next
<1>3. CASE NewSession
  <2>1. sealed[accepting] = 0 /\ sealed \in [Sessions -> Nat]
    BY <1>3 DEF NewSession, Goto, BridgeInv, StreamInv, OpenedOnce, MacTypeOK, Fresh
  <2>2. sealed' = sealed
    BY <1>3, <2>1 DEF NewSession
  <2> QED
    BY <1>1, <2>2
<1> QED
  BY <1>1, <1>2, <1>3, EveryItemStep DEF BridgeInv, NoNewItem, SendWrite, SendDone, daemonVars

\* A unit that is taken begins a session, ends it, delivers its next message,
\* or changes nothing.
LEMMA ReadStepIsDelivery ==
    ASSUME BridgeInv, OrderInv, TakeUnit
    PROVE  [Promise!Next]_(Promise!svars)
<1> DEFINE item == wire[serial][taken[serial] + 1]
<1> USE WinPlaceholders DEF pipelineVars
<1>1. /\ serial \in Channels /\ taken[serial] + 1 \in DOMAIN wire[serial]
      /\ item \in Item /\ (IsPacket(item) \/ item = header(serial))
      /\ Unit(item) /\ (\E last \in BOOLEAN : Deliver(item, last)) /\ serial # NoChannel
  BY UnitTaken DEF TakeUnit
<1>2. sealed' = sealed
  BY DEF TakeUnit, vars, macVars, daemonVars
<1>3. IsPacket(item) => item.idx < sealed[item.sess]
  BY <1>1 DEF BridgeInv, StreamInv, ItemInv, Counted
<1>o. /\ \A c \in Channels : c > serial => opened[c] = <<>>
      /\ awaitingHeader => opened[serial] = <<>> /\ decryptor.sess = NoSession
  BY <1>1, UnitTaken DEF OrderInv, BridgeInv, WinInv, NothingBeforeHeader
<1> HIDE DEF item
<1>4. CASE TakeHeader(item)
  <2>1. CASE IsPacket(item)
    BY <1>2, <1>4, <1>o, <2>1 DEF TakeHeader, Promise!svars, NoSession
  <2>2. CASE ~IsPacket(item)
    <3>1. decryptor'.sess = serial /\ decryptor.sess = 0 /\ opened' = opened
      BY <1>1, <1>4, <1>o, <2>2 DEF TakeHeader, header, NoSession
    <3>2. \A c \in Sessions : c >= serial => opened[c] = <<>>
      <4>1. Sessions = Channels /\ Channels \subseteq Int
        BY DEF Channels
      <4>2. ASSUME NEW c \in Sessions, c >= serial
            PROVE  c = serial \/ c > serial
        BY <1>1, <4>1, <4>2
      <4>3. awaitingHeader
        BY <1>4 DEF TakeHeader
      <4> QED
        BY <1>o, <4>1, <4>2, <4>3
    <3>3. Promise!Begin(serial)
      BY <1>2, <3>1, <3>2 DEF Promise!Begin
    <3> QED
      BY <1>1, <3>3 DEF Promise!Next
  <2> QED
    BY <2>1, <2>2
<1>5. CASE Misframed(item)
  <2>1. decryptor'.sess = 0 /\ opened' = opened
    BY <1>5 DEF Misframed, NoSession
  <2>2. Promise!End
    BY <1>2, <2>1 DEF Promise!End
  <2> QED
    BY <2>2 DEF Promise!Next
<1>6. CASE RejectSeqno(item) \/ RejectCiphertext(item)
  BY <1>2, <1>6 DEF RejectSeqno, RejectCiphertext, Promise!svars
<1>7. CASE Decrypted(item)
  <2>1. /\ serial \in Sessions /\ decryptor.sess = serial /\ item.sess = serial
        /\ item.idx = Len(opened[serial]) /\ decryptor.next = item.idx
    BY <1>1, <1>7, UnitTaken, DecryptedIsNext DEF BridgeInv
  <2>2. IsPacket(item)
    BY <1>7 DEF Decrypted, Framed
  <2>3. opened' = [opened EXCEPT ![serial] = Append(@, Len(@))]
    BY <1>7, <2>1 DEF Decrypted
  <2>4. decryptor'.sess = decryptor.sess
    <3>1. decryptor' = [decryptor EXCEPT !.next = @ + 1]
      BY <1>7 DEF Decrypted
    <3>2. decryptor \in [sess : Sessions, next : Nat]
      BY <2>1 DEF BridgeInv, WinInv, WinTypeOK
    <3> HIDE WinPlaceholders
    <3> QED
      BY <3>1, <3>2
  <2>5. Len(opened[serial]) < sealed[serial]
    BY <1>3, <2>1, <2>2
  <2>6. Promise!Deliver
    BY <1>2, <2>1, <2>3, <2>4, <2>5 DEF Promise!Deliver
  <2> QED
    BY <2>6 DEF Promise!Next
<1> QED
  BY <1>1, <1>4, <1>5, <1>6, <1>7
     DEF Deliver, on_raw_data, RateLimited, InjectKeyboard, InjectPointer

LEMMA BridgeStepIsSessionStep ==
    ASSUME BridgeInv, OrderInv, [BridgeNext]_allVars
    PROVE  [Promise!Next]_(Promise!svars)
<1>1. CASE TakeUnit
  BY <1>1, ReadStepIsDelivery
<1>2. CASE UNCHANGED winVars
  BY <1>2, BridgeStepIsMacStep, MacStepIsSeal
<1>3. CASE WinNext /\ UNCHANGED macVars /\ ~TakeUnit
  <2>1. sealed' = sealed
    BY <1>3 DEF macVars, daemonVars
  <2>2. UNCHANGED <<opened, pipelineVars>> \/ (opened' = opened /\ ResetPipeline)
    BY <1>3, ReceiverSteps
  <2>3. CASE UNCHANGED <<opened, pipelineVars>>
    BY <2>1, <2>3 DEF Promise!svars, pipelineVars
  <2>4. CASE opened' = opened /\ ResetPipeline
    <3>1. Promise!End
      BY <2>1, <2>4, WinPlaceholders DEF Promise!End, ResetPipeline, NoSession
    <3> QED
      BY <3>1 DEF Promise!Next
  <2> QED
    BY <2>2, <2>3, <2>4
<1>4. CASE ReadUnits
  BY <1>4 DEF ReadUnits, ReadChunk, Promise!svars, vars, macVars, daemonVars, pipelineVars
<1> QED
  BY <1>1, <1>2, <1>3, <1>4 DEF BridgeNext, RadioLoss, allVars

(***************************************************************************)
(* The whole path keeps the promise of a session, for any number of        *)
(* connections and reports, whatever the threads of both sides, the radio, *)
(* a crash or a restart do: messages are opened on Windows one after the   *)
(* other from the first, each at most once, in the session they belong to. *)
(***************************************************************************)
THEOREM SessionStreamImplemented == BridgeSpec => ImplementsSessionStream
<1>1. BridgeInit => Promise!Init
  BY WinPlaceholders
     DEF BridgeInit, Init, MacInit, WinInit, Promise!Init, NoSession
<1>2. BridgeInv /\ OrderInv /\ [BridgeNext]_allVars => [Promise!Next]_(Promise!svars)
  BY BridgeStepIsSessionStep
<1> QED
  BY <1>1, <1>2, OrderInvariant, PTL DEF BridgeSpec, ImplementsSessionStream, Promise!Spec

-----------------------------------------------------------------------------
(* The receiver opens the clean start of what it reads, and nothing else.  *)

\* Every packet's number is its place in its stream, while no session
\* carries as many reports as there are numbers.
Numbered ==
    \A c \in Channels : \A k \in DOMAIN wire[c] :
        IsPacket(wire[c][k]) => wire[c][k].seqno = wire[c][k].idx

LEMMA NumberedInvariant ==
    ASSUME MaxReports <= SeqMod
    PROVE  BridgeSpec => [](BridgeInv /\ OrderInv /\ Numbered)
<1>1. ASSUME BridgeInv, SeqnoMatchesStream, \A s \in Sessions : sealed[s] <= MaxReports
      PROVE  Numbered
  <2> SUFFICES ASSUME NEW c \in Channels, NEW k \in DOMAIN wire[c], IsPacket(wire[c][k])
               PROVE  wire[c][k].seqno = wire[c][k].idx
    BY DEF Numbered
  <2> DEFINE item == wire[c][k]
  <2>1. item \in Item
    BY <1>1, WireItem DEF BridgeInv, MacTypeOK
  <2>2. item.seqno = item.idx % SeqMod
    BY <1>1 DEF SeqnoMatchesStream, Packets, Stream, Aligned
  <2>3. item.idx < sealed[item.sess]
    BY <1>1 DEF BridgeInv, StreamInv, ItemInv, Counted
  <2> HIDE DEF item
  <2>4. item.sess \in Sessions /\ item.idx \in Nat
    BY <2>1 DEF Item
  <2>5. item.idx < SeqMod
    BY <1>1, <2>3, <2>4, MacBoundsAssumption, SeqModAssumption DEF BridgeInv, MacTypeOK
  <2>6. item.idx % SeqMod = item.idx
    BY <2>4, <2>5, SeqModAssumption
  <2> QED
    BY <2>2, <2>6 DEF item
<1> QED
  BY <1>1, OrderInvariant, BridgeImplementsMac, SeqnoCorrect, ReportsBounded, PTL

\* So what was in place stays in place, and what was not stays out of place.
LEMMA PrefixStays ==
    ASSUME LinkTypeOK, Grown, NEW c \in Channels, NEW n \in Nat, n <= Len(wire[c])
    PROVE  /\ \A m \in 0 .. n : OwnPackets(c, 1 .. m)' = OwnPackets(c, 1 .. m)
           /\ \A k \in 1 .. n : InPlace(c, k)' = InPlace(c, k)
           /\ \A k \in 1 .. n : wire'[c][k] = wire[c][k]
<1>1. \A k \in 1 .. n : wire'[c][k] = wire[c][k]
  BY DEF Grown, LinkTypeOK
<1>2. \A m \in 0 .. n : OwnPackets(c, 1 .. m)' = OwnPackets(c, 1 .. m)
  BY <1>1 DEF OwnPackets, IsPacket
<1>3. ASSUME NEW k \in 1 .. n
      PROVE  InPlace(c, k)' = InPlace(c, k)
  <2>1. Position(c, k)' = Position(c, k)
    BY <1>2, k - 1 \in 0 .. n DEF Position
  <2> QED
    BY <1>1, <2>1 DEF InPlace, IsPacket
<1> QED
  BY <1>1, <1>2, <1>3

\* All that was read of c was in place.
AllInPlace(c) == \A k \in 1 .. taken[c] : InPlace(c, k)

TakenInv ==
    /\ \A c \in Channels : taken[c] <= Len(wire[c])
    /\ \A c \in Channels : chan[c] = "unused" => taken[c] = 0
    /\ OnConnection => (awaitingHeader <=> taken[serial] = 0)

\* Then the receiver expects the next message, and has had every number below.
InStep(c) ==
    /\ decryptor = [sess |-> c, next |-> Len(opened[c])]
    /\ lastSeqno = Len(opened[c]) - 1
    /\ \A i \in 0 .. Len(opened[c]) - 1 :
          \E k \in OwnPackets(c, 1 .. taken[c]) : wire[c][k].idx = i

\* Otherwise it has lost the stream, or taken a number it cannot go back on.
Spent == decryptor.sess = NoSession \/ lastSeqno >= decryptor.next

PipelineInv ==
    OnConnection /\ ~awaitingHeader =>
        IF AllInPlace(serial) THEN InStep(serial) ELSE Spent

PrefixInv == TakenInv /\ PipelineInv /\ OpensTheCleanPrefix

\* Nothing is read: what was clean stays clean.
LEMMA CleanStays ==
    ASSUME LinkTypeOK, ReadInv, Grown, taken' = taken, NEW c \in Channels,
           taken[c] <= Len(wire[c])
    PROVE  /\ CleanUnits(c)' = CleanUnits(c)
           /\ OwnPackets(c, CleanUnits(c))' = OwnPackets(c, CleanUnits(c))
           /\ OwnPackets(c, 1 .. taken[c])' = OwnPackets(c, 1 .. taken[c])
           /\ \A k \in 1 .. taken[c] : wire'[c][k] = wire[c][k]
           /\ AllInPlace(c)' = AllInPlace(c)
<1>1. taken[c] \in Nat
  BY DEF ReadInv
<1>2. /\ \A k \in 1 .. taken[c] : InPlace(c, k)' = InPlace(c, k)
      /\ \A k \in 1 .. taken[c] : wire'[c][k] = wire[c][k]
      /\ OwnPackets(c, 1 .. taken[c])' = OwnPackets(c, 1 .. taken[c])
  BY <1>1, PrefixStays
<1>3. CleanUnits(c)' = CleanUnits(c)
  BY <1>1, <1>2 DEF CleanUnits
<1>4. CleanUnits(c) \subseteq 1 .. taken[c]
  BY DEF CleanUnits
<1> QED
  BY <1>1, <1>2, <1>3, <1>4 DEF AllInPlace, OwnPackets, IsPacket

\* One more unit is read.
LEMMA CleanGrows ==
    ASSUME ReadInv, UNCHANGED wire, NEW c \in Channels, taken'[c] = taken[c] + 1
    PROVE  /\ IF AllInPlace(c) /\ InPlace(c, taken[c] + 1)
              THEN AllInPlace(c)' /\ CleanUnits(c)' = 1 .. taken[c] + 1
              ELSE ~AllInPlace(c)' /\ CleanUnits(c)' = CleanUnits(c)
           /\ AllInPlace(c) => CleanUnits(c) = 1 .. taken[c]
<1>1. taken[c] \in Nat
  BY DEF ReadInv
<1>2. \A k \in Nat : InPlace(c, k)' = InPlace(c, k)
  BY DEF InPlace, Position, OwnPackets, IsPacket
<1>3. AllInPlace(c)' <=> AllInPlace(c) /\ InPlace(c, taken[c] + 1)
  <2>1. AllInPlace(c)' <=> \A k \in 1 .. taken[c] + 1 : InPlace(c, k)
    <3>1. 1 .. taken[c] + 1 \subseteq Nat
      BY <1>1
    <3> QED
      BY <1>2, <3>1 DEF AllInPlace
  <2>2. 1 .. taken[c] + 1 = 1 .. taken[c] \cup {taken[c] + 1}
    BY <1>1
  <2> QED
    BY <2>1, <2>2 DEF AllInPlace
<1>4. CleanUnits(c)' = {k \in 1 .. taken[c] + 1 : \A j \in 1 .. k : InPlace(c, j)}
  BY <1>1, <1>2 DEF CleanUnits
<1>5. CASE AllInPlace(c) /\ InPlace(c, taken[c] + 1)
  <2>1. \A j \in 1 .. taken[c] + 1 : InPlace(c, j)
    BY <1>1, <1>5 DEF AllInPlace
  <2> QED
    BY <1>1, <1>3, <1>4, <1>5, <2>1 DEF AllInPlace, CleanUnits
<1>6. CASE ~(AllInPlace(c) /\ InPlace(c, taken[c] + 1))
  <2>1. ~ \A j \in 1 .. taken[c] + 1 : InPlace(c, j)
    BY <1>1, <1>6 DEF AllInPlace
  <2>2. CleanUnits(c)' = CleanUnits(c)
    BY <1>1, <1>4, <2>1 DEF CleanUnits
  <2> QED
    BY <1>1, <1>3, <1>6, <2>2 DEF AllInPlace, CleanUnits
<1> QED
  BY <1>5, <1>6

\* One more unit adds at most itself to the session's own packets.
Own(c, k) == IsPacket(wire[c][k]) /\ wire[c][k].sess = c

LEMMA OwnGrows ==
    ASSUME NEW c, NEW n \in Nat
    PROVE  /\ IsFiniteSet(OwnPackets(c, 1 .. n))
           /\ Cardinality(OwnPackets(c, 1 .. n)) \in Nat
           /\ ~Own(c, n + 1) => OwnPackets(c, 1 .. n + 1) = OwnPackets(c, 1 .. n)
           /\ Own(c, n + 1) =>
                 /\ OwnPackets(c, 1 .. n + 1) = OwnPackets(c, 1 .. n) \cup {n + 1}
                 /\ Cardinality(OwnPackets(c, 1 .. n + 1)) =
                      Cardinality(OwnPackets(c, 1 .. n)) + 1
<1>1. OwnPackets(c, 1 .. n) \subseteq 1 .. n /\ n + 1 \notin OwnPackets(c, 1 .. n)
  BY DEF OwnPackets
<1>2. IsFiniteSet(OwnPackets(c, 1 .. n)) /\ Cardinality(OwnPackets(c, 1 .. n)) \in Nat
  BY <1>1, FS_Interval, FS_Subset, FS_CardinalityType, 1 \in Int, n \in Int
<1>3. Cardinality(OwnPackets(c, 1 .. n) \cup {n + 1}) = Cardinality(OwnPackets(c, 1 .. n)) + 1
  BY <1>1, <1>2, FS_AddElement
<1>4. 1 .. n + 1 = 1 .. n \cup {n + 1}
  OBVIOUS
<1>5. ~Own(c, n + 1) => OwnPackets(c, 1 .. n + 1) = OwnPackets(c, 1 .. n)
  BY <1>4 DEF OwnPackets, Own
<1>6. Own(c, n + 1) => OwnPackets(c, 1 .. n + 1) = OwnPackets(c, 1 .. n) \cup {n + 1}
  BY <1>4 DEF OwnPackets, Own
<1> QED
  BY <1>2, <1>3, <1>5, <1>6

-----------------------------------------------------------------------------
(* A unit is read: PipelineInv and OpensTheCleanPrefix, case by case.      *)

\* A unit that opens nothing, and is not part of the clean start.
LEMMA ReadOutOfPlace ==
    ASSUME BridgeInv, PrefixInv, TakeUnit, opened' = opened, ~awaitingHeader', Spent',
           ~(AllInPlace(serial) /\ InPlace(serial, taken[serial] + 1))
    PROVE  PipelineInv' /\ OpensTheCleanPrefix'
<1>1. PICK p \in Channels : p = serial
  BY UnitTaken
<1>2. /\ wire' = wire /\ serial' = p /\ ReadInv
      /\ taken' = [taken EXCEPT ![p] = @ + 1]
  BY <1>1, UnitTaken DEF TakeUnit, vars, linkVars, BridgeInv
<1>3. ~AllInPlace(p)' /\ CleanUnits(p)' = CleanUnits(p)
  BY <1>1, <1>2, CleanGrows DEF ReadInv
<1>4. PipelineInv'
  BY <1>2, <1>3 DEF PipelineInv, AllInPlace
<1>5. ASSUME NEW c \in Channels
      PROVE  OwnPackets(c, CleanUnits(c))' = OwnPackets(c, CleanUnits(c))
  <2>1. CleanUnits(c)' = CleanUnits(c)
    <3>1. CASE c = p
      BY <1>3, <3>1
    <3>2. CASE c # p
      BY <1>2, <3>2 DEF CleanUnits, InPlace, Position, OwnPackets, IsPacket, ReadInv
    <3> QED
      BY <3>1, <3>2
  <2> QED
    BY <1>2, <2>1 DEF OwnPackets, IsPacket
<1> QED
  BY <1>4, <1>5 DEF PrefixInv, OpensTheCleanPrefix

\* A unit that continues the clean start, with what it opened.
LEMMA ReadInPlace ==
    ASSUME BridgeInv, PrefixInv, TakeUnit, ~awaitingHeader', InStep(serial)',
           AllInPlace(serial), InPlace(serial, taken[serial] + 1),
           \A c \in Channels \ {serial} : opened'[c] = opened[c],
           Len(opened'[serial]) = Cardinality(OwnPackets(serial, 1 .. taken[serial] + 1))
    PROVE  PipelineInv' /\ OpensTheCleanPrefix'
<1>1. PICK p \in Channels : p = serial
  BY UnitTaken
<1>2. /\ wire' = wire /\ serial' = p /\ ReadInv
      /\ taken' = [taken EXCEPT ![p] = @ + 1]
  BY <1>1, UnitTaken DEF TakeUnit, vars, linkVars, BridgeInv
<1>3. AllInPlace(p)' /\ CleanUnits(p)' = 1 .. taken[p] + 1
  BY <1>1, <1>2, CleanGrows DEF ReadInv
<1>4. InStep(p)'
  BY <1>1, <1>2 DEF InStep
<1>5. PipelineInv'
  BY <1>2, <1>3, <1>4 DEF PipelineInv, AllInPlace, InStep
<1>6. OwnPackets(p, CleanUnits(p))' = OwnPackets(p, 1 .. taken[p] + 1)
  BY <1>2, <1>3 DEF OwnPackets, IsPacket
<1>7. ASSUME NEW c \in Channels, c # p
      PROVE  /\ OwnPackets(c, CleanUnits(c))' = OwnPackets(c, CleanUnits(c))
             /\ opened'[c] = opened[c]
  <2>1. CleanUnits(c)' = CleanUnits(c)
    BY <1>2, <1>7 DEF CleanUnits, InPlace, Position, OwnPackets, IsPacket, ReadInv
  <2> QED
    BY <1>1, <1>2, <1>7, <2>1 DEF OwnPackets, IsPacket
<1>8. Len(opened'[p]) = Cardinality(OwnPackets(p, CleanUnits(p))')
  BY <1>1, <1>6
<1> QED
  BY <1>5, <1>7, <1>8 DEF PrefixInv, OpensTheCleanPrefix

\* The first unit of a connection.
LEMMA ReadFirst ==
    ASSUME BridgeInv, OrderInv, PrefixInv, TakeUnit, awaitingHeader
    PROVE  ~awaitingHeader' /\ PipelineInv' /\ OpensTheCleanPrefix'
<1> DEFINE item == wire[serial][taken[serial] + 1]
<1> USE WinPlaceholders DEF pipelineVars
<1>1. /\ serial \in Channels /\ serial # NoChannel /\ item \in Item /\ (\E last \in BOOLEAN : Deliver(item, last))
      /\ IsPacket(item) \/ item = header(serial)
  BY UnitTaken DEF TakeUnit
<1>2. TakeHeader(item)
  BY <1>1
     DEF Deliver, on_raw_data, Misframed, RejectSeqno, RejectCiphertext, Decrypted,
         RateLimited, InjectKeyboard, InjectPointer, Framed
<1>3. taken[serial] = 0 /\ opened[serial] = <<>> /\ lastSeqno = -1
  BY <1>1, UnitTaken
     DEF PrefixInv, TakenInv, OrderInv, BridgeInv, WinInv, NothingBeforeHeader
<1>4. ~awaitingHeader' /\ opened' = opened /\ lastSeqno' = lastSeqno
  BY <1>2 DEF TakeHeader
<1>5. CASE IsPacket(item)
  <2>1. Spent'
    BY <1>2, <1>5 DEF TakeHeader, Spent
  <2>2. ~InPlace(serial, taken[serial] + 1)
    BY <1>3, <1>5 DEF InPlace, header, HEADER, IsPacket, Types, TYPE_KEYBOARD, TYPE_POINTER
  <2> QED
    BY <1>4, <2>1, <2>2, ReadOutOfPlace
<1>6. CASE item = header(serial)
  <2>1. ~IsPacket(item)
    BY <1>6, HeaderIsNoPacket
  <2>2. InPlace(serial, taken[serial] + 1) /\ AllInPlace(serial)
    BY <1>3, <1>6 DEF InPlace, AllInPlace
  <2>3. OwnPackets(serial, 1 .. 0) = {}
    BY DEF OwnPackets
  <2>4. OwnPackets(serial, 1 .. taken[serial] + 1) = {}
    BY <1>3, <2>1, <2>3, OwnGrows, 0 \in Nat DEF Own
  <2>5. Len(opened'[serial]) = Cardinality(OwnPackets(serial, 1 .. taken[serial] + 1))
    BY <1>3, <1>4, <2>4, FS_EmptySet
  <2>6. InStep(serial)'
    <3>1. decryptor' = [sess |-> serial, next |-> 0]
      BY <1>2, <1>6, <2>1 DEF TakeHeader, header
    <3>2. serial' = serial
      BY <1>1 DEF Deliver
    <3> QED
      BY <1>3, <1>4, <3>1, <3>2 DEF InStep
  <2> QED
    BY <1>4, <2>2, <2>5, <2>6, ReadInPlace
<1> QED
  BY <1>1, <1>5, <1>6

\* A unit after one that was out of place: nothing opens any more.
LEMMA ReadSpent ==
    ASSUME BridgeInv, Numbered, PrefixInv, TakeUnit, ~awaitingHeader, ~AllInPlace(serial)
    PROVE  ~awaitingHeader' /\ PipelineInv' /\ OpensTheCleanPrefix'
<1> DEFINE item == wire[serial][taken[serial] + 1]
<1> USE WinPlaceholders DEF pipelineVars
<1>1. /\ serial \in Channels /\ serial # NoChannel /\ item \in Item /\ (\E last \in BOOLEAN : Deliver(item, last))
      /\ IsPacket(item) => item.seqno = item.idx /\ Unit(item)
  BY UnitTaken DEF TakeUnit, Numbered
<1>2. Spent /\ lastSeqno \in Nat \cup {-1}
  BY <1>1, UnitTaken DEF PrefixInv, PipelineInv, BridgeInv, WinInv, WinTypeOK
<1>3. ~Decrypted(item)
  <2> SUFFICES ASSUME Decrypted(item) PROVE FALSE
    OBVIOUS
  <2>1. IsPacket(item)
    BY DEF Decrypted, Framed
  <2>2. decryptor.sess = serial /\ decryptor.next = item.idx /\ lastSeqno < item.seqno
    BY <1>1, <2>1, UnitTaken, DecryptedIsNext DEF BridgeInv
  <2> QED
    BY <1>1, <1>2, <2>1, <2>2 DEF Spent, Unit
<1>4. \/ Misframed(item) \/ RejectSeqno(item) \/ RejectCiphertext(item)
  BY <1>1, <1>3
     DEF Deliver, on_raw_data, TakeHeader, RateLimited, InjectKeyboard, InjectPointer
<1>5. ~awaitingHeader' /\ opened' = opened
  BY <1>4 DEF Misframed, RejectSeqno, RejectCiphertext
<1>6. Spent'
  <2>1. CASE Misframed(item)
    BY <2>1 DEF Misframed, Spent
  <2>2. CASE RejectSeqno(item)
    BY <1>2, <2>2 DEF RejectSeqno, Spent
  <2>3. CASE RejectCiphertext(item)
    <3>1. item.seqno > lastSeqno /\ lastSeqno' = item.seqno /\ decryptor' = decryptor
      BY <2>3 DEF RejectCiphertext, validate_seqno
    <3>2. item.seqno \in Nat
      BY <1>1 DEF Item
    <3>3. decryptor.sess = NoSession \/ decryptor.next \in Nat
      BY DEF BridgeInv, WinInv, WinTypeOK
    <3> QED
      BY <1>2, <3>1, <3>2, <3>3 DEF Spent
  <2> QED
    BY <1>4, <2>1, <2>2, <2>3
<1> QED
  BY <1>5, <1>6, ReadOutOfPlace

LEMMA PositionNext ==
    ASSUME NEW c, NEW k \in Nat
    PROVE  Position(c, k + 1) = Cardinality(OwnPackets(c, 1 .. k))
<1>1. (k + 1) - 1 = k
  OBVIOUS
<1>2. Position(c, k + 1) = Cardinality(OwnPackets(c, 1 .. (k + 1) - 1))
  BY DEF Position
<1> QED
  BY <1>1, <1>2, Zenon

\* A unit while the receiver is in step: the next message is opened, a number
\* that is no longer new is passed over, and anything else loses the stream.
LEMMA ReadNext ==
    ASSUME BridgeInv, Numbered, PrefixInv, TakeUnit, ~awaitingHeader, AllInPlace(serial)
    PROVE  ~awaitingHeader' /\ PipelineInv' /\ OpensTheCleanPrefix'
<1> DEFINE item == wire[serial][taken[serial] + 1]
           n == Len(opened[serial])
           N == taken[serial]
<1> USE WinPlaceholders DEF pipelineVars
<1>1. /\ serial \in Channels /\ serial # NoChannel /\ item \in Item /\ (\E last \in BOOLEAN : Deliver(item, last))
      /\ IsPacket(item) => item.seqno = item.idx /\ Unit(item)
      /\ N + 1 \in DOMAIN wire[serial]
  BY UnitTaken DEF TakeUnit, Numbered
<1>2. N \in Nat /\ N > 0 /\ opened[serial] \in Seq(Nat) /\ n \in Nat
      /\ opened \in [Channels -> Seq(Nat)]
  BY <1>1, UnitTaken DEF PrefixInv, TakenInv, BridgeInv, ReadInv, WinInv, WinTypeOK
<1>3. /\ decryptor = [sess |-> serial, next |-> n] /\ lastSeqno = n - 1
      /\ \A i \in 0 .. n - 1 : \E k \in OwnPackets(serial, 1 .. N) : wire[serial][k].idx = i
  BY <1>1, UnitTaken DEF PrefixInv, PipelineInv, InStep
<1>4. n = Cardinality(OwnPackets(serial, 1 .. N)) /\ n = Position(serial, N + 1)
  <2>1. CleanUnits(serial) = 1 .. N
    BY <1>2 DEF CleanUnits, AllInPlace
  <2>2. n = Cardinality(OwnPackets(serial, CleanUnits(serial)))
    BY <1>1 DEF PrefixInv, OpensTheCleanPrefix
  <2>3. Position(serial, N + 1) = Cardinality(OwnPackets(serial, 1 .. N))
    BY <1>2, PositionNext
  <2> QED
    BY <2>1, <2>2, <2>3
<1>5. item.sess \in Sessions /\ item.seqno \in Nat /\ item.idx \in Nat
  BY <1>1 DEF Item
<1>6. /\ IsPacket(item) /\ item.sess = serial => (InPlace(serial, N + 1) <=> item.idx = n)
      /\ IsPacket(item) /\ item.sess # serial => (InPlace(serial, N + 1) <=> item.seqno < n)
      /\ ~IsPacket(item) => ~InPlace(serial, N + 1)
  BY <1>2, <1>4 DEF InPlace
<1>7. IsPacket(item) /\ item.sess = serial => item.idx >= n
  <2> SUFFICES ASSUME IsPacket(item), item.sess = serial, item.idx < n
               PROVE  FALSE
    BY <1>2, <1>5
  <2>0. item.idx \in 0 .. n - 1
    BY <1>2, <1>5
  <2>1. PICK k \in OwnPackets(serial, 1 .. N) : wire[serial][k].idx = item.idx
    BY <1>3, <2>0
  <2>2. k \in 1 .. N /\ IsPacket(wire[serial][k]) /\ wire[serial][k].sess = serial
    BY DEF OwnPackets
  <2>3. k \in DOMAIN wire[serial]
    BY <1>1, <1>2, <2>2 DEF BridgeInv, MacTypeOK, LinkTypeOK
  <2>4. k = N + 1
    BY <1>1, <2>1, <2>2, <2>3 DEF BridgeInv, StreamInv, ItemInv, AtMostOnce
  <2> QED
    BY <1>2, <2>2, <2>4
<1>8. \/ Misframed(item) \/ RejectSeqno(item) \/ RejectCiphertext(item) \/ Decrypted(item)
  BY <1>1
     DEF Deliver, on_raw_data, TakeHeader, RateLimited, InjectKeyboard, InjectPointer
<1>9. serial' = serial /\ UNCHANGED wire /\ taken' = [taken EXCEPT ![serial] = N + 1]
  BY <1>1 DEF Deliver, TakeUnit, vars, linkVars
<1>10. ~awaitingHeader'
  BY <1>8 DEF Misframed, RejectSeqno, RejectCiphertext, Decrypted, Framed
<1>p. PICK p \in Channels : p = serial
  BY <1>1
<1>11. CASE Misframed(item)
  <2>1. opened' = opened /\ Spent'
    BY <1>11 DEF Misframed, Spent
  <2>2. ~IsPacket(item)
    BY <1>3, <1>1, <1>2, <1>11 DEF Misframed
  <2> QED
    BY <1>6, <1>10, <2>1, <2>2, ReadOutOfPlace
<1>12. CASE RejectCiphertext(item)
  <2>1. /\ IsPacket(item) /\ item.seqno > lastSeqno /\ lastSeqno' = item.seqno
        /\ decryptor' = decryptor /\ opened' = opened
        /\ ~(item.sess = serial /\ item.idx = n)
    BY <1>3, <1>12 DEF RejectCiphertext, Framed, validate_seqno, decrypt
  <2>2. item.seqno >= n
    BY <1>2, <1>3, <1>5, <2>1
  <2>3. Spent'
    BY <1>3, <2>1, <2>2 DEF Spent
  <2>4. ~InPlace(serial, N + 1)
    BY <1>2, <1>5, <1>6, <2>1, <2>2
  <2> QED
    BY <1>10, <2>1, <2>3, <2>4, ReadOutOfPlace
<1>13. CASE RejectSeqno(item)
  <2>1. /\ IsPacket(item) /\ item.seqno <= lastSeqno /\ UNCHANGED <<pipelineVars, opened>>
    BY <1>2, <1>3, <1>5, <1>13 DEF RejectSeqno, Framed, validate_seqno
  <2>2. item.seqno < n /\ item.sess # serial
    BY <1>1, <1>2, <1>3, <1>5, <1>7, <2>1
  <2>3. InPlace(serial, N + 1)
    BY <1>6, <2>1, <2>2
  <2>4. OwnPackets(serial, 1 .. N + 1) = OwnPackets(serial, 1 .. N)
    BY <1>2, <2>2, OwnGrows DEF Own
  <2>5. Len(opened'[serial]) = Cardinality(OwnPackets(serial, 1 .. N + 1))
    BY <1>4, <2>1, <2>4
  <2>6. OwnPackets(serial, 1 .. taken[serial])' = OwnPackets(serial, 1 .. N)
    BY <1>p, <1>1, <1>9, <2>4 DEF OwnPackets, IsPacket, BridgeInv, ReadInv
  <2>7. InStep(serial)'
    BY <1>3, <1>9, <2>1, <2>6 DEF InStep
  <2> QED
    BY <1>10, <2>1, <2>3, <2>5, <2>7, ReadInPlace
<1>14. CASE Decrypted(item)
  <2>1. /\ IsPacket(item) /\ item.sess = serial /\ item.idx = n
        /\ lastSeqno' = item.seqno /\ decryptor' = [decryptor EXCEPT !.next = @ + 1]
        /\ opened' = [opened EXCEPT ![serial] = Append(@, n)]
    BY <1>3, <1>14 DEF Decrypted, Framed, decrypt
  <2>2. InPlace(serial, N + 1)
    BY <1>6, <2>1
  <2>3. /\ OwnPackets(serial, 1 .. N + 1) = OwnPackets(serial, 1 .. N) \cup {N + 1}
        /\ Cardinality(OwnPackets(serial, 1 .. N + 1)) = n + 1
    BY <1>2, <1>4, <2>1, OwnGrows DEF Own
  <2>4. Len(opened'[serial]) = n + 1 /\ \A c \in Channels \ {serial} : opened'[c] = opened[c]
    BY <1>1, <1>2, <2>1
  <2>5. OwnPackets(serial, 1 .. taken[serial])' = OwnPackets(serial, 1 .. N + 1)
    BY <1>p, <1>1, <1>9 DEF OwnPackets, IsPacket, BridgeInv, ReadInv
  <2>6. decryptor' = [sess |-> serial, next |-> n + 1]
    BY <1>3, <2>1
  <2>7. lastSeqno' = n
    BY <1>1, <2>1
  <2>8. ASSUME NEW i \in 0 .. n
        PROVE  \E k \in OwnPackets(serial, 1 .. N + 1) : wire[serial][k].idx = i
    <3>1. CASE i = n
      BY <2>1, <2>3, <3>1
    <3>2. CASE i # n
      <4>1. i \in 0 .. n - 1
        BY <1>2, <3>2
      <4>2. PICK k \in OwnPackets(serial, 1 .. N) : wire[serial][k].idx = i
        BY <1>3, <4>1
      <4> QED
        BY <2>3, <4>2
    <3> QED
      BY <3>1, <3>2
  <2>9. InStep(serial)'
    <3>1. Len(opened'[p]) = n + 1 /\ n + 1 - 1 = n /\ serial' = p
      BY <1>2, <1>9, <1>p, <2>4
    <3>2. \A i \in 0 .. n : \E k \in OwnPackets(p, 1 .. taken[p])' : wire'[p][k].idx = i
      BY <1>9, <1>p, <2>5, <2>8
    <3>3. 0 .. Len(opened'[p]) - 1 = 0 .. n /\ Len(opened'[p]) - 1 = n
      BY <3>1
    <3>4. decryptor' = [sess |-> p, next |-> Len(opened'[p])]
      BY <1>p, <2>6, <3>1
    <3> HIDE DEF n, N
    <3>5. InStep(p)'
      BY <2>7, <3>2, <3>3, <3>4 DEF InStep
    <3> QED
      BY <3>1, <3>5 DEF InStep
  <2> QED
    BY <1>10, <2>2, <2>3, <2>4, <2>9, ReadInPlace
<1> QED
  BY <1>8, <1>10, <1>11, <1>12, <1>13, <1>14

LEMMA ReadKeepsPrefix ==
    ASSUME BridgeInv, OrderInv, Numbered, PrefixInv, TakeUnit
    PROVE  PrefixInv'
<1>1. ~awaitingHeader' /\ PipelineInv' /\ OpensTheCleanPrefix'
  BY ReadFirst, ReadNext, ReadSpent
<1>2. TakenInv'
  <2>1. PICK p \in Channels : p = serial
    BY UnitTaken
  <2>2. /\ serial' = p /\ UNCHANGED <<wire, chan>> /\ taken' = [taken EXCEPT ![p] = @ + 1]
    BY <2>1, UnitTaken DEF Deliver, TakeUnit, vars, linkVars
  <2>3. taken \in [Channels -> Nat] /\ wire[p] \in Seq(Item) /\ taken[p] < Len(wire[p])
    BY <2>1 DEF BridgeInv, ReadInv, MacTypeOK, LinkTypeOK, TakeUnit
  <2>4. chan[p] # "unused"
    BY <2>1, WinPlaceholders DEF BridgeInv, WinInv, NothingBeforeHeader
  <2>5. /\ taken'[p] = taken[p] + 1 /\ taken'[p] > 0 /\ taken'[p] <= Len(wire[p])
        /\ \A c \in Channels \ {p} : taken'[c] = taken[c]
    BY <2>2, <2>3
  <2> QED
    BY <1>1, <2>2, <2>4, <2>5 DEF TakenInv, PrefixInv
<1> QED
  BY <1>1, <1>2 DEF PrefixInv

\* Without a read, what was decided stays decided: more is written, the serial
\* closes, or a new one opens, on which nothing has been read.
LEMMA OthersKeepPrefix ==
    ASSUME BridgeInv, PrefixInv, [BridgeNext]_allVars, ~TakeUnit
    PROVE  PrefixInv'
<1>t. /\ LinkTypeOK /\ ReadInv /\ Grown /\ LinkTypeOK'
      /\ serial \in Channels \cup {NoChannel}
  BY BridgeStep, WireGrows DEF BridgeInv, MacTypeOK, WinInv, WinTypeOK
<1>1. UNCHANGED <<opened, taken>>
  BY ReceiverSteps
<1>2. \A c \in Channels : taken[c] <= Len(wire[c])
  BY DEF PrefixInv, TakenInv
<1>3. OpensTheCleanPrefix'
  BY <1>t, <1>1, <1>2, CleanStays DEF PrefixInv, OpensTheCleanPrefix
<1>4. \A c \in Channels : taken'[c] <= Len(wire'[c])
  <2> SUFFICES ASSUME NEW c \in Channels, taken[c] > 0
               PROVE  taken[c] <= Len(wire'[c])
    BY <1>t, <1>1 DEF ReadInv, LinkTypeOK
  <2>1. taken[c] \in DOMAIN wire[c]
    BY <1>t, <1>2 DEF ReadInv, LinkTypeOK
  <2> QED
    BY <1>t, <2>1 DEF Grown, LinkTypeOK
<1>5. CASE /\ \/ UNCHANGED pipelineVars
              \/ ResetPipeline /\ (awaitingHeader \/ ~OnConnection')
           /\ OnConnection' => OnConnection /\ serial' = serial
           /\ serial' \in {serial, NoChannel}
           /\ \A c \in Channels : (chan[c] = "unused") = (chan'[c] = "unused")
  <2>1. OnConnection' => /\ OnConnection /\ serial' = serial /\ serial # NoChannel
                         /\ awaitingHeader' = awaitingHeader
    BY <1>t, <1>5
       DEF ResetPipeline, pipelineVars, BridgeInv, WinInv, WinTypeOK, BetweenConnections
  <2>2. TakenInv'
    BY <1>1, <1>4, <1>5, <2>1 DEF PrefixInv, TakenInv
  <2>3. PipelineInv'
    <3> SUFFICES ASSUME OnConnection', ~awaitingHeader'
                 PROVE  IF AllInPlace(serial)' THEN InStep(serial)' ELSE Spent'
      BY DEF PipelineInv
    <3>1. PICK p \in Channels : p = serial
      BY <1>t, <2>1
    <3>2. serial' = p /\ ~awaitingHeader /\ OnConnection
      BY <2>1, <3>1
    <3>3. UNCHANGED <<decryptor, lastSeqno>>
      BY <1>5, <3>2 DEF pipelineVars
    <3>4. /\ AllInPlace(p)' = AllInPlace(p)
          /\ OwnPackets(p, 1 .. taken[p])' = OwnPackets(p, 1 .. taken[p])
          /\ \A k \in 1 .. taken[p] : wire'[p][k] = wire[p][k]
      BY <1>t, <1>1, <1>2, CleanStays
    <3>5. IF AllInPlace(p) THEN InStep(p) ELSE Spent
      BY <3>1, <3>2 DEF PrefixInv, PipelineInv
    <3>6. Spent => Spent'
      BY <3>3 DEF Spent
    <3>7. InStep(p) => InStep(p)'
      <4>1. OwnPackets(p, 1 .. taken[p]) \subseteq 1 .. taken[p]
        BY DEF OwnPackets
      <4> QED
        BY <1>1, <3>3, <3>4, <4>1 DEF InStep
    <3>8. AllInPlace(serial)' = AllInPlace(p)' /\ InStep(serial)' = InStep(p)'
      BY <3>2 DEF AllInPlace, InStep
    <3> QED
      BY <3>4, <3>5, <3>6, <3>7, <3>8
  <2> QED
    BY <1>3, <2>2, <2>3 DEF PrefixInv
<1>6. ASSUME NEW c \in Channels, OpenPort(c)
      PROVE  PrefixInv'
  <2>1. /\ chan[c] = "unused" /\ chan' = [chan EXCEPT ![c] = "open"]
        /\ serial' = c /\ awaitingHeader' = awaitingHeader /\ awaitingHeader
    BY <1>6 DEF OpenPort, Open, ClientGoto, pipelineVars, BridgeInv, WinInv,
                BetweenConnections
  <2>2. taken[c] = 0
    BY <2>1 DEF PrefixInv, TakenInv
  <2>3. TakenInv'
    BY <1>t, <1>1, <1>4, <2>1, <2>2 DEF PrefixInv, TakenInv, LinkTypeOK
  <2>4. PipelineInv'
    BY <2>1 DEF PipelineInv
  <2> QED
    BY <1>3, <2>3, <2>4 DEF PrefixInv
<1>7. \/ /\ \/ UNCHANGED pipelineVars
            \/ ResetPipeline /\ (awaitingHeader \/ ~OnConnection')
         /\ OnConnection' => OnConnection /\ serial' = serial
         /\ serial' \in {serial, NoChannel}
         /\ \A c \in Channels : (chan[c] = "unused") = (chan'[c] = "unused")
      \/ \E c \in Channels : OpenPort(c)
  BY ReceiverSteps
<1> QED
  BY <1>5, <1>6, <1>7

(***************************************************************************)
(* What main.py opens of a connection is decided by what it read of it:    *)
(* the messages of the clean start, all of them, and nothing after it.     *)
(* The hypothesis is that no session carries more reports than there are   *)
(* sequence numbers, 2^32: past that the numbers wrap, and a receiver that *)
(* only accepts larger ones opens nothing more.                            *)
(***************************************************************************)
THEOREM CleanPrefixOpened ==
    ASSUME MaxReports <= SeqMod
    PROVE  BridgeSpec => []OpensTheCleanPrefix
<1>1. BridgeInit => PrefixInv
  <2> SUFFICES ASSUME BridgeInit PROVE PrefixInv
    OBVIOUS
  <2>1. TakenInv /\ PipelineInv
    BY DEF BridgeInit, Init, LinkInit, WinInit, TakenInv, PipelineInv, OnConnection
  <2>2. ASSUME NEW c \in Channels
        PROVE  Len(opened[c]) = Cardinality(OwnPackets(c, CleanUnits(c)))
    <3>1. taken[c] = 0 /\ Len(opened[c]) = 0
      BY DEF BridgeInit, WinInit, Sessions
    <3>2. OwnPackets(c, CleanUnits(c)) = {}
      BY <3>1 DEF OwnPackets, CleanUnits
    <3> QED
      BY <3>1, <3>2, FS_EmptySet
  <2> QED
    BY <2>1, <2>2 DEF PrefixInv, OpensTheCleanPrefix
<1>2. /\ BridgeInv /\ OrderInv /\ Numbered /\ PrefixInv
      /\ [BridgeNext]_allVars
      => PrefixInv'
  BY ReadKeepsPrefix, OthersKeepPrefix
<1>3. PrefixInv => OpensTheCleanPrefix
  BY DEF PrefixInv
<1>4. BridgeSpec => [](BridgeInv /\ OrderInv /\ Numbered)
  BY NumberedInvariant
<1> QED
  BY <1>1, <1>2, <1>3, <1>4, PTL DEF BridgeSpec
=============================================================================
