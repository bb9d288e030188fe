------------------------- MODULE WinReceiverProofs -------------------------
(***************************************************************************)
(* Theorems about WinReceiver, for any number of connections, any limit    *)
(* and sessions of any length, against any sender.                         *)
(***************************************************************************)
EXTENDS WinReceiver, TLAPS

USE NumChannelsAssumption, WinAssumption

\* The client thread works on a connection, though its port may be closed.
OnConnection == clientpc \in {"greet", "loop", "read", "deliver"}

\* The client thread holds no port and no session between two connections.
BetweenConnections ==
    /\ clientpc \in {"connect", "release", "reset", "backoff", "gone"} =>
           port = NoChannel
    /\ clientpc \in {"connect", "greet", "backoff"} =>
           awaitingHeader /\ decryptor = NoDecryptor
    /\ OnConnection => serial # NoChannel
    /\ mainpc = "down" => clientpc = "gone"

\* Nothing is opened on a channel before it is open and its header is there.
NothingBeforeHeader ==
    /\ port # NoChannel => serial = port
    /\ serial # NoChannel => chan[serial] # "unused"
    /\ \A c \in Channels : chan[c] = "unused" => opened[c] = <<>>
    /\ OnConnection /\ awaitingHeader => opened[serial] = <<>>

\* The session is the one of the connection, and in step with it.
OwnStream ==
    /\ OnConnection /\ decryptor.sess # NoSession => decryptor.sess = serial
    /\ StreamInStep

WinInv == WinTypeOK /\ BetweenConnections /\ NothingBeforeHeader /\ OwnStream

WinAllNext == WinNext \/ AnySender \/ MacProcess

\* Zero is not a channel, and no sender's message makes a placeholder.
LEMMA WinPlaceholders ==
    /\ NoChannel \notin Channels /\ NoSession \notin Sessions
    /\ NoChannel = NoSession /\ Sessions = Channels
    /\ NoDecryptor.sess = NoSession /\ Garbled.sess = NoSession
    /\ \A s \in Sessions, n \in Nat :
           [sess |-> s, next |-> n] # NoDecryptor /\ [sess |-> s, next |-> n] # Garbled
BY DEF NoChannel, NoSession, Channels, Sessions, NoDecryptor, Garbled

\* What a sender may write: a header of the connection's session, or a packet
\* numbered by its place in its session.
LEMMA SentItems ==
    ASSUME NEW item \in Sent, serial \in Channels \cup {NoChannel}
    PROVE  /\ item.sess \in Sessions /\ item.seqno \in Nat /\ item.idx \in Nat
           /\ item.seqno = item.idx
           /\ ~IsPacket(item) => item.sess = serial
BY WinPlaceholders DEF Sent, header, build_packet, IsPacket, Types

-----------------------------------------------------------------------------
(* The invariant holds at the start, and every step keeps it.              *)

LEMMA WinInitInv == WinInitial => WinInv
<1> SUFFICES ASSUME WinInitial PROVE WinInv
  OBVIOUS
<1> USE WinPlaceholders DEF WinInitial, LinkInit, WinInit
<1>1. LinkTypeOK
  <2>1. /\ <<>> \in Seq(Item)
        /\ <<>> \in Seq([event : {"opened", "closed"}, ch : Channels])
    OBVIOUS
  <2> QED
    BY <2>1 DEF LinkTypeOK
<1>2. opened \in [Sessions -> Seq(Nat)]
  <2>1. <<>> \in Seq(Nat)
    OBVIOUS
  <2> QED
    BY <2>1
<1>3. /\ port \in Channels \cup {NoChannel}
      /\ serial \in Channels \cup {NoChannel}
      /\ decryptor \in [sess : Sessions, next : Nat] \cup {NoDecryptor, Garbled}
      /\ lastSeqno \in Nat \cup {-1}
  OBVIOUS
<1>4. recent \in 0 .. MaxKeyEvents
  OBVIOUS
<1>5. running \in BOOLEAN /\ linked \in BOOLEAN /\ awaitingHeader \in BOOLEAN
  OBVIOUS
<1>6. WinTypeOK
  BY <1>1, <1>2, <1>3, <1>4, <1>5 DEF WinTypeOK
<1> QED
  BY <1>6 DEF WinInv, BetweenConnections, NothingBeforeHeader, OwnStream, StreamInStep,
              OnConnection

\* A step of the link that closes channels takes nothing back.
LEMMA CloseType ==
    ASSUME LinkTypeOK, \/ \E c \in Channels : Drop(c)
                       \/ HostGone
                       \/ service' = TRUE /\ UNCHANGED <<chan, wire, toMac>>
    PROVE  /\ LinkTypeOK'
           /\ \A c \in Channels : (chan[c] = "unused") = (chan'[c] = "unused")
<1>1. ASSUME NEW c \in Channels, Drop(c)
      PROVE  /\ LinkTypeOK'
             /\ \A d \in Channels : (chan[d] = "unused") = (chan'[d] = "unused")
  BY <1>1 DEF LinkTypeOK, Drop
<1>2. CASE HostGone
  <2>1. <<>> \in Seq([event : {"opened", "closed"}, ch : Channels])
    OBVIOUS
  <2>2. /\ chan' \in [Channels -> {"unused", "open", "closed"}]
        /\ \A c \in Channels : (chan[c] = "unused") = (chan'[c] = "unused")
    BY <1>2 DEF LinkTypeOK, HostGone
  <2> QED
    BY <1>2, <2>1, <2>2 DEF LinkTypeOK, HostGone
<1>3. CASE service' = TRUE /\ UNCHANGED <<chan, wire, toMac>>
  BY <1>3 DEF LinkTypeOK
<1> QED
  BY <1>1, <1>2, <1>3

\* All the receiver needs of a unit: its fields have their types, and a header
\* is the one of the connection's session.
Unit(item) ==
    /\ item.sess \in Sessions /\ item.seqno \in Nat /\ item.idx \in Nat
    /\ ~IsPacket(item) => item.sess = serial

LEMMA SentUnit ==
    ASSUME NEW item \in Sent, serial \in Channels \cup {NoChannel}
    PROVE  Unit(item)
BY SentItems DEF Unit

\* A unit that is not decrypted opens nothing, and at most begins a session.
LEMMA NotOpenedInv ==
    ASSUME WinInv, NEW item, NEW last \in BOOLEAN, Unit(item), Deliver(item, last),
           UNCHANGED linkVars,
           \/ TakeHeader(item) \/ Misframed(item)
           \/ RejectSeqno(item) \/ RejectCiphertext(item)
    PROVE  WinInv'
<1> USE WinPlaceholders DEF WinInv, WinTypeOK, Deliver, ClientGoto, Unit
<1>1. LinkTypeOK'
  BY DEF linkVars, LinkTypeOK
<1> USE <1>1 DEF BetweenConnections, NothingBeforeHeader, OwnStream, StreamInStep,
                 OnConnection, linkVars, pipelineVars
<1>2. CASE TakeHeader(item)
  <2>1. awaitingHeader' \in BOOLEAN /\ running' \in BOOLEAN /\ linked' \in BOOLEAN
    BY <1>2 DEF TakeHeader
  <2>2. WinTypeOK'
    BY <1>2, <2>1 DEF TakeHeader
  <2> QED
    BY <1>2, <2>2 DEF TakeHeader
<1>3. CASE Misframed(item)
  BY <1>3 DEF Misframed
<1>4. CASE RejectSeqno(item)
  BY <1>4 DEF RejectSeqno
<1>5. CASE RejectCiphertext(item)
  BY <1>5 DEF RejectCiphertext, Framed, validate_seqno
<1> QED
  BY <1>2, <1>3, <1>4, <1>5

\* A message that is decrypted is the next one of the connection's session.
LEMMA DecryptedIsNext ==
    ASSUME WinInv, NEW item, Unit(item), clientpc = "deliver", Decrypted(item)
    PROVE  /\ serial \in Sessions
           /\ decryptor.sess = serial /\ item.sess = serial
           /\ item.idx = Len(opened[serial]) /\ item.idx \in Nat
           /\ decryptor.next = item.idx
           /\ lastSeqno < item.seqno /\ item.idx <= item.seqno
BY WinPlaceholders
   DEF WinInv, WinTypeOK, BetweenConnections, OwnStream, StreamInStep, OnConnection,
       Decrypted, Framed, decrypt, validate_seqno, Unit

LEMMA DecryptedInv ==
    ASSUME WinInv, NEW item, NEW last \in BOOLEAN, Unit(item), Deliver(item, last),
           UNCHANGED linkVars, Decrypted(item), recent' \in 0 .. MaxKeyEvents
    PROVE  WinInv'
<1> USE WinPlaceholders, DecryptedIsNext DEF Deliver, ClientGoto
<1>1. LinkTypeOK'
  BY DEF WinInv, WinTypeOK, linkVars, LinkTypeOK
<1>2. /\ opened' = [opened EXCEPT ![serial] = Append(@, item.idx)]
      /\ decryptor' = [decryptor EXCEPT !.next = @ + 1]
      /\ lastSeqno' = item.seqno
      /\ awaitingHeader' = awaitingHeader
      /\ ~awaitingHeader
      /\ lastSeqno' \in Nat /\ item.idx <= lastSeqno'
  BY DEF Decrypted, Framed, Unit
<1>3. /\ opened[serial] \in Seq(Nat)
      /\ opened' \in [Sessions -> Seq(Nat)]
      /\ Len(opened'[serial]) = item.idx + 1
      /\ \A c \in Channels : c # serial => opened'[c] = opened[c]
  BY <1>2 DEF WinInv, WinTypeOK
<1>4. /\ decryptor' \in [sess : Sessions, next : Nat]
      /\ decryptor'.sess = serial /\ decryptor'.next = item.idx + 1
  <2>1. /\ serial \in Sessions /\ decryptor.sess = serial
        /\ decryptor.next = item.idx /\ item.idx \in Nat
    OBVIOUS
  <2>2. decryptor \in [sess : Sessions, next : Nat]
    BY <2>1 DEF WinInv, WinTypeOK
  <2>3. decryptor' = [decryptor EXCEPT !.next = decryptor.next + 1]
    BY <1>2
  <2> HIDE DecryptedIsNext, WinPlaceholders
  <2> QED
    BY <2>1, <2>2, <2>3
<1>5. WinTypeOK'
  BY <1>1, <1>2, <1>3, <1>4 DEF WinInv, WinTypeOK
<1>6. BetweenConnections'
  BY <1>2 DEF WinInv, WinTypeOK, BetweenConnections, OnConnection
<1>7. NothingBeforeHeader'
  BY <1>2, <1>3 DEF WinInv, NothingBeforeHeader, OnConnection, linkVars
<1>8. OwnStream'
  BY <1>2, <1>3, <1>4 DEF OwnStream, StreamInStep, OnConnection
<1> QED
  BY <1>5, <1>6, <1>7, <1>8 DEF WinInv

\* A unit worked through, whoever wrote it.
LEMMA DeliverInv ==
    ASSUME WinInv, NEW item, NEW last \in BOOLEAN, Unit(item), Deliver(item, last),
           UNCHANGED linkVars
    PROVE  WinInv'
<1>1. \/ TakeHeader(item) \/ Misframed(item)
      \/ RejectSeqno(item) \/ RejectCiphertext(item)
      \/ RateLimited(item) \/ InjectKeyboard(item) \/ InjectPointer(item)
  BY DEF Deliver, on_raw_data
<1>2. CASE RateLimited(item)
  BY <1>2, DecryptedInv DEF RateLimited, WinInv, WinTypeOK
<1>3. CASE InjectKeyboard(item)
  BY <1>3, DecryptedInv DEF InjectKeyboard
<1>4. CASE InjectPointer(item)
  BY <1>4, DecryptedInv DEF InjectPointer, WinInv, WinTypeOK
<1> QED
  BY <1>1, <1>2, <1>3, <1>4, NotOpenedInv

\* A read that returns hands the connection it was made on to the callback.
LEMMA ReadChunkInv == ASSUME WinInv, ReadChunk, UNCHANGED linkVars PROVE WinInv'
<1>1. LinkTypeOK'
  BY DEF WinInv, WinTypeOK, linkVars, LinkTypeOK
<1> QED
  BY <1>1 DEF ReadChunk, ClientGoto, linkVars, pipelineVars, WinInv, WinTypeOK,
              BetweenConnections, NothingBeforeHeader, OwnStream, StreamInStep, OnConnection

LEMMA AnySenderInv == ASSUME WinInv, AnySender PROVE WinInv'
BY ReadChunkInv, DeliverInv, SentUnit DEF AnySender, WinInv, WinTypeOK

LEMMA MacProcessInv == ASSUME WinInv, MacProcess PROVE WinInv'
<1>1. /\ LinkTypeOK'
      /\ \A c \in Channels : (chan[c] = "unused") = (chan'[c] = "unused")
      /\ UNCHANGED winVars
  BY CloseType DEF MacProcess, WinInv, WinTypeOK
<1> USE <1>1 DEF winVars, clientVars, pipelineVars
<1>2. WinTypeOK'
  BY DEF WinInv, WinTypeOK
<1> QED
  BY <1>2 DEF WinInv, WinTypeOK, BetweenConnections, NothingBeforeHeader, OwnStream,
              StreamInStep, OnConnection

\* Closing the port: by the client thread's finally clause, by stop(), or by
\* the end of the process.
LEMMA ClosePortInv ==
    ASSUME WinTypeOK, NothingBeforeHeader, OwnStream, ClosePort,
           OnConnection' => OnConnection, UNCHANGED <<serial, pipelineVars, opened>>
    PROVE  /\ LinkTypeOK' /\ port' = NoChannel /\ linked' = FALSE
           /\ NothingBeforeHeader' /\ OwnStream'
<1>1. /\ LinkTypeOK'
      /\ \A c \in Channels : (chan[c] = "unused") = (chan'[c] = "unused")
  <2>1. CASE port \in OpenChannels
    BY <2>1, CloseType DEF ClosePort, OpenChannels, WinTypeOK
  <2>2. CASE port \notin OpenChannels
    BY <2>2 DEF ClosePort, WinTypeOK, LinkTypeOK, linkVars
  <2> QED
    BY <2>1, <2>2
<1>2. serial \in Channels \cup {NoChannel} /\ port' = NoChannel /\ linked' = FALSE
  BY DEF WinTypeOK, ClosePort
<1>3. NothingBeforeHeader'
  BY <1>1, <1>2 DEF NothingBeforeHeader, pipelineVars
<1>4. OwnStream'
  BY <1>1, <1>2 DEF OwnStream, StreamInStep, pipelineVars
<1> QED
  BY <1>1, <1>2, <1>3, <1>4

LEMMA ClientInv == ASSUME WinInv, ClientStep PROVE WinInv'
<1> USE WinPlaceholders DEF WinInv, ClientGoto
<1>1. ASSUME NEW c \in Channels, OpenPort(c) PROVE WinInv'
  <2>1. LinkTypeOK'
    <3>1. [event |-> "opened", ch |-> c] \in [event : {"opened", "closed"}, ch : Channels]
      OBVIOUS
    <3> QED
      BY <1>1, <3>1 DEF OpenPort, Open, WinTypeOK, LinkTypeOK
  <2>2. /\ chan[c] = "unused" /\ chan'[c] = "open"
        /\ \A d \in Channels : d # c => chan'[d] = chan[d]
        /\ opened[c] = <<>>
    BY <1>1 DEF OpenPort, Open, WinTypeOK, LinkTypeOK, NothingBeforeHeader
  <2> QED
    BY <1>1, <2>1, <2>2
       DEF OpenPort, WinTypeOK, pipelineVars, BetweenConnections,
           NothingBeforeHeader, OwnStream, StreamInStep, OnConnection
<1>2. CASE Cleanup
  BY <1>2, ClosePortInv
     DEF Cleanup, WinTypeOK, pipelineVars, BetweenConnections, OnConnection
<1>3. CASE Greet \/ ResetAfterDisconnect
  <2>1. LinkTypeOK'
    BY <1>3 DEF Greet, ResetAfterDisconnect, linkVars, WinTypeOK, LinkTypeOK
  <2>2. awaitingHeader' \in BOOLEAN /\ running' \in BOOLEAN /\ linked' \in BOOLEAN
    BY <1>3 DEF Greet, ResetAfterDisconnect, ResetPipeline, WinTypeOK
  <2>3. WinTypeOK'
    BY <1>3, <2>1, <2>2 DEF Greet, ResetAfterDisconnect, ResetPipeline, WinTypeOK
  <2> QED
    BY <1>3, <2>3
       DEF Greet, ResetAfterDisconnect, ResetPipeline, linkVars, WinTypeOK,
           BetweenConnections, NothingBeforeHeader, OwnStream, StreamInStep, OnConnection
<1>4. CASE \/ OpenFails \/ NoPortFound \/ LoopTest \/ ReadNothing \/ ReadFails
           \/ ReleaseAll \/ BackoffOver
  <2>1. /\ UNCHANGED <<running, port, serial, linked, mainpc, pipelineVars, opened>>
        /\ UNCHANGED linkVars
        /\ \/ clientpc' \in {"cleanup", "backoff"} /\ clientpc = "connect"
           \/ clientpc' \in {"read", "cleanup"} /\ clientpc = "loop"
           \/ clientpc' \in {"loop", "cleanup"} /\ clientpc = "read"
           \/ clientpc' = "reset" /\ clientpc = "release"
           \/ clientpc' \in {"connect", "gone"} /\ clientpc = "backoff"
    BY <1>4 DEF OpenFails, NoPortFound, LoopTest, ReadNothing, ReadFails, ReleaseAll,
                BackoffOver
  <2>2. LinkTypeOK'
    BY <2>1 DEF linkVars, WinTypeOK, LinkTypeOK
  <2> QED
    BY <2>1, <2>2 DEF linkVars, pipelineVars, WinTypeOK, BetweenConnections,
                      NothingBeforeHeader, OwnStream, StreamInStep, OnConnection
<1> QED
  BY <1>1, <1>2, <1>3, <1>4 DEF ClientStep

LEMMA MainInv == ASSUME WinInv, WinMainStep PROVE WinInv'
<1> USE WinPlaceholders DEF WinInv, MainGoto
<1>1. CASE StopClose
  BY <1>1, ClosePortInv
     DEF StopClose, WinTypeOK, pipelineVars, BetweenConnections, OnConnection
<1>2. CASE Start
  <2>1. LinkTypeOK'
    BY <1>2 DEF Start, linkVars, WinTypeOK, LinkTypeOK
  <2>2. awaitingHeader' \in BOOLEAN /\ running' \in BOOLEAN /\ linked' \in BOOLEAN
    BY <1>2 DEF Start, ResetPipeline, WinTypeOK
  <2>3. WinTypeOK'
    BY <1>2, <2>1, <2>2 DEF Start, ResetPipeline, WinTypeOK
  <2> QED
    BY <1>2, <2>3
       DEF Start, ResetPipeline, linkVars, WinTypeOK,
           BetweenConnections, NothingBeforeHeader, OwnStream, StreamInStep, OnConnection
<1>3. CASE StopRelease \/ StopRunning \/ Exit
  <2>1. /\ UNCHANGED <<port, serial, linked, clientpc, pipelineVars, opened, linkVars>>
        /\ \/ mainpc' \in {"stop", "close"}
           \/ clientpc = "gone" /\ mainpc' = "down"
    BY <1>3 DEF StopRelease, StopRunning, Exit
  <2>2. running' \in BOOLEAN
    BY <1>3 DEF StopRelease, StopRunning, Exit, WinTypeOK
  <2>3. LinkTypeOK'
    BY <2>1 DEF linkVars, WinTypeOK, LinkTypeOK
  <2> QED
    BY <2>1, <2>2, <2>3 DEF linkVars, pipelineVars, WinTypeOK, BetweenConnections,
                            NothingBeforeHeader, OwnStream, StreamInStep, OnConnection
<1>4. CASE ProcessGone
  <2>1. clientpc' = "gone" /\ ~OnConnection'
    BY <1>4 DEF ProcessGone, OnConnection
  <2>2. /\ LinkTypeOK' /\ port' = NoChannel /\ linked' = FALSE
        /\ NothingBeforeHeader' /\ OwnStream'
    BY <1>4, <2>1, ClosePortInv DEF ProcessGone
  <2> QED
    BY <1>4, <2>1, <2>2
       DEF ProcessGone, WinTypeOK, pipelineVars, BetweenConnections, OnConnection
<1> QED
  BY <1>1, <1>2, <1>3, <1>4 DEF WinMainStep

LEMMA WinStepInv == WinInv /\ [WinAllNext]_rvars => WinInv'
<1> SUFFICES ASSUME WinInv, [WinAllNext]_rvars PROVE WinInv'
  OBVIOUS
<1>1. CASE UNCHANGED rvars
  BY <1>1 DEF rvars, winVars, clientVars, pipelineVars, linkVars, WinInv, WinTypeOK,
              LinkTypeOK, BetweenConnections, NothingBeforeHeader, OwnStream, StreamInStep,
              OnConnection
<1> QED
  BY <1>1, ClientInv, MainInv, AnySenderInv, MacProcessInv DEF WinAllNext, WinNext

THEOREM WinInvariant == WinSpec => []WinInv
<1>1. WinSpec => WinInitial /\ [][WinAllNext]_rvars
  BY DEF WinSpec, WinAllNext
<1> QED
  BY <1>1, WinInitInv, WinStepInv, PTL

-----------------------------------------------------------------------------
(* What follows from it.                                                   *)

(***************************************************************************)
(* The variables of the receiver keep their types: main.py, bt_client.py.  *)
(***************************************************************************)
THEOREM WinTypeCorrect == WinSpec => []WinTypeOK
<1>1. WinInv => WinTypeOK
  BY DEF WinInv
<1> QED
  BY <1>1, WinInvariant, PTL

(***************************************************************************)
(* The pull state of crypto.py stands exactly after what was opened, and   *)
(* the number of packet.py is never behind it: nothing is opened twice.    *)
(***************************************************************************)
THEOREM StreamCorrect == WinSpec => []StreamInStep
<1>1. WinInv => StreamInStep
  BY DEF WinInv, OwnStream
<1> QED
  BY <1>1, WinInvariant, PTL

\* Only a decrypted message changes what is opened.
LEMMA OpenedByDecrypted ==
    ASSUME WinAllNext, opened' # opened
    PROVE  \E item \in Sent : clientpc = "deliver" /\ Decrypted(item)
<1>1. ASSUME AnySender
      PROVE  \E item \in Sent : clientpc = "deliver" /\ Decrypted(item)
  <2> PICK item \in Sent : \E last \in BOOLEAN : Deliver(item, last)
    BY <1>1 DEF AnySender, ReadChunk
  <2> QED
    BY DEF Deliver, ClientGoto, on_raw_data, TakeHeader, Misframed, RejectSeqno,
           RejectCiphertext, RateLimited, InjectKeyboard, InjectPointer
<1>2. ~MacProcess
  BY DEF MacProcess, winVars
<1>3. ~ClientStep
  BY DEF ClientStep, OpenPort, OpenFails, NoPortFound, Greet, LoopTest, ReadNothing,
         ReadFails, Cleanup, ReleaseAll, ResetAfterDisconnect, BackoffOver
<1>4. ~WinMainStep
  BY DEF WinMainStep, StopRelease, StopRunning, StopClose, Exit, ProcessGone,
         Start
<1> QED
  BY <1>1, <1>2, <1>3, <1>4 DEF WinAllNext, WinNext

(***************************************************************************)
(* Nothing sealed for an earlier connection is ever opened in a later one, *)
(* and of the current one always the next message: the resets of main.py   *)
(* leave no way around it.                                                 *)
(***************************************************************************)
THEOREM OwnSessionCorrect == WinSpec => OpensOwnSession
<1>1. ASSUME WinInv, [WinAllNext]_rvars, opened' # opened
      PROVE  /\ serial # NoChannel
             /\ opened' = [opened EXCEPT ![serial] = Append(@, Len(@))]
  <2>1. WinAllNext
    BY <1>1 DEF rvars, winVars
  <2>2. PICK item \in Sent : clientpc = "deliver" /\ Decrypted(item)
    BY <1>1, <2>1, OpenedByDecrypted
  <2>3. item.sess = serial /\ item.idx = Len(opened[serial])
    BY <1>1, <2>2, DecryptedIsNext, SentUnit DEF WinInv, WinTypeOK
  <2>4. serial # NoChannel
    BY <1>1, <2>2 DEF WinInv, BetweenConnections, OnConnection
  <2> QED
    BY <2>2, <2>3, <2>4 DEF Decrypted
<1>2. WinSpec => [][WinAllNext]_rvars
  BY DEF WinSpec, WinAllNext
<1> QED
  BY <1>1, <1>2, WinInvariant, PTL DEF OpensOwnSession

(***************************************************************************)
(* A number accepted ahead of the stream ends the session: main.py checks  *)
(* and remembers it before the ciphertext is authenticated.                *)
(***************************************************************************)
THEOREM GapIsFinal == WinSpec => GapEndsSession
<1>1. ASSUME WinInv, [WinAllNext]_rvars, Ahead, opened' # opened
      PROVE  FALSE
  <2>1. WinAllNext
    BY <1>1 DEF rvars, winVars
  <2>2. PICK item \in Sent : clientpc = "deliver" /\ Decrypted(item)
    BY <1>1, <2>1, OpenedByDecrypted
  <2>3. lastSeqno < decryptor.next
    BY <1>1, <2>2, DecryptedIsNext, SentUnit, SentItems DEF WinInv, WinTypeOK
  <2> QED
    BY <1>1, <2>3 DEF Ahead, WinInv, WinTypeOK, NoDecryptor, Garbled
<1>2. WinSpec => [][WinAllNext]_rvars
  BY DEF WinSpec, WinAllNext
<1> QED
  BY <1>1, <1>2, WinInvariant, PTL DEF GapEndsSession
=============================================================================
