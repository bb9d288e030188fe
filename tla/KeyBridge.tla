------------------------------ MODULE KeyBridge ------------------------------
(***************************************************************************)
(* The whole forwarding path: the Mac's daemon, the link, and the one      *)
(* Windows receiver that connects to it.  Each side runs its own steps;    *)
(* they meet only in the link: a port opened or closed, a unit written, a  *)
(* unit read.                                                              *)
(***************************************************************************)
EXTENDS MacSender, WinReceiver

VARIABLES
    fetched,    \* how much of each channel serial.read has returned
    taken       \* how much of it the pipeline has been fed

readVars == <<fetched, taken>>
allVars == <<vars, winVars, readVars>>

BridgeTypeOK ==
    /\ MacTypeOK
    /\ WinTypeOK
    /\ fetched \in [Channels -> Nat]
    /\ taken \in [Channels -> Nat]

BridgeInit ==
    /\ Init
    /\ WinInit
    /\ fetched = [c \in Channels |-> 0]
    /\ taken = [c \in Channels |-> 0]

\* serial.read: units come off a channel in the order they were written, as
\* many at a time as have arrived, and even after it has closed.
ReadUnits ==
    /\ ReadChunk
    /\ \E n \in fetched[port] + 1 .. Len(wire[port]) :
          fetched' = [fetched EXCEPT ![port] = n]
    /\ UNCHANGED <<vars, taken>>

\* The callback takes the next unit of the chunk.
TakeUnit ==
    /\ clientpc = "deliver"
    /\ LET next == taken[serial] + 1
       IN  /\ Deliver(wire[serial][next], next = fetched[serial])
           /\ taken' = [taken EXCEPT ![serial] = next]
    /\ UNCHANGED <<vars, fetched>>

\* Out of range, or interference: the channel closes under both ends.
RadioLoss ==
    /\ \E c \in Channels : Drop(c)
    /\ UNCHANGED <<macVars, winVars, readVars>>

BridgeNext ==
    \/ MacNext /\ UNCHANGED <<winVars, readVars>>
    \/ WinNext /\ UNCHANGED <<macVars, readVars>>
    \/ ReadUnits
    \/ TakeUnit
    \/ RadioLoss

BridgeSpec == BridgeInit /\ [][BridgeNext]_allVars

\* The threads of both sides are scheduled: a callback, a capture, a send and
\* a stop() that began go on, launchd relaunches, and a port that has bytes to
\* read returns them, sooner or later, instead of timing out.  Nobody has to
\* type, toggle, connect, stop or crash.
OfMac(A) == A /\ UNCHANGED <<winVars, readVars>>
OfWin(A) == A /\ UNCHANGED <<macVars, readVars>>

BridgeFairness ==
    /\ WF_allVars(OfMac(RunLoopStep))
    /\ \A r \in Readers : WF_allVars(OfMac(pc[r] # "idle" /\ ReaderStep(r)))
    /\ WF_allVars(OfMac(StopGoesOn))
    /\ WF_allVars(OfWin(ClientStep) \/ TakeUnit)
    /\ SF_allVars(OfWin(ReadFails))
    /\ SF_allVars(ReadUnits)
    /\ WF_allVars(OfWin(StopProceeds))

BridgeFairSpec == BridgeSpec /\ BridgeFairness

-----------------------------------------------------------------------------
(* Properties.                                                             *)

(***************************************************************************)
(* The session the receiver opens is the stream the sender sealed: in      *)
(* order, each message once, none from an earlier connection, whatever is  *)
(* reordered, lost or written late on the way (module SessionStream).      *)
(***************************************************************************)
Promise == INSTANCE SessionStream WITH Sessions <- Sessions,
               sealed <- sealed, opened <- opened, current <- decryptor.sess

ImplementsSessionStream == Promise!Spec

(***************************************************************************)
(* How far a connection got is decided on the wire: the receiver opens     *)
(* exactly the messages of the clean start of what it was fed, which is    *)
(* the session's own header, then its packets 0, 1, 2, ... in order.  The  *)
(* only thing that may come between them is a packet of another session    *)
(* with a number that is no longer new; the first unit out of place        *)
(* otherwise ends it.  In particular a clean stream loses nothing on the   *)
(* way through the receiver.                                               *)
(***************************************************************************)
OwnPackets(c, K) == {k \in K : IsPacket(wire[c][k]) /\ wire[c][k].sess = c}

Position(c, k) == Cardinality(OwnPackets(c, 1 .. k - 1))

InPlace(c, k) ==
    \/ k = 1 /\ wire[c][k] = header(c)
    \/ /\ k > 1
       /\ IsPacket(wire[c][k])
       /\ IF wire[c][k].sess = c THEN wire[c][k].idx = Position(c, k)
                                 ELSE wire[c][k].seqno < Position(c, k)

CleanUnits(c) ==
    {k \in 1 .. taken[c] : \A j \in 1 .. k : InPlace(c, j)}

OpensTheCleanPrefix ==
    \A c \in Channels :
        Len(opened[c]) = Cardinality(OwnPackets(c, CleanUnits(c)))

(***************************************************************************)
(* The handshake ends: a receiver that has opened a port does not wait for *)
(* a stream header for ever.  It holds while no write fails: a header lost *)
(* by RFCOMMServer.send is never sent again.                               *)
(***************************************************************************)
HandshakeEnds ==
    \A c \in Channels : port = c ~> (~awaitingHeader \/ port # c)
=============================================================================
