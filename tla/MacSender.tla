------------------------------ MODULE MacSender ------------------------------
(***************************************************************************)
(* The Mac side: Daemon (mac-sender main.py) and RFCOMMServer              *)
(* (bt_server.py), with every thread that touches their shared state.      *)
(*                                                                         *)
(*   run loop   runs the RFCOMM delegate callbacks one at a time           *)
(*   keyboard   hid_reader: one report at a time through _send_packet      *)
(*   pointer    trackpad_reader: likewise                                  *)
(*   main       stop(), process exit and the restart by launchd            *)
(*   hotkey     toggle_forwarding(): a single locked assignment            *)
(*                                                                         *)
(* A step is what runs between two points where another thread can change  *)
(* what the thread reads: a lock section, a read of shared state outside a *)
(* lock, a write on the channel.                                           *)
(***************************************************************************)
EXTENDS Link

CONSTANTS
    Readers,        \* the capture threads, named by the packet type they send
    SeqMod,         \* sequence numbers are taken modulo this: 2^32 in the code
    MaxReports,     \* bound: reports a session carries
    MaxSealed,      \* bound: reports sealed over all sessions
    MaxFailures,    \* bound: writes that fail on an open channel
    MaxOpen,        \* how many clients may hold a channel at the same time
    MacStops,       \* bound: whether the Mac's process may stop or crash
    Pauses          \* bound: whether the hotkey is ever used

ASSUME ReadersAssumption == Readers \subseteq Types
ASSUME SeqModAssumption == SeqMod \in Nat \ {0, 1}
ASSUME MacBoundsAssumption ==
    /\ MaxReports \in Nat
    /\ MaxSealed \in Nat
    /\ MaxFailures \in Nat
    /\ MaxOpen \in Nat \ {0}
    /\ MacStops \in BOOLEAN
    /\ Pauses \in BOOLEAN

RunLoop == "runloop"
Main == "main"
Threads == Readers \cup {RunLoop, Main}
Senders == Readers \cup {RunLoop}

VARIABLES
    forwarding,     \* Daemon._forwarding
    encryptor,      \* Daemon._encryptor: the session it belongs to, or NoSession
    seqno,          \* Daemon._seqno
    channel,        \* RFCOMMServer._channel
    connected,      \* RFCOMMServer._connected
    sealed,         \* messages pushed by each encryptor: its cipher state
    accepting,      \* the argument of RFCOMMServer._on_client_connected
    pc,             \* where each thread is
    out,            \* the bytes a sender is about to write
    target,         \* the channel a thread took under RFCOMMServer._lock
    failures,       \* writes that failed on an open channel
    leaked          \* history: packets sealed since forwarding was last paused

daemonVars == <<forwarding, encryptor, seqno, sealed, leaked>>
serverVars == <<channel, connected, accepting>>
threadVars == <<pc, out, target>>
macVars == <<daemonVars, serverVars, threadVars, failures>>
vars == <<macVars, linkVars>>

NoItem == [ptype |-> "none", sess |-> 0, seqno |-> 0, idx |-> 0]

ReaderSteps == {"idle", "check", "seal", "fetch", "write"}
RunLoopSteps == {"publish", "idle", "announce", "session", "fetch", "write",
                 "drop", "end"}
MainSteps == {"up", "trackpad", "keyboard", "channel", "close", "connected", "exit",
              "down"}

MacTypeOK ==
    /\ LinkTypeOK
    /\ forwarding \in BOOLEAN
    /\ encryptor \in Sessions \cup {NoSession}
    /\ seqno \in 0 .. SeqMod - 1
    /\ channel \in Channels \cup {NoChannel}
    /\ connected \in BOOLEAN
    /\ sealed \in [Sessions -> Nat]
    /\ accepting \in Channels \cup {NoChannel}
    /\ pc[RunLoop] \in {"announce", "session"} => accepting \in Channels
    /\ pc \in [Threads -> ReaderSteps \cup RunLoopSteps \cup MainSteps]
    /\ \A r \in Readers : pc[r] \in ReaderSteps
    /\ pc[RunLoop] \in RunLoopSteps
    /\ pc[Main] \in MainSteps
    /\ out \in [Senders -> Item \cup {NoItem}]
    /\ target \in [Threads -> Channels \cup {NoChannel}]
    /\ \A t \in Senders :
          /\ pc[t] \in {"fetch", "write"} => out[t] \in Item
          /\ pc[t] = "write" => target[t] \in Channels
    /\ failures \in Nat
    /\ leaked \in Nat

-----------------------------------------------------------------------------
(* A fresh process: Daemon.__init__ and start().                           *)

FreshThreads ==
    [t \in Threads |-> IF t = Main THEN "up"
                       ELSE IF t = RunLoop THEN "publish" ELSE "idle"]

MacInit ==
    /\ forwarding = TRUE
    /\ encryptor = NoSession
    /\ seqno = 0
    /\ channel = NoChannel
    /\ connected = FALSE
    /\ accepting = NoChannel
    /\ sealed = [s \in Sessions |-> 0]
    /\ pc = FreshThreads
    /\ out = [t \in Senders |-> NoItem]
    /\ target = [t \in Threads |-> NoChannel]
    /\ failures = 0
    /\ leaked = 0

Running == pc[Main] # "down"

Goto(t, from, to) == pc[t] = from /\ pc' = [pc EXCEPT ![t] = to]

\* Mutant: the counter is not wrapped.
MutNextSeqno(n) == n + 1

next_seqno(n) == (n + 1) % SeqMod

-----------------------------------------------------------------------------
(* Capture threads: _on_keyboard_report / _on_pointer_event, _send_packet  *)

InFlight == {r \in Readers : pc[r] # "idle"}

\* keyboard.stop() and trackpad.stop() end the capture loops one by one; a
\* report already on its way is not called back (the joins time out).
StillReading(r) ==
    pc[Main] \in {"up", "trackpad"} \cup
                 IF r = TYPE_KEYBOARD THEN {"keyboard"} ELSE {}

Sealed == {m \in Sessions \X (0 .. MaxReports - 1) : m[2] < sealed[m[1]]}

\* The two bounds on reports: those of the session in progress, and of all.
WithinBounds ==
    /\ Cardinality(InFlight) < MaxReports
    /\ encryptor # NoSession => sealed[encryptor] + Cardinality(InFlight) < MaxReports
    /\ Cardinality(Sealed) + Cardinality(InFlight) < MaxSealed

\* Mutant: _forwarding is not looked at.
MutCapture(r) ==
    /\ StillReading(r)
    /\ WithinBounds
    /\ Goto(r, "idle", "check")
    /\ UNCHANGED <<daemonVars, serverVars, out, target, failures, linkVars>>

\* The handler reads _forwarding, without the lock.
Capture(r) ==
    /\ StillReading(r)
    /\ WithinBounds
    /\ forwarding
    /\ Goto(r, "idle", "check")
    /\ UNCHANGED <<daemonVars, serverVars, out, target, failures, linkVars>>

\* Then it reads is_connected, without a lock either.
CheckConnected(r) ==
    /\ Goto(r, "check", IF connected THEN "seal" ELSE "idle")
    /\ UNCHANGED <<daemonVars, serverVars, out, target, failures, linkVars>>

\* Mutant: the number is read after it was advanced.
MutSeal(r) ==
    /\ encryptor # NoSession
    /\ Goto(r, "seal", "fetch")
    /\ seqno' = next_seqno(seqno)
    /\ out' = [out EXCEPT ![r] = build_packet(r, seqno', encryptor, sealed[encryptor])]
    /\ sealed' = [sealed EXCEPT ![encryptor] = @ + 1]
    /\ leaked' = IF forwarding THEN leaked ELSE leaked + 1
    /\ UNCHANGED <<forwarding, encryptor, serverVars, target, failures, linkVars>>

\* The locked part of _send_packet, when a session exists: push the report
\* through the encryptor, take the sequence number, advance both.
Seal(r) ==
    /\ encryptor # NoSession
    /\ Goto(r, "seal", "fetch")
    /\ out' = [out EXCEPT ![r] = build_packet(r, seqno, encryptor, sealed[encryptor])]
    /\ sealed' = [sealed EXCEPT ![encryptor] = @ + 1]
    /\ seqno' = next_seqno(seqno)
    /\ leaked' = IF forwarding THEN leaked ELSE leaked + 1
    /\ UNCHANGED <<forwarding, encryptor, serverVars, target, failures, linkVars>>

\* The session ended since the check: the report is dropped.
SealDropped(r) ==
    /\ encryptor = NoSession
    /\ Goto(r, "seal", "idle")
    /\ UNCHANGED <<daemonVars, serverVars, out, target, failures, linkVars>>

-----------------------------------------------------------------------------
(* RFCOMMServer.send, called by the capture threads and by the run loop.   *)
(* Its result is ignored by every caller.                                  *)

SendDone(t, from) ==
    /\ Goto(t, from, "idle")
    /\ out' = [out EXCEPT ![t] = NoItem]
    /\ target' = [target EXCEPT ![t] = NoChannel]
    /\ UNCHANGED <<daemonVars, serverVars>>

\* Mutant: a sender that finds another one at the lock gives up.
MutSendFetch(t) ==
    /\ channel # NoChannel
    /\ \/ /\ Goto(t, "fetch", "write")
          /\ target' = [target EXCEPT ![t] = channel]
          /\ UNCHANGED <<daemonVars, serverVars, out>>
       \/ /\ \E u \in Senders \ {t} : pc[u] = "fetch"
          /\ SendDone(t, "fetch")
    /\ UNCHANGED <<failures, linkVars>>

\* The channel is read under RFCOMMServer._lock ...
SendFetch(t) ==
    /\ channel # NoChannel
    /\ Goto(t, "fetch", "write")
    /\ target' = [target EXCEPT ![t] = channel]
    /\ UNCHANGED <<daemonVars, serverVars, out, failures, linkVars>>

SendNoChannel(t) ==
    /\ channel = NoChannel
    /\ SendDone(t, "fetch")
    /\ UNCHANGED <<failures, linkVars>>

\* ... and written after the lock is released.
SendWrite(t) ==
    /\ pc[t] = "write"
    /\ Put(target[t], out[t])
    /\ SendDone(t, "write")
    /\ UNCHANGED failures

\* Mutant: an error after the bytes went out, and a retry.
MutSendFails(t) ==
    /\ failures < MaxFailures
    /\ failures' = failures + 1
    /\ Goto(t, "write", "fetch")
    /\ Put(target[t], out[t])
    /\ UNCHANGED <<daemonVars, serverVars, out, target>>

\* writeSync fails: the channel is gone, or a nonzero result or an exception.
SendFails(t) ==
    /\ pc[t] = "write"
    /\ \/ chan[target[t]] = "closed" /\ UNCHANGED failures
       \/ chan[target[t]] = "open" /\ failures < MaxFailures
                                   /\ failures' = failures + 1
    /\ SendDone(t, "write")
    /\ UNCHANGED linkVars

Send(t) == SendFetch(t) \/ SendNoChannel(t) \/ SendWrite(t) \/ SendFails(t)

-----------------------------------------------------------------------------
(* The run loop: _publish_service, then one delegate callback at a time.   *)

\* Publishing may fail: that is logged, and the loop runs on without a service.
PublishService ==
    /\ Goto(RunLoop, "publish", "idle")
    /\ service' \in BOOLEAN
    /\ UNCHANGED <<daemonVars, serverVars, out, target, failures, chan, wire, toMac>>

\* The next callback waiting for the run loop.
Callback(event, c) ==
    /\ pc[RunLoop] = "idle"
    /\ toMac # <<>>
    /\ Head(toMac) = [event |-> event, ch |-> c]

\* rfcommChannelOpenComplete with status 0, and _on_client_connected down to
\* the lock section that publishes the channel (the link passed the check).
ClientConnected(c) ==
    /\ Callback("opened", c)
    /\ Goto(RunLoop, "idle", "announce")
    /\ accepting' = c
    /\ channel' = c
    /\ toMac' = Tail(toMac)
    /\ UNCHANGED <<daemonVars, connected, out, target, failures, chan, wire, service>>

\* _enforce_link_encryption failed: the channel is closed, which the delegate
\* hears of like any other close.
ClientRejected(c) ==
    /\ Callback("opened", c)
    /\ chan' = [chan EXCEPT ![c] = "closed"]
    /\ toMac' = IF chan[c] = "open"
                THEN Append(Tail(toMac), [event |-> "closed", ch |-> c])
                ELSE Tail(toMac)
    /\ UNCHANGED <<macVars, wire, service>>

\* _connected.set()
Announce ==
    /\ Goto(RunLoop, "announce", "session")
    /\ connected' = TRUE
    /\ UNCHANGED <<daemonVars, channel, accepting, out, target, failures, linkVars>>

\* The locked part of Daemon._on_client_connected.  The header is sent after
\* the lock is released, by the steps of Send(RunLoop).
NewSession ==
    /\ Goto(RunLoop, "session", "fetch")
    /\ encryptor' = accepting
    /\ sealed' = [sealed EXCEPT ![accepting] = 0]
    /\ seqno' = 0
    /\ out' = [out EXCEPT ![RunLoop] = header(accepting)]
    /\ accepting' = NoChannel
    /\ UNCHANGED <<forwarding, leaked, channel, connected, target, failures,
                   linkVars>>

\* rfcommChannelClosed: whichever channel it was, _connected is cleared, ...
ChannelClosed(c) ==
    /\ Callback("closed", c)
    /\ Goto(RunLoop, "idle", "drop")
    /\ connected' = FALSE
    /\ toMac' = Tail(toMac)
    /\ UNCHANGED <<daemonVars, channel, accepting, out, target, failures, chan, wire, service>>

\* Mutant: the closed channel is kept.
MutDropChannel ==
    /\ Goto(RunLoop, "drop", "end")
    /\ UNCHANGED <<daemonVars, serverVars, out, target, failures, linkVars>>

\* ... then the channel is forgotten under RFCOMMServer._lock, ...
DropChannel ==
    /\ Goto(RunLoop, "drop", "end")
    /\ channel' = NoChannel
    /\ UNCHANGED <<daemonVars, connected, accepting, out, target, failures, linkVars>>

\* ... then the session ends under Daemon._lock.
EndSession ==
    /\ Goto(RunLoop, "end", "idle")
    /\ encryptor' = NoSession
    /\ seqno' = 0
    /\ UNCHANGED <<forwarding, sealed, leaked, serverVars, out, target, failures,
                   linkVars>>

RunLoopStep ==
    \/ PublishService \/ Announce \/ NewSession \/ DropChannel \/ EndSession
    \/ \E c \in Channels : ClientConnected(c) \/ ClientRejected(c) \/ ChannelClosed(c)
    \/ Send(RunLoop)

ReaderStep(r) ==
    Capture(r) \/ CheckConnected(r) \/ Seal(r) \/ SealDropped(r) \/ Send(r)

-----------------------------------------------------------------------------
(* Hotkey thread and main thread.                                          *)

\* toggle_forwarding, under Daemon._lock; not after stop() has begun.
Toggle ==
    /\ Pauses
    /\ pc[Main] = "up"
    /\ forwarding' = ~forwarding
    /\ leaked' = 0
    /\ UNCHANGED <<encryptor, seqno, sealed, serverVars, threadVars, failures,
                   linkVars>>

\* Daemon.stop() up to RFCOMMServer.stop(): the hotkey, the trackpad, the
\* keyboard.  Each stop() waits a bounded time for its thread.
StopCapture ==
    /\ \/ MacStops /\ Goto(Main, "up", "trackpad")
       \/ Goto(Main, "trackpad", "keyboard")
       \/ Goto(Main, "keyboard", "channel")
    /\ UNCHANGED <<daemonVars, serverVars, out, target, failures, linkVars>>

\* _close_channel: take the channel under the lock, ...
TakeChannel ==
    /\ Goto(Main, "channel", "close")
    /\ target' = [target EXCEPT ![Main] = channel]
    /\ channel' = NoChannel
    /\ UNCHANGED <<daemonVars, connected, accepting, out, failures, linkVars>>

\* ... close it when there was one, and swallow what closeChannel raises, ...
CloseChannel ==
    /\ Goto(Main, "close", "connected")
    /\ \/ target[Main] \in OpenChannels /\ Drop(target[Main])
       \/ UNCHANGED linkVars
    /\ target' = [target EXCEPT ![Main] = NoChannel]
    /\ UNCHANGED <<daemonVars, serverVars, out, failures>>

\* ... and clear _connected.
ClearConnected ==
    /\ Goto(Main, "connected", "exit")
    /\ connected' = FALSE
    /\ UNCHANGED <<daemonVars, channel, accepting, out, target, failures, linkVars>>

\* The process ends: after stop(), or at any moment by a crash.  Its channels
\* close, its service record goes, and everything in memory is lost.
ProcessEnds ==
    /\ MacStops
    /\ Running
    /\ pc' = [t \in Threads |-> IF t = Main THEN "down" ELSE "idle"]
    /\ forwarding' = TRUE
    /\ encryptor' = NoSession
    /\ seqno' = 0
    /\ channel' = NoChannel
    /\ connected' = FALSE
    /\ accepting' = NoChannel
    /\ out' = [t \in Senders |-> NoItem]
    /\ target' = [t \in Threads |-> NoChannel]
    /\ leaked' = 0
    /\ HostGone
    /\ UNCHANGED <<sealed, failures>>

\* launchd's KeepAlive starts a new one.
Launch ==
    /\ pc[Main] = "down"
    /\ pc' = FreshThreads
    /\ UNCHANGED <<daemonVars, serverVars, out, target, failures, linkVars>>

MainStep ==
    \/ StopCapture \/ TakeChannel \/ CloseChannel \/ ClearConnected
    \/ ProcessEnds \/ Launch

MacNext ==
    \/ RunLoopStep
    \/ \E r \in Readers : ReaderStep(r)
    \/ Toggle
    \/ MainStep

-----------------------------------------------------------------------------
(* The Mac against any clients: they open and close channels as they like, *)
(* at most MaxOpen at a time, and the radio may drop one.                  *)

Clients ==
    /\ \E c \in Channels : \/ Cardinality(OpenChannels) < MaxOpen /\ Open(c)
                           \/ Drop(c)
    /\ UNCHANGED macVars

Init == LinkInit /\ MacInit

Next == MacNext \/ Clients

Spec == Init /\ [][Next]_vars

\* What module KeyBridge assumes scheduled of the main thread: a stop() that
\* began ends, and launchd relaunches.
StopGoesOn == pc[Main] # "up" /\ MainStep

-----------------------------------------------------------------------------
(* Properties.                                                             *)

Stream(c) == {wire[c][k] : k \in DOMAIN wire[c]}
Packets(c) == {item \in Stream(c) : IsPacket(item)}

(***************************************************************************)
(* A packet's clear sequence number is the position of its ciphertext in   *)
(* the cipher stream: the lock section of _send_packet, and the two resets *)
(* of a session's life, never let the pair drift apart, whatever callbacks *)
(* fall between a report's check and its encryption.                       *)
(***************************************************************************)
Aligned(item) == item.seqno = item.idx % SeqMod

SeqnoMatchesStream ==
    /\ encryptor # NoSession => seqno = sealed[encryptor] % SeqMod
    /\ \A c \in Channels : \A item \in Packets(c) : Aligned(item)
    /\ \A t \in Senders : IsPacket(out[t]) => Aligned(out[t])

(***************************************************************************)
(* A message of a cipher stream, and a stream header, is written at most   *)
(* once, over all channels: a second copy could never be opened, and would *)
(* be replayed input if it were.                                           *)
(***************************************************************************)
AtMostOnce ==
    \A c, d \in Channels : \A i \in DOMAIN wire[c], j \in DOMAIN wire[d] :
        /\ wire[c][i].sess = wire[d][j].sess
        /\ wire[c][i].idx = wire[d][j].idx
        /\ IsPacket(wire[c][i]) <=> IsPacket(wire[d][j])
        => c = d /\ i = j

(***************************************************************************)
(* Reports of one device keep their order: two keyboard reports of a       *)
(* session, or two pointer events, are on the channel in the order they    *)
(* were captured (a release never overtakes its press).                    *)
(***************************************************************************)
DeviceOrder ==
    \A c \in Channels : \A i, j \in DOMAIN wire[c] :
        /\ i < j
        /\ IsPacket(wire[c][i])
        /\ wire[c][i].ptype = wire[c][j].ptype
        /\ wire[c][i].sess = wire[c][j].sess
        => wire[c][i].idx < wire[c][j].idx

(***************************************************************************)
(* When the run loop has nothing left to do and stop() has not reached the *)
(* server, the three flags the senders read agree with each other and with *)
(* the link: a client that holds a channel is the one being served, with   *)
(* its own encryptor, and without a client nothing is left behind.         *)
(***************************************************************************)
Settled ==
    /\ pc[RunLoop] = "idle"
    /\ toMac = <<>>
    /\ pc[Main] \in {"up", "trackpad", "keyboard"}

Served(c) == connected /\ channel = c /\ encryptor = c

NoLeftovers == ~connected /\ channel = NoChannel /\ encryptor = NoSession

Coherent ==
    Settled => IF OpenChannels = {} THEN NoLeftovers
               ELSE \A c \in OpenChannels : Served(c)

(***************************************************************************)
(* A pause takes effect without a lock: what it may still let through is   *)
(* the report each capture thread had already checked, one per device.     *)
(***************************************************************************)
PauseIsBounded == leaked <= Cardinality(Readers)

(***************************************************************************)
(* Until stop() takes the channel, a channel that is still open has on it, *)
(* or about to be written, the stream header of the session it serves and  *)
(* every report that session sealed, but for the writes that failed: no    *)
(* interleaving of callbacks, capture threads and the hotkey loses one.    *)
(* (Once _channel is None a sender drops what it sealed, while the channel *)
(* may be open for good: a closeChannel that raises is swallowed.)         *)
(***************************************************************************)
Unwritten(c) ==
    {i \in 0 .. sealed[c] - 1 :
        /\ \A item \in Packets(c) : ~(item.sess = c /\ item.idx = i)
        /\ \A r \in Readers : ~(IsPacket(out[r]) /\ out[r].sess = c /\ out[r].idx = i)}

HeaderLost(c) ==
    /\ encryptor = c
    /\ header(c) \notin Stream(c) \cup {out[RunLoop]}

BeforeClose == pc[Main] \in {"up", "trackpad", "keyboard", "channel"}

NothingLostOnALiveChannel ==
    BeforeClose => \A c \in OpenChannels :
        Cardinality(Unwritten(c)) + (IF HeaderLost(c) THEN 1 ELSE 0) <= failures

(***************************************************************************)
(* Every client that connects gets a stream header on its channel, unless  *)
(* the channel closes first (checked where the threads are scheduled, in   *)
(* module KeyBridge, and while no write fails).                            *)
(***************************************************************************)
HeaderIsSent ==
    \A c \in Channels : chan[c] = "open" ~> (header(c) \in Stream(c) \/ chan[c] = "closed")

-----------------------------------------------------------------------------
(* What the documents say and the threads do not keep (README, findings).  *)

(***************************************************************************)
(* docs/TASKS.md, Task 3: the stream header is sent once per connection    *)
(* before any data.                                                        *)
(***************************************************************************)
HeaderFirst ==
    \A c \in Channels : wire[c] # <<>> => ~IsPacket(Head(wire[c]))

(***************************************************************************)
(* docs/ARCHITECTURE.md, 2: seqno is monotonically increasing per session, *)
(* that is, on the stream the receiver reads.                              *)
(***************************************************************************)
SeqnoIncreasesOnTheWire ==
    \A c \in Channels : \A i, j \in DOMAIN wire[c] :
        /\ i < j
        /\ IsPacket(wire[c][i]) /\ IsPacket(wire[c][j])
        /\ wire[c][i].sess = wire[c][j].sess
        => wire[c][i].seqno < wire[c][j].seqno
=============================================================================
