----------------------------- MODULE WinReceiver -----------------------------
(***************************************************************************)
(* The Windows side: RFCOMMClient (bt_client.py) and Daemon (win-receiver  *)
(* main.py) with the PacketReader, the StreamDecryptor and the             *)
(* RateLimiter it drives.                                                  *)
(*                                                                         *)
(*   client thread   opens the port, reads it, feeds the pipeline, cleans  *)
(*                   up, backs off and starts again                        *)
(*   main thread     stop(), process exit and the next start               *)
(*                                                                         *)
(* What an injected report does to the desktop is module Injector.         *)
(*                                                                         *)
(* The unit read is the unit written (module Link): how PacketReader and   *)
(* the header buffer reassemble units from chunks of bytes is not modelled *)
(* here.  A unit that arrives where another was expected leaves the reader *)
(* off the frame boundaries for the rest of the connection.                *)
(***************************************************************************)
EXTENDS Link

CONSTANTS
    MaxKeyEvents,   \* RateLimiter._max_events
    MaxIdx,         \* bound: messages a sender seals for a session
    WinStops        \* bound: whether the receiver may be stopped

ASSUME WinAssumption ==
    MaxKeyEvents \in Nat \ {0} /\ MaxIdx \in Nat /\ WinStops \in BOOLEAN

VARIABLES
    running,        \* RFCOMMClient._running
    port,           \* RFCOMMClient._serial while it is open: its channel
    serial,         \* RFCOMMClient._serial, open or closed: its channel
    linked,         \* RFCOMMClient._connected
    clientpc,       \* where the client thread is
    mainpc,         \* where the main thread is
    awaitingHeader, \* Daemon._awaiting_header
    decryptor,      \* Daemon._decryptor: a session and the message it expects
    lastSeqno,      \* PacketReader._last_seqno
    recent,         \* RateLimiter._timestamps: how many it holds
    opened          \* history: the messages of each session, as they were decrypted

pipelineVars == <<awaitingHeader, decryptor, lastSeqno, recent>>
clientVars == <<running, port, serial, linked, clientpc, mainpc>>
winVars == <<clientVars, pipelineVars, opened>>
rvars == <<winVars, linkVars>>

NoDecryptor == [sess |-> NoSession, next |-> -1]

(***************************************************************************)
(* The pipeline once it has lost the frame boundaries: a pull state or a   *)
(* frame built from the wrong bytes.  Nothing decrypts any more, and the   *)
(* sequence numbers it reads are ciphertext, so they are not tracked.      *)
(***************************************************************************)
Garbled == [sess |-> NoSession, next |-> 0]

WinTypeOK ==
    /\ LinkTypeOK
    /\ running \in BOOLEAN
    /\ port \in Channels \cup {NoChannel}
    /\ serial \in Channels \cup {NoChannel}
    /\ linked \in BOOLEAN
    /\ clientpc \in {"connect", "greet", "loop", "read", "deliver", "cleanup",
                     "release", "reset", "backoff", "gone"}
    /\ mainpc \in {"up", "stop", "close", "join", "down"}
    /\ awaitingHeader \in BOOLEAN
    /\ decryptor \in [sess : Sessions, next : Nat] \cup {NoDecryptor, Garbled}
    /\ lastSeqno \in Nat \cup {-1}
    /\ recent \in 0 .. MaxKeyEvents
    /\ opened \in [Sessions -> Seq(Nat)]

WinInit ==
    /\ running = TRUE
    /\ port = NoChannel
    /\ serial = NoChannel
    /\ linked = FALSE
    /\ clientpc = "connect"
    /\ mainpc = "up"
    /\ awaitingHeader = TRUE
    /\ decryptor = NoDecryptor
    /\ lastSeqno = -1
    /\ recent = 0
    /\ opened = [s \in Sessions |-> <<>>]

ClientGoto(from, to) == clientpc = from /\ clientpc' = to

-----------------------------------------------------------------------------
(* Daemon._on_raw_data and _process_data, under Daemon._lock.              *)

\* Mutant: the session survives the connection.
MutResetPipeline ==
    /\ lastSeqno' = -1
    /\ recent' = 0
    /\ UNCHANGED <<awaitingHeader, decryptor>>

\* The reset both on_connected and on_disconnected make under the lock.
ResetPipeline ==
    /\ awaitingHeader' = TRUE
    /\ decryptor' = NoDecryptor
    /\ lastSeqno' = -1
    /\ recent' = 0

\* The first 24 bytes of a connection become the stream header, whatever
\* they are; what follows them goes to the packet reader.
TakeHeader(item) ==
    /\ awaitingHeader
    /\ awaitingHeader' = FALSE
    /\ decryptor' = IF IsPacket(item) THEN Garbled ELSE [sess |-> item.sess, next |-> 0]
    /\ UNCHANGED <<lastSeqno, recent, opened>>

\* PacketReader.feed off the frame boundaries, or driven off them by a header.
Misframed(item) ==
    /\ ~awaitingHeader
    /\ decryptor = Garbled \/ ~IsPacket(item)
    /\ decryptor' = Garbled
    /\ UNCHANGED <<awaitingHeader, lastSeqno, recent, opened>>

Framed(item) == ~awaitingHeader /\ decryptor # Garbled /\ IsPacket(item)

\* Mutant: the last number again is let through.
MutValidateSeqno(item) == item.seqno >= lastSeqno

validate_seqno(item) == item.seqno > lastSeqno

\* Mutant: messages authenticated one by one, not as a stream.
MutDecrypt(item) == TRUE

\* crypto_secretstream pull: only the next message of the same stream opens,
\* and a failure leaves the state as it was.
decrypt(item) == item.sess = decryptor.sess /\ item.idx = decryptor.next

\* Not newer than the last number seen: skipped.
RejectSeqno(item) ==
    /\ Framed(item)
    /\ ~validate_seqno(item)
    /\ UNCHANGED <<pipelineVars, opened>>

\* The number is remembered before the ciphertext is authenticated.
RejectCiphertext(item) ==
    /\ Framed(item)
    /\ validate_seqno(item)
    /\ ~decrypt(item)
    /\ lastSeqno' = item.seqno
    /\ UNCHANGED <<awaitingHeader, decryptor, recent, opened>>

\* Mutant: only failures are remembered.
MutDecrypted(item) ==
    /\ Framed(item)
    /\ validate_seqno(item)
    /\ decrypt(item)
    /\ decryptor' = [decryptor EXCEPT !.next = @ + 1]
    /\ opened' = [opened EXCEPT ![item.sess] = Append(@, item.idx)]
    /\ UNCHANGED <<awaitingHeader, lastSeqno>>

Decrypted(item) ==
    /\ Framed(item)
    /\ validate_seqno(item)
    /\ decrypt(item)
    /\ lastSeqno' = item.seqno
    /\ decryptor' = [decryptor EXCEPT !.next = @ + 1]
    /\ opened' = [opened EXCEPT ![item.sess] = Append(@, item.idx)]
    /\ UNCHANGED awaitingHeader

\* RateLimiter.allow keeps the timestamps still in the window, and rejects
\* the report when they fill it.
RateLimited(item) ==
    /\ item.ptype = TYPE_KEYBOARD
    /\ recent = MaxKeyEvents
    /\ Decrypted(item)
    /\ UNCHANGED recent

\* Mutant: one report more than the window takes.
MutInjectKeyboard(item) ==
    /\ item.ptype = TYPE_KEYBOARD
    /\ \E kept \in 0 .. recent : recent' = kept + 1
    /\ Decrypted(item)

InjectKeyboard(item) ==
    /\ item.ptype = TYPE_KEYBOARD
    /\ \E kept \in 0 .. recent : kept < MaxKeyEvents /\ recent' = kept + 1
    /\ Decrypted(item)

InjectPointer(item) ==
    /\ item.ptype = TYPE_POINTER
    /\ Decrypted(item)
    /\ UNCHANGED recent

on_raw_data(item) ==
    \/ TakeHeader(item) \/ Misframed(item)
    \/ RejectSeqno(item) \/ RejectCiphertext(item)
    \/ RateLimited(item) \/ InjectKeyboard(item) \/ InjectPointer(item)

-----------------------------------------------------------------------------
(* RFCOMMClient._connect_loop and _read_loop                               *)

\* serial.Serial(port) succeeds: a new channel, _connected set, backoff reset.
OpenPort(c) ==
    /\ ClientGoto("connect", "greet")
    /\ Open(c)
    /\ port' = c
    /\ serial' = c
    /\ linked' = TRUE
    /\ UNCHANGED <<running, mainpc, pipelineVars, opened>>

\* SerialException: the finally clause cleans up as after any connection.
OpenFails ==
    /\ ClientGoto("connect", "cleanup")
    /\ UNCHANGED <<running, port, serial, linked, mainpc, pipelineVars, opened, linkVars>>

\* _detect_bt_port found nothing: straight to the sleep.
NoPortFound ==
    /\ ClientGoto("connect", "backoff")
    /\ UNCHANGED <<running, port, serial, linked, mainpc, pipelineVars, opened, linkVars>>

\* Daemon._on_connected
Greet ==
    /\ ClientGoto("greet", "loop")
    /\ ResetPipeline
    /\ UNCHANGED <<running, port, serial, linked, mainpc, opened, linkVars>>

\* The condition of the read loop: still running, the port still open here.
LoopTest ==
    /\ ClientGoto("loop", IF running /\ port # NoChannel THEN "read" ELSE "cleanup")
    /\ UNCHANGED <<running, port, serial, linked, mainpc, pipelineVars, opened, linkVars>>

\* serial.read returned some of what the channel holds, ...
ReadChunk ==
    /\ port # NoChannel
    /\ ClientGoto("read", "deliver")
    /\ UNCHANGED <<running, port, serial, linked, mainpc, pipelineVars, opened>>

\* ... and the callback works through its units.  The port is not looked at:
\* stop() may have closed it since.
Deliver(item, last) ==
    /\ ClientGoto("deliver", IF last THEN "loop" ELSE "deliver")
    /\ on_raw_data(item)
    /\ UNCHANGED <<running, port, serial, linked, mainpc>>

\* serial.read timed out with nothing.
ReadNothing ==
    /\ ClientGoto("read", "loop")
    /\ UNCHANGED <<running, port, serial, linked, mainpc, pipelineVars, opened, linkVars>>

\* Mutant: a read error is swallowed.
MutReadFails ==
    /\ port = NoChannel \/ port \notin OpenChannels
    /\ ClientGoto("read", "loop")
    /\ UNCHANGED <<running, port, serial, linked, mainpc, pipelineVars, opened, linkVars>>

\* serial.read raised: the link is gone, or stop() closed the port.
ReadFails ==
    /\ port = NoChannel \/ port \notin OpenChannels
    /\ ClientGoto("read", "cleanup")
    /\ UNCHANGED <<running, port, serial, linked, mainpc, pipelineVars, opened, linkVars>>

ClosePort ==
    /\ IF port \in OpenChannels THEN Drop(port) ELSE UNCHANGED linkVars
    /\ port' = NoChannel
    /\ linked' = FALSE

\* finally: clear _connected, close the port ...
Cleanup ==
    /\ ClientGoto("cleanup", "release")
    /\ ClosePort
    /\ UNCHANGED <<running, serial, mainpc, pipelineVars, opened>>

\* ... Daemon._on_disconnected: release_all on both injectors, without the
\* lock (module Injector), ...
ReleaseAll ==
    /\ ClientGoto("release", "reset")
    /\ UNCHANGED <<running, port, serial, linked, mainpc, pipelineVars, opened, linkVars>>

\* ... then the pipeline is reset under it.
ResetAfterDisconnect ==
    /\ ClientGoto("reset", IF running THEN "backoff" ELSE "gone")
    /\ ResetPipeline
    /\ UNCHANGED <<running, port, serial, linked, mainpc, opened, linkVars>>

\* time.sleep(backoff) is over; the loop tests _running again.
BackoffOver ==
    /\ ClientGoto("backoff", IF running THEN "connect" ELSE "gone")
    /\ UNCHANGED <<running, port, serial, linked, mainpc, pipelineVars, opened, linkVars>>

ClientStep ==
    \/ \E c \in Channels : OpenPort(c)
    \/ OpenFails \/ NoPortFound \/ Greet \/ LoopTest \/ ReadNothing \/ ReadFails
    \/ Cleanup \/ ReleaseAll \/ ResetAfterDisconnect \/ BackoffOver

-----------------------------------------------------------------------------
(* Daemon.stop() on the main thread, process exit, and the next start.     *)

MainGoto(from, to) == mainpc = from /\ mainpc' = to

\* release_all on both injectors, while the client thread may be injecting
\* (module Injector).
StopRelease ==
    /\ WinStops
    /\ MainGoto("up", "stop")
    /\ UNCHANGED <<running, port, serial, linked, clientpc, pipelineVars, opened, linkVars>>

\* Mutant: the loop is not told.
MutStopRunning ==
    /\ MainGoto("stop", "close")
    /\ UNCHANGED <<running, port, serial, linked, clientpc, pipelineVars, opened, linkVars>>

StopRunning ==
    /\ MainGoto("stop", "close")
    /\ running' = FALSE
    /\ UNCHANGED <<port, serial, linked, clientpc, pipelineVars, opened, linkVars>>

StopClose ==
    /\ MainGoto("close", "join")
    /\ ClosePort
    /\ UNCHANGED <<running, serial, clientpc, pipelineVars, opened>>

\* The join ends with the client thread, and the process exits.
Exit ==
    /\ MainGoto("join", "down")
    /\ clientpc = "gone"
    /\ UNCHANGED <<running, port, serial, linked, clientpc, pipelineVars, opened, linkVars>>

\* The process ends with the client thread wherever it is: the join gave up
\* after its 5 s, or the process was killed.  Windows closes its port.
ProcessGone ==
    /\ WinStops
    /\ mainpc # "down"
    /\ mainpc' = "down"
    /\ clientpc' = "gone"
    /\ ClosePort
    /\ UNCHANGED <<running, serial, pipelineVars, opened>>

\* A new process.
Start ==
    /\ MainGoto("down", "up")
    /\ running' = TRUE
    /\ clientpc' = "connect"
    /\ serial' = NoChannel
    /\ ResetPipeline
    /\ UNCHANGED <<port, linked, opened, linkVars>>

WinMainStep == StopRelease \/ StopRunning \/ StopClose \/ Exit \/ ProcessGone \/ Start

WinNext == ClientStep \/ WinMainStep

-----------------------------------------------------------------------------
(* The receiver against any sender.  The sender's stream header on a       *)
(* connection is that connection's own, and a packet's number is its place *)
(* in its cipher stream (MacSender shows both); otherwise units come in    *)
(* any order, repeated, missing, or from the session of another connection.*)

Sent ==
    {header(c) : c \in {serial} \ {NoChannel}} \cup
    {build_packet(t, i, s, i) : t \in Types, s \in Sessions, i \in 0 .. MaxIdx - 1}

MacProcess ==
    /\ \/ service' = TRUE /\ UNCHANGED <<chan, wire, toMac>>
       \/ HostGone
       \/ \E c \in Channels : Drop(c)
    /\ UNCHANGED winVars

AnySender ==
    /\ ReadChunk \/ \E item \in Sent, last \in BOOLEAN : Deliver(item, last)
    /\ UNCHANGED linkVars

WinInitial == LinkInit /\ WinInit

WinSpec == WinInitial /\ [][WinNext \/ AnySender \/ MacProcess]_rvars

\* The client thread is scheduled, its calls return, a chunk has an end, and a
\* stop() that began goes on; that its join gives up is not counted on.  A read
\* that finds the link gone is not put off for ever by reads that succeed.
StopProceeds == StopRunning \/ StopClose \/ Exit

WinFairness ==
    /\ WF_rvars(ClientStep \/ \E item \in Sent : Deliver(item, TRUE) /\ UNCHANGED linkVars)
    /\ SF_rvars(ReadFails)
    /\ WF_rvars(StopProceeds)

WinFairSpec == WinSpec /\ WinFairness

-----------------------------------------------------------------------------
(* Properties.                                                             *)

(***************************************************************************)
(* The pull state stands exactly after the messages of its session opened  *)
(* so far, and the last number accepted is never behind it: nothing of a   *)
(* session is opened twice, even when the sender repeats itself.           *)
(***************************************************************************)
StreamInStep ==
    decryptor.sess # NoSession =>
        /\ decryptor.next = Len(opened[decryptor.sess])
        /\ decryptor.next <= lastSeqno + 1

(***************************************************************************)
(* What is opened, and so injected, belongs to the connection it was read  *)
(* on, though stop() may have closed its port by then: no report sealed    *)
(* for an earlier connection is typed in a later one.                      *)
(***************************************************************************)
OpensOwnSession ==
    [][opened' # opened =>
         /\ serial # NoChannel
         /\ opened' = [opened EXCEPT ![serial] = Append(@, Len(@))]]_rvars

(***************************************************************************)
(* A number accepted ahead of the cipher stream ends the session: since    *)
(* numbers are checked, and remembered, before authentication, nothing     *)
(* opens any more until the client reconnects.                             *)
(***************************************************************************)
Ahead == decryptor.sess # NoSession /\ lastSeqno >= decryptor.next

GapEndsSession ==
    [][Ahead /\ opened' # opened => FALSE]_rvars

(***************************************************************************)
(* A lost link is noticed: the port is closed and, unless the program is   *)
(* being stopped, the client tries to connect again.                       *)
(***************************************************************************)
RetriesAfterLoss ==
    \A c \in Channels :
        (port = c /\ chan[c] = "closed") ~>
            (port = NoChannel /\ (clientpc = "connect" \/ ~running \/ mainpc # "up"))

(***************************************************************************)
(* stop() always ends with the process gone, through the client thread's   *)
(* own clean-up: it does not depend on the join's timeout.                 *)
(***************************************************************************)
StopEnds == mainpc = "stop" ~> mainpc = "down"
=============================================================================
