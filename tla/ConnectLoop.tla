---------------------------- MODULE ConnectLoop -----------------------------
(***************************************************************************)
(* RFCOMMClient._connect_loop (bt_client.py): which serial port the        *)
(* receiver opens, how long it waits before it tries again, and the bytes  *)
(* it reads on the one that reaches the Mac (module Framing).              *)
(*                                                                         *)
(* stop() and the threads are in WinReceiver.                              *)
(***************************************************************************)
EXTENDS Framing

CONSTANTS
    MAX_BACKOFF,    \* 30
    Listing,        \* the Bluetooth ports there may be, as comports() orders them
    Direction,      \* of each: "outgoing", "other" or "incoming"
    MacPort,        \* the one that reaches the Mac
    Silent,         \* ports that open and never carry anything
    Pinned,         \* com_port of the configuration, or NoPort
    MaxTries        \* bound: where the history stops counting

Ports == {Listing[i] : i \in DOMAIN Listing}
NoPort == "none"

ASSUME LoopAssumption ==
    /\ MAX_BACKOFF \in Nat \ {0}
    /\ Direction \in [Ports -> {"outgoing", "other", "incoming"}]
    /\ MacPort \in Ports
    /\ Silent \subseteq Ports \ {MacPort}
    /\ NoPort \notin Ports
    /\ Pinned \in Ports \cup {NoPort}
    /\ MaxTries \in Nat

VARIABLES
    present,    \* the ports there are
    serving,    \* the Mac publishes its service
    looppc,     \* where _connect_loop is: "wait" is the sleep without a port
    port,       \* the port that is open
    backoff,
    tries,      \* history: attempts since a port was last open
    slept       \* history: seconds slept since then

loopVars == <<present, serving, looppc, port, backoff, tries, slept>>
vars == <<loopVars, framingVars>>

LoopTypeOK ==
    /\ FramingTypeOK
    /\ present \subseteq Ports
    /\ serving \in BOOLEAN
    /\ looppc \in {"try", "wait", "read", "sleep"}
    /\ port \in Ports \cup {NoPort}
    /\ backoff \in 1 .. MAX_BACKOFF
    /\ tries \in Nat
    /\ slept \in Nat

Init ==
    /\ FramingInit
    /\ present = {}
    /\ serving = FALSE
    /\ looppc = "try"
    /\ port = NoPort
    /\ backoff = 1
    /\ tries = 0
    /\ slept = 0

-----------------------------------------------------------------------------
(* The world.                                                              *)

PortAppears(p) ==
    /\ p \notin present
    /\ present' = present \cup {p}
    /\ UNCHANGED <<serving, looppc, port, backoff, tries, slept, framingVars>>

PortGoes(p) ==
    /\ p \in present
    /\ present' = present \ {p}
    /\ UNCHANGED <<serving, looppc, port, backoff, tries, slept, framingVars>>

MacStarts ==
    /\ ~serving
    /\ serving' = TRUE
    /\ UNCHANGED <<present, looppc, port, backoff, tries, slept, framingVars>>

MacStops ==
    /\ serving
    /\ serving' = FALSE
    /\ UNCHANGED <<present, looppc, port, backoff, tries, slept, framingVars>>

-----------------------------------------------------------------------------
(* The loop.                                                               *)

Rank(p) == CASE Direction[p] = "outgoing" -> 1
             [] Direction[p] = "other" -> 2
             [] Direction[p] = "incoming" -> 3

\* Mutant: the first port, whatever its direction.
MutDetect ==
    IF present = {} THEN NoPort
    ELSE CHOOSE p \in present : \E i \in DOMAIN Listing :
            Listing[i] = p /\ \A j \in 1 .. i - 1 : Listing[j] \notin present

\* The first port of the best direction.
detect_bt_port ==
    IF present = {} THEN NoPort
    ELSE LET best == {p \in present : \A q \in present : Rank(p) <= Rank(q)}
         IN  CHOOSE p \in best : \E i \in DOMAIN Listing :
                 Listing[i] = p /\ \A j \in 1 .. i - 1 : Listing[j] \notin best

Choice == IF Pinned # NoPort THEN Pinned ELSE detect_bt_port

Opens(p) == p \in present /\ (p \in Silent \/ (p = MacPort /\ serving))

Least(a, b) == IF a < b THEN a ELSE b

Counted == tries' = Least(tries + 1, MaxTries)

\* serial.Serial opens the port, and _on_connected prepares the reader.
OpenPort ==
    /\ looppc = "try"
    /\ Opens(Choice)
    /\ looppc' = "read"
    /\ port' = Choice
    /\ backoff' = 1
    /\ tries' = 0
    /\ slept' = 0
    /\ session' = 1 - session
    /\ NewStream
    /\ ResetReader
    /\ UNCHANGED <<present, serving>>

\* There is no port to open, ...
NoPortFound ==
    /\ looppc = "try"
    /\ Choice = NoPort
    /\ looppc' = "wait"
    /\ Counted
    /\ UNCHANGED <<present, serving, port, backoff, slept, framingVars>>

\* ... or it does not open, even one that might; the finally clause runs
\* _on_disconnected, on a reader that is reset already.
OpenFails ==
    /\ looppc = "try"
    /\ Choice # NoPort
    /\ looppc' = "sleep"
    /\ Counted
    /\ UNCHANGED <<present, serving, port, backoff, slept, framingVars>>

\* Bytes are written and read on the Mac's port.
Stream ==
    /\ port = MacPort
    /\ (serving /\ Write) \/ Step
    /\ UNCHANGED loopVars

\* serial.read raises, what is left in the stream is lost: _on_disconnected.
\* On a port that stays silent it does not, while the port is there.
LinkLost ==
    /\ looppc = "read"
    /\ ~feeding
    /\ port = MacPort \/ port \notin present
    /\ looppc' = "sleep"
    /\ port' = NoPort
    /\ NewStream
    /\ ResetReader
    /\ Counted
    /\ UNCHANGED <<present, serving, backoff, slept, session>>

CountSleep == slept' = IF tries < MaxTries THEN slept + backoff ELSE slept

\* Mutant: the pause without a port stays as it was.
MutSleepNoPort ==
    /\ looppc = "wait"
    /\ looppc' = "try"
    /\ CountSleep
    /\ UNCHANGED <<present, serving, port, backoff, tries, framingVars>>

\* time.sleep(backoff), its doubling and continue, ...
SleepNoPort ==
    /\ looppc = "wait"
    /\ looppc' = "try"
    /\ CountSleep
    /\ backoff' = Least(2 * backoff, MAX_BACKOFF)
    /\ UNCHANGED <<present, serving, port, tries, framingVars>>

\* Mutant: no cap.
MutSleepUncapped ==
    /\ looppc = "sleep"
    /\ looppc' = "try"
    /\ CountSleep
    /\ backoff' = 2 * backoff
    /\ UNCHANGED <<present, serving, port, tries, framingVars>>

\* ... and the same again where a connection ended, or failed.
Sleep ==
    /\ looppc = "sleep"
    /\ looppc' = "try"
    /\ CountSleep
    /\ backoff' = Least(2 * backoff, MAX_BACKOFF)
    /\ UNCHANGED <<present, serving, port, tries, framingVars>>

Next ==
    \/ \E p \in Ports : PortAppears(p) \/ PortGoes(p)
    \/ MacStarts \/ MacStops
    \/ OpenPort \/ NoPortFound \/ OpenFails \/ Stream \/ LinkLost
    \/ SleepNoPort \/ Sleep

\* _on_raw_data works through what serial.read returned.
ReaderTurn == port = MacPort /\ Step /\ UNCHANGED loopVars

LoopTurn == NoPortFound \/ OpenFails \/ SleepNoPort \/ Sleep \/ ReaderTurn

(***************************************************************************)
(* The thread runs: a failed try, a sleep and a read that has bytes go on. *)
(* A port that would open does not fail for ever, and a channel whose Mac  *)
(* has gone is noticed.                                                    *)
(***************************************************************************)
Fairness ==
    /\ WF_vars(LoopTurn)
    /\ SF_vars(OpenPort)
    /\ SF_vars(LinkLost /\ ~(serving /\ port \in present))

Spec == Init /\ [][Next]_vars /\ Fairness

-----------------------------------------------------------------------------
(* Properties.                                                             *)

(***************************************************************************)
(* The n-th attempt after a port was lost, or after the start, is made no  *)
(* sooner than doubling from a second asks for, up to the cap - however    *)
(* the attempts before it were spent, on a missing port, on one that does  *)
(* not open, or on both by turns.                                          *)
(***************************************************************************)
BackoffPaces ==
    looppc = "try" /\ tries < MaxTries => slept + 1 >= Least(2 ^ tries, MAX_BACKOFF)

\* The Mac's port is pinned, or is there and ranks above every other.
MacIsBest ==
    /\ MacPort \in present
    /\ Pinned \in {MacPort, NoPort}
    /\ Pinned = NoPort => \A p \in present \ {MacPort} : Rank(MacPort) < Rank(p)

(***************************************************************************)
(* When the Mac serves and its port ranks best, the receiver is connected  *)
(* again and again, however many others are listed before it - unless it   *)
(* sits on a port that opened and stays silent, which it never leaves.     *)
(***************************************************************************)
ReachesTheMac ==
    <>[](serving /\ MacIsBest) => []<>(port = MacPort) \/ <>[](port \in Silent)

(***************************************************************************)
(* The reader catches up with what was written behind the header, again    *)
(* and again, unless the link is lost: feed leaves no whole frame behind.  *)
(***************************************************************************)
CatchesUp == []<>(port = MacPort /\ Aligned => Len(delivered) = Len(sent))
=============================================================================
