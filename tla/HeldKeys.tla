------------------------------ MODULE HeldKeys ------------------------------
(***************************************************************************)
(* What a user's hands hold on the Mac, and what the Windows desktop holds *)
(* because of it: reports with their content, from the capture threads     *)
(* (hid_reader.py, trackpad_reader.py) through the pause, the link and the *)
(* rate limiter to the injectors.                                          *)
(*                                                                         *)
(* A report is checked and written in two steps, since a pause or a loss   *)
(* may come between, and injected in one, which stop() on the main thread  *)
(* may run into.  MacSender, WinReceiver and Injector have what            *)
(* interleaves inside these steps, and which reports are refused.  A       *)
(* connection has its session: KeyBridge shows how it gets one.  Keys      *)
(* stand for the codes and modifiers of a report, all of them known to the *)
(* receiver and no two of them the same virtual key, and no more than a    *)
(* report has room for; SendInput inserts what it is given.                *)
(***************************************************************************)
EXTENDS RateLimiter, FiniteSets

CONSTANTS
    Keys,               \* keys of the Mac's keyboard
    HotkeyKey,          \* HotkeyMonitor._keycode
    HotkeyModifiers,    \* HotkeyMonitor._modifiers
    Buttons,            \* buttons of the pointing devices
    Bit,                \* the bit of TrackpadReader._buttons a button sets
    MaxInFlight         \* bound: reports captured and not yet read

Bits == {Bit[b] : b \in Buttons}

ASSUME HeldAssumption ==
    /\ HotkeyKey \in Keys
    /\ HotkeyModifiers \subseteq Keys
    /\ Buttons = DOMAIN Bit
    /\ Bits \cap Keys = {}
    /\ MaxInFlight \in Nat \ {0}

Keyboard == "keyboard"
Pointer == "pointer"
Devices == {Keyboard, Pointer}

VARIABLES
    keys,           \* keys the user holds
    buttons,        \* buttons the user holds
    reading,        \* HIDKeyboardReader._read_loop is running
    mask,           \* TrackpadReader._buttons
    forwarding,     \* mac Daemon._forwarding
    macLinked,      \* the Mac has a client
    winLinked,      \* the receiver has a connection
    process,        \* how far the receiver's process is with its stop()
    releasing,      \* what the release_all of its stop() is about to release
    sending,        \* reports past the check of the pause and not yet written
    wire,           \* reports written and not yet read
    prevKeys,       \* KeyInjector._prev_keys and _prev_modifiers
    prevButtons,    \* MouseInjector._prev_buttons
    down,           \* what the Windows desktop holds
    behind,         \* history: devices whose last event the desktop missed,
                    \* or has let go of since
    missed          \* history: buttons whose last event the tap missed

hands == <<keys, buttons>>
macVars == <<reading, mask, forwarding, macLinked>>
desktop == <<prevKeys, prevButtons, down>>
winVars == <<winLinked, process, releasing, desktop>>
vars == <<hands, macVars, winVars, sending, wire, behind, missed, limiterVars>>

Report == [dev : {Keyboard}, held : SUBSET Keys] \cup [dev : {Pointer}, held : SUBSET Bits]

HeldTypeOK ==
    /\ LimiterTypeOK
    /\ keys \subseteq Keys
    /\ buttons \subseteq Buttons
    /\ reading \in BOOLEAN
    /\ mask \subseteq Bits
    /\ forwarding \in BOOLEAN
    /\ macLinked \in BOOLEAN
    /\ winLinked \in BOOLEAN
    /\ process \in {"up", "releasing", "stopping", "down"}
    /\ releasing \subseteq Keys \cup Bits
    /\ sending \subseteq Report
    /\ wire \in Seq(Report)
    /\ prevKeys \subseteq Keys
    /\ prevButtons \subseteq Bits
    /\ down \subseteq Keys \cup Bits
    /\ behind \subseteq Devices
    /\ missed \subseteq Buttons

Init ==
    /\ LimiterInit
    /\ keys = {} /\ buttons = {}
    /\ reading = TRUE /\ mask = {} /\ forwarding = TRUE /\ macLinked = FALSE
    /\ winLinked = FALSE /\ process = "up" /\ releasing = {}
    /\ sending = {} /\ wire = <<>>
    /\ prevKeys = {} /\ prevButtons = {} /\ down = {}
    /\ behind = {} /\ missed = {}

-----------------------------------------------------------------------------
(* Capture: a user's event, as the device's thread gets to it.             *)

Flip(S, x) == IF x \in S THEN S \ {x} ELSE S \cup {x}

InFlight == Len(wire) + Cardinality(sending)

\* The thread is done with the report before.
CanCapture(dev) ==
    /\ \A r \in sending : r.dev # dev
    /\ InFlight < MaxInFlight

\* Mutant: a pause is not looked at.
MutForward(dev, held) ==
    /\ sending' = sending \cup {[dev |-> dev, held |-> held]}
    /\ UNCHANGED behind

\* _on_keyboard_report, _on_pointer_event: nothing is sent when paused.
Forward(dev, held) ==
    IF forwarding
    THEN sending' = sending \cup {[dev |-> dev, held |-> held]} /\ UNCHANGED behind
    ELSE sending' = sending /\ behind' = behind \cup {dev}

\* A key goes down or up.  The report has all keys held; once the read loop
\* has ended nobody hears of it.
KeyEvent(k) ==
    /\ CanCapture(Keyboard)
    /\ keys' = Flip(keys, k)
    /\ IF reading THEN Forward(Keyboard, keys')
                  ELSE sending' = sending /\ behind' = behind \cup {Keyboard}
    /\ UNCHANGED <<buttons, macVars, winVars, wire, missed, limiterVars>>

\* hid.read raises: the loop breaks, and nothing starts it again.
ReadError ==
    /\ reading
    /\ CanCapture(Keyboard)
    /\ reading' = FALSE
    /\ UNCHANGED <<hands, mask, forwarding, macLinked, winVars, sending, wire, behind,
                   missed, limiterVars>>

\* Mutant: an up event is not handled.
MutMasked(b, up) == IF up THEN mask ELSE mask \cup {Bit[b]}

\* Mutant: the number of a button, not its bit.
MutMaskedRaw(b, up) == IF up THEN mask \ {b} ELSE mask \cup {b}

Masked(b, up) == IF up THEN mask \ {Bit[b]} ELSE mask \cup {Bit[b]}

\* A button event in the tap's callback: the mask is kept even when nothing
\* is sent.
ButtonEvent(b) ==
    /\ CanCapture(Pointer)
    /\ buttons' = Flip(buttons, b)
    /\ mask' = Masked(b, b \in buttons)
    /\ missed' = missed \ {b}
    /\ Forward(Pointer, mask')
    /\ UNCHANGED <<keys, reading, forwarding, macLinked, winVars, wire, limiterVars>>

\* Movement and scrolling send the mask again.
Move ==
    /\ CanCapture(Pointer)
    /\ Forward(Pointer, mask)
    /\ UNCHANGED <<hands, macVars, winVars, wire, missed, limiterVars>>

\* The system disabled the tap by timeout: events are lost until the callback
\* enables it again, and the mask is left as it was.
ButtonMissed(b) ==
    /\ buttons' = Flip(buttons, b)
    /\ missed' = missed \cup {b}
    /\ UNCHANGED <<keys, macVars, winVars, sending, wire, behind, limiterVars>>

\* RFCOMMServer.send writes it, whatever has been toggled meanwhile, ...
Write(r) ==
    /\ macLinked /\ winLinked
    /\ sending' = sending \ {r}
    /\ wire' = Append(wire, r)
    /\ behind' = behind \ {r.dev}
    /\ UNCHANGED <<hands, macVars, winVars, missed, limiterVars>>

\* Mutant: the loss of a report goes by unseen.
MutLose(r) ==
    /\ sending' = sending \ {r}
    /\ UNCHANGED <<hands, macVars, winVars, wire, behind, missed, limiterVars>>

\* ... or it is gone: no client, no session, no channel, a failed write, or a
\* receiver that reads no more.
Lose(r) ==
    /\ sending' = sending \ {r}
    /\ behind' = behind \cup {r.dev}
    /\ UNCHANGED <<hands, macVars, winVars, wire, missed, limiterVars>>

-----------------------------------------------------------------------------
(* Pause, link and the Mac's process.                                      *)

\* toggle_forwarding
Toggle ==
    /\ forwarding' = ~forwarding
    /\ UNCHANGED <<hands, reading, mask, macLinked, winVars, sending, wire, behind, missed,
                   limiterVars>>

\* A key-down of the hotkey, autorepeat included, with its modifiers held.
Hotkey == HotkeyKey \in keys /\ HotkeyModifiers \subseteq keys /\ Toggle

MenuToggle == Toggle

\* Both sides are connected, with a fresh session and channel: _on_connected
\* resets.
Connect ==
    /\ process # "down" /\ ~macLinked /\ ~winLinked
    /\ macLinked' = TRUE
    /\ winLinked' = TRUE
    /\ wire' = <<>>
    /\ behind' = Devices
    /\ Reset
    /\ UNCHANGED <<hands, reading, mask, forwarding, process, releasing, desktop, sending,
                   missed>>

\* The Mac hears of the loss of the link, before the receiver or after it.
LinkLost ==
    /\ macLinked
    /\ macLinked' = FALSE
    /\ UNCHANGED <<hands, reading, mask, forwarding, winVars, sending, wire, behind, missed,
                   limiterVars>>

\* The Mac's daemon ends, by a crash or by stop(), and launchd starts another.
MacRestarts ==
    /\ macLinked' = FALSE
    /\ forwarding' = TRUE
    /\ reading' = TRUE
    /\ mask' = {}
    /\ missed' = buttons
    /\ sending' = {}
    /\ behind' = behind \cup {Pointer} \cup {r.dev : r \in sending}
    /\ UNCHANGED <<hands, winVars, wire, limiterVars>>

-----------------------------------------------------------------------------
(* The receiver.                                                           *)

\* inject_report and inject_pointer send the difference to what they remember.
Pressed(prev, held) == (down \ (prev \ held)) \cup (held \ prev)

Take(dev) ==
    /\ winLinked
    /\ wire # <<>>
    /\ Head(wire).dev = dev
    /\ wire' = Tail(wire)
    /\ UNCHANGED <<hands, macVars, winLinked, process, releasing, sending, missed>>

InjectKeyboard ==
    /\ Take(Keyboard)
    /\ Allow
    /\ prevKeys' = Head(wire).held
    /\ down' = Pressed(prevKeys, prevKeys')
    /\ UNCHANGED <<prevButtons, behind>>

InjectPointer ==
    /\ Take(Pointer)
    /\ prevButtons' = Head(wire).held
    /\ down' = Pressed(prevButtons, prevButtons')
    /\ UNCHANGED <<prevKeys, behind, limiterVars>>

\* A report is dropped, a release like a press.
Drop(dev) ==
    /\ Take(dev)
    /\ behind' = IF \E i \in 2 .. Len(wire) : wire[i].dev = dev THEN behind
                 ELSE behind \cup {dev}
    /\ UNCHANGED desktop

\* Refused by its number, or by the cipher.
Refuse == \E dev \in Devices : Drop(dev) /\ UNCHANGED limiterVars

RateLimited == Drop(Keyboard) /\ Reject

Memory == prevKeys \cup prevButtons

\* Mutant: the memory goes, the keys stay.
MutRelease_all(remembered) ==
    prevKeys' = {} /\ prevButtons' = {} /\ UNCHANGED down

\* release_all on both injectors.
release_all(remembered) ==
    /\ down' = down \ remembered
    /\ prevKeys' = {}
    /\ prevButtons' = {}

\* The read loop notices the loss of the link, or the port closed by stop():
\* what it had not read is lost.
Disconnect ==
    /\ winLinked
    /\ winLinked' = FALSE
    /\ wire' = <<>>
    /\ behind' = Devices
    /\ release_all(Memory)
    /\ Reset
    /\ UNCHANGED <<hands, macVars, process, releasing, sending, missed>>

\* stop() reads what release_all has to release, ...
StopRelease ==
    /\ process = "up"
    /\ process' = "releasing"
    /\ releasing' = Memory
    /\ UNCHANGED <<hands, macVars, winLinked, desktop, sending, wire, behind, missed,
                   limiterVars>>

\* ... releases that and clears the memory, whatever the client thread has
\* injected meanwhile.  The connection goes on until the port is closed.
StopReleased ==
    /\ process = "releasing"
    /\ process' = "stopping"
    /\ releasing' = {}
    /\ behind' = Devices
    /\ release_all(releasing)
    /\ UNCHANGED <<hands, macVars, winLinked, sending, wire, missed, limiterVars>>

\* The process ends: stop() is done, its join gave up, or it is killed.  Its
\* memory goes, the desktop stays.
ReceiverGone ==
    /\ process # "down"
    /\ process' = "down"
    /\ winLinked' = FALSE
    /\ releasing' = {}
    /\ wire' = <<>>
    /\ behind' = Devices
    /\ prevKeys' = {}
    /\ prevButtons' = {}
    /\ Reset
    /\ UNCHANGED <<hands, macVars, down, sending, missed>>

\* A new process, with new injectors.
WinStart ==
    /\ process = "down"
    /\ process' = "up"
    /\ UNCHANGED <<hands, macVars, winLinked, releasing, desktop, sending, wire, behind,
                   missed, limiterVars>>

Time == Tick /\ UNCHANGED <<hands, macVars, winVars, sending, wire, behind, missed>>

Next ==
    \/ \E k \in Keys : KeyEvent(k)
    \/ \E b \in Buttons : ButtonEvent(b) \/ ButtonMissed(b)
    \/ ReadError \/ Move
    \/ \E r \in sending : Write(r) \/ Lose(r)
    \/ Hotkey \/ MenuToggle \/ MacRestarts
    \/ Connect \/ LinkLost \/ Disconnect
    \/ InjectKeyboard \/ InjectPointer \/ Refuse \/ RateLimited
    \/ StopRelease \/ StopReleased \/ ReceiverGone \/ WinStart
    \/ Time

Spec == Init /\ [][Next]_vars

-----------------------------------------------------------------------------
(* Properties.                                                             *)

\* The last event of a device has arrived, with nothing of it on its way.
UpToDate(dev) ==
    /\ winLinked /\ process = "up"
    /\ dev \notin behind
    /\ \A r \in sending : r.dev # dev
    /\ \A i \in DOMAIN wire : wire[i].dev # dev

(***************************************************************************)
(* Once the last event of a device has arrived, the receiver remembers     *)
(* what the device says is held, and the desktop holds it, whatever was    *)
(* lost, refused or paused before: every report is the full state.  What   *)
(* the desktop holds besides is OrphansStay's.                             *)
(***************************************************************************)
DesktopAgrees ==
    /\ UpToDate(Keyboard) => prevKeys = keys /\ keys \subseteq down
    /\ UpToDate(Pointer) => prevButtons = mask /\ mask \subseteq down

(***************************************************************************)
(* A bit of the mask has a button held for it, and buttons that are all    *)
(* held have their bit in the mask - but for buttons whose last event the  *)
(* tap missed.  A missed release goes on being reported as held, in every  *)
(* later connection too; of two side buttons held, releasing one reports   *)
(* both released.                                                          *)
(***************************************************************************)
MaskFollowsButtons ==
    \A m \in Bits :
        LET sharing == {b \in Buttons : Bit[b] = m}
        IN  /\ m \in mask => sharing \cap (buttons \cup missed) # {}
            /\ sharing \subseteq buttons \ missed => m \in mask

(***************************************************************************)
(* A pause lets through what was captured before it, and nothing else: it  *)
(* adds nothing to what is in flight, and the desktop changes only for a   *)
(* report that was.  In particular it releases nothing: once all that has  *)
(* arrived, keys stay held until forwarding is resumed, the connection     *)
(* ends, or the receiver is stopped.                                       *)
(***************************************************************************)
PauseFreezes ==
    [][~forwarding /\ ~forwarding' /\ winLinked' /\ process' = "up" =>
         /\ InFlight' <= InFlight
         /\ down' # down => InFlight' < InFlight]_vars

\* What the desktop holds and the receiver does not know of.
Orphans == down \ Memory

(***************************************************************************)
(* The desktop is left holding what nobody will release only by a process  *)
(* that ends in the middle of a connection (killed, or the join of stop()  *)
(* gave up), or by a stop() whose release_all a report ran into; the end   *)
(* of a connection leaves nothing.  And what is left stays, over every     *)
(* reconnection, stop() and restart of the receiver, until the same key or *)
(* button is pressed again.                                                *)
(***************************************************************************)
LeavesOrphans ==
    /\ winLinked
    /\ ReceiverGone \/ (StopReleased /\ ~(Memory \subseteq releasing))

OrphansStay ==
    [][/\ Orphans' \subseteq Orphans \/ LeavesOrphans
       /\ Orphans \ Orphans' \subseteq Memory']_vars

(***************************************************************************)
(* A report is refused only when as many as the limit were let through     *)
(* within the last window: a second of quiet always opens the limiter.     *)
(***************************************************************************)
RejectsOnlyWhenFull == [][RateLimited => WindowFull]_vars
=============================================================================
